# A TLA+ model of the scomm SDK

The repository is an SDK for end-to-end encrypted messaging: it finds public keys
(*Discovery*) and keeps a person's private keys in a *vault* that several devices share.
This directory holds TLA+ modules for the parts where devices meet, the TLC runs that check
them on small instances, and proofs, checked by TLAPS, of what matters most.

`PROJECT.json` lists the components, runs, mutants, findings, hazards and theorems, and maps
every definition to the source lines it stands for. To check a run:
`tlc -config KeyVaultEdits.cfg MCKeyVault.tla`. To check proofs: `tlapm KeyVaultProofs.tla`.

## 1. The system

Applications sit on the SDKs, which talk to two services: a *vault host* that stores
encrypted vault records, and a *discovery directory* with a *mailer* that proves the ownership of a
mailbox. The vault's file format is another library, `ckvf`, outside the repository.

| Part | Source | State it keeps | Operations |
|---|---|---|---|
| Local-first vault, Rust | `crates/scomm-vault/src/key_vault.rs`, `local_vault_store.rs` | open vault; stored `container`, `synced_hash`, device key and slot id | create, open, adopt, clear, commit (import, retire, revoke, delete, metadata, remove device), pull, push, sync |
| Local-first vault, Dart | `packages/scomm_vault_client/lib/src/key_vault.dart` | the same, and `synced_container`, `pinned_msk` | the same, and pull and push over a store of the user's own |
| Folder and WebDAV stores | `packages/scomm_vault_client/lib/src/vault_sync.dart`, `crates/scomm-vault/src/vault_sync.rs` | a file per generation number, a head file | get head, get generation, put if absent, compare and swap the head |
| Vault host API | `vault_host_client.rs`, `.dart` | none | records, pairing mailbox, OPRF, mutations |
| Pairing over the host | `pairing/pairing_flow.rs`, `.dart` | offer, password; the mailbox is the host's | start, await response, fetch, approve |
| Pairing through a folder | `pairing/folder_pairing.dart` | a session file | start, poll, fetch, approve |
| CPace and boxes | `pairing/cpace.rs`, `pairing_protocol.rs` | none | key agreement from a password |
| Pepper slots, OPRF | `host_pepper_oprf.rs`, `oprf/*` | none | unlock with a password and the host's pepper |
| Discovery client | `crates/discovery/src/pubkey_client.rs`, `lib/src/client/pubkey_client.dart` | none | signed mutations, challenges, lookups |
| Transport | `crates/discovery/src/http.rs`, `lib/src/http/http.dart` | attempts of one request | send, retry, reconcile a replay |
| Mailer client | `crates/discovery/src/mailer.rs`, `lib/src/client/mailer_client.dart` | challenge ids, config cache | request and verify codes and ID tokens |
| Key selection, registry | `select.rs`, `lib/src/registry.dart` | none | choose an artifact |
| Identity, device, key lifecycle | `identity.rs`, `device.rs`, `key_lifecycle.dart` | none | decision tables |
| Encodings, documents, bindings, command line tools, engines | the rest | none | parsing, hashing, I/O |

**How they interact.** A device seals a new *generation* of the vault for every change; a
generation names its parent by hash. `push` offers the local generation to the host (or
store), which accepts it only on top of its own latest one; on a conflict push *rechains* its
backlog, *merges* it, or *restarts* the chain, and tries again. `pull` takes the host's latest
generation in place of the local one when nothing changed here, and merges otherwise. A new
device gets the vault by pairing: it opens a mailbox, an approving device pushes the vault
and answers under a shared password, and the new device reads the vault and *adopts* it, that
is, adds a slot of its own in a local generation. Devices never talk to each other directly.

**What is hard.** Every host or store call is an await point where other devices move; stores
are written key by key, so a crash leaves some written and some not; answers get lost after
the request took effect; a folder has no compare-and-swap; approvers race for one mailbox;
clocks on both sides run out independently. Calls on one `KeyVault` are exclusive
(`&mut self` in Rust, `_locked` in Dart), so one device runs one call at a time.

**What makes each part correct.** No accepted generation drops what an earlier one held; a
device never believes its work stored when it is not; all devices end on one generation; a
device can always open what it stored; a removed device cannot write; a new device joins only
with an answer under its password, and an approver reports success only if its answer was
collected, and then the device joins.

## 2. The modules

| Module | Models |
|---|---|
| `SharedVault` | What vault synchronisation promises: a growing set of facts, with nothing dropped |
| `KeyVault` | The Rust KeyVault on several devices with the record host; refines `SharedVault` |
| `MCKeyVault` | Instances of KeyVault with fewer inputs or fewer kinds of calls |
| `KeyVaultProofs` | Proofs about KeyVault |
| `DartVault`, `MCDartVault` | The Dart KeyVault on several devices with the record host: the pinned MSK, its rotation, the rollback check, adopting over a stored vault |
| `DartVaultProofs` | Proofs about DartVault |
| `Pairing`, `PairingProofs` | Pairing over the host's mailbox, and proofs about it, and about `Oprf`, `CPace` and `KeySelection` |
| `FolderSync`, `MCFolderSync` | The Dart KeyVault over a folder or WebDAV store; refines `SharedVault` where the store tests and writes in one step |
| `FolderSyncProofs` | Proofs about FolderSync |
| `FolderPairing`, `FolderPairingProofs` | Pairing through files in a shared folder, and proofs about it |
| `DirectoryCalls`, `DirectoryProofs` | The transport of the discovery and mailer clients, the calls that change something on their hosts, and proofs about them |
| `MailboxProof`, `MailboxProofs` | The Rust mailer client: challenges, grants and the cached configuration, and proofs about it |
| `PepperUnlock`, `MCPepperUnlock`, `PepperUnlockProofs` | Backup passwords and recovery codes: setting them, the host's pepper keys, and the recovery with one; and proofs about them |
| `Ristretto` | The group of the two OPRFs and of CPace |
| `Oprf` | The pepper OPRF and the identity OPRF: blinding, evaluation, proof, unblinding |
| `CPace` | CPace and the boxes of a pairing sealed under its key |
| `PairingCode` | The pairing password as a typed code and as a URI |
| `KeySelection` | The encryption keys of a discovery document and the choice among them |
| `MCAlgorithms` | Questions to the last five, and what their answers have to be; `PairingProofs` proves four of these five properties |

### KeyVault

`sealed` lists all generations ever sealed; a hash is a position in that list, so equal hashes
mean equal generations. `records` is the host's accepted generations, `store[d]` the durable
keys of a device, `vault[d]` the open vault. `pc[d]` is the await point of the running call,
with what the call holds in `seen`, `attempt` and `thenPush`.

| Code | Actions |
|---|---|
| `create`, `open` | `Init`, `Open` |
| `clear` | `Clear`, `ClearDevice`, `ClearSynced`, a store key each, in the code's order; the device key and the name of its slot count as one, since neither opens anything alone |
| `adopt` | `AdoptRead`, `AdoptKey`, `AdoptWrite`, `AdoptPersist` |
| `commit` and the edits on it | `Import`, `SetKeyMeta`, `ChangeKey`, `RemoveDevice`, `CommitFails`; with the quiet push as its next step |
| `pull` | `PullRead`, then `PullSame`, `PullRefused`, `PullFastForward` and `PullPersist`, or `PullMerge` |
| `push` | `Push`, `PushNothing`, `PushAccepted` and `PushSynced`, or `PushConflict`, `PushRead` and `PushRechain`, `PushMerge`, `PushRefused`, or `PushRestart` |
| host | `HostAccepts`, `HostRefuses`, `CurrentRecord`, from the fake host of the crate's tests |
| faults | `HostCallFails`, `AnswerLost`, `StoreWriteFails`, `Crash` |

`sync` ignores the outcome of its pull and pushes; `commit` ignores every error of its push.
What is inside a generation is reduced to facts (a key, its status, its tombstone: these only
grow), metadata per key, and device slots. Which slots `mergeOnto` keeps is `ckvf`'s choice:
the model allows those of the head and the union.

`remove_device` asks nothing of the slot it is given, so that `RemoveDevice` also removes the device's own. Such a
device goes on with the vault it has open, and has a stored vault that it cannot open again.

Not modelled: a vault without a host binding (push is then a no-op), adopting over a stored
container (`DartVault` has it), a conflict answer without `head_generation`, a host that has no record after
a conflict, signatures, preferred keys, the device list extension, and rotation of the vault key.

### DartVault

`sealed`, `records`, `store[d]`, `vault[d]`, `pc[d]` and `attempt[d]` are as in KeyVault. The Dart client
also stores the vault it last synced (`base`, for `synced_container`), whose generation number is what
`_assertNotRolledBack` compares, and the MSK it last accepted (`pinned`). An MSK goes by the generation that
introduced it, a slot by the one that added it. `inHand[d]` is a vault that pairing or recovery has
opened and that is not adopted yet; a device is given one when it has nothing stored, when its slot opens
the stored vault no more, or when it was removed at the host.

| Code | Actions |
|---|---|
| `create`, `open`, `clear` | `Init`, `Open`, `Clear` |
| `adopt` | `ReceiveVault`, `Adopt`, over an empty store or a stored vault |
| `commit` and the edits on it | `Edit` (one or two generations), `RemoveDevice` (of any slot, its own too) |
| `rotateVekToThisDevice`, `revokeDevice` (of another device's slot), `rotateToHybridMsk` | the actions of those names, with the two rows above in `Edits` |
| `pull`, and `sync`, which pulls and then pushes | `PullSame`, `PullForward`, `PullMerge` |
| `push` | `Push`, `PushNothing`, `PushStored`, or `PushConflict` and `PushRechain`, `PushMerge`, `PushRefused`, or `PushRestart` |
| host, in the manner of the tests' fake host | `HostAccepts`, `HostRefuses`, `CurrentRecord` |
| faults | `HostCallFails`, `AnswerLost`, `Crash`, `HostGoesBack`; a failing or interrupted store write is in `CutShort` |

Calls take turns under `_locked`, and no other device sees a device's memory or store, so that a step
reaches from one answer of the host to the next: a pull is one step, a push has one for each request,
and the quiet push of a commit is a turn of its own (`Push`). The store writes of a step are a sequence
of states, `ws`; `CutShort` leaves any proper prefix of them and ends the call or the process. `faults` is the set of the
kinds of faults that have happened, so that a property can say which of them it leaves out. A generation that is
sealed on the way to the stored one is seen by no one, and its child has `Unstored` as its parent.
Which slots and which MSK a merge takes is `ckvf`'s choice; the model allows those of either side.

Not modelled: `attachOpened` and `importExport`, pepper slots, `create` over an older store, the merge
base (what is in `base` decides only metadata), the slots that `revokeDevice` would keep for devices that
publish an HPKE key (no device in the source does), signatures, a change of `syncStore` (`FolderSync` has the
stores), and the slot id of an older slot beside the key of a new one, which opens nothing and is
written as no slot.

### Pairing

`mailbox[s]` is the host's record of a session, `stored` says whether the vault is on the
host. `newpc[s]` and `pc[a]` are where a new device and an approver stand. Cryptography is
reduced to one bit of an answer: whether it was made with the session's password. The host
hands an answer out once, so the poll that gets it also consumes it. Deadlines are actions
that may happen at any moment (`Expire`, `Deadline`).

### FolderSync

`head` and `gens` are the head file and the generation files; `tmps` the `.tmp` files that all
processes on a folder share by name. A run has one kind of store: an `atomic` one tests and writes in one step, as
`WebDavVaultSync` on a server that honours `If-None-Match: *` and `If-Match`; otherwise
`FolderVaultSync` looks, writes and renames in three. `store[d]` has `container`, `synced_hash`
and `synced_container` (`base`), which `_markSynced` writes in two steps. A shared folder
file is named by the generation's *number*, not by its hash, which is what several of the
findings come from.

Not modelled: unlock slots (the devices have joined before), create, adopt and clear and the
pinned MSK, which `DartVault` has, bytes torn by a crash inside one write.

The comparison of `If-Match` is that of a server which takes the hash of the head for its `ETag`, as the one of the
tests does: `vault_sync.dart:282` sends the hash it expects and never the `ETag` it was given.

### FolderPairing

`file[s]` is the session file. Writing it (a `.tmp` file and a rename) is one step. The check
of the identity id is left out: all devices have the same identity.

### DirectoryCalls

`pc[c]`, `attempt[c]` and `had_connection_failure[c]` are the local state of `pubkeyRequest` for one
call, `net` the requests under way, among them those of attempts the call has given up.
The Rust and the Dart client run side by side (`Lang`): only the Dart one sends an
`Idempotency-Key`, only the Rust one takes an unreadable body for an empty one. Of the operations there is
one of each shape: a code request, its answer, arming with the grant, setting and withdrawing a
key, and a signed question. `TakeEffect` and the other steps of the hosts are external: they accept
a nonce once, repeat their answer under a known key, and ask of an operation what its
callers expect. `answer[c].after` says whether an earlier attempt had taken effect when the
host answered; no step reads it. A host is taken to look up a nonce or a key before it checks the age of a request or
its grant; one that did so the other way round would refuse repetitions that the model answers.

Not modelled: requests that only read, the resource and challenge calls of the v2 interface.
With `wasm` there are no timeouts; the model's clients are native.

### MailboxProof

`challenges` is the mailer's list of what it was asked for, `otp_challenge_ids` and
`challenge_mailboxes` are the maps of the client, `now` its clock, `id_token_config` and
`id_token_config_until` its cache, and `fetch` the configuration on its way to it. The transport
appears by its effect: a request makes one challenge or two, and the client hears of one or of
none. The client's methods take `&mut self`, so a call begins when the one before it is over;
only the clock runs while `fetch_id_token_config` waits. The mailer is external: it gives out one
grant for the right answer to a challenge. `StoreConfig` is two assignments with an addition
between them that panics on a large `max-age`; the first has then been made.

Not modelled: the Dart client's `rememberOtpChallenge`, whose calls may overlap, and the
parsing of tokens.

### PepperUnlock

`record` is the host's vault: its pepper slots and its version, the number of its generation. `local[d]` is a device's
container, by what `push` and `pull` ask of it: the version under which the host has it (`stored`), or else the version it
is a child of (`parent`), and the version that `synced_hash` names. `served` and `current` are the host's pepper keys;
`adding[d]` is a call that sets a secret, `rec` the recovery of a new device. A container's slots
are a list for each method: the code replaces, and tries, the slots of one method, and never asks how slots of
two methods lie to each other.

| Code | Actions |
|---|---|
| `pepper_keys`, asked by the caller before it sets a secret | `AskKeys` |
| `replace_pepper_slot` within `commit` | `Wrap`, `WrapFails` |
| the push of that commit, and the return | `PushQuietly`, `PushQuietlyFails`; `Dies` if the process ends in between |
| `push` | `Resolve` (a conflict, with the rechain or the merge it leads to), `Push`, `PushFails` |
| `pull`, `adopt` | `Pull`, `Adopt` |
| `open_host_vault_with_host_pepper` | `Begin`, `ReadRecord`, `ReadFails`, `TrySlot`, `SlotGone`, `EvaluationFails` |
| pepper keys of the host | `Rotate`, `Drop` |

`commit` drops the result of `push_quietly` (key_vault.rs:409), so that `add_recovery_code` returns its code whatever the
push came to. `Resolve` belongs to any push, with a call around it or not. What a device's store
does between two writes, and attempts that run out, are `KeyVault`'s.

Not modelled: the vault around the slots, the slots of devices, what is inside
an evaluation, which is `Oprf`'s, and the Dart client, whose commit passes the errors of its push on (section 4).

### Ristretto, Oprf, CPace, PairingCode, KeySelection

These are functions, and their modules are operators. An element of the group is written by its
discrete logarithm to the base, modulo a small prime `q` in place of the group's order, so that
`mul` multiplies and `add` adds. That leaves the equations and the checks as they are in the code,
and takes away that logarithms are hard to find. Hashes and the keys derived from them are tuples of what they are
made from; an oracle supplies a value where the code computes with a hash. It is one of a few
values that exist for every `q`: zero, one, and the two last scalars. A result that may be an error is a set
with at most one element. `PairingCode` does its arithmetic on bits and bytes as the code does, on codes of
eight characters; `KeySelection` sorts by the code's comparison, and its lists are functions of the places
in the document, so that a filter takes places away and leaves the order of the others.

Not modelled: `PairingProtocol`'s signature over the transcript, documents beyond their
encryption keys, the registry of the Dart SDK.

## 3. Runs

| Run | What it shows | Bounds |
|---|---|---|
| `key_vault_faults` | the open vault is the stored one; a call stores what the device's own slot opens; every served device ends on the host's generation | 2 devices, 1 key, 2 calls (imports, failing changes, clears, removals of the own slot), 1 fault of any kind, fairness |
| `key_vault_edits` | retries extend the head; metadata entries are kept; a removed device cannot write; synced work is served; refines SharedVault | 2 devices, 1 key, 2 calls of any kind, 1 network fault |
| `key_vault_torn_pull` | a finding | 2 devices, 2 keys, 2 calls, 1 crash |
| `dart_vault` | a call stores what the device's own slot opens; no rollback is reported that was none; without faults an MSK a device holds is not reported as changed; a revoked slot is not merged back in; changes are kept, also by devices of a host that goes back | 2 devices, 1 change, 2 calls of any kind (1 if a write is cut short or the host loses records, and one more after a half-done clear), 1 fault of the network, a store write, the process, or a host that loses records |
| `pairing` | joined means approved; Ok means collected; an answer finds its vault; an approval reported Ok ends in a joined device | 1 session, 3 approvers, 2 failing calls, fairness |
| `folder_sync` | in an atomic store: readable head; no rollback is reported; synced work is shared; refines SharedVault; without faults all work is published. In a folder: devices that race or stop between two file operations never leave the head without a file | 2 devices, 2 keys, 4 calls, 1 fault (of the network, or in a folder also a crash), 6 generations in a folder, fairness |
| `folder_sync_wedge` | a finding | 2 devices, 2 calls, 1 network fault, fairness |
| `folder_pairing` | joined means approved; Ok means joined | 1 session, 3 approvers, 2 stops |
| `directory_calls` | success means one effect; a refusal is no echo of a success; calls with a timeout return | 2 calls of any kind from either client, 2 attempts, any loss and delay, fairness |
| `mailbox_proof` | a grant fits its call; the newest challenge heard of is answered; a right answer is lost only with its reply; the cache is fresh | 2 mailboxes, 3 purposes, two of them of the vault, 3 challenges, 1 lost answer, clock 0 to 3, a `max-age` of 1 or one that overflows |
| `pepper_unlock` | a secret opens its slot; no failing push loses a secret of the record; a replaced one does not come back | 2 devices (interchangeable), 2 methods, 2 pepper keys, 2 secrets, 1 recovery, 1 failing call or process that ends |
| `algorithms` | an honest evaluation has one value and no other is accepted; a proof is of one evaluation under one key; paired devices have one key exactly with one password; a password arrives as it was; the best key is chosen | `q` = 5, codes of 8 characters, URIs with 2 bytes, documents of up to 3 keys |

**Why these bounds.** A conflict needs two devices and one edit on each; a merge of a merge needs a
further push, which is not counted against `MaxCalls`. Two push attempts in place of four
reach both the retry and the exhausted push. Every fault kind is needed once for its own
effect, and mutants of each property are found within the bounds. Two calls let a device of the Dart vault
revoke, rotate or clear while another edits; adopting, syncing and pushing are not counted. Two attempts in place of four give
a directory call an attempt that is late and one that follows it; two calls let a key be set and
withdrawn, one grant be used twice, and a code be requested and answered. Sessions of a pairing share
nothing but their approvers and, over the host, the pushed vault, so one session with more approvers
shows more than two sessions. Three challenges
let a mailbox have a forgotten one, a remembered one and one of another purpose; two secrets of one
method, or of two, are what replacing and trying in turn are about; a group of five elements has
an identity, a generator and others, and every scalar is tried. What depends on more devices, edits, sessions or attempts is what the
proofs are for.

**Fairness.** A running call is a loop of awaits that end (`WF` on the steps of a call). For
convergence the application is assumed to sync again and again (`SF` on starting a sync, because
another call of the device may keep it from starting), which is what
`sync` is made for. Pairing assumes that both loops run and that clocks go on.
A directory call goes on as long as its attempts have a timeout, which all but those of the Dart
mailer client's own `Dio` have. Faults are
bounded and never assumed to happen or not to.

**Deadlock** is not checked: directory calls that have all returned, a vault that was cleared before its first push, a pairing whose
sides have ended, and devices that are synced with no calls left have nothing more to do.

## 4. Findings

Each is a run whose property quotes what the repository says and that TLC refutes.

* `key_vault_torn_pull`: pull notes the head as synced before it stores it; after a crash
  between the two the next push drops what another device published.
* `folder_sync_wedge`: after an upload whose answer was lost, a further edit can never be
  published.

Other things the models show have no run of their own.

*Vault.* `adopt` adds a slot in a local generation only: a device that syncs before its first push,
or whose first push meets a newer head, is told that it "no longer has a slot in the stored
vault" (key_vault.rs:802), where it never had one. A merge takes the local metadata entry even
where only the other side changed it, so that an old value can come back; the comment on
`_mergeNormalized` says that local entries win. `StoredVaultOpens` has two excuses, and both happen. A device may remove
its own slot, since `remove_device` (key_vault.rs:539) and `removeDevice` (key_vault.dart:466) check nothing, where
`revokeDevice` refuses it: the vault stays open, can be edited and pushed, and does not open again after a
restart. And a `clear` that fails half-way leaves the vault open beside a store without its key: the next commit stores
a container that nothing on the device opens. A third case is not a step that stores a vault: an adoption over a stored
vault that is cut short between its key and the name of its slot (key_vault.rs:848, or key_vault.dart:238 with
`_writeDevice`) leaves the old vault stored under a key it does not have.

*MSK.* `revokeDevice` pins the new MSK before the vault that has it is published (key_vault.dart:560). When another device
has pushed meanwhile, the revoking device's push reads a head under the old MSK and takes it for a changed one: it and every later
sync fail with `msk_changed`, though the host's MSK is the one the device synced, and the revocation never
reaches the host; only `clear` removes a pin, with everything else. `rotateToHybridMsk` pins its MSK only once a push
was answered (key_vault.dart:763, 809): if that answer is lost, a pull after one more edit reports the device's own MSK as changed,
which is why `HeldMskIsAccepted` is stated for runs without faults.

*Folders.* Two processes can both pass the comparison in `compareAndSwapHead`, so that the second
rename replaces a head it was not built on, and what the first published can no longer be
reached (that is why `HeadIsReadable` speaks of atomic stores only). When a
device restarts the chain of a store that was emptied, the other devices throw
`generation_rollback` from then on (key_vault.dart:904, 973). A second approver may replace the
file of a session that is COMPLETED by its own answer (folder_pairing.dart:307), and the first approver
then times out, though the device has joined with its answer.

*Requests.* The Rust helper, which http.rs:104 calls "matching Dart", sends no `Idempotency-Key`: a
repeated code request mails two codes, and a code whose answer was lost is refused when sent
again; `OkTookEffectOnce` and `EffectIsReported` are therefore stated for signed operations and
the Dart client. `verify_id_token` does not compare its purpose with that of the challenge:
a vault call can be handed the grant of another vault operation, and `GrantFitsItsCall` says only that it is not handed one of no
vault operation. A `max-age`
that is negative or huge makes `fetch_id_token_config` panic after the new configuration is stored and
before its time is (mailer.rs:338); what is served stays right, since the time left over has
passed.

*Peppers.* The Rust `commit` drops every error of its push, so that the user sees a new recovery code also when the push
failed or its answer was lost. The Dart one does not: `_pushQuietly` rethrows all but `network_error` (key_vault.dart:888),
so that after a success whose body is cut off (`bad_response`) the host has the new slot, the old one is gone, and
`addRecoveryCode` throws in place of returning the code. In both clients a process that ends inside the call loses the code, which
is why `EverySecretIsKnown` leaves out the secrets in `lost`. A recovery reports the error of the last slot it tried,
so a pepper key that is gone shows as a wrong password when another slot follows. A
`PrecomputedPepperOprf` cannot serve `replace_pepper_slot`, as the comment at key_vault.rs:596
has it, because the slot id is made inside the call.

*Keys.* Among keys of equal rank a document's last one is chosen without a preference, and its first one with
a preference (select.rs:130, 159); only the first algorithm of a key counts.

## 5. Proofs

TLAPS checks these for every value of the constants that satisfies the modules' assumptions.

**`KeyVaultProofs`**: `TypeCorrect`. Type correctness alone is not inductive: a step uses the
record its call has read and the vault it has open. The invariant is
`Typed == TypeOK /\ CallsHoldTheirData`. Each action either edits the open vault (`CommitType`),
seals one generation or moves a counter; lemmas about those building blocks
(`SealOne`, `PersistType`, `NextAttemptType`, ...) carry the cases. Then, in the order of its
sections:

- `SyncedHashOnHost`, from `AllOnHost`: whatever a call read or was told was accepted is among
  the records. All faults.
- `NothingOverwritten`, `MetadataIsKept` and `SyncedIsServed`, from three facts together: every generation holds
  what its parent holds (`ChainGrows`), every device holds what it noted as synced (`AllHeld`),
  and accepted generations grow. They are stated of a generation's `Content`: its facts and which keys have
  metadata, but not which metadata, since a merge may bring an older entry back. The second is what a torn pull breaks, so they assume that store
  writes do not fail and processes do not crash (with either, `HostKeepsFacts` is false:
  `key_vault_torn_pull`).
- `OpenVaultIsStored`, all faults: the case that needs care is the call cut short between
  two writes.
- `RetriesExtendHead`, all faults, from `Numbered` and `AllFollow`: the n-th record has the
  number n, and what a push resolved names what it read as its parent.
- `StoredOpens`, all faults, from `AllReady`: what a call is about to store the device's slot opens, and
  while a vault is adopted or cleared there is no container.
- `RemovedStaysOut`. A device that was removed may still seal generations, and rechain and
  restart put them on a head it cannot open. The host refuses them only by the parent's hash, so
  the invariant says of each generation the device may offer, and opens, that its parent is one it opens, or
  is buried under a later record (`AllEntitled`); what it has noted as synced it opens as well, while its slot opens what it
  stores (a device that has removed itself is out of this), and while a record is applied that is the record or an older one (`AllReading`).
  Two further facts carry it: records are chained
  by their hashes (`Chained`), and a slot is known to its device alone until a generation with it
  is accepted (`AllPrivate`). No store faults, no crashes.

- `Implements`, the refinement of SharedVault, without store faults
  and crashes. What a pull or an adoption is about to store holds what it replaces (`AllForward`);
  with the invariants above, a step then edits, publishes or leaves, or changes neither
  the facts a device stores nor those the host serves.

`StepKeepsOthers` reduces every step to the device that takes it.

**`DartVaultProofs`**: `HostIsNotBlamed` with all faults, and `NoChangesLost` as long as no
write is cut short. A lemma says of every action what it comes to, whatever it writes on the way (`Acts`): it
seals at most one generation, and what it stores as `synced_container` is one the host has by then
or the one noted before (`Storable`). That is enough for types and for `HostIsNotBlamed`, since the n-th record has the number
n (`Numbered`). And where no write is cut short, a step is one of six (`Whole`): it saves a generation of its own,
takes the host's head, notes a generation as synced, adopts, forgets or rests. For each of these the
invariant `Sound` is shown: what is open is stored
(`OpenIsStored`), a generation has the changes of its parent (`ChainsGrow`), the stored vault those of the generation last
synced (`WorkIsHeld`), a record those of the records before it (`RecordsGrow`), and what was synced
is a record (`SyncedIsRecorded`, until the host goes back). A head that is taken over replaces the generation last synced;
that one is a record, or, where the host went back and has a head below it, the head is
refused for its number.

`RevokedIsOut` holds with all faults, so that its invariant `Tidy` has to be true also of what a call that was cut short
leaves behind. The root of a generation (`Root`) is the one that introduced its MSK, the hybrid half left
aside: the creation or a revocation. Where a generation is still to be found, a slot from before its root is one the root
kept (`KeptBy`, `RootsKeepOut`). A merge or a rotation must not bring another one back, and it does
not, since a device only takes over and edits what has the root it already has, as far as it accepts that MSK and has a slot
there (`OneRoot`). For this no two devices may have a slot in common (`SlotsDiffer`), and a device's slot, if it is older than the root
of what the device has, is one that root kept (`SlotHeld`), though the device may have removed it from its vault since. Every
step, whole or cut short, is again one of a few kinds (`Does`), for each of which `Tidy` is shown. `StoredOpens`, with all faults, follows
from the kinds alone: a step that stores a vault without the device's slot goes on from an open one (`GoesOn`), removing the slot or having lost it.

`HeldMskAccepted` is about runs without faults, as the property is. A device whose vault has another MSK than the one it
pinned has introduced that MSK and published it nowhere, or it has no slot in anything that others
have (`Told`); in both cases the host's head is not one that it opens and whose MSK is that of its own vault. It rests on `Tidy`
and `Sound`.

**`PairingProofs`**: `OnlyApprovedJoin`, `OkMeansCollected`, `VaultIsThere` from one inductive
invariant: answers come from approvers that had pushed, only the owner collects, and an
approver that polls has its own answer in the mailbox.

Its second half is about the algorithms. `EvaluationsAreRight`, `ProofsBind` and `DevicesAgree` hold for
every `q` that `PrimeOrder` of Ristretto allows: no product of two nonzero scalars is a multiple
of `q`. The properties are stated of a question that has been asked, so that each proof is of one question with
any elements and scalars in it; the lemma `Evaluations` also allows every nonce and every value of the oracle, where the
question has a few. What they rest on:

- The scalars are a field. `ReduceFactor` moves a remainder in and out of a product; with it come the laws of
  sums and products. A nonzero factor can be cancelled (`MulCancels`, from `PrimeOrder`), so that multiplying by it
  maps the nonzero scalars one to one into themselves and reaches 1 (`Inverts`, by `FS_Injection`).
- Over that field a proof passes `verify_proof` exactly if the public element and the composites are the ones it was
  made for (`ProofAccepted`), and unblinding takes out what blinding put in (`Unblinds`). The
  identity is left to the decoding, which refuses it (`PepperIsRight`, `IdentityIsRight`).
- Two challenges that the same commitments answer coincide unless the evaluation is by the key (`OneChallenge`,
  `AtMostOne`); if it is, each challenge has the response that solves its equation.
- The two ends of CPace derive the same key exactly if generators and elements fit (`Approves`, `Finishes`).

That a hash takes different inputs to different values is how hashes are modelled, and not proved.

`BestIsChosen` holds for any set of algorithms; its lemma `Selections` is about a document of any length.
The code compares indexes that count the usable keys only, the property places in the document: the
two are in the same order (`IndexGrows`, by cardinalities), so that algorithm, family and index decide as the single
number `Weight` does (`MostWorth`).

**`FolderPairingProofs`**: `OnlyApprovedJoin`, `OkOnlyIfJoined`. Anyone may replace a session
file at any time, so the invariant says little of the file: only a device that joined has ever
written COMPLETED, and what a device opened it has read under its own password.

**`DirectoryProofs`**: `DoneOnce`, `RefusedIsRefused`, for any number of calls and attempts. Each
attempt is sent once, so what took effect is no longer under way (`RequestsWereSent`); a host keeps
its answer, or the nonce, of a call it can recognise (`EffectsAreKept`); and an answer under way, kept or
returned is true of its call (`AnswersAreTrue`, `ReturnsAreTrue`).

**`FolderSyncProofs`**: `NothingMissing` for every kind of store and `HeadStaysReadable` for
an atomic one, with any faults. The first follows from what is about to become
the head having a file (`HeadsHaveFiles`: files are replaced and never removed), the second
from no file being replaced (`FilesAreFinal`). The rest is about atomic stores. `StepEffects` says what the steps of one
device come to there: a call ends, reads the head, puts a file, notes a head, seals, or swaps. What a push
offers follows the head it has read, and that one is no newer than the head (`InOrder`, the theorem `OffersFollow`), so that
the head's number only grows, and with it whatever was noted as synced stays at or below it (`NothingNewer`): `NoRollback`, under all
faults, for a store that was not emptied (a restarted chain begins with number 1 again). `SyncedIsShared` and `Implements`, the refinement of
SharedVault, follow from `NothingDropped`: a generation has the facts of its parent, what was noted
as synced is in the head, and a device's container has what it noted, except between the two writes of a pull,
when the head it takes over has what the container had. A crash there leaves a device for which that is no longer so, and both
theorems exclude it; a lost answer and a failing call are allowed.

**`MailboxProofs`**: `GrantsFit`, `RightAnswersCount`, `NewestIsAnswered`, `ServedIsFresh`. What the
client remembers is the last challenge of which it was told (`NewestRemembered`), and a
configuration that is fetched replaces one that is served no more (`ConfigIsRead`), which is why
the time that a panic leaves beside the new configuration does no harm.

**`PepperUnlockProofs`**: `RightSecretOpens`, `NobodyIsLockedOut`, `ReplacedIsGone`, with any faults. For the first, the slots
before the one that is tried and are of the typed secret have failed (`Tried`). For the second, the promise
has to be made of every slot in any container, since a later push of any device brings it to the record, and of secrets
that were made and no others (`SecretsInv`, `NewSlotIsWrapped`). For the third, a container that the host would take, now or
after a rechain (`MayExtend`), has of each method the record's slots or only newer ones (`Replaces`); codes are numbered by
their commits, so that a new one is newer than all, and a container that the host has, or has noted as synced, is placed by its version
(`OnRecord`). Once a device has merged its work into another's, both sides' slots may stay, which the property leaves out.

The type invariants of the modules above are parts of these inductive invariants, so that they
are proved.

**Only model-checked**: convergence, termination and everything else under fairness, which
the prover has no rules for; and of the algorithms `PasswordSurvivesTransfer`. It parses a code and
a URI character by character, with recursion over sequences; a proof is an induction over the sequence, and the
induction theorems take an operator, which the provers cannot instantiate.

## 6. Not modelled, and what is left

In the order of their worth:

1. The Dart pairing flow as a variant of Pairing, and composed with DartVault; `attachOpened` and
   `importExport`; pepper slots in the Dart client, with the errors its commit passes on; `synced_container` as merge base of
   the metadata.
2. `VaultHost`: the error codes of `vault_host_client`, with the mutations (authorize and revoke
   device) as the Dart and Rust clients send them.
3. The decision tables of `identity.rs`, `device.rs` and `key_lifecycle.dart` and the registry: they
   have no state, and a model of them would be their text over again.

Canonical bytes, documents, signatures, the engines, the bindings and the command line tools turn strings
into strings or pass calls on; they have nothing to interleave. `ckvf` is outside the repository.
