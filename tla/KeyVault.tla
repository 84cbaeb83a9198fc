------------------------------ MODULE KeyVault ------------------------------
(***************************************************************************)
(* The local-first vault of crates/scomm-vault/src/key_vault.rs on several *)
(* devices, and the record host they converge through.                     *)
(*                                                                         *)
(* Every change seals a new generation. `sealed` is the sequence of all    *)
(* generations any device ever sealed, in the order of sealing: a hash is  *)
(* a position in it, so that two generations have the same hash only if    *)
(* they are the same one. A device owns a store (the keys `container` and  *)
(* `synced_hash` of local_vault_store.rs) that survives a crash, and the   *)
(* vault it has open. A call on a KeyVault is exclusive (&mut self), so a  *)
(* device runs one call at a time; pc[d] is the point where the running    *)
(* call next awaits the host or the store, and between two such points the *)
(* other devices move.                                                     *)
(***************************************************************************)
EXTENDS Naturals, Sequences

CONSTANTS
  Device,        \* devices (or installs) that share the vault
  Creator,       \* the device that created it
  Key,           \* private keys that can be imported, retired, ...
  Faults,        \* the faults a run admits, a subset of FaultKind
  PushAttempts,  \* times a push offers a generation; 4 in the code
  MaxCalls,      \* bound: application calls other than sync and push
  MaxFaults      \* bound: faults

FaultKind == {"network", "store", "crash"}

ASSUME CreatorAssumption == Creator \in Device
ASSUME FaultsAssumption == Faults \subseteq FaultKind
ASSUME BoundsAssumption == /\ PushAttempts \in Nat \ {0}
                           /\ MaxCalls \in Nat
                           /\ MaxFaults \in Nat

\* No hash: an absent store key, an empty host, a closed vault, no parent.
None == 0

\* What a generation says about a key. Facts are never taken back: deleting a
\* private key leaves a tombstone, and a retired or revoked key stays so.
Fact == {"key", "retired", "revoked", "tombstone"} \X Key

VARIABLES
  sealed,    \* every generation sealed so far; a hash is an index of it
  records,   \* the host's accepted generations: records[g] is a hash
  store,     \* store[d]: the device's durable keys
  vault,     \* vault[d]: hash of the generation open in memory, or None
  pc,        \* pc[d]: where the running call stands
  seen,      \* seen[d]: hash the running call last read from the host
  attempt,   \* attempt[d]: number of the running push attempt
  thenPush,  \* thenPush[d]: the running pull is the first half of a sync
  calls,     \* application calls made so far, syncs and pushes not counted
  faults     \* faults so far

vars == <<sealed, records, store, vault, pc, seen, attempt, thenPush,
          calls, faults>>

local == <<seen, attempt, thenPush>>

-----------------------------------------------------------------------------
(* Generations.                                                            *)

Hashes == 1 .. Len(sealed)

Generation == [gen   : Nat \ {0},         \* container.generation
               prev  : Nat,               \* previous_generation_hash
               facts : SUBSET Fact,       \* keys, statuses, tombstones
               meta  : [Key -> Nat],      \* priv:scomm.* data; 0 is absent
               slots : SUBSET Nat]        \* device unlock slots

\* A device slot goes by the generation that added it, which gives every
\* create and adopt a slot of its own; the creator's is FirstSlot.
FirstSlot == 1

Facts(h) == IF h = None THEN {} ELSE sealed[h].facts

\* The child every ckvf mutator seals: next generation number, the parent's
\* hash, and the changed payload.
Child(parent, F, m, S) == [gen   |-> sealed[parent].gen + 1,
                           prev  |-> parent,
                           facts |-> F,
                           meta  |-> m,
                           slots |-> S]

\* rechain(local, g, p): the same payload under another parent.
Rechained(h, g, p) == [sealed[h] EXCEPT !.gen = g, !.prev = p]

\* merge_normalized followed by ckvf's merge_onto: a child of the head with
\* the facts of both sides; app metadata is united with the local entry
\* winning, and no base is consulted. Which slots ckvf keeps cannot be seen
\* from the calls made here: those of the head, or those of both sides.
MergedSlots(head, h) == {sealed[head].slots, sealed[head].slots \cup sealed[h].slots}

\* Wrong on purpose: the local metadata replaces the head's.
MergedMetaReplaced(head, h, S) ==
  Child(head, sealed[head].facts \cup sealed[h].facts, sealed[h].meta, S)

Merged(head, h, S) ==
  Child(head,
        sealed[head].facts \cup sealed[h].facts,
        [k \in Key |-> IF sealed[h].meta[k] # 0
                       THEN sealed[h].meta[k]
                       ELSE sealed[head].meta[k]],
        S)

\* The hash of the generation sealed by this step.
NewHash == Len(sealed) + 1

-----------------------------------------------------------------------------
(* The host.                                                               *)

HeadGeneration == Len(records)

CurrentRecord == IF records = <<>> THEN None ELSE records[Len(records)]

\* A generation the host already holds is accepted again.
IsDuplicate(h) == /\ sealed[h].gen <= HeadGeneration
                  /\ records[sealed[h].gen] = h

Extends(h) == /\ sealed[h].gen = HeadGeneration + 1
              /\ sealed[h].prev = CurrentRecord

\* records/put: duplicates and extensions are accepted.
HostAccepts(h) ==
  \/ /\ IsDuplicate(h)
     /\ UNCHANGED records
  \/ /\ ~IsDuplicate(h)
     /\ Extends(h)
     /\ records' = Append(records, h)

HostRefuses(h) == ~IsDuplicate(h) /\ ~Extends(h)

-----------------------------------------------------------------------------
(* Types and the initial state.                                            *)

PC == {"idle", "pull_apply", "pull_persist", "push_put", "push_synced",
       "push_read", "push_resolve", "adopt_key", "adopt_write",
       "adopt_persist", "clear_device", "clear_synced"}

TypeOK ==
  /\ sealed \in Seq(Generation)
  /\ records \in Seq(Hashes)
  /\ store \in [Device -> [container : Hashes \cup {None},
                           synced    : Hashes \cup {None},
                           slot      : Hashes \cup {None}]]
  /\ vault \in [Device -> Hashes \cup {None}]
  /\ pc \in [Device -> PC]
  /\ seen \in [Device -> Hashes \cup {None}]
  /\ attempt \in [Device -> 0 .. PushAttempts]
  /\ thenPush \in [Device -> BOOLEAN]
  /\ calls \in 0 .. MaxCalls
  /\ faults \in 0 .. MaxFaults

\* The creator has run create(): generation 1 is sealed, synced_hash cleared
\* and the container persisted. The others have nothing.
Init ==
  /\ sealed = <<[gen |-> 1, prev |-> None, facts |-> {},
                 meta |-> [k \in Key |-> 0], slots |-> {FirstSlot}]>>
  /\ records = <<>>
  /\ store = [d \in Device |->
                [container |-> IF d = Creator THEN 1 ELSE None,
                 synced    |-> None,
                 slot      |-> IF d = Creator THEN FirstSlot ELSE None]]
  /\ vault = [d \in Device |-> IF d = Creator THEN 1 ELSE None]
  /\ pc = [d \in Device |-> "idle"]
  /\ seen = [d \in Device |-> None]
  /\ attempt = [d \in Device |-> 0]
  /\ thenPush = [d \in Device |-> FALSE]
  /\ calls = 0
  /\ faults = 0

-----------------------------------------------------------------------------
(* Steps every call is made of.                                            *)

\* The call moves on, or returns when p is "idle"; a returned call leaves
\* nothing behind in its local variables.
Goto(d, p) ==
  /\ pc' = [pc EXCEPT ![d] = p]
  /\ IF p = "idle"
     THEN /\ seen' = [seen EXCEPT ![d] = None]
          /\ attempt' = [attempt EXCEPT ![d] = 0]
          /\ thenPush' = [thenPush EXCEPT ![d] = FALSE]
     ELSE UNCHANGED local

\* The loop head of push: attempt n offers the vault that is open.
Offer(d, n) ==
  /\ pc' = [pc EXCEPT ![d] = "push_put"]
  /\ attempt' = [attempt EXCEPT ![d] = n]
  /\ thenPush' = [thenPush EXCEPT ![d] = FALSE]

\* persist(v): the container is stored, then it becomes the open vault.
Persist(d, h) ==
  /\ store' = [store EXCEPT ![d].container = h]
  /\ vault' = [vault EXCEPT ![d] = h]

\* Wrong on purpose: a hash noted earlier is kept.
MarkSyncedOnce(d, h) ==
  /\ store' = [store EXCEPT ![d].synced = IF @ = None THEN h ELSE @]
  /\ UNCHANGED vault

MarkSynced(d, h) ==
  /\ store' = [store EXCEPT ![d].synced = h]
  /\ UNCHANGED vault

IsOpen(d) == pc[d] = "idle" /\ vault[d] # None

Call == calls < MaxCalls /\ calls' = calls + 1

NoCall == UNCHANGED <<calls, faults>>

-----------------------------------------------------------------------------
(* Opening and editing.                                                    *)

\* The device opens generation h with the slot and key it has stored.
Opens(d, h) == store[d].slot \in sealed[h].slots

\* open(): the stored container is opened with the device slot.
Open(d) ==
  /\ pc[d] = "idle"
  /\ vault[d] = None
  /\ store[d].container # None
  /\ Opens(d, store[d].container)
  /\ vault' = [vault EXCEPT ![d] = store[d].container]
  /\ UNCHANGED <<sealed, records, store, pc, local>>
  /\ NoCall

\* The generations a change seals on top of the open one: one for each
\* payload, since every ckvf mutator seals the vault it returns.
Chain(h, payloads) ==
  [i \in DOMAIN payloads |->
     [gen   |-> sealed[h].gen + i,
      prev  |-> IF i = 1 THEN h ELSE Len(sealed) + i - 1,
      facts |-> payloads[i].facts,
      meta  |-> payloads[i].meta,
      slots |-> payloads[i].slots]]

\* commit(change, push): the change is applied to the open vault, its last
\* generation is persisted, and then a push is tried.
Commit(d, payloads, push) ==
  /\ IsOpen(d)
  /\ Call
  /\ sealed' = sealed \o Chain(vault[d], payloads)
  /\ Persist(d, IF payloads = <<>> THEN vault[d]
                                   ELSE Len(sealed) + Len(payloads))
  /\ IF push
     THEN Offer(d, 1) /\ UNCHANGED seen
     ELSE UNCHANGED <<pc, local>>
  /\ UNCHANGED <<records, faults>>

\* Wrong on purpose: the changed vault is opened before it is persisted, and
\* stays open when the write fails.
CommitFailsStaysOpen(d) ==
  /\ IsOpen(d)
  /\ Call
  /\ sealed' = Append(sealed, Child(vault[d], Facts(vault[d]),
                                    sealed[vault[d]].meta,
                                    sealed[vault[d]].slots))
  /\ vault' = [vault EXCEPT ![d] = NewHash]
  /\ UNCHANGED <<records, store, pc, local, faults>>

\* The change fails, or the changed vault cannot be persisted: commit has
\* taken the open vault out and does not put it back.
CommitFails(d) ==
  /\ IsOpen(d)
  /\ Call
  /\ vault' = [vault EXCEPT ![d] = None]
  /\ UNCHANGED <<sealed, records, store, pc, local, faults>>

Has(d, kind, k) == <<kind, k>> \in Facts(vault[d])

\* A changed payload, under the slots of the open vault.
Payload(d, F, m) == [facts |-> F, meta |-> m, slots |-> sealed[vault[d]].slots]

\* set_meta stamps the entry of k with a value no earlier call has written.
Stamped(d, k) == [sealed[vault[d]].meta EXCEPT ![k] = calls + 1]

\* import_key: a key that is present is not imported again; a status applies
\* only when it changes the key's status; metadata is written last. Each of
\* the three is a generation of its own.
Import(d, k, status, withMeta, push) ==
  LET F0 == Facts(vault[d])
      m0 == sealed[vault[d]].meta
      F1 == F0 \cup {<<"key", k>>}
      applies == \/ status = "retired" /\ ~Has(d, "retired", k)
                                       /\ ~Has(d, "revoked", k)
                 \/ status = "revoked" /\ ~Has(d, "revoked", k)
      F2 == IF applies THEN F1 \cup {<<status, k>>} ELSE F1
  IN /\ IsOpen(d)
     /\ ~Has(d, "tombstone", k)
     /\ Commit(d,
               (IF F1 = F0 THEN <<>> ELSE <<Payload(d, F1, m0)>>)
                 \o (IF applies THEN <<Payload(d, F2, m0)>> ELSE <<>>)
                 \o (IF withMeta THEN <<Payload(d, F2, Stamped(d, k))>>
                                 ELSE <<>>),
               push)

SetKeyMeta(d, k) ==
  /\ IsOpen(d)
  /\ Has(d, "key", k)
  /\ Commit(d, <<Payload(d, Facts(vault[d]), Stamped(d, k))>>, TRUE)

\* retire, revoke and delete_private: one fact about a key that is present.
ChangeKey(d, k, kind) ==
  /\ IsOpen(d)
  /\ kind \in {"retired", "revoked", "tombstone"}
  /\ Has(d, "key", k)
  /\ ~Has(d, "tombstone", k)
  /\ Commit(d,
            <<Payload(d, Facts(vault[d]) \cup {<<kind, k>>},
                      sealed[vault[d]].meta)>>,
            TRUE)

\* remove_device: a slot goes, the device's own if the call names it, and then,
\* as a generation of its own, its entry in the device list.
RemoveDevice(d, slot) ==
  /\ IsOpen(d)
  /\ slot \in sealed[vault[d]].slots
  /\ LET p == [Payload(d, Facts(vault[d]), sealed[vault[d]].meta)
                 EXCEPT !.slots = @ \ {slot}]
     IN Commit(d, <<p, p>>, TRUE)

-----------------------------------------------------------------------------
(* pull, alone or as the first half of sync.                               *)

\* current_record answers. The application may call pull (counted as a call)
\* or sync; a host that stores nothing ends a pull at once.
PullRead(d, sync) ==
  /\ IsOpen(d)
  /\ sync \/ Call
  /\ IF CurrentRecord = None
     THEN IF sync THEN Offer(d, 1) /\ UNCHANGED seen
                  ELSE UNCHANGED <<pc, local>>
     ELSE /\ pc' = [pc EXCEPT ![d] = "pull_apply"]
          /\ seen' = [seen EXCEPT ![d] = CurrentRecord]
          /\ thenPush' = [thenPush EXCEPT ![d] = sync]
          /\ UNCHANGED attempt
  /\ UNCHANGED <<sealed, records, store, vault, faults>>
  /\ sync => UNCHANGED calls

\* What follows a successful pull.
PullReturns(d) ==
  IF thenPush[d] THEN Offer(d, 1) /\ seen' = [seen EXCEPT ![d] = None]
                 ELSE Goto(d, "idle")

\* The record is the open generation: it is known to be stored.
PullSame(d) ==
  /\ pc[d] = "pull_apply"
  /\ seen[d] = vault[d]
  /\ MarkSynced(d, seen[d])
  /\ PullReturns(d)
  /\ UNCHANGED <<sealed, records>>
  /\ NoCall

\* The record is another one. It is opened before anything is decided, and the
\* pull fails with device_removed if this device has no slot in it.
Differs(d) == pc[d] = "pull_apply" /\ seen[d] # vault[d]

PullRefused(d) ==
  /\ Differs(d)
  /\ ~Opens(d, seen[d])
  /\ Goto(d, "idle")
  /\ UNCHANGED <<sealed, records, store, vault>>
  /\ NoCall

\* Wrong on purpose: the head replaces a local copy that has changed.
PullFastForwardAlways(d) ==
  /\ Differs(d)
  /\ Opens(d, seen[d])
  /\ MarkSynced(d, seen[d])
  /\ Goto(d, "pull_persist")
  /\ UNCHANGED <<sealed, records>>
  /\ NoCall

\* Nothing changed here since the last sync: the head will replace the local
\* copy. synced_hash is written first,
PullFastForward(d) ==
  /\ Differs(d)
  /\ Opens(d, seen[d])
  /\ store[d].synced = vault[d]
  /\ MarkSynced(d, seen[d])
  /\ Goto(d, "pull_persist")
  /\ UNCHANGED <<sealed, records>>
  /\ NoCall

\* and the container after it.
PullPersist(d) ==
  /\ pc[d] = "pull_persist"
  /\ Persist(d, seen[d])
  /\ PullReturns(d)
  /\ UNCHANGED <<sealed, records>>
  /\ NoCall

\* Wrong on purpose: the merge is noted as synced before it is pushed.
PullMergeAsSynced(d) ==
  /\ Differs(d)
  /\ Opens(d, seen[d])
  /\ store[d].synced # vault[d]
  /\ \E S \in MergedSlots(seen[d], vault[d]) :
        sealed' = Append(sealed, Merged(seen[d], vault[d], S))
  /\ store' = [store EXCEPT ![d].container = NewHash, ![d].synced = NewHash]
  /\ vault' = [vault EXCEPT ![d] = NewHash]
  /\ PullReturns(d)
  /\ UNCHANGED records
  /\ NoCall

\* There are local changes: they are merged onto the head.
PullMerge(d) ==
  /\ Differs(d)
  /\ Opens(d, seen[d])
  /\ store[d].synced # vault[d]
  /\ \E S \in MergedSlots(seen[d], vault[d]) :
        sealed' = Append(sealed, Merged(seen[d], vault[d], S))
  /\ Persist(d, NewHash)
  /\ PullReturns(d)
  /\ UNCHANGED records
  /\ NoCall

-----------------------------------------------------------------------------
(* push.                                                                   *)

Push(d) ==
  /\ IsOpen(d)
  /\ Offer(d, 1)
  /\ UNCHANGED <<sealed, records, store, vault, seen>>
  /\ NoCall

\* The open generation is the one last synced.
PushNothing(d) ==
  /\ pc[d] = "push_put"
  /\ store[d].synced = vault[d]
  /\ Goto(d, "idle")
  /\ UNCHANGED <<sealed, records, store, vault>>
  /\ NoCall

Offering(d) == pc[d] = "push_put" /\ store[d].synced # vault[d]

\* put_record succeeds,
PushAccepted(d) ==
  /\ Offering(d)
  /\ HostAccepts(vault[d])
  /\ Goto(d, "push_synced")
  /\ UNCHANGED <<sealed, store, vault>>
  /\ NoCall

\* and the device notes what the host now stores.
PushSynced(d) ==
  /\ pc[d] = "push_synced"
  /\ MarkSynced(d, vault[d])
  /\ Goto(d, "idle")
  /\ UNCHANGED <<sealed, records>>
  /\ NoCall

\* After a conflict is resolved the next attempt starts, if one is left;
\* otherwise push reports that the head kept moving.
NextAttempt(d) ==
  IF attempt[d] < PushAttempts
  THEN Offer(d, attempt[d] + 1) /\ UNCHANGED seen
  ELSE Goto(d, "idle")

Rechain(d, g, p) ==
  /\ sealed' = Append(sealed, Rechained(vault[d], g, p))
  /\ Persist(d, NewHash)
  /\ NextAttempt(d)
  /\ UNCHANGED records
  /\ NoCall

\* generation_conflict from an empty host: the chain restarts at 1.
PushRestart(d) ==
  /\ Offering(d)
  /\ HostRefuses(vault[d])
  /\ CurrentRecord = None
  /\ Rechain(d, 1, None)

\* generation_conflict: the head is read before it is resolved.
PushConflict(d) ==
  /\ Offering(d)
  /\ HostRefuses(vault[d])
  /\ CurrentRecord # None
  /\ Goto(d, "push_read")
  /\ UNCHANGED <<sealed, records, store, vault>>
  /\ NoCall

PushRead(d) ==
  /\ pc[d] = "push_read"
  /\ pc' = [pc EXCEPT ![d] = "push_resolve"]
  /\ seen' = [seen EXCEPT ![d] = CurrentRecord]
  /\ UNCHANGED <<sealed, records, store, vault, attempt, thenPush>>
  /\ NoCall

\* Wrong on purpose: every conflict is taken for this device's own backlog.
PushRechainAlways(d) ==
  /\ pc[d] = "push_resolve"
  /\ Rechain(d, sealed[seen[d]].gen + 1, seen[d])

\* Wrong on purpose: the generation number of the head itself.
PushRechainSameGeneration(d) ==
  /\ pc[d] = "push_resolve"
  /\ store[d].synced = seen[d]
  /\ Rechain(d, sealed[seen[d]].gen, seen[d])

\* The head is the generation this device last synced: the local work is
\* rechained onto it, as it stands.
PushRechain(d) ==
  /\ pc[d] = "push_resolve"
  /\ store[d].synced = seen[d]
  /\ Rechain(d, sealed[seen[d]].gen + 1, seen[d])

\* Another device wrote the head, and left this one no slot in it.
PushRefused(d) ==
  /\ pc[d] = "push_resolve"
  /\ store[d].synced # seen[d]
  /\ ~Opens(d, seen[d])
  /\ Goto(d, "idle")
  /\ UNCHANGED <<sealed, records, store, vault>>
  /\ NoCall

\* Another device wrote the head: the local work is merged onto it.
PushMerge(d) ==
  /\ pc[d] = "push_resolve"
  /\ store[d].synced # seen[d]
  /\ Opens(d, seen[d])
  /\ \E S \in MergedSlots(seen[d], vault[d]) :
        sealed' = Append(sealed, Merged(seen[d], vault[d], S))
  /\ Persist(d, NewHash)
  /\ NextAttempt(d)
  /\ UNCHANGED records
  /\ NoCall

-----------------------------------------------------------------------------
(* adopt: a device without a vault receives one, opened by pairing or by a *)
(* recovery secret from the host's current record.                         *)

AdoptRead(d) ==
  /\ pc[d] = "idle"
  /\ store[d].container = None
  /\ CurrentRecord # None
  /\ pc' = [pc EXCEPT ![d] = "adopt_key"]
  /\ seen' = [seen EXCEPT ![d] = CurrentRecord]
  /\ UNCHANGED <<sealed, records, store, vault, attempt, thenPush>>
  /\ NoCall

\* The key of the new slot is stored first. Until its name is stored as well,
\* the store opens nothing, whatever slot it had.
AdoptKey(d) ==
  /\ pc[d] = "adopt_key"
  /\ store' = [store EXCEPT ![d].slot = None]
  /\ pc' = [pc EXCEPT ![d] = "adopt_write"]
  /\ UNCHANGED <<sealed, records, vault, local>>
  /\ NoCall

\* The opened generation under a slot for this device, and what is stored: the
\* slot's name and then what counts as synced. (Cut short between the two, the
\* store still opens nothing, as before them.)
SealSlot(d, synced) ==
  /\ sealed' = Append(sealed, Child(seen[d], Facts(seen[d]),
                                    sealed[seen[d]].meta,
                                    sealed[seen[d]].slots \cup {NewHash}))
  /\ store' = [store EXCEPT ![d].slot = NewHash, ![d].synced = synced]

\* Wrong on purpose: the name of the new slot is not stored.
AdoptWriteLosesSlot(d) ==
  /\ pc[d] = "adopt_write"
  /\ \E synced \in {None, seen[d]} :
        /\ sealed' = Append(sealed, Child(seen[d], Facts(seen[d]),
                                          sealed[seen[d]].meta,
                                          sealed[seen[d]].slots \cup {NewHash}))
        /\ store' = [store EXCEPT ![d].synced = synced]
  /\ pc' = [pc EXCEPT ![d] = "adopt_persist"]
  /\ seen' = [seen EXCEPT ![d] = NewHash]
  /\ UNCHANGED <<records, vault, attempt, thenPush>>
  /\ NoCall

\* The opened generation is noted as synced if the caller says that the host
\* stores it,
AdoptWrite(d) ==
  /\ pc[d] = "adopt_write"
  /\ \E storedOnHost \in BOOLEAN :
        SealSlot(d, IF storedOnHost THEN seen[d] ELSE None)
  /\ pc' = [pc EXCEPT ![d] = "adopt_persist"]
  /\ seen' = [seen EXCEPT ![d] = NewHash]
  /\ UNCHANGED <<records, vault, attempt, thenPush>>
  /\ NoCall

\* and the new one is persisted.
AdoptPersist(d) ==
  /\ pc[d] = "adopt_persist"
  /\ Persist(d, seen[d])
  /\ Goto(d, "idle")
  /\ UNCHANGED <<sealed, records>>
  /\ NoCall

\* clear(): the store keys are deleted one by one, the container first,
Clear(d) ==
  /\ pc[d] = "idle"
  /\ store[d].container # None
  /\ Call
  /\ store' = [store EXCEPT ![d].container = None]
  /\ pc' = [pc EXCEPT ![d] = "clear_device"]
  /\ UNCHANGED <<sealed, records, vault, local, faults>>

\* then the key and the name of the slot, neither of which opens anything
\* without the other,
ClearDevice(d) ==
  /\ pc[d] = "clear_device"
  /\ store' = [store EXCEPT ![d].slot = None]
  /\ pc' = [pc EXCEPT ![d] = "clear_synced"]
  /\ UNCHANGED <<sealed, records, vault, local>>
  /\ NoCall

\* and synced_hash last. Then the open vault is dropped.
ClearSynced(d) ==
  /\ pc[d] = "clear_synced"
  /\ store' = [store EXCEPT ![d].synced = None]
  /\ vault' = [vault EXCEPT ![d] = None]
  /\ Goto(d, "idle")
  /\ UNCHANGED <<sealed, records>>
  /\ NoCall

-----------------------------------------------------------------------------
(* Faults.                                                                 *)

Fault(kind) == kind \in Faults /\ faults < MaxFaults /\ faults' = faults + 1

AwaitsHost == {"push_put", "push_read"}

AwaitsStore == {"pull_apply", "pull_persist", "push_synced", "push_resolve",
                "adopt_key", "adopt_write", "adopt_persist",
                "clear_device", "clear_synced"}

\* A host call fails with network_error, which ends the running call. (One
\* that fails as the first await of a call leaves nothing to see.)
HostCallFails(d) ==
  /\ Fault("network")
  /\ pc[d] \in AwaitsHost
  /\ Goto(d, "idle")
  /\ UNCHANGED <<sealed, records, store, vault, calls>>

\* put_record is accepted and its answer lost.
AnswerLost(d) ==
  /\ Fault("network")
  /\ Offering(d)
  /\ HostAccepts(vault[d])
  /\ Goto(d, "idle")
  /\ UNCHANGED <<sealed, store, vault, calls>>

\* The next store write fails, which ends the running call with an error.
StoreWriteFails(d) ==
  /\ Fault("store")
  /\ pc[d] \in AwaitsStore
  /\ Goto(d, "idle")
  /\ UNCHANGED <<sealed, records, store, vault, calls>>

\* The process dies. The store is what it was; open() comes next.
Crash(d) ==
  /\ Fault("crash")
  /\ vault[d] # None \/ pc[d] # "idle"
  /\ vault' = [vault EXCEPT ![d] = None]
  /\ Goto(d, "idle")
  /\ UNCHANGED <<sealed, records, store, calls>>

-----------------------------------------------------------------------------
(* The specification.                                                      *)

Edit(d) ==
  \/ \E k \in Key, status \in {"active", "retired", "revoked"},
        withMeta, push \in BOOLEAN : Import(d, k, status, withMeta, push)
  \/ \E k \in Key : SetKeyMeta(d, k)
  \/ \E k \in Key, kind \in {"retired", "revoked", "tombstone"} :
        ChangeKey(d, k, kind)
  \/ \E slot \in Hashes : RemoveDevice(d, slot)
  \/ CommitFails(d)

\* The steps of a call that has begun.
Continue(d) ==
  \/ PullSame(d) \/ PullRefused(d) \/ PullFastForward(d) \/ PullPersist(d)
  \/ PullMerge(d)
  \/ PushNothing(d) \/ PushAccepted(d) \/ PushSynced(d)
  \/ PushRestart(d) \/ PushConflict(d) \/ PushRead(d)
  \/ PushRechain(d) \/ PushRefused(d) \/ PushMerge(d)
  \/ AdoptKey(d) \/ AdoptWrite(d) \/ AdoptPersist(d)
  \/ ClearDevice(d) \/ ClearSynced(d)

Disturb(d) ==
  HostCallFails(d) \/ AnswerLost(d) \/ StoreWriteFails(d) \/ Crash(d)

Next ==
  \E d \in Device :
    \/ Open(d) \/ Edit(d) \/ Push(d) \/ AdoptRead(d) \/ Clear(d)
    \/ \E sync \in BOOLEAN : PullRead(d, sync)
    \/ Continue(d)
    \/ Disturb(d)

Spec == Init /\ [][Next]_vars

\* A call that has begun is run to its end, a closed vault is reopened, and
\* the application calls sync again and again.
Fairness ==
  \A d \in Device : /\ WF_vars(Continue(d))
                    /\ WF_vars(Open(d))
                    /\ SF_vars(PullRead(d, TRUE))

FairSpec == Spec /\ Fairness

-----------------------------------------------------------------------------
(* Properties.                                                             *)

\* The vault a device has open is the container it has stored, whatever call
\* was cut short, unless clear() has deleted the container: persist writes
\* before it opens, and commit takes the vault out before it changes it.
OpenIsStored ==
  \A d \in Device :
    vault[d] # None => store[d].container \in {vault[d], None}

\* No call takes a device's vault away from it: whatever container a call
\* stores, whichever call was cut short before, opens with the key and the slot
\* stored beside it. Two things excuse the call: it removes this device, or it
\* goes on from an open vault that had already lost them (to such a removal, to
\* a clear() or to an adoption that was cut short). A pull and an adoption take
\* what the host serves and have no such excuse.
StoredVaultOpens ==
  [][\A d \in Device :
       LET c == store'[d].container
           lost == vault[d] # None /\ ~Opens(d, vault[d])
       IN c \notin {None, store[d].container}
            => \/ store'[d].slot \in sealed'[c].slots
               \/ RemoveDevice(d, store[d].slot)
               \/ lost /\ pc[d] \in {"idle", "push_put", "push_resolve"}]_vars

\* The slot of d was in a generation the host accepted.
WasMember(d) == \E g \in DOMAIN records : Opens(d, records[g])

\* A device that another one removed cannot write: what it offers is refused,
\* also where push builds on the head without opening it (rechain, restart).
\* (One that removed itself keeps its open vault, and writes until that closes.)
RemovedCannotWrite ==
  \A d \in Device :
    Offering(d) /\ Opens(d, vault[d]) /\ WasMember(d) /\ ~Opens(d, CurrentRecord)
      => ~Extends(vault[d])

\* A running call has what its next step needs: the record it read, and a
\* vault that no other call has closed.
CallsHoldTheirData ==
  \A d \in Device :
    /\ pc[d] \in {"pull_apply", "pull_persist", "push_resolve",
                  "adopt_key", "adopt_write", "adopt_persist"}
         => seen[d] # None
    /\ pc[d] \in {"pull_apply", "pull_persist", "push_put", "push_synced",
                  "push_read", "push_resolve"} => vault[d] # None
    /\ pc[d] = "push_read" => records # <<>>

\* synced_hash is what local_vault_store.rs:26 says it is: the hash of a
\* generation confirmed stored on the host. push returns without a word when
\* it equals the open generation, so if it were not, work would stay here.
SyncedIsOnHost ==
  \A d \in Device : store[d].synced = None
                      \/ \E g \in DOMAIN records : records[g] = store[d].synced

\* No push overwrites: a generation the host accepts holds every fact of the
\* generations accepted before it, whichever device sealed it and however
\* push resolved the conflicts on its way (merge, rechain or restart).
HostKeepsFacts ==
  \A g1, g2 \in DOMAIN records :
    g1 <= g2 => Facts(records[g1]) \subseteq Facts(records[g2])

\* A vault that counts as synced has nothing the host does not serve: when
\* sync or push returns without an error, every fact of the stored container
\* is in the generation the other devices will read.
SyncedWorkIsServed ==
  \A d \in Device :
    store[d].synced = store[d].container
      => Facts(store[d].container) \subseteq Facts(CurrentRecord)

\* A retry is refused only because the head moved again: after each conflict
\* push leaves a generation that extends the head it has just read, so that
\* it cannot use up its attempts against a host that stands still.
RetryExtendsHead ==
  \A d \in Device :
    pc[d] = "push_put" /\ attempt[d] > 1 /\ seen[d] = CurrentRecord
      => Extends(vault[d])

\* A metadata entry that the host has is replaced but never dropped, though a
\* merge takes the local entry without asking which side changed it.
MetaIsKept ==
  \A g1, g2 \in DOMAIN records :
    \A k \in Key :
      LET meta(g) == sealed[records[g]].meta[k]
      IN g1 <= g2 /\ meta(g1) # 0 => meta(g2) # 0

\* The devices and the host share facts as SharedVault says, with every fact
\* that was published kept by everyone who has it.
Shared == INSTANCE SharedVault
            WITH shared <- Facts(CurrentRecord),
                 held   <- [d \in Device |-> Facts(store[d].container)]

ImplementsSharedVault == Shared!Spec

\* A device that keeps a vault it can reach and has a slot in the generation the
\* host serves.
Served(d) == /\ store[d].container # None
             /\ vault[d] # None \/ Opens(d, store[d].container)
             /\ CurrentRecord # None
             /\ Opens(d, CurrentRecord)

\* Once edits and faults have stopped, syncing and pushing bring every such
\* device to the generation the host serves, and it stays there.
Converges ==
  <>[](\A d \in Device : Served(d) => /\ store[d].container = CurrentRecord
                                     /\ store[d].synced = CurrentRecord)
=============================================================================
