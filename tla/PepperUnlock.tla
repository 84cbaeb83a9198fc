---------------------------- MODULE PepperUnlock ----------------------------
(***************************************************************************)
(* Backup passwords and recovery codes: add_recovery_code,                 *)
(* set_backup_password and push_quietly of key_vault.rs, the recovery of   *)
(* a vault with such a secret on a new device                              *)
(* (open_host_vault_with_host_pepper), and the two pepper calls of the     *)
(* host client.                                                            *)
(*                                                                         *)
(* A pepper slot is the vault key under a secret and under one of the      *)
(* host's pepper keys, named by its kid. The algebra that makes an         *)
(* evaluation under another key fail is Oprf's; here an evaluation         *)
(* succeeds or does not. The steps of a sync between two writes of the      *)
(* device's own store, and writes that fail, are KeyVault's; here a push   *)
(* and a pull are as many steps as they leave containers in the store.     *)
(***************************************************************************)
EXTENDS Integers, Sequences, SequencesExt, FiniteSetsExt

CONSTANTS
  Device,      \* devices that have or get the vault
  Method,      \* kinds of pepper slots
  Kid,         \* names of the host's pepper keys
  MaxCodes,    \* bound: secrets that are set
  MaxTries,    \* bound: recoveries that are started
  MaxFaults    \* bound: host calls that fail, and processes that end

ASSUME PepperAssumption == /\ Kid # {} /\ Method # {}
                           /\ MaxCodes \in Nat
                           /\ MaxTries \in Nat
                           /\ MaxFaults \in Nat

VARIABLES
  served,     \* kids the host evaluates under
  current,    \* the kid it gives out for new slots
  record,     \* the host's record: its slots, its version, 0 for none
  holders,    \* the devices that have the vault
  local,      \* local[d]: d's container and its synced_hash, as versions
  adding,     \* adding[d]: the call of d that sets a secret
  known,      \* secrets whose call returned Ok, so that the user has them
  codes,      \* the secrets made so far are 1 .. codes
  lost,       \* secrets whose call ended with its process after the commit
  merged,     \* some device merged its work into another's record
  rec,        \* the recovery on a new device
  tries,
  faults

host     == <<served, current>>
devices  == <<record, holders, local, adding, known, lost, codes, merged>>
recovery == <<rec, tries>>
vars     == <<host, devices, recovery, faults>>

\* The pepper slots of a container, by method and in their order: how slots of
\* two methods lie to each other is never looked at.
Code    == 1 .. MaxCodes
Slot    == [code : Code, kid : Kid]
Slots   == [Method -> Seq(Slot)]
NoSlots == [m \in Method |-> <<>>]

NoAdd == [pc |-> "idle", method |-> CHOOSE m \in Method : TRUE,
          kid |-> CHOOSE k \in Kid : TRUE, code |-> 0]

NoRecovery == [pc |-> "idle", method |-> CHOOSE m \in Method : TRUE,
               code |-> 0, granted |-> FALSE, slots |-> <<>>, next |-> 1,
               failed |-> {}]

Ended == {"opened", "ERR_WRAP_DECRYPT", "ERR_UNLOCK", "vault_not_synced",
          "unauthorized", "network_error", "bad_response", "http_error",
          "unknown_kid", "invalid_evaluation"}

\* A container that the host has under the version stored, or, where that is 0,
\* one whose parent is the record of the version parent, 0 where it has none.
\* Unsent is the parent of a container that rests on one the host never got.
Unsent == -1
Container == [slots : Slots, parent : {Unsent} \cup 0 .. record.version,
              stored : 0 .. record.version, synced : 0 .. record.version]

New(slots, parent, synced) ==
  [slots |-> slots, parent |-> parent, stored |-> 0, synced |-> synced]

Stored(slots, version, synced) ==
  [slots |-> slots, parent |-> Unsent, stored |-> version, synced |-> synced]

Call     == [pc : {"idle", "wrap", "push"}, method : Method, kid : Kid,
             code : 0 .. codes]
Recovery == [pc : {"idle", "read", "try"} \cup Ended, method : Method,
             code : 0 .. MaxCodes, granted : BOOLEAN, slots : Seq(Slot),
             next : Nat \ {0}, failed : SUBSET Nat]

TypeOK ==
  /\ served \subseteq Kid
  /\ current \in served
  /\ record \in [slots : Slots, version : Nat]
  /\ holders \subseteq Device
  /\ local \in [Device -> Container]
  /\ adding \in [Device -> Call]
  /\ \A d \in Device : adding[d].code # 0 <=> adding[d].pc = "push"
  /\ codes \in 0 .. MaxCodes
  /\ known \cup lost \subseteq 1 .. codes
  /\ merged \in BOOLEAN
  /\ rec \in Recovery
  /\ rec.pc = "try" => rec.next \in 1 .. Len(rec.slots)
  /\ rec.failed \subseteq 1 .. Len(rec.slots)
  /\ tries \in 0 .. MaxTries
  /\ faults \in 0 .. MaxFaults

\* A vault with no pepper slot yet, that one device has made, or that all
\* devices have.
Init ==
  /\ \E k \in Kid : served = {k} /\ current = k
  /\ \/ /\ record = [slots |-> NoSlots, version |-> 0]
        /\ \E d \in Device : holders = {d}
        /\ local = [d \in Device |-> New(NoSlots, 0, 0)]
     \/ /\ record = [slots |-> NoSlots, version |-> 1]
        /\ holders = Device
        /\ local = [d \in Device |-> Stored(NoSlots, 1, 1)]
  /\ adding = [d \in Device |-> NoAdd]
  /\ known = {} /\ lost = {} /\ codes = 0 /\ merged = FALSE
  /\ rec = NoRecovery /\ tries = 0
  /\ faults = 0

-----------------------------------------------------------------------------
(* The host's pepper keys.                                                 *)

\* A new key becomes current; the old one is retired and still served.
Rotate(k) ==
  /\ k \notin served
  /\ served' = served \cup {k}
  /\ current' = k
  /\ UNCHANGED <<devices, recovery, faults>>

\* A retired key is no longer served.
Drop(k) ==
  /\ k \in served \ {current}
  /\ served' = served \ {k}
  /\ UNCHANGED <<current, devices, recovery, faults>>

\* What a call to the host may come to besides its answer, and whether the
\* host took it: VaultHostClient::send reads the body of a success, and a
\* body that is cut off is a bad_response and no network_error.
Failures == {[code |-> "network_error", taken |-> FALSE],
             [code |-> "network_error", taken |-> TRUE],
             [code |-> "bad_response",  taken |-> TRUE],
             [code |-> "http_error",    taken |-> FALSE]}

Fault == faults < MaxFaults /\ faults' = faults + 1

-----------------------------------------------------------------------------
(* A device and the host's record.                                         *)

Set(d, container) == local' = [local EXCEPT ![d] = container]

\* synced_hash is the hash of the container.
Clean(d) == local[d].stored # 0 /\ local[d].synced = local[d].stored

\* The slots of a merge: ckvf keeps those of the head, or those of both, with
\* those that only d has behind the head's.
BothSlots(d, m) ==
  {record.slots[m] \o more :
     more \in SetToSeqs(Range(local[d].slots[m]) \ Range(record.slots[m]))}

MergedSlots(d) ==
  {record.slots} \cup
  {slots \in [Method -> UNION {BothSlots(d, m) : m \in Method}] :
     \A m \in Method : slots[m] \in BothSlots(d, m)}

\* merge_normalized: d's work becomes a child of the record.
Merge(d) ==
  /\ \E slots \in MergedSlots(d) :
       Set(d, New(slots, record.version, local[d].synced))
  /\ merged' = TRUE

\* rechain: the same content, as a child of the record.
Rechain(d) ==
  /\ Set(d, New(local[d].slots, record.version, local[d].synced))
  /\ UNCHANGED merged

\* The container is the record's child, or its first.
Extends(d) == local[d].stored = 0 /\ local[d].parent = record.version

\* records/put: duplicates and extensions are accepted.
HostTakes(d) ==
  /\ d \in holders
  /\ ~Clean(d)
  /\ \/ /\ local[d].stored # 0
        /\ UNCHANGED record
     \/ /\ Extends(d)
        /\ record' = [slots |-> local[d].slots, version |-> record.version + 1]
  /\ UNCHANGED <<holders, merged>>

\* The version under which the host then has the container.
TakenAs(d) == IF local[d].stored = 0 THEN record.version + 1 ELSE local[d].stored

Noted(d)   == Set(d, Stored(local[d].slots, TakenAs(d), TakenAs(d)))
Unnoted(d) == Set(d, Stored(local[d].slots, TakenAs(d), local[d].synced))

\* One attempt of push: the host refuses the container, and the device puts it
\* onto the head that it reads, and into its store. How often it tries is
\* KeyVault's.
Resolve(d) ==
  /\ d \in holders
  /\ ~Clean(d) /\ local[d].stored = 0 /\ ~Extends(d)
  /\ IF local[d].synced = record.version THEN Rechain(d) ELSE Merge(d)
  /\ UNCHANGED <<host, record, holders, adding, known, lost, codes, recovery,
                 faults>>

\* A push or pull has the vault to itself, but not while a call that sets a
\* secret is pushing.
Free(d) == d \in holders /\ adding[d].pc # "push"

\* The attempt that the host accepts.
Push(d) ==
  /\ Free(d)
  /\ HostTakes(d)
  /\ Noted(d)
  /\ UNCHANGED <<host, adding, known, lost, codes, recovery, faults>>

\* The same, and the answer does not come.
PushFails(d) ==
  /\ Fault
  /\ Free(d)
  /\ HostTakes(d)
  /\ Unnoted(d)
  /\ UNCHANGED <<host, adding, known, lost, codes, recovery>>

Pull(d) ==
  /\ Free(d)
  /\ record.version # 0
  /\ IF local[d].stored = record.version
     THEN Noted(d) /\ UNCHANGED merged
     ELSE IF Clean(d)
          THEN /\ Set(d, Stored(record.slots, record.version, record.version))
               /\ UNCHANGED merged
          ELSE Merge(d)
  /\ UNCHANGED <<host, record, holders, adding, known, lost, codes, recovery,
                 faults>>

\* A device gets the vault from the host and adds its own slot to it.
Adopt(d) ==
  /\ d \notin holders
  /\ record.version # 0
  /\ holders' = holders \cup {d}
  /\ Set(d, New(record.slots, record.version, record.version))
  /\ UNCHANGED <<host, record, adding, known, lost, codes, merged, recovery, faults>>

-----------------------------------------------------------------------------
(* Setting a secret.                                                       *)

\* PepperKeySet::current: the current key has to be among those listed.
CurrentKey(keys) == {k \in keys.listed : k = keys.current}

\* The caller asks the host for its keys, to wrap a secret under the current
\* one.
AskKeys(d, m) ==
  /\ d \in holders
  /\ adding[d].pc = "idle"
  /\ codes + Cardinality({e \in Device : adding[e].pc = "wrap"}) < MaxCodes
  /\ \E k \in CurrentKey([listed |-> served, current |-> current]) :
       adding' = [adding EXCEPT ![d] = [pc |-> "wrap", method |-> m,
                                        kid |-> k, code |-> 0]]
  /\ UNCHANGED <<host, record, holders, local, known, lost, codes, merged,
                 recovery, faults>>

\* Wrong on purpose: the method's earlier slots stay.
WithSlotAdded(slots, m, slot) == [slots EXCEPT ![m] = Append(@, slot)]

\* replace_pepper_slot: the slots of other methods, and this one.
WithSlot(slots, m, slot) == [slots EXCEPT ![m] = <<slot>>]

\* The commit: the secret is wrapped under the key that was asked for, which
\* needs an evaluation by the host, and the container is written: a child of
\* the one before. Secrets are numbered in the order of their commits.
Wrap(d) ==
  /\ adding[d].pc = "wrap"
  /\ adding[d].kid \in served
  /\ codes < MaxCodes
  /\ codes' = codes + 1
  /\ Set(d, New(WithSlot(local[d].slots, adding[d].method,
                         [code |-> codes + 1, kid |-> adding[d].kid]),
                IF local[d].stored = 0 THEN Unsent ELSE local[d].stored,
                local[d].synced))
  /\ adding' = [adding EXCEPT ![d].pc = "push", ![d].code = codes + 1]
  /\ UNCHANGED <<host, record, holders, known, lost, merged, recovery, faults>>

\* The key is gone, or the evaluation fails: nothing is committed.
WrapFails(d) ==
  /\ adding[d].pc = "wrap"
  /\ \/ adding[d].kid \notin served /\ UNCHANGED faults
     \/ Fault
  /\ adding' = [adding EXCEPT ![d] = NoAdd]
  /\ UNCHANGED <<host, record, holders, local, known, lost, codes, merged, recovery>>

\* The call returns Ok: the user has the secret.
ReturnsOk(d) ==
  /\ known' = known \cup {adding[d].code}
  /\ adding' = [adding EXCEPT ![d] = NoAdd]
  /\ UNCHANGED lost

\* push_quietly, the answer has come.
PushQuietly(d) ==
  /\ adding[d].pc = "push"
  /\ HostTakes(d)
  /\ Noted(d)
  /\ ReturnsOk(d)
  /\ UNCHANGED <<host, codes, recovery, faults>>

\* push fails before or after the host took the container, with any error, or
\* it gives up.
PushEnds(d) ==
  /\ Fault
  /\ adding[d].pc = "push"
  /\ \/ HostTakes(d) /\ Unnoted(d)
     \/ UNCHANGED <<record, holders, local, merged>>
  /\ UNCHANGED <<host, codes, recovery>>

\* Wrong on purpose: commit passes the error of the push on, and the caller
\* never sees the code.
PushEndsWithError(d) ==
  /\ PushEnds(d)
  /\ adding' = [adding EXCEPT ![d] = NoAdd]
  /\ UNCHANGED <<known, lost>>

\* commit discards what push_quietly returns.
PushQuietlyFails(d) == PushEnds(d) /\ ReturnsOk(d)

\* The process ends between the commit and the return.
Dies(d) ==
  /\ PushEnds(d)
  /\ lost' = lost \cup {adding[d].code}
  /\ adding' = [adding EXCEPT ![d] = NoAdd]
  /\ UNCHANGED known

-----------------------------------------------------------------------------
(* Recovery on a new device.                                               *)

\* The user types a secret, the right one or not, with a grant from the
\* mailbox; a grant opens the record once.
Begin(m, c) ==
  /\ rec.pc \in {"idle"} \cup Ended
  /\ tries < MaxTries
  /\ tries' = tries + 1
  /\ \E g \in {TRUE, rec.granted} :
       rec' = [NoRecovery EXCEPT !.pc = "read", !.method = m, !.code = c,
                                 !.granted = g]
  /\ UNCHANGED <<host, devices, faults>>

\* The slots of the method asked for.
SlotsOf(m) == record.slots[m]

\* current_record, and the checks on what it returns.
ReadRecord ==
  /\ rec.pc = "read"
  /\ LET slots == SlotsOf(rec.method) IN
     rec' = [rec EXCEPT
       !.granted = FALSE,
       !.slots = IF rec.granted THEN slots ELSE <<>>,
       !.pc = CASE ~rec.granted        -> "unauthorized"
                [] record.version = 0  -> "vault_not_synced"
                [] slots = <<>>        -> "ERR_UNLOCK"
                [] OTHER               -> "try"]
  /\ UNCHANGED <<host, devices, tries, faults>>

ReadFails ==
  /\ Fault
  /\ rec.pc = "read"
  /\ \E f \in Failures :
       rec' = [rec EXCEPT !.pc = f.code, !.granted = @ /\ ~f.taken]
  /\ UNCHANGED <<host, devices, tries>>

IsLast == rec.next = Len(rec.slots)

\* Wrong on purpose: the first slot whose evaluation fails ends the loop.
GoOnOrGiveUp(error, failed) ==
  rec' = [rec EXCEPT !.failed = failed, !.pc = error]

\* The slot does not open: the next one is tried, and the last one's error
\* is returned.
GoOn(error, failed) ==
  rec' = IF IsLast THEN [rec EXCEPT !.failed = failed, !.pc = error]
                   ELSE [rec EXCEPT !.failed = failed, !.next = @ + 1]

\* What the evaluation makes of the secret opens the slot that was wrapped with
\* the same secret: PrecomputedPepperOprf hands it out for this slot only.
Unwraps(slot, code) == slot.code = code

\* The slot's evaluation succeeds, and opens the vault or does not.
TrySlot ==
  /\ rec.pc = "try"
  /\ LET slot == rec.slots[rec.next] IN
     /\ slot.kid \in served
     /\ IF Unwraps(slot, rec.code)
        THEN rec' = [rec EXCEPT !.pc = "opened"]
        ELSE GoOn("ERR_WRAP_DECRYPT", rec.failed)
  /\ UNCHANGED <<host, devices, tries, faults>>

\* HostPepperOprf::finalize fails: the kid is not served,
SlotGone ==
  /\ rec.pc = "try"
  /\ rec.slots[rec.next].kid \notin served
  /\ GoOn("unknown_kid", rec.failed \cup {rec.next})
  /\ UNCHANGED <<host, devices, tries, faults>>

\* the call fails, or the answer names another kid or carries a proof that
\* does not verify.
EvaluationFails ==
  /\ Fault
  /\ rec.pc = "try"
  /\ \E e \in {f.code : f \in Failures} \cup {"invalid_evaluation"} :
       GoOn(e, rec.failed \cup {rec.next})
  /\ UNCHANGED <<host, devices, tries>>

-----------------------------------------------------------------------------
(* The specification.                                                      *)

Next ==
  \/ \E k \in Kid : Rotate(k) \/ Drop(k)
  \/ \E d \in Device :
       \/ \E m \in Method : AskKeys(d, m)
       \/ Wrap(d) \/ WrapFails(d)
       \/ PushQuietly(d) \/ PushQuietlyFails(d) \/ Dies(d)
       \/ Resolve(d) \/ Push(d) \/ PushFails(d) \/ Pull(d) \/ Adopt(d)
  \/ \E m \in Method, c \in Code : Begin(m, c)
  \/ ReadRecord \/ ReadFails \/ TrySlot \/ SlotGone \/ EvaluationFails

Spec == Init /\ [][Next]_vars

-----------------------------------------------------------------------------
(* Properties.                                                             *)

\* A recovery that got to the slots opens the vault exactly when the secret is
\* that of a slot whose evaluation did not fail: no slot hides a later one,
\* and ERR_WRAP_DECRYPT for the right secret means that its slot could not be
\* evaluated, an error the loop does not report when another slot follows.
SecretOpensItsSlot ==
  rec.pc \in Ended /\ rec.slots # <<>> /\ rec.pc # "vault_not_synced" =>
    (rec.pc = "opened" <=>
       \E i \in 1 .. Len(rec.slots) : /\ rec.slots[i].code = rec.code
                                      /\ i \notin rec.failed)

\* A replaced secret opens nothing. While no device merged its work into
\* another's, a slot comes to the host only in the place of every older one of
\* its method, and none comes back, whatever answers are lost.
ReplacedCodeIsGone ==
  [][~merged' =>
       \A m \in Method :
         \A s \in Range(record'.slots[m]) \ Range(record.slots[m]),
            t \in Range(record.slots[m]) :
           /\ t.code < s.code
           /\ t \notin Range(record'.slots[m])]_vars

\* Nobody is locked out by setting a secret. The user has every secret of the
\* record, or gets it from a call that is still under way, or the process
\* ended inside that call: no failing push puts a code in the place of the old
\* one and then loses it.
EverySecretIsKnown ==
  \A m \in Method : \A s \in Range(record.slots[m]) :
    \/ s.code \in known \cup lost
    \/ \E d \in Device : adding[d].pc = "push" /\ adding[d].code = s.code
=============================================================================
