------------------------------ MODULE DartVault ------------------------------
(***************************************************************************)
(* The vault of scomm_vault_client/lib/src/key_vault.dart with the record  *)
(* host: what the Dart client adds to the vault of KeyVault. It pins the   *)
(* master signing key (MSK) it last accepted, keeps the last synced        *)
(* generation to notice a host that goes back, replaces the MSK, and may   *)
(* adopt a vault over the one it has stored.                               *)
(*                                                                         *)
(* Calls take turns (_locked), and what a turn does between two answers of *)
(* the host is seen by no one else. A pull, which asks the host once, is   *)
(* one step; a push has a step for each request. The writes of a step      *)
(* reach the store one after the other, and a fault may cut them short.    *)
(***************************************************************************)
EXTENDS Integers, Sequences, FiniteSets

CONSTANTS
  Device,        \* installs that share the vault
  Creator,       \* the one that created it
  Change,        \* what edits can add: keys, their statuses, tombstones
  Ops,           \* the calls a run admits, a subset of Op
  Faults,        \* the faults a run admits, a subset of FaultKind
  PushAttempts,  \* times a push offers a generation; 4 in the code
  MaxCalls,      \* bound: calls other than sync, push, open and adopt
  MaxFaults      \* bound: kinds of faults that happen, each of them once

Op == {"edit", "remove", "rotate_vek", "hybrid", "revoke", "adopt_again",
       "clear", "pull"}

FaultKind == {"network", "store", "crash", "rollback"}

ASSUME CreatorAssumption == Creator \in Device
ASSUME OpsAssumption == Ops \subseteq Op
ASSUME FaultsAssumption == Faults \subseteq FaultKind
ASSUME BoundsAssumption == /\ PushAttempts \in Nat \ {0}
                           /\ MaxCalls \in Nat
                           /\ MaxFaults \in Nat

\* No hash: an absent store key, an empty host, a closed vault, no parent.
None == 0

\* The parent of a generation sealed on one that was never stored.
Unstored == -1

VARIABLES
  sealed,    \* the generations sealed and stored so far; a hash is an index
  records,   \* the host's accepted generations: records[g] is a hash
  store,     \* store[d]: the device's durable keys
  vault,     \* vault[d]: hash of the generation open in memory, or None
  pc,        \* pc[d]: where the running push stands
  attempt,   \* attempt[d]: number of the running push attempt
  inHand,    \* inHand[d]: a generation opened by pairing, to be adopted
  calls,     \* calls made so far
  faults     \* kinds of faults so far

vars == <<sealed, records, store, vault, pc, attempt, inHand, calls, faults>>

-----------------------------------------------------------------------------
(* Generations.                                                            *)

Hashes == 1 .. Len(sealed)

\* An MSK goes by the generation that introduced it.
Msk == [made : Nat, hybrid : BOOLEAN]

Generation == [gen     : Nat \ {0},
               prev    : Nat \cup {Unstored},
               changes : SUBSET Change,
               slots   : SUBSET Nat,      \* device slots, by the generation
                                          \* that added them
               msk     : Msk]

Gen(h) == IF h = None THEN 0 ELSE sealed[h].gen

Changes(h) == IF h = None THEN {} ELSE sealed[h].changes

MskOf(h) == sealed[h].msk.made

NewHash == Len(sealed) + 1

\* The hash of the n-th generation on top of h, when the n - 1 before it are
\* sealed on the way and stored by no one.
Parent(h, n) == IF n = 1 THEN h ELSE Unstored

\* rechain: the same payload under another parent.
Rechained(h, g, p) == [sealed[h] EXCEPT !.gen = g, !.prev = p]

\* ckvf's mergeOnto: a child of the head with the changes of both sides.
\* Which slots and which MSK it takes cannot be seen from the calls made here.
Merges(head, h) ==
  {[gen     |-> sealed[head].gen + 1,
    prev    |-> head,
    changes |-> sealed[head].changes \cup sealed[h].changes,
    slots   |-> S,
    msk     |-> m] :
      S \in {sealed[head].slots, sealed[head].slots \cup sealed[h].slots},
      m \in {sealed[head].msk, sealed[h].msk}}

-----------------------------------------------------------------------------
(* The host (external).                                                    *)

CurrentRecord == IF records = <<>> THEN None ELSE records[Len(records)]

IsDuplicate(h) == /\ sealed[h].gen <= Len(records)
                  /\ records[sealed[h].gen] = h

Extends(h) == /\ sealed[h].gen = Len(records) + 1
              /\ sealed[h].prev = CurrentRecord

HostAccepts(h) ==
  \/ /\ IsDuplicate(h)
     /\ UNCHANGED records
  \/ /\ ~IsDuplicate(h)
     /\ Extends(h)
     /\ records' = Append(records, h)

HostRefuses(h) == ~IsDuplicate(h) /\ ~Extends(h)

-----------------------------------------------------------------------------
(* Types and the initial state.                                            *)

Hash == Hashes \cup {None}

TypeOK ==
  /\ sealed \in Seq(Generation)
  /\ records \in Seq(Hashes)
  /\ store \in [Device -> [container : Hash,
                           slot      : Hash,
                           synced    : Hash,   \* synced_hash
                           base      : Hash,   \* synced_container
                           pinned    : Hash]]  \* pinned_msk
  /\ vault \in [Device -> Hash]
  /\ pc \in [Device -> {"idle", "put", "read"}]
  /\ attempt \in [Device -> 0 .. PushAttempts]
  /\ inHand \in [Device -> Hash]
  /\ calls \in 0 .. MaxCalls
  /\ faults \subseteq Faults

Empty == [container |-> None, slot |-> None, synced |-> None,
          base |-> None, pinned |-> None]

\* The creator has run create(): the first generation, under its slot.
Init ==
  /\ sealed = <<[gen |-> 1, prev |-> None, changes |-> {}, slots |-> {1},
                 msk |-> [made |-> 1, hybrid |-> FALSE]]>>
  /\ records = <<>>
  /\ store = [d \in Device |->
                IF d = Creator
                THEN [Empty EXCEPT !.container = 1, !.slot = 1]
                ELSE Empty]
  /\ vault = [d \in Device |-> IF d = Creator THEN 1 ELSE None]
  /\ pc = [d \in Device |-> "idle"]
  /\ attempt = [d \in Device |-> 0]
  /\ inHand = [d \in Device |-> None]
  /\ calls = 0
  /\ faults = {}

-----------------------------------------------------------------------------
(* What the steps are made of.                                             *)

Call(op) == op \in Ops /\ calls < MaxCalls /\ calls' = calls + 1

Fault(kind) == /\ kind \in Faults \ faults
               /\ Cardinality(faults) < MaxFaults
               /\ faults' = faults \cup {kind}

IsOpen(d) == pc[d] = "idle" /\ vault[d] # None

Opens(d, h) == store[d].slot \in sealed[h].slots

Goto(d, p, n) == /\ pc' = [pc EXCEPT ![d] = p]
                 /\ attempt' = [attempt EXCEPT ![d] = n]

Return(d) == Goto(d, "idle", 0)

\* The last of the writes ws of a step is done, and h is the open vault.
Wrote(d, ws, h) ==
  /\ store' = [store EXCEPT ![d] = ws[Len(ws)]]
  /\ vault' = [vault EXCEPT ![d] = h]

\* Only the first of them are done: a write fails, and the call with it, or
\* the process ends, and what it had in memory is gone.
CutShort(d, ws) ==
  /\ \E i \in 0 .. Len(ws) - 1 :
        store' = IF i = 0 THEN store ELSE [store EXCEPT ![d] = ws[i]]
  /\ \/ /\ Fault("store")
        /\ UNCHANGED <<vault, inHand>>
     \/ /\ Fault("crash")
        /\ vault' = [vault EXCEPT ![d] = None]
        /\ inHand' = [inHand EXCEPT ![d] = None]
  /\ Return(d)

\* _persist(h) on the store s.
Persisting(s, h) == <<[s EXCEPT !.container = h]>>

\* Wrong on purpose: the MSK that was pinned first stays.
MarkingPinsOnce(s, h) ==
  LET pin == IF s.pinned = None THEN MskOf(h) ELSE s.pinned
  IN <<[s EXCEPT !.synced = h],
       [s EXCEPT !.synced = h, !.base = h],
       [s EXCEPT !.synced = h, !.base = h, !.pinned = pin]>>

\* _markSynced(h): hash, container and MSK, in this order.
Marking(s, h) == <<[s EXCEPT !.synced = h],
                   [s EXCEPT !.synced = h, !.base = h],
                   [s EXCEPT !.synced = h, !.base = h, !.pinned = MskOf(h)]>>

\* Wrong on purpose: any MSK will do.
AnyMskAccepted(d, h) == TRUE

\* _acceptMsk: the MSK is the pinned one, or there is none.
MskAccepted(d, h) == store[d].pinned \in {None, MskOf(h)}

SyncedGeneration(d) == Gen(store[d].base)

\* Wrong on purpose: the device's slot is not asked for.
AcceptsWithoutSlot(d, h) == Gen(h) >= SyncedGeneration(d) /\ MskAccepted(d, h)

\* The head may be taken over: it is no older than the last synced generation,
\* the device has a slot in it, and its MSK is accepted.
Accepts(d, h) == /\ Gen(h) >= SyncedGeneration(d)
                 /\ Opens(d, h)
                 /\ MskAccepted(d, h)

-----------------------------------------------------------------------------
(* Opening and changing a vault.                                           *)

Open(d) ==
  /\ pc[d] = "idle"
  /\ vault[d] = None
  /\ store[d].container # None
  /\ Opens(d, store[d].container)
  /\ vault' = [vault EXCEPT ![d] = store[d].container]
  /\ UNCHANGED <<sealed, records, store, pc, attempt, inHand, calls, faults>>

\* A device whose adoption was cut short between its key and its slot id has
\* no slot here, and is not taken to rotate or revoke.
Mine(d) == store[d].slot # None

\* commit(change): n generations are sealed, the last is stored after the
\* writes ws. The push that follows takes a turn of its own (Push).
Commit(d, op, g, n, s) ==
  /\ IsOpen(d)
  /\ Call(op)
  /\ sealed' = Append(sealed, [g EXCEPT !.gen = @ + n,
                                        !.prev = Parent(vault[d], n)])
  /\ LET ws == (IF s = store[d] THEN <<>> ELSE <<s>>)
                 \o Persisting(s, NewHash)
     IN \/ Wrote(d, ws, NewHash) /\ UNCHANGED <<pc, attempt, inHand, faults>>
        \/ CutShort(d, ws)
  /\ UNCHANGED records

\* importKey and the other edits: a second generation holds the metadata.
Edit(d, c, n) ==
  /\ IsOpen(d)
  /\ c \notin Changes(vault[d])
  /\ Commit(d, "edit", [sealed[vault[d]] EXCEPT !.changes = @ \cup {c}],
            n, store[d])

\* Any slot may go, this device's own too: it keeps the open vault, and opens
\* what it stored no more.
RemoveDevice(d, slot) ==
  /\ IsOpen(d)
  /\ slot \in sealed[vault[d]].slots
  /\ Commit(d, "remove", [sealed[vault[d]] EXCEPT !.slots = @ \ {slot}],
            2, store[d])

RotateVekToThisDevice(d) ==
  /\ IsOpen(d)
  /\ Mine(d)
  /\ Commit(d, "rotate_vek",
            [sealed[vault[d]] EXCEPT !.slots = {store[d].slot}], 2, store[d])

\* rotateToHybridMsk: a vault is rotated once.
RotateToHybridMsk(d) ==
  /\ IsOpen(d)
  /\ ~sealed[vault[d]].msk.hybrid
  /\ Commit(d, "hybrid",
            [sealed[vault[d]] EXCEPT !.msk = [made   |-> NewHash,
                                              hybrid |-> TRUE]],
            1, store[d])

\* revokeDevice: a new VEK and a new MSK, which is pinned before the vault
\* that has it is stored. No device publishes the HPKE key that would keep its
\* slot, so that the caller's slot is the only one left.
RevokeDevice(d, slot) ==
  /\ IsOpen(d)
  /\ slot \in sealed[vault[d]].slots \ {store[d].slot}
  /\ Mine(d)
  /\ Commit(d, "revoke",
            [sealed[vault[d]] EXCEPT !.slots = {store[d].slot},
                                     !.msk   = [made   |-> NewHash,
                                                hybrid |-> FALSE]],
            3, [store[d] EXCEPT !.pinned = NewHash])

\* The calls that change the open vault.
Edits(d) ==
  \/ \E c \in Change, n \in 1 .. 2 : Edit(d, c, n)
  \/ \E slot \in Hashes : RemoveDevice(d, slot) \/ RevokeDevice(d, slot)
  \/ RotateVekToThisDevice(d) \/ RotateToHybridMsk(d)

\* clear(): the keys go one by one, in the order of LocalVaultKeys.all, and
\* then the open vault.
Clear(d) ==
  /\ pc[d] = "idle"
  /\ store[d].container # None
  /\ Call("clear")
  /\ LET s == store[d]
         ws == <<[s EXCEPT !.container = None],
                 [s EXCEPT !.container = None, !.slot = None],
                 [Empty EXCEPT !.base = s.base, !.pinned = s.pinned],
                 [Empty EXCEPT !.pinned = s.pinned],
                 Empty>>
     IN \/ Wrote(d, ws, None) /\ UNCHANGED <<pc, attempt, inHand, faults>>
        \/ CutShort(d, ws)
  /\ UNCHANGED <<sealed, records>>

-----------------------------------------------------------------------------
(* Adopting the host's vault.                                              *)

\* Pairing or recovery opens the current record, for a device without a vault
\* or one whose slot is no more in the record or in the vault it has stored.
ReceiveVault(d) ==
  /\ inHand[d] = None
  /\ CurrentRecord # None
  /\ \/ store[d].container = None /\ UNCHANGED calls
     \/ /\ store[d].container # None
        /\ ~Opens(d, CurrentRecord) \/ ~Opens(d, store[d].container)
        /\ Call("adopt_again")
  /\ inHand' = [inHand EXCEPT ![d] = CurrentRecord]
  /\ UNCHANGED <<sealed, records, store, vault, pc, attempt, faults>>

\* adopt(opened, storedOnHost): a child with a slot for this device. The slot
\* opens nothing until its key and its id are both stored.
Adopt(d, storedOnHost) ==
  /\ pc[d] = "idle"
  /\ inHand[d] # None
  /\ sealed' = Append(sealed, [sealed[inHand[d]] EXCEPT
                                 !.gen = @ + 1,
                                 !.prev = inHand[d],
                                 !.slots = @ \cup {NewHash}])
  /\ LET keyed  == [store[d] EXCEPT !.slot = None]
         slotted == [store[d] EXCEPT !.slot = NewHash]
         noted  == [slotted EXCEPT
                      !.synced = IF storedOnHost THEN inHand[d] ELSE None]
         ws == <<keyed, slotted, noted>> \o Persisting(noted, NewHash)
     IN \/ /\ Wrote(d, ws, NewHash)
           /\ inHand' = [inHand EXCEPT ![d] = None]
           /\ UNCHANGED <<pc, attempt, faults>>
        \/ CutShort(d, ws)
  /\ UNCHANGED <<records, calls>>

-----------------------------------------------------------------------------
(* pull, and sync, which is a pull and then a push. A pull that is refused *)
(* (an older generation, no slot, another MSK) changes nothing.            *)

Pulls(d, sync, ws, h) ==
  /\ \/ /\ Wrote(d, ws, h)
        /\ UNCHANGED <<inHand, faults>>
        /\ IF sync THEN Goto(d, "put", 1) ELSE UNCHANGED <<pc, attempt>>
     \/ CutShort(d, ws)
  /\ IF sync THEN UNCHANGED calls ELSE Call("pull")
  /\ UNCHANGED records

\* The record is the open generation: it is known to be stored.
PullSame(d, sync) ==
  /\ IsOpen(d)
  /\ CurrentRecord = vault[d]
  /\ UNCHANGED sealed
  /\ Pulls(d, sync, <<[store[d] EXCEPT !.synced = CurrentRecord]>>, vault[d])

\* Nothing changed here: the head is noted as synced, then stored.
PullForward(d, sync) ==
  /\ IsOpen(d)
  /\ CurrentRecord \notin {None, vault[d]}
  /\ Accepts(d, CurrentRecord)
  /\ store[d].synced = vault[d]
  /\ UNCHANGED sealed
  /\ LET ws == Marking(store[d], CurrentRecord)
     IN Pulls(d, sync, ws \o Persisting(ws[3], CurrentRecord), CurrentRecord)

\* Wrong on purpose: the merge is noted as synced before it is pushed.
PullMergeNoted(d, sync) ==
  /\ IsOpen(d)
  /\ CurrentRecord \notin {None, vault[d]}
  /\ Accepts(d, CurrentRecord)
  /\ store[d].synced # vault[d]
  /\ \E g \in Merges(CurrentRecord, vault[d]) : sealed' = Append(sealed, g)
  /\ Pulls(d, sync,
           <<[store[d] EXCEPT !.base = NewHash, !.container = NewHash]>>,
           NewHash)

\* There are local changes: they are merged onto the head.
PullMerge(d, sync) ==
  /\ IsOpen(d)
  /\ CurrentRecord \notin {None, vault[d]}
  /\ Accepts(d, CurrentRecord)
  /\ store[d].synced # vault[d]
  /\ \E g \in Merges(CurrentRecord, vault[d]) : sealed' = Append(sealed, g)
  /\ Pulls(d, sync, Persisting(store[d], NewHash), NewHash)

Pull(d, sync) == PullSame(d, sync) \/ PullForward(d, sync) \/ PullMerge(d, sync)

-----------------------------------------------------------------------------
(* push.                                                                   *)

Push(d) ==
  /\ IsOpen(d)
  /\ Goto(d, "put", 1)
  /\ UNCHANGED <<sealed, records, store, vault, inHand, calls, faults>>

PushNothing(d) ==
  /\ pc[d] = "put"
  /\ store[d].synced = vault[d]
  /\ Return(d)
  /\ UNCHANGED <<sealed, records, store, vault, inHand, calls, faults>>

Offering(d) == pc[d] = "put" /\ store[d].synced # vault[d]

\* putRecord succeeds, and the device notes what the host now stores.
PushStored(d) ==
  /\ Offering(d)
  /\ HostAccepts(vault[d])
  /\ LET ws == Marking(store[d], vault[d])
     IN \/ Wrote(d, ws, vault[d]) /\ Return(d) /\ UNCHANGED <<inHand, faults>>
        \/ CutShort(d, ws)
  /\ UNCHANGED <<sealed, calls>>

\* The resolved generation is stored, and offered if an attempt is left.
Resolve(d, g) ==
  /\ sealed' = Append(sealed, g)
  /\ LET ws == Persisting(store[d], NewHash)
     IN \/ /\ Wrote(d, ws, NewHash)
           /\ IF attempt[d] < PushAttempts THEN Goto(d, "put", attempt[d] + 1)
                                           ELSE Return(d)
           /\ UNCHANGED <<inHand, faults>>
        \/ CutShort(d, ws)
  /\ UNCHANGED <<records, calls>>

\* generation_conflict from an empty host, as its answer says or as the read
\* after it shows: the chain restarts at 1.
PushRestart(d) ==
  /\ \/ Offering(d) /\ HostRefuses(vault[d])
     \/ pc[d] = "read"
  /\ CurrentRecord = None
  /\ Resolve(d, Rechained(vault[d], 1, None))

\* generation_conflict: the head is read before it is resolved.
PushConflict(d) ==
  /\ Offering(d)
  /\ HostRefuses(vault[d])
  /\ CurrentRecord # None
  /\ Goto(d, "read", attempt[d])
  /\ UNCHANGED <<sealed, records, store, vault, inHand, calls, faults>>

Reading(d) == pc[d] = "read" /\ CurrentRecord # None

\* Wrong on purpose: every conflict is taken for this device's own backlog.
PushRechainAlways(d) ==
  /\ Reading(d)
  /\ Resolve(d, Rechained(vault[d], Gen(CurrentRecord) + 1, CurrentRecord))

\* The head is the one last synced: the local work is rechained onto it.
PushRechain(d) ==
  /\ Reading(d)
  /\ store[d].synced = CurrentRecord
  /\ Resolve(d, Rechained(vault[d], Gen(CurrentRecord) + 1, CurrentRecord))

\* Another device wrote the head: the local work is merged onto it,
PushMerge(d) ==
  /\ Reading(d)
  /\ store[d].synced # CurrentRecord
  /\ Accepts(d, CurrentRecord)
  /\ \E g \in Merges(CurrentRecord, vault[d]) : Resolve(d, g)

\* or push fails, as a pull would.
PushRefused(d) ==
  /\ Reading(d)
  /\ store[d].synced # CurrentRecord
  /\ ~Accepts(d, CurrentRecord)
  /\ Return(d)
  /\ UNCHANGED <<sealed, records, store, vault, inHand, calls, faults>>

-----------------------------------------------------------------------------
(* Faults.                                                                 *)

HostCallFails(d) ==
  /\ Fault("network")
  /\ pc[d] # "idle"
  /\ Return(d)
  /\ UNCHANGED <<sealed, records, store, vault, inHand, calls>>

AnswerLost(d) ==
  /\ Fault("network")
  /\ Offering(d)
  /\ HostAccepts(vault[d])
  /\ Return(d)
  /\ UNCHANGED <<sealed, store, vault, inHand, calls>>

Crash(d) ==
  /\ Fault("crash")
  /\ vault[d] # None \/ pc[d] # "idle"
  /\ vault' = [vault EXCEPT ![d] = None]
  /\ inHand' = [inHand EXCEPT ![d] = None]
  /\ Return(d)
  /\ UNCHANGED <<sealed, records, store, calls>>

\* The host loses its last generations, or all of them.
HostGoesBack ==
  /\ Fault("rollback")
  /\ \E n \in 0 .. Len(records) - 1 : records' = SubSeq(records, 1, n)
  /\ UNCHANGED <<sealed, store, vault, pc, attempt, inHand, calls>>

-----------------------------------------------------------------------------
(* The specification.                                                      *)

PushStep(d) == \/ PushNothing(d) \/ PushStored(d) \/ PushRestart(d)
               \/ PushConflict(d) \/ PushRechain(d) \/ PushMerge(d)
               \/ PushRefused(d)

Next ==
  \/ \E d \in Device :
       \/ Open(d) \/ Clear(d) \/ ReceiveVault(d) \/ Push(d) \/ PushStep(d)
       \/ Edits(d)
       \/ \E storedOnHost \in BOOLEAN : Adopt(d, storedOnHost)
       \/ \E sync \in BOOLEAN : Pull(d, sync)
       \/ HostCallFails(d) \/ AnswerLost(d) \/ Crash(d)
  \/ HostGoesBack

Spec == Init /\ [][Next]_vars

-----------------------------------------------------------------------------
(* Properties.                                                             *)

Torn == faults \cap {"store", "crash"} # {}

\* Whatever is pulled, merged, rechained, rotated or revoked, no device's
\* changes replace another one's: the host's grow, and so do those of an open
\* vault that is not given up for another one (adopt). Where the host has lost
\* records, that holds of a vault for as long as the host serves less than its
\* device has synced. Writes cut short are left out: what they do is in
\* KeyVault's torn pull.
ChangesAreKept ==
  [][~Torn' =>
       /\ "rollback" \notin faults'
            => Changes(CurrentRecord) \subseteq Changes(CurrentRecord)'
       /\ \A d \in Device :
            /\ vault[d] # None /\ vault'[d] # None /\ inHand'[d] = inHand[d]
            /\ "rollback" \in faults
                 => records # <<>> /\ SyncedGeneration(d) > Len(records)
            => Changes(vault[d]) \subseteq Changes(vault[d])']_vars

\* A device opens the vault it stores with the slot it has stored before: it
\* takes over no head from which it was removed, and a vault it adopts comes
\* after its slot, wherever a call is cut short. Two things excuse a step: it
\* removes this device, or it goes on from an open vault that had lost the slot
\* already (to such a removal, or to a clear() or an adoption cut short). What
\* the host serves (pull, merge, adopt) has no such excuse.
StoredVaultOpens ==
  [][\A d \in Device :
       LET c == store'[d].container
           lost == vault[d] # None /\ ~Opens(d, vault[d])
       IN c \notin {None, store[d].container}
            => \/ store'[d].slot \in sealed'[c].slots
               \/ RemoveDevice(d, store[d].slot)
               \/ lost /\ (Edits(d) \/ PushRestart(d) \/ PushRechain(d))]_vars

\* A host that never goes back is never reported for it: no device's last
\* synced generation has a number beyond the host's head, though push may
\* restart the numbers and a lost answer has a generation accepted twice.
NoFalseRollback ==
  "rollback" \notin faults
    => \A d \in Device : SyncedGeneration(d) <= Len(records)

\* Under an MSK that revokeDevice introduced, no slot from before it is served
\* but those it kept: what other devices pushed while the revocation was on its
\* way is not merged back in.
RevokedStaysOut ==
  \A g \in DOMAIN records :
    LET r == sealed[records[g]]
    IN r.msk.made > 1 /\ ~r.msk.hybrid
         => \A slot \in r.slots : slot < r.msk.made
                                 => slot \in sealed[r.msk.made].slots

\* A device that syncs is told that the MSK changed.
ToldMskChanged(d) ==
  /\ pc[d] = "idle" /\ vault[d] # None
  /\ CurrentRecord \notin {None, vault[d]}
  /\ Gen(CurrentRecord) >= SyncedGeneration(d)
  /\ Opens(d, CurrentRecord)
  /\ ~MskAccepted(d, CurrentRecord)

\* As long as nothing fails it is told so of no MSK that its own vault has:
\* every sync that took the MSK over, or published it, has pinned it. (After a
\* lost answer to a push that replaced the MSK it is; and a device that revokes
\* another is told so of the MSK it had itself before.)
HeldMskIsAccepted ==
  faults = {} => \A d \in Device :
    ToldMskChanged(d) => MskOf(CurrentRecord) # MskOf(vault[d])
=============================================================================
