----------------------------- MODULE FolderSync -----------------------------
(***************************************************************************)
(* A vault that its devices keep in a store of the user's own: the Dart    *)
(* KeyVault with a syncStore (packages/scomm_vault_client/lib/src/         *)
(* key_vault.dart, _pullSync and _pushSync) over vault_sync.dart.          *)
(*                                                                         *)
(* The store has a file per generation number and a head file that names   *)
(* the current generation. An atomic store tests and writes a file in one  *)
(* step, as WebDavVaultSync does where the server honours If-None-Match    *)
(* and If-Match, and names a head file by the hash in it: the client sends *)
(* that hash as the ETag. The other kind is FolderVaultSync on a directory *)
(* that the devices share: a file is looked at, then written beside        *)
(* itself, then renamed, and another process may move between any two of   *)
(* the three.                                                              *)
(*                                                                         *)
(* Generations are numbered in the order of sealing and a number stands    *)
(* for the hash, as in KeyVault. The stored container stands for the open  *)
(* vault too, since persist stores one and opens it in the same step. The  *)
(* devices have joined before, so every generation holds all their slots.  *)
(***************************************************************************)
EXTENDS Naturals, Sequences

CONSTANTS
  Device,        \* devices that share the store
  Key,           \* keys that can be imported
  Faults,        \* the faults a run admits, a subset of FaultKind
  PushAttempts,  \* rounds of one push; 4 in the code
  MaxCalls,      \* bound: imports and pulls
  MaxFaults      \* bound: faults

FaultKind == {"network", "crash"}

ASSUME FaultsAssumption == Faults \subseteq FaultKind
ASSUME BoundsAssumption == /\ PushAttempts \in Nat \ {0}
                           /\ MaxCalls \in Nat
                           /\ MaxFaults \in Nat

\* No hash: an absent file or store key, no parent.
None == 0

VARIABLES
  atomic,   \* the store tests and writes in one step
  sealed,   \* every generation sealed so far; a hash is an index of it
  head,     \* the hash in head.json
  gens,     \* the generations in g/<n>.json, at most one for a number
  tmps,     \* what stands in g/<n>.json.tmp and head.json.tmp
  store,    \* store[d]: container, synced_hash and synced_container
  pc,       \* pc[d]: where the running call stands
  seen,     \* seen[d]: the head the running call has read
  attempt,  \* attempt[d]: number of the running push round
  calls,
  faults

remote == <<head, gens, tmps>>
call   == <<pc, seen, attempt>>
vars   == <<atomic, sealed, remote, store, call, calls, faults>>

Hashes == 1 .. Len(sealed)

Generation == [gen : Nat \ {0}, prev : Nat, facts : SUBSET Key]

Gen(h) == IF h = None THEN 0 ELSE sealed[h].gen

Facts(h) == IF h = None THEN {} ELSE sealed[h].facts

\* The file of generation number n: the hashes in F with that number.
AtGen(F, n) == {h \in F : sealed[h].gen = n}

Put(F, h) == (F \ AtGen(F, sealed[h].gen)) \cup {h}

PC == {"idle", "pull_get", "pull_base", "pull_persist",
       "push_head", "push_get", "push_put", "put_tmp", "put_rename",
       "push_cas", "cas_tmp", "cas_rename", "push_base"}

TypeOK ==
  /\ atomic \in BOOLEAN
  /\ sealed \in Seq(Generation)
  /\ head \in Hashes \cup {None}
  /\ gens \subseteq Hashes
  /\ tmps \in [gens : SUBSET Hashes, head : Hashes \cup {None}]
  /\ store \in [Device -> [container : Hashes,
                           synced    : Hashes \cup {None},
                           base      : Hashes \cup {None}]]
  /\ pc \in [Device -> PC]
  /\ seen \in [Device -> Hashes \cup {None}]
  /\ attempt \in [Device -> 0 .. PushAttempts]
  /\ calls \in 0 .. MaxCalls
  /\ faults \in 0 .. MaxFaults

\* Generation 1 was created and generation 2 added the other devices; all
\* have synced it, through this store, or through the one they used before
\* they turned to this empty one.
Init ==
  /\ atomic \in BOOLEAN
  /\ sealed = <<[gen |-> 1, prev |-> None, facts |-> {}],
                [gen |-> 2, prev |-> 1, facts |-> {}]>>
  /\ \/ head = 2 /\ gens = {1, 2}
     \/ head = None /\ gens = {}
  /\ tmps = [gens |-> {}, head |-> None]
  /\ store = [d \in Device |-> [container |-> 2, synced |-> 2, base |-> 2]]
  /\ pc = [d \in Device |-> "idle"]
  /\ seen = [d \in Device |-> None]
  /\ attempt = [d \in Device |-> 0]
  /\ calls = 0
  /\ faults = 0

-----------------------------------------------------------------------------
(* Steps calls are made of.                                                *)

Local(d) == store[d].container

Goto(d, p) == /\ pc' = [pc EXCEPT ![d] = p]
              /\ UNCHANGED <<seen, attempt>>

\* The call returns or throws.
Return(d) == /\ pc' = [pc EXCEPT ![d] = "idle"]
             /\ seen' = [seen EXCEPT ![d] = None]
             /\ attempt' = [attempt EXCEPT ![d] = 0]

\* The call has read the head and goes on.
See(d, p) == /\ pc' = [pc EXCEPT ![d] = p]
             /\ seen' = [seen EXCEPT ![d] = head]
             /\ UNCHANGED attempt

\* The next round of push, if one is left.
NextRound(d) ==
  IF attempt[d] < PushAttempts
  THEN /\ pc' = [pc EXCEPT ![d] = "push_head"]
       /\ seen' = [seen EXCEPT ![d] = None]
       /\ attempt' = [attempt EXCEPT ![d] = @ + 1]
  ELSE Return(d)

\* A generation is sealed and persisted.
Seal(d, g) == /\ sealed' = Append(sealed, g)
              /\ store' = [store EXCEPT ![d].container = Len(sealed) + 1]

\* _markSynced writes synced_hash first, synced_container in a step after.
MarkHash(d, h) == store' = [store EXCEPT ![d].synced = h]
MarkBase(d, h) == store' = [store EXCEPT ![d].base = h]

Called ==
  calls < MaxCalls /\ calls' = calls + 1 /\ UNCHANGED <<atomic, faults>>

Quiet == UNCHANGED <<atomic, calls, faults>>

Rechained(h, n, p) == [sealed[h] EXCEPT !.gen = n, !.prev = p]

\* _mergeNormalized: a child of the head with the facts of both.
Merged(h, l) == [gen   |-> sealed[h].gen + 1,
                 prev  |-> h,
                 facts |-> sealed[h].facts \cup sealed[l].facts]

\* The head's number is below that of the synced_container.
RolledBack(d, h) == h # None /\ Gen(h) < Gen(store[d].base)

-----------------------------------------------------------------------------
(* commit without its push, which Push is.                                 *)

Import(d, k) ==
  /\ pc[d] = "idle"
  /\ k \notin Facts(Local(d))
  /\ Called
  /\ Seal(d, [gen   |-> Gen(Local(d)) + 1,
              prev  |-> Local(d),
              facts |-> Facts(Local(d)) \cup {k}])
  /\ UNCHANGED <<remote, call>>

-----------------------------------------------------------------------------
(* pull                                                                    *)

\* The head is read. There is none, or it is older than what this device has
\* synced (generation_rollback), or it is the local generation, or its
\* generation is fetched.
Pull(d) ==
  /\ pc[d] = "idle"
  /\ Called
  /\ IF head = Local(d) THEN MarkHash(d, head) ELSE UNCHANGED store
  /\ IF head \in {None, Local(d)} \/ RolledBack(d, head)
     THEN UNCHANGED call
     ELSE See(d, "pull_get")
  /\ UNCHANGED <<sealed, remote>>

\* sync_missing, or sync_tamper: the file is not what the head says.
PullBadFile(d) ==
  /\ pc[d] = "pull_get"
  /\ AtGen(gens, Gen(seen[d])) # {seen[d]}
  /\ Return(d)
  /\ UNCHANGED <<sealed, remote, store>>
  /\ Quiet

Fetched(d) ==
  /\ pc[d] = "pull_get"
  /\ AtGen(gens, Gen(seen[d])) = {seen[d]}

\* Wrong on purpose: the head replaces a container that was changed here.
PullFastForwardAlways(d) ==
  /\ Fetched(d)
  /\ MarkHash(d, seen[d])
  /\ Goto(d, "pull_base")
  /\ UNCHANGED <<sealed, remote>>
  /\ Quiet

\* Nothing changed here: the head is marked as synced, then persisted.
PullFastForward(d) ==
  /\ Fetched(d)
  /\ store[d].synced = Local(d)
  /\ MarkHash(d, seen[d])
  /\ Goto(d, "pull_base")
  /\ UNCHANGED <<sealed, remote>>
  /\ Quiet

PullBase(d) ==
  /\ pc[d] = "pull_base"
  /\ MarkBase(d, seen[d])
  /\ Goto(d, "pull_persist")
  /\ UNCHANGED <<sealed, remote>>
  /\ Quiet

PullPersist(d) ==
  /\ pc[d] = "pull_persist"
  /\ store' = [store EXCEPT ![d].container = seen[d]]
  /\ Return(d)
  /\ UNCHANGED <<sealed, remote>>
  /\ Quiet

\* Wrong on purpose: the merge is marked as synced before it is pushed.
PullMergeAsSynced(d) ==
  /\ Fetched(d)
  /\ store[d].synced # Local(d)
  /\ sealed' = Append(sealed, Merged(seen[d], Local(d)))
  /\ store' = [store EXCEPT ![d].container = Len(sealed) + 1,
                            ![d].synced = Len(sealed) + 1]
  /\ Return(d)
  /\ UNCHANGED remote
  /\ Quiet

PullMerge(d) ==
  /\ Fetched(d)
  /\ store[d].synced # Local(d)
  /\ Seal(d, Merged(seen[d], Local(d)))
  /\ Return(d)
  /\ UNCHANGED remote
  /\ Quiet

-----------------------------------------------------------------------------
(* push                                                                    *)

Push(d) ==
  /\ pc[d] = "idle"
  /\ store[d].synced # Local(d)
  /\ pc' = [pc EXCEPT ![d] = "push_head"]
  /\ attempt' = [attempt EXCEPT ![d] = 1]
  /\ UNCHANGED <<sealed, remote, store, seen>>
  /\ Quiet

\* The local generation follows the head that was read.
ParentMatches(d, h) ==
  IF h = None THEN sealed[Local(d)].gen = 1
              ELSE sealed[Local(d)].prev = h

\* The head is the local generation: an earlier push got that far.
PushSame(d) ==
  /\ pc[d] = "push_head"
  /\ head = Local(d)
  /\ MarkHash(d, Local(d))
  /\ Goto(d, "push_base")
  /\ UNCHANGED <<sealed, remote>>
  /\ Quiet

\* generation_rollback, unless the local generation follows that head.
PushRolledBack(d) ==
  /\ pc[d] = "push_head"
  /\ head # Local(d)
  /\ RolledBack(d, head)
  /\ head # sealed[Local(d)].prev
  /\ Return(d)
  /\ UNCHANGED <<sealed, remote, store>>
  /\ Quiet

\* The local generation is put where it follows the head; otherwise the
\* head's generation is fetched, or the chain restarts where there is none.
PushHead(d) ==
  /\ pc[d] = "push_head"
  /\ head # Local(d)
  /\ ~(RolledBack(d, head) /\ head # sealed[Local(d)].prev)
  /\ head # None \/ ParentMatches(d, head)
  /\ See(d, IF ParentMatches(d, head) THEN "push_put" ELSE "push_get")
  /\ UNCHANGED <<sealed, remote, store>>
  /\ Quiet

PushRestart(d) ==
  /\ pc[d] = "push_head"
  /\ head = None
  /\ ~ParentMatches(d, None)
  /\ Seal(d, Rechained(Local(d), 1, None))
  /\ NextRound(d)
  /\ UNCHANGED remote
  /\ Quiet

\* The head is what this device last synced: its backlog follows it.
PushRechain(d) ==
  /\ pc[d] = "push_get"
  /\ seen[d] = store[d].synced
  /\ Seal(d, Rechained(Local(d), Gen(seen[d]) + 1, seen[d]))
  /\ NextRound(d)
  /\ UNCHANGED remote
  /\ Quiet

\* Another device moved the head: the local work is merged onto the file of
\* its generation, which push does not compare with the head's hash.
PushMerge(d) ==
  /\ pc[d] = "push_get"
  /\ seen[d] # store[d].synced
  /\ \E h \in AtGen(gens, Gen(seen[d])) : Seal(d, Merged(h, Local(d)))
  /\ NextRound(d)
  /\ UNCHANGED remote
  /\ Quiet

-----------------------------------------------------------------------------
(* putIfAbsent                                                             *)

LocalFile(d) == AtGen(gens, sealed[Local(d)].gen)

\* sync_tamper: the file exists with other bytes.
PutTampered(d) ==
  /\ pc[d] = "push_put"
  /\ LocalFile(d) \notin {{}, {Local(d)}}
  /\ Return(d)
  /\ UNCHANGED <<sealed, remote, store>>
  /\ Quiet

\* The file is already there, byte for byte.
PutAgain(d) ==
  /\ pc[d] = "push_put"
  /\ LocalFile(d) = {Local(d)}
  /\ Goto(d, "push_cas")
  /\ UNCHANGED <<sealed, remote, store>>
  /\ Quiet

\* Wrong on purpose: the head is swapped without the upload.
PutAbsentSkipped(d) ==
  /\ atomic
  /\ pc[d] = "push_put"
  /\ LocalFile(d) = {}
  /\ Goto(d, "push_cas")
  /\ UNCHANGED <<sealed, remote, store>>
  /\ Quiet

\* Wrong on purpose: what is uploaded is noted as synced before the head is
\* swapped.
PutAbsentAsBase(d) ==
  /\ atomic
  /\ pc[d] = "push_put"
  /\ LocalFile(d) = {}
  /\ gens' = Put(gens, Local(d))
  /\ MarkBase(d, Local(d))
  /\ Goto(d, "push_cas")
  /\ UNCHANGED <<sealed, head, tmps>>
  /\ Quiet

PutAbsent(d) ==
  /\ atomic
  /\ pc[d] = "push_put"
  /\ LocalFile(d) = {}
  /\ gens' = Put(gens, Local(d))
  /\ Goto(d, "push_cas")
  /\ UNCHANGED <<sealed, head, tmps, store>>
  /\ Quiet

\* Wrong on purpose: the head is swapped without the upload.
PutCheckOnly(d) ==
  /\ ~atomic
  /\ pc[d] = "push_put"
  /\ LocalFile(d) = {}
  /\ Goto(d, "push_cas")
  /\ UNCHANGED <<sealed, remote, store>>
  /\ Quiet

\* In a folder: the file does not exist,
PutCheck(d) ==
  /\ ~atomic
  /\ pc[d] = "push_put"
  /\ LocalFile(d) = {}
  /\ Goto(d, "put_tmp")
  /\ UNCHANGED <<sealed, remote, store>>
  /\ Quiet

\* its bytes are written beside it
PutTmp(d) ==
  /\ pc[d] = "put_tmp"
  /\ tmps' = [tmps EXCEPT !.gens = Put(@, Local(d))]
  /\ Goto(d, "put_rename")
  /\ UNCHANGED <<sealed, head, gens, store>>
  /\ Quiet

\* and renamed: whatever bytes stand there by now.
PutRename(d) ==
  /\ pc[d] = "put_rename"
  /\ LET F == AtGen(tmps.gens, sealed[Local(d)].gen)
     IN IF F = {}
        THEN Return(d) /\ UNCHANGED <<gens, tmps>>
        ELSE /\ \E h \in F : gens' = Put(gens, h)
             /\ tmps' = [tmps EXCEPT !.gens = @ \ F]
             /\ Goto(d, "push_cas")
  /\ UNCHANGED <<sealed, head, store>>
  /\ Quiet

-----------------------------------------------------------------------------
(* compareAndSwapHead                                                      *)

\* The head has moved: the next round reads it again.
CasLost(d) ==
  /\ pc[d] = "push_cas"
  /\ head # seen[d]
  /\ NextRound(d)
  /\ UNCHANGED <<sealed, remote, store>>
  /\ Quiet

Swap(d) ==
  /\ atomic
  /\ pc[d] = "push_cas"
  /\ head = seen[d]
  /\ head' = Local(d)
  /\ UNCHANGED <<gens, tmps>>

CasHead(d) ==
  /\ Swap(d)
  /\ MarkHash(d, Local(d))
  /\ Goto(d, "push_base")
  /\ UNCHANGED sealed
  /\ Quiet

CasCheck(d) ==
  /\ ~atomic
  /\ pc[d] = "push_cas"
  /\ head = seen[d]
  /\ Goto(d, "cas_tmp")
  /\ UNCHANGED <<sealed, remote, store>>
  /\ Quiet

CasTmp(d) ==
  /\ pc[d] = "cas_tmp"
  /\ tmps' = [tmps EXCEPT !.head = Local(d)]
  /\ Goto(d, "cas_rename")
  /\ UNCHANGED <<sealed, head, gens, store>>
  /\ Quiet

CasRename(d) ==
  /\ pc[d] = "cas_rename"
  /\ IF tmps.head = None
     THEN Return(d) /\ UNCHANGED <<head, tmps, store>>
     ELSE /\ head' = tmps.head
          /\ tmps' = [tmps EXCEPT !.head = None]
          /\ MarkHash(d, Local(d))
          /\ Goto(d, "push_base")
  /\ UNCHANGED <<sealed, gens>>
  /\ Quiet

\* The rest of _markSynced.
PushBase(d) ==
  /\ pc[d] = "push_base"
  /\ MarkBase(d, Local(d))
  /\ Return(d)
  /\ UNCHANGED <<sealed, remote>>
  /\ Quiet

-----------------------------------------------------------------------------
(* Faults.                                                                 *)

Fault(kind) == /\ kind \in Faults
               /\ faults < MaxFaults
               /\ faults' = faults + 1
               /\ UNCHANGED <<atomic, calls>>

AwaitsStore == {"pull_get", "push_head", "push_get", "push_put", "push_cas"}

\* The store does not answer, and has not taken what was written,
StoreFails(d) ==
  /\ Fault("network")
  /\ pc[d] \in AwaitsStore
  /\ Return(d)
  /\ UNCHANGED <<sealed, remote, store>>

\* or has taken it.
PutUnanswered(d) ==
  /\ Fault("network")
  /\ atomic
  /\ pc[d] = "push_put"
  /\ LocalFile(d) = {}
  /\ gens' = Put(gens, Local(d))
  /\ Return(d)
  /\ UNCHANGED <<sealed, head, tmps, store>>

SwapUnanswered(d) ==
  /\ Fault("network")
  /\ Swap(d)
  /\ Return(d)
  /\ UNCHANGED <<sealed, store>>

\* The process dies and is started again.
Crash(d) ==
  /\ Fault("crash")
  /\ pc[d] # "idle"
  /\ Return(d)
  /\ UNCHANGED <<sealed, remote, store>>

-----------------------------------------------------------------------------
(* The specification.                                                      *)

Continue(d) ==
  \/ PullBadFile(d) \/ PullFastForward(d) \/ PullBase(d) \/ PullPersist(d)
  \/ PullMerge(d)
  \/ PushSame(d) \/ PushRolledBack(d) \/ PushHead(d) \/ PushRestart(d)
  \/ PushRechain(d) \/ PushMerge(d)
  \/ PutTampered(d) \/ PutAgain(d) \/ PutAbsent(d)
  \/ PutCheck(d) \/ PutTmp(d) \/ PutRename(d)
  \/ CasLost(d) \/ CasHead(d) \/ CasCheck(d) \/ CasTmp(d) \/ CasRename(d)
  \/ PushBase(d)

Disturb(d) ==
  StoreFails(d) \/ PutUnanswered(d) \/ SwapUnanswered(d) \/ Crash(d)

Next ==
  \E d \in Device :
    \/ \E k \in Key : Import(d, k)
    \/ Pull(d) \/ Push(d)
    \/ Continue(d)
    \/ Disturb(d)

Spec == Init /\ [][Next]_vars

\* A call is run to its end, and what is not synced is pushed again.
Fairness ==
  \A d \in Device : WF_vars(Continue(d)) /\ WF_vars(Push(d))

FairSpec == Spec /\ Fairness

-----------------------------------------------------------------------------
(* Properties.                                                             *)

\* In an atomic store the generation that the head names can be fetched, and
\* is the one it names: push uploads before it swaps, and no file is replaced.
HeadIsReadable == atomic /\ head # None => AtGen(gens, Gen(head)) = {head}

\* Whatever devices race in a folder, there is a file for the generation that
\* the head names: no device is told sync_missing.
HeadHasFile == head # None => AtGen(gens, Gen(head)) # {}

\* With an atomic store, a device that has nothing left to push has nothing
\* that others cannot get.
SyncedWorkIsShared ==
  atomic => \A d \in Device :
              pc[d] = "idle" /\ store[d].synced = Local(d) /\ head # None
                => Facts(Local(d)) \subseteq Facts(head)

\* On an atomic store that nobody empties no device is told
\* generation_rollback, "sync storage returned an older generation": what a
\* device has noted as synced is the head or lies below it, also where its own
\* push has just been overtaken.
NoRollbackIsReported ==
  atomic => \A d \in Device : ~RolledBack(d, head)

\* An atomic store and its devices are a shared vault. (Of a folder this says
\* nothing.)
Shared == INSTANCE SharedVault
            WITH shared <- IF atomic THEN Facts(head) ELSE {},
                 held   <- [d \in Device |->
                              IF atomic THEN Facts(Local(d)) ELSE {}],
                 Fact   <- Key

ImplementsSharedVault == Shared!Spec

\* All work has reached the store, and stays there.
Published == \A d \in Device : Facts(Local(d)) \subseteq Facts(head)

\* Work stays on a device only for a while: once calls and faults have ended,
\* pushing brings all of it to the store.
WorkIsPublished == <>[]Published

\* The same where an atomic store has never failed, although a push may lose
\* every one of its rounds to other devices.
WorkIsPublishedWithoutFaults == [](atomic /\ faults = 0) => <>[]Published
=============================================================================
