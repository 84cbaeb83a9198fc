-------------------------- MODULE FolderSyncProofs --------------------------
(***************************************************************************)
(* What a store of the user's own promises, for any number of devices,     *)
(* calls and faults. Whoever reads its head finds a file for the number    *)
(* the head names, and where the store tests and writes in one step it is  *)
(* the very generation that the head names. In such a store the head's     *)
(* number only grows, so that nobody is told of a rollback, and as long as *)
(* no process dies in the middle of a pull it shares facts as SharedVault  *)
(* says.                                                                   *)
(***************************************************************************)
EXTENDS FolderSync, TLAPS

\* A pull that goes on has read a head.
PullsHaveHeads ==
  \A d \in Device :
    pc[d] \in {"pull_get", "pull_base", "pull_persist"} => seen[d] # None

\* There is a file for the number of generation h.
HasFile(h) == \E g \in gens : sealed[g].gen = sealed[h].gen

\* What is about to become the head, or is the head, has a file.
HeadsHaveFiles ==
  /\ head # None => HasFile(head)
  /\ tmps.head # None => HasFile(tmps.head)
  /\ \A d \in Device :
       pc[d] \in {"push_cas", "cas_tmp"} => HasFile(Local(d))

InFolderOnly == {"put_tmp", "put_rename", "cas_tmp", "cas_rename"}

\* In a store that tests and writes in one step no file is ever replaced.
FilesAreFinal ==
  /\ \A g, h \in gens : sealed[g].gen = sealed[h].gen => g = h
  /\ head # None => head \in gens
  /\ \A d \in Device : /\ pc[d] \notin InFolderOnly
                       /\ pc[d] = "push_cas" => Local(d) \in gens

Inv == TypeOK /\ PullsHaveHeads /\ HeadsHaveFiles /\ (atomic => FilesAreFinal)

-----------------------------------------------------------------------------
(* The steps of one device, by what they change.                           *)

\* Its own place only.
Moves(d) == \/ PullBadFile(d) \/ Push(d) \/ PushRolledBack(d) \/ PushHead(d)
            \/ PutTampered(d) \/ PutAgain(d) \/ PutCheck(d)
            \/ CasLost(d) \/ CasCheck(d) \/ StoreFails(d) \/ Crash(d)

\* What it has stored.
Stores(d) == \/ Pull(d) \/ PullFastForward(d) \/ PullBase(d)
             \/ PullPersist(d) \/ PushSame(d) \/ PushBase(d)

\* A generation is sealed.
Seals(d) == \/ \E k \in Key : Import(d, k)
            \/ PullMerge(d) \/ PushRestart(d) \/ PushRechain(d) \/ PushMerge(d)

\* The store's files, and then the head.
Puts(d) == PutAbsent(d) \/ PutUnanswered(d) \/ PutTmp(d) \/ PutRename(d)

Swaps(d) == CasHead(d) \/ SwapUnanswered(d) \/ CasTmp(d) \/ CasRename(d)

\* There are no others.
LEMMA StepKinds ==
  ASSUME Next
  PROVE  /\ \E d \in Device :
              Moves(d) \/ Stores(d) \/ Seals(d) \/ Puts(d) \/ Swaps(d)
         /\ UNCHANGED atomic
<1>1. PICK d \in Device :
        Moves(d) \/ Stores(d) \/ Seals(d) \/ Puts(d) \/ Swaps(d)
  BY DEF Next, Continue, Disturb, Moves, Stores, Seals, Puts, Swaps
<1>2. Called \/ Quiet \/ \E kind \in FaultKind : Fault(kind)
  <2>1. CASE Moves(d)
    BY <2>1 DEF Moves, PullBadFile, Push, PushRolledBack, PushHead, PutTampered,
                PutAgain, PutCheck, CasLost, CasCheck, StoreFails, Crash,
                FaultKind
  <2>2. CASE Stores(d) \/ Seals(d)
    BY <2>2 DEF Stores, Pull, PullFastForward, PullBase, PullPersist, PushSame,
                PushBase, Seals, Import, PullMerge, PushRestart, PushRechain,
                PushMerge
  <2>3. CASE Puts(d) \/ Swaps(d)
    BY <2>3 DEF Puts, PutAbsent, PutUnanswered, PutTmp, PutRename, Swaps,
                CasHead, SwapUnanswered, CasTmp, CasRename, FaultKind
  <2> QED
    BY <1>1, <2>1, <2>2, <2>3
<1>3. UNCHANGED atomic
  BY <1>2 DEF Called, Quiet, Fault
<1> QED
  BY <1>1, <1>3

\* The types of what a call keeps, and what no step of it changes.
CallType == /\ pc \in [Device -> PC]
            /\ seen \in [Device -> Hashes \cup {None}]
            /\ attempt \in [Device -> 0 .. PushAttempts]

BoundType == calls \in 0 .. MaxCalls /\ faults \in 0 .. MaxFaults

\* Only d's call goes on.
Others(d) == \A e \in Device \ {d} : pc'[e] = pc[e] /\ seen'[e] = seen[e]

\* A round that ends leads to the next or returns.
LEMMA NextRoundType ==
  ASSUME TypeOK, NEW d \in Device, NextRound(d), Hashes \subseteq Hashes'
  PROVE  CallType' /\ Others(d) /\ pc'[d] \in {"idle", "push_head"}
<1>1. CASE attempt[d] < PushAttempts
  <2>1. /\ pc' = [pc EXCEPT ![d] = "push_head"]
        /\ seen' = [seen EXCEPT ![d] = None]
        /\ attempt' = [attempt EXCEPT ![d] = @ + 1]
    BY <1>1 DEF NextRound
  <2>2. attempt[d] + 1 \in 0 .. PushAttempts
    BY <1>1, BoundsAssumption DEF TypeOK
  <2> QED
    BY <2>1, <2>2 DEF TypeOK, CallType, Others, PC
<1>2. CASE Return(d)
  BY <1>2, BoundsAssumption DEF Return, TypeOK, CallType, Others, PC
<1> QED
  BY <1>1, <1>2 DEF NextRound

\* So does a call that returns.
LEMMA ReturnType ==
  ASSUME TypeOK, NEW d \in Device, Return(d), Hashes \subseteq Hashes'
  PROVE  CallType' /\ Others(d) /\ pc'[d] = "idle"
  BY BoundsAssumption DEF Return, TypeOK, CallType, Others, PC

-----------------------------------------------------------------------------
(* Steps that move only the call.                                          *)

\* Where a call stands changes nothing anyone else relies on.
LEMMA MovesInv ==
  ASSUME Inv, NEW d \in Device, Moves(d), UNCHANGED atomic
  PROVE  Inv'
<1> USE BoundsAssumption DEF Inv, remote, call
<1>1. /\ UNCHANGED <<sealed, head, gens, tmps, store>>
      /\ BoundType'
  BY DEF Moves, PullBadFile, Push, PushRolledBack, PushHead, PutTampered,
         PutAgain, PutCheck, CasLost, CasCheck, StoreFails, Crash, Fault,
         Quiet, TypeOK, BoundType
<1>2. Hashes' = Hashes
  BY <1>1 DEF Hashes
<1>3. /\ CallType' /\ Others(d)
      /\ pc'[d] \in {"idle", "push_head", "push_get", "push_put", "push_cas",
                     "put_tmp", "cas_tmp"}
      /\ pc'[d] = "push_cas" => LocalFile(d) = {Local(d)}
      /\ pc'[d] \in {"put_tmp", "cas_tmp"} => ~atomic
      /\ pc'[d] = "cas_tmp" => pc[d] = "push_cas"
  <2>1. CASE \/ PullBadFile(d) \/ PushRolledBack(d) \/ PutTampered(d)
             \/ StoreFails(d) \/ Crash(d)
    BY <1>2, <2>1, ReturnType
       DEF PullBadFile, PushRolledBack, PutTampered, StoreFails, Crash
  <2>2. CASE Push(d)
    BY <1>1, <2>2 DEF Push, TypeOK, CallType, Others, PC, Hashes
  <2>3. CASE PushHead(d)
    BY <1>1, <2>3 DEF PushHead, See, TypeOK, CallType, Others, PC, Hashes
  <2>4. CASE PutAgain(d)
    BY <1>1, <2>4 DEF PutAgain, Goto, TypeOK, CallType, Others, PC, Hashes
  <2>5. CASE PutCheck(d) \/ CasCheck(d)
    BY <1>1, <2>5
       DEF PutCheck, CasCheck, Goto, TypeOK, CallType, Others, PC, Hashes
  <2>6. CASE CasLost(d)
    BY <1>2, <2>6, NextRoundType DEF CasLost
  <2> QED
    BY <2>1, <2>2, <2>3, <2>4, <2>5, <2>6 DEF Moves
<1>4. TypeOK'
  BY <1>1, <1>3 DEF TypeOK, CallType, BoundType, Hashes
<1>5. PullsHaveHeads'
  BY <1>3 DEF PullsHaveHeads, Others
<1>6. LocalFile(d) = {Local(d)} => Local(d) \in gens
  BY DEF LocalFile, AtGen
<1>7. HeadsHaveFiles'
  BY <1>1, <1>3, <1>6 DEF HeadsHaveFiles, HasFile, Others, Local
<1>8. (atomic => FilesAreFinal)'
  BY <1>1, <1>3, <1>6 DEF FilesAreFinal, Others, Local, InFolderOnly
<1> QED
  BY <1>4, <1>5, <1>7, <1>8

-----------------------------------------------------------------------------
(* Steps that change what a device has stored.                             *)

Stored == [container : Hashes, synced : Hashes \cup {None},
           base : Hashes \cup {None}]

\* A mark of a generation or of none leaves the container as it was.
LEMMA MarkType ==
  ASSUME TypeOK, NEW d \in Device, NEW h \in Hashes \cup {None},
         MarkHash(d, h) \/ MarkBase(d, h) \/ UNCHANGED store
  PROVE  /\ store' \in [Device -> Stored]
         /\ \A e \in Device : store'[e].container = store[e].container
<1>1. store \in [Device -> Stored]
  BY DEF TypeOK, Stored
<1>2. CASE MarkHash(d, h)
  BY <1>1, <1>2 DEF MarkHash, Stored
<1>3. CASE MarkBase(d, h)
  BY <1>1, <1>3 DEF MarkBase, Stored
<1>4. CASE UNCHANGED store
  BY <1>1, <1>4
<1> QED
  BY <1>2, <1>3, <1>4

\* A device that notes something as synced, or takes over the head, is not
\* about to swap the head.
LEMMA StoresInv ==
  ASSUME Inv, NEW d \in Device, Stores(d), UNCHANGED atomic
  PROVE  Inv'
<1> USE BoundsAssumption DEF Inv, remote, call
<1>1. UNCHANGED <<sealed, head, gens, tmps>> /\ BoundType'
  BY DEF Stores, Pull, PullFastForward, PullBase, PullPersist, PushSame,
         PushBase, Fetched, Called, Quiet, TypeOK, BoundType
<1>2. Hashes' = Hashes
  BY <1>1 DEF Hashes
<1>3. /\ CallType' /\ Others(d)
      /\ pc'[d] \in {"idle", "pull_get", "pull_base", "pull_persist",
                     "push_base"}
      /\ pc'[d] \in {"pull_get", "pull_base", "pull_persist"}
           => seen'[d] # None
  <2> USE <1>1 DEF TypeOK, CallType, Others, PC, Hashes
  <2>1. CASE Pull(d)
    <3>1. CASE UNCHANGED call
      BY <2>1, <3>1 DEF Pull
    <3>2. CASE See(d, "pull_get") /\ head # None
      BY <3>2 DEF See
    <3> QED
      BY <2>1, <3>1, <3>2 DEF Pull
  <2>2. CASE PullFastForward(d) \/ PullBase(d) \/ PushSame(d)
    BY <2>2 DEF PullFastForward, PullBase, PushSame, Fetched, Goto,
                PullsHaveHeads
  <2>3. CASE PullPersist(d) \/ PushBase(d)
    BY <2>3, <1>2, ReturnType DEF PullPersist, PushBase
  <2> QED
    BY <2>1, <2>2, <2>3 DEF Stores
<1>4. /\ store' \in [Device -> Stored]
      /\ \A e \in Device \ {d} : store'[e].container = store[e].container
  <2>1. /\ head \in Hashes \cup {None} /\ Local(d) \in Hashes
        /\ seen[d] \in Hashes \cup {None}
    BY DEF TypeOK, Local
  <2>2. CASE Pull(d) \/ PushSame(d) \/ PushBase(d)
    BY <2>1, <2>2, MarkType DEF Pull, PushSame, PushBase
  <2>3. CASE PullFastForward(d) \/ PullBase(d)
    BY <2>1, <2>3, MarkType DEF PullFastForward, PullBase
  <2>4. CASE PullPersist(d)
    <3>1. seen[d] \in Hashes
      BY <2>1, <2>4 DEF PullPersist, PullsHaveHeads
    <3> QED
      BY <2>4, <3>1 DEF PullPersist, Stored, TypeOK
  <2> QED
    BY <2>2, <2>3, <2>4 DEF Stores
<1>5. TypeOK'
  BY <1>1, <1>3, <1>4 DEF TypeOK, CallType, BoundType, Hashes, Stored
<1>6. PullsHaveHeads'
  BY <1>3 DEF PullsHaveHeads, Others
<1>7. HeadsHaveFiles'
  BY <1>1, <1>3, <1>4 DEF HeadsHaveFiles, HasFile, Others, Local
<1>8. (atomic => FilesAreFinal)'
  BY <1>1, <1>3, <1>4 DEF FilesAreFinal, Others, Local, InFolderOnly
<1> QED
  BY <1>5, <1>6, <1>7, <1>8

-----------------------------------------------------------------------------
(* Steps that seal a generation.                                           *)

\* What was sealed before stays what it was.
LEMMA AppendKeeps ==
  ASSUME sealed \in Seq(Generation), NEW g \in Generation,
         sealed' = Append(sealed, g)
  PROVE  /\ sealed' \in Seq(Generation)
         /\ Len(sealed') = Len(sealed) + 1
         /\ Hashes \subseteq Hashes'
         /\ Len(sealed) + 1 \in Hashes'
         /\ \A h \in Hashes : sealed'[h] = sealed[h]
  BY DEF Hashes

\* Every call that seals seals a proper generation and pushes it later.
LEMMA SealsOne ==
  ASSUME Inv, NEW d \in Device, Seals(d)
  PROVE  /\ \E g \in Generation : Seal(d, g)
         /\ UNCHANGED remote
         /\ BoundType'
<1> USE DEF Inv, Gen, Facts
<1>1. UNCHANGED remote /\ BoundType'
  <2>1. UNCHANGED remote
    BY DEF Seals, Import, PullMerge, PushRestart, PushRechain, PushMerge
  <2>2. Called \/ Quiet
    BY DEF Seals, Import, PullMerge, PushRestart, PushRechain, PushMerge
  <2>3. BoundType'
    BY <2>2, BoundsAssumption DEF Called, Quiet, BoundType, TypeOK
  <2> QED
    BY <2>1, <2>3
<1>2. /\ Local(d) \in Hashes
      /\ \A h \in Hashes : h \in Nat /\ sealed[h] \in Generation
  BY DEF TypeOK, Local, Hashes
<1>3. ASSUME NEW h \in Hashes
      PROVE  Merged(h, Local(d)) \in Generation
  <2>1. h \in Nat /\ sealed[h] \in Generation
    BY <1>2
  <2>2. sealed[Local(d)] \in Generation
    BY <1>2
  <2>3. /\ sealed[h].gen + 1 \in Nat \ {0}
        /\ sealed[h].facts \cup sealed[Local(d)].facts \in SUBSET Key
    BY <2>1, <2>2 DEF Generation
  <2> QED
    BY <2>1, <2>3 DEF Merged, Generation
<1>4. ASSUME NEW n \in Nat \ {0}, NEW p \in Nat
      PROVE  Rechained(Local(d), n, p) \in Generation
  BY <1>2 DEF Rechained, Generation
<1>5. CASE \E k \in Key : Import(d, k)
  <2>1. PICK k \in Key : Import(d, k)
    BY <1>5
  <2>2. [gen |-> Gen(Local(d)) + 1, prev |-> Local(d),
         facts |-> Facts(Local(d)) \cup {k}] \in Generation
    BY <1>2 DEF Generation, None
  <2> QED
    BY <1>1, <2>1, <2>2 DEF Import
<1>6. CASE PullMerge(d)
  <2>1. seen[d] \in Hashes
    BY <1>6 DEF PullMerge, Fetched, PullsHaveHeads, TypeOK
  <2> QED
    BY <1>1, <1>3, <1>6, <2>1 DEF PullMerge
<1>7. CASE PushRestart(d)
  BY <1>1, <1>4, <1>7 DEF PushRestart, None
<1>8. CASE PushRechain(d)
  <2>1. seen[d] \in Nat /\ Gen(seen[d]) + 1 \in Nat \ {0}
    <3>1. seen[d] \in Hashes \cup {None}
      BY DEF TypeOK
    <3>2. CASE seen[d] = None
      BY <3>2 DEF None
    <3>3. CASE seen[d] \in Hashes /\ seen[d] # None
      <4>1. seen[d] \in Nat /\ sealed[seen[d]] \in Generation
        BY <1>2, <3>3
      <4>2. sealed[seen[d]].gen \in Nat
        BY <4>1 DEF Generation
      <4> QED
        BY <3>3, <4>1, <4>2
    <3> QED
      BY <3>1, <3>2, <3>3
  <2> QED
    BY <1>1, <1>4, <1>8, <2>1 DEF PushRechain
<1>9. CASE PushMerge(d)
  <2>1. PICK h \in AtGen(gens, Gen(seen[d])) : Seal(d, Merged(h, Local(d)))
    BY <1>9 DEF PushMerge
  <2>2. h \in Hashes
    BY <2>1 DEF AtGen, TypeOK
  <2> QED
    BY <1>1, <1>3, <2>1, <2>2
<1> QED
  BY <1>5, <1>6, <1>7, <1>8, <1>9 DEF Seals

\* A generation that was just sealed is no head yet.
LEMMA SealsInv ==
  ASSUME Inv, NEW d \in Device, Seals(d), UNCHANGED atomic
  PROVE  Inv'
<1> USE BoundsAssumption DEF Inv, remote
<1>1. PICK g \in Generation : Seal(d, g)
  BY SealsOne
<1>2. UNCHANGED <<head, gens, tmps>> /\ BoundType'
  BY SealsOne
<1>3. /\ sealed' \in Seq(Generation)
      /\ Len(sealed') = Len(sealed) + 1
      /\ Hashes \subseteq Hashes'
      /\ Len(sealed) + 1 \in Hashes'
      /\ \A h \in Hashes : sealed'[h] = sealed[h]
  BY <1>1, AppendKeeps DEF Seal, TypeOK
<1>4. CallType' /\ Others(d) /\ pc'[d] \in {"idle", "push_head"}
  <2>1. CASE \E k \in Key : Import(d, k)
    BY <1>3, <2>1 DEF Import, call, TypeOK, CallType, Others
  <2>2. CASE PullMerge(d)
    BY <1>3, <2>2, ReturnType DEF PullMerge
  <2>3. CASE PushRestart(d) \/ PushRechain(d) \/ PushMerge(d)
    BY <1>3, <2>3, NextRoundType DEF PushRestart, PushRechain, PushMerge
  <2> QED
    BY <2>1, <2>2, <2>3 DEF Seals
<1>5. /\ store' \in [Device -> [container : Hashes',
                               synced    : Hashes' \cup {None},
                               base      : Hashes' \cup {None}]]
      /\ \A e \in Device \ {d} : store'[e] = store[e]
  BY <1>1, <1>3 DEF Seal, TypeOK
<1>6. TypeOK'
  BY <1>2, <1>3, <1>4, <1>5 DEF TypeOK, CallType, BoundType
<1>7. PullsHaveHeads'
  BY <1>4 DEF PullsHaveHeads, Others
<1>8. \A h \in Hashes : HasFile(h)' <=> HasFile(h)
  BY <1>2, <1>3 DEF HasFile, TypeOK
<1>9. HeadsHaveFiles'
  <2>1. head # None => head \in Hashes
    BY DEF TypeOK
  <2>2. tmps.head # None => tmps.head \in Hashes
    BY DEF TypeOK
  <2>3. \A e \in Device \ {d} : Local(e) \in Hashes /\ Local(e)' = Local(e)
    BY <1>5 DEF TypeOK, Local
  <2>4. /\ head' # None => HasFile(head)'
        /\ tmps'.head # None => HasFile(tmps.head)'
    BY <1>2, <1>3, <2>1, <2>2 DEF HeadsHaveFiles, HasFile, TypeOK
  <2>5. ASSUME NEW e \in Device, pc'[e] \in {"push_cas", "cas_tmp"}
        PROVE  HasFile(Local(e))'
    <3>1. e # d /\ pc'[e] = pc[e]
      BY <1>4, <2>5 DEF Others
    <3> QED
      <4>1. Local(e) \in Hashes /\ Local(e)' = Local(e)
        BY <2>3, <3>1
      <4>2. PICK f \in gens : sealed[f].gen = sealed[Local(e)].gen
        BY <2>5, <3>1 DEF HeadsHaveFiles, HasFile
      <4>3. sealed'[f].gen = sealed'[Local(e)].gen
        BY <1>3, <4>1, <4>2 DEF TypeOK
      <4> QED
        BY <1>2, <4>1, <4>2, <4>3 DEF HasFile
  <2> QED
    BY <2>4, <2>5 DEF HeadsHaveFiles
<1>10. ASSUME atomic
       PROVE  FilesAreFinal'
  <2>1. /\ \A f \in gens : sealed'[f] = sealed[f]
        /\ head' # None => head' \in gens'
    BY <1>2, <1>3, <1>10 DEF TypeOK, FilesAreFinal
  <2>2. \A e \in Device \ {d} : Local(e)' = Local(e)
    BY <1>5 DEF Local
  <2> QED
    BY <1>2, <1>4, <1>10, <2>1, <2>2
       DEF FilesAreFinal, Others, InFolderOnly
<1> QED
  BY <1>6, <1>7, <1>9, <1>10

-----------------------------------------------------------------------------
(* Steps that write a file of a generation.                                *)

\* A file that is put takes the place of no other number's.
LEMMA PutKeeps ==
  ASSUME TypeOK, NEW F \in SUBSET Hashes, NEW h \in Hashes
  PROVE  /\ Put(F, h) \subseteq Hashes
         /\ h \in Put(F, h)
         /\ \A x \in Hashes :
              (\E g \in F : sealed[g].gen = sealed[x].gen)
                => \E g \in Put(F, h) : sealed[g].gen = sealed[x].gen
         /\ AtGen(F, sealed[h].gen) = {} => Put(F, h) = F \cup {h}
  BY DEF Put, AtGen

\* No number loses its file, and a device that goes on to swap the head has
\* put its own.
LEMMA PutsInv ==
  ASSUME Inv, NEW d \in Device, Puts(d), UNCHANGED atomic
  PROVE  Inv'
<1> USE BoundsAssumption DEF Inv
<1>1. UNCHANGED <<sealed, head, store>> /\ BoundType' /\ tmps'.head = tmps.head
  BY DEF Puts, PutAbsent, PutUnanswered, PutTmp, PutRename, Fault, Quiet,
         TypeOK, BoundType
<1>2. Local(d) \in Hashes /\ gens \subseteq Hashes /\ tmps.gens \subseteq Hashes
  BY DEF TypeOK, Local
<1>3. \/ UNCHANGED gens /\ pc'[d] # "push_cas"
      \/ \E h \in Hashes : /\ gens' = Put(gens, h)
                           /\ sealed[h].gen = sealed[Local(d)].gen
                           /\ atomic /\ pc[d] # "put_rename"
                                => h = Local(d) /\ LocalFile(d) = {}
  <2>1. CASE PutAbsent(d) \/ PutUnanswered(d)
    BY <1>2, <2>1 DEF PutAbsent, PutUnanswered
  <2>2. CASE PutTmp(d)
    BY <2>2 DEF PutTmp, Goto, TypeOK
  <2>3. CASE PutRename(d)
    <3>1. CASE AtGen(tmps.gens, sealed[Local(d)].gen) = {}
      BY <2>3, <3>1 DEF PutRename, Return, TypeOK
    <3>2. CASE AtGen(tmps.gens, sealed[Local(d)].gen) # {}
      BY <1>2, <2>3, <3>2 DEF PutRename, AtGen
    <3> QED
      BY <3>1, <3>2
  <2> QED
    BY <2>1, <2>2, <2>3 DEF Puts
<1>4. /\ CallType' /\ Others(d)
      /\ pc'[d] \in {"idle", "put_rename", "push_cas"}
      /\ atomic => pc[d] \notin InFolderOnly /\ pc'[d] # "put_rename"
  <2> USE <1>1 DEF TypeOK, CallType, Others, PC, Hashes
  <2>1. CASE PutAbsent(d)
    BY <2>1 DEF PutAbsent, Goto, InFolderOnly
  <2>2. CASE PutUnanswered(d)
    BY <2>2, ReturnType DEF PutUnanswered, InFolderOnly
  <2>3. CASE PutTmp(d)
    BY <2>3 DEF PutTmp, Goto, InFolderOnly, FilesAreFinal
  <2>4. CASE PutRename(d)
    <3>1. atomic => FALSE
      BY <2>4 DEF PutRename, InFolderOnly, FilesAreFinal
    <3>2. CASE Return(d)
      BY <3>1, <3>2, ReturnType
    <3>3. CASE Goto(d, "push_cas")
      BY <3>1, <3>3 DEF Goto
    <3> QED
      BY <2>4, <3>2, <3>3 DEF PutRename
  <2> QED
    BY <2>1, <2>2, <2>3, <2>4 DEF Puts
<1>5. gens' \subseteq Hashes /\ \A x \in Hashes : HasFile(x) => HasFile(x)'
  <2>1. CASE UNCHANGED gens
    BY <1>1, <1>2, <2>1 DEF HasFile
  <2>2. CASE \E h \in Hashes : gens' = Put(gens, h)
    BY <1>1, <1>2, <2>2, PutKeeps DEF HasFile
  <2> QED
    BY <1>3, <2>1, <2>2
<1>6. tmps' \in [gens : SUBSET Hashes, head : Hashes \cup {None}]
  <2>1. CASE PutTmp(d)
    <3>1. Put(tmps.gens, Local(d)) \subseteq Hashes
      BY <1>2, PutKeeps
    <3> QED
      BY <2>1, <3>1 DEF PutTmp, TypeOK
  <2>2. CASE UNCHANGED tmps
    BY <2>2 DEF TypeOK
  <2>3. CASE \E F : tmps' = [tmps EXCEPT !.gens = tmps.gens \ F]
    <3>1. /\ tmps = [gens |-> tmps.gens, head |-> tmps.head]
          /\ tmps.gens \in SUBSET Hashes /\ tmps.head \in Hashes \cup {None}
      BY DEF TypeOK
    <3>2. PICK F : tmps' = [gens |-> tmps.gens \ F, head |-> tmps.head]
      BY <2>3, <3>1
    <3> QED
      BY <3>1, <3>2
  <2>4. PutRename(d) => UNCHANGED tmps \/ \E F : tmps' = [tmps EXCEPT !.gens = tmps.gens \ F]
    <3>1. DEFINE F == AtGen(tmps.gens, sealed[Local(d)].gen)
    <3>2. PutRename(d) => UNCHANGED tmps \/ tmps' = [tmps EXCEPT !.gens = tmps.gens \ F]
      BY Zenon DEF PutRename
    <3> QED
      BY <3>2, Zenon
  <2> QED
    BY <2>1, <2>2, <2>3, <2>4 DEF Puts, PutAbsent, PutUnanswered
<1>7. TypeOK'
  BY <1>1, <1>4, <1>5, <1>6 DEF TypeOK, CallType, BoundType, Hashes
<1>8. PullsHaveHeads'
  BY <1>4 DEF PullsHaveHeads, Others
<1>9. HeadsHaveFiles'
  <2>1. pc'[d] = "push_cas" => HasFile(Local(d))'
    BY <1>1, <1>2, <1>3, PutKeeps DEF HasFile, Local
  <2>2. \A e \in Device : Local(e) \in Hashes /\ Local(e)' = Local(e)
    BY <1>1 DEF TypeOK, Local
  <2>3. /\ head # None => head \in Hashes
        /\ tmps.head # None => tmps.head \in Hashes
    BY DEF TypeOK
  <2>4. /\ head' # None => HasFile(head)'
        /\ tmps'.head # None => HasFile(tmps.head)'
    BY <1>1, <1>5, <2>3 DEF HeadsHaveFiles, HasFile
  <2>5. \A e \in Device :
          pc'[e] \in {"push_cas", "cas_tmp"} => HasFile(Local(e))'
    BY <1>1, <1>4, <1>5, <2>1, <2>2
       DEF HeadsHaveFiles, HasFile, Others, Local
  <2> QED
    BY <2>4, <2>5 DEF HeadsHaveFiles
<1>10. (atomic => FilesAreFinal)'
  <2> SUFFICES ASSUME atomic
               PROVE  FilesAreFinal'
    OBVIOUS
  <2>1. \/ UNCHANGED gens /\ pc'[d] # "push_cas"
        \/ gens' = gens \cup {Local(d)} /\ LocalFile(d) = {}
    BY <1>2, <1>3, <1>4, PutKeeps DEF InFolderOnly, LocalFile
  <2>2. \A g \in gens : LocalFile(d) = {}
          => sealed[g].gen # sealed[Local(d)].gen
    BY DEF LocalFile, AtGen
  <2> QED
    BY <1>1, <1>4, <2>1, <2>2
       DEF FilesAreFinal, Others, Local, InFolderOnly
<1> QED
  BY <1>7, <1>8, <1>9, <1>10

-----------------------------------------------------------------------------
(* Steps that write the head.                                              *)

\* A head comes from a device that has put its file.
LEMMA SwapsInv ==
  ASSUME Inv, NEW d \in Device, Swaps(d), UNCHANGED atomic
  PROVE  Inv'
<1> USE BoundsAssumption DEF Inv
<1>1. UNCHANGED <<sealed, gens>> /\ BoundType' /\ tmps'.gens = tmps.gens
  BY DEF Swaps, CasHead, SwapUnanswered, CasTmp, CasRename, Swap, Fault,
         Quiet, TypeOK, BoundType
<1>2. Local(d) \in Hashes /\ \A e \in Device : Local(e)' = Local(e)
  <2>1. MarkHash(d, Local(d)) \/ UNCHANGED store
    BY DEF Swaps, CasHead, SwapUnanswered, CasTmp, CasRename
  <2>2. Local(d) \in Hashes
    BY DEF TypeOK, Local
  <2> QED
    BY <2>1, <2>2, MarkType DEF Local
<1>3. store' \in [Device -> [container : Hashes,
                            synced    : Hashes \cup {None},
                            base      : Hashes \cup {None}]]
  <2>1. MarkHash(d, Local(d)) \/ UNCHANGED store
    BY DEF Swaps, CasHead, SwapUnanswered, CasTmp, CasRename
  <2> QED
    BY <1>2, <2>1, MarkType DEF Stored
<1>4. /\ CallType' /\ Others(d)
      /\ pc'[d] \in {"idle", "push_base", "cas_rename"}
      /\ atomic => pc'[d] # "cas_rename"
  <2> USE <1>1 DEF TypeOK, CallType, Others, PC, Hashes
  <2>1. CASE CasHead(d)
    BY <2>1 DEF CasHead, Goto
  <2>2. CASE SwapUnanswered(d)
    BY <2>2, ReturnType DEF SwapUnanswered
  <2>3. CASE CasTmp(d)
    BY <2>3 DEF CasTmp, Goto, FilesAreFinal, InFolderOnly
  <2>4. CASE CasRename(d)
    <3>1. CASE Return(d)
      BY <3>1, ReturnType
    <3>2. CASE Goto(d, "push_base")
      BY <3>2 DEF Goto
    <3> QED
      BY <2>4, <3>1, <3>2 DEF CasRename
  <2> QED
    BY <2>1, <2>2, <2>3, <2>4 DEF Swaps
<1>5. /\ head' \in Hashes \cup {None} /\ tmps'.head \in Hashes \cup {None}
      /\ tmps' \in [gens : SUBSET Hashes, head : Hashes \cup {None}]
      /\ head' # None => HasFile(head')
      /\ tmps'.head # None => HasFile(tmps'.head)
      /\ atomic => head' = Local(d) /\ pc[d] = "push_cas"
  <2> USE <1>2 DEF TypeOK, HeadsHaveFiles
  <2>1. CASE CasHead(d) \/ SwapUnanswered(d)
    BY <2>1 DEF CasHead, SwapUnanswered, Swap
  <2>2. CASE CasTmp(d)
    BY <2>2 DEF CasTmp, FilesAreFinal, InFolderOnly
  <2>3. CASE CasRename(d)
    BY <2>3 DEF CasRename, FilesAreFinal, InFolderOnly
  <2> QED
    BY <2>1, <2>2, <2>3 DEF Swaps
<1>6. TypeOK'
  BY <1>1, <1>3, <1>4, <1>5 DEF TypeOK, CallType, BoundType, Hashes
<1>7. PullsHaveHeads'
  BY <1>4 DEF PullsHaveHeads, Others
<1>8. HeadsHaveFiles'
  BY <1>1, <1>2, <1>4, <1>5 DEF HeadsHaveFiles, HasFile, Others
<1>9. (atomic => FilesAreFinal)'
  BY <1>1, <1>2, <1>4, <1>5 DEF FilesAreFinal, Others, InFolderOnly
<1> QED
  BY <1>6, <1>7, <1>8, <1>9

-----------------------------------------------------------------------------
(* The invariant and what follows from it.                                 *)

\* It holds of an empty store and of one with the head all have synced,
LEMMA InitInv == Init => Inv
<1> SUFFICES ASSUME Init
             PROVE  Inv
  OBVIOUS
<1> USE BoundsAssumption DEF Init, None
<1>1. sealed \in Seq(Generation) /\ Len(sealed) = 2
  BY DEF Generation
<1>2. TypeOK
  BY <1>1 DEF TypeOK, Hashes, PC
<1>3. PullsHaveHeads /\ HeadsHaveFiles
  BY DEF PullsHaveHeads, HeadsHaveFiles, HasFile
<1>4. FilesAreFinal
  BY DEF FilesAreFinal, InFolderOnly
<1> QED
  BY <1>2, <1>3, <1>4 DEF Inv

\* over steps that change nothing,
LEMMA StutterInv == Inv /\ UNCHANGED vars => Inv'
<1> SUFFICES ASSUME Inv, UNCHANGED vars
             PROVE  Inv'
  OBVIOUS
<1> USE DEF Inv, vars, remote, call
<1>1. TypeOK' /\ PullsHaveHeads'
  BY DEF TypeOK, Hashes, PullsHaveHeads
<1>2. HeadsHaveFiles' /\ (atomic => FilesAreFinal)'
  BY DEF HeadsHaveFiles, HasFile, FilesAreFinal, Local
<1> QED
  BY <1>1, <1>2

\* and so always.
THEOREM Invariance == Spec => []Inv
<1>1. Inv /\ [Next]_vars => Inv'
  BY StepKinds, MovesInv, StoresInv, SealsInv, PutsInv, SwapsInv, StutterInv
<1> QED
  BY <1>1, InitInv, PTL DEF Spec

\* Whatever devices race in a folder, no device is told sync_missing: the
\* generation number in head.json has its file.
THEOREM NothingMissing == Spec => []HeadHasFile
<1>1. Inv => HeadHasFile
  <2> SUFFICES ASSUME Inv, head # None
               PROVE  AtGen(gens, Gen(head)) # {}
    BY DEF HeadHasFile
  <2>1. PICK g \in gens : sealed[g].gen = sealed[head].gen
    BY DEF Inv, HeadsHaveFiles, HasFile
  <2> QED
    BY <2>1 DEF AtGen, Gen
<1> QED
  BY <1>1, Invariance, PTL

\* On a store that honours the conditional writes, putIfAbsent and
\* compareAndSwapHead keep the head readable: its file is the generation it
\* names, byte for byte, so that no pull fails with sync_tamper.
THEOREM HeadStaysReadable == Spec => []HeadIsReadable
<1>1. Inv => HeadIsReadable
  <2> SUFFICES ASSUME Inv, atomic, head # None
               PROVE  AtGen(gens, Gen(head)) = {head}
    BY DEF HeadIsReadable
  <2> QED
    BY DEF Inv, FilesAreFinal, AtGen, Gen
<1> QED
  BY <1>1, Invariance, PTL
-----------------------------------------------------------------------------
(* What the steps of one device do in an atomic store.                     *)

\* Sealing adds to what was sealed and changes nothing of it.
Widens == /\ Hashes \subseteq Hashes'
          /\ \A h \in Hashes : sealed'[h] = sealed[h]

\* What a step of d leaves to the other devices.
OthersKeep(d) ==
  \A e \in Device \ {d} :
    /\ pc'[e] = pc[e] /\ seen'[e] = seen[e] /\ store'[e] = store[e]

\* The call ends, or goes back to the head of push.
GoesBack(d) == /\ pc'[d] \in {"idle", "push_head"}
               /\ seen'[d] \in {None, seen[d]}

BacksOff(d) == /\ UNCHANGED <<sealed, head, gens>>
               /\ store'[d] = store[d]
               /\ GoesBack(d)
               /\ pc[d] \notin {"pull_base", "pull_persist"}

\* The head is read, by a pull or a push.
Reads(d) ==
  /\ UNCHANGED <<sealed, head, gens>>
  /\ store'[d] = store[d]
  /\ seen'[d] = head
  /\ \/ pc'[d] = "pull_get" /\ pc[d] = "idle"
     \/ pc'[d] = "push_get" /\ pc[d] = "push_head"
     \/ pc'[d] = "push_put" /\ pc[d] = "push_head" /\ ParentMatches(d, head)

\* The local generation is put, or stands there already.
Uploads(d) ==
  /\ UNCHANGED <<sealed, head>>
  /\ store'[d] = store[d]
  /\ pc[d] = "push_put"
  /\ gens \subseteq gens'
  /\ \/ pc'[d] = "push_cas" /\ seen'[d] = seen[d]
     \/ GoesBack(d)

\* The head is noted as synced: as it is the local generation, or is to be,
NotesHash(d) ==
  /\ UNCHANGED <<sealed, head, gens>>
  /\ store'[d].container = store[d].container
  /\ store'[d].base = store[d].base
  /\ seen'[d] = seen[d]
  /\ \/ /\ pc[d] = "idle" /\ pc'[d] = "idle"
        /\ head = Local(d) /\ store'[d].synced = head
     \/ /\ pc[d] = "push_head" /\ pc'[d] = "push_base"
        /\ head = Local(d) /\ store'[d].synced = head
     \/ /\ pc[d] = "pull_get" /\ pc'[d] = "pull_base"
        /\ store[d].synced = Local(d) /\ store'[d].synced = seen[d]

\* and in a step after, by its bytes.
NotesBase(d) ==
  /\ UNCHANGED <<sealed, head, gens>>
  /\ store'[d].container = store[d].container
  /\ store'[d].synced = store[d].synced
  /\ \/ /\ pc[d] = "pull_base" /\ pc'[d] = "pull_persist"
        /\ store'[d].base = seen[d] /\ seen'[d] = seen[d]
     \/ /\ pc[d] = "push_base"
        /\ store'[d].base = Local(d) /\ GoesBack(d)

\* The head replaces the local generation.
TakesOver(d) ==
  /\ UNCHANGED <<sealed, head, gens>>
  /\ pc[d] = "pull_persist"
  /\ store'[d].container = seen[d]
  /\ store'[d].synced = store[d].synced
  /\ store'[d].base = store[d].base
  /\ GoesBack(d)

\* A generation that a call of d seals.
Sealable(d, g) ==
  /\ g \in Generation
  /\ g.prev \in Hashes \cup {None} /\ g.gen = Gen(g.prev) + 1
  /\ \/ Facts(g.prev) \cup Facts(Local(d)) \subseteq g.facts
     \/ /\ pc[d] = "push_get" /\ g.prev = store[d].synced
        /\ g.facts = Facts(Local(d))

\* A generation is sealed over the local one and becomes it.
Extends(d, g) ==
  /\ sealed' = Append(sealed, g)
  /\ UNCHANGED <<head, gens>>
  /\ store'[d].container = Len(sealed) + 1
  /\ store'[d].synced = store[d].synced
  /\ store'[d].base = store[d].base
  /\ GoesBack(d)
  /\ pc[d] \notin {"pull_base", "pull_persist"}

\* The local generation becomes the head.
Publishes(d) ==
  /\ UNCHANGED <<sealed, gens>>
  /\ pc[d] = "push_cas"
  /\ head = seen[d] /\ head' = Local(d)
  /\ store'[d].container = store[d].container
  /\ store'[d].base = store[d].base
  /\ \/ /\ pc'[d] = "push_base" /\ seen'[d] = seen[d]
        /\ store'[d].synced = Local(d)
     \/ GoesBack(d) /\ store'[d].synced = store[d].synced

Effect(d) ==
  \/ BacksOff(d) \/ Reads(d) \/ Uploads(d) \/ NotesHash(d)
  \/ NotesBase(d) \/ TakesOver(d) \/ Publishes(d)
  \/ \E g : Sealable(d, g) /\ Extends(d, g)
  \/ Crash(d)

\* What the calls' common steps do to the place of the call
LEMMA PlaceAt ==
  ASSUME TypeOK, NEW d \in Device
  PROVE  /\ \A p : Goto(d, p) => pc'[d] = p /\ seen'[d] = seen[d]
         /\ \A p : See(d, p) => pc'[d] = p /\ seen'[d] = head
         /\ Return(d) => pc'[d] = "idle" /\ GoesBack(d)
         /\ NextRound(d) => GoesBack(d)
<1>1. \A p : Goto(d, p) => pc'[d] = p /\ seen'[d] = seen[d]
  BY DEF Goto, TypeOK
<1>2. \A p : See(d, p) => pc'[d] = p /\ seen'[d] = head
  BY DEF See, TypeOK
<1>3. Return(d) => pc'[d] = "idle" /\ GoesBack(d)
  BY DEF Return, TypeOK, GoesBack
<1>4. NextRound(d) => GoesBack(d)
  BY <1>3 DEF NextRound, TypeOK, GoesBack
<1> QED
  BY <1>1, <1>2, <1>3, <1>4

\* and to what is stored.
LEMMA StoreAt ==
  ASSUME TypeOK, NEW d \in Device
  PROVE  /\ \A h : MarkHash(d, h) => /\ store'[d].synced = h
                                     /\ store'[d].container = store[d].container
                                     /\ store'[d].base = store[d].base
         /\ \A h : MarkBase(d, h) => /\ store'[d].base = h
                                     /\ store'[d].container = store[d].container
                                     /\ store'[d].synced = store[d].synced
         /\ \A h : store' = [store EXCEPT ![d].container = h]
                     => /\ store'[d].container = h
                        /\ store'[d].base = store[d].base
                        /\ store'[d].synced = store[d].synced
<1>1. /\ store = [e \in Device |-> store[e]]
      /\ store[d] = [container |-> store[d].container,
                     synced |-> store[d].synced, base |-> store[d].base]
  BY DEF TypeOK
<1>2. ASSUME NEW h, MarkHash(d, h)
      PROVE  /\ store'[d].synced = h
             /\ store'[d].container = store[d].container
             /\ store'[d].base = store[d].base
  BY <1>1, <1>2 DEF MarkHash
<1>3. ASSUME NEW h, MarkBase(d, h)
      PROVE  /\ store'[d].base = h
             /\ store'[d].container = store[d].container
             /\ store'[d].synced = store[d].synced
  BY <1>1, <1>3 DEF MarkBase
<1>4. ASSUME NEW h, store' = [store EXCEPT ![d].container = h]
      PROVE  /\ store'[d].container = h
             /\ store'[d].base = store[d].base
             /\ store'[d].synced = store[d].synced
  BY <1>1, <1>4
<1> QED
  BY <1>2, <1>3, <1>4

\* One device's step leaves the others alone.
LEMMA StepKeepsOthers ==
  ASSUME Inv, Inv', NEW d \in Device,
         Moves(d) \/ Stores(d) \/ Seals(d) \/ Puts(d) \/ Swaps(d)
  PROVE  OthersKeep(d)
<1> USE DEF Inv, call
<1>1. ASSUME \/ \E p : Goto(d, p) \/ See(d, p)
             \/ Return(d) \/ NextRound(d) \/ UNCHANGED <<pc, seen>>
             \/ Push(d)
      PROVE  \A e \in Device \ {d} : pc'[e] = pc[e] /\ seen'[e] = seen[e]
  BY <1>1 DEF Goto, See, Return, NextRound, Push, TypeOK
<1>2. ASSUME \/ \E h : \/ MarkHash(d, h) \/ MarkBase(d, h)
                       \/ store' = [store EXCEPT ![d].container = h]
             \/ UNCHANGED store
      PROVE  \A e \in Device \ {d} : store'[e] = store[e]
  BY <1>2 DEF MarkHash, MarkBase, TypeOK
<1>3. \/ \E p : Goto(d, p) \/ See(d, p)
      \/ Return(d) \/ NextRound(d) \/ UNCHANGED <<pc, seen>>
      \/ Push(d)
  <2>1. CASE Moves(d)
    BY <2>1 DEF Moves, PullBadFile, PushRolledBack, PushHead, PutTampered,
                PutAgain, PutCheck, CasLost, CasCheck, StoreFails, Crash
  <2>2. CASE Stores(d)
    BY <2>2 DEF Stores, Pull, PullFastForward, PullBase, PullPersist,
                PushSame, PushBase
  <2>3. CASE Seals(d)
    BY <2>3 DEF Seals, Import, PullMerge, PushRestart, PushRechain, PushMerge
  <2>4. CASE Puts(d)
    BY <2>4 DEF Puts, PutAbsent, PutUnanswered, PutTmp, PutRename
  <2>5. CASE Swaps(d)
    BY <2>5 DEF Swaps, CasHead, SwapUnanswered, CasTmp, CasRename
  <2> QED
    BY <2>1, <2>2, <2>3, <2>4, <2>5
<1>4. \/ \E h : \/ MarkHash(d, h) \/ MarkBase(d, h)
                \/ store' = [store EXCEPT ![d].container = h]
      \/ UNCHANGED store
  <2>1. CASE Moves(d)
    BY <2>1 DEF Moves, PullBadFile, Push, PushRolledBack, PushHead,
                PutTampered, PutAgain, PutCheck, CasLost, CasCheck, StoreFails,
                Crash
  <2>2. CASE Stores(d)
    BY <2>2 DEF Stores, Pull, PullFastForward, PullBase, PullPersist,
                PushSame, PushBase
  <2>3. CASE Seals(d)
    BY <2>3, SealsOne DEF Seal
  <2>4. CASE Puts(d)
    BY <2>4 DEF Puts, PutAbsent, PutUnanswered, PutTmp, PutRename
  <2>5. CASE Swaps(d)
    BY <2>5 DEF Swaps, CasHead, SwapUnanswered, CasTmp, CasRename
  <2> QED
    BY <2>1, <2>2, <2>3, <2>4, <2>5
<1> QED
  BY <1>1, <1>2, <1>3, <1>4 DEF OthersKeep

\* Every step is one of these.
LEMMA StepEffects ==
  ASSUME Inv, atomic, NEW d \in Device,
         Moves(d) \/ Stores(d) \/ Seals(d) \/ Puts(d) \/ Swaps(d)
  PROVE  Effect(d)
<1> USE DEF Inv, remote, call, Effect
<1>1. CASE PushRolledBack(d) \/ PullBadFile(d) \/ PutTampered(d)
           \/ StoreFails(d) \/ CasLost(d)
  <2>1. pc[d] \notin {"pull_base", "pull_persist"}
    BY <1>1 DEF PushRolledBack, PullBadFile, PutTampered, StoreFails, CasLost,
                AwaitsStore
  <2>2. Return(d) \/ NextRound(d)
    BY <1>1 DEF PushRolledBack, PullBadFile, PutTampered, StoreFails, CasLost
  <2>3. UNCHANGED <<sealed, head, gens, store>>
    BY <1>1 DEF PushRolledBack, PullBadFile, PutTampered, StoreFails, CasLost
  <2> QED
    BY <2>1, <2>2, <2>3, PlaceAt DEF BacksOff
<1>2. CASE Push(d)
  BY <1>2 DEF Push, TypeOK, BacksOff, GoesBack
<1>3. CASE PushHead(d)
  BY <1>3, PlaceAt DEF PushHead, Reads
<1>4. CASE PutAgain(d)
  BY <1>4, PlaceAt DEF PutAgain, Uploads
<1>5. CASE PutAbsent(d) \/ PutUnanswered(d)
  <2>1. gens \in SUBSET Hashes /\ Local(d) \in Hashes
    BY DEF TypeOK, Local
  <2>2. LocalFile(d) = {} => gens \subseteq Put(gens, Local(d))
    BY <2>1, PutKeeps DEF LocalFile
  <2> QED
    BY <1>5, <2>2, PlaceAt DEF PutAbsent, PutUnanswered, Uploads
<1>6. CASE Pull(d)
  <2>1. CASE UNCHANGED call /\ MarkHash(d, head) /\ head = Local(d)
    BY <1>6, <2>1, StoreAt DEF Pull, NotesHash
  <2>2. CASE UNCHANGED call /\ UNCHANGED store
    BY <1>6, <2>2 DEF Pull, BacksOff, GoesBack
  <2>3. CASE See(d, "pull_get") /\ head # Local(d)
    BY <1>6, <2>3, PlaceAt DEF Pull, Reads
  <2> QED
    BY <1>6, <2>1, <2>2, <2>3 DEF Pull
<1>7. CASE PullFastForward(d) \/ PushSame(d)
  BY <1>7, PlaceAt, StoreAt DEF PullFastForward, PushSame, Fetched, NotesHash
<1>8. CASE PullBase(d) \/ PushBase(d)
  BY <1>8, PlaceAt, StoreAt DEF PullBase, PushBase, NotesBase
<1>9. CASE PullPersist(d)
  BY <1>9, PlaceAt, StoreAt DEF PullPersist, TakesOver
<1>10. CASE CasHead(d)
  BY <1>10, PlaceAt, StoreAt DEF CasHead, Swap, Publishes
<1>11. CASE SwapUnanswered(d)
  BY <1>11, PlaceAt, StoreAt DEF SwapUnanswered, Swap, Publishes
<1>12. CASE Seals(d)
  <2>1. UNCHANGED <<head, gens>>
    BY <1>12, SealsOne
  <2>2. \A g : Seal(d, g) => /\ sealed' = Append(sealed, g)
                             /\ store'[d].container = Len(sealed) + 1
                             /\ store'[d].synced = store[d].synced
                             /\ store'[d].base = store[d].base
    BY StoreAt DEF Seal
  <2>3. GoesBack(d) /\ pc[d] \notin {"pull_base", "pull_persist"}
    BY <1>12, PlaceAt DEF Seals, Import, PullMerge, PushRestart, PushRechain,
                          PushMerge, Fetched, GoesBack
  <2>4. \E g : Sealable(d, g) /\ Seal(d, g)
    <3>1. /\ Local(d) \in Hashes /\ Local(d) # None
          /\ seen[d] \in Hashes \cup {None}
          /\ \A h \in Hashes : sealed[h] \in Generation /\ h # None
      BY DEF TypeOK, Local, Hashes, None
    <3>2. \A g : Seal(d, g) => g \in Generation
      <4>1. sealed' \in Seq(Generation) /\ Len(sealed') = Len(sealed) + 1
        BY <1>12, SealsOne, AppendKeeps DEF Seal, TypeOK
      <4>2. sealed'[Len(sealed) + 1] \in Generation
        BY <4>1 DEF TypeOK
      <4>3. \A g : sealed' = Append(sealed, g) => sealed'[Len(sealed) + 1] = g
        BY DEF TypeOK
      <4> QED
        BY <4>2, <4>3 DEF Seal
    <3>3. CASE \E k \in Key : Import(d, k)
      BY <3>1, <3>2, <3>3 DEF Import, Sealable
    <3>4. CASE PullMerge(d)
      BY <3>1, <3>2, <3>4 DEF PullMerge, Fetched, PullsHaveHeads, Merged,
                              Sealable, Gen, Facts
    <3>5. CASE PushRestart(d)
      <4>1. sealed[Local(d)] \in Generation
        BY <3>1
      <4>2. LET g == Rechained(Local(d), 1, None)
            IN g.prev = None /\ g.gen = 1 /\ g.facts = Facts(Local(d))
        BY <3>1, <4>1 DEF Rechained, Generation, Facts
      <4> QED
        BY <3>2, <3>5, <4>2 DEF PushRestart, Sealable, Gen, Facts
    <3>6. CASE PushRechain(d)
      <4>1. sealed[Local(d)] \in Generation
        BY <3>1
      <4>2. \A n, p : LET g == Rechained(Local(d), n, p)
                     IN g.prev = p /\ g.gen = n /\ g.facts = Facts(Local(d))
        BY <3>1, <4>1 DEF Rechained, Generation, Facts
      <4> QED
        BY <3>1, <3>2, <3>6, <4>2 DEF PushRechain, Sealable
    <3>7. CASE PushMerge(d)
      BY <3>1, <3>2, <3>7 DEF PushMerge, Merged, AtGen, TypeOK, Sealable,
                              Gen, Facts
    <3> QED
      BY <1>12, <3>3, <3>4, <3>5, <3>6, <3>7 DEF Seals
  <2>5. \E g : Sealable(d, g) /\ Extends(d, g)
    BY <2>1, <2>2, <2>3, <2>4 DEF Extends
  <2> QED
    BY <2>5
<1> QED
  BY <1>1, <1>2, <1>3, <1>4, <1>5, <1>6, <1>7, <1>8, <1>9, <1>10, <1>11, <1>12
     DEF Moves, Stores, Puts, Swaps, PutCheck, CasCheck, PutTmp, PutRename,
         CasTmp, CasRename, FilesAreFinal, InFolderOnly

\* Files and heads come, and what was sealed stays.
LEMMA StepWidens ==
  ASSUME Inv, NEW d \in Device, Effect(d)
  PROVE  /\ Widens
         /\ gens \subseteq gens'
         /\ head' = head \/ Publishes(d)
<1> USE DEF remote
<1>1. CASE UNCHANGED sealed
  <2>1. Widens
    BY <1>1 DEF Widens, Hashes
  <2>2. gens \subseteq gens' /\ (head' = head \/ Publishes(d))
    BY DEF Effect, BacksOff, Reads, Uploads, NotesHash, NotesBase, TakesOver,
           Publishes, Extends, Crash
  <2> QED
    BY <2>1, <2>2
<1>2. CASE \E g : Sealable(d, g) /\ Extends(d, g)
  BY <1>2, AppendKeeps DEF Extends, Sealable, Widens, Inv, TypeOK
<1> QED
  BY <1>1, <1>2 DEF Effect, BacksOff, Reads, Uploads, NotesHash, NotesBase,
                    TakesOver, Publishes, Crash

\* The number and the facts of a generation stay what they are.
LEMMA SealedStays ==
  ASSUME Widens
  PROVE  \A h \in Hashes \cup {None} :
           Gen(h)' = Gen(h) /\ Facts(h)' = Facts(h)
  BY DEF Widens, Gen, Facts

-----------------------------------------------------------------------------
(* The numbers of the chain, and that of the head.                         *)

\* A generation's number is its parent's and one.
Chained ==
  \A h \in Hashes : /\ sealed[h].prev \in Hashes \cup {None}
                    /\ sealed[h].gen = Gen(sealed[h].prev) + 1

\* What a push offers as the next head follows the one it has read.
Offers(d) == pc[d] \in {"push_put", "push_cas"} => ParentMatches(d, seen[d])

\* The head that a call has read has its file, and the head is no older.
SeenIsBelow(d) ==
  seen[d] # None => seen[d] \in gens /\ Gen(seen[d]) <= Gen(head)

InOrder == atomic => Chained /\ \A d \in Device : Offers(d) /\ SeenIsBelow(d)

\* Nothing newer than the head has been noted as synced, nor is about to be.
BaseIsBelow(d) ==
  /\ Gen(store[d].base) <= Gen(head)
  /\ pc[d] = "push_base" => Gen(Local(d)) <= Gen(head)

NothingNewer ==
  atomic => head # None /\ \A d \in Device : BaseIsBelow(d)

\* The types that the next proofs use most.
LEMMA Ranges ==
  ASSUME TypeOK
  PROVE  /\ head \in Hashes \cup {None}
         /\ \A d \in Device : /\ Local(d) \in Hashes /\ Local(d) # None
                             /\ seen[d] \in Hashes \cup {None}
                             /\ store[d].synced \in Hashes \cup {None}
                             /\ store[d].base \in Hashes \cup {None}
         /\ \A h \in Hashes \cup {None} : Gen(h) \in Nat
         /\ \A h \in Hashes : /\ sealed[h] \in Generation
                             /\ h # None /\ Gen(h) \in Nat \ {0}
<1>1. \A h \in Hashes : sealed[h] \in Generation /\ h # None
  BY DEF TypeOK, Hashes, None
<1>2. \A h \in Hashes : sealed[h].gen \in Nat \ {0}
  BY <1>1 DEF Generation
<1>3. /\ head \in Hashes \cup {None}
      /\ \A d \in Device : /\ Local(d) \in Hashes
                          /\ seen[d] \in Hashes \cup {None}
                          /\ store[d].synced \in Hashes \cup {None}
                          /\ store[d].base \in Hashes \cup {None}
  BY DEF TypeOK, Local
<1> QED
  BY <1>1, <1>2, <1>3 DEF Gen

\* The chain stays numbered.
LEMMA ChainedStays ==
  ASSUME Inv, NEW d \in Device, Effect(d), Chained
  PROVE  Chained'
<1> USE DEF Inv
<1>1. CASE UNCHANGED sealed
  BY <1>1 DEF Chained, Hashes, Gen
<1>2. ASSUME NEW g, Sealable(d, g), Extends(d, g)
      PROVE  Chained'
  <2>1. Widens
    BY <1>2, AppendKeeps DEF Extends, Sealable, Widens, TypeOK
  <2>2. Hashes' = Hashes \cup {Len(sealed) + 1}
    BY <1>2 DEF Extends, Sealable, Hashes, TypeOK
  <2>3. sealed'[Len(sealed) + 1] = g
    BY <1>2 DEF Extends, Sealable, TypeOK
  <2>4. ASSUME NEW h \in Hashes', NEW p, p = sealed'[h].prev
        PROVE  p \in Hashes \cup {None} /\ sealed'[h].gen = Gen(p) + 1
    <3>1. CASE h \in Hashes
      BY <2>1, <2>4, <3>1 DEF Widens, Chained
    <3>2. CASE h = Len(sealed) + 1
      BY <1>2, <2>3, <2>4, <3>2 DEF Sealable
    <3> QED
      BY <2>2, <3>1, <3>2
  <2>5. \A p \in Hashes \cup {None} : Gen(p)' = Gen(p)
    BY <2>1, SealedStays
  <2>6. ASSUME NEW h \in Hashes'
        PROVE  /\ sealed'[h].prev \in Hashes' \cup {None}
               /\ sealed'[h].gen = Gen(sealed[h].prev)' + 1
    <3>1. PICK p : p = sealed'[h].prev
      OBVIOUS
    <3>2. p \in Hashes \cup {None} /\ sealed'[h].gen = Gen(p)' + 1
      BY <2>4, <2>5, <3>1
    <3>3. Gen(p)' = Gen(sealed[h].prev)'
      BY <3>1 DEF Gen
    <3> QED
      BY <2>2, <3>1, <3>2, <3>3
  <2> QED
    BY <2>6 DEF Chained
<1> QED
  BY <1>1, <1>2 DEF Effect, BacksOff, Reads, Uploads, NotesHash, NotesBase,
                    TakesOver, Publishes, Crash, remote

\* The head's number grows.
LEMMA HeadGrows ==
  ASSUME Inv, NEW d \in Device, Effect(d), Chained, Offers(d)
  PROVE  Gen(head) <= Gen(head)' /\ (head # None => head' # None)
<1> USE Ranges DEF Inv
<1>1. CASE head' = head
  <2>1. PICK h \in Hashes \cup {None} : h = head
    OBVIOUS
  <2>2. Gen(h)' = Gen(h)
    BY StepWidens, SealedStays
  <2>3. Gen(h)' = Gen(head)' /\ Gen(h) = Gen(head)
    BY <1>1, <2>1, Zenon DEF Gen
  <2>4. Gen(head)' = Gen(head)
    BY <2>2, <2>3, Zenon
  <2>5. Gen(head) \in Nat
    OBVIOUS
  <2> QED
    BY <1>1, <2>4, <2>5
<1>2. CASE Publishes(d)
  <2>1. /\ UNCHANGED sealed /\ head' = Local(d) /\ head = seen[d]
        /\ ParentMatches(d, seen[d])
    BY <1>2 DEF Publishes, Offers
  <2>2. Gen(head) <= sealed[Local(d)].gen
    BY <2>1 DEF ParentMatches, Chained, Gen
  <2> QED
    BY <2>1, <2>2 DEF Gen
<1> QED
  BY <1>1, <1>2, StepWidens

\* It is a number.
LEMMA HeadNumber ==
  ASSUME TypeOK'
  PROVE  Gen(head)' \in Nat
<1>1. head' \in Hashes' \cup {None} /\ sealed' \in Seq(Generation)
  BY DEF TypeOK
<1>2. CASE head' # None
  <2>1. sealed'[head'] \in Generation
    BY <1>1, <1>2 DEF Hashes
  <2> QED
    BY <1>2, <2>1 DEF Gen, Generation
<1>3. CASE head' = None
  BY <1>3 DEF Gen
<1> QED
  BY <1>2, <1>3

\* Offers and what was read stay in order.
LEMMA InOrderStep ==
  ASSUME Inv, Inv', atomic, NEW d \in Device, Effect(d), OthersKeep(d),
         Chained, \A e \in Device : Offers(e) /\ SeenIsBelow(e)
  PROVE  Chained' /\ \A e \in Device : Offers(e)' /\ SeenIsBelow(e)'
<1> USE Ranges DEF Inv
<1>1. Chained'
  BY ChainedStays
<1>2. /\ Widens /\ gens \subseteq gens'
      /\ \A h \in Hashes \cup {None} : Gen(h)' = Gen(h)
  BY StepWidens, SealedStays
<1>3. Gen(head) <= Gen(head)' /\ Gen(head) \in Nat /\ Gen(head)' \in Nat
  BY HeadGrows, HeadNumber
<1>4. ASSUME NEW e \in Device \ {d}
      PROVE  Offers(e)' /\ SeenIsBelow(e)'
  <2>1. /\ seen'[e] = seen[e] /\ pc'[e] = pc[e] /\ Local(e)' = Local(e)
        /\ sealed'[Local(e)] = sealed[Local(e)]
    BY <1>2 DEF OthersKeep, Local, Widens
  <2>2. Offers(e)'
    <3>1. Offers(e)
      OBVIOUS
    <3> QED
      BY <2>1, <3>1 DEF Offers, ParentMatches
  <2>3. SeenIsBelow(e)'
    <3>1. PICK h \in Hashes \cup {None} : h = seen[e]
      OBVIOUS
    <3>2. Gen(seen[e])' = Gen(h)' /\ Gen(seen[e]) = Gen(h)
      BY <2>1, <3>1 DEF Gen
    <3>3. SeenIsBelow(e)
      OBVIOUS
    <3>4. Gen(h)' = Gen(h) /\ Gen(h) \in Nat
      BY <1>2
    <3> QED
      BY <1>2, <1>3, <2>1, <3>1, <3>2, <3>3, <3>4 DEF SeenIsBelow
  <2> QED
    BY <2>2, <2>3
<1>5. seen'[d] \in {None, seen[d], head}
  BY DEF Effect, BacksOff, Reads, Uploads, NotesHash, NotesBase, TakesOver,
         Publishes, Extends, Crash, GoesBack, Return, TypeOK
<1>6. SeenIsBelow(d)'
  <2>1. PICK h \in {None, seen[d], head} : h = seen'[d]
    BY <1>5
  <2>2. h # None => h \in gens /\ Gen(h) <= Gen(head)
    BY <2>1 DEF SeenIsBelow, FilesAreFinal
  <2>3. Gen(seen[d])' = Gen(h)' /\ Gen(h)' = Gen(h) /\ Gen(h) \in Nat
    BY <1>2, <2>1 DEF Gen
  <2> QED
    BY <1>2, <1>3, <2>1, <2>2, <2>3 DEF SeenIsBelow
<1>7. Offers(d)'
  <2>1. CASE pc'[d] \notin {"push_put", "push_cas"}
    BY <2>1 DEF Offers
  <2>2. CASE Reads(d)
    BY <2>2 DEF Reads, Offers, ParentMatches, Local
  <2>3. CASE Uploads(d) /\ pc'[d] \in {"push_put", "push_cas"}
    BY <2>3 DEF Uploads, GoesBack, Offers, ParentMatches, Local
  <2> QED
    BY <2>1, <2>2, <2>3
       DEF Effect, BacksOff, NotesHash, NotesBase, TakesOver, Publishes,
           Extends, Crash, GoesBack, Return, TypeOK
<1> QED
  BY <1>1, <1>4, <1>6, <1>7

\* What is noted stays below the head.
LEMMA NothingNewerStep ==
  ASSUME Inv, Inv', NEW d \in Device, Effect(d), OthersKeep(d), head # None,
         InOrder, atomic, \A e \in Device : BaseIsBelow(e)
  PROVE  head' # None /\ \A e \in Device : BaseIsBelow(e)'
<1> USE DEF Inv
<1>1. /\ Widens
      /\ \A h \in Hashes \cup {None} : Gen(h)' = Gen(h) /\ Gen(h) \in Nat
  BY StepWidens, SealedStays, Ranges
<1>2. /\ Chained /\ Offers(d) /\ SeenIsBelow(d) /\ BaseIsBelow(d)
  BY DEF InOrder
<1>3. head' # None /\ Gen(head) <= Gen(head)'
  BY <1>2, HeadGrows
<1>4. Gen(head) \in Nat /\ Gen(head)' \in Nat
  BY <1>1, <1>3, HeadNumber, Ranges
<1>5. ASSUME NEW h \in Hashes \cup {None}, Gen(h) <= Gen(head)
      PROVE  Gen(h)' <= Gen(head)'
  BY <1>1, <1>3, <1>4, <1>5
<1>6. ASSUME NEW e \in Device \ {d}
      PROVE  BaseIsBelow(e)'
  <2>1. PICK b \in Hashes \cup {None}, l \in Hashes \cup {None} :
          b = store[e].base /\ l = Local(e)
    BY Ranges
  <2>2. /\ Gen(store[e].base) = Gen(b) /\ Gen(store[e].base)' = Gen(b)'
        /\ Gen(Local(e)) = Gen(l) /\ Gen(Local(e))' = Gen(l)'
    BY <2>1 DEF Gen, OthersKeep, Local
  <2>3. BaseIsBelow(e) /\ pc'[e] = pc[e]
    BY DEF OthersKeep
  <2> QED
    BY <1>5, <2>2, <2>3 DEF BaseIsBelow
<1>7. BaseIsBelow(d)'
  <2>1. PICK b \in Hashes \cup {None} : b = store[d].base
    BY Ranges
  <2>2. /\ store'[d].base \in {b, seen[d], Local(d)}
        /\ store'[d].base # b => \/ store'[d].base = seen[d] /\ seen[d] # None
                                 \/ store'[d].base = Local(d) /\ pc[d] = "push_base"
    BY <2>1 DEF Effect, BacksOff, Reads, Uploads, NotesHash, NotesBase, TakesOver,
                Publishes, Extends, Crash, PullsHaveHeads
  <2>3. PICK c \in Hashes \cup {None} : c = store'[d].base
    BY <2>1, <2>2, Ranges
  <2>4. Gen(c) <= Gen(head)
    BY <1>2, <2>1, <2>2, <2>3 DEF BaseIsBelow, SeenIsBelow
  <2>5. Gen(store[d].base)' <= Gen(head)'
    <3>1. Gen(store[d].base)' = Gen(c)'
      BY <2>3 DEF Gen
    <3> QED
      BY <1>5, <2>4, <3>1
  <2>6. ASSUME pc'[d] = "push_base"
        PROVE  Gen(Local(d))' <= Gen(head)'
    <3>1. Local(d)' = head'
      BY <2>6 DEF Effect, BacksOff, Reads, Uploads, NotesHash, NotesBase,
                  TakesOver, Publishes, Extends, Crash, GoesBack, Return, TypeOK,
                  Local
    <3> QED
      BY <1>4, <3>1 DEF Gen
  <2> QED
    BY <2>5, <2>6 DEF BaseIsBelow
<1> QED
  BY <1>3, <1>6, <1>7

LEMMA InOrderStutters ==
  ASSUME UNCHANGED vars
  PROVE  /\ InOrder => InOrder'
         /\ NothingNewer => NothingNewer'
<1> USE DEF vars, remote, call
<1>1. InOrder => InOrder'
  BY DEF InOrder, Chained, Hashes, Gen, Offers, ParentMatches, SeenIsBelow,
         Local
<1>2. NothingNewer => NothingNewer'
  BY DEF NothingNewer, BaseIsBelow, Gen, Local
<1> QED
  BY <1>1, <1>2

\* In an atomic store a push only ever offers a generation whose number is one
\* above that of the head it has read, and the head it has read is below the
\* head there is now: push and compareAndSwapHead, under all faults.
THEOREM OffersFollow == Spec => []InOrder
<1>1. Init => InOrder
  <2> SUFFICES ASSUME Init PROVE InOrder
    OBVIOUS
  <2>1. Chained
    BY DEF Init, Chained, Hashes, Gen, None
  <2>2. ASSUME NEW d \in Device PROVE Offers(d) /\ SeenIsBelow(d)
    BY DEF Init, Offers, SeenIsBelow
  <2> QED
    BY <2>1, <2>2 DEF InOrder
<1>2. Inv /\ Inv' /\ InOrder /\ [Next]_vars => InOrder'
  <2> SUFFICES ASSUME Inv, Inv', InOrder, Next
               PROVE  InOrder'
    BY InOrderStutters
  <2>1. PICK d \in Device :
          Moves(d) \/ Stores(d) \/ Seals(d) \/ Puts(d) \/ Swaps(d)
    BY StepKinds
  <2>2. CASE atomic
    <3>1. Effect(d) /\ OthersKeep(d)
      BY <2>1, <2>2, StepEffects, StepKeepsOthers
    <3> QED
      BY <2>2, <3>1, InOrderStep DEF InOrder
  <2>3. CASE ~atomic
    BY <2>3, StepKinds DEF InOrder
  <2> QED
    BY <2>2, <2>3
<1> QED
  BY <1>1, <1>2, Invariance, PTL DEF Spec

\* A store that was never empty, and that tests and writes in one step, never
\* has a device told generation_rollback: what _markSynced notes as
\* synced_container is the head or lies below it, also after a crash between
\* its two writes.
THEOREM NoRollback == Spec /\ head # None => []NoRollbackIsReported
<1>1. Init /\ head # None => NothingNewer
  <2> SUFFICES ASSUME Init, head # None PROVE NothingNewer
    OBVIOUS
  <2>1. head = 2 /\ \A d \in Device : store[d].base = 2 /\ pc[d] = "idle"
    BY DEF Init
  <2>2. Gen(2) = 2
    BY DEF Init, Gen, None
  <2> QED
    BY <2>1, <2>2 DEF NothingNewer, BaseIsBelow
<1>2. Inv /\ Inv' /\ InOrder /\ NothingNewer /\ [Next]_vars => NothingNewer'
  <2> SUFFICES ASSUME Inv, Inv', InOrder, NothingNewer, Next
               PROVE  NothingNewer'
    BY InOrderStutters
  <2>1. PICK d \in Device :
          Moves(d) \/ Stores(d) \/ Seals(d) \/ Puts(d) \/ Swaps(d)
    BY StepKinds
  <2>2. CASE atomic
    <3>1. Effect(d) /\ OthersKeep(d)
      BY <2>1, <2>2, StepEffects, StepKeepsOthers
    <3> QED
      BY <2>2, <3>1, NothingNewerStep DEF NothingNewer
  <2>3. CASE ~atomic
    BY <2>3, StepKinds DEF NothingNewer
  <2> QED
    BY <2>2, <2>3
<1>3. Inv /\ NothingNewer => NoRollbackIsReported
  <2> SUFFICES ASSUME Inv, NothingNewer, atomic, NEW d \in Device
               PROVE  ~RolledBack(d, head)
    BY DEF NoRollbackIsReported
  <2>1. Gen(store[d].base) \in Nat /\ Gen(head) \in Nat
    BY Ranges DEF Inv
  <2>2. Gen(store[d].base) <= Gen(head)
    BY DEF NothingNewer, BaseIsBelow
  <2> QED
    BY <2>1, <2>2 DEF RolledBack
<1> QED
  BY <1>1, <1>2, <1>3, Invariance, OffersFollow, PTL DEF Spec

-----------------------------------------------------------------------------
(* What the generations hold.                                              *)

\* A generation has the facts of its parent.
FactsGrow == \A h \in Hashes : Facts(sealed[h].prev) \subseteq Facts(h)

\* What a device has read or noted as synced is shared, and its own generation
\* holds what it has noted, but while it takes the head over: then the head
\* holds what is to be replaced.
Takes(d) ==
  /\ Facts(seen[d]) \subseteq Facts(head)
  /\ Facts(store[d].synced) \subseteq Facts(head)
  /\ pc[d] \notin {"pull_base", "pull_persist"}
       => Facts(store[d].synced) \subseteq Facts(Local(d))
  /\ pc[d] = "pull_get" => Facts(store[d].synced) \subseteq Facts(seen[d])
  /\ pc[d] \in {"pull_base", "pull_persist"}
       => /\ store[d].synced = seen[d]
          /\ Facts(Local(d)) \subseteq Facts(seen[d])

NothingDropped == atomic => FactsGrow /\ \A d \in Device : Takes(d)

\* What a step does to the facts of the head and of its device.
FactsKept(d) == /\ Facts(head) \subseteq Facts(head)'
                /\ Facts(Local(d)) \subseteq Facts(Local(d))'
                /\ \/ Facts(head)' = Facts(head)
                   \/ /\ Facts(head)' = Facts(Local(d))
                      /\ Facts(Local(d))' = Facts(Local(d))

\* A step that seals nothing drops nothing,
LEMMA UnsealedKeeps ==
  ASSUME Inv, NEW d \in Device, UNCHANGED sealed, Effect(d), ~Crash(d),
         Chained, Offers(d), FactsGrow, Takes(d)
  PROVE  FactsGrow' /\ Takes(d)' /\ FactsKept(d)
<1> USE DEF Inv, FactsKept
<1>1. FactsGrow'
  BY DEF FactsGrow, Facts, Hashes
<1>2. CASE BacksOff(d) \/ Uploads(d)
  BY <1>1, <1>2 DEF BacksOff, Uploads, GoesBack, Takes, Facts, Local
<1>3. CASE Reads(d)
  BY <1>1, <1>3 DEF Reads, Takes, Facts, Local
<1>4. CASE NotesHash(d)
  BY <1>1, <1>4 DEF NotesHash, Takes, Facts, Local
<1>5. CASE NotesBase(d)
  BY <1>1, <1>5 DEF NotesBase, GoesBack, Takes, Facts, Local
<1>6. CASE TakesOver(d)
  BY <1>1, <1>6 DEF TakesOver, GoesBack, Takes, Facts, Local
<1>7. CASE Publishes(d)
  <2>1. Facts(head) \subseteq Facts(Local(d))
    <3>1. ParentMatches(d, head) /\ Local(d) \in Hashes
      BY <1>7, Ranges DEF Publishes, Offers
    <3>2. CASE head = None
      BY <3>2 DEF Facts
    <3>3. CASE head # None
      BY <3>1, <3>3 DEF ParentMatches, FactsGrow
    <3> QED
      BY <3>2, <3>3
  <2>2. UNCHANGED sealed /\ head' = Local(d) /\ Local(d)' = Local(d)
    BY <1>7 DEF Publishes, Local
  <2>3. /\ Facts(head)' = Facts(Local(d))
        /\ Facts(Local(d))' = Facts(Local(d))
    BY <2>2 DEF Facts
  <2>4. /\ Facts(seen[d])' \subseteq Facts(head)
        /\ \/ Facts(store[d].synced)' = Facts(store[d].synced)
           \/ Facts(store[d].synced)' = Facts(Local(d))
    BY <1>7 DEF Publishes, GoesBack, Takes, Facts
  <2>5. /\ pc[d] = "push_cas"
        /\ pc'[d] \in {"idle", "push_head", "push_base"}
    BY <1>7 DEF Publishes, GoesBack
  <2>6. Takes(d)'
    BY <2>1, <2>3, <2>4, <2>5 DEF Takes
  <2> QED
    BY <1>1, <2>1, <2>3, <2>6
<1> QED
  BY <1>1, <1>2, <1>3, <1>4, <1>5, <1>6, <1>7, AppendKeeps
     DEF Effect, Extends, Sealable, TypeOK

\* nor does one that seals,
LEMMA SealedKeeps ==
  ASSUME Inv, NEW d \in Device, NEW g, Sealable(d, g), Extends(d, g),
         Chained, FactsGrow, Takes(d)
  PROVE  FactsGrow' /\ Takes(d)' /\ FactsKept(d)
<1> USE DEF Inv
<1>1. Widens /\ \A h \in Hashes \cup {None} : Facts(h)' = Facts(h)
  <2>1. Widens
    BY AppendKeeps DEF Extends, Sealable, Widens, TypeOK
  <2> QED
    BY <2>1, SealedStays
<1>2. PICK n : n = Len(sealed) + 1
  OBVIOUS
<1>3. /\ Hashes' = Hashes \cup {n} /\ sealed'[n] = g /\ n # None
  BY <1>2 DEF Extends, Sealable, Hashes, TypeOK, None
<1>4. Facts(n)' = g.facts
  BY <1>3 DEF Facts
<1>5. /\ Facts(Local(d)) \subseteq g.facts
      /\ Facts(g.prev) \subseteq g.facts
  BY DEF Sealable, Extends, Takes
<1>6. FactsGrow'
  <2>1. ASSUME NEW h \in Hashes', NEW p, p = sealed'[h].prev
        PROVE  Facts(p)' \subseteq Facts(h)'
    <3>1. CASE h \in Hashes
      BY <1>1, <2>1, <3>1 DEF Widens, Chained, FactsGrow
    <3>2. CASE h = n
      BY <1>1, <1>3, <1>4, <1>5, <2>1, <3>2 DEF Sealable
    <3> QED
      BY <1>3, <3>1, <3>2
  <2>2. ASSUME NEW h \in Hashes'
        PROVE  Facts(sealed[h].prev)' \subseteq Facts(h)'
    <3>1. PICK p : p = sealed'[h].prev
      OBVIOUS
    <3>2. Facts(p)' = Facts(sealed[h].prev)'
      BY <3>1 DEF Facts
    <3> QED
      BY <2>1, <3>1, <3>2
  <2> QED
    BY <2>2 DEF FactsGrow
<1>7. PICK s \in Hashes \cup {None}, y \in Hashes \cup {None},
           c \in Hashes \cup {None} :
        s = seen[d] /\ y = store[d].synced /\ c = head
  BY Ranges
<1>8. /\ Facts(s) = Facts(seen[d]) /\ Facts(y) = Facts(store[d].synced)
      /\ Facts(c) = Facts(head)
  BY <1>7 DEF Facts
<1>9. /\ Facts(y)' = Facts(store[d].synced)' /\ Facts(c)' = Facts(head)'
      /\ Facts(n)' = Facts(Local(d))'
      /\ Facts(seen[d])' \in {{}, Facts(s)'}
  BY <1>2, <1>7 DEF Extends, GoesBack, Local, Facts
<1>10. /\ Facts(seen[d])' \subseteq Facts(seen[d])
       /\ Facts(store[d].synced)' = Facts(store[d].synced)
       /\ Facts(head)' = Facts(head)
       /\ Facts(Local(d))' = g.facts
  BY <1>1, <1>4, <1>8, <1>9
<1>11. /\ pc'[d] \in {"idle", "push_head"}
       /\ pc[d] \notin {"pull_base", "pull_persist"}
  BY DEF Extends, GoesBack
<1>12. Takes(d)'
  BY <1>5, <1>10, <1>11 DEF Takes
<1> QED
  BY <1>5, <1>6, <1>10, <1>12 DEF FactsKept

\* nor takes it anything from the other devices.
LEMMA OthersTake ==
  ASSUME Inv, Widens, NEW d \in Device, OthersKeep(d),
         Facts(head) \subseteq Facts(head)',
         NEW e \in Device \ {d}, Takes(e)
  PROVE  Takes(e)' /\ Facts(Local(e))' = Facts(Local(e))
<1>1. PICK s \in Hashes \cup {None}, y \in Hashes \cup {None},
           l \in Hashes \cup {None} :
        s = seen[e] /\ y = store[e].synced /\ l = Local(e)
  BY Ranges DEF Inv
<1>2. /\ Facts(s)' = Facts(s) /\ Facts(y)' = Facts(y) /\ Facts(l)' = Facts(l)
  BY SealedStays
<1>3. /\ Facts(s) = Facts(seen[e]) /\ Facts(y) = Facts(store[e].synced)
      /\ Facts(l) = Facts(Local(e))
  BY <1>1 DEF Facts
<1>4. /\ Facts(s)' = Facts(seen[e])' /\ Facts(y)' = Facts(store[e].synced)'
      /\ Facts(l)' = Facts(Local(e))'
  BY <1>1 DEF OthersKeep, Local, Facts
<1>5. /\ pc'[e] = pc[e] /\ seen'[e] = seen[e] /\ store'[e] = store[e]
  BY DEF OthersKeep
<1>6. /\ Facts(seen[e])' = Facts(seen[e])
      /\ Facts(store[e].synced)' = Facts(store[e].synced)
      /\ Facts(Local(e))' = Facts(Local(e))
  BY <1>2, <1>3, <1>4
<1> QED
  BY <1>5, <1>6 DEF Takes

\* A step in an atomic store that ends no process is one of SharedVault.
LEMMA StepDropsNothing ==
  ASSUME Inv, Inv', atomic, UNCHANGED atomic, NEW d \in Device, Effect(d),
         OthersKeep(d), ~Crash(d), InOrder, NothingDropped
  PROVE  NothingDropped' /\ [Shared!Next]_(Shared!vars)
<1> USE DEF Inv
<1>1. Chained /\ Offers(d) /\ FactsGrow /\ \A e \in Device : Takes(e)
  BY DEF InOrder, NothingDropped
<1>2. FactsGrow' /\ Takes(d)' /\ FactsKept(d)
  <2>1. CASE UNCHANGED sealed
    BY <1>1, <2>1, UnsealedKeeps
  <2>2. CASE \E g : Sealable(d, g) /\ Extends(d, g)
    BY <1>1, <2>2, SealedKeeps
  <2> QED
    BY <2>1, <2>2 DEF Effect, BacksOff, Reads, Uploads, NotesHash, NotesBase,
                      TakesOver, Publishes
<1>3. ASSUME NEW e \in Device \ {d}
      PROVE  Takes(e)' /\ Facts(Local(e))' = Facts(Local(e))
  BY <1>1, <1>2, StepWidens, OthersTake DEF FactsKept
<1>4. NothingDropped'
  BY <1>2, <1>3 DEF NothingDropped
<1> DEFINE held(e) == IF atomic THEN Facts(Local(e)) ELSE {}
           shared == IF atomic THEN Facts(head) ELSE {}
<1>5. \A e \in Device \ {d} : held(e)' = held(e)
  BY <1>3
<1>6. CASE Facts(head)' = Facts(head)
  <2>1. held(d)' \in SUBSET Key
    <3>1. PICK l : l = Local(d)'
      OBVIOUS
    <3>2. l \in Hashes' /\ sealed' \in Seq(Generation)
      BY <3>1 DEF TypeOK, Local
    <3>3. sealed'[l] \in Generation
      BY <3>2 DEF Hashes
    <3>4. Facts(Local(d))' \in SUBSET Key
      BY <3>1, <3>3 DEF Facts, Generation
    <3> QED
      BY <3>4
  <2>2. held(d)' = held(d) \cup held(d)'
    BY <1>2 DEF FactsKept
  <2>3. shared' = shared
    BY <1>6
  <2>4. Shared!Edit(d)
    BY <1>5, <2>1, <2>2, <2>3 DEF Shared!Edit
  <2> QED
    BY <1>4, <2>4 DEF Shared!Next
<1>7. CASE /\ Facts(head)' = Facts(Local(d))
           /\ Facts(Local(d))' = Facts(Local(d))
  <2>1. /\ shared \subseteq held(d) /\ shared' = held(d)
        /\ \A e \in Device : held(e)' = held(e)
    BY <1>2, <1>5, <1>7 DEF FactsKept
  <2>2. Shared!Publish(d)
    BY <2>1 DEF Shared!Publish
  <2> QED
    BY <1>4, <2>2 DEF Shared!Next
<1> QED
  BY <1>2, <1>4, <1>6, <1>7 DEF FactsKept

\* Without crashes nothing is dropped: the torn pull, which a crash leaves, is
\* the only step after which a push is rechained onto facts it lacks.
LEMMA NextDropsNothing ==
  ASSUME "crash" \notin Faults
  PROVE  Inv /\ Inv' /\ InOrder /\ NothingDropped /\ [Next]_vars
           => NothingDropped' /\ [Shared!Next]_(Shared!vars)
<1> SUFFICES ASSUME Inv, Inv', InOrder, NothingDropped, [Next]_vars
             PROVE  NothingDropped' /\ [Shared!Next]_(Shared!vars)
  OBVIOUS
<1>1. CASE UNCHANGED vars
  <2>1. NothingDropped'
    BY <1>1 DEF vars, remote, call, NothingDropped, FactsGrow, Takes, Facts,
                Local, Hashes
  <2>2. UNCHANGED Shared!vars
    BY <1>1 DEF vars, remote, Shared!vars, Facts, Local
  <2> QED
    BY <2>1, <2>2
<1>2. CASE Next
  <2>1. PICK d \in Device :
          Moves(d) \/ Stores(d) \/ Seals(d) \/ Puts(d) \/ Swaps(d)
    BY <1>2, StepKinds
  <2>2. UNCHANGED atomic
    BY <1>2, StepKinds
  <2>3. CASE atomic
    <3>1. Effect(d) /\ OthersKeep(d)
      BY <2>1, <2>3, StepEffects, StepKeepsOthers
    <3>2. ~Crash(d)
      BY DEF Crash, Fault
    <3> QED
      BY <2>2, <2>3, <3>1, <3>2, StepDropsNothing
  <2>4. CASE ~atomic
    <3>1. NothingDropped'
      BY <2>2, <2>4 DEF NothingDropped
    <3>2. UNCHANGED Shared!vars
      BY <2>2, <2>4 DEF Shared!vars
    <3> QED
      BY <3>1, <3>2
  <2> QED
    BY <2>3, <2>4
<1> QED
  BY <1>1, <1>2

LEMMA InitDropsNothing == Init => NothingDropped /\ Shared!Init
<1> SUFFICES ASSUME Init PROVE NothingDropped /\ Shared!Init
  OBVIOUS
<1>1. \A h \in {None, 1, 2} : Facts(h) = {}
  BY DEF Init, Facts, None
<1>2. /\ Hashes = {1, 2} /\ head \in {None, 2}
      /\ sealed[1].prev = None /\ sealed[2].prev = 1
  BY DEF Init, Hashes
<1>3. FactsGrow
  BY <1>1, <1>2 DEF FactsGrow
<1>4. ASSUME NEW d \in Device
      PROVE  Takes(d) /\ Facts(Local(d)) = {}
  <2>1. store[d].synced = 2 /\ Local(d) = 2 /\ seen[d] = None /\ pc[d] = "idle"
    BY DEF Init, Local
  <2> QED
    BY <1>1, <2>1 DEF Takes
<1>5. Facts(head) = {}
  BY <1>1, <1>2
<1> QED
  BY <1>3, <1>4, <1>5 DEF NothingDropped, Shared!Init

\* As long as no process dies between the two writes of a pull, a device that
\* has synced its local generation holds nothing that the head of an atomic
\* store lacks: what _markSynced notes was read from the head, or became it.
THEOREM SyncedIsShared ==
  ASSUME "crash" \notin Faults
  PROVE  Spec => []SyncedWorkIsShared
<1>1. NothingDropped => SyncedWorkIsShared
  <2> SUFFICES ASSUME NothingDropped, atomic, NEW d \in Device,
                      store[d].synced = Local(d)
               PROVE  Facts(Local(d)) \subseteq Facts(head)
    BY DEF SyncedWorkIsShared
  <2>1. Takes(d)
    BY DEF NothingDropped
  <2> QED
    BY <2>1 DEF Takes
<1> QED
  BY <1>1, NextDropsNothing, InitDropsNothing, Invariance, OffersFollow, PTL
     DEF Spec

\* Under the same condition the store and its devices share facts as
\* SharedVault says: no pull, merge or rechained backlog takes a fact out of a
\* container, and compareAndSwapHead replaces a head only by one that holds all
\* of it.
THEOREM Implements ==
  ASSUME "crash" \notin Faults
  PROVE  Spec => ImplementsSharedVault
  BY NextDropsNothing, InitDropsNothing, Invariance, OffersFollow, PTL
     DEF Spec, ImplementsSharedVault, Shared!Spec
=============================================================================
