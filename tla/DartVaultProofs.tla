--------------------------- MODULE DartVaultProofs ---------------------------
(***************************************************************************)
(* Theorems about the Dart vault, for every set of devices and changes and *)
(* every bound: a device opens what it stores, a host that never goes back *)
(* is not reported for it, changes are kept, and what a revocation took    *)
(* away stays away.                                                        *)
(***************************************************************************)
EXTENDS DartVault, TLAPS

-----------------------------------------------------------------------------
(* What is sealed and what is written.                                     *)

Stores == [container : Hash, slot : Hash, synced : Hash, base : Hash,
           pinned : Hash]

\* A generation that may be sealed: its MSK comes with it, or did before.
Sealable == {g \in Generation : g.msk.made \in Hashes \cup {NewHash}}

\* Nothing is sealed, or one generation.
Seals == sealed' = sealed \/ \E g \in Sealable : sealed' = Append(sealed, g)

\* What was sealed before stays what it was.
LEMMA SealsKeep ==
  ASSUME sealed \in Seq(Generation), Seals
  PROVE  /\ sealed' \in Seq(Generation)
         /\ Hashes \subseteq Hashes' /\ Hash \subseteq Hash'
         /\ \A h \in Hashes : sealed'[h] = sealed[h]
         /\ \A h \in Hash : Gen(h)' = Gen(h) /\ Changes(h)' = Changes(h)
<1>1. /\ sealed' \in Seq(Generation) /\ Len(sealed) \in Nat
      /\ Len(sealed') \in Nat /\ Len(sealed) <= Len(sealed')
      /\ \A h \in 1 .. Len(sealed) : sealed'[h] = sealed[h]
  BY DEF Seals, Sealable
<1>2. Hashes \subseteq Hashes' /\ Hash \subseteq Hash'
  BY <1>1 DEF Hashes, Hash
<1>3. \A h \in Hashes : sealed'[h] = sealed[h]
  BY <1>1 DEF Hashes
<1>4. \A h \in Hash : Gen(h)' = Gen(h) /\ Changes(h)' = Changes(h)
  BY <1>3 DEF Hash, Gen, Changes
<1> QED
  BY <1>1, <1>2, <1>3, <1>4

\* The generation that is sealed has the next hash.
LEMMA SealedIsNew ==
  ASSUME sealed \in Seq(Generation), NEW g \in Generation,
         sealed' = Append(sealed, g)
  PROVE  /\ NewHash \in Hashes' /\ NewHash \in Hash' /\ NewHash # None
         /\ NewHash \notin Hashes
         /\ Hashes' = Hashes \cup {NewHash}
         /\ sealed'[NewHash] = g
BY DEF Hashes, Hash, NewHash, None

\* The writes of a step end with its last one.
LEMMA LastWrite ==
  ASSUME NEW S, NEW pre \in Seq(S), NEW s \in S
  PROVE  /\ pre \o <<s>> \in Seq(S)
         /\ Len(pre \o <<s>>) > 0
         /\ (pre \o <<s>>)[Len(pre \o <<s>>)] = s
<1>1. /\ <<s>> \in Seq(S) /\ Len(<<s>>) = 1 /\ <<s>>[1] = s
      /\ Len(pre) \in Nat
  OBVIOUS
<1>2. /\ pre \o <<s>> \in Seq(S)
      /\ Len(pre \o <<s>>) = Len(pre) + 1
      /\ (pre \o <<s>>)[Len(pre) + 1] = s
  BY <1>1
<1> QED
  BY <1>1, <1>2

\* A step that writes ws and opens h, or is cut short.
Turn(d, ws, h) == \/ Wrote(d, ws, h) /\ UNCHANGED faults
                  \/ CutShort(d, ws)

\* What it may leave in the store and open, and what it does if it is not cut
\* short.
LEMMA TurnWrites ==
  ASSUME store \in [Device -> Stores], vault \in [Device -> Hash],
         NEW d \in Device, NEW S, NEW ws \in Seq(S), Len(ws) > 0, NEW h,
         Turn(d, ws, h)
  PROVE  /\ \E s \in {store[d]} \cup S : store' = [store EXCEPT ![d] = s]
         /\ \E v \in {vault[d], h, None} : vault' = [vault EXCEPT ![d] = v]
         /\ ~Torn' => /\ store' = [store EXCEPT ![d] = ws[Len(ws)]]
                      /\ vault' = [vault EXCEPT ![d] = h]
                      /\ UNCHANGED faults
<1>1. Len(ws) \in 1 .. Len(ws) /\ ws[Len(ws)] \in S
  OBVIOUS
<1>2. /\ store = [store EXCEPT ![d] = store[d]]
      /\ vault = [vault EXCEPT ![d] = vault[d]]
  OBVIOUS
<1>3. CASE Wrote(d, ws, h) /\ UNCHANGED faults
  BY <1>1, <1>3 DEF Wrote
<1>4. CASE CutShort(d, ws)
  <2>1. PICK i \in 0 .. Len(ws) - 1 :
          store' = IF i = 0 THEN store ELSE [store EXCEPT ![d] = ws[i]]
    BY <1>4 DEF CutShort
  <2>2. \E s \in {store[d]} \cup S : store' = [store EXCEPT ![d] = s]
    <3>1. CASE i = 0
      BY <1>2, <2>1, <3>1
    <3>2. CASE i # 0
      <4>1. ws[i] \in S
        BY <2>1, <3>2
      <4> QED
        BY <2>1, <3>2, <4>1
    <3> QED
      BY <3>1, <3>2
  <2>3. \E v \in {vault[d], h, None} : vault' = [vault EXCEPT ![d] = v]
    BY <1>2, <1>4 DEF CutShort
  <2>4. Torn'
    BY <1>4 DEF CutShort, Fault, Torn
  <2> QED
    BY <2>2, <2>3, <2>4
<1> QED
  BY <1>3, <1>4 DEF Turn

-----------------------------------------------------------------------------
(* What the steps of a device come to.                                     *)

\* A call that runs has a vault open.
CallsHaveVaults == \A d \in Device : pc[d] # "idle" => vault[d] # None

\* The n-th record has the number n.
Numbered == \A n \in DOMAIN records : sealed[records[n]].gen = n

\* An MSK is known by a generation that was sealed.
MsksAreMade == \A h \in Hashes : sealed[h].msk.made \in Hashes

Typed == TypeOK /\ CallsHaveVaults /\ Numbered /\ MsksAreMade

\* What a step of d may store: the synced generation is none the host is not
\* beyond, or the one that was noted before.
Storable(d) == {s \in Stores' : \/ s.base = store[d].base
                                \/ Gen(s.base)' <= Len(records')}

\* Under all faults.
Acts(d) ==
  /\ Seals
  /\ \E s \in Storable(d) : store' = [store EXCEPT ![d] = s]
  /\ \E v \in Hash' : vault' = [vault EXCEPT ![d] = v]
  /\ \E p \in {"idle", "put", "read"} : pc' = [pc EXCEPT ![d] = p]
  /\ \E n \in 0 .. PushAttempts : attempt' = [attempt EXCEPT ![d] = n]
  /\ \E h \in Hash : inHand' = [inHand EXCEPT ![d] = h]
  /\ pc'[d] # "idle" => vault'[d] # None
  /\ calls' \in 0 .. MaxCalls
  /\ faults' \subseteq Faults

\* And when no write is cut short. A generation of d's is stored, which holds
\* the changes of the open vault,
Saves(d) ==
  /\ vault[d] # None
  /\ \E g \in Generation :
       /\ sealed' = Append(sealed, g)
       /\ Changes(vault[d]) \subseteq g.changes
       /\ \/ g.prev \in {None, Unstored, vault[d], store[d].synced}
          \/ g.prev \in Hashes /\ Changes(g.prev) \subseteq g.changes
  /\ \E s \in Stores' : /\ store' = [store EXCEPT ![d] = s]
                        /\ s.container = NewHash
                        /\ s.synced = store[d].synced
  /\ vault' = [vault EXCEPT ![d] = NewHash]
  /\ UNCHANGED <<records, inHand>>

\* the host's replaces the one that was synced,
Takes(d) ==
  /\ CurrentRecord # None
  /\ Accepts(d, CurrentRecord)
  /\ vault[d] # None /\ store[d].synced = vault[d]
  /\ \E s \in Stores' : /\ store' = [store EXCEPT ![d] = s]
                        /\ s.container = CurrentRecord
                        /\ s.synced = CurrentRecord
  /\ vault' = [vault EXCEPT ![d] = CurrentRecord]
  /\ UNCHANGED <<sealed, records, inHand>>

\* the open one is noted as synced,
Notes(d) ==
  /\ vault[d] # None
  /\ \E n \in DOMAIN records' : records'[n] = vault[d]
  /\ \E s \in Stores' : /\ store' = [store EXCEPT ![d] = s]
                        /\ s.container = store[d].container
                        /\ s.synced = vault[d]
  /\ UNCHANGED <<sealed, vault, inHand>>

\* a vault that is in hand is adopted,
Joins(d) ==
  /\ inHand[d] # None
  /\ \E g \in Generation :
       /\ sealed' = Append(sealed, g)
       /\ g.prev = inHand[d]
       /\ g.changes = Changes(inHand[d])
  /\ \E s \in Stores' : /\ store' = [store EXCEPT ![d] = s]
                        /\ s.container = NewHash
                        /\ s.synced \in {None, inHand[d]}
  /\ vault' = [vault EXCEPT ![d] = NewHash]
  /\ inHand' = [inHand EXCEPT ![d] = None]
  /\ UNCHANGED records

\* all is forgotten,
Forgets(d) ==
  /\ store' = [store EXCEPT ![d] = Empty]
  /\ vault' = [vault EXCEPT ![d] = None]
  /\ UNCHANGED <<sealed, records, inHand>>

\* or nothing but what is open, or in hand, or on the host.
Rests(d) ==
  /\ \/ vault' = vault
     \/ /\ vault[d] = None
        /\ vault' = [vault EXCEPT ![d] = store[d].container]
  /\ \/ inHand' = inHand
     \/ /\ CurrentRecord # None
        /\ inHand' = [inHand EXCEPT ![d] = CurrentRecord]
        /\ UNCHANGED records
  /\ UNCHANGED <<sealed, store>>

Whole(d) == \/ Saves(d) \/ Takes(d) \/ Notes(d) \/ Joins(d) \/ Forgets(d)
            \/ Rests(d)

\* What the lemmas below use of the types.
LEMMA TypesOf ==
  ASSUME TypeOK
  PROVE  /\ sealed \in Seq(Generation) /\ records \in Seq(Hashes)
         /\ store \in [Device -> Stores] /\ vault \in [Device -> Hash]
         /\ pc \in [Device -> {"idle", "put", "read"}]
         /\ attempt \in [Device -> 0 .. PushAttempts]
         /\ inHand \in [Device -> Hash]
         /\ calls \in 0 .. MaxCalls /\ faults \subseteq Faults
         /\ Len(records) \in Nat
         /\ CurrentRecord \in Hash
         /\ \A h \in Hash : h # None => h \in Hashes
         /\ \A h \in Hashes : h # None /\ sealed[h] \in Generation
<1>1. /\ sealed \in Seq(Generation) /\ records \in Seq(Hashes)
      /\ store \in [Device -> Stores] /\ vault \in [Device -> Hash]
      /\ pc \in [Device -> {"idle", "put", "read"}]
      /\ attempt \in [Device -> 0 .. PushAttempts]
      /\ inHand \in [Device -> Hash]
      /\ calls \in 0 .. MaxCalls /\ faults \subseteq Faults
  BY DEF TypeOK, Stores
<1>2. Len(records) \in Nat
  BY <1>1
<1>3. CurrentRecord \in Hash
  BY <1>1 DEF CurrentRecord, Hash
<1>4. \A h \in Hash : h # None => h \in Hashes
  BY DEF Hash
<1>5. \A h \in Hashes : h # None /\ sealed[h] \in Generation
  BY <1>1 DEF Hashes, None
<1> QED
  BY <1>1, <1>2, <1>3, <1>4, <1>5

\* The bounds on calls and faults.
LEMMA BoundsHold ==
  ASSUME TypeOK
  PROVE  /\ \A op : Call(op) => calls' \in 0 .. MaxCalls
         /\ \A kind : Fault(kind) => faults' \subseteq Faults
         /\ 0 \in 0 .. PushAttempts /\ 1 \in 0 .. PushAttempts
<1>1. \A op : Call(op) => calls' \in 0 .. MaxCalls
  BY BoundsAssumption DEF Call, TypeOK
<1>2. \A kind : Fault(kind) => faults' \subseteq Faults
  BY DEF Fault, TypeOK
<1> QED
  BY <1>1, <1>2, BoundsAssumption

\* A step that stores and opens nothing new.
LEMMA Unwritten ==
  ASSUME Typed, NEW d \in Device, UNCHANGED <<sealed, store, vault>>
  PROVE  /\ Seals
         /\ \E s \in Storable(d) : store' = [store EXCEPT ![d] = s]
         /\ \E v \in Hash' : vault' = [vault EXCEPT ![d] = v]
<1>1. /\ store \in [Device -> Stores] /\ vault \in [Device -> Hash]
      /\ Hash' = Hash /\ Stores' = Stores
  BY TypesOf DEF Typed, Hash, Hashes, Stores
<1>2. store' = [store EXCEPT ![d] = store[d]]
  BY <1>1
<1>3. vault' = [vault EXCEPT ![d] = vault[d]]
  BY <1>1
<1> QED
  BY <1>1, <1>2, <1>3 DEF Seals, Storable

\* A step that writes.
LEMMA Written ==
  ASSUME Typed, NEW d \in Device, Seals,
         NEW ws \in Seq(Storable(d)), Len(ws) > 0, NEW h \in Hash',
         Turn(d, ws, h)
  PROVE  /\ \E s \in Storable(d) : store' = [store EXCEPT ![d] = s]
         /\ \E v \in Hash' : vault' = [vault EXCEPT ![d] = v]
         /\ ~Torn' => /\ store' = [store EXCEPT ![d] = ws[Len(ws)]]
                      /\ vault' = [vault EXCEPT ![d] = h]
                      /\ UNCHANGED faults
<1>1. /\ store \in [Device -> Stores] /\ vault \in [Device -> Hash]
      /\ sealed \in Seq(Generation)
  BY TypesOf DEF Typed
<1>2. Hash \subseteq Hash' /\ None \in Hash'
  BY <1>1, SealsKeep DEF Hash
<1>3. store[d] \in Storable(d) /\ vault[d] \in Hash'
  <2>1. vault[d] \in Hash /\ store[d] \in Stores
    BY <1>1
  <2>2. store[d] \in Stores'
    BY <1>2, <2>1 DEF Stores
  <2> QED
    BY <1>2, <2>1, <2>2 DEF Storable
<1>4. \E s \in {store[d]} \cup Storable(d) : store' = [store EXCEPT ![d] = s]
  BY <1>1, TurnWrites
<1>5. \E v \in {vault[d], h, None} : vault' = [vault EXCEPT ![d] = v]
  BY <1>1, TurnWrites
<1>6. ~Torn' => /\ store' = [store EXCEPT ![d] = ws[Len(ws)]]
                /\ vault' = [vault EXCEPT ![d] = h]
                /\ UNCHANGED faults
  BY <1>1, TurnWrites
<1> QED
  BY <1>2, <1>3, <1>4, <1>5, <1>6

\* Where the call stands after the step, and what d has in hand.
Goes(d) ==
  /\ \E p \in {"idle", "put", "read"} : pc' = [pc EXCEPT ![d] = p]
  /\ \E n \in 0 .. PushAttempts : attempt' = [attempt EXCEPT ![d] = n]
  /\ \E h \in Hash : inHand' = [inHand EXCEPT ![d] = h]
  /\ pc'[d] # "idle" => vault'[d] # None
  /\ faults' \subseteq Faults

\* Where a step that was cut short leaves the call.
LEMMA CutShortGoes ==
  ASSUME Typed, NEW d \in Device, NEW ws, CutShort(d, ws)
  PROVE  Goes(d)
<1>1. /\ pc \in [Device -> {"idle", "put", "read"}]
      /\ inHand \in [Device -> Hash]
  BY TypesOf DEF Typed
<1>2. /\ pc' = [pc EXCEPT ![d] = "idle"]
      /\ attempt' = [attempt EXCEPT ![d] = 0]
  BY DEF CutShort, Return, Goto
<1>3. \/ inHand' = inHand
      \/ inHand' = [inHand EXCEPT ![d] = None]
  BY DEF CutShort
<1>4. \E h \in Hash : inHand' = [inHand EXCEPT ![d] = h]
  <2>1. inHand = [inHand EXCEPT ![d] = inHand[d]] /\ inHand[d] \in Hash
    BY <1>1
  <2>2. None \in Hash
    BY DEF Hash
  <2> QED
    BY <1>3, <2>1, <2>2
<1>5. faults' \subseteq Faults
  BY BoundsHold DEF CutShort, Typed
<1> QED
  BY <1>1, <1>2, <1>4, <1>5, BoundsHold DEF Goes, Typed

\* A step that leaves calls and hands as they are.
LEMMA Stays ==
  ASSUME Typed, NEW d \in Device, UNCHANGED <<pc, attempt, inHand, faults>>,
         vault[d] # None => vault'[d] # None
  PROVE  Goes(d)
<1>1. /\ pc \in [Device -> {"idle", "put", "read"}]
      /\ attempt \in [Device -> 0 .. PushAttempts]
      /\ inHand \in [Device -> Hash] /\ faults \subseteq Faults
  BY TypesOf DEF Typed
<1>2. /\ pc' = [pc EXCEPT ![d] = pc[d]]
      /\ attempt' = [attempt EXCEPT ![d] = attempt[d]]
      /\ inHand' = [inHand EXCEPT ![d] = inHand[d]]
  BY <1>1
<1>3. pc'[d] # "idle" => vault'[d] # None
  BY DEF Typed, CallsHaveVaults
<1> QED
  BY <1>1, <1>2, <1>3 DEF Goes

\* A step that moves a call with an open vault, or ends it.
LEMMA Moves ==
  ASSUME Typed, NEW d \in Device, NEW p \in {"idle", "put", "read"},
         NEW n \in 0 .. PushAttempts, Goto(d, p, n), UNCHANGED inHand,
         faults' \subseteq Faults, p # "idle" => vault'[d] # None
  PROVE  Goes(d)
<1>1. /\ pc \in [Device -> {"idle", "put", "read"}]
      /\ inHand \in [Device -> Hash]
  BY TypesOf DEF Typed
<1>2. pc' = [pc EXCEPT ![d] = p] /\ attempt' = [attempt EXCEPT ![d] = n]
  BY DEF Goto
<1>3. inHand' = [inHand EXCEPT ![d] = inHand[d]] /\ inHand[d] \in Hash
  BY <1>1
<1>4. pc'[d] = p
  BY <1>1, <1>2
<1> QED
  BY <1>2, <1>3, <1>4 DEF Goes

\* Steps that store nothing.
LEMMA QuietActs ==
  ASSUME Typed, NEW d \in Device,
         \/ Open(d) \/ ReceiveVault(d) \/ Push(d) \/ PushNothing(d)
         \/ PushConflict(d) \/ PushRefused(d) \/ HostCallFails(d)
         \/ AnswerLost(d) \/ Crash(d) \/ HostGoesBack
  PROVE  Acts(d) /\ (~Torn' => Rests(d))
<1>1. /\ pc \in [Device -> {"idle", "put", "read"}]
      /\ attempt \in [Device -> 0 .. PushAttempts]
      /\ inHand \in [Device -> Hash] /\ vault \in [Device -> Hash]
      /\ store \in [Device -> Stores]
      /\ calls \in 0 .. MaxCalls /\ faults \subseteq Faults
      /\ CurrentRecord \in Hash /\ None \in Hash
      /\ 0 \in 0 .. PushAttempts /\ 1 \in 0 .. PushAttempts
  BY TypesOf, BoundsHold DEF Typed, Hash
<1>2. pc[d] # "idle" => vault[d] # None
  BY DEF Typed, CallsHaveVaults
<1>3. Hash' = Hash /\ Stores' = Stores
      /\ UNCHANGED <<sealed, store>>
  <2>1. UNCHANGED <<sealed, store>>
    BY DEF Open, ReceiveVault, Push, PushNothing, PushConflict, PushRefused,
           HostCallFails, AnswerLost, Crash, HostGoesBack
  <2> QED
    BY <2>1 DEF Hash, Hashes, Stores
<1>4. CASE Open(d)
  <2>1. /\ vault' = [vault EXCEPT ![d] = store[d].container]
        /\ vault[d] = None /\ store[d].container # None
        /\ UNCHANGED <<records, pc, attempt, inHand, calls, faults>>
    BY <1>4 DEF Open
  <2>2. store[d].container \in Hash'
    BY <1>1, <1>3 DEF Stores
  <2>3. store[d] \in Storable(d) /\ store' = [store EXCEPT ![d] = store[d]]
    BY <1>1, <1>3 DEF Storable
  <2>4. Goes(d)
    BY <1>1, <2>1, Stays
  <2>5. Acts(d)
    BY <1>1, <1>3, <2>1, <2>2, <2>3, <2>4 DEF Acts, Goes, Seals
  <2> QED
    BY <1>3, <2>1, <2>5 DEF Rests
<1>5. CASE Crash(d)
  <2>1. /\ vault' = [vault EXCEPT ![d] = None]
        /\ inHand' = [inHand EXCEPT ![d] = None]
        /\ pc' = [pc EXCEPT ![d] = "idle"]
        /\ attempt' = [attempt EXCEPT ![d] = 0]
        /\ calls' = calls /\ faults' \subseteq Faults
    BY <1>5, BoundsHold DEF Crash, Return, Goto, Typed
  <2>2. store[d] \in Storable(d) /\ store' = [store EXCEPT ![d] = store[d]]
    BY <1>1, <1>3 DEF Storable
  <2>3. Torn'
    BY <1>5 DEF Crash, Fault, Torn
  <2>4. pc'[d] = "idle"
    BY <1>1, <2>1
  <2> QED
    BY <1>1, <1>3, <2>1, <2>2, <2>3, <2>4 DEF Acts, Seals
<1>6. ASSUME vault' = vault, Goes(d), calls' \in 0 .. MaxCalls,
             \/ inHand' = inHand
             \/ /\ CurrentRecord # None
                /\ inHand' = [inHand EXCEPT ![d] = CurrentRecord]
                /\ UNCHANGED records
      PROVE  Acts(d) /\ Rests(d)
  BY <1>3, <1>6, Unwritten DEF Acts, Goes, Rests
<1>7. CASE ReceiveVault(d)
  <2>1. /\ inHand' = [inHand EXCEPT ![d] = CurrentRecord]
        /\ CurrentRecord # None
        /\ UNCHANGED <<records, vault, pc, attempt, faults>>
        /\ calls' \in 0 .. MaxCalls
    BY <1>1, <1>7, BoundsHold DEF ReceiveVault, Typed
  <2>2. /\ pc' = [pc EXCEPT ![d] = pc[d]]
        /\ attempt' = [attempt EXCEPT ![d] = attempt[d]]
        /\ pc'[d] # "idle" => vault'[d] # None
    BY <1>1, <1>2, <2>1
  <2>3. Goes(d)
    BY <1>1, <2>1, <2>2 DEF Goes
  <2> QED
    BY <1>6, <2>1, <2>3
<1>8. CASE Push(d)
  <2>1. Goto(d, "put", 1) /\ vault[d] # None
        /\ UNCHANGED <<vault, inHand, calls, faults>>
    BY <1>8 DEF Push, IsOpen
  <2>2. Goes(d)
    BY <1>1, <2>1, Moves
  <2> QED
    BY <1>1, <1>6, <2>1, <2>2
<1>9. CASE PushConflict(d)
  <2>1. /\ Goto(d, "read", attempt[d]) /\ vault[d] # None
        /\ UNCHANGED <<vault, inHand, calls, faults>>
    BY <1>2, <1>9 DEF PushConflict, Offering
  <2>2. Goes(d)
    BY <1>1, <2>1, Moves
  <2> QED
    BY <1>1, <1>6, <2>1, <2>2
<1>10. CASE \/ PushNothing(d) \/ PushRefused(d)
             \/ HostCallFails(d) \/ AnswerLost(d)
  <2>1. Goto(d, "idle", 0) /\ UNCHANGED <<vault, inHand, calls>>
        /\ faults' \subseteq Faults
    BY <1>1, <1>10, BoundsHold
       DEF PushNothing, PushRefused, HostCallFails, AnswerLost, Return, Typed
  <2>2. Goes(d)
    BY <1>1, <2>1, Moves
  <2> QED
    BY <1>1, <1>6, <2>1, <2>2
<1>11. CASE HostGoesBack
  <2>1. UNCHANGED <<vault, pc, attempt, inHand, calls>>
        /\ faults' \subseteq Faults
    BY <1>11, BoundsHold DEF HostGoesBack, Typed
  <2>2. Goto(d, pc[d], attempt[d])
    BY <1>1, <2>1 DEF Goto
  <2>3. Goes(d)
    BY <1>1, <1>2, <2>1, <2>2, Moves
  <2> QED
    BY <1>1, <1>6, <2>1, <2>3
<1> QED
  BY <1>4, <1>5, <1>7, <1>8, <1>9, <1>10, <1>11

-----------------------------------------------------------------------------
(* Steps that write.                                                       *)

\* A step whose last write is s.
LEMMA WrittenLast ==
  ASSUME Typed, NEW d \in Device, Seals,
         NEW pre \in Seq(Storable(d)), NEW s \in Storable(d), NEW h \in Hash',
         Turn(d, pre \o <<s>>, h)
  PROVE  /\ \E t \in Storable(d) : store' = [store EXCEPT ![d] = t]
         /\ \E v \in Hash' : vault' = [vault EXCEPT ![d] = v]
         /\ ~Torn' => /\ store' = [store EXCEPT ![d] = s]
                      /\ vault' = [vault EXCEPT ![d] = h]
                      /\ UNCHANGED faults
<1> DEFINE ws == pre \o <<s>>
<1>1. ws \in Seq(Storable(d)) /\ Len(ws) > 0 /\ ws[Len(ws)] = s
  BY LastWrite
<1>2. Turn(d, ws, h)
  OBVIOUS
<1> HIDE DEF ws
<1> QED
  BY <1>1, <1>2, Written

\* What may be stored, may be stored with another container.
LEMMA Persisted ==
  ASSUME NEW d \in Device, NEW s \in Storable(d), NEW h \in Hash'
  PROVE  /\ [s EXCEPT !.container = h] \in Storable(d)
         /\ [s EXCEPT !.container = h].container = h
         /\ [s EXCEPT !.container = h].slot = s.slot
         /\ [s EXCEPT !.container = h].synced = s.synced
         /\ [s EXCEPT !.container = h].base = s.base
<1>1. s \in Stores'
  BY DEF Storable
<1>2. [s EXCEPT !.container = h] \in Stores'
  BY <1>1 DEF Stores
<1>3. /\ [s EXCEPT !.container = h].container = h
      /\ [s EXCEPT !.container = h].slot = s.slot
      /\ [s EXCEPT !.container = h].synced = s.synced
      /\ [s EXCEPT !.container = h].base = s.base
  BY <1>1 DEF Stores
<1> QED
  BY <1>2, <1>3 DEF Storable

\* What d has stored it may store.
LEMMA StoredIsStorable ==
  ASSUME Typed, NEW d \in Device, Seals
  PROVE  store[d] \in Storable(d) /\ store[d] \in Stores
<1>1. store[d] \in Stores /\ Hash \subseteq Hash'
  BY TypesOf, SealsKeep DEF Typed
<1> QED
  BY <1>1 DEF Stores, Storable

\* An edit of the open vault: n generations are sealed and the last is stored.
LEMMA CommitActs ==
  ASSUME Typed, NEW d \in Device, NEW op, NEW g \in Sealable,
         NEW n \in 1 .. 3,
         NEW s, s = store[d] \/ s = [store[d] EXCEPT !.pinned = NewHash],
         Commit(d, op, g, n, s),
         Changes(vault[d]) \subseteq g.changes
  PROVE  Acts(d) /\ (~Torn' => Saves(d))
<1> DEFINE new == [g EXCEPT !.gen = @ + n, !.prev = Parent(vault[d], n)]
<1>1. /\ vault[d] # None /\ vault[d] \in Hashes /\ vault[d] \in Hash
      /\ sealed' = Append(sealed, new) /\ calls' \in 0 .. MaxCalls
      /\ UNCHANGED records
  BY TypesOf, BoundsHold DEF Commit, IsOpen, Typed
<1>2. /\ new \in Sealable /\ new.changes = g.changes /\ new.slots = g.slots
      /\ new.prev \in {Unstored, vault[d]}
  <2> HIDE DEF NewHash, Hashes
  <2>1. Parent(vault[d], n) \in {Unstored, vault[d]}
    BY DEF Parent
  <2>2. /\ vault[d] \in Nat /\ g.gen + n \in Nat \ {0}
    BY <1>1 DEF Hash, Hashes, Generation, Sealable, None
  <2>3. Parent(vault[d], n) \in Nat \cup {Unstored}
    BY <2>1, <2>2
  <2>4. new \in Generation /\ new.msk = g.msk
    BY <2>2, <2>3 DEF Generation, Sealable
  <2> QED
    BY <2>1, <2>2, <2>3, <2>4 DEF Generation, Sealable
<1> HIDE DEF new
<1>3. Seals
  BY <1>1, <1>2 DEF Seals
<1>4. /\ NewHash \in Hash' /\ NewHash # None
  BY <1>1, <1>2, SealedIsNew, TypesOf DEF Typed, Sealable
<1>5. /\ s \in Storable(d) /\ s.slot = store[d].slot
      /\ s.synced = store[d].synced
  <2>1. store[d] \in Storable(d) /\ store[d] \in Stores
    BY <1>3, StoredIsStorable
  <2>2. CASE s = [store[d] EXCEPT !.pinned = NewHash]
    <3>1. store[d] \in Stores'
      BY <2>1 DEF Storable
    <3>2. s \in Stores' /\ s.base = store[d].base
      BY <1>4, <2>2, <3>1 DEF Stores
    <3>3. s.slot = store[d].slot /\ s.synced = store[d].synced
      BY <2>1, <2>2 DEF Stores
    <3> QED
      BY <3>2, <3>3 DEF Storable
  <2> QED
    BY <2>1, <2>2
<1> DEFINE pre  == IF s = store[d] THEN <<>> ELSE <<s>>
           last == [s EXCEPT !.container = NewHash]
<1>6. pre \in Seq(Storable(d))
  BY <1>5
<1>7. /\ last \in Storable(d) /\ last.container = NewHash
      /\ last.slot = store[d].slot /\ last.synced = store[d].synced
  BY <1>4, <1>5, Persisted
<1>8. \/ Wrote(d, pre \o <<last>>, NewHash)
           /\ UNCHANGED <<pc, attempt, inHand, faults>>
      \/ CutShort(d, pre \o <<last>>)
  BY DEF Commit, Persisting
<1> HIDE DEF pre, last
<1>9. /\ \E t \in Storable(d) : store' = [store EXCEPT ![d] = t]
      /\ \E v \in Hash' : vault' = [vault EXCEPT ![d] = v]
      /\ ~Torn' => /\ store' = [store EXCEPT ![d] = last]
                   /\ vault' = [vault EXCEPT ![d] = NewHash]
                   /\ UNCHANGED faults
  BY <1>3, <1>4, <1>6, <1>7, <1>8, WrittenLast DEF Turn
<1>10. Goes(d)
  <2>1. CASE CutShort(d, pre \o <<last>>)
    BY <2>1, CutShortGoes
  <2>2. CASE Wrote(d, pre \o <<last>>, NewHash)
               /\ UNCHANGED <<pc, attempt, inHand, faults>>
    <3>1. vault'[d] = NewHash
      BY <2>2, TypesOf DEF Wrote, Typed
    <3> QED
      BY <1>4, <2>2, <3>1, Stays
  <2> QED
    BY <1>8, <2>1, <2>2
<1>11. Acts(d)
  BY <1>1, <1>3, <1>9, <1>10 DEF Acts, Goes
<1>12. ASSUME ~Torn' PROVE Saves(d)
  <2>1. inHand' = inHand
    BY <1>8, <1>9, <1>12 DEF CutShort, Fault, Torn
  <2>2. \E t \in Stores' : /\ store' = [store EXCEPT ![d] = t]
                           /\ t.container = NewHash
                           /\ t.slot = store[d].slot
                           /\ t.synced = store[d].synced
    BY <1>7, <1>9, <1>12 DEF Storable
  <2> QED
    BY <1>1, <1>2, <1>9, <1>12, <2>1, <2>2 DEF Saves, Sealable
<1> QED
  BY <1>11, <1>12

\* The open generation with other changes, slots or another MSK.
LEMMA EditedType ==
  ASSUME Typed, NEW d \in Device, vault[d] # None,
         NEW C \in SUBSET Change, NEW S \in SUBSET Nat, NEW b \in BOOLEAN
  PROVE  LET g == sealed[vault[d]]
             m == [made |-> NewHash, hybrid |-> b]
         IN /\ vault[d] \in Hashes /\ g \in Generation
            /\ Changes(vault[d]) = g.changes /\ NewHash \in Nat
            /\ [g EXCEPT !.changes = C] \in Sealable
            /\ [g EXCEPT !.slots = S] \in Sealable
            /\ [g EXCEPT !.msk = m] \in Sealable
            /\ [g EXCEPT !.slots = S, !.msk = m] \in Sealable
<1>1. /\ vault[d] \in Hashes /\ sealed[vault[d]] \in Generation
      /\ sealed[vault[d]].msk.made \in Hashes
  BY TypesOf DEF Typed, MsksAreMade
<1>2. NewHash \in Nat
  <2>1. sealed \in Seq(Generation)
    BY TypesOf DEF Typed
  <2> QED
    BY <2>1 DEF NewHash
<1>3. Changes(vault[d]) = sealed[vault[d]].changes
  BY DEF Changes
<1> DEFINE g == sealed[vault[d]]
           m == [made |-> NewHash, hybrid |-> b]
<1>4. g \in Generation /\ g.msk.made \in Hashes
  BY <1>1
<1>5. m \in Msk /\ m.made = NewHash
  BY <1>2 DEF Msk
<1> HIDE DEF g, m, NewHash, Hashes
<1>6. /\ [g EXCEPT !.changes = C] \in Generation
      /\ [g EXCEPT !.changes = C].msk = g.msk
      /\ [g EXCEPT !.slots = S] \in Generation
      /\ [g EXCEPT !.slots = S].msk = g.msk
  BY <1>4 DEF Generation
<1>7. /\ [g EXCEPT !.msk = m] \in Generation
      /\ [g EXCEPT !.msk = m].msk = m
      /\ [g EXCEPT !.slots = S, !.msk = m] \in Generation
      /\ [g EXCEPT !.slots = S, !.msk = m].msk = m
  BY <1>4, <1>5 DEF Generation
<1>8. /\ [g EXCEPT !.changes = C] \in Sealable
      /\ [g EXCEPT !.slots = S] \in Sealable
  BY <1>4, <1>6 DEF Sealable
<1>9. /\ [g EXCEPT !.msk = m] \in Sealable
      /\ [g EXCEPT !.slots = S, !.msk = m] \in Sealable
  BY <1>5, <1>7 DEF Sealable
<1> QED
  BY <1>1, <1>2, <1>3, <1>8, <1>9 DEF g, m

\* What the code's edits are.
LEMMA EditActs ==
  ASSUME Typed, NEW d \in Device,
         Edits(d)
  PROVE  Acts(d) /\ (~Torn' => Saves(d))
<1> DEFINE g == sealed[vault[d]]
<1>1. vault[d] # None
  BY DEF Edits, Edit, RemoveDevice, RevokeDevice, RotateVekToThisDevice,
         RotateToHybridMsk, IsOpen
<1>2. {} \in SUBSET Change /\ {} \in SUBSET Nat /\ TRUE \in BOOLEAN
  OBVIOUS
<1>3. /\ g \in Generation /\ Changes(vault[d]) = g.changes /\ NewHash \in Nat
      /\ g.changes \subseteq Change /\ g.slots \subseteq Nat
      /\ store[d].slot \in Nat
  <2>1. g \in Generation /\ Changes(vault[d]) = g.changes /\ NewHash \in Nat
    BY <1>1, <1>2, EditedType
  <2>2. g.changes \subseteq Change /\ g.slots \subseteq Nat
    BY <2>1 DEF Generation
  <2>3. store[d].slot \in Hash /\ Hash \subseteq Nat
    BY TypesOf DEF Typed, Stores, Hash, Hashes, None
  <2> QED
    BY <2>1, <2>2, <2>3
<1>5. ASSUME NEW c \in Change, NEW n \in 1 .. 2, Edit(d, c, n)
      PROVE  Acts(d) /\ (~Torn' => Saves(d))
  <2> DEFINE e == [g EXCEPT !.changes = @ \cup {c}]
  <2>1. Commit(d, "edit", e, n, store[d])
    BY <1>5 DEF Edit
  <2>2. e \in Sealable
    BY <1>1, <1>2, <1>3, EditedType
  <2>3. e.changes = g.changes \cup {c} /\ e.slots = g.slots
    BY <1>3 DEF Generation
  <2> HIDE DEF e, g
  <2>4. n \in 1 .. 3
    OBVIOUS
  <2> QED
    BY <1>3, <2>1, <2>2, <2>3, <2>4, CommitActs
<1>6. ASSUME NEW slot \in Hashes, RemoveDevice(d, slot)
      PROVE  Acts(d) /\ (~Torn' => Saves(d))
  <2> DEFINE e == [g EXCEPT !.slots = @ \ {slot}]
  <2>1. Commit(d, "remove", e, 2, store[d])
    BY <1>6 DEF RemoveDevice
  <2>2. e \in Sealable
    BY <1>1, <1>2, <1>3, EditedType
  <2>3. e.changes = g.changes /\ e.slots = g.slots \ {slot}
    BY <1>3 DEF Generation
  <2> HIDE DEF e, g
  <2>4. 2 \in 1 .. 3
    OBVIOUS
  <2> QED
    BY <1>3, <2>1, <2>2, <2>3, <2>4, CommitActs
<1>7. ASSUME NEW slot \in Hashes, RevokeDevice(d, slot)
      PROVE  Acts(d) /\ (~Torn' => Saves(d))
  <2> DEFINE m == [made |-> NewHash, hybrid |-> FALSE]
             e == [g EXCEPT !.slots = {store[d].slot}, !.msk = m]
             t == [store[d] EXCEPT !.pinned = NewHash]
  <2>1. Commit(d, "revoke", e, 3, t)
    BY <1>7 DEF RevokeDevice
  <2>2. {store[d].slot} \in SUBSET Nat /\ FALSE \in BOOLEAN
    BY <1>3
  <2>3. e \in Sealable
    BY <1>1, <1>2, <1>3, <2>2, EditedType
  <2>4. e.changes = g.changes /\ e.slots = {store[d].slot}
    BY <1>3 DEF Generation
  <2>5. t = [store[d] EXCEPT !.pinned = NewHash]
    OBVIOUS
  <2> HIDE DEF e, g, t
  <2>6. 3 \in 1 .. 3
    OBVIOUS
  <2> QED
    BY <1>3, <2>1, <2>3, <2>4, <2>5, <2>6, CommitActs
<1>8. CASE RotateVekToThisDevice(d)
  <2> DEFINE e == [g EXCEPT !.slots = {store[d].slot}]
  <2>1. Commit(d, "rotate_vek", e, 2, store[d])
    BY <1>8 DEF RotateVekToThisDevice
  <2>2. {store[d].slot} \in SUBSET Nat
    BY <1>3
  <2>3. e \in Sealable
    BY <1>1, <1>2, <1>3, <2>2, EditedType
  <2>4. e.changes = g.changes /\ e.slots = {store[d].slot}
    BY <1>3 DEF Generation
  <2> HIDE DEF e, g
  <2>5. 2 \in 1 .. 3
    OBVIOUS
  <2> QED
    BY <1>3, <2>1, <2>3, <2>4, <2>5, CommitActs
<1>9. CASE RotateToHybridMsk(d)
  <2> DEFINE m == [made |-> NewHash, hybrid |-> TRUE]
             e == [g EXCEPT !.msk = m]
  <2>1. Commit(d, "hybrid", e, 1, store[d])
    BY <1>9 DEF RotateToHybridMsk
  <2>2. e \in Sealable
    BY <1>1, <1>2, EditedType
  <2>3. e.changes = g.changes /\ e.slots = g.slots
    BY <1>3 DEF Generation
  <2> HIDE DEF e, g
  <2>4. 1 \in 1 .. 3
    OBVIOUS
  <2> QED
    BY <1>3, <2>1, <2>2, <2>3, <2>4, CommitActs
<1> QED
  BY <1>5, <1>6, <1>7, <1>8, <1>9 DEF Edits

\* clear() leaves nothing.
LEMMA ClearActs ==
  ASSUME Typed, NEW d \in Device, Clear(d)
  PROVE  Acts(d) /\ (~Torn' => Forgets(d))
<1> DEFINE s  == store[d]
           ws == <<[s EXCEPT !.container = None],
                   [s EXCEPT !.container = None, !.slot = None],
                   [Empty EXCEPT !.base = s.base, !.pinned = s.pinned],
                   [Empty EXCEPT !.pinned = s.pinned],
                   Empty>>
<1>1. /\ UNCHANGED <<sealed, records>> /\ calls' \in 0 .. MaxCalls
      /\ pc[d] = "idle"
  BY BoundsHold DEF Clear, Typed
<1>2. /\ Seals /\ None \in Hash' /\ None \in Hash
  BY <1>1 DEF Seals, Hash
<1>3. s \in Storable(d) /\ s \in Stores'
  BY <1>2, StoredIsStorable DEF Storable
<1>4. /\ Gen(None)' = 0 /\ Len(records') \in Nat
  BY <1>1, TypesOf DEF Gen, Typed
<1>5. /\ [s EXCEPT !.container = None] \in Storable(d)
      /\ [s EXCEPT !.container = None, !.slot = None] \in Storable(d)
  BY <1>2, <1>3 DEF Storable, Stores
<1>6. [Empty EXCEPT !.base = s.base, !.pinned = s.pinned] \in Storable(d)
  BY <1>2, <1>3 DEF Storable, Stores, Empty
<1>7. /\ [Empty EXCEPT !.pinned = s.pinned] \in Storable(d)
      /\ Empty \in Storable(d)
  <2>1. /\ [Empty EXCEPT !.pinned = s.pinned] \in Stores'
        /\ [Empty EXCEPT !.pinned = s.pinned].base = None
        /\ Empty \in Stores' /\ Empty.base = None
    BY <1>2, <1>3 DEF Stores, Empty
  <2>2. Gen(None)' <= Len(records')
    BY <1>4
  <2> QED
    BY <2>1, <2>2 DEF Storable
<1>8. ws \in Seq(Storable(d)) /\ Len(ws) > 0 /\ ws[Len(ws)] = Empty
  BY <1>5, <1>6, <1>7
<1>9. \/ Wrote(d, ws, None) /\ UNCHANGED <<pc, attempt, inHand, faults>>
      \/ CutShort(d, ws)
  BY DEF Clear
<1> HIDE DEF ws
<1>10. /\ \E t \in Storable(d) : store' = [store EXCEPT ![d] = t]
       /\ \E v \in Hash' : vault' = [vault EXCEPT ![d] = v]
       /\ ~Torn' => /\ store' = [store EXCEPT ![d] = Empty]
                    /\ vault' = [vault EXCEPT ![d] = None]
                    /\ UNCHANGED faults
  BY <1>2, <1>8, <1>9, Written DEF Turn
<1>11. Goes(d)
  <2>1. CASE CutShort(d, ws)
    BY <2>1, CutShortGoes
  <2>2. CASE UNCHANGED <<pc, attempt, inHand, faults>>
    <3>1. Goto(d, "idle", attempt[d])
      BY <1>1, <2>2, TypesOf DEF Goto, Typed
    <3>2. attempt[d] \in 0 .. PushAttempts /\ faults \subseteq Faults
      BY TypesOf DEF Typed
    <3> QED
      BY <2>2, <3>1, <3>2, Moves
  <2> QED
    BY <1>9, <2>1, <2>2
<1>12. Acts(d)
  BY <1>1, <1>2, <1>10, <1>11 DEF Acts, Goes
<1>13. ~Torn' => Forgets(d)
  BY <1>1, <1>9, <1>10 DEF Forgets, CutShort, Fault, Torn
<1> QED
  BY <1>12, <1>13

\* A write that was cut short is known.
LEMMA CutShortTears ==
  ASSUME NEW d, NEW ws, CutShort(d, ws)
  PROVE  Torn'
BY DEF CutShort, Fault, Torn

\* adopt() stores a child of the vault in hand, with a slot for d.
LEMMA AdoptActs ==
  ASSUME Typed, NEW d \in Device, NEW storedOnHost \in BOOLEAN,
         Adopt(d, storedOnHost)
  PROVE  Acts(d) /\ (~Torn' => Joins(d))
<1> DEFINE old     == sealed[inHand[d]]
           new     == [old EXCEPT !.gen = @ + 1, !.prev = inHand[d],
                                  !.slots = @ \cup {NewHash}]
           s       == store[d]
           known   == IF storedOnHost THEN inHand[d] ELSE None
           keyed   == [s EXCEPT !.slot = None]
           slotted == [s EXCEPT !.slot = NewHash]
           noted   == [slotted EXCEPT !.synced = known]
           last    == [noted EXCEPT !.container = NewHash]
           pre     == <<keyed, slotted, noted>>
<1>1. /\ inHand[d] # None /\ inHand[d] \in Hashes /\ inHand[d] \in Hash
      /\ sealed' = Append(sealed, new)
      /\ UNCHANGED <<records, calls>> /\ pc[d] = "idle"
      /\ calls \in 0 .. MaxCalls
      /\ pc \in [Device -> {"idle", "put", "read"}]
      /\ inHand \in [Device -> Hash]
  BY TypesOf DEF Adopt, Typed
<1>2. /\ new \in Sealable /\ new.prev = inHand[d]
      /\ new.changes = Changes(inHand[d]) /\ NewHash \in new.slots
  <2>1. old \in Generation /\ inHand[d] \in Nat /\ NewHash \in Nat
    <3>1. sealed \in Seq(Generation) /\ old \in Generation
      BY <1>1, TypesOf DEF Typed
    <3> QED
      BY <1>1, <3>1 DEF Hashes, NewHash
  <2>2. old.changes = Changes(inHand[d]) /\ old.msk.made \in Hashes
    BY <1>1 DEF Changes, Typed, MsksAreMade
  <2> HIDE DEF old
  <2> HIDE DEF NewHash, Hashes
  <2>3. /\ old.gen + 1 \in Nat \ {0} /\ old.slots \cup {NewHash} \subseteq Nat
        /\ inHand[d] \in Nat \cup {Unstored}
    BY <2>1 DEF Generation
  <2>4. new \in Generation
    BY <2>1, <2>3 DEF Generation
  <2>5. /\ new.prev = inHand[d] /\ new.changes = old.changes
        /\ new.msk = old.msk
        /\ NewHash \in new.slots
    BY <2>1 DEF Generation
  <2> QED
    BY <2>2, <2>4, <2>5 DEF Sealable
<1> HIDE DEF new
<1>3. Seals
  BY <1>1, <1>2 DEF Seals
<1>4. /\ NewHash \in Hash' /\ NewHash # None /\ Hash \subseteq Hash'
      /\ None \in Hash'
  BY <1>1, <1>2, <1>3, SealedIsNew, SealsKeep, TypesOf
     DEF Typed, Hash, Sealable
<1>5. s \in Storable(d) /\ s \in Stores'
  BY <1>3, StoredIsStorable DEF Storable
<1>6. known \in Hash' /\ known \in {None, inHand[d]}
  BY <1>1, <1>4
<1> HIDE DEF known, s
<1>7. keyed \in Storable(d)
  BY <1>4, <1>5 DEF Storable, Stores
<1>8. slotted \in Storable(d) /\ slotted.slot = NewHash
  BY <1>4, <1>5 DEF Storable, Stores
<1>9. /\ noted \in Storable(d) /\ noted.slot = NewHash
      /\ noted.synced = known
  <2> HIDE DEF slotted
  <2> QED
    BY <1>6, <1>8 DEF Storable, Stores
<1> HIDE DEF keyed, slotted, noted
<1>10. pre \in Seq(Storable(d))
  BY <1>7, <1>8, <1>9
<1>11. /\ last \in Storable(d) /\ last.container = NewHash
       /\ last.slot = NewHash /\ last.synced = known
  BY <1>4, <1>9, Persisted
<1>12. \/ /\ Wrote(d, pre \o <<last>>, NewHash)
          /\ inHand' = [inHand EXCEPT ![d] = None]
          /\ UNCHANGED <<pc, attempt, faults>>
       \/ CutShort(d, pre \o <<last>>)
  BY DEF Adopt, Persisting, keyed, slotted, noted, known, s
<1> HIDE DEF pre, last
<1>13. /\ \E t \in Storable(d) : store' = [store EXCEPT ![d] = t]
       /\ \E v \in Hash' : vault' = [vault EXCEPT ![d] = v]
       /\ ~Torn' => /\ store' = [store EXCEPT ![d] = last]
                    /\ vault' = [vault EXCEPT ![d] = NewHash]
                    /\ UNCHANGED faults
  BY <1>3, <1>4, <1>10, <1>11, <1>12, WrittenLast DEF Turn
<1>14. Goes(d)
  <2>1. CASE CutShort(d, pre \o <<last>>)
    BY <2>1, CutShortGoes
  <2>2. CASE /\ inHand' = [inHand EXCEPT ![d] = None]
             /\ UNCHANGED <<pc, attempt, faults>>
    <3>1. /\ pc' = [pc EXCEPT ![d] = "idle"] /\ pc'[d] = "idle"
      BY <1>1, <2>2
    <3>2. attempt' = [attempt EXCEPT ![d] = attempt[d]]
          /\ attempt[d] \in 0 .. PushAttempts /\ faults' \subseteq Faults
      BY <2>2, TypesOf DEF Typed
    <3>3. None \in Hash
      BY DEF Hash
    <3> QED
      BY <2>2, <3>1, <3>2, <3>3 DEF Goes
  <2> QED
    BY <1>12, <2>1, <2>2
<1>15. Acts(d)
  BY <1>1, <1>3, <1>13, <1>14 DEF Acts, Goes
<1>16. ASSUME ~Torn' PROVE Joins(d)
  <2>1. inHand' = [inHand EXCEPT ![d] = None]
    BY <1>12, <1>16, CutShortTears
  <2>2. \E t \in Stores' : /\ store' = [store EXCEPT ![d] = t]
                           /\ t.container = NewHash
                           /\ t.slot = NewHash
                           /\ t.synced \in {None, inHand[d]}
    BY <1>6, <1>11, <1>13, <1>16 DEF Storable
  <2> QED
    BY <1>1, <1>2, <1>13, <1>16, <2>1, <2>2 DEF Joins, Sealable
<1> QED
  BY <1>15, <1>16

-----------------------------------------------------------------------------
(* pull.                                                                   *)

\* Where a pull leaves the call.
LEMMA PullsGo ==
  ASSUME Typed, NEW d \in Device, NEW sync \in BOOLEAN, NEW ws, NEW h,
         IsOpen(d), Pulls(d, sync, ws, h), h # None
  PROVE  /\ Goes(d)
         /\ calls' \in 0 .. MaxCalls
         /\ UNCHANGED records
         /\ Turn(d, ws, h)
         /\ ~Torn' => UNCHANGED inHand
<1>1. UNCHANGED records /\ Turn(d, ws, h)
  BY DEF Pulls, Turn
<1>2. calls' \in 0 .. MaxCalls
  <2>1. calls \in 0 .. MaxCalls
    BY TypesOf DEF Typed
  <2> QED
    BY <2>1, BoundsHold DEF Pulls, Typed
<1>3. CASE CutShort(d, ws)
  BY <1>1, <1>2, <1>3, CutShortGoes, CutShortTears
<1>4. CASE /\ Wrote(d, ws, h)
           /\ UNCHANGED <<inHand, faults>>
           /\ IF sync THEN Goto(d, "put", 1) ELSE UNCHANGED <<pc, attempt>>
  <2>1. vault'[d] = h /\ faults' \subseteq Faults
    BY <1>4, TypesOf DEF Wrote, Typed
  <2>2. 1 \in 0 .. PushAttempts
    BY BoundsHold DEF Typed
  <2>3. Goes(d)
    <3>1. CASE Goto(d, "put", 1)
      BY <1>4, <2>1, <2>2, <3>1, Moves
    <3>2. CASE UNCHANGED <<pc, attempt>>
      BY <1>4, <2>1, <3>2, Stays
    <3> QED
      BY <1>4, <3>1, <3>2
  <2> QED
    BY <1>1, <1>2, <1>4, <2>3
<1> QED
  BY <1>3, <1>4 DEF Pulls

\* A pull that finds the open generation.
LEMMA PullSameActs ==
  ASSUME Typed, NEW d \in Device, NEW sync \in BOOLEAN, PullSame(d, sync)
  PROVE  Acts(d) /\ (~Torn' => Notes(d))
<1> DEFINE s  == store[d]
           t  == [s EXCEPT !.synced = CurrentRecord]
           ws == <<t>>
<1>1. /\ vault[d] # None /\ CurrentRecord = vault[d] /\ vault[d] \in Hash
      /\ UNCHANGED sealed /\ IsOpen(d)
      /\ Pulls(d, sync, ws, vault[d])
      /\ records \in Seq(Hashes)
  BY TypesOf DEF PullSame, IsOpen, Typed
<1>2. Seals /\ Hash' = Hash
  BY <1>1 DEF Seals, Hash, Hashes
<1>3. s \in Storable(d) /\ s \in Stores'
  BY <1>2, StoredIsStorable DEF Storable
<1>4. /\ t \in Storable(d) /\ t.container = s.container /\ t.slot = s.slot
      /\ t.synced = vault[d]
  BY <1>1, <1>2, <1>3 DEF Storable, Stores
<1> HIDE DEF t
<1>5. ws \in Seq(Storable(d)) /\ Len(ws) > 0 /\ ws[Len(ws)] = t
  BY <1>4
<1> HIDE DEF ws
<1>6. /\ Goes(d) /\ calls' \in 0 .. MaxCalls /\ UNCHANGED records
      /\ Turn(d, ws, vault[d]) /\ (~Torn' => UNCHANGED inHand)
  BY <1>1, PullsGo
<1>7. /\ \E u \in Storable(d) : store' = [store EXCEPT ![d] = u]
      /\ \E v \in Hash' : vault' = [vault EXCEPT ![d] = v]
      /\ ~Torn' => /\ store' = [store EXCEPT ![d] = t]
                   /\ vault' = [vault EXCEPT ![d] = vault[d]]
                   /\ UNCHANGED faults
  BY <1>1, <1>2, <1>5, <1>6, Written
<1>8. Acts(d)
  BY <1>2, <1>6, <1>7 DEF Acts, Goes
<1>9. ASSUME ~Torn' PROVE Notes(d)
  <2>1. \E n \in DOMAIN records' : records'[n] = vault[d]
    <3>1. records # <<>> /\ records[Len(records)] = vault[d]
      BY <1>1 DEF CurrentRecord
    <3>2. Len(records) \in DOMAIN records
      BY <1>1, <3>1
    <3> QED
      BY <1>6, <3>1, <3>2
  <2>2. vault' = vault
    BY <1>7, <1>9, TypesOf DEF Typed
  <2>3. \E u \in Stores' : /\ store' = [store EXCEPT ![d] = u]
                           /\ u.container = store[d].container
                           /\ u.slot = store[d].slot
                           /\ u.synced = vault[d]
    BY <1>4, <1>7, <1>9 DEF Storable
  <2> QED
    BY <1>1, <1>6, <1>9, <2>1, <2>2, <2>3 DEF Notes
<1> QED
  BY <1>8, <1>9

\* The number of a generation the host has.
LEMMA RecordNumber ==
  ASSUME Typed, CurrentRecord # None
  PROVE  /\ CurrentRecord \in Hashes /\ records # <<>>
         /\ Len(records) \in DOMAIN records
         /\ records[Len(records)] = CurrentRecord
         /\ Gen(CurrentRecord) = Len(records)
<1>1. records \in Seq(Hashes) /\ CurrentRecord \in Hashes
  BY TypesOf DEF Typed
<1>2. records # <<>> /\ records[Len(records)] = CurrentRecord
  BY DEF CurrentRecord
<1>3. Len(records) \in DOMAIN records
  BY <1>1, <1>2
<1>4. sealed[records[Len(records)]].gen = Len(records)
  BY <1>3 DEF Typed, Numbered
<1> QED
  BY <1>1, <1>2, <1>3, <1>4 DEF Gen

\* _markSynced(h) writes what may be stored, for a generation the host has.
LEMMA MarkingIsStorable ==
  ASSUME Typed, NEW d \in Device, Seals, UNCHANGED sealed,
         NEW h \in Hashes, Gen(h) <= Len(records')
  PROVE  LET ws == Marking(store[d], h) IN
         /\ ws \in Seq(Storable(d)) /\ Len(ws) = 3
         /\ ws[3] \in Storable(d)
         /\ ws[3].container = store[d].container
         /\ ws[3].slot = store[d].slot /\ ws[3].synced = h
<1> DEFINE s == store[d]
           a == [s EXCEPT !.synced = h]
           b == [s EXCEPT !.synced = h, !.base = h]
           c == [s EXCEPT !.synced = h, !.base = h, !.pinned = MskOf(h)]
<1>1. /\ s \in Storable(d) /\ s \in Stores'
  BY StoredIsStorable DEF Storable
<1>2. /\ h \in Hash' /\ MskOf(h) \in Hash'
      /\ Gen(h)' <= Len(records')
  BY DEF Typed, MsksAreMade, MskOf, Hash, Hashes, Gen
<1> HIDE DEF s
<1>3. a \in Stores' /\ a.base = s.base
  BY <1>1, <1>2 DEF Stores
<1>4. b \in Stores' /\ b.base = h
  BY <1>1, <1>2 DEF Stores
<1>5. /\ c \in Stores' /\ c.base = h /\ c.synced = h
      /\ c.container = s.container /\ c.slot = s.slot
  BY <1>1, <1>2 DEF Stores
<1>6. a \in Storable(d) /\ b \in Storable(d) /\ c \in Storable(d)
  BY <1>2, <1>3, <1>4, <1>5 DEF Storable, s
<1> HIDE DEF a, b, c
<1>7. /\ <<a, b, c>> \in Seq(Storable(d)) /\ Len(<<a, b, c>>) = 3
      /\ <<a, b, c>>[3] = c
  BY <1>6
<1>8. Marking(store[d], h) = <<a, b, c>>
  BY DEF Marking, s, a, b, c
<1> QED
  BY <1>5, <1>6, <1>7, <1>8 DEF s

\* A pull that takes the head over.
LEMMA PullForwardActs ==
  ASSUME Typed, NEW d \in Device, NEW sync \in BOOLEAN, PullForward(d, sync)
  PROVE  Acts(d) /\ (~Torn' => Takes(d))
<1> DEFINE h    == CurrentRecord
           pre  == Marking(store[d], h)
           last == [pre[3] EXCEPT !.container = h]
<1>1. /\ vault[d] # None /\ h # None /\ h \in Hashes /\ h \in Hash
      /\ UNCHANGED sealed /\ IsOpen(d)
      /\ Accepts(d, h) /\ store[d].synced = vault[d]
      /\ Pulls(d, sync, pre \o <<last>>, h)
  BY TypesOf, RecordNumber DEF PullForward, IsOpen, Typed, Persisting
<1>2. Seals /\ Hash' = Hash
  BY <1>1 DEF Seals, Hash, Hashes
<1>3. /\ Goes(d) /\ calls' \in 0 .. MaxCalls /\ UNCHANGED records
      /\ Turn(d, pre \o <<last>>, h) /\ (~Torn' => UNCHANGED inHand)
  BY <1>1, PullsGo
<1>4. Gen(h) <= Len(records')
  <2>1. Gen(h) = Len(records) /\ Len(records) \in Nat
    BY <1>1, RecordNumber, TypesOf DEF Typed
  <2> QED
    BY <1>3, <2>1
<1>5. /\ pre \in Seq(Storable(d)) /\ pre[3] \in Storable(d)
      /\ pre[3].container = store[d].container
      /\ pre[3].slot = store[d].slot /\ pre[3].synced = h
  BY <1>1, <1>2, <1>4, MarkingIsStorable
<1>6. /\ last \in Storable(d) /\ last.container = h
      /\ last.slot = store[d].slot /\ last.synced = h
  BY <1>1, <1>2, <1>5, Persisted
<1> HIDE DEF pre, last
<1>7. /\ \E u \in Storable(d) : store' = [store EXCEPT ![d] = u]
      /\ \E v \in Hash' : vault' = [vault EXCEPT ![d] = v]
      /\ ~Torn' => /\ store' = [store EXCEPT ![d] = last]
                   /\ vault' = [vault EXCEPT ![d] = h]
                   /\ UNCHANGED faults
  BY <1>1, <1>2, <1>3, <1>5, <1>6, WrittenLast
<1>8. Acts(d)
  BY <1>2, <1>3, <1>7 DEF Acts, Goes
<1>9. ASSUME ~Torn' PROVE Takes(d)
  <2>1. \E u \in Stores' : /\ store' = [store EXCEPT ![d] = u]
                           /\ u.container = h
                           /\ u.slot = store[d].slot
                           /\ u.synced = h
    BY <1>6, <1>7, <1>9 DEF Storable
  <2> QED
    BY <1>1, <1>3, <1>7, <1>9, <2>1 DEF Takes
<1> QED
  BY <1>8, <1>9

\* A merge of x and y is a generation with the changes of both.
LEMMA MergeIsSealable ==
  ASSUME Typed, NEW x \in Hashes, NEW y \in Hashes, NEW g \in Merges(x, y)
  PROVE  /\ g \in Sealable
         /\ Changes(x) \subseteq g.changes /\ Changes(y) \subseteq g.changes
         /\ g.prev = x /\ sealed[x].slots \subseteq g.slots
<1>1. /\ sealed[x] \in Generation /\ sealed[y] \in Generation
      /\ sealed[x].msk.made \in Hashes /\ sealed[y].msk.made \in Hashes
      /\ x # None /\ y # None
  BY TypesOf DEF Typed, MsksAreMade
<1>2. /\ Changes(x) = sealed[x].changes /\ Changes(y) = sealed[y].changes
  BY <1>1 DEF Changes
<1>3. x \in Nat
  BY DEF Hashes
<1>4. PICK S \in {sealed[x].slots, sealed[x].slots \cup sealed[y].slots},
           m \in {sealed[x].msk, sealed[y].msk} :
        g = [gen     |-> sealed[x].gen + 1,
             prev    |-> x,
             changes |-> sealed[x].changes \cup sealed[y].changes,
             slots   |-> S,
             msk     |-> m]
  BY DEF Merges
<1>5. /\ g.prev = x /\ g.slots = S /\ g.msk = m
      /\ g.changes = sealed[x].changes \cup sealed[y].changes
  BY <1>4
<1>6. m.made \in Hashes /\ m \in Msk
  BY <1>1, <1>4 DEF Generation
<1>7. g \in Generation
  <2>1. /\ sealed[x].gen + 1 \in Nat \ {0} /\ S \subseteq Nat
        /\ sealed[x].changes \cup sealed[y].changes \subseteq Change
    BY <1>1, <1>4 DEF Generation
  <2> HIDE DEF Merges
  <2> QED
    BY <1>3, <1>4, <1>6, <2>1 DEF Generation
<1>8. sealed[x].slots \subseteq g.slots
  BY <1>4, <1>5
<1> QED
  BY <1>2, <1>5, <1>6, <1>7, <1>8 DEF Sealable

\* The vault rechained onto p.
LEMMA RechainedIsSealable ==
  ASSUME Typed, NEW x \in Hashes, NEW n \in Nat \ {0}, NEW p \in Hash
  PROVE  LET g == Rechained(x, n, p) IN
         /\ g \in Sealable /\ g.prev = p
         /\ Changes(x) = g.changes /\ g.slots = sealed[x].slots
<1> DEFINE g == sealed[x]
<1>1. /\ g \in Generation /\ g.msk.made \in Hashes
      /\ x # None /\ Changes(x) = g.changes /\ p \in Nat
  BY TypesOf DEF Typed, MsksAreMade, Changes, Hash, Hashes, None
<1> HIDE DEF g, Hashes, NewHash
<1> DEFINE h == [g EXCEPT !.gen = n, !.prev = p]
<1>2. /\ h \in Generation /\ h.prev = p /\ h.changes = g.changes
      /\ h.slots = g.slots /\ h.msk = g.msk
  BY <1>1 DEF Generation
<1>3. Rechained(x, n, p) = h
  BY DEF Rechained, g
<1> QED
  BY <1>1, <1>2, <1>3 DEF Sealable, g

\* A step that seals g and stores it.
LEMMA SealedSaves ==
  ASSUME Typed, NEW d \in Device, vault[d] # None, NEW g \in Sealable,
         sealed' = Append(sealed, g), UNCHANGED records,
         Turn(d, Persisting(store[d], NewHash), NewHash),
         ~Torn' => UNCHANGED inHand,
         Changes(vault[d]) \subseteq g.changes,
         \/ g.prev \in {None, Unstored, vault[d], store[d].synced}
         \/ g.prev \in Hashes /\ Changes(g.prev) \subseteq g.changes
  PROVE  /\ Seals /\ NewHash # None
         /\ \E s \in Storable(d) : store' = [store EXCEPT ![d] = s]
         /\ \E v \in Hash' : vault' = [vault EXCEPT ![d] = v]
         /\ ~Torn' => Saves(d)
<1> DEFINE last == [store[d] EXCEPT !.container = NewHash]
<1>1. Seals
  BY DEF Seals
<1>2. NewHash \in Hash' /\ NewHash # None /\ g \in Generation
  BY SealedIsNew, TypesOf DEF Typed, Sealable
<1>3. store[d] \in Storable(d)
  BY <1>1, StoredIsStorable
<1>4. /\ last \in Storable(d) /\ last.container = NewHash
      /\ last.slot = store[d].slot /\ last.synced = store[d].synced
  BY <1>2, <1>3, Persisted
<1>5. Turn(d, <<last>>, NewHash)
  BY DEF Persisting
<1> HIDE DEF last
<1>6. /\ <<last>> \in Seq(Storable(d)) /\ Len(<<last>>) > 0
      /\ <<last>>[Len(<<last>>)] = last
  BY <1>4
<1>7. /\ \E s \in Storable(d) : store' = [store EXCEPT ![d] = s]
      /\ \E v \in Hash' : vault' = [vault EXCEPT ![d] = v]
      /\ ~Torn' => /\ store' = [store EXCEPT ![d] = last]
                   /\ vault' = [vault EXCEPT ![d] = NewHash]
                   /\ UNCHANGED faults
  <2> DEFINE ws == <<last>>
  <2>1. ws \in Seq(Storable(d)) /\ Len(ws) > 0 /\ Turn(d, ws, NewHash)
        /\ ws[Len(ws)] = last
    BY <1>5, <1>6
  <2> HIDE DEF ws
  <2> QED
    BY <1>1, <1>2, <2>1, Written
<1>8. ASSUME ~Torn' PROVE Saves(d)
  <2>1. \E s \in Stores' : /\ store' = [store EXCEPT ![d] = s]
                           /\ s.container = NewHash
                           /\ s.slot = store[d].slot
                           /\ s.synced = store[d].synced
    BY <1>4, <1>7, <1>8 DEF Storable
  <2> QED
    BY <1>2, <1>7, <1>8, <2>1 DEF Saves
<1> QED
  BY <1>1, <1>2, <1>7, <1>8

\* A pull that merges the open vault onto the head.
LEMMA PullMergeActs ==
  ASSUME Typed, NEW d \in Device, NEW sync \in BOOLEAN, PullMerge(d, sync)
  PROVE  Acts(d) /\ (~Torn' => Saves(d))
<1> DEFINE h == CurrentRecord
<1>1. /\ vault[d] # None /\ vault[d] \in Hashes /\ h \in Hashes
      /\ IsOpen(d) /\ Opens(d, h)
      /\ Pulls(d, sync, Persisting(store[d], NewHash), NewHash)
  BY TypesOf, RecordNumber DEF PullMerge, IsOpen, Typed, Accepts
<1>2. PICK g \in Merges(h, vault[d]) : sealed' = Append(sealed, g)
  BY DEF PullMerge
<1>3. /\ g \in Sealable /\ g.prev = h /\ sealed[h].slots \subseteq g.slots
      /\ Changes(h) \subseteq g.changes /\ Changes(vault[d]) \subseteq g.changes
  BY <1>1, MergeIsSealable
<1>4. NewHash # None
  BY <1>2, <1>3, SealedIsNew, TypesOf DEF Typed, Sealable
<1>5. /\ Goes(d) /\ calls' \in 0 .. MaxCalls /\ UNCHANGED records
      /\ Turn(d, Persisting(store[d], NewHash), NewHash)
      /\ (~Torn' => UNCHANGED inHand)
  BY <1>1, <1>4, PullsGo
<1>6. store[d].slot \in g.slots
  BY <1>1, <1>3 DEF Opens
<1>7. /\ Seals
      /\ \E s \in Storable(d) : store' = [store EXCEPT ![d] = s]
      /\ \E v \in Hash' : vault' = [vault EXCEPT ![d] = v]
      /\ ~Torn' => Saves(d)
  BY <1>1, <1>2, <1>3, <1>5, <1>6, SealedSaves
<1> QED
  BY <1>5, <1>7 DEF Acts, Goes

-----------------------------------------------------------------------------
(* push.                                                                   *)

\* A conflict that is resolved with g.
LEMMA ResolveActs ==
  ASSUME Typed, NEW d \in Device, NEW g \in Sealable, Resolve(d, g),
         pc[d] # "idle",
         Changes(vault[d]) \subseteq g.changes,
         \/ g.prev \in {None, Unstored, vault[d], store[d].synced}
         \/ g.prev \in Hashes /\ Changes(g.prev) \subseteq g.changes
  PROVE  Acts(d) /\ (~Torn' => Saves(d))
<1> DEFINE ws == Persisting(store[d], NewHash)
<1>1. /\ vault[d] # None /\ calls \in 0 .. MaxCalls
      /\ attempt \in [Device -> 0 .. PushAttempts]
      /\ UNCHANGED <<records, calls>> /\ sealed' = Append(sealed, g)
  BY TypesOf DEF Typed, CallsHaveVaults, Resolve
<1>2. \/ /\ Wrote(d, ws, NewHash)
         /\ IF attempt[d] < PushAttempts THEN Goto(d, "put", attempt[d] + 1)
                                         ELSE Return(d)
         /\ UNCHANGED <<inHand, faults>>
      \/ CutShort(d, ws)
  BY DEF Resolve
<1> HIDE DEF ws
<1>3. Turn(d, ws, NewHash) /\ (~Torn' => UNCHANGED inHand)
  BY <1>2, CutShortTears DEF Turn
<1>4. /\ Seals /\ NewHash # None
      /\ \E s \in Storable(d) : store' = [store EXCEPT ![d] = s]
      /\ \E v \in Hash' : vault' = [vault EXCEPT ![d] = v]
      /\ ~Torn' => Saves(d)
  BY <1>1, <1>3, SealedSaves DEF ws
<1>5. Goes(d)
  <2>1. CASE CutShort(d, ws)
    BY <2>1, CutShortGoes
  <2>2. CASE /\ Wrote(d, ws, NewHash)
             /\ IF attempt[d] < PushAttempts
                  THEN Goto(d, "put", attempt[d] + 1) ELSE Return(d)
             /\ UNCHANGED <<inHand, faults>>
    <3>1. vault'[d] = NewHash /\ faults' \subseteq Faults
      BY <2>2, TypesOf DEF Wrote, Typed
    <3>2. CASE attempt[d] < PushAttempts
      <4>1. attempt[d] + 1 \in 0 .. PushAttempts
        BY <1>1, <3>2, BoundsAssumption
      <4>2. Goto(d, "put", attempt[d] + 1)
        BY <2>2, <3>2
      <4> QED
        BY <1>4, <2>2, <3>1, <4>1, <4>2, Moves
    <3>3. CASE ~(attempt[d] < PushAttempts)
      <4>1. Goto(d, "idle", 0) /\ 0 \in 0 .. PushAttempts
        BY <2>2, <3>3, BoundsHold DEF Return, Typed
      <4> QED
        BY <2>2, <3>1, <4>1, Moves
    <3> QED
      BY <3>2, <3>3
  <2> QED
    BY <1>2, <2>1, <2>2
<1> QED
  BY <1>1, <1>4, <1>5 DEF Acts, Goes

\* Whatever the conflict is resolved with.
LEMMA ConflictActs ==
  ASSUME Typed, NEW d \in Device,
         PushRestart(d) \/ PushRechain(d) \/ PushMerge(d)
  PROVE  Acts(d) /\ (~Torn' => Saves(d))
<1> DEFINE h == CurrentRecord
<1>1. pc[d] # "idle" /\ vault[d] # None /\ vault[d] \in Hashes
  BY TypesOf
     DEF PushRestart, PushRechain, PushMerge, Offering, Reading, Typed,
         CallsHaveVaults
<1>2. CASE PushRestart(d)
  <2> DEFINE g == Rechained(vault[d], 1, None)
  <2>1. /\ g \in Sealable /\ g.prev = None /\ Changes(vault[d]) = g.changes
        /\ g.slots = sealed[vault[d]].slots
    BY <1>1, RechainedIsSealable DEF Hash
  <2>2. Resolve(d, g)
    BY <1>2 DEF PushRestart
  <2> HIDE DEF g
  <2> QED
    BY <1>1, <2>1, <2>2, ResolveActs DEF Opens
<1>3. CASE PushRechain(d)
  <2> DEFINE g == Rechained(vault[d], Gen(h) + 1, h)
  <2>1. /\ h # None /\ store[d].synced = h /\ Resolve(d, g)
    BY <1>3 DEF PushRechain, Reading
  <2>2. Gen(h) + 1 \in Nat \ {0} /\ h \in Hash
    BY <2>1, RecordNumber, TypesOf DEF Typed
  <2>3. /\ g \in Sealable /\ g.prev = h /\ Changes(vault[d]) = g.changes
        /\ g.slots = sealed[vault[d]].slots
    BY <1>1, <2>2, RechainedIsSealable
  <2> HIDE DEF g
  <2> QED
    BY <1>1, <2>1, <2>3, ResolveActs DEF Opens
<1>4. CASE PushMerge(d)
  <2>1. h # None /\ Opens(d, h)
    BY <1>4 DEF PushMerge, Reading, Accepts
  <2>2. PICK g \in Merges(h, vault[d]) : Resolve(d, g)
    BY <1>4 DEF PushMerge
  <2>3. /\ g \in Sealable /\ g.prev = h /\ h \in Hashes
        /\ sealed[h].slots \subseteq g.slots
        /\ Changes(h) \subseteq g.changes
        /\ Changes(vault[d]) \subseteq g.changes
    BY <1>1, <2>1, MergeIsSealable, RecordNumber
  <2>4. store[d].slot \in g.slots
    BY <2>1, <2>3 DEF Opens
  <2> QED
    BY <1>1, <2>2, <2>3, <2>4, ResolveActs
<1> QED
  BY <1>2, <1>3, <1>4

\* What a host holds after it has accepted h.
LEMMA HostHolds ==
  ASSUME Typed, NEW h \in Hashes, HostAccepts(h), UNCHANGED sealed
  PROVE  /\ records' \in Seq(Hashes) /\ Numbered'
         /\ \E n \in DOMAIN records' : records'[n] = h
         /\ Gen(h) <= Len(records') /\ Len(records) <= Len(records')
         /\ \/ records' = records
            \/ records' = Append(records, h) /\ Extends(h)
<1>1. /\ records \in Seq(Hashes) /\ sealed[h] \in Generation /\ h # None
      /\ Len(records) \in Nat
  BY TypesOf DEF Typed
<1>2. Gen(h) = sealed[h].gen /\ Gen(h) \in Nat \ {0}
  BY <1>1 DEF Gen, Generation
<1>3. CASE IsDuplicate(h) /\ UNCHANGED records
  <2>1. Gen(h) \in DOMAIN records /\ records[Gen(h)] = h
    BY <1>1, <1>2, <1>3 DEF IsDuplicate
  <2>2. Numbered'
    BY <1>3 DEF Typed, Numbered
  <2> QED
    BY <1>1, <1>2, <1>3, <2>1, <2>2
<1>4. CASE Extends(h) /\ records' = Append(records, h)
  <2>1. /\ records' \in Seq(Hashes) /\ Len(records') = Len(records) + 1
        /\ records'[Len(records) + 1] = h
        /\ \A n \in DOMAIN records : records'[n] = records[n]
        /\ DOMAIN records' = DOMAIN records \cup {Len(records) + 1}
    BY <1>1, <1>4
  <2>2. Gen(h) = Len(records) + 1
    BY <1>2, <1>4 DEF Extends
  <2>3. Numbered'
    BY <1>2, <2>1, <2>2 DEF Typed, Numbered
  <2> QED
    BY <1>1, <1>2, <1>4, <2>1, <2>2, <2>3
<1> QED
  BY <1>3, <1>4 DEF HostAccepts

\* A push the host accepts.
LEMMA PushStoredActs ==
  ASSUME Typed, NEW d \in Device, PushStored(d)
  PROVE  Acts(d) /\ (~Torn' => Notes(d))
<1> DEFINE h  == vault[d]
           ws == Marking(store[d], h)
<1>1. /\ pc[d] # "idle" /\ h # None /\ h \in Hashes /\ HostAccepts(h)
      /\ UNCHANGED <<sealed, calls>> /\ calls \in 0 .. MaxCalls
  BY TypesOf DEF PushStored, Offering, Typed, CallsHaveVaults
<1>2. /\ Seals /\ Hash' = Hash /\ h \in Hash
  BY <1>1 DEF Seals, Hash, Hashes
<1>3. /\ \E n \in DOMAIN records' : records'[n] = h
      /\ Gen(h) <= Len(records')
  BY <1>1, HostHolds
<1>4. /\ ws \in Seq(Storable(d)) /\ Len(ws) = 3
      /\ ws[3] \in Storable(d)
      /\ ws[3].container = store[d].container
      /\ ws[3].slot = store[d].slot /\ ws[3].synced = h
  BY <1>1, <1>2, <1>3, MarkingIsStorable
<1>5. \/ Wrote(d, ws, h) /\ Return(d) /\ UNCHANGED <<inHand, faults>>
      \/ CutShort(d, ws)
  BY DEF PushStored
<1> HIDE DEF ws
<1>6. Turn(d, ws, h) /\ (~Torn' => UNCHANGED inHand)
  BY <1>5, CutShortTears DEF Turn
<1>7. /\ \E u \in Storable(d) : store' = [store EXCEPT ![d] = u]
      /\ \E v \in Hash' : vault' = [vault EXCEPT ![d] = v]
      /\ ~Torn' => /\ store' = [store EXCEPT ![d] = ws[3]]
                   /\ vault' = [vault EXCEPT ![d] = h]
                   /\ UNCHANGED faults
  <2>1. h \in Hash' /\ Len(ws) > 0 /\ ws[Len(ws)] = ws[3]
    BY <1>2, <1>4
  <2>2. Seals /\ ws \in Seq(Storable(d)) /\ Turn(d, ws, h)
    BY <1>2, <1>4, <1>6
  <2> HIDE DEF h
  <2>3. /\ \E u \in Storable(d) : store' = [store EXCEPT ![d] = u]
        /\ \E v \in Hash' : vault' = [vault EXCEPT ![d] = v]
        /\ ~Torn' => /\ store' = [store EXCEPT ![d] = ws[Len(ws)]]
                     /\ vault' = [vault EXCEPT ![d] = h]
                     /\ UNCHANGED faults
    BY <2>1, <2>2, Written
  <2> QED
    BY <2>1, <2>3
<1>8. Goes(d)
  <2>1. CASE CutShort(d, ws)
    BY <2>1, CutShortGoes
  <2>2. CASE Return(d) /\ UNCHANGED <<inHand, faults>>
    <3>1. Goto(d, "idle", 0) /\ 0 \in 0 .. PushAttempts
          /\ faults' \subseteq Faults
      BY <2>2, BoundsHold, TypesOf DEF Return, Typed
    <3> QED
      BY <2>2, <3>1, Moves
  <2> QED
    BY <1>5, <2>1, <2>2
<1>9. Acts(d)
  BY <1>1, <1>2, <1>7, <1>8 DEF Acts, Goes
<1>10. ASSUME ~Torn' PROVE Notes(d)
  <2>1. vault' = vault
    BY <1>7, <1>10, TypesOf DEF Typed
  <2>2. \E u \in Stores' : /\ store' = [store EXCEPT ![d] = u]
                           /\ u.container = store[d].container
                           /\ u.slot = store[d].slot
                           /\ u.synced = vault[d]
    BY <1>4, <1>7, <1>10 DEF Storable
  <2> QED
    BY <1>1, <1>3, <1>6, <1>10, <2>1, <2>2 DEF Notes
<1> QED
  BY <1>9, <1>10

-----------------------------------------------------------------------------
(* Steps of the whole system.                                              *)

\* What each step is of.
LEMMA StepCases ==
  ASSUME Next
  PROVE  \/ HostGoesBack
         \/ \E d \in Device :
              \/ \/ Open(d) \/ ReceiveVault(d) \/ Push(d) \/ PushNothing(d)
                 \/ PushConflict(d) \/ PushRefused(d) \/ HostCallFails(d)
                 \/ AnswerLost(d) \/ Crash(d)
              \/ Edits(d)
              \/ Clear(d)
              \/ \E storedOnHost \in BOOLEAN : Adopt(d, storedOnHost)
              \/ \E sync \in BOOLEAN : PullSame(d, sync)
              \/ \E sync \in BOOLEAN : PullForward(d, sync)
              \/ \E sync \in BOOLEAN : PullMerge(d, sync)
              \/ PushRestart(d) \/ PushRechain(d) \/ PushMerge(d)
              \/ PushStored(d)
BY DEF Next, Pull, PushStep

\* Every step is some device's, the one of the host any device's.
LEMMA StepActs ==
  ASSUME Typed, Next
  PROVE  \E d \in Device : Acts(d) /\ (~Torn' => Whole(d))
<1>1. CASE HostGoesBack
  <2>1. HostGoesBack /\ Creator \in Device
    BY <1>1, CreatorAssumption
  <2> QED
    BY <2>1, QuietActs DEF Whole
<1>2. ASSUME NEW d \in Device,
             \/ \/ Open(d) \/ ReceiveVault(d) \/ Push(d) \/ PushNothing(d)
                \/ PushConflict(d) \/ PushRefused(d) \/ HostCallFails(d)
                \/ AnswerLost(d) \/ Crash(d)
             \/ Edits(d)
             \/ Clear(d)
             \/ \E storedOnHost \in BOOLEAN : Adopt(d, storedOnHost)
             \/ \E sync \in BOOLEAN : PullSame(d, sync)
             \/ \E sync \in BOOLEAN : PullForward(d, sync)
             \/ \E sync \in BOOLEAN : PullMerge(d, sync)
             \/ PushRestart(d) \/ PushRechain(d) \/ PushMerge(d)
             \/ PushStored(d)
      PROVE  Acts(d) /\ (~Torn' => Whole(d))
  <2>1. CASE \/ Open(d) \/ ReceiveVault(d) \/ Push(d) \/ PushNothing(d)
             \/ PushConflict(d) \/ PushRefused(d) \/ HostCallFails(d)
             \/ AnswerLost(d) \/ Crash(d)
    BY <2>1, QuietActs DEF Whole
  <2>2. CASE Edits(d)
    BY <2>2, EditActs DEF Whole
  <2>3. CASE Clear(d)
    BY <2>3, ClearActs DEF Whole
  <2>4. CASE \E storedOnHost \in BOOLEAN : Adopt(d, storedOnHost)
    BY <2>4, AdoptActs DEF Whole
  <2>5. CASE \E sync \in BOOLEAN : PullSame(d, sync)
    BY <2>5, PullSameActs DEF Whole
  <2>6. CASE \E sync \in BOOLEAN : PullForward(d, sync)
    BY <2>6, PullForwardActs DEF Whole
  <2>7. CASE \E sync \in BOOLEAN : PullMerge(d, sync)
    BY <2>7, PullMergeActs DEF Whole
  <2>8. CASE PushRestart(d) \/ PushRechain(d) \/ PushMerge(d)
    BY <2>8, ConflictActs DEF Whole
  <2>9. CASE PushStored(d)
    BY <2>9, PushStoredActs DEF Whole
  <2> QED
    BY <1>2, <2>1, <2>2, <2>3, <2>4, <2>5, <2>6, <2>7, <2>8, <2>9
<1> QED
  BY <1>1, <1>2, StepCases

\* What the host does in a step: nothing, it takes what extends its head, or
\* it goes back.
LEMMA HostMoves ==
  ASSUME Typed, Next
  PROVE  \/ UNCHANGED records
         \/ /\ UNCHANGED sealed
            /\ \E h \in Hashes : /\ HostAccepts(h)
                               /\ \E d \in Device : h = vault[d]
         \/ /\ "rollback" \in faults' /\ UNCHANGED sealed
            /\ \E n \in 0 .. Len(records) - 1 :
                 records' = SubSeq(records, 1, n)
<1>1. CASE HostGoesBack
  BY <1>1 DEF HostGoesBack, Fault
<1>2. ASSUME NEW d \in Device, PushStored(d) \/ AnswerLost(d)
      PROVE  /\ UNCHANGED sealed
             /\ \E h \in Hashes : HostAccepts(h) /\ \E e \in Device : h = vault[e]
  <2>1. pc[d] # "idle" /\ HostAccepts(vault[d]) /\ UNCHANGED sealed
    BY <1>2 DEF PushStored, AnswerLost, Offering
  <2>2. vault[d] \in Hashes
    BY <2>1, TypesOf DEF Typed, CallsHaveVaults
  <2> QED
    BY <2>1, <2>2
<1>3. ASSUME NEW d \in Device,
             \/ Open(d) \/ ReceiveVault(d) \/ Push(d) \/ PushNothing(d)
             \/ PushConflict(d) \/ PushRefused(d) \/ HostCallFails(d)
             \/ Crash(d) \/ Clear(d)
      PROVE  UNCHANGED records
  BY <1>3
     DEF Open, ReceiveVault, Push, PushNothing, PushConflict, PushRefused,
         HostCallFails, Crash, Clear
<1>4. ASSUME NEW d \in Device,
             \/ Edits(d)
             \/ \E storedOnHost \in BOOLEAN : Adopt(d, storedOnHost)
      PROVE  UNCHANGED records
  BY <1>4
     DEF Edits, Edit, RemoveDevice, RevokeDevice, RotateVekToThisDevice,
         RotateToHybridMsk, Commit, Adopt
<1>5. ASSUME NEW d \in Device,
             \/ \E sync \in BOOLEAN : PullSame(d, sync)
             \/ \E sync \in BOOLEAN : PullForward(d, sync)
             \/ \E sync \in BOOLEAN : PullMerge(d, sync)
             \/ PushRestart(d) \/ PushRechain(d) \/ PushMerge(d)
      PROVE  UNCHANGED records
  BY <1>5
     DEF PullSame, PullForward, PullMerge, Pulls, PushRestart, PushRechain,
         PushMerge, Resolve
<1> QED
  BY <1>1, <1>2, <1>3, <1>4, <1>5, StepCases

\* The host's records keep their numbers and, if it does not go back, their
\* places.
LEMMA RecordsKeep ==
  ASSUME Typed, Next
  PROVE  /\ records' \in Seq(Hashes') /\ Numbered'
         /\ "rollback" \notin faults'
              => /\ Len(records) <= Len(records')
                 /\ \/ UNCHANGED records
                    \/ /\ UNCHANGED sealed
                       /\ \E h \in Hashes :
                            records' = Append(records, h) /\ Extends(h)
<1>1. /\ records \in Seq(Hashes) /\ sealed \in Seq(Generation)
      /\ Len(records) \in Nat
  BY TypesOf DEF Typed
<1>2. Seals
  BY StepActs DEF Acts
<1>3. /\ Hashes \subseteq Hashes'
      /\ \A h \in Hashes : sealed'[h] = sealed[h]
  BY <1>1, <1>2, SealsKeep
<1>4. CASE UNCHANGED records
  <2>1. records' \in Seq(Hashes')
    BY <1>1, <1>3, <1>4
  <2>2. \A n \in DOMAIN records : records[n] \in Hashes
    BY <1>1
  <2>3. Numbered'
    BY <1>3, <1>4, <2>2 DEF Typed, Numbered
  <2> QED
    BY <1>1, <1>4, <2>1, <2>3
<1>5. CASE UNCHANGED sealed /\ \E h \in Hashes : HostAccepts(h)
  <2>1. PICK h \in Hashes : HostAccepts(h)
    BY <1>5
  <2>2. /\ records' \in Seq(Hashes) /\ Numbered'
        /\ Len(records) <= Len(records')
        /\ \/ records' = records
           \/ records' = Append(records, h) /\ Extends(h)
    BY <1>5, <2>1, HostHolds
  <2>3. Hashes' = Hashes
    BY <1>5 DEF Hashes
  <2> QED
    BY <1>5, <2>2, <2>3
<1>6. CASE /\ "rollback" \in faults' /\ UNCHANGED sealed
           /\ \E n \in 0 .. Len(records) - 1 :
                records' = SubSeq(records, 1, n)
  <2>1. PICK n \in 0 .. Len(records) - 1 : records' = SubSeq(records, 1, n)
    BY <1>6
  <2>2. /\ records' \in Seq(Hashes) /\ Len(records') = n
        /\ \A i \in 1 .. n : records'[i] = records[i]
        /\ DOMAIN records' = 1 .. n /\ 1 .. n \subseteq DOMAIN records
    BY <1>1, <2>1
  <2>3. Numbered'
    BY <1>6, <2>2 DEF Typed, Numbered
  <2>4. Hashes' = Hashes
    BY <1>6 DEF Hashes
  <2> QED
    BY <1>6, <2>2, <2>3, <2>4
<1> QED
  BY <1>4, <1>5, <1>6, HostMoves

\* Faults that happened have happened.
LEMMA FaultsStay ==
  ASSUME Typed, Next
  PROVE  faults \subseteq faults'
<1>1. \A kind : Fault(kind) => faults \subseteq faults'
  BY DEF Fault
<1>2. \A d, ws : CutShort(d, ws) => faults \subseteq faults'
  BY <1>1 DEF CutShort
<1>3. CASE HostGoesBack
  BY <1>1, <1>3 DEF HostGoesBack
<1>4. ASSUME NEW d \in Device,
             \/ Open(d) \/ ReceiveVault(d) \/ Push(d) \/ PushNothing(d)
             \/ PushConflict(d) \/ PushRefused(d) \/ HostCallFails(d)
             \/ AnswerLost(d) \/ Crash(d)
      PROVE  faults \subseteq faults'
  BY <1>1, <1>4
     DEF Open, ReceiveVault, Push, PushNothing, PushConflict, PushRefused,
         HostCallFails, AnswerLost, Crash
<1>5. ASSUME NEW d \in Device,
             \/ Edits(d)
             \/ \E storedOnHost \in BOOLEAN : Adopt(d, storedOnHost)
             \/ Clear(d)
      PROVE  faults \subseteq faults'
  BY <1>2, <1>5
     DEF Edits, Edit, RemoveDevice, RevokeDevice, RotateVekToThisDevice,
         RotateToHybridMsk, Commit, Adopt, Clear
<1>6. ASSUME NEW d \in Device,
             \/ \E sync \in BOOLEAN : PullSame(d, sync)
             \/ \E sync \in BOOLEAN : PullForward(d, sync)
             \/ \E sync \in BOOLEAN : PullMerge(d, sync)
             \/ PushRestart(d) \/ PushRechain(d) \/ PushMerge(d)
             \/ PushStored(d)
      PROVE  faults \subseteq faults'
  BY <1>2, <1>6
     DEF PullSame, PullForward, PullMerge, Pulls, PushRestart, PushRechain,
         PushMerge, Resolve, PushStored
<1> QED
  BY <1>3, <1>4, <1>5, <1>6, StepCases

-----------------------------------------------------------------------------
(* Types, and a host that is not reported.                                 *)

\* The typing holds at first,
LEMMA InitTyped == Init => Typed
<1> SUFFICES ASSUME Init PROVE Typed
  OBVIOUS
<1> DEFINE g == [gen |-> 1, prev |-> None, changes |-> {}, slots |-> {1},
                 msk |-> [made |-> 1, hybrid |-> FALSE]]
<1>1. /\ g \in Generation /\ g.gen = 1 /\ g.msk.made = 1 /\ sealed = <<g>>
  BY DEF Init, Generation, Msk, None
<1> HIDE DEF g
<1>2. /\ sealed \in Seq(Generation) /\ Len(sealed) = 1 /\ sealed[1] = g
  BY <1>1
<1>3. Hashes = {1} /\ Hash = {0, 1}
  BY <1>2 DEF Hashes, Hash, None
<1>4. /\ records \in Seq(Hashes) /\ DOMAIN records = {}
  BY DEF Init
<1>5. store \in [Device -> [container : Hash, slot : Hash, synced : Hash,
                            base : Hash, pinned : Hash]]
  BY <1>3 DEF Init, Empty, None
<1>6. /\ vault \in [Device -> Hash] /\ inHand \in [Device -> Hash]
      /\ pc \in [Device -> {"idle", "put", "read"}]
      /\ attempt \in [Device -> 0 .. PushAttempts]
      /\ calls \in 0 .. MaxCalls /\ faults \subseteq Faults
  BY <1>3, BoundsAssumption DEF Init, None
<1>7. TypeOK
  BY <1>2, <1>4, <1>5, <1>6 DEF TypeOK
<1>8. CallsHaveVaults
  BY DEF Init, CallsHaveVaults
<1>9. Numbered
  BY <1>4 DEF Numbered
<1>10. MsksAreMade
  BY <1>1, <1>2, <1>3 DEF MsksAreMade
<1> QED
  BY <1>7, <1>8, <1>9, <1>10 DEF Typed

\* and every step keeps it,
LEMMA NextTyped ==
  ASSUME Typed, Next
  PROVE  Typed'
<1>1. PICK d \in Device : Acts(d)
  BY StepActs
<1>2. /\ sealed \in Seq(Generation) /\ store \in [Device -> Stores]
      /\ vault \in [Device -> Hash] /\ inHand \in [Device -> Hash]
      /\ pc \in [Device -> {"idle", "put", "read"}]
      /\ attempt \in [Device -> 0 .. PushAttempts]
  BY TypesOf DEF Typed
<1>3. /\ sealed' \in Seq(Generation) /\ Hashes \subseteq Hashes'
      /\ Hash \subseteq Hash'
      /\ \A h \in Hashes : sealed'[h] = sealed[h]
  BY <1>1, <1>2, SealsKeep DEF Acts
<1>4. store' \in [Device -> Stores']
  <2>1. PICK s \in Storable(d) : store' = [store EXCEPT ![d] = s]
    BY <1>1 DEF Acts
  <2>2. s \in Stores'
    BY DEF Storable
  <2>3. Stores \subseteq Stores'
    BY <1>3 DEF Stores
  <2> QED
    BY <1>2, <2>1, <2>2, <2>3
<1>5. vault' \in [Device -> Hash'] /\ inHand' \in [Device -> Hash']
  BY <1>1, <1>2, <1>3 DEF Acts
<1>6. /\ pc' \in [Device -> {"idle", "put", "read"}]
      /\ attempt' \in [Device -> 0 .. PushAttempts]
      /\ calls' \in 0 .. MaxCalls /\ faults' \subseteq Faults
  BY <1>1, <1>2 DEF Acts
<1>7. records' \in Seq(Hashes') /\ Numbered'
  BY RecordsKeep
<1>8. TypeOK'
  BY <1>3, <1>4, <1>5, <1>6, <1>7 DEF TypeOK, Stores
<1>9. CallsHaveVaults'
  <2> SUFFICES ASSUME NEW e \in Device, pc'[e] # "idle"
               PROVE  vault'[e] # None
    BY DEF CallsHaveVaults
  <2>1. CASE e = d
    BY <1>1, <2>1 DEF Acts
  <2>2. CASE e # d
    <3>1. pc'[e] = pc[e] /\ vault'[e] = vault[e]
      BY <1>1, <1>2, <2>2 DEF Acts
    <3> QED
      BY <3>1 DEF Typed, CallsHaveVaults
  <2> QED
    BY <2>1, <2>2
<1>10. MsksAreMade'
  <2>1. CASE sealed' = sealed
    BY <2>1 DEF Typed, MsksAreMade, Hashes
  <2>2. CASE \E g \in Sealable : sealed' = Append(sealed, g)
    <3>1. PICK g \in Sealable : sealed' = Append(sealed, g)
      BY <2>2
    <3>2. /\ Hashes' = Hashes \cup {NewHash} /\ sealed'[NewHash] = g
      BY <1>2, <3>1, SealedIsNew DEF Sealable
    <3>3. g.msk.made \in Hashes'
      BY <3>2 DEF Sealable
    <3>4. \A h \in Hashes : sealed'[h].msk.made \in Hashes'
      BY <1>3 DEF Typed, MsksAreMade
    <3> QED
      BY <3>2, <3>3, <3>4 DEF MsksAreMade
  <2> QED
    BY <1>1, <2>1, <2>2 DEF Acts, Seals
<1> QED
  BY <1>7, <1>8, <1>9, <1>10 DEF Typed

\* as does a step that changes nothing.
LEMMA StutterTyped ==
  ASSUME Typed, UNCHANGED vars
  PROVE  Typed'
<1>1. TypeOK'
  BY DEF Typed, TypeOK, vars, Hash, Hashes
<1>2. CallsHaveVaults' /\ Numbered' /\ MsksAreMade'
  BY DEF Typed, CallsHaveVaults, Numbered, MsksAreMade, vars, Hashes
<1> QED
  BY <1>1, <1>2 DEF Typed

\* With the types: a call that runs has a vault open, the n-th record has the
\* number n, and every MSK was introduced by a generation that was sealed.
LEMMA AlwaysTyped == Spec => []Typed
<1>1. Typed /\ [Next]_vars => Typed'
  BY NextTyped, StutterTyped
<1> QED
  BY <1>1, InitTyped, PTL DEF Spec

\* The state keeps its types: whatever is sealed, written or cut short, what
\* the devices store and hold are generations that were sealed.
THEOREM TypeCorrect == Spec => []TypeOK
<1>1. Typed => TypeOK
  BY DEF Typed
<1> QED
  BY <1>1, AlwaysTyped, PTL

\* The number of a generation.
LEMMA GenType ==
  ASSUME Typed
  PROVE  \A h \in Hash : Gen(h) \in Nat
<1> SUFFICES ASSUME NEW h \in Hash PROVE Gen(h) \in Nat
  OBVIOUS
<1>1. CASE h = None
  BY <1>1 DEF Gen
<1>2. CASE h # None
  BY <1>2, TypesOf DEF Gen, Generation, Typed
<1> QED
  BY <1>1, <1>2

\* No step notes a generation as synced that the host has not.
LEMMA NextNotAhead ==
  ASSUME Typed, NoFalseRollback, Next
  PROVE  NoFalseRollback'
<1> SUFFICES ASSUME "rollback" \notin faults', NEW e \in Device
             PROVE  SyncedGeneration(e)' <= Len(records')
  BY DEF NoFalseRollback
<1>1. PICK d \in Device : Acts(d)
  BY StepActs
<1>2. /\ Len(records) <= Len(records') /\ "rollback" \notin faults
  BY RecordsKeep, FaultsStay
<1>3. store \in [Device -> Stores] /\ sealed \in Seq(Generation)
  BY TypesOf DEF Typed
<1>4. Typed' /\ Len(records) \in Nat /\ Len(records') \in Nat
  BY NextTyped, RecordsKeep, TypesOf DEF Typed
<1>5. SyncedGeneration(e) <= Len(records) /\ store[e].base \in Hash
      /\ store'[e].base \in Hash'
  BY <1>2, <1>3, <1>4, TypesOf
     DEF NoFalseRollback, Stores, Typed, TypeOK
<1>6. \A h \in Hash : Gen(h)' = Gen(h) /\ Gen(h) \in Nat
  BY <1>1, <1>3, SealsKeep, GenType DEF Acts
<1>7. \/ store'[e].base = store[e].base
      \/ \E b : b = store'[e].base /\ Gen(b)' <= Len(records')
  <2>1. PICK s \in Storable(d) : store' = [store EXCEPT ![d] = s]
    BY <1>1 DEF Acts
  <2>2. CASE e = d
    <3>1. store'[e] = s
      BY <1>3, <2>1, <2>2
    <3> QED
      BY <2>2, <3>1 DEF Storable
  <2>3. CASE e # d
    BY <1>3, <2>1, <2>3
  <2> QED
    BY <2>2, <2>3
<1>8. CASE store'[e].base = store[e].base
  <2>1. PICK b \in Hash : b = store[e].base
    BY <1>5
  <2>2. Gen(b) <= Len(records) /\ Gen(b) \in Nat /\ Gen(b)' = Gen(b)
    BY <1>5, <1>6, <2>1 DEF SyncedGeneration
  <2>3. Gen(b)' <= Len(records')
    BY <1>2, <1>4, <2>2
  <2> QED
    BY <1>8, <2>1, <2>3 DEF SyncedGeneration, Gen
<1>9. CASE \E b : b = store'[e].base /\ Gen(b)' <= Len(records')
  BY <1>9 DEF SyncedGeneration, Gen
<1> QED
  BY <1>7, <1>8, <1>9

\* A host that never goes back is never reported for it: the synced generation
\* is noted in the step in which the host has it, or is the one noted before,
\* and the host's records only grow.
THEOREM HostIsNotBlamed == Spec => []NoFalseRollback
<1>1. Init => NoFalseRollback
  <2> SUFFICES ASSUME Init, NEW d \in Device
               PROVE  SyncedGeneration(d) <= Len(records)
    BY DEF NoFalseRollback
  <2>1. store[d].base = None /\ records = <<>>
    BY DEF Init, Empty
  <2> QED
    BY <2>1 DEF SyncedGeneration, Gen
<1>2. Typed /\ NoFalseRollback /\ [Next]_vars => NoFalseRollback'
  <2>1. Typed /\ NoFalseRollback /\ Next => NoFalseRollback'
    BY NextNotAhead
  <2>2. NoFalseRollback /\ UNCHANGED vars => NoFalseRollback'
    BY DEF NoFalseRollback, SyncedGeneration, Gen, vars
  <2> QED
    BY <2>1, <2>2
<1> QED
  BY <1>1, <1>2, AlwaysTyped, PTL DEF Spec

-----------------------------------------------------------------------------
(* What holds as long as no write is cut short.                            *)

\* The open vault is the stored one.
OpenIsStored == \A d \in Device : vault[d] \in {None, store[d].container}

\* A generation has the changes of the one it was sealed on, if any.
ChainsGrow ==
  \A h \in Hashes :
    \/ sealed[h].prev \in {None, Unstored}
    \/ /\ sealed[h].prev \in Hashes
       /\ Changes(sealed[h].prev) \subseteq Changes(h)

\* So has the stored vault those of the generation last synced.
WorkIsHeld ==
  \A d \in Device :
    Changes(store[d].synced) \subseteq Changes(store[d].container)

\* And a record those of the records before it.
RecordsGrow ==
  \A i, j \in DOMAIN records :
    i <= j => Changes(records[i]) \subseteq Changes(records[j])

\* What was synced, or received, the host has.
Recorded(h) == \E n \in DOMAIN records : records[n] = h

SyncedIsRecorded ==
  "rollback" \notin faults
    => \A d \in Device : /\ store[d].synced # None => Recorded(store[d].synced)
                         /\ inHand[d] # None => Recorded(inHand[d])

Sound == OpenIsStored /\ ChainsGrow /\ WorkIsHeld /\ RecordsGrow
           /\ SyncedIsRecorded

\* At first the creator alone has a vault.
LEMMA InitSound == Init => Sound
<1> SUFFICES ASSUME Init PROVE Sound
  OBVIOUS
<1>1. /\ Len(sealed) = 1 /\ sealed[1].slots = {1} /\ sealed[1].prev = None
      /\ DOMAIN records = {} /\ faults = {}
  BY DEF Init
<1>2. \A d \in Device : /\ store[d].container = vault[d]
                        /\ store[d].synced = None /\ inHand[d] = None
  BY DEF Init, Empty, None
<1>3. OpenIsStored
  BY <1>2 DEF OpenIsStored
<1>4. ChainsGrow
  BY <1>1 DEF ChainsGrow, Hashes, None
<1>5. WorkIsHeld
  BY <1>2 DEF WorkIsHeld, Changes
<1>6. RecordsGrow /\ SyncedIsRecorded
  BY <1>1, <1>2 DEF RecordsGrow, SyncedIsRecorded
<1> QED
  BY <1>3, <1>4, <1>5, <1>6 DEF Sound

\* A whole step leaves no vault open but the stored one.
LEMMA WholeStored ==
  ASSUME Typed, OpenIsStored, NEW d \in Device, Acts(d), Whole(d)
  PROVE  OpenIsStored'
<1> SUFFICES ASSUME NEW e \in Device
             PROVE  vault'[e] \in {None, store'[e].container}
  BY DEF OpenIsStored
<1>1. /\ store \in [Device -> Stores] /\ vault \in [Device -> Hash]
      /\ vault[e] \in {None, store[e].container}
  BY TypesOf DEF Typed, OpenIsStored
<1>2. CASE e # d
  BY <1>1, <1>2 DEF Acts
<1>3. CASE e = d /\ Saves(d)
  BY <1>1, <1>3 DEF Saves
<1>4. CASE e = d /\ Takes(d)
  BY <1>1, <1>4 DEF Takes
<1>5. CASE e = d /\ Notes(d)
  BY <1>1, <1>5 DEF Notes
<1>6. CASE e = d /\ Joins(d)
  BY <1>1, <1>6 DEF Joins
<1>7. CASE e = d /\ Forgets(d)
  BY <1>1, <1>7 DEF Forgets
<1>8. CASE e = d /\ Rests(d)
  BY <1>1, <1>8 DEF Rests
<1> QED
  BY <1>2, <1>3, <1>4, <1>5, <1>6, <1>7, <1>8 DEF Whole

\* Changes before and after a step.
LEMMA ChangesStay ==
  ASSUME Typed, Seals
  PROVE  /\ \A h \in Hash : Changes(h)' = Changes(h)
         /\ \A h \in Hashes : sealed'[h] = sealed[h]
         /\ Changes(None)' = {} /\ None \notin Hashes
BY SealsKeep, TypesOf DEF Typed, Changes

\* What a whole step seals has the changes of what it was sealed on.
LEMMA WholeChains ==
  ASSUME Typed, OpenIsStored, ChainsGrow, WorkIsHeld, NEW d \in Device, Acts(d),
         Whole(d)
  PROVE  ChainsGrow'
<1>1. /\ sealed \in Seq(Generation) /\ store \in [Device -> Stores]
      /\ vault \in [Device -> Hash] /\ inHand \in [Device -> Hash]
      /\ \A h \in Hash : h # None => h \in Hashes
      /\ Seals
  BY TypesOf DEF Typed, Acts
<1>2. CASE UNCHANGED sealed
  BY <1>2 DEF ChainsGrow, Changes, Hashes
<1>3. ASSUME NEW g \in Generation, sealed' = Append(sealed, g),
             \/ g.prev \in {None, Unstored}
             \/ g.prev \in Hashes /\ Changes(g.prev) \subseteq g.changes
      PROVE  ChainsGrow'
  <2>1. /\ Hashes' = Hashes \cup {NewHash} /\ sealed'[NewHash] = g
        /\ NewHash \notin Hashes /\ NewHash # None
    BY <1>1, <1>3, SealedIsNew
  <2>2. /\ \A h \in Hashes : sealed'[h] = sealed[h]
        /\ \A h \in Hash : Changes(h)' = Changes(h)
    BY <1>1, ChangesStay
  <2> SUFFICES ASSUME NEW h \in Hashes', NEW p, p = sealed'[h].prev
               PROVE  \/ p \in {None, Unstored}
                      \/ p \in Hashes' /\ Changes(p)' \subseteq Changes(h)'
    BY DEF ChainsGrow, Changes
  <2>3. CASE h \in Hashes
    <3>1. p = sealed[h].prev
      BY <2>2, <2>3
    <3>2. \/ p \in {None, Unstored}
          \/ p \in Hashes /\ Changes(p) \subseteq Changes(h)
      BY <2>3, <3>1 DEF ChainsGrow
    <3> QED
      BY <2>1, <2>2, <2>3, <3>2 DEF Hash
  <2>4. CASE h = NewHash
    <3>1. p = g.prev
      BY <2>1, <2>4
    <3>2. \/ p \in {None, Unstored}
          \/ p \in Hashes /\ Changes(p) \subseteq g.changes
      BY <1>3, <3>1
    <3>3. Changes(h)' = g.changes
      BY <2>1, <2>4 DEF Changes
    <3> QED
      BY <2>1, <2>2, <3>2, <3>3 DEF Hash
  <2> QED
    BY <2>1, <2>3, <2>4
<1>4. CASE Saves(d)
  <2>1. PICK g \in Generation :
          /\ sealed' = Append(sealed, g)
          /\ Changes(vault[d]) \subseteq g.changes
          /\ \/ g.prev \in {None, Unstored, vault[d], store[d].synced}
             \/ g.prev \in Hashes /\ Changes(g.prev) \subseteq g.changes
    BY <1>4 DEF Saves
  <2>2. /\ vault[d] = store[d].container /\ vault[d] \in Hash
        /\ store[d].synced \in Hash
    BY <1>1, <1>4 DEF OpenIsStored, Saves, Stores
  <2>3. Changes(store[d].synced) \subseteq g.changes
    BY <2>1, <2>2 DEF WorkIsHeld
  <2>4. \/ g.prev \in {None, Unstored}
        \/ g.prev \in Hashes /\ Changes(g.prev) \subseteq g.changes
    BY <1>1, <2>1, <2>2, <2>3
  <2> QED
    BY <1>3, <2>1, <2>4
<1>5. CASE Joins(d)
  <2>1. PICK g \in Generation : /\ sealed' = Append(sealed, g)
                                /\ g.prev = inHand[d]
                                /\ g.changes = Changes(inHand[d])
    BY <1>5 DEF Joins
  <2>2. inHand[d] \in Hashes
    BY <1>1, <1>5 DEF Joins
  <2> QED
    BY <1>3, <2>1, <2>2
<1> QED
  BY <1>2, <1>4, <1>5 DEF Whole, Takes, Notes, Forgets, Rests

\* After a whole step the stored vault has what was synced.
LEMMA WholeWork ==
  ASSUME Typed, OpenIsStored, WorkIsHeld, NEW d \in Device, Acts(d), Whole(d)
  PROVE  WorkIsHeld'
<1> SUFFICES ASSUME NEW e \in Device, NEW s, s = store'[e].synced,
                    NEW c, c = store'[e].container
             PROVE  Changes(s)' \subseteq Changes(c)'
  BY DEF WorkIsHeld, Changes
<1>1. /\ sealed \in Seq(Generation) /\ store \in [Device -> Stores]
      /\ vault \in [Device -> Hash] /\ inHand \in [Device -> Hash]
      /\ \A h \in Hash : h # None => h \in Hashes
      /\ Seals
  BY TypesOf DEF Typed, Acts
<1>2. /\ \A h \in Hashes : sealed'[h] = sealed[h]
      /\ \A h \in Hash : Changes(h)' = Changes(h)
      /\ Changes(None)' = {}
  BY <1>1, ChangesStay
<1>3. /\ store[e].synced \in Hash /\ store[e].container \in Hash
      /\ Changes(store[e].synced) \subseteq Changes(store[e].container)
  BY <1>1 DEF WorkIsHeld, Stores
<1>4. CASE store'[e].synced = store[e].synced
             /\ store'[e].container = store[e].container
  BY <1>2, <1>3, <1>4
<1>5. CASE s = c
  BY <1>5
<1>6. CASE s = None
  BY <1>2, <1>6
<1>7. CASE e # d
  BY <1>1, <1>4, <1>7 DEF Acts
<1>8. CASE e = d /\ Saves(d)
  <2>1. PICK g \in Generation : /\ sealed' = Append(sealed, g)
                                /\ Changes(vault[d]) \subseteq g.changes
    BY <1>8 DEF Saves
  <2>2. sealed'[NewHash] = g /\ NewHash # None
    BY <1>1, <2>1, SealedIsNew
  <2>3. c = NewHash /\ s = store[d].synced /\ vault[d] = store[d].container
    BY <1>1, <1>8 DEF Saves, OpenIsStored
  <2>4. Changes(c)' = g.changes
    BY <2>2, <2>3 DEF Changes
  <2>5. Changes(s)' = Changes(s)
    BY <1>2, <1>3, <1>8, <2>3
  <2>6. Changes(s) \subseteq Changes(vault[d])
    BY <1>3, <1>8, <2>3
  <2> QED
    BY <2>1, <2>4, <2>5, <2>6
<1>9. CASE e = d /\ Takes(d)
  <2>1. s = c
    BY <1>1, <1>9 DEF Takes
  <2> QED
    BY <1>5, <2>1
<1>10. CASE e = d /\ Notes(d)
  <2>1. s = c
    BY <1>1, <1>10 DEF Notes, OpenIsStored
  <2> QED
    BY <1>5, <2>1
<1>11. CASE e = d /\ Joins(d)
  <2>1. PICK g \in Generation : /\ sealed' = Append(sealed, g)
                                /\ g.changes = Changes(inHand[d])
    BY <1>11 DEF Joins
  <2>2. sealed'[NewHash] = g /\ NewHash # None
    BY <1>1, <2>1, SealedIsNew
  <2>3. c = NewHash /\ s \in {None, inHand[d]} /\ inHand[d] \in Hash
    BY <1>1, <1>11 DEF Joins
  <2>4. Changes(c)' = g.changes
    BY <2>2, <2>3 DEF Changes
  <2>5. CASE s = inHand[d]
    <3>1. Changes(s)' = Changes(s)
      BY <1>2, <2>3, <2>5
    <3> QED
      BY <2>1, <2>4, <2>5, <3>1
  <2> QED
    BY <1>6, <2>3, <2>5
<1>12. CASE e = d /\ Forgets(d)
  <2>1. s = None
    BY <1>1, <1>12 DEF Forgets, Empty
  <2> QED
    BY <1>6, <2>1
<1>13. CASE e = d /\ Rests(d)
  BY <1>4, <1>13 DEF Rests
<1> QED
  BY <1>7, <1>8, <1>9, <1>10, <1>11, <1>12, <1>13 DEF Whole

\* What extends the host's head has the changes of the head.
LEMMA ExtendsHead ==
  ASSUME Typed, ChainsGrow, NEW h \in Hashes, Extends(h)
  PROVE  Changes(CurrentRecord) \subseteq Changes(h)
<1>1. sealed[h].prev = CurrentRecord /\ CurrentRecord \in Hash
  BY TypesOf DEF Extends, Typed
<1>2. CASE CurrentRecord = None
  BY <1>2 DEF Changes
<1>3. CASE CurrentRecord # None
  <2>1. CurrentRecord # Unstored
    BY <1>1, TypesOf DEF Typed, Hash, Hashes, None, Unstored
  <2> QED
    BY <1>1, <1>3, <2>1 DEF ChainsGrow
<1> QED
  BY <1>2, <1>3

\* The records grow, whatever the host does.
LEMMA NextRecords ==
  ASSUME Typed, ChainsGrow, RecordsGrow, Next
  PROVE  RecordsGrow'
<1>1. /\ records \in Seq(Hashes) /\ Len(records) \in Nat
      /\ \A n \in DOMAIN records : records[n] \in Hashes /\ records[n] \in Hash
  BY TypesOf DEF Typed, Hash
<1>2. /\ Seals
      /\ \A h \in Hash : Changes(h)' = Changes(h)
  BY StepActs, ChangesStay DEF Acts
<1> SUFFICES ASSUME NEW i \in DOMAIN records', NEW j \in DOMAIN records', i <= j,
                    NEW x, x = records'[i], NEW y, y = records'[j]
             PROVE  Changes(x)' \subseteq Changes(y)'
  BY DEF RecordsGrow, Changes
<1>3. ASSUME i \in DOMAIN records, j \in DOMAIN records,
             x = records[i], y = records[j]
      PROVE  Changes(x)' \subseteq Changes(y)'
  <2>1. Changes(records[i]) \subseteq Changes(records[j])
    BY <1>3 DEF RecordsGrow
  <2> QED
    BY <1>1, <1>2, <1>3, <2>1
<1>4. CASE UNCHANGED records
  BY <1>3, <1>4
<1>5. CASE UNCHANGED sealed /\ \E h \in Hashes : HostAccepts(h)
  <2>1. PICK h \in Hashes : HostAccepts(h)
    BY <1>5
  <2>2. CASE records' = Append(records, h) /\ Extends(h)
    <3>1. /\ DOMAIN records' = DOMAIN records \cup {Len(records) + 1}
          /\ records'[Len(records) + 1] = h
          /\ \A n \in DOMAIN records : records'[n] = records[n]
          /\ DOMAIN records = 1 .. Len(records)
      BY <1>1, <2>2
    <3>2. CASE j \in DOMAIN records
      <4>1. i \in DOMAIN records
        BY <1>1, <3>1, <3>2
      <4> QED
        BY <1>3, <3>1, <3>2, <4>1
    <3>3. CASE j = Len(records) + 1 /\ i \in DOMAIN records
      <4>1. /\ CurrentRecord = records[Len(records)]
            /\ Len(records) \in DOMAIN records /\ i <= Len(records)
        BY <1>1, <3>1, <3>3 DEF CurrentRecord
      <4>2. Changes(records[i]) \subseteq Changes(CurrentRecord)
        BY <3>3, <4>1 DEF RecordsGrow
      <4>3. Changes(CurrentRecord) \subseteq Changes(h)
        BY <2>2, ExtendsHead
      <4>4. x = records[i] /\ y = h
        BY <3>1, <3>3
      <4>5. Changes(x) \subseteq Changes(y)
        BY <4>2, <4>3, <4>4
      <4> QED
        BY <1>1, <1>2, <3>3, <4>4, <4>5 DEF Hash
    <3>4. CASE j = Len(records) + 1 /\ i = Len(records) + 1
      BY <3>4
    <3> QED
      BY <3>1, <3>2, <3>3, <3>4
  <2> QED
    BY <1>4, <1>5, <2>1, <2>2, HostHolds
<1>6. CASE \E n \in 0 .. Len(records) - 1 : records' = SubSeq(records, 1, n)
  <2>1. PICK n \in 0 .. Len(records) - 1 : records' = SubSeq(records, 1, n)
    BY <1>6
  <2>2. /\ \A m \in 1 .. n : records'[m] = records[m]
        /\ DOMAIN records' = 1 .. n /\ 1 .. n \subseteq DOMAIN records
    BY <1>1, <2>1
  <2> QED
    BY <1>3, <2>2
<1> QED
  BY <1>4, <1>5, <1>6, HostMoves

\* What a whole step notes as synced, or receives, is a record.
LEMMA NextRecorded ==
  ASSUME Typed, SyncedIsRecorded, Next, NEW d \in Device, Acts(d), Whole(d)
  PROVE  SyncedIsRecorded'
<1> SUFFICES ASSUME "rollback" \notin faults', NEW e \in Device,
                    NEW h, h # None, h = store'[e].synced \/ h = inHand'[e]
             PROVE  Recorded(h)'
  BY DEF SyncedIsRecorded, Recorded
<1>1. /\ store \in [Device -> Stores] /\ vault \in [Device -> Hash]
      /\ inHand \in [Device -> Hash] /\ records \in Seq(Hashes)
  BY TypesOf DEF Typed
<1>2. ASSUME Recorded(h) PROVE Recorded(h)'
  <2>1. PICK n \in DOMAIN records : records[n] = h
    BY <1>2 DEF Recorded
  <2>2. n \in DOMAIN records' /\ records'[n] = records[n]
    BY <1>1, RecordsKeep
  <2> QED
    BY <2>1, <2>2 DEF Recorded
<1>3. ASSUME h = store[e].synced \/ h = inHand[e] PROVE Recorded(h)'
  <2>1. "rollback" \notin faults
    BY FaultsStay
  <2> QED
    BY <1>2, <1>3, <2>1 DEF SyncedIsRecorded
<1>4. ASSUME h = CurrentRecord PROVE Recorded(h)'
  BY <1>2, <1>4, RecordNumber DEF Recorded
<1>5. CASE e # d
  <2>1. store'[e] = store[e] /\ inHand'[e] = inHand[e]
    BY <1>1, <1>5 DEF Acts
  <2> QED
    BY <1>3, <2>1
<1>6. CASE e = d /\ Saves(d)
  <2>1. store'[d].synced = store[d].synced /\ inHand'[d] = inHand[d]
    BY <1>1, <1>6 DEF Saves
  <2> QED
    BY <1>3, <1>6, <2>1
<1>7. CASE e = d /\ Takes(d)
  <2>1. store'[d].synced = CurrentRecord /\ inHand'[d] = inHand[d]
    BY <1>1, <1>7 DEF Takes
  <2> QED
    BY <1>3, <1>4, <1>7, <2>1
<1>8. CASE e = d /\ Notes(d)
  <2>1. store'[d].synced = vault[d] /\ inHand'[d] = inHand[d]
    BY <1>1, <1>8 DEF Notes
  <2>2. \E n \in DOMAIN records' : records'[n] = vault[d]
    BY <1>8 DEF Notes
  <2> QED
    BY <1>3, <1>8, <2>1, <2>2 DEF Recorded
<1>9. CASE e = d /\ Joins(d)
  <2>1. store'[d].synced \in {None, inHand[d]} /\ inHand'[d] = None
    BY <1>1, <1>9 DEF Joins
  <2> QED
    BY <1>3, <1>9, <2>1
<1>10. CASE e = d /\ Forgets(d)
  <2>1. store'[d].synced = None /\ inHand'[d] = inHand[d]
    BY <1>1, <1>10 DEF Forgets, Empty
  <2> QED
    BY <1>3, <1>10, <2>1
<1>11. CASE e = d /\ Rests(d)
  <2>1. store'[d].synced = store[d].synced
        /\ inHand'[d] \in {inHand[d], CurrentRecord}
    BY <1>1, <1>11 DEF Rests
  <2> QED
    BY <1>3, <1>4, <1>11, <2>1
<1> QED
  BY <1>5, <1>6, <1>7, <1>8, <1>9, <1>10, <1>11 DEF Whole

\* The invariant of the runs without torn writes.
LEMMA NextSound ==
  ASSUME Typed, Sound, Next, ~Torn'
  PROVE  Sound'
<1>1. PICK d \in Device : Acts(d) /\ Whole(d)
  BY StepActs
<1>2. OpenIsStored'
  BY <1>1, WholeStored DEF Sound
<1>3. ChainsGrow'
  BY <1>1, WholeChains DEF Sound
<1>4. WorkIsHeld'
  BY <1>1, WholeWork DEF Sound
<1>5. RecordsGrow'
  BY NextRecords DEF Sound
<1>6. SyncedIsRecorded'
  BY <1>1, NextRecorded DEF Sound
<1> QED
  BY <1>2, <1>3, <1>4, <1>5, <1>6 DEF Sound

\* A store that is torn stays torn.
LEMMA TornStays ==
  ASSUME Typed, Next, Torn
  PROVE  Torn'
BY FaultsStay DEF Torn

\* As long as no write is cut short.
LEMMA AlwaysSound == Spec => [](~Torn => Sound)
<1>1. Typed /\ (~Torn => Sound) /\ [Next]_vars => (~Torn => Sound)'
  <2>1. Typed /\ (~Torn => Sound) /\ Next => (~Torn => Sound)'
    BY NextSound, TornStays
  <2>2. Sound /\ UNCHANGED vars => Sound'
    BY DEF Sound, OpenIsStored, ChainsGrow, WorkIsHeld, RecordsGrow,
           SyncedIsRecorded, Recorded, Changes, Hashes, vars
  <2>3. UNCHANGED vars => Torn' = Torn
    BY DEF Torn, vars
  <2> QED
    BY <2>1, <2>2, <2>3
<1>2. Init => (~Torn => Sound)
  BY InitSound
<1> QED
  BY <1>1, <1>2, AlwaysTyped, PTL DEF Spec

-----------------------------------------------------------------------------
(* No changes are replaced.                                                *)

\* What a step that is not cut short keeps.
LEMMA NextKeeps ==
  ASSUME Typed, Sound, Next, ~Torn'
  PROVE  /\ "rollback" \notin faults'
              => Changes(CurrentRecord) \subseteq Changes(CurrentRecord)'
         /\ \A d \in Device :
              /\ vault[d] # None /\ vault'[d] # None /\ inHand'[d] = inHand[d]
              /\ "rollback" \in faults
                   => records # <<>> /\ SyncedGeneration(d) > Len(records)
              => Changes(vault[d]) \subseteq Changes(vault[d])'
<1>1. /\ sealed \in Seq(Generation) /\ records \in Seq(Hashes)
      /\ store \in [Device -> Stores] /\ vault \in [Device -> Hash]
      /\ inHand \in [Device -> Hash] /\ CurrentRecord \in Hash
      /\ Len(records) \in Nat
  BY TypesOf DEF Typed
<1>2. PICK d \in Device : Acts(d) /\ Whole(d)
  BY StepActs
<1>3. /\ \A h \in Hash : Changes(h)' = Changes(h)
      /\ \A h \in Hashes : sealed'[h] = sealed[h]
  BY <1>2, ChangesStay DEF Acts
<1>4. ASSUME "rollback" \notin faults'
      PROVE  Changes(CurrentRecord) \subseteq Changes(CurrentRecord)'
  <2> SUFFICES ASSUME NEW x, x = CurrentRecord, NEW y, y = CurrentRecord'
               PROVE  Changes(x) \subseteq Changes(y)'
    BY DEF Changes
  <2>1. CASE UNCHANGED records
    BY <1>1, <1>3, <2>1 DEF CurrentRecord
  <2>2. CASE \E h \in Hashes : records' = Append(records, h) /\ Extends(h)
    <3>1. PICK h \in Hashes : records' = Append(records, h) /\ Extends(h)
      BY <2>2
    <3>2. y = h
      BY <1>1, <3>1 DEF CurrentRecord
    <3>3. Changes(x) \subseteq Changes(y)
      BY <3>1, <3>2, ExtendsHead DEF Sound
    <3> QED
      BY <1>3, <3>2, <3>3 DEF Hash
  <2> QED
    BY <1>4, <2>1, <2>2, RecordsKeep
<1>5. ASSUME NEW e \in Device, vault[e] # None, vault'[e] # None,
             inHand'[e] = inHand[e],
             "rollback" \in faults
               => records # <<>> /\ SyncedGeneration(e) > Len(records)
      PROVE  Changes(vault[e]) \subseteq Changes(vault[e])'
  <2> SUFFICES ASSUME NEW x \in Hash, x = vault[e], NEW y, y = vault'[e]
               PROVE  Changes(x) \subseteq Changes(y)'
    BY <1>1 DEF Changes
  <2>1. CASE y = x
    BY <1>3, <2>1
  <2>2. CASE e # d
    BY <1>1, <1>2, <2>1, <2>2 DEF Acts
  <2>3. CASE e = d /\ Saves(d)
    <3>1. PICK g \in Generation : /\ sealed' = Append(sealed, g)
                                  /\ Changes(vault[d]) \subseteq g.changes
      BY <2>3 DEF Saves
    <3>2. sealed'[NewHash] = g /\ NewHash # None
      BY <1>1, <3>1, SealedIsNew
    <3>3. y = NewHash
      BY <1>1, <2>3 DEF Saves
    <3>4. Changes(y)' = g.changes
      BY <3>2, <3>3 DEF Changes
    <3> QED
      BY <2>3, <3>1, <3>4
  <2>4. CASE e = d /\ Takes(d)
    <3>1. /\ CurrentRecord # None /\ y = CurrentRecord
          /\ x = store[d].synced /\ x # None
          /\ Gen(CurrentRecord) >= SyncedGeneration(d)
      BY <1>1, <1>5, <2>4 DEF Takes, Accepts
    <3>2. /\ Len(records) \in DOMAIN records
          /\ records[Len(records)] = CurrentRecord
          /\ Gen(CurrentRecord) = Len(records)
      BY <3>1, RecordNumber
    <3>3. "rollback" \notin faults
      <4>1. SyncedGeneration(d) \in Nat
        BY <1>1, GenType DEF SyncedGeneration, Stores
      <4> QED
        BY <1>1, <1>5, <2>4, <3>1, <3>2, <4>1
    <3>4. PICK n \in DOMAIN records : records[n] = x
      BY <3>1, <3>3 DEF Sound, SyncedIsRecorded, Recorded
    <3>5. n <= Len(records)
      BY <1>1
    <3>6. Changes(x) \subseteq Changes(y)
      BY <3>1, <3>2, <3>4, <3>5 DEF Sound, RecordsGrow
    <3> QED
      BY <1>1, <1>3, <3>1, <3>6
  <2>5. CASE e = d /\ Notes(d)
    BY <2>1, <2>5 DEF Notes
  <2>6. CASE e = d /\ Joins(d)
    BY <1>1, <1>5, <2>6 DEF Joins
  <2>7. CASE e = d /\ Forgets(d)
    BY <1>1, <1>5, <2>7 DEF Forgets
  <2>8. CASE e = d /\ Rests(d)
    BY <1>5, <2>1, <2>8 DEF Rests
  <2> QED
    BY <1>2, <2>2, <2>3, <2>4, <2>5, <2>6, <2>7, <2>8 DEF Whole
<1> QED
  BY <1>4, <1>5

\* The host's changes grow, and so do those of an open vault: a head replaces
\* only what the host had before it, and everything else is a child of the
\* open vault or a merge with it.
THEOREM NoChangesLost == Spec => ChangesAreKept
<1> DEFINE Kept ==
      ~Torn' =>
        /\ "rollback" \notin faults'
             => Changes(CurrentRecord) \subseteq Changes(CurrentRecord)'
        /\ \A d \in Device :
             /\ vault[d] # None /\ vault'[d] # None /\ inHand'[d] = inHand[d]
             /\ "rollback" \in faults
                  => records # <<>> /\ SyncedGeneration(d) > Len(records)
             => Changes(vault[d]) \subseteq Changes(vault[d])'
<1>1. Typed /\ (~Torn => Sound) /\ [Next]_vars => [Kept]_vars
  <2>1. Typed /\ (~Torn => Sound) /\ Next => Kept
    BY NextKeeps, TornStays
  <2> QED
    BY <2>1
<1>2. ChangesAreKept <=> [][Kept]_vars
  BY DEF ChangesAreKept
<1> HIDE DEF Kept
<1> QED
  BY <1>1, <1>2, AlwaysTyped, AlwaysSound, PTL DEF Spec

-----------------------------------------------------------------------------
(* Slots and master signing keys. What follows holds under all faults, so  *)
(* that it speaks of what a step that was cut short leaves behind.         *)

\* The MSK of a generation without its hybrid half: the one that create() or
\* revokeDevice made.
Root(h) == LET m == sealed[h].msk
           IN IF m.hybrid THEN MskOf(sealed[m.made].prev) ELSE m.made

\* What d has stored or open.
Own(d) == {store[d].container, vault[d]} \ {None}

\* Generations that are somewhere. A step that was cut short may have sealed
\* others, which are lost.
Live == {h \in Hashes : \/ Recorded(h)
                        \/ \E d \in Device : h \in Own(d) \cup {inHand[d]}}

\* Slots are numbered by generations.
SlotsAreSealed == \A h \in Hashes : sealed[h].slots \subseteq Hashes

\* An MSK is that of the generation that introduced it, and a hybrid one was
\* put on another that is not.
MsksAreKnown ==
  \A h \in Hashes :
    LET m == sealed[h].msk
    IN /\ m.made \in Hashes /\ sealed[m.made].msk = m
       /\ m.hybrid => /\ sealed[m.made].prev \in Hashes
                      /\ ~sealed[sealed[m.made].prev].msk.hybrid

\* No two devices have a slot in common.
SlotsDiffer ==
  \A d, e \in Device : d # e /\ store[d].slot # None
                         => store[d].slot # store[e].slot

\* What is open is what is stored, if anything is.
OneVault ==
  \A d \in Device : vault[d] # None /\ store[d].container # None
                      => vault[d] = store[d].container

\* A slot from before the revocation that made the MSK r is one it kept.
KeptBy(slot, r) == slot < r => slot \in sealed[r].slots

\* So is the slot that a device has, though it may have removed it from its
\* vault since, or not have put it there: its adoption was cut short.
SlotHeld(d) ==
  \A y \in Own(d) : store[d].slot # None => KeptBy(store[d].slot, Root(y))

SlotsHeld == \A d \in Device : SlotHeld(d)

\* A generation in which d has a slot and whose MSK it accepts comes from the
\* same revocation, if any, as the vault d has.
RootShared(d) ==
  \A y \in Own(d), x \in Live :
    /\ store[d].slot \in sealed[x].slots
    /\ store[d].pinned = None \/ Root(store[d].pinned) = Root(x)
    => Root(x) = Root(y)

OneRoot == \A d \in Device : RootShared(d)

\* So are the slots that are somewhere.
RootsKeepOut ==
  \A h \in Live : \A slot \in sealed[h].slots : KeptBy(slot, Root(h))

Tidy == SlotsAreSealed /\ MsksAreKnown /\ SlotsDiffer /\ OneVault
          /\ SlotsHeld /\ OneRoot /\ RootsKeepOut

\* What the lemmas below use of Tidy.
LEMMA RootType ==
  ASSUME Typed, MsksAreKnown
  PROVE  \A h \in Hashes : /\ Root(h) \in Hashes
                           /\ MskOf(h) \in Hashes
                           /\ Root(MskOf(h)) = Root(h)
<1> SUFFICES ASSUME NEW h \in Hashes
             PROVE  /\ Root(h) \in Hashes /\ MskOf(h) \in Hashes
                    /\ Root(MskOf(h)) = Root(h)
  OBVIOUS
<1> DEFINE m == sealed[h].msk
<1>1. /\ m.made \in Hashes /\ sealed[m.made].msk = m
      /\ m.hybrid => sealed[m.made].prev \in Hashes
  BY DEF MsksAreKnown
<1>2. MskOf(h) = m.made
  BY DEF MskOf
<1>3. Root(m.made) = Root(h)
  BY <1>1 DEF Root
<1>4. Root(h) \in Hashes
  <2>1. CASE m.hybrid
    <3>1. Root(h) = MskOf(sealed[m.made].prev)
      BY <2>1 DEF Root
    <3>2. MskOf(sealed[m.made].prev) \in Hashes
      BY <1>1, <2>1 DEF MsksAreKnown, MskOf
    <3> QED
      BY <3>1, <3>2
  <2>2. CASE ~m.hybrid
    BY <1>1, <2>2 DEF Root
  <2> QED
    BY <2>1, <2>2
<1> QED
  BY <1>1, <1>2, <1>3, <1>4

\* What was sealed keeps its MSK.
LEMMA RootsStay ==
  ASSUME Typed, MsksAreKnown, Seals
  PROVE  \A h \in Hashes : Root(h)' = Root(h) /\ MskOf(h)' = MskOf(h)
<1>1. \A h \in Hashes : sealed'[h] = sealed[h]
  BY ChangesStay
<1> SUFFICES ASSUME NEW h \in Hashes
             PROVE  Root(h)' = Root(h) /\ MskOf(h)' = MskOf(h)
  OBVIOUS
<1> DEFINE m == sealed[h].msk
<1>2. /\ m.made \in Hashes
      /\ m.hybrid => sealed[m.made].prev \in Hashes
  BY DEF MsksAreKnown
<1>3. sealed'[h] = sealed[h] /\ sealed'[m.made] = sealed[m.made]
  BY <1>1, <1>2
<1>4. m.hybrid => sealed'[sealed[m.made].prev] = sealed[sealed[m.made].prev]
  BY <1>1, <1>2
<1> QED
  BY <1>3, <1>4 DEF Root, MskOf

\* What a step leaves of its writes: all of them and h open, or, cut short,
\* one of S.
Outcome(d, S, last, h) ==
  \/ store' = [store EXCEPT ![d] = last] /\ vault' = [vault EXCEPT ![d] = h]
  \/ /\ Torn'
     /\ \E s \in S : store' = [store EXCEPT ![d] = s]
     /\ \E v \in {vault[d], None} : vault' = [vault EXCEPT ![d] = v]

\* That is the outcome of a turn whose writes but the last are in S.
LEMMA TurnOutcome ==
  ASSUME Typed, NEW d \in Device, NEW S, store[d] \in S, NEW pre \in Seq(S),
         NEW last, NEW h, Turn(d, pre \o <<last>>, h)
  PROVE  Outcome(d, S, last, h)
<1> DEFINE A  == S \cup {last}
           ws == pre \o <<last>>
<1>1. pre \in Seq(A) /\ last \in A /\ Len(pre) \in Nat
  OBVIOUS
<1>2. /\ ws \in Seq(A) /\ Len(ws) > 0 /\ ws[Len(ws)] = last
  BY <1>1, LastWrite
<1>3. Len(ws) = Len(pre) + 1 /\ \A i \in 1 .. Len(pre) : ws[i] = pre[i]
  <2>1. /\ <<last>> \in Seq(A) /\ Len(<<last>>) = 1
    BY <1>1
  <2> QED
    BY <1>1, <2>1
<1>4. store \in [Device -> Stores] /\ vault \in [Device -> Hash]
  BY TypesOf DEF Typed
<1> HIDE DEF ws
<1>5. Turn(d, ws, h)
  BY DEF ws
<1>6. CASE Wrote(d, ws, h)
  BY <1>2, <1>6 DEF Wrote, Outcome
<1>7. CASE CutShort(d, ws)
  <2>1. Torn'
    BY <1>7, CutShortTears
  <2>2. PICK i \in 0 .. Len(ws) - 1 :
          store' = IF i = 0 THEN store ELSE [store EXCEPT ![d] = ws[i]]
    BY <1>7 DEF CutShort
  <2>3. \E s \in S : store' = [store EXCEPT ![d] = s]
    <3>1. CASE i = 0
      BY <1>4, <2>2, <3>1
    <3>2. CASE i # 0
      <4>1. i \in 1 .. Len(pre)
        BY <1>1, <1>3, <2>2, <3>2
      <4>2. ws[i] = pre[i] /\ pre[i] \in S
        BY <1>3, <4>1
      <4> QED
        BY <2>2, <3>2, <4>2
    <3> QED
      BY <3>1, <3>2
  <2>4. \E v \in {vault[d], None} : vault' = [vault EXCEPT ![d] = v]
    BY <1>4, <1>7 DEF CutShort
  <2> QED
    BY <2>1, <2>3, <2>4 DEF Outcome
<1> QED
  BY <1>5, <1>6, <1>7 DEF Turn

\* What d may have in hand after a step: what it had, nothing, or the head.
Hands(d) == \E h \in {inHand[d], None, CurrentRecord} :
              inHand' = [inHand EXCEPT ![d] = h]

\* A call or a step of push that goes on from the open vault whether d has its
\* slot there or not.
GoesOn(d) == Edits(d) \/ PushRestart(d) \/ PushRechain(d)

\* A generation that d makes of its open vault: an edit, or the same under
\* another parent,
Edited(d, g) ==
  /\ GoesOn(d)
  /\ g.msk = sealed[vault[d]].msk
  /\ g.slots \subseteq sealed[vault[d]].slots
  /\ Opens(d, vault[d])
       => store[d].slot \in g.slots \/ RemoveDevice(d, store[d].slot)

\* one with no slot but d's,
Rotated(d, g) == /\ store[d].slot # None
                 /\ g.msk = sealed[vault[d]].msk
                 /\ g.slots = {store[d].slot}

\* one with a hybrid MSK,
Hybridized(d, g) == /\ GoesOn(d)
                    /\ ~sealed[vault[d]].msk.hybrid
                    /\ g.msk = [made |-> NewHash, hybrid |-> TRUE]
                    /\ g.prev = vault[d]
                    /\ g.slots = sealed[vault[d]].slots

\* a merge onto the head,
Merged(d, g) ==
  /\ CurrentRecord # None /\ Accepts(d, CurrentRecord)
  /\ g.msk \in {sealed[CurrentRecord].msk, sealed[vault[d]].msk}
  /\ sealed[CurrentRecord].slots \subseteq g.slots
  /\ g.slots \subseteq sealed[CurrentRecord].slots \cup sealed[vault[d]].slots

\* or one with another MSK.
Revoked(d, g) == /\ store[d].slot # None
                 /\ g.msk = [made |-> NewHash, hybrid |-> FALSE]
                 /\ g.slots = {store[d].slot}

\* The new generation is stored and p is pinned.
Shelves(d, p) ==
  \E s : /\ store' = [store EXCEPT ![d] = s]
         /\ s.slot = store[d].slot
         /\ \/ /\ s.container = NewHash /\ s.pinned = p
               /\ vault' = [vault EXCEPT ![d] = NewHash]
            \/ /\ Torn'
               /\ s.container = store[d].container
               /\ s.pinned \in {store[d].pinned, p}
               /\ \E v \in {vault[d], None} : vault' = [vault EXCEPT ![d] = v]

Makes(d) ==
  /\ vault[d] # None
  /\ UNCHANGED records
  /\ \E g \in Sealable :
       /\ sealed' = Append(sealed, g)
       /\ \/ /\ \/ Edited(d, g) \/ Rotated(d, g) \/ Hybridized(d, g)
                \/ Merged(d, g)
             /\ Shelves(d, store[d].pinned)
          \/ Revoked(d, g) /\ Shelves(d, NewHash)

\* The head is taken over, or the open vault noted as synced, h in both cases.
Marks(d) ==
  /\ vault[d] # None
  /\ UNCHANGED sealed
  /\ \E h \in Hashes :
       /\ h = vault[d] \/ (h = CurrentRecord /\ Accepts(d, h))
       /\ \E s :
            /\ store' = [store EXCEPT ![d] = s]
            /\ s.slot = store[d].slot
            /\ s.pinned \in {store[d].pinned, MskOf(h)}
            /\ ~Torn' => \/ UNCHANGED records
                         \/ /\ s.pinned = MskOf(vault[d])
                            /\ records' = Append(records, vault[d])
            /\ \/ /\ s.container = h /\ s.pinned = MskOf(h)
                  /\ h = CurrentRecord /\ Accepts(d, h)
                  /\ vault' = [vault EXCEPT ![d] = h]
               \/ /\ Torn' \/ h = vault[d]
                  /\ s.container = store[d].container
                  /\ \E v \in {vault[d], None} :
                       vault' = [vault EXCEPT ![d] = v]

\* What is in hand is adopted with a new slot.
Adopts(d) ==
  /\ inHand[d] # None
  /\ UNCHANGED records
  /\ \E g \in Sealable :
       /\ sealed' = Append(sealed, g)
       /\ g.msk = sealed[inHand[d]].msk
       /\ g.slots = sealed[inHand[d]].slots \cup {NewHash}
  /\ \E s :
       /\ store' = [store EXCEPT ![d] = s]
       /\ s.pinned = store[d].pinned
       /\ \/ /\ s.container = NewHash /\ s.slot = NewHash
             /\ vault' = [vault EXCEPT ![d] = NewHash]
          \/ /\ Torn'
             /\ s.container = store[d].container
             /\ s.slot \in {store[d].slot, None, NewHash}
             /\ \E v \in {vault[d], None} : vault' = [vault EXCEPT ![d] = v]

\* Things are forgotten, the pinned MSK last.
Clears(d) ==
  /\ UNCHANGED <<sealed, records>>
  /\ \E s :
       /\ store' = [store EXCEPT ![d] = s]
       /\ Torn' \/ s = Empty
       /\ s.container \in {store[d].container, None}
       /\ \/ s.slot = None
          \/ s.slot = store[d].slot /\ s.pinned = store[d].pinned
  /\ \E v \in {vault[d], None} : vault' = [vault EXCEPT ![d] = v]

\* Nothing is sealed or stored.
Idles(d) ==
  /\ UNCHANGED <<sealed, store>>
  /\ \E v \in {vault[d], store[d].container, None} :
       vault' = [vault EXCEPT ![d] = v]
  /\ faults' = {} => UNCHANGED records

Does(d) == /\ Hands(d)
           /\ Makes(d) \/ Marks(d) \/ Adopts(d) \/ Clears(d) \/ Idles(d)

\* What a step leaves in hand.
LEMMA HandsAre ==
  ASSUME Typed, NEW d \in Device,
         \/ UNCHANGED inHand
         \/ inHand' = [inHand EXCEPT ![d] = None]
         \/ inHand' = [inHand EXCEPT ![d] = CurrentRecord]
         \/ \E ws : CutShort(d, ws)
  PROVE  Hands(d)
<1>1. inHand = [inHand EXCEPT ![d] = inHand[d]]
  BY TypesOf DEF Typed
<1> QED
  BY <1>1 DEF Hands, CutShort

\* Steps that store nothing.
LEMMA QuietDoes ==
  ASSUME Typed, NEW d \in Device,
         \/ Open(d) \/ ReceiveVault(d) \/ Push(d) \/ PushNothing(d)
         \/ PushConflict(d) \/ PushRefused(d) \/ HostCallFails(d)
         \/ AnswerLost(d) \/ Crash(d) \/ HostGoesBack
  PROVE  Does(d)
<1>1. UNCHANGED <<sealed, store>>
  BY DEF Open, ReceiveVault, Push, PushNothing, PushConflict, PushRefused,
         HostCallFails, AnswerLost, Crash, HostGoesBack
<1>2. \/ UNCHANGED vault
      \/ vault' = [vault EXCEPT ![d] = store[d].container]
      \/ vault' = [vault EXCEPT ![d] = None]
  BY DEF Open, ReceiveVault, Push, PushNothing, PushConflict, PushRefused,
         HostCallFails, AnswerLost, Crash, HostGoesBack
<1>3. \E v \in {vault[d], store[d].container, None} :
        vault' = [vault EXCEPT ![d] = v]
  <2>1. vault = [vault EXCEPT ![d] = vault[d]]
    BY TypesOf DEF Typed
  <2> QED
    BY <1>2, <2>1
<1>4. Hands(d)
  <2>1. \/ UNCHANGED inHand
        \/ inHand' = [inHand EXCEPT ![d] = None]
        \/ inHand' = [inHand EXCEPT ![d] = CurrentRecord]
    BY DEF Open, ReceiveVault, Push, PushNothing, PushConflict, PushRefused,
           HostCallFails, AnswerLost, Crash, HostGoesBack
  <2> QED
    BY <2>1, HandsAre
<1>5. faults' = {} => UNCHANGED records
  <2>1. \A kind : Fault(kind) => faults' # {}
    BY DEF Fault
  <2> QED
    BY <2>1
       DEF Open, ReceiveVault, Push, PushNothing, PushConflict, PushRefused,
           HostCallFails, AnswerLost, Crash, HostGoesBack
<1> QED
  BY <1>1, <1>3, <1>4, <1>5 DEF Does, Idles

\* Stored after the writes pre, if any.
LEMMA ShelvesLast ==
  ASSUME Typed, NEW d \in Device, NEW p, NEW s,
         s = [store[d] EXCEPT !.pinned = p],
         NEW pre \in Seq({store[d], s}),
         Turn(d, pre \o Persisting(s, NewHash), NewHash)
  PROVE  Shelves(d, p)
<1> DEFINE last == [s EXCEPT !.container = NewHash]
           S    == {store[d], s}
<1>1. store[d] \in Stores
  BY TypesOf DEF Typed
<1>2. /\ s.pinned = p /\ s.slot = store[d].slot
      /\ s.container = store[d].container
      /\ last.container = NewHash /\ last.pinned = p
      /\ last.slot = store[d].slot
  BY <1>1 DEF Stores
<1>3. Turn(d, pre \o <<last>>, NewHash)
  BY DEF Persisting
<1> HIDE DEF last
<1>4. Outcome(d, S, last, NewHash)
  <2>1. store[d] \in S /\ pre \in Seq(S)
    OBVIOUS
  <2> HIDE DEF S
  <2> QED
    BY <1>3, <2>1, TurnOutcome
<1> QED
  BY <1>2, <1>4 DEF Outcome, Shelves

\* Stored in one write.
LEMMA ShelvesOnly ==
  ASSUME Typed, NEW d \in Device,
         Turn(d, Persisting(store[d], NewHash), NewHash)
  PROVE  Shelves(d, store[d].pinned)
<1> DEFINE last == [store[d] EXCEPT !.container = NewHash]
           ws   == <<last>>
           S    == {store[d], last}
<1>1. /\ store[d] \in Stores /\ store \in [Device -> Stores]
      /\ vault \in [Device -> Hash]
  BY TypesOf DEF Typed
<1>2. /\ last.container = NewHash /\ last.pinned = store[d].pinned
      /\ last.slot = store[d].slot
  BY <1>1 DEF Stores
<1> HIDE DEF last
<1>3. Turn(d, ws, NewHash) /\ Len(ws) = 1 /\ ws[1] = last
  BY DEF Persisting, last
<1> HIDE DEF ws
<1>4. CASE Wrote(d, ws, NewHash)
  BY <1>2, <1>3, <1>4 DEF Wrote, Shelves
<1>5. CASE CutShort(d, ws)
  <2>1. Torn'
    BY <1>5, CutShortTears
  <2>2. store' = store
    BY <1>3, <1>5 DEF CutShort
  <2>3. store' = [store EXCEPT ![d] = store[d]]
    BY <1>1, <2>2
  <2>4. \E v \in {vault[d], None} : vault' = [vault EXCEPT ![d] = v]
    BY <1>1, <1>5 DEF CutShort
  <2> QED
    BY <2>1, <2>3, <2>4 DEF Shelves
<1> QED
  BY <1>3, <1>4, <1>5 DEF Turn

\* What commit() seals and stores.
LEMMA CommitDoes ==
  ASSUME Typed, NEW d \in Device, NEW op, NEW g \in Sealable,
         NEW n \in 1 .. 3, NEW p,
         Commit(d, op, g, n, [store[d] EXCEPT !.pinned = p])
  PROVE  /\ vault[d] # None /\ UNCHANGED records
         /\ Hands(d) /\ Shelves(d, p)
         /\ \E new \in Sealable :
              /\ sealed' = Append(sealed, new)
              /\ new.msk = g.msk /\ new.slots = g.slots
              /\ n = 1 => new.prev = vault[d]
<1> DEFINE new  == [g EXCEPT !.gen = @ + n, !.prev = Parent(vault[d], n)]
           s    == [store[d] EXCEPT !.pinned = p]
           pre  == IF s = store[d] THEN <<>> ELSE <<s>>
<1>1. /\ vault[d] # None /\ vault[d] \in Hash
      /\ sealed' = Append(sealed, new) /\ UNCHANGED records
  BY TypesOf DEF Commit, IsOpen, Typed
<1>2. /\ new \in Sealable /\ new.msk = g.msk /\ new.slots = g.slots
      /\ n = 1 => new.prev = vault[d]
  <2>1. vault[d] \in Nat /\ Parent(vault[d], n) \in {vault[d], Unstored}
        /\ (n = 1 => Parent(vault[d], n) = vault[d])
    BY <1>1 DEF Hash, Hashes, None, Parent
  <2> HIDE DEF NewHash, Hashes
  <2>2. Parent(vault[d], n) \in Nat \cup {Unstored}
        /\ g.gen + n \in Nat \ {0} /\ g \in Generation
    BY <2>1 DEF Sealable, Generation
  <2>3. /\ new \in Generation /\ new.msk = g.msk /\ new.slots = g.slots
        /\ new.prev = Parent(vault[d], n)
    BY <2>2 DEF Generation
  <2> QED
    BY <2>1, <2>3 DEF Sealable
<1> HIDE DEF new
<1>3. \/ Wrote(d, pre \o Persisting(s, NewHash), NewHash)
           /\ UNCHANGED <<pc, attempt, inHand, faults>>
      \/ CutShort(d, pre \o Persisting(s, NewHash))
  BY DEF Commit
<1>4. s = [store[d] EXCEPT !.pinned = p]
  OBVIOUS
<1> HIDE DEF s
<1>5. pre \in Seq({store[d], s})
  <2> DEFINE S == {store[d], s}
  <2>1. s \in S
    OBVIOUS
  <2> HIDE DEF S
  <2>2. <<>> \in Seq(S) /\ <<s>> \in Seq(S)
    BY <2>1
  <2> QED
    BY <2>2 DEF S
<1> HIDE DEF pre
<1>6. Turn(d, pre \o Persisting(s, NewHash), NewHash)
  BY <1>3 DEF Turn
<1>7. Shelves(d, p)
  BY <1>4, <1>5, <1>6, ShelvesLast
<1>8. Hands(d)
  BY <1>3, HandsAre
<1> QED
  BY <1>1, <1>2, <1>7, <1>8

\* What the code's edits make.
LEMMA EditDoes ==
  ASSUME Typed, NEW d \in Device,
         Edits(d)
  PROVE  Does(d)
<1> DEFINE g == sealed[vault[d]]
           p == store[d].pinned
<1>1. vault[d] # None /\ GoesOn(d)
  BY DEF GoesOn, Edits, Edit, RemoveDevice, RevokeDevice, RotateVekToThisDevice,
         RotateToHybridMsk, IsOpen
<1>2. {} \in SUBSET Change /\ {} \in SUBSET Nat /\ TRUE \in BOOLEAN
      /\ FALSE \in BOOLEAN /\ 1 \in 1 .. 3 /\ 2 \in 1 .. 3 /\ 3 \in 1 .. 3
  OBVIOUS
<1>3. /\ g \in Generation
      /\ g.changes \subseteq Change /\ g.slots \subseteq Nat
      /\ store[d].slot \in Nat /\ store[d] \in Stores
  <2>1. g \in Generation
    BY <1>1, <1>2, EditedType
  <2>2. g.changes \subseteq Change /\ g.slots \subseteq Nat
    BY <2>1 DEF Generation
  <2>3. store[d].slot \in Hash /\ Hash \subseteq Nat /\ store[d] \in Stores
    BY TypesOf DEF Typed, Stores, Hash, Hashes, None
  <2> QED
    BY <2>1, <2>2, <2>3
<1>4. store[d] = [store[d] EXCEPT !.pinned = p]
  BY <1>3 DEF Stores
<1>5. Opens(d, vault[d]) <=> store[d].slot \in g.slots
  BY DEF Opens
<1>6. ASSUME NEW op, NEW e \in Sealable, NEW n \in 1 .. 3,
             Commit(d, op, e, n, store[d]),
             \/ Edited(d, e) \/ Rotated(d, e)
             \/ n = 1 /\ ~g.msk.hybrid /\ e.slots = g.slots
                /\ e.msk = [made |-> NewHash, hybrid |-> TRUE]
      PROVE  Does(d)
  <2>1. Commit(d, op, e, n, [store[d] EXCEPT !.pinned = p])
    BY <1>4, <1>6
  <2>2. /\ UNCHANGED records /\ Hands(d) /\ Shelves(d, p)
        /\ \E new \in Sealable :
             /\ sealed' = Append(sealed, new)
             /\ new.msk = e.msk /\ new.slots = e.slots
             /\ n = 1 => new.prev = vault[d]
    BY <2>1, CommitDoes
  <2>3. PICK new \in Sealable :
             /\ sealed' = Append(sealed, new)
             /\ new.msk = e.msk /\ new.slots = e.slots
             /\ n = 1 => new.prev = vault[d]
    BY <2>2
  <2>4. Edited(d, new) \/ Rotated(d, new) \/ Hybridized(d, new)
    BY <1>1, <1>6, <2>3 DEF Edited, Rotated, Hybridized
  <2> QED
    BY <1>1, <2>2, <2>3, <2>4 DEF Does, Makes
<1>7. ASSUME NEW c \in Change, NEW n \in 1 .. 2, Edit(d, c, n)
      PROVE  Does(d)
  <2> DEFINE e == [g EXCEPT !.changes = @ \cup {c}]
  <2>1. Commit(d, "edit", e, n, store[d])
    BY <1>7 DEF Edit
  <2>2. e \in Sealable
    BY <1>1, <1>2, <1>3, EditedType
  <2>3. e.msk = g.msk /\ e.slots = g.slots
    BY <1>3 DEF Generation
  <2>4. Edited(d, e)
    BY <1>1, <1>5, <2>3 DEF Edited
  <2> HIDE DEF e
  <2>5. n \in 1 .. 3
    OBVIOUS
  <2> QED
    BY <1>6, <2>1, <2>2, <2>4, <2>5
<1>8. ASSUME NEW slot \in Hashes, RemoveDevice(d, slot)
      PROVE  Does(d)
  <2> DEFINE e == [g EXCEPT !.slots = @ \ {slot}]
  <2>1. Commit(d, "remove", e, 2, store[d])
    BY <1>8 DEF RemoveDevice
  <2>2. e \in Sealable
    BY <1>1, <1>2, <1>3, EditedType
  <2>3. e.msk = g.msk /\ e.slots = g.slots \ {slot}
    BY <1>3 DEF Generation
  <2>4. Edited(d, e)
    <3>1. Opens(d, vault[d])
            => store[d].slot \in e.slots \/ RemoveDevice(d, store[d].slot)
      BY <1>5, <1>8, <2>3
    <3> HIDE DEF e
    <3> QED
      BY <1>1, <2>3, <3>1 DEF Edited
  <2> HIDE DEF e
  <2> QED
    BY <1>2, <1>6, <2>1, <2>2, <2>4
<1>9. ASSUME NEW slot \in Hashes, RevokeDevice(d, slot)
      PROVE  Does(d)
  <2> DEFINE m == [made |-> NewHash, hybrid |-> FALSE]
             e == [g EXCEPT !.slots = {store[d].slot}, !.msk = m]
  <2>1. /\ Commit(d, "revoke", e, 3, [store[d] EXCEPT !.pinned = NewHash])
        /\ store[d].slot # None
    BY <1>9 DEF RevokeDevice, Mine
  <2>2. {store[d].slot} \in SUBSET Nat
    BY <1>3
  <2>3. e \in Sealable
    BY <1>1, <1>2, <1>3, <2>2, EditedType
  <2>4. e.msk = m /\ e.slots = {store[d].slot}
    BY <1>3 DEF Generation
  <2> HIDE DEF e
  <2>5. /\ UNCHANGED records /\ Hands(d) /\ Shelves(d, NewHash)
        /\ \E new \in Sealable :
             /\ sealed' = Append(sealed, new)
             /\ new.msk = e.msk /\ new.slots = e.slots
    <3> DEFINE n == 3
               p1 == NewHash
    <3>1. /\ n \in 1 .. 3
          /\ Commit(d, "revoke", e, n, [store[d] EXCEPT !.pinned = p1])
      BY <1>2, <2>1
    <3> HIDE DEF n, p1
    <3>2. /\ UNCHANGED records /\ Hands(d) /\ Shelves(d, p1)
          /\ \E new \in Sealable :
               /\ sealed' = Append(sealed, new)
               /\ new.msk = e.msk /\ new.slots = e.slots
      BY <2>3, <3>1, CommitDoes
    <3> QED
      BY <3>2 DEF p1
  <2>6. PICK new \in Sealable : /\ sealed' = Append(sealed, new)
                                /\ new.msk = e.msk /\ new.slots = e.slots
    BY <2>5
  <2>7. Revoked(d, new)
    BY <2>1, <2>4, <2>6 DEF Revoked
  <2> QED
    BY <1>1, <2>5, <2>6, <2>7 DEF Does, Makes
<1>10. CASE RotateVekToThisDevice(d)
  <2> DEFINE e == [g EXCEPT !.slots = {store[d].slot}]
  <2>1. /\ Commit(d, "rotate_vek", e, 2, store[d]) /\ store[d].slot # None
    BY <1>10 DEF RotateVekToThisDevice, Mine
  <2>2. {store[d].slot} \in SUBSET Nat
    BY <1>3
  <2>3. e \in Sealable
    BY <1>1, <1>2, <1>3, <2>2, EditedType
  <2>4. e.msk = g.msk /\ e.slots = {store[d].slot}
    BY <1>3 DEF Generation
  <2>5. Rotated(d, e)
    BY <2>1, <2>4 DEF Rotated
  <2> HIDE DEF e
  <2> QED
    BY <1>2, <1>6, <2>1, <2>3, <2>5
<1>11. CASE RotateToHybridMsk(d)
  <2> DEFINE m == [made |-> NewHash, hybrid |-> TRUE]
             e == [g EXCEPT !.msk = m]
  <2>1. Commit(d, "hybrid", e, 1, store[d]) /\ ~g.msk.hybrid
    BY <1>11 DEF RotateToHybridMsk
  <2>2. e \in Sealable
    BY <1>1, <1>2, EditedType
  <2>3. e.msk = m /\ e.slots = g.slots
    BY <1>3 DEF Generation
  <2> HIDE DEF e, g
  <2> QED
    BY <1>2, <1>6, <2>1, <2>2, <2>3
<1> QED
  BY <1>7, <1>8, <1>9, <1>10, <1>11 DEF Edits

\* What _markSynced(h) writes: the slot and the vault stay, and the MSK is
\* the last to be written.
Markings(d, h) == {s \in Stores : /\ s.container = store[d].container
                                  /\ s.slot = store[d].slot
                                  /\ s.pinned \in {store[d].pinned, MskOf(h)}}

\* That is all it writes.
LEMMA MarkingWrites ==
  ASSUME Typed, NEW d \in Device, NEW h \in Hashes
  PROVE  LET ws == Marking(store[d], h) IN
         /\ store[d] \in Markings(d, h)
         /\ ws \in Seq(Markings(d, h)) /\ Len(ws) = 3
         /\ ws[3] \in Markings(d, h) /\ ws[3].pinned = MskOf(h)
<1> DEFINE s == store[d]
           m == MskOf(h)
           a == [s EXCEPT !.synced = h]
           b == [s EXCEPT !.synced = h, !.base = h]
           c == [s EXCEPT !.synced = h, !.base = h, !.pinned = m]
           M == Markings(d, h)
<1>1. s \in Stores /\ h \in Hash /\ m \in Hash
  BY TypesOf DEF Typed, MsksAreMade, MskOf, Hash
<1>2. M = {t \in Stores : /\ t.container = s.container /\ t.slot = s.slot
                          /\ t.pinned \in {s.pinned, m}}
  BY DEF Markings
<1>3. Marking(s, h) = <<a, b, c>>
  BY DEF Marking
<1> HIDE DEF s, m, M
<1>4. s \in M
  BY <1>1, <1>2
<1>5. a \in M
  BY <1>1, <1>2 DEF Stores
<1>6. b \in M
  BY <1>1, <1>2 DEF Stores
<1>7. c \in M /\ c.pinned = m
  BY <1>1, <1>2 DEF Stores
<1> HIDE DEF a, b, c
<1>8. /\ <<a, b, c>> \in Seq(M) /\ Len(<<a, b, c>>) = 3
      /\ <<a, b, c>>[3] = c
  BY <1>5, <1>6, <1>7
<1> QED
  BY <1>3, <1>4, <1>7, <1>8 DEF s, m, M

\* The head is taken over.
LEMMA PullForwardDoes ==
  ASSUME Typed, NEW d \in Device, NEW sync \in BOOLEAN, PullForward(d, sync)
  PROVE  Does(d)
<1> DEFINE h    == CurrentRecord
           pre  == Marking(store[d], h)
           last == [pre[3] EXCEPT !.container = h]
           M    == Markings(d, h)
<1>1. /\ vault[d] # None /\ h \in Hashes /\ h # None
      /\ UNCHANGED sealed /\ IsOpen(d) /\ Accepts(d, h)
      /\ Pulls(d, sync, pre \o <<last>>, h)
  BY RecordNumber DEF PullForward, IsOpen, Persisting
<1>2. /\ store[d] \in M /\ pre \in Seq(M) /\ pre[3] \in M
      /\ pre[3].pinned = MskOf(h)
  BY <1>1, MarkingWrites
<1>3. /\ Turn(d, pre \o <<last>>, h) /\ UNCHANGED records
  BY <1>1, PullsGo
<1>4. last.container = h /\ last.slot = store[d].slot /\ last.pinned = MskOf(h)
  BY <1>2 DEF Markings, Stores
<1>5. Hands(d)
  BY <1>1, HandsAre DEF Pulls
<1> HIDE DEF pre, last, h, M
<1>6. Outcome(d, M, last, h)
  BY <1>2, <1>3, TurnOutcome
<1>7. Marks(d)
  BY <1>1, <1>3, <1>4, <1>6 DEF Outcome, Marks, M, Markings, h
<1> QED
  BY <1>5, <1>7 DEF Does

\* The open vault is noted.
LEMMA NotedMarks ==
  ASSUME NEW d \in Device, vault[d] # None, vault[d] \in Hashes,
         UNCHANGED sealed,
         NEW s, store' = [store EXCEPT ![d] = s],
         s.container = store[d].container, s.slot = store[d].slot,
         s.pinned \in {store[d].pinned, MskOf(vault[d])},
         ~Torn' => \/ UNCHANGED records
                   \/ /\ s.pinned = MskOf(vault[d])
                      /\ records' = Append(records, vault[d]),
         \E v \in {vault[d], None} : vault' = [vault EXCEPT ![d] = v]
  PROVE  Marks(d)
<1> DEFINE Noted(h, t) ==
             /\ store' = [store EXCEPT ![d] = t]
             /\ t.slot = store[d].slot
             /\ t.pinned \in {store[d].pinned, MskOf(h)}
             /\ ~Torn' => \/ UNCHANGED records
                          \/ /\ t.pinned = MskOf(vault[d])
                             /\ records' = Append(records, vault[d])
             /\ \/ /\ t.container = h /\ t.pinned = MskOf(h)
                   /\ vault' = [vault EXCEPT ![d] = h]
                \/ /\ Torn' \/ h = vault[d]
                   /\ t.container = store[d].container
                   /\ \E v \in {vault[d], None} :
                        vault' = [vault EXCEPT ![d] = v]
<1>1. Noted(vault[d], s)
  OBVIOUS
<1>2. Marks(d) <=> /\ vault[d] # None
                   /\ UNCHANGED sealed
                   /\ \E h \in Hashes :
                        /\ h = vault[d] \/ (h = CurrentRecord /\ Accepts(d, h))
                        /\ \E t : Noted(h, t)
  BY DEF Marks
<1> HIDE DEF Noted
<1>3. \E h \in Hashes : /\ h = vault[d] \/ (h = CurrentRecord /\ Accepts(d, h))
                        /\ \E t : Noted(h, t)
  BY <1>1
<1> QED
  BY <1>2, <1>3

\* The open vault is noted as synced,
LEMMA PullSameDoes ==
  ASSUME Typed, NEW d \in Device, NEW sync \in BOOLEAN, PullSame(d, sync)
  PROVE  Does(d)
<1> DEFINE h  == vault[d]
           t  == [store[d] EXCEPT !.synced = CurrentRecord]
           ws == <<t>>
           S  == {t}
<1>1. /\ h # None /\ h \in Hashes /\ UNCHANGED sealed /\ IsOpen(d)
      /\ Pulls(d, sync, ws, h)
  BY TypesOf DEF PullSame, IsOpen, Typed
<1>2. /\ store \in [Device -> Stores] /\ vault \in [Device -> Hash]
      /\ store[d] \in Stores
  BY TypesOf DEF Typed
<1>3. /\ t.container = store[d].container /\ t.slot = store[d].slot
      /\ t.pinned = store[d].pinned
  BY <1>2 DEF Stores
<1>4. Turn(d, ws, h) /\ UNCHANGED records
  BY <1>1, PullsGo
<1>5. Hands(d)
  BY <1>1, HandsAre DEF Pulls
<1> HIDE DEF t
<1>6. t \in S
  OBVIOUS
<1> HIDE DEF S
<1>7. ws \in Seq(S) /\ Len(ws) > 0
  BY <1>6
<1> HIDE DEF ws, h
<1>8. /\ \E s \in {store[d]} \cup S : store' = [store EXCEPT ![d] = s]
      /\ \E v \in {vault[d], h, None} : vault' = [vault EXCEPT ![d] = v]
  BY <1>2, <1>4, <1>7, TurnWrites
<1>9. \E v \in {vault[d], None} : vault' = [vault EXCEPT ![d] = v]
  BY <1>8 DEF h
<1>10. PICK s \in {store[d], t} : store' = [store EXCEPT ![d] = s]
  BY <1>8 DEF S
<1>11. /\ s.container = store[d].container /\ s.slot = store[d].slot
       /\ s.pinned = store[d].pinned
  BY <1>3, <1>10
<1>12. Marks(d)
  <2>1. vault[d] # None /\ vault[d] \in Hashes
    BY <1>1 DEF h
  <2> QED
    BY <1>1, <1>4, <1>9, <1>10, <1>11, <2>1, NotedMarks
<1> QED
  BY <1>5, <1>12 DEF Does

\* and its MSK is pinned, when the host has accepted it.
LEMMA PushStoredDoes ==
  ASSUME Typed, NEW d \in Device, PushStored(d)
  PROVE  Does(d)
<1> DEFINE h  == vault[d]
           ws == Marking(store[d], h)
           M  == Markings(d, h)
<1>1. /\ h # None /\ h \in Hashes /\ UNCHANGED sealed
      /\ records' = records \/ records' = Append(records, h)
  BY TypesOf
     DEF PushStored, Offering, Typed, CallsHaveVaults, HostAccepts
<1>2. \/ Wrote(d, ws, h) /\ Return(d) /\ UNCHANGED <<inHand, faults>>
      \/ CutShort(d, ws)
  BY DEF PushStored
<1>3. /\ store[d] \in M /\ ws \in Seq(M) /\ Len(ws) = 3 /\ ws[3] \in M
      /\ ws[3].pinned = MskOf(h)
  BY <1>1, MarkingWrites
<1>4. store \in [Device -> Stores] /\ vault \in [Device -> Hash]
  BY TypesOf DEF Typed
<1>5. Hands(d) /\ Turn(d, ws, h)
  BY <1>2, HandsAre DEF Turn
<1> HIDE DEF ws, M, h
<1>6. /\ \E s \in {store[d]} \cup M : store' = [store EXCEPT ![d] = s]
      /\ \E v \in {vault[d], h, None} : vault' = [vault EXCEPT ![d] = v]
      /\ ~Torn' => /\ store' = [store EXCEPT ![d] = ws[3]]
                   /\ vault' = [vault EXCEPT ![d] = h]
  <2>1. Len(ws) > 0 /\ ws[Len(ws)] = ws[3]
    BY <1>3
  <2>2. /\ \E s \in {store[d]} \cup M : store' = [store EXCEPT ![d] = s]
        /\ \E v \in {vault[d], h, None} : vault' = [vault EXCEPT ![d] = v]
        /\ ~Torn' => /\ store' = [store EXCEPT ![d] = ws[Len(ws)]]
                     /\ vault' = [vault EXCEPT ![d] = h]
                     /\ UNCHANGED faults
    <3>1. ws \in Seq(M)
      BY <1>3
    <3> QED
      BY <1>4, <1>5, <2>1, <3>1, TurnWrites
  <2> QED
    BY <2>1, <2>2
<1>7. \E v \in {vault[d], None} : vault' = [vault EXCEPT ![d] = v]
  BY <1>6 DEF h
<1>8. Marks(d)
  <2>1. PICK s \in M : /\ store' = [store EXCEPT ![d] = s]
                       /\ ~Torn' => s = ws[3]
    <3>1. CASE Torn'
      BY <1>3, <1>6, <3>1
    <3>2. CASE ~Torn'
      BY <1>3, <1>6, <3>2
    <3> QED
      BY <3>1, <3>2
  <2>2. /\ s.container = store[d].container /\ s.slot = store[d].slot
        /\ s.pinned \in {store[d].pinned, MskOf(h)}
    BY <2>1 DEF M, Markings
  <2>3. ~Torn' => s.pinned = MskOf(vault[d])
    BY <1>3, <2>1 DEF h
  <2>4. s.pinned \in {store[d].pinned, MskOf(vault[d])} /\ vault[d] \in Hashes
    BY <1>1, <2>2 DEF h
  <2> QED
    BY <1>1, <1>7, <2>1, <2>2, <2>3, <2>4, NotedMarks DEF h
<1> QED
  BY <1>5, <1>8 DEF Does

\* A merge onto x takes its MSK from either side, and its slots.
LEMMA MergeTakes ==
  ASSUME NEW x \in Hashes, NEW y \in Hashes, NEW g \in Merges(x, y)
  PROVE  /\ g.msk \in {sealed[x].msk, sealed[y].msk}
         /\ sealed[x].slots \subseteq g.slots
         /\ g.slots \subseteq sealed[x].slots \cup sealed[y].slots
<1>1. PICK S \in {sealed[x].slots, sealed[x].slots \cup sealed[y].slots},
           m \in {sealed[x].msk, sealed[y].msk} :
        g = [gen     |-> sealed[x].gen + 1,
             prev    |-> x,
             changes |-> sealed[x].changes \cup sealed[y].changes,
             slots   |-> S,
             msk     |-> m]
  BY DEF Merges
<1>2. g.slots = S /\ g.msk = m
  BY <1>1
<1> QED
  BY <1>1, <1>2

\* A pull that merges the open vault onto the head.
LEMMA PullMergeDoes ==
  ASSUME Typed, NEW d \in Device, NEW sync \in BOOLEAN, PullMerge(d, sync)
  PROVE  Does(d)
<1> DEFINE h  == CurrentRecord
           ws == Persisting(store[d], NewHash)
<1>1. /\ vault[d] # None /\ vault[d] \in Hashes /\ h \in Hashes /\ h # None
      /\ IsOpen(d) /\ Accepts(d, h)
      /\ Pulls(d, sync, ws, NewHash)
  BY TypesOf, RecordNumber DEF PullMerge, IsOpen, Typed
<1>2. PICK g \in Merges(h, vault[d]) : sealed' = Append(sealed, g)
  BY DEF PullMerge
<1>3. g \in Sealable
  BY <1>1, MergeIsSealable
<1>4. Merged(d, g)
  BY <1>1, MergeTakes DEF Merged
<1>5. NewHash # None
  BY <1>2, <1>3, SealedIsNew, TypesOf DEF Typed, Sealable
<1> HIDE DEF ws
<1>6. UNCHANGED records /\ Turn(d, ws, NewHash)
  BY <1>1, <1>5, PullsGo
<1>7. Hands(d)
  BY <1>1, HandsAre DEF Pulls
<1>8. Shelves(d, store[d].pinned)
  BY <1>6, ShelvesOnly DEF ws
<1> QED
  BY <1>1, <1>2, <1>3, <1>4, <1>6, <1>7, <1>8 DEF Does, Makes

\* A push that resolves a conflict.
LEMMA ConflictDoes ==
  ASSUME Typed, NEW d \in Device,
         PushRestart(d) \/ PushRechain(d) \/ PushMerge(d)
  PROVE  Does(d)
<1> DEFINE h == CurrentRecord
           g == sealed[vault[d]]
<1>1. /\ vault[d] # None /\ vault[d] \in Hashes /\ g \in Generation
      /\ Opens(d, vault[d]) <=> store[d].slot \in g.slots
  BY TypesOf
     DEF PushRestart, PushRechain, PushMerge, Offering, Reading, Typed,
         CallsHaveVaults, Opens
<1>2. ASSUME NEW e \in Sealable, Resolve(d, e), Edited(d, e) \/ Merged(d, e)
      PROVE  Does(d)
  <2> DEFINE ws == Persisting(store[d], NewHash)
  <2>1. /\ sealed' = Append(sealed, e) /\ UNCHANGED records
        /\ \/ Wrote(d, ws, NewHash) /\ UNCHANGED <<inHand, faults>>
           \/ CutShort(d, ws)
    BY <1>2 DEF Resolve
  <2> HIDE DEF ws
  <2>2. Turn(d, ws, NewHash) /\ Hands(d)
    BY <2>1, HandsAre DEF Turn
  <2>3. Shelves(d, store[d].pinned)
    BY <2>2, ShelvesOnly DEF ws
  <2> QED
    BY <1>1, <1>2, <2>1, <2>2, <2>3 DEF Does, Makes
<1>3. ASSUME NEW n \in Nat \ {0}, NEW p \in Hash,
             Resolve(d, Rechained(vault[d], n, p)), GoesOn(d)
      PROVE  Does(d)
  <2> DEFINE e == Rechained(vault[d], n, p)
  <2>1. e \in Sealable /\ e.slots = g.slots
    BY <1>1, RechainedIsSealable
  <2>2. e.msk = g.msk
    BY <1>1 DEF Rechained, Generation
  <2> HIDE DEF e
  <2>3. Edited(d, e)
    BY <1>1, <1>3, <2>1, <2>2 DEF Edited
  <2> QED
    BY <1>2, <1>3, <2>1, <2>3 DEF e
<1>4. CASE PushRestart(d)
  <2>1. Resolve(d, Rechained(vault[d], 1, None)) /\ None \in Hash
        /\ 1 \in Nat \ {0} /\ GoesOn(d)
    BY <1>4 DEF PushRestart, Hash, GoesOn
  <2> QED
    BY <1>3, <2>1
<1>5. CASE PushRechain(d)
  <2>1. /\ h # None /\ Resolve(d, Rechained(vault[d], Gen(h) + 1, h))
        /\ GoesOn(d)
    BY <1>5 DEF PushRechain, Reading, GoesOn
  <2>2. Gen(h) + 1 \in Nat \ {0} /\ h \in Hash
    BY <2>1, RecordNumber, TypesOf DEF Typed
  <2> QED
    BY <1>3, <2>1, <2>2
<1>6. CASE PushMerge(d)
  <2>1. h # None /\ Accepts(d, h) /\ h \in Hashes
    BY <1>6, RecordNumber DEF PushMerge, Reading
  <2>2. PICK e \in Merges(h, vault[d]) : Resolve(d, e)
    BY <1>6 DEF PushMerge
  <2>3. e \in Sealable
    BY <1>1, <2>1, MergeIsSealable
  <2>4. Merged(d, e)
    BY <1>1, <2>1, MergeTakes DEF Merged
  <2> QED
    BY <1>2, <2>2, <2>3, <2>4
<1> QED
  BY <1>4, <1>5, <1>6

\* clear() forgets.
LEMMA ClearDoes ==
  ASSUME Typed, NEW d \in Device, Clear(d)
  PROVE  Does(d)
<1> DEFINE s  == store[d]
           s1 == [s EXCEPT !.container = None]
           s2 == [s EXCEPT !.container = None, !.slot = None]
           s3 == [Empty EXCEPT !.base = s.base, !.pinned = s.pinned]
           s4 == [Empty EXCEPT !.pinned = s.pinned]
           ws == <<s1, s2, s3, s4, Empty>>
           S  == {s1, s2, s3, s4, Empty}
<1>1. /\ store \in [Device -> Stores] /\ vault \in [Device -> Hash]
      /\ s \in Stores
  BY TypesOf DEF Typed
<1>2. UNCHANGED <<sealed, records>>
  BY DEF Clear
<1>3. \/ Wrote(d, ws, None) /\ UNCHANGED <<pc, attempt, inHand, faults>>
      \/ CutShort(d, ws)
  BY DEF Clear
<1>4. s1.container = None /\ s1.slot = s.slot /\ s1.pinned = s.pinned
  BY <1>1 DEF Stores
<1>5. s2.container = None /\ s2.slot = None
  BY <1>1 DEF Stores
<1>6. /\ s3.container = None /\ s3.slot = None
      /\ s4.container = None /\ s4.slot = None
      /\ Empty.container = None /\ Empty.slot = None
  BY DEF Empty
<1> HIDE DEF s1, s2, s3, s4
<1>7. ws \in Seq(S) /\ Len(ws) = 5 /\ ws[5] = Empty
  <2>1. s1 \in S /\ s2 \in S /\ s3 \in S /\ s4 \in S /\ Empty \in S
    OBVIOUS
  <2> HIDE DEF S
  <2> QED
    BY <2>1
<1>8. \A t \in {s} \cup S : /\ t.container \in {s.container, None}
                            /\ \/ t.slot = None
                               \/ t.slot = s.slot /\ t.pinned = s.pinned
  BY <1>4, <1>5, <1>6
<1> HIDE DEF S, ws, s
<1>9. Turn(d, ws, None) /\ Hands(d)
  BY <1>3, HandsAre DEF Turn
<1>10. Len(ws) > 0 /\ ws[Len(ws)] = Empty /\ ws \in Seq(S)
  BY <1>7
<1>11. /\ \E t \in {store[d]} \cup S : store' = [store EXCEPT ![d] = t]
       /\ \E v \in {vault[d], None} : vault' = [vault EXCEPT ![d] = v]
       /\ ~Torn' => store' = [store EXCEPT ![d] = Empty]
  BY <1>1, <1>9, <1>10, TurnWrites
<1>12. PICK t \in {s} \cup S : /\ store' = [store EXCEPT ![d] = t]
                               /\ Torn' \/ t = Empty
  <2>1. Empty \in S
    BY DEF S
  <2> QED
    BY <1>11, <2>1 DEF s
<1> QED
  BY <1>2, <1>8, <1>9, <1>11, <1>12 DEF Does, Clears, s

\* adopt() seals a child of the vault in hand.
LEMMA AdoptDoes ==
  ASSUME Typed, NEW d \in Device, NEW storedOnHost \in BOOLEAN,
         Adopt(d, storedOnHost)
  PROVE  Does(d)
<1> DEFINE old     == sealed[inHand[d]]
           new     == [old EXCEPT !.gen = @ + 1, !.prev = inHand[d],
                                  !.slots = @ \cup {NewHash}]
           s       == store[d]
           known   == IF storedOnHost THEN inHand[d] ELSE None
           keyed   == [s EXCEPT !.slot = None]
           slotted == [s EXCEPT !.slot = NewHash]
           noted   == [slotted EXCEPT !.synced = known]
           last    == [noted EXCEPT !.container = NewHash]
           pre     == <<keyed, slotted, noted>>
           S       == {s, keyed, slotted, noted}
<1>1. /\ inHand[d] # None /\ inHand[d] \in Hashes
      /\ sealed' = Append(sealed, new) /\ UNCHANGED records
      /\ s \in Stores
  BY TypesOf DEF Adopt, Typed
<1>2. /\ new \in Sealable /\ new.msk = old.msk
      /\ new.slots = old.slots \cup {NewHash}
  <2>1. old \in Generation /\ inHand[d] \in Nat /\ NewHash \in Nat
    <3>1. sealed \in Seq(Generation) /\ old \in Generation
      BY <1>1, TypesOf DEF Typed
    <3> QED
      BY <1>1, <3>1 DEF Hashes, NewHash
  <2>2. old.msk.made \in Hashes
    BY <1>1 DEF Typed, MsksAreMade
  <2> HIDE DEF old
  <2> HIDE DEF NewHash, Hashes
  <2>3. /\ old.gen + 1 \in Nat \ {0} /\ old.slots \cup {NewHash} \subseteq Nat
        /\ inHand[d] \in Nat \cup {Unstored}
    BY <2>1 DEF Generation
  <2>4. new \in Generation
    BY <2>1, <2>3 DEF Generation
  <2>5. /\ new.slots = old.slots \cup {NewHash} /\ new.msk = old.msk
    BY <2>1 DEF Generation
  <2> QED
    BY <2>2, <2>4, <2>5 DEF Sealable
<1> HIDE DEF new, known, s
<1>3. keyed.slot = None /\ keyed.container = s.container
      /\ keyed.pinned = s.pinned
  BY <1>1 DEF Stores
<1>4. slotted.slot = NewHash /\ slotted.container = s.container
      /\ slotted.pinned = s.pinned
  BY <1>1 DEF Stores
<1>5. /\ noted.slot = NewHash /\ noted.container = s.container
      /\ noted.pinned = s.pinned
      /\ last.slot = NewHash /\ last.container = NewHash
      /\ last.pinned = s.pinned
  BY <1>1 DEF Stores
<1>6. \/ /\ Wrote(d, pre \o <<last>>, NewHash)
         /\ inHand' = [inHand EXCEPT ![d] = None]
         /\ UNCHANGED <<pc, attempt, faults>>
      \/ CutShort(d, pre \o <<last>>)
  BY DEF Adopt, Persisting, known, s
<1> HIDE DEF keyed, slotted, noted, last
<1>7. s \in S /\ pre \in Seq(S)
  <2>1. s \in S /\ keyed \in S /\ slotted \in S /\ noted \in S
    OBVIOUS
  <2> HIDE DEF S
  <2> QED
    BY <2>1
<1>8. \A t \in S : /\ t.pinned = s.pinned /\ t.container = s.container
                   /\ t.slot \in {s.slot, None, NewHash}
  BY <1>3, <1>4, <1>5
<1> HIDE DEF S, pre
<1>9. Hands(d) /\ Turn(d, pre \o <<last>>, NewHash)
  BY <1>6, HandsAre DEF Turn
<1>10. Outcome(d, S, last, NewHash)
  BY <1>7, <1>9, TurnOutcome DEF s
<1>11. /\ \E g \in Sealable :
            /\ sealed' = Append(sealed, g)
            /\ g.msk = sealed[inHand[d]].msk
            /\ g.slots = sealed[inHand[d]].slots \cup {NewHash}
       /\ inHand[d] # None /\ UNCHANGED records
  BY <1>1, <1>2
<1> HIDE DEF NewHash
<1>12. Adopts(d)
  <2>1. CASE store' = [store EXCEPT ![d] = last]
             /\ vault' = [vault EXCEPT ![d] = NewHash]
    BY <1>5, <1>11, <2>1 DEF Adopts, s
  <2>2. CASE /\ Torn'
             /\ \E t \in S : store' = [store EXCEPT ![d] = t]
             /\ \E v \in {vault[d], None} : vault' = [vault EXCEPT ![d] = v]
    BY <1>8, <1>11, <2>2 DEF Adopts, s
  <2> QED
    BY <1>10, <2>1, <2>2 DEF Outcome
<1> QED
  BY <1>9, <1>12 DEF Does

\* Whatever happens, one device does something of a known kind.
LEMMA StepDoes ==
  ASSUME Typed, Next
  PROVE  \E d \in Device : Does(d)
<1>1. CASE HostGoesBack
  BY <1>1, CreatorAssumption, QuietDoes
<1>2. ASSUME NEW d \in Device,
             \/ \/ Open(d) \/ ReceiveVault(d) \/ Push(d) \/ PushNothing(d)
                \/ PushConflict(d) \/ PushRefused(d) \/ HostCallFails(d)
                \/ AnswerLost(d) \/ Crash(d)
             \/ Edits(d)
             \/ Clear(d)
             \/ \E storedOnHost \in BOOLEAN : Adopt(d, storedOnHost)
             \/ \E sync \in BOOLEAN : PullSame(d, sync)
             \/ \E sync \in BOOLEAN : PullForward(d, sync)
             \/ \E sync \in BOOLEAN : PullMerge(d, sync)
             \/ PushRestart(d) \/ PushRechain(d) \/ PushMerge(d)
             \/ PushStored(d)
      PROVE  Does(d)
  <2>1. CASE \/ Open(d) \/ ReceiveVault(d) \/ Push(d) \/ PushNothing(d)
             \/ PushConflict(d) \/ PushRefused(d) \/ HostCallFails(d)
             \/ AnswerLost(d) \/ Crash(d)
    BY <2>1, QuietDoes
  <2>2. CASE Edits(d)
    BY <2>2, EditDoes
  <2>3. CASE Clear(d)
    BY <2>3, ClearDoes
  <2>4. CASE \E storedOnHost \in BOOLEAN : Adopt(d, storedOnHost)
    BY <2>4, AdoptDoes
  <2>5. CASE \E sync \in BOOLEAN : PullSame(d, sync)
    BY <2>5, PullSameDoes
  <2>6. CASE \E sync \in BOOLEAN : PullForward(d, sync)
    BY <2>6, PullForwardDoes
  <2>7. CASE \E sync \in BOOLEAN : PullMerge(d, sync)
    BY <2>7, PullMergeDoes
  <2>8. CASE PushRestart(d) \/ PushRechain(d) \/ PushMerge(d)
    BY <2>8, ConflictDoes
  <2>9. CASE PushStored(d)
    BY <2>9, PushStoredDoes
  <2> QED
    BY <1>2, <2>1, <2>2, <2>3, <2>4, <2>5, <2>6, <2>7, <2>8, <2>9
<1> QED
  BY <1>1, <1>2, StepCases

-----------------------------------------------------------------------------
(* What a device stores it opens.                                          *)

\* What a step leaves stored, if it stores another vault.
LEMMA NextOpens ==
  ASSUME Typed, Next, NEW e \in Device,
         NEW c, c = store'[e].container, c \notin {None, store[e].container}
  PROVE  \/ store'[e].slot \in sealed'[c].slots
         \/ RemoveDevice(e, store[e].slot)
         \/ vault[e] # None /\ ~Opens(e, vault[e]) /\ GoesOn(e)
<1>1. PICK d \in Device : Does(d)
  BY StepDoes
<1>2. /\ sealed \in Seq(Generation) /\ store \in [Device -> Stores]
  BY TypesOf DEF Typed
<1>3. e = d
  <2>1. \E s : store' = [store EXCEPT ![d] = s]
    <3>1. store = [store EXCEPT ![d] = store[d]]
      BY <1>2
    <3> QED
      BY <1>1, <3>1
         DEF Does, Makes, Shelves, Marks, Adopts, Clears, Idles
  <2> QED
    BY <1>2, <2>1
<1>4. CASE Makes(d)
  <2>1. PICK g \in Sealable :
          /\ sealed' = Append(sealed, g)
          /\ \/ Edited(d, g) \/ Rotated(d, g) \/ Hybridized(d, g)
             \/ Merged(d, g) \/ Revoked(d, g)
          /\ \E p : Shelves(d, p)
    BY <1>4 DEF Makes
  <2>2. c = NewHash /\ store'[d].slot = store[d].slot
    BY <1>2, <1>3, <2>1 DEF Shelves
  <2>3. sealed'[c] = g
    BY <1>2, <2>1, <2>2, SealedIsNew DEF Sealable
  <2>4. vault[d] # None
    BY <1>4 DEF Makes
  <2>5. CASE Edited(d, g)
    BY <1>3, <2>2, <2>3, <2>4, <2>5 DEF Edited
  <2>6. CASE Rotated(d, g) \/ Revoked(d, g)
    BY <1>3, <2>2, <2>3, <2>6 DEF Rotated, Revoked
  <2>7. CASE Hybridized(d, g)
    BY <1>3, <2>2, <2>3, <2>4, <2>7 DEF Hybridized, Opens
  <2>8. CASE Merged(d, g)
    BY <1>3, <2>2, <2>3, <2>8 DEF Merged, Accepts, Opens
  <2> QED
    BY <2>1, <2>5, <2>6, <2>7, <2>8
<1>5. CASE Marks(d)
  <2>1. /\ c = CurrentRecord /\ Accepts(d, c) /\ sealed' = sealed
        /\ store'[d].slot = store[d].slot
    BY <1>2, <1>3, <1>5 DEF Marks
  <2> QED
    BY <1>3, <2>1 DEF Accepts, Opens
<1>6. CASE Adopts(d)
  <2>1. PICK g \in Sealable : /\ sealed' = Append(sealed, g)
                              /\ NewHash \in g.slots
    BY <1>6 DEF Adopts
  <2>2. c = NewHash /\ store'[d].slot = NewHash
    BY <1>2, <1>3, <1>6 DEF Adopts
  <2>3. sealed'[c] = g
    BY <1>2, <2>1, <2>2, SealedIsNew DEF Sealable
  <2> QED
    BY <1>3, <2>1, <2>2, <2>3
<1>7. CASE Clears(d) \/ Idles(d)
  BY <1>2, <1>3, <1>7 DEF Clears, Idles
<1> QED
  BY <1>1, <1>4, <1>5, <1>6, <1>7 DEF Does

\* A device opens what it stores, under all faults: what it merges or takes
\* over has its slot, what it adopts comes after a new one, and what it makes of
\* its open vault keeps the slot, unless the slot is what it removes, or what
\* that vault had lost.
THEOREM StoredOpens == Spec => StoredVaultOpens
<1> DEFINE Stored ==
      \A d \in Device :
        LET c == store'[d].container
            lost == vault[d] # None /\ ~Opens(d, vault[d])
        IN c \notin {None, store[d].container}
             => \/ store'[d].slot \in sealed'[c].slots
                \/ RemoveDevice(d, store[d].slot)
                \/ lost /\ (Edits(d) \/ PushRestart(d) \/ PushRechain(d))
<1>1. Typed /\ [Next]_vars => [Stored]_vars
  <2>1. Typed /\ Next => Stored
    BY NextOpens DEF GoesOn
  <2> QED
    BY <2>1
<1>2. StoredVaultOpens <=> [][Stored]_vars
  BY DEF StoredVaultOpens
<1> HIDE DEF Stored
<1> QED
  BY <1>1, <1>2, AlwaysTyped, PTL DEF Spec

-----------------------------------------------------------------------------
(* What is somewhere.                                                      *)

\* What d has is somewhere, and so is the head.
LEMMA LiveOnes ==
  ASSUME Typed, NEW d \in Device
  PROVE  /\ Own(d) \subseteq Live /\ Own(d) \subseteq Hashes
         /\ inHand[d] # None => inHand[d] \in Live
         /\ CurrentRecord # None => CurrentRecord \in Live
<1>1. /\ Own(d) \subseteq Hashes
      /\ inHand[d] # None => inHand[d] \in Hashes
  BY TypesOf DEF Typed, Own, Stores, Hash
<1>2. CurrentRecord # None => CurrentRecord \in Hashes /\ Recorded(CurrentRecord)
  BY RecordNumber DEF Recorded
<1> QED
  BY <1>1, <1>2 DEF Live

\* A head that d accepts comes from the same revocation as what d has.
LEMMA HeadRoot ==
  ASSUME Typed, MsksAreKnown, OneRoot, NEW d \in Device,
         CurrentRecord # None, Accepts(d, CurrentRecord), NEW y \in Own(d)
  PROVE  Root(CurrentRecord) = Root(y)
<1> DEFINE h == CurrentRecord
<1>1. h \in Hashes /\ h \in Live
  BY RecordNumber, LiveOnes
<1>2. store[d].slot \in sealed[h].slots /\ store[d].pinned \in {None, MskOf(h)}
  BY DEF Accepts, Opens, MskAccepted
<1>3. Root(MskOf(h)) = Root(h)
  BY <1>1, RootType
<1> HIDE DEF h
<1> QED
  BY <1>1, <1>2, <1>3 DEF OneRoot, RootShared, h

\* Where a new generation gets its MSK from.
LEMMA NewRoot ==
  ASSUME Typed, MsksAreKnown, NEW g \in Sealable, sealed' = Append(sealed, g),
         NEW n, n = NewHash
  PROVE  /\ sealed'[n] = g /\ n \notin Hash /\ n \in Hashes'
         /\ \A h \in Hashes : n > h
         /\ \A z \in Hashes : /\ ~sealed[z].msk.hybrid /\ g.prev = z
                              /\ g.msk = [made |-> n, hybrid |-> TRUE]
                              => Root(n)' = Root(z)
         /\ g.msk = [made |-> n, hybrid |-> FALSE] => Root(n)' = n
<1>1. /\ Seals /\ sealed \in Seq(Generation) /\ g \in Generation
  BY TypesOf DEF Seals, Typed, Sealable
<1>2. /\ sealed'[n] = g /\ n \notin Hash /\ n \in Hashes'
      /\ \A h \in Hashes : n > h
  BY <1>1 DEF NewHash, Hashes, Hash, None
<1>3. \A h \in Hashes : sealed'[h] = sealed[h] /\ Root(h)' = Root(h)
  BY <1>1, RootsStay, ChangesStay
<1>5. ASSUME NEW z \in Hashes, ~sealed[z].msk.hybrid, g.prev = z,
             g.msk = [made |-> n, hybrid |-> TRUE]
      PROVE  Root(n)' = Root(z)
  <2>1. sealed'[n].msk.hybrid /\ sealed'[n].msk.made = n /\ sealed'[n].prev = z
    BY <1>2, <1>5
  <2>2. Root(n)' = MskOf(z)'
    BY <2>1 DEF Root
  <2>3. MskOf(z)' = sealed[z].msk.made /\ Root(z) = sealed[z].msk.made
    BY <1>3, <1>5 DEF MskOf, Root
  <2> QED
    BY <2>2, <2>3
<1>6. ASSUME g.msk = [made |-> n, hybrid |-> FALSE]
      PROVE  Root(n)' = n
  <2>1. ~sealed'[n].msk.hybrid /\ sealed'[n].msk.made = n
    BY <1>2, <1>6
  <2> QED
    BY <2>1 DEF Root
<1> QED
  BY <1>2, <1>5, <1>6

\* The MSK of another generation comes from where it did.
LEMMA SameRoot ==
  ASSUME Typed, MsksAreKnown, NEW g \in Sealable, sealed' = Append(sealed, g),
         NEW n, n = NewHash, NEW z \in Hashes, g.msk = sealed[z].msk
  PROVE  Root(n)' = Root(z)
<1>1. /\ Seals /\ sealed \in Seq(Generation) /\ g \in Generation
  BY TypesOf DEF Seals, Typed, Sealable
<1>2. sealed'[n] = g
  BY <1>1 DEF NewHash
<1>3. sealed'[z] = sealed[z] /\ Root(z)' = Root(z)
  BY <1>1, RootsStay, ChangesStay
<1>4. sealed'[n].msk = sealed'[z].msk
  BY <1>2, <1>3
<1>5. Root(n)' = Root(z)'
  BY <1>4 DEF Root
<1> QED
  BY <1>3, <1>5

\* A slot of a live generation with the MSK r.
FromLive(r, slot) == \E z \in Live : slot \in sealed[z].slots /\ Root(z) = r

\* The slots of a new generation n are those of live ones with its MSK, or
\* the maker's.
NewSlots(d, n) ==
  \A slot \in sealed'[n].slots :
    \/ slot = n
    \/ FromLive(Root(n)', slot)
    \/ /\ slot = store[d].slot /\ slot # None
       /\ \/ Root(n)' = n
          \/ Root(n)' \in Hashes /\ KeptBy(slot, Root(n)')

\* What a device makes of the vault it has,
LEMMA MadeSlots ==
  ASSUME Typed, Tidy, NEW d \in Device, vault[d] # None,
         NEW g \in Sealable, sealed' = Append(sealed, g), NEW n, n = NewHash,
         Edited(d, g) \/ Rotated(d, g) \/ Hybridized(d, g) \/ Merged(d, g)
  PROVE  /\ Root(n)' = Root(vault[d]) /\ NewSlots(d, n)
         /\ Root(n)' \in Hashes
         /\ store[d].slot # None => KeptBy(store[d].slot, Root(n)')
<1> DEFINE v == vault[d]
           r == Root(v)
<1>1. /\ v \in Own(d) /\ v \in Live /\ v \in Hashes
  BY LiveOnes DEF Own
<1>2. /\ sealed'[n] = g
      /\ \A z \in Hashes : g.msk = sealed[z].msk => Root(n)' = Root(z)
  <2>1. MsksAreKnown
    BY DEF Tidy
  <2>2. sealed'[n] = g
    BY <2>1, NewRoot
  <2>3. ASSUME NEW z \in Hashes, g.msk = sealed[z].msk
        PROVE  Root(n)' = Root(z)
    BY <2>1, <2>3, SameRoot
  <2> QED
    BY <2>2, <2>3
<1>3. r \in Hashes /\ (store[d].slot # None => KeptBy(store[d].slot, r))
  BY <1>1, RootType DEF Tidy, SlotsHeld, SlotHeld
<1>4. \A slot \in sealed[v].slots : FromLive(r, slot)
  BY <1>1 DEF FromLive
<1>5. CASE Edited(d, g)
  <2>1. Root(n)' = r
    BY <1>1, <1>2, <1>5 DEF Edited
  <2> QED
    BY <1>2, <1>3, <1>4, <1>5, <2>1 DEF Edited, NewSlots
<1>6. CASE Rotated(d, g)
  <2>1. Root(n)' = r
    BY <1>1, <1>2, <1>6 DEF Rotated
  <2> QED
    BY <1>2, <1>3, <1>4, <1>6, <2>1 DEF Rotated, NewSlots
<1>7. CASE Hybridized(d, g)
  <2>1. Root(n)' = r
    BY <1>1, <1>7, NewRoot DEF Hybridized, Tidy
  <2> QED
    BY <1>2, <1>3, <1>4, <1>7, <2>1 DEF Hybridized, NewSlots
<1>8. CASE Merged(d, g)
  <2> DEFINE h == CurrentRecord
  <2>1. h # None /\ h \in Live /\ h \in Hashes /\ Root(h) = r
    BY <1>1, <1>8, LiveOnes, RecordNumber, HeadRoot DEF Merged, Tidy
  <2>2. Root(n)' = r
    BY <1>1, <1>2, <1>8, <2>1 DEF Merged
  <2>3. \A slot \in g.slots : FromLive(r, slot)
    BY <1>1, <1>8, <2>1 DEF Merged, FromLive
  <2> QED
    BY <1>2, <1>3, <2>2, <2>3 DEF NewSlots
<1> QED
  BY <1>5, <1>6, <1>7, <1>8

\* of what it revokes,
LEMMA RevokedSlots ==
  ASSUME Typed, Tidy, NEW d \in Device,
         NEW g \in Sealable, sealed' = Append(sealed, g), NEW n, n = NewHash,
         Revoked(d, g)
  PROVE  Root(n)' = n /\ NewSlots(d, n) /\ store[d].slot \in g.slots
<1>1. sealed'[n] = g /\ Root(n)' = n
  BY NewRoot DEF Tidy, Revoked
<1> QED
  BY <1>1 DEF NewSlots, Revoked

\* and of what it adopts.
LEMMA AdoptedSlots ==
  ASSUME Typed, Tidy, NEW d \in Device, inHand[d] # None,
         NEW g \in Sealable, sealed' = Append(sealed, g), NEW n, n = NewHash,
         g.msk = sealed[inHand[d]].msk,
         g.slots = sealed[inHand[d]].slots \cup {NewHash}
  PROVE  NewSlots(d, n) /\ n \in g.slots
<1>1. inHand[d] \in Live /\ inHand[d] \in Hashes
  BY LiveOnes DEF Live
<1>2. /\ sealed'[n] = g
      /\ \A z \in Hashes : g.msk = sealed[z].msk => Root(n)' = Root(z)
  <2>1. MsksAreKnown
    BY DEF Tidy
  <2>2. sealed'[n] = g
    BY <2>1, NewRoot
  <2>3. ASSUME NEW z \in Hashes, g.msk = sealed[z].msk
        PROVE  Root(n)' = Root(z)
    BY <2>1, <2>3, SameRoot
  <2> QED
    BY <2>2, <2>3
<1>3. Root(n)' = Root(inHand[d])
  BY <1>1, <1>2
<1> QED
  BY <1>1, <1>2, <1>3 DEF NewSlots, FromLive

\* A generation with slots and an MSK that are known.
KnownParts(g) ==
  /\ g.slots \subseteq Hashes \cup {NewHash}
  /\ \/ \E z \in Hashes : g.msk = sealed[z].msk
     \/ g.msk = [made |-> NewHash, hybrid |-> FALSE]
     \/ /\ g.msk = [made |-> NewHash, hybrid |-> TRUE]
        /\ g.prev \in Hashes /\ ~sealed[g.prev].msk.hybrid

\* When it is sealed, slots and MSKs stay known.
LEMMA PartsStayKnown ==
  ASSUME Typed, SlotsAreSealed, MsksAreKnown, NEW g \in Sealable,
         sealed' = Append(sealed, g), KnownParts(g)
  PROVE  SlotsAreSealed' /\ MsksAreKnown'
<1> DEFINE n == NewHash
<1>1. Seals /\ sealed \in Seq(Generation) /\ g \in Generation
  BY TypesOf DEF Seals, Typed, Sealable
<1>2. /\ Hashes' = Hashes \cup {n} /\ sealed'[n] = g
      /\ \A h \in Hashes : sealed'[h] = sealed[h]
  BY <1>1, ChangesStay DEF Hashes, NewHash
<1> HIDE DEF n
<1>3. SlotsAreSealed'
  <2> SUFFICES ASSUME NEW h \in Hashes' PROVE sealed'[h].slots \subseteq Hashes'
    BY DEF SlotsAreSealed
  <2>1. CASE h \in Hashes
    BY <1>2, <2>1 DEF SlotsAreSealed
  <2>2. CASE h = n
    BY <1>2, <2>2 DEF KnownParts, n
  <2> QED
    BY <1>2, <2>1, <2>2
<1>4. MsksAreKnown'
  <2> DEFINE Known(k) == /\ k.made \in Hashes' /\ sealed'[k.made].msk = k
                         /\ k.hybrid =>
                              /\ sealed'[k.made].prev \in Hashes'
                              /\ ~sealed'[sealed'[k.made].prev].msk.hybrid
  <2> SUFFICES ASSUME NEW h \in Hashes' PROVE Known(sealed'[h].msk)
    BY DEF MsksAreKnown
  <2>1. ASSUME NEW z \in Hashes PROVE Known(sealed[z].msk)
    <3> DEFINE m == sealed[z].msk
    <3>1. /\ m.made \in Hashes /\ sealed[m.made].msk = m
          /\ m.hybrid => /\ sealed[m.made].prev \in Hashes
                         /\ ~sealed[sealed[m.made].prev].msk.hybrid
      BY DEF MsksAreKnown
    <3> HIDE DEF m
    <3>2. sealed'[m.made] = sealed[m.made] /\ m.made \in Hashes'
      BY <1>2, <3>1
    <3>3. m.hybrid => /\ sealed[m.made].prev \in Hashes'
                      /\ ~sealed'[sealed[m.made].prev].msk.hybrid
      BY <1>2, <3>1
    <3> QED
      BY <3>1, <3>2, <3>3 DEF m
  <2>2. CASE h \in Hashes
    BY <1>2, <2>1, <2>2
  <2>3. CASE h = n
    <3>1. sealed'[h].msk = g.msk /\ sealed'[n].msk = g.msk
          /\ sealed'[n].prev = g.prev /\ n \in Hashes'
      BY <1>2, <2>3
    <3>2. CASE \E z \in Hashes : g.msk = sealed[z].msk
      <4>1. PICK z \in Hashes : g.msk = sealed[z].msk
        BY <3>2
      <4>2. sealed'[h].msk = sealed[z].msk
        BY <3>1, <4>1
      <4> HIDE DEF Known
      <4> QED
        BY <2>1, <4>2
    <3>3. CASE g.msk = [made |-> n, hybrid |-> FALSE]
      <4>1. g.msk.made = n /\ ~g.msk.hybrid
        BY <3>3
      <4> QED
        BY <3>1, <4>1
    <3>4. CASE /\ g.msk = [made |-> n, hybrid |-> TRUE]
               /\ g.prev \in Hashes /\ ~sealed[g.prev].msk.hybrid
      <4>1. g.prev \in Hashes' /\ ~sealed'[g.prev].msk.hybrid
        BY <1>2, <3>4
      <4>2. g.msk.made = n
        BY <3>4
      <4> QED
        BY <3>1, <3>4, <4>1, <4>2
    <3> QED
      BY <3>2, <3>3, <3>4 DEF KnownParts, n
  <2> QED
    BY <1>2, <2>2, <2>3
<1> QED
  BY <1>3, <1>4

\* Every generation that is made has them.
LEMMA TidyGenerations ==
  ASSUME Typed, Tidy, NEW d \in Device, Does(d)
  PROVE  Seals /\ SlotsAreSealed' /\ MsksAreKnown'
<1>1. SlotsAreSealed /\ MsksAreKnown
  BY DEF Tidy
<1>2. CASE UNCHANGED sealed
  <2>1. Hashes' = Hashes
    BY <1>2 DEF Hashes
  <2> QED
    BY <1>1, <1>2, <2>1 DEF Seals, SlotsAreSealed, MsksAreKnown
<1>3. ASSUME NEW g \in Sealable, sealed' = Append(sealed, g), KnownParts(g)
      PROVE  Seals /\ SlotsAreSealed' /\ MsksAreKnown'
  BY <1>1, <1>3, PartsStayKnown DEF Seals
<1>4. CASE Makes(d)
  <2>1. /\ vault[d] \in Hashes
        /\ store[d].slot # None => store[d].slot \in Hashes
    BY <1>4, TypesOf DEF Makes, Typed, Stores, Hash
  <2>2. sealed[vault[d]].slots \subseteq Hashes
    BY <1>1, <2>1 DEF SlotsAreSealed
  <2>3. PICK g \in Sealable :
          /\ sealed' = Append(sealed, g)
          /\ \/ Edited(d, g) \/ Rotated(d, g) \/ Hybridized(d, g)
             \/ Merged(d, g) \/ Revoked(d, g)
    BY <1>4 DEF Makes
  <2>4. CASE Edited(d, g) \/ Rotated(d, g)
    BY <1>3, <2>1, <2>2, <2>3, <2>4 DEF KnownParts, Edited, Rotated
  <2>5. CASE Hybridized(d, g)
    BY <1>3, <2>1, <2>2, <2>3, <2>5 DEF KnownParts, Hybridized
  <2>6. CASE Merged(d, g)
    <3>1. CurrentRecord \in Hashes
      BY <2>6, RecordNumber DEF Merged
    <3>2. sealed[CurrentRecord].slots \subseteq Hashes
      BY <1>1, <3>1 DEF SlotsAreSealed
    <3> QED
      BY <1>3, <2>1, <2>2, <2>3, <2>6, <3>1, <3>2 DEF KnownParts, Merged
  <2>7. CASE Revoked(d, g)
    BY <1>3, <2>1, <2>3, <2>7 DEF KnownParts, Revoked
  <2> QED
    BY <2>3, <2>4, <2>5, <2>6, <2>7
<1>5. CASE Adopts(d)
  <2>1. inHand[d] \in Hashes
    BY <1>5, TypesOf DEF Adopts, Typed, Hash
  <2>2. sealed[inHand[d]].slots \subseteq Hashes
    BY <1>1, <2>1 DEF SlotsAreSealed
  <2>3. PICK g \in Sealable :
          /\ sealed' = Append(sealed, g)
          /\ g.msk = sealed[inHand[d]].msk
          /\ g.slots = sealed[inHand[d]].slots \cup {NewHash}
    BY <1>5 DEF Adopts
  <2> QED
    BY <1>3, <2>1, <2>2, <2>3 DEF KnownParts
<1> QED
  BY <1>2, <1>4, <1>5 DEF Does, Marks, Clears, Idles

\* No two devices get a slot in common, and what is open is stored.
LEMMA TidyDevices ==
  ASSUME Typed, Tidy, NEW d \in Device, Does(d)
  PROVE  SlotsDiffer' /\ OneVault'
<1>1. /\ SlotsDiffer /\ OneVault
      /\ store \in [Device -> Stores] /\ vault \in [Device -> Hash]
  BY TypesOf DEF Tidy, Typed
<1>2. \A e \in Device : store[e].slot # NewHash
  BY TypesOf DEF Typed, Stores, Hash, Hashes, NewHash, None
<1>3. \E s, v :
        /\ store' = [store EXCEPT ![d] = s] /\ vault' = [vault EXCEPT ![d] = v]
        /\ s.slot \in {store[d].slot, None, NewHash}
        /\ \/ s.container = v
           \/ /\ s.container \in {store[d].container, None}
              /\ v \in {vault[d], store[d].container, None}
  <2>1. CASE Makes(d)
    BY <2>1 DEF Makes, Shelves
  <2>2. CASE Marks(d)
    BY <2>2 DEF Marks
  <2>3. CASE Adopts(d)
    BY <2>3 DEF Adopts
  <2>4. CASE Clears(d)
    BY <2>4 DEF Clears
  <2>5. CASE Idles(d)
    <3>1. store' = [store EXCEPT ![d] = store[d]]
      BY <1>1, <2>5 DEF Idles
    <3> QED
      BY <2>5, <3>1 DEF Idles
  <2> QED
    BY <2>1, <2>2, <2>3, <2>4, <2>5 DEF Does
<1>4. PICK s, v :
        /\ store' = [store EXCEPT ![d] = s] /\ vault' = [vault EXCEPT ![d] = v]
        /\ s.slot \in {store[d].slot, None, NewHash}
        /\ \/ s.container = v
           \/ /\ s.container \in {store[d].container, None}
              /\ v \in {vault[d], store[d].container, None}
  BY <1>3
<1>5. /\ store'[d] = s /\ vault'[d] = v
      /\ \A e \in Device \ {d} : store'[e] = store[e] /\ vault'[e] = vault[e]
  BY <1>1, <1>4
<1>6. SlotsDiffer'
  BY <1>1, <1>2, <1>4, <1>5 DEF SlotsDiffer
<1>7. OneVault'
  BY <1>1, <1>4, <1>5 DEF OneVault
<1> QED
  BY <1>6, <1>7

\* The other devices keep what they have, and d has what it had, the head or
\* a new generation.
LEMMA OwnNext ==
  ASSUME Typed, NEW d \in Device, Does(d), NEW n, n = NewHash
  PROVE  /\ \A e \in Device \ {d} : /\ store'[e] = store[e]
                                    /\ vault'[e] = vault[e]
                                    /\ inHand'[e] = inHand[e]
                                    /\ Own(e)' = Own(e)
         /\ inHand'[d] \in {inHand[d], None, CurrentRecord}
         /\ \A y \in Own(d)' :
              \/ y \in Own(d)
              \/ y = CurrentRecord /\ y # None
              \/ y = n /\ store'[d].container = n /\ vault'[d] = n
<1>1. /\ store \in [Device -> Stores] /\ vault \in [Device -> Hash]
      /\ inHand \in [Device -> Hash]
  BY TypesOf DEF Typed
<1>2. \E s, v :
        /\ store' = [store EXCEPT ![d] = s] /\ vault' = [vault EXCEPT ![d] = v]
        /\ \/ s.container = n /\ v = n
           \/ /\ s.container \in {store[d].container, None, CurrentRecord}
              /\ v \in {vault[d], store[d].container, None, CurrentRecord}
           \/ s.container = vault[d] /\ v = vault[d]
  <2>1. CASE Makes(d)
    BY <2>1 DEF Makes, Shelves
  <2>2. CASE Marks(d)
    BY <2>2 DEF Marks
  <2>3. CASE Adopts(d)
    BY <2>3 DEF Adopts
  <2>4. CASE Clears(d)
    BY <2>4 DEF Clears
  <2>5. CASE Idles(d)
    <3>1. store' = [store EXCEPT ![d] = store[d]]
      BY <1>1, <2>5 DEF Idles
    <3> QED
      BY <2>5, <3>1 DEF Idles
  <2> QED
    BY <2>1, <2>2, <2>3, <2>4, <2>5 DEF Does
<1>3. PICK s, v :
        /\ store' = [store EXCEPT ![d] = s] /\ vault' = [vault EXCEPT ![d] = v]
        /\ \/ s.container = n /\ v = n
           \/ /\ s.container \in {store[d].container, None, CurrentRecord}
              /\ v \in {vault[d], store[d].container, None, CurrentRecord}
           \/ s.container = vault[d] /\ v = vault[d]
  BY <1>2
<1>4. PICK h \in {inHand[d], None, CurrentRecord} :
        inHand' = [inHand EXCEPT ![d] = h]
  BY DEF Does, Hands
<1>5. /\ store'[d] = s /\ vault'[d] = v
      /\ inHand'[d] \in {inHand[d], None, CurrentRecord}
  BY <1>1, <1>3, <1>4
<1>6. \A e \in Device \ {d} : /\ store'[e] = store[e] /\ vault'[e] = vault[e]
                              /\ inHand'[e] = inHand[e]
  BY <1>1, <1>3, <1>4
<1>7. \A e \in Device \ {d} : Own(e)' = Own(e)
  BY <1>6 DEF Own
<1>8. Own(d)' = {s.container, v} \ {None}
  BY <1>5 DEF Own
<1>9. ASSUME NEW y \in Own(d)'
      PROVE  \/ y \in Own(d)
             \/ y = CurrentRecord /\ y # None
             \/ y = n /\ store'[d].container = n /\ vault'[d] = n
  BY <1>3, <1>5, <1>8, <1>9 DEF Own
<1> QED
  BY <1>5, <1>6, <1>7, <1>9

\* What is recorded after a step was live before.
LEMMA RecordsLive ==
  ASSUME Typed, Next
  PROVE  \A n \in DOMAIN records' : records'[n] \in Live
<1>1. \A n \in DOMAIN records : records[n] \in Live
  BY TypesOf DEF Typed, Live, Recorded
<1>2. records \in Seq(Hashes)
  BY TypesOf DEF Typed
<1>3. CASE UNCHANGED records
  BY <1>1, <1>3
<1>4. ASSUME UNCHANGED sealed, NEW h \in Hashes, HostAccepts(h),
             NEW d \in Device, h = vault[d]
      PROVE  \A n \in DOMAIN records' : records'[n] \in Live
  <2>1. h \in Live
    BY <1>4 DEF Live, Own, Hashes, None
  <2>2. records' = records \/ records' = Append(records, h)
    BY <1>4, HostHolds
  <2> QED
    BY <1>1, <1>2, <2>1, <2>2
<1>5. ASSUME NEW m \in 0 .. Len(records) - 1, records' = SubSeq(records, 1, m)
      PROVE  \A n \in DOMAIN records' : records'[n] \in Live
  <2>1. /\ DOMAIN records' = 1 .. m
        /\ \A n \in 1 .. m : records'[n] = records[n] /\ n \in DOMAIN records
    BY <1>2, <1>5
  <2> QED
    BY <1>1, <2>1
<1> QED
  BY <1>3, <1>4, <1>5, HostMoves

\* What is somewhere after a step was so before, or is new and stored.
LEMMA LiveNext ==
  ASSUME Typed, Next, NEW d \in Device, Does(d), NEW n, n = NewHash
  PROVE  \A h \in Live' : \/ h \in Live
                          \/ h = n /\ store'[d].container = n /\ vault'[d] = n
<1> DEFINE New(h) == h = n /\ store'[d].container = n /\ vault'[d] = n
<1> SUFFICES ASSUME NEW h \in Live' PROVE h \in Live \/ New(h)
  OBVIOUS
<1>1. /\ \A e \in Device \ {d} : /\ inHand'[e] = inHand[e]
                                 /\ Own(e)' = Own(e)
      /\ inHand'[d] \in {inHand[d], None, CurrentRecord}
      /\ \A y \in Own(d)' : \/ y \in Own(d)
                            \/ y = CurrentRecord /\ y # None
                            \/ New(y)
  BY OwnNext
<1>2. /\ CurrentRecord # None => CurrentRecord \in Live
      /\ \A e \in Device : /\ Own(e) \subseteq Live
                           /\ inHand[e] # None => inHand[e] \in Live
  BY LiveOnes, RecordNumber
<1>3. CASE \E m \in DOMAIN records' : records'[m] = h
  BY <1>3, RecordsLive
<1>4. ASSUME NEW e \in Device, h \in Own(e)'
      PROVE  h \in Live \/ New(h)
  BY <1>1, <1>2, <1>4
<1>5. ASSUME NEW e \in Device, h = inHand'[e], h # None
      PROVE  h \in Live
  BY <1>1, <1>2, <1>5
<1>6. h # None
  BY TypesOf DEF Live, Hashes, None
<1>7. \/ \E m \in DOMAIN records' : records'[m] = h
      \/ \E e \in Device : h \in Own(e)' \cup {inHand'[e]}
  BY DEF Live, Recorded
<1> QED
  BY <1>3, <1>4, <1>5, <1>6, <1>7

\* If it is new, its slots are known.
LEMMA NewLive ==
  ASSUME Typed, Tidy, NEW d \in Device, Does(d), NEW n, n = NewHash,
         store'[d].container = n
  PROVE  NewSlots(d, n) /\ n \in Hashes'
<1>1. store \in [Device -> Stores] /\ n \notin Hash /\ MsksAreKnown
  BY TypesOf DEF Typed, Hash, Hashes, NewHash, None, Tidy
<1>2. store[d].container # n
  BY <1>1 DEF Stores
<1>3. CASE Makes(d)
  <2>1. PICK g \in Sealable :
          /\ sealed' = Append(sealed, g)
          /\ \/ Edited(d, g) \/ Rotated(d, g) \/ Hybridized(d, g)
             \/ Merged(d, g) \/ Revoked(d, g)
    BY <1>3 DEF Makes
  <2>2. vault[d] # None /\ n \in Hashes'
    BY <1>1, <1>3, <2>1, NewRoot DEF Makes
  <2>3. CASE Revoked(d, g)
    BY <2>1, <2>2, <2>3, RevokedSlots
  <2>4. CASE ~Revoked(d, g)
    BY <2>1, <2>2, <2>4, MadeSlots
  <2> QED
    BY <2>3, <2>4
<1>4. CASE Adopts(d)
  <2>1. inHand[d] # None
    BY <1>4 DEF Adopts
  <2>2. PICK g \in Sealable :
          /\ sealed' = Append(sealed, g)
          /\ g.msk = sealed[inHand[d]].msk
          /\ g.slots = sealed[inHand[d]].slots \cup {NewHash}
    BY <1>4 DEF Adopts
  <2>3. n \in Hashes'
    BY <1>1, <2>2, NewRoot
  <2> QED
    BY <2>1, <2>2, <2>3, AdoptedSlots
<1>5. CASE Marks(d) \/ Clears(d) \/ Idles(d)
  <2>1. store'[d].container \in Hash
    <3>1. store[d].container \in Hash /\ None \in Hash
      BY <1>1 DEF Stores, Hash
    <3>2. CASE Marks(d)
      BY <1>1, <3>1, <3>2 DEF Marks, Hash
    <3>3. CASE Clears(d)
      BY <1>1, <3>1, <3>3 DEF Clears
    <3>4. CASE Idles(d)
      BY <3>1, <3>4 DEF Idles
    <3> QED
      BY <1>5, <3>2, <3>3, <3>4
  <2> QED
    BY <1>1, <2>1
<1> QED
  BY <1>3, <1>4, <1>5 DEF Does

\* What a step does to the slot, the pinned MSK and the vault of its device,
\* n being the generation it may make.
DeviceMoves(d, n) ==
  LET s == store'[d]
  IN /\ s.slot \in {store[d].slot, None, n}
     /\ \A y \in Own(d)' :
          \/ y \in Own(d)
          \/ /\ y = CurrentRecord /\ y # None /\ Accepts(d, y)
             /\ s.slot = store[d].slot /\ s.pinned = MskOf(y)
          \/ y = n /\ s.container = n /\ vault'[d] = n
     /\ s.slot # None /\ s.slot = store[d].slot =>
          \/ s.pinned = store[d].pinned
          \/ \E h \in Hashes :
               /\ h = vault[d] \/ (h = CurrentRecord /\ Accepts(d, h))
               /\ s.pinned = MskOf(h)
          \/ s.pinned = n /\ Root(n)' = n
     /\ s.container = n =>
          \/ s.slot = n /\ n \in sealed'[n].slots
          \/ /\ s.slot = store[d].slot /\ vault[d] # None
             /\ \/ s.slot \in sealed'[n].slots /\ Root(n)' = n
                \/ /\ Root(n)' \in Hashes
                   /\ s.slot # None => KeptBy(s.slot, Root(n)')
             /\ \/ s.pinned = store[d].pinned /\ Root(n)' = Root(vault[d])
                \/ s.pinned = n /\ Root(n)' = n

\* A device that makes a generation of its vault moves so,
LEMMA MakesMoves ==
  ASSUME Typed, Tidy, NEW d \in Device, Makes(d), NEW n, n = NewHash
  PROVE  DeviceMoves(d, n)
<1>1. /\ store \in [Device -> Stores] /\ vault \in [Device -> Hash]
      /\ store[d].container # n
  <2>1. store \in [Device -> Stores] /\ vault \in [Device -> Hash]
        /\ n \notin Hash
    BY TypesOf DEF Typed, Hash, Hashes, NewHash, None
  <2> QED
    BY <2>1 DEF Stores
<1>2. PICK g \in Sealable :
        /\ sealed' = Append(sealed, g)
        /\ \/ /\ \/ Edited(d, g) \/ Rotated(d, g) \/ Hybridized(d, g)
                 \/ Merged(d, g)
              /\ Shelves(d, store[d].pinned)
           \/ Revoked(d, g) /\ Shelves(d, NewHash)
  BY DEF Makes
<1>3. vault[d] # None
  BY DEF Makes
<1>4. sealed'[n] = g
  BY <1>2, NewRoot DEF Tidy
<1>5. ASSUME NEW p, Shelves(d, p),
             \/ store[d].slot \in g.slots /\ Root(n)' = n
             \/ /\ Root(n)' \in Hashes
                /\ store[d].slot # None => KeptBy(store[d].slot, Root(n)'),
             \/ p = store[d].pinned /\ Root(n)' = Root(vault[d])
             \/ p = n /\ Root(n)' = n
      PROVE  DeviceMoves(d, n)
  <2>1. PICK s : /\ store' = [store EXCEPT ![d] = s]
                 /\ s.slot = store[d].slot
                 /\ \/ /\ s.container = n /\ s.pinned = p
                       /\ vault' = [vault EXCEPT ![d] = n]
                    \/ /\ s.container = store[d].container
                       /\ s.pinned \in {store[d].pinned, p}
                       /\ \E v \in {vault[d], None} :
                            vault' = [vault EXCEPT ![d] = v]
    BY <1>5 DEF Shelves
  <2>2. store'[d] = s
    BY <1>1, <2>1
  <2>3. CASE /\ s.container = n /\ s.pinned = p
             /\ vault' = [vault EXCEPT ![d] = n]
    <3>1. vault'[d] = n /\ Own(d)' = {n} \ {None}
      BY <1>1, <2>2, <2>3 DEF Own
    <3> QED
      BY <1>3, <1>4, <1>5, <2>1, <2>2, <2>3, <3>1 DEF DeviceMoves
  <2>4. CASE /\ s.container = store[d].container
             /\ s.pinned \in {store[d].pinned, p}
             /\ \E v \in {vault[d], None} : vault' = [vault EXCEPT ![d] = v]
    <3>1. vault'[d] \in {vault[d], None} /\ s.container # n
      BY <1>1, <2>4
    <3>2. Own(d)' \subseteq Own(d)
      BY <2>2, <2>4, <3>1 DEF Own
    <3> QED
      BY <1>5, <2>1, <2>2, <2>4, <3>1, <3>2 DEF DeviceMoves
  <2> QED
    BY <2>1, <2>3, <2>4
<1>6. CASE /\ \/ Edited(d, g) \/ Rotated(d, g) \/ Hybridized(d, g)
              \/ Merged(d, g)
           /\ Shelves(d, store[d].pinned)
  <2>1. /\ Root(n)' = Root(vault[d])
        /\ Root(n)' \in Hashes
        /\ store[d].slot # None => KeptBy(store[d].slot, Root(n)')
    BY <1>2, <1>3, <1>6, MadeSlots
  <2> QED
    BY <1>5, <1>6, <2>1
<1>7. CASE Revoked(d, g) /\ Shelves(d, NewHash)
  <2>1. Root(n)' = n /\ store[d].slot \in g.slots
    BY <1>2, <1>7, RevokedSlots
  <2> QED
    BY <1>5, <1>7, <2>1
<1> QED
  BY <1>2, <1>6, <1>7

\* one that adopts,
LEMMA AdoptsMoves ==
  ASSUME Typed, Tidy, NEW d \in Device, Adopts(d), NEW n, n = NewHash
  PROVE  DeviceMoves(d, n)
<1>1. /\ store \in [Device -> Stores] /\ vault \in [Device -> Hash]
      /\ store[d].container # n /\ store[d].slot # n
  <2>1. store \in [Device -> Stores] /\ vault \in [Device -> Hash]
        /\ n \notin Hash
    BY TypesOf DEF Typed, Hash, Hashes, NewHash, None
  <2> QED
    BY <2>1 DEF Stores
<1>2. PICK s :
        /\ store' = [store EXCEPT ![d] = s]
        /\ s.pinned = store[d].pinned
        /\ \/ /\ s.container = n /\ s.slot = n
              /\ vault' = [vault EXCEPT ![d] = n]
           \/ /\ s.container = store[d].container
              /\ s.slot \in {store[d].slot, None, n}
              /\ \E v \in {vault[d], None} : vault' = [vault EXCEPT ![d] = v]
  BY DEF Adopts
<1>3. store'[d] = s
  BY <1>1, <1>2
<1>4. n \in sealed'[n].slots
  <2>1. PICK g \in Sealable :
          /\ sealed' = Append(sealed, g)
          /\ g.slots = sealed[inHand[d]].slots \cup {NewHash}
    BY DEF Adopts
  <2>2. sealed'[n] = g
    BY <2>1, NewRoot DEF Tidy
  <2> QED
    BY <2>1, <2>2
<1>5. CASE /\ s.container = n /\ s.slot = n
           /\ vault' = [vault EXCEPT ![d] = n]
  <2>1. vault'[d] = n /\ Own(d)' = {n} \ {None}
    BY <1>1, <1>3, <1>5 DEF Own
  <2> QED
    BY <1>1, <1>2, <1>3, <1>4, <1>5, <2>1 DEF DeviceMoves
<1>6. CASE /\ s.container = store[d].container
           /\ s.slot \in {store[d].slot, None, n}
           /\ \E v \in {vault[d], None} : vault' = [vault EXCEPT ![d] = v]
  <2>1. vault'[d] \in {vault[d], None} /\ s.container # n
    BY <1>1, <1>6
  <2>2. Own(d)' \subseteq Own(d)
    BY <1>3, <1>6, <2>1 DEF Own
  <2> QED
    BY <1>2, <1>3, <1>6, <2>1, <2>2 DEF DeviceMoves
<1> QED
  BY <1>2, <1>5, <1>6

\* one that takes the head over or notes its vault,
LEMMA MarksMoves ==
  ASSUME Typed, NEW d \in Device, Marks(d), NEW n, n = NewHash
  PROVE  DeviceMoves(d, n)
<1>1. /\ store \in [Device -> Stores] /\ vault \in [Device -> Hash]
      /\ store[d].container # n /\ n \notin Hash
  <2>1. store \in [Device -> Stores] /\ vault \in [Device -> Hash]
        /\ n \notin Hash
    BY TypesOf DEF Typed, Hash, Hashes, NewHash, None
  <2> QED
    BY <2>1 DEF Stores
<1>2. PICK h \in Hashes :
        /\ h = vault[d] \/ (h = CurrentRecord /\ Accepts(d, h))
        /\ \E s :
             /\ store' = [store EXCEPT ![d] = s]
             /\ s.slot = store[d].slot
             /\ s.pinned \in {store[d].pinned, MskOf(h)}
             /\ \/ /\ s.container = h /\ s.pinned = MskOf(h)
                   /\ vault' = [vault EXCEPT ![d] = h]
                \/ /\ s.container = store[d].container
                   /\ \E v \in {vault[d], None} :
                        vault' = [vault EXCEPT ![d] = v]
  BY DEF Marks
<1>3. PICK s :
        /\ store' = [store EXCEPT ![d] = s]
        /\ s.slot = store[d].slot
        /\ s.pinned \in {store[d].pinned, MskOf(h)}
        /\ \/ /\ s.container = h /\ s.pinned = MskOf(h)
              /\ vault' = [vault EXCEPT ![d] = h]
           \/ /\ s.container = store[d].container
              /\ \E v \in {vault[d], None} : vault' = [vault EXCEPT ![d] = v]
  BY <1>2
<1>4. store'[d] = s
  BY <1>1, <1>3
<1>5. h \in Hash /\ h # n /\ h # None
  BY <1>1 DEF Hash, Hashes, None
<1>6. CASE /\ s.container = h /\ s.pinned = MskOf(h)
           /\ vault' = [vault EXCEPT ![d] = h]
  <2>1. vault'[d] = h /\ Own(d)' = {h}
    BY <1>1, <1>4, <1>5, <1>6 DEF Own
  <2>2. h = vault[d] => h \in Own(d)
    BY <1>5 DEF Own
  <2> QED
    BY <1>2, <1>3, <1>4, <1>5, <1>6, <2>1, <2>2 DEF DeviceMoves
<1>7. CASE /\ s.container = store[d].container
           /\ \E v \in {vault[d], None} : vault' = [vault EXCEPT ![d] = v]
  <2>1. vault'[d] \in {vault[d], None} /\ s.container # n
    BY <1>1, <1>7
  <2>2. Own(d)' \subseteq Own(d)
    BY <1>4, <1>7, <2>1 DEF Own
  <2> QED
    BY <1>2, <1>3, <1>4, <2>1, <2>2 DEF DeviceMoves
<1> QED
  BY <1>3, <1>6, <1>7

\* and any other.
LEMMA DoesMoves ==
  ASSUME Typed, Tidy, NEW d \in Device, Does(d), NEW n, n = NewHash
  PROVE  DeviceMoves(d, n)
<1>1. /\ store \in [Device -> Stores] /\ vault \in [Device -> Hash]
      /\ store[d].container # n /\ None # n
  <2>1. store \in [Device -> Stores] /\ vault \in [Device -> Hash]
        /\ n \notin Hash /\ None # n
    BY TypesOf DEF Typed, Hash, Hashes, NewHash, None
  <2> QED
    BY <2>1 DEF Stores
<1>2. CASE Makes(d) \/ Marks(d) \/ Adopts(d)
  BY <1>2, MakesMoves, MarksMoves, AdoptsMoves
<1>3. CASE Clears(d)
  <2>1. PICK s : /\ store' = [store EXCEPT ![d] = s]
                 /\ s.container \in {store[d].container, None}
                 /\ \/ s.slot = None
                    \/ s.slot = store[d].slot /\ s.pinned = store[d].pinned
    BY <1>3 DEF Clears
  <2>2. store'[d] = s /\ vault'[d] \in {vault[d], None} /\ s.container # n
    BY <1>1, <1>3, <2>1 DEF Clears
  <2>3. Own(d)' \subseteq Own(d)
    BY <2>1, <2>2 DEF Own
  <2> QED
    BY <2>1, <2>2, <2>3 DEF DeviceMoves
<1>4. CASE Idles(d)
  <2>1. store'[d] = store[d] /\ vault'[d] \in {vault[d], store[d].container, None}
    BY <1>1, <1>4 DEF Idles
  <2>2. Own(d)' \subseteq Own(d)
    BY <2>1 DEF Own
  <2> QED
    BY <1>1, <2>1, <2>2 DEF DeviceMoves
<1> QED
  BY <1>2, <1>3, <1>4 DEF Does

\* What was sealed stays as it is.
LEMMA Sealed ==
  ASSUME Typed, MsksAreKnown, Seals
  PROVE  \A h \in Hashes : /\ sealed'[h] = sealed[h] /\ Root(h)' = Root(h)
                           /\ Root(h) \in Hashes
BY RootsStay, RootType, ChangesStay

\* A new generation is newer than every MSK.
LEMMA NextHashes ==
  ASSUME Typed, Tidy, NEW d \in Device, Does(d), NEW n, n = NewHash
  PROVE  /\ n \in Nat /\ Hashes \subseteq Nat
         /\ \A h \in Hashes' : h \in Hashes \/ h = n
         /\ \A h \in Hashes' : /\ Root(h)' \in Hashes \cup {n}
                               /\ sealed'[h].slots \subseteq Nat
<1>1. /\ sealed \in Seq(Generation) /\ n = Len(sealed) + 1
      /\ \/ sealed' = sealed
         \/ \E g \in Generation : sealed' = Append(sealed, g)
  BY TidyGenerations, TypesOf DEF Seals, Typed, NewHash, Sealable
<1>2. Len(sealed) \in Nat /\ Len(sealed') \in {Len(sealed), n}
  BY <1>1
<1>3. /\ n \in Nat /\ Hashes \subseteq Nat /\ Hashes' \subseteq Nat
      /\ \A h \in Hashes' : h \in Hashes \/ h = n
  BY <1>1, <1>2 DEF Hashes
<1>4. ASSUME NEW h \in Hashes'
      PROVE  Root(h)' \in Hashes' /\ sealed'[h].slots \subseteq Hashes'
  <2>1. SlotsAreSealed' /\ MsksAreKnown'
    BY TidyGenerations
  <2> DEFINE m == sealed'[h].msk
  <2>2. /\ m.made \in Hashes'
        /\ m.hybrid => /\ sealed'[m.made].prev \in Hashes'
                       /\ sealed'[sealed'[m.made].prev].msk.made \in Hashes'
    BY <2>1 DEF MsksAreKnown
  <2> QED
    BY <2>1, <2>2 DEF Root, MskOf, SlotsAreSealed
<1> QED
  BY <1>3, <1>4

\* Every device has a slot that the revocations of its vault kept, or a newer
\* one,
LEMMA TidySlots ==
  ASSUME Typed, Tidy, NEW d \in Device, Does(d),
         NEW n, n = NewHash
  PROVE  SlotsHeld'
<1>1. \A h \in Hashes : /\ sealed'[h] = sealed[h] /\ Root(h)' = Root(h)
                        /\ Root(h) \in Hashes
  BY TidyGenerations, Sealed DEF Tidy
<1>2. \A e \in Device \ {d} : store'[e] = store[e] /\ Own(e)' = Own(e)
  BY OwnNext
<1>3. \A e \in Device : Own(e) \subseteq Hashes /\ SlotHeld(e)
  BY LiveOnes DEF Tidy, SlotsHeld
<1>4. DeviceMoves(d, n)
  BY DoesMoves
<1>5. /\ \A h \in Hashes : n > h
      /\ \A r \in Hashes : r \in Nat
      /\ n \in Nat
  BY TypesOf DEF Typed, Hashes, NewHash
<1>6. ASSUME NEW e \in Device \ {d} PROVE SlotHeld(e)'
  <2> SUFFICES ASSUME NEW y \in Own(e)', NEW s, s = store'[e].slot, s # None,
                      NEW r, r = Root(y)', s < r
               PROVE  s \in sealed'[r].slots
    BY DEF SlotHeld, KeptBy
  <2>1. y \in Own(e) /\ y \in Hashes /\ s = store[e].slot
    BY <1>2, <1>3
  <2>2. r = Root(y) /\ r \in Hashes
    BY <1>1, <2>1
  <2>3. KeptBy(s, r)
    BY <1>3, <2>1, <2>2 DEF SlotHeld
  <2> QED
    BY <1>1, <2>2, <2>3 DEF KeptBy
<1>7. SlotHeld(d)'
  <2> SUFFICES ASSUME NEW y \in Own(d)', NEW s, s = store'[d].slot, s # None,
                      NEW r, r = Root(y)', s < r
               PROVE  s \in sealed'[r].slots
    BY DEF SlotHeld, KeptBy
  <2>1. s \in {store[d].slot, n}
    BY <1>4 DEF DeviceMoves
  <2>2. CASE y \in Own(d)
    <3>1. y \in Hashes /\ r \in Hashes /\ r = Root(y)
      BY <1>1, <1>3, <2>2
    <3>2. CASE s = store[d].slot
      <4>1. KeptBy(s, r)
        BY <1>3, <2>2, <3>1, <3>2 DEF SlotHeld
      <4> QED
        BY <1>1, <3>1, <4>1 DEF KeptBy
    <3>3. CASE s = n
      BY <1>5, <3>1, <3>3
    <3> QED
      BY <2>1, <3>2, <3>3
  <2>3. CASE /\ y = CurrentRecord /\ y # None /\ Accepts(d, y)
             /\ s = store[d].slot
    <3>1. y \in Hashes /\ y \in Live /\ s \in sealed[y].slots
      BY <2>3, RecordNumber, LiveOnes DEF Accepts, Opens
    <3>2. r = Root(y) /\ r \in Hashes
      BY <1>1, <3>1
    <3>3. KeptBy(s, r)
      BY <3>1, <3>2 DEF Tidy, RootsKeepOut
    <3> QED
      BY <1>1, <3>2, <3>3 DEF KeptBy
  <2>4. CASE y = n /\ store'[d].container = n /\ vault'[d] = n
    <3>1. n \in Hashes'
      BY <2>4, NewLive
    <3>2. r \in Hashes \cup {n}
      BY <2>4, <3>1, NextHashes
    <3>3. CASE s = n
      BY <1>5, <3>2, <3>3
    <3>4. CASE s \in sealed'[n].slots /\ r = n
      BY <3>4
    <3>5. CASE r \in Hashes /\ KeptBy(s, r)
      BY <1>1, <3>5 DEF KeptBy
    <3> QED
      BY <1>4, <2>4, <3>3, <3>4, <3>5 DEF DeviceMoves
  <2> QED
    BY <1>4, <2>2, <2>3, <2>4 DEF DeviceMoves
<1> QED
  BY <1>6, <1>7 DEF SlotsHeld

\* Nobody but the maker of a generation has a slot there that is not from a
\* live one with its MSK.
LEMMA ForeignSlots ==
  ASSUME Typed, Tidy, NEW d \in Device, NEW n, n = NewHash, NewSlots(d, n),
         NEW e \in Device \ {d}, store[e].slot \in sealed'[n].slots
  PROVE  FromLive(Root(n)', store[e].slot)
<1>1. store[e].slot # n
  BY TypesOf DEF Typed, Stores, Hash, Hashes, NewHash, None
<1>2. store[d].slot # None => store[d].slot # store[e].slot
  BY DEF Tidy, SlotsDiffer
<1> QED
  BY <1>1, <1>2 DEF NewSlots

\* what it accepts comes from the same revocation as what it has,
LEMMA TidyRoots ==
  ASSUME Typed, Tidy, Next, NEW d \in Device, Does(d),
         NEW n, n = NewHash
  PROVE  OneRoot'
<1>1. \A h \in Hashes : /\ sealed'[h] = sealed[h] /\ Root(h)' = Root(h)
                        /\ Root(h) \in Hashes
  BY TidyGenerations, Sealed DEF Tidy
<1>2. \A e \in Device \ {d} : store'[e] = store[e] /\ Own(e)' = Own(e)
  BY OwnNext
<1>3. \A e \in Device : /\ Own(e) \subseteq Hashes /\ RootShared(e)
                        /\ store[e].pinned \in Hash
  BY LiveOnes, TypesOf DEF Tidy, OneRoot, Typed, Stores
<1>4. DeviceMoves(d, n)
  BY DoesMoves
<1>5. \A h \in Live' : \/ h \in Live
                       \/ /\ h = n /\ store'[d].container = n
                          /\ vault'[d] = n /\ NewSlots(d, n)
  <2>1. store'[d].container = n => NewSlots(d, n)
    BY NewLive
  <2> QED
    BY <2>1, LiveNext
<1>6. Live \subseteq Hashes /\ n \notin Hash /\ n # None
  BY DEF Live, Hashes, Hash, NewHash, None
<1>7. ASSUME NEW e \in Device \ {d} PROVE RootShared(e)'
  <2> SUFFICES ASSUME NEW y \in Own(e)', NEW x \in Live',
                      store'[e].slot \in sealed'[x].slots,
                      \/ store'[e].pinned = None
                      \/ Root(store[e].pinned)' = Root(x)'
               PROVE  Root(x)' = Root(y)'
    BY <1>2 DEF RootShared
  <2>1. /\ store'[e] = store[e] /\ y \in Own(e) /\ y \in Hashes
        /\ Root(y)' = Root(y)
    BY <1>1, <1>2, <1>3
  <2>2. store[e].pinned = None \/ Root(store[e].pinned) = Root(x)'
    BY <1>1, <1>3, <2>1 DEF Hash
  <2>3. ASSUME NEW z \in Live, store[e].slot \in sealed[z].slots,
               Root(z) = Root(x)'
        PROVE  Root(x)' = Root(y)'
    BY <1>3, <2>1, <2>2, <2>3 DEF RootShared
  <2>4. CASE x \in Live
    BY <1>1, <1>6, <2>1, <2>3, <2>4
  <2>5. CASE x = n /\ NewSlots(d, n)
    <3>1. FromLive(Root(n)', store[e].slot)
      BY <2>1, <2>5, ForeignSlots
    <3> QED
      BY <2>3, <2>5, <3>1 DEF FromLive
  <2> QED
    BY <1>5, <2>4, <2>5
<1>8. RootShared(d)'
  <2> SUFFICES ASSUME NEW y \in Own(d)', NEW x \in Live',
                      store'[d].slot \in sealed'[x].slots,
                      NEW p, p = store'[d].pinned,
                      p = None \/ Root(p)' = Root(x)'
               PROVE  Root(x)' = Root(y)'
    BY DEF RootShared
  <2>1. CASE x = n /\ store'[d].container = n /\ vault'[d] = n
    <3>1. y = n
      BY <2>1 DEF Own
    <3> QED
      BY <2>1, <3>1
  <2>2. CASE x \in Live
    <3>1. x \in Hashes /\ Root(x)' = Root(x) /\ Root(x) \in Hashes
          /\ store'[d].slot \in sealed[x].slots
      BY <1>1, <1>6, <2>2
    <3>2. store'[d].slot \in Hashes
      BY <3>1 DEF Tidy, SlotsAreSealed
    <3>3. store'[d].slot = store[d].slot /\ store'[d].slot # None
      BY <1>4, <1>6, <3>2 DEF DeviceMoves, Hash, Hashes, None
    <3>4. ~(p = n /\ Root(n)' = n)
      BY <1>6, <3>1 DEF Hash
    <3>5. ASSUME p = store[d].pinned, NEW z \in Own(d)
          PROVE  Root(x) = Root(z)
      <4>1. p = None \/ Root(p) = Root(x)
        BY <1>1, <1>3, <3>1, <3>5 DEF Hash
      <4> QED
        BY <1>3, <2>2, <3>1, <3>3, <3>5, <4>1 DEF RootShared
    <3>6. ASSUME NEW h \in Hashes, p = MskOf(h)
          PROVE  Root(x) = Root(h)
      <4>1. MskOf(h) \in Hashes /\ Root(MskOf(h)) = Root(h)
        BY RootType DEF Tidy
      <4>2. p # None /\ Root(p)' = Root(p)
        BY <1>1, <3>6, <4>1 DEF Hashes, None
      <4> QED
        BY <3>1, <3>6, <4>1, <4>2
    <3>7. CASE y \in Own(d)
      <4>1. y \in Hashes /\ Root(y)' = Root(y)
        BY <1>1, <1>3, <3>7
      <4>2. CASE p = store[d].pinned
        BY <3>1, <3>5, <3>7, <4>1, <4>2
      <4>3. ASSUME NEW h \in Hashes, p = MskOf(h),
                   h = vault[d] \/ (h = CurrentRecord /\ Accepts(d, h))
            PROVE  Root(x) = Root(y)
        <5>1. Root(x) = Root(h)
          BY <3>6, <4>3
        <5>2. CASE h = vault[d]
          <6>1. y = h
            BY <3>7, <4>3, <5>2 DEF Own, Tidy, OneVault, Hashes, None
          <6> QED
            BY <5>1, <6>1
        <5>3. CASE h = CurrentRecord /\ Accepts(d, h)
          <6>1. h # None
            BY <4>3 DEF Hashes, None
          <6>2. Root(h) = Root(y)
            BY <3>7, <5>3, <6>1, HeadRoot DEF Tidy
          <6> QED
            BY <5>1, <6>2
        <5> QED
          BY <4>3, <5>2, <5>3
      <4>4. \/ p = store[d].pinned
            \/ \E h \in Hashes :
                 /\ h = vault[d] \/ (h = CurrentRecord /\ Accepts(d, h))
                 /\ p = MskOf(h)
        BY <1>4, <3>3, <3>4 DEF DeviceMoves
      <4> QED
        BY <3>1, <4>1, <4>2, <4>3, <4>4
    <3>8. CASE /\ y = CurrentRecord /\ y # None /\ p = MskOf(y)
      <4>1. y \in Hashes
        BY <3>8, RecordNumber
      <4> QED
        BY <1>1, <3>1, <3>6, <3>8, <4>1
    <3>9. CASE y = n /\ store'[d].container = n
      <4>1. store[d].slot # n
        BY <1>6, <3>2, <3>3 DEF Hash
      <4>2. /\ vault[d] # None
            /\ p = store[d].pinned /\ Root(n)' = Root(vault[d])
        BY <1>4, <3>3, <3>4, <3>9, <4>1 DEF DeviceMoves
      <4>3. Root(x) = Root(vault[d])
        BY <3>5, <4>2 DEF Own
      <4> QED
        BY <3>1, <3>9, <4>2, <4>3
    <3> QED
      BY <1>4, <3>7, <3>8, <3>9 DEF DeviceMoves
  <2> QED
    BY <1>5, <2>1, <2>2
<1> QED
  BY <1>7, <1>8 DEF OneRoot

\* and no slot comes back.
LEMMA TidyKeepsOut ==
  ASSUME Typed, Tidy, Next, NEW d \in Device, Does(d),
         NEW n, n = NewHash
  PROVE  RootsKeepOut'
<1>1. \A h \in Hashes : /\ sealed'[h] = sealed[h] /\ Root(h)' = Root(h)
                        /\ Root(h) \in Hashes
  BY TidyGenerations, Sealed DEF Tidy
<1>2. \A h \in Live' : h \in Live \/ (h = n /\ NewSlots(d, n))
  <2>1. store'[d].container = n => NewSlots(d, n)
    BY NewLive
  <2> QED
    BY <2>1, LiveNext
<1>3. Live \subseteq Hashes
  BY DEF Live
<1> SUFFICES ASSUME NEW h \in Live', NEW slot \in sealed'[h].slots,
                    NEW r, r = Root(h)', slot < r
             PROVE  slot \in sealed'[r].slots
  BY DEF RootsKeepOut, KeptBy
<1>4. ASSUME NEW z \in Live, slot \in sealed[z].slots, Root(z) = r
      PROVE  slot \in sealed'[r].slots
  <2>1. slot \in sealed[r].slots /\ r \in Hashes
    BY <1>1, <1>3, <1>4 DEF Tidy, RootsKeepOut, KeptBy
  <2> QED
    BY <1>1, <2>1
<1>5. CASE h \in Live
  <2>1. sealed'[h] = sealed[h] /\ Root(h)' = Root(h)
    BY <1>1, <1>3, <1>5
  <2> QED
    BY <1>4, <1>5, <2>1
<1>6. CASE h = n /\ NewSlots(d, n)
  <2>1. \/ slot = n
        \/ FromLive(r, slot)
        \/ r = n
        \/ r \in Hashes /\ KeptBy(slot, r)
    BY <1>6 DEF NewSlots
  <2>2. h \in Hashes'
    BY DEF Live
  <2>3. n \in Nat /\ r \in Hashes \cup {n}
    BY <2>2, NextHashes
  <2>4. CASE slot = n
    <3>1. \A x \in Hashes : n > x
      BY TypesOf DEF Typed, Hashes, NewHash
    <3>2. Hashes \subseteq Nat
      BY NextHashes
    <3> QED
      BY <2>3, <2>4, <3>1, <3>2
  <2>5. CASE FromLive(r, slot)
    BY <1>4, <2>5 DEF FromLive
  <2>6. CASE r = n
    BY <1>6, <2>6
  <2>7. CASE r \in Hashes /\ KeptBy(slot, r)
    BY <1>1, <2>7 DEF KeptBy
  <2> QED
    BY <2>1, <2>4, <2>5, <2>6, <2>7
<1> QED
  BY <1>2, <1>5, <1>6

\* At first there is one generation, and one device has it.
LEMMA InitTidy == Init => Tidy
<1> SUFFICES ASSUME Init PROVE Tidy
  OBVIOUS
<1> DEFINE g == [gen |-> 1, prev |-> None, changes |-> {}, slots |-> {1},
                 msk |-> [made |-> 1, hybrid |-> FALSE]]
<1>1. /\ g.slots = {1} /\ g.msk.made = 1 /\ g.msk.hybrid = FALSE
      /\ sealed = <<g>>
  BY DEF Init
<1> HIDE DEF g
<1>2. /\ Hashes = {1} /\ sealed[1].slots = {1} /\ sealed[1].msk.made = 1
      /\ ~sealed[1].msk.hybrid /\ Root(1) = 1
  BY <1>1 DEF Hashes, Root
<1>3. \A d \in Device : /\ Own(d) \subseteq {1} /\ store[d].slot \in {1, None}
                        /\ d # Creator => store[d].slot = None /\ Own(d) = {}
                        /\ vault[d] = store[d].container
  BY DEF Init, Empty, Own, None
<1>4. Live \subseteq {1}
  BY <1>2 DEF Live
<1>5. SlotsAreSealed /\ MsksAreKnown
  BY <1>2 DEF SlotsAreSealed, MsksAreKnown
<1>6. SlotsDiffer /\ OneVault
  BY <1>3 DEF SlotsDiffer, OneVault
<1>7. SlotsHeld
  BY <1>2, <1>3 DEF SlotsHeld, SlotHeld, KeptBy, None
<1>8. OneRoot
  BY <1>3, <1>4 DEF OneRoot, RootShared
<1>9. RootsKeepOut
  BY <1>2, <1>4 DEF RootsKeepOut, KeptBy
<1> QED
  BY <1>5, <1>6, <1>7, <1>8, <1>9 DEF Tidy

\* Every step keeps slots and MSKs in order,
LEMMA NextTidy ==
  ASSUME Typed, Tidy, Next
  PROVE  Tidy'
<1>1. PICK d \in Device : Does(d)
  BY StepDoes
<1>2. \E n : n = NewHash
  OBVIOUS
<1>3. PICK n : n = NewHash
  BY <1>2
<1>4. SlotsAreSealed' /\ MsksAreKnown' /\ SlotsDiffer' /\ OneVault'
  BY <1>1, TidyGenerations, TidyDevices
<1>5. SlotsHeld' /\ OneRoot' /\ RootsKeepOut'
  BY <1>1, <1>3, TidySlots, TidyRoots, TidyKeepsOut
<1> QED
  BY <1>4, <1>5 DEF Tidy

\* as does a step that changes nothing.
LEMMA StutterTidy ==
  ASSUME Tidy, UNCHANGED vars
  PROVE  Tidy'
<1>1. /\ sealed' = sealed /\ records' = records /\ store' = store
      /\ vault' = vault /\ inHand' = inHand
  BY DEF vars
<1>2. /\ Hashes' = Hashes /\ Live' = Live
      /\ \A h : Root(h)' = Root(h)
      /\ \A d : Own(d)' = Own(d)
  BY <1>1 DEF Hashes, Live, Recorded, Own, Root, MskOf
<1>3. SlotsAreSealed' /\ MsksAreKnown' /\ SlotsDiffer' /\ OneVault'
  BY <1>1, <1>2
     DEF Tidy, SlotsAreSealed, MsksAreKnown, SlotsDiffer, OneVault
<1>4. SlotsHeld'
  BY <1>1, <1>2 DEF Tidy, SlotsHeld, SlotHeld, KeptBy
<1>5. OneRoot'
  BY <1>1, <1>2 DEF Tidy, OneRoot, RootShared
<1>6. RootsKeepOut'
  BY <1>1, <1>2 DEF Tidy, RootsKeepOut, KeptBy
<1> QED
  BY <1>3, <1>4, <1>5, <1>6 DEF Tidy

\* They always are, whatever fails.
LEMMA AlwaysTidy == Spec => []Tidy
<1>1. Typed /\ Tidy /\ [Next]_vars => Tidy'
  BY NextTidy, StutterTidy
<1> QED
  BY <1>1, AlwaysTyped, InitTidy, PTL DEF Spec

\* A device that revokeDevice shut out stays out, under all faults: under the
\* MSK that it introduced the host holds no slot from before but those it
\* kept, whatever the others push, merge, rotate or adopt meanwhile.
THEOREM RevokedIsOut == Spec => []RevokedStaysOut
<1>1. ASSUME Typed, Tidy PROVE RevokedStaysOut
  <2> SUFFICES ASSUME NEW i \in DOMAIN records,
                      sealed[records[i]].msk.made > 1,
                      ~sealed[records[i]].msk.hybrid,
                      NEW slot \in sealed[records[i]].slots,
                      slot < sealed[records[i]].msk.made
               PROVE  slot \in sealed[sealed[records[i]].msk.made].slots
    BY DEF RevokedStaysOut
  <2>1. records[i] \in Live
    BY <1>1, TypesOf DEF Typed, Live, Recorded
  <2>2. Root(records[i]) = sealed[records[i]].msk.made
    BY DEF Root
  <2> QED
    BY <1>1, <2>1, <2>2 DEF Tidy, RootsKeepOut, KeptBy
<1>2. Typed /\ Tidy => RevokedStaysOut
  BY <1>1
<1> QED
  BY <1>2, AlwaysTyped, AlwaysTidy, PTL

-----------------------------------------------------------------------------
(* The pinned MSK.                                                         *)

\* What the host or another device has.
Foreign(d) == {h \in Hashes : \/ Recorded(h)
                              \/ \E e \in Device \ {d} :
                                   h \in Own(e) \cup {inHand[e]}}

\* A device whose vault does not have the MSK it pinned has introduced the
\* vault's MSK and not published it, or has no slot but in its vault.
MskIsNews(d) ==
  LET s == store[d]
  IN s.container # None /\ s.pinned \notin {None, MskOf(s.container)}
       => \/ \A x \in Foreign(d) : MskOf(x) # MskOf(s.container)
          \/ \A x \in Foreign(d) : s.slot \notin sealed[x].slots

Told == \A d \in Device : MskIsNews(d)

\* What is foreign to a device after a step of another one was so before, or
\* is new, and made of what was.
LEMMA ForeignNext ==
  ASSUME Typed, NEW d \in Device, Does(d), faults' = {},
         NEW e \in Device \ {d}, NEW n, n = NewHash
  PROVE  \A x \in Foreign(e)' : \/ x \in Foreign(e)
                                \/ x = n /\ store'[d].container = n
<1> SUFFICES ASSUME NEW x \in Foreign(e)'
             PROVE  x \in Foreign(e) \/ (x = n /\ store'[d].container = n)
  OBVIOUS
<1>1. /\ \A c \in Device \ {d} : inHand'[c] = inHand[c] /\ Own(c)' = Own(c)
      /\ inHand'[d] \in {inHand[d], None, CurrentRecord}
      /\ \A y \in Own(d)' : \/ y \in Own(d)
                            \/ y = CurrentRecord /\ y # None
                            \/ y = n /\ store'[d].container = n
  BY OwnNext
<1>2. CurrentRecord # None => CurrentRecord \in Foreign(e)
  BY RecordNumber DEF Foreign, Recorded
<1>3. /\ records \in Seq(Hashes) /\ x # None
      /\ \A c \in Device : /\ Own(c) \subseteq Hashes
                           /\ inHand[c] # None => inHand[c] \in Hashes
  <2>1. records \in Seq(Hashes) /\ x # None
    BY TypesOf DEF Typed, Foreign, Hashes, None
  <2>2. \A c \in Device : inHand[c] # None => inHand[c] \in Hashes
    BY TypesOf DEF Typed, Hash
  <2> QED
    BY <2>1, <2>2, LiveOnes
<1>4. \A c \in Device \ {e} : /\ Own(c) \subseteq Foreign(e)
                              /\ inHand[c] # None => inHand[c] \in Foreign(e)
  BY <1>3 DEF Foreign
<1>5. CASE Recorded(x)'
  <2>1. ~Torn'
    BY DEF Torn
  <2>2. \/ records' = records
        \/ /\ records' = Append(records, vault[d])
           /\ vault[d] # None
    BY <2>1 DEF Does, Makes, Marks, Adopts, Clears, Idles
  <2>3. \A i \in DOMAIN records : records[i] \in Foreign(e)
    BY <1>3 DEF Foreign, Recorded
  <2>4. CASE records' = records
    BY <1>5, <2>3, <2>4 DEF Recorded
  <2>5. CASE records' = Append(records, vault[d]) /\ vault[d] # None
    <3>1. vault[d] \in Foreign(e)
      BY <1>4, <2>5 DEF Own
    <3> QED
      BY <1>3, <1>5, <2>3, <2>5, <3>1 DEF Recorded
  <2> QED
    BY <2>2, <2>4, <2>5
<1>6. ASSUME NEW c \in Device \ {e}, x \in Own(c)' \/ x = inHand'[c]
      PROVE  x \in Foreign(e) \/ (x = n /\ store'[d].container = n)
  <2>1. CASE c = d
    BY <1>1, <1>2, <1>3, <1>4, <1>6, <2>1
  <2>2. CASE c # d
    BY <1>1, <1>3, <1>4, <1>6, <2>2
  <2> QED
    BY <2>1, <2>2
<1> QED
  BY <1>5, <1>6 DEF Foreign

\* The MSK and the slots of a generation that d makes come from what is
\* foreign to others, but for new ones and its own slot.
LEMMA NewForeign ==
  ASSUME Typed, Tidy, NEW d \in Device, Does(d), NEW e \in Device \ {d},
         NEW n, n = NewHash, store'[d].container = n
  PROVE  /\ MskOf(n)' = n \/ \E z \in Foreign(e) : MskOf(n)' = MskOf(z)
         /\ \A slot \in sealed'[n].slots :
              \/ slot = n
              \/ slot = store[d].slot /\ slot # None
              \/ \E z \in Foreign(e) : slot \in sealed[z].slots
<1> DEFINE F == Foreign(e)
<1>1. store \in [Device -> Stores] /\ n \notin Hash /\ MsksAreKnown
  BY TypesOf DEF Typed, Hash, Hashes, NewHash, None, Tidy
<1>2. store[d].container # n
  BY <1>1 DEF Stores
<1>3. /\ Own(d) \subseteq F
      /\ inHand[d] # None => inHand[d] \in F
      /\ CurrentRecord # None => CurrentRecord \in F
  <2>1. Own(d) \subseteq Hashes /\ (inHand[d] # None => inHand[d] \in Hashes)
    BY LiveOnes, TypesOf DEF Typed, Hash
  <2>2. CurrentRecord # None => CurrentRecord \in F
    BY RecordNumber DEF Foreign, Recorded
  <2> QED
    BY <2>1, <2>2 DEF Foreign
<1> HIDE DEF F
<1>4. CASE Makes(d)
  <2>1. PICK g \in Sealable :
          /\ sealed' = Append(sealed, g)
          /\ \/ Edited(d, g) \/ Rotated(d, g) \/ Hybridized(d, g)
             \/ Merged(d, g) \/ Revoked(d, g)
    BY <1>4 DEF Makes
  <2>2. sealed'[n] = g
    BY <1>1, <2>1, NewRoot
  <2>3. MskOf(n)' = g.msk.made
    BY <2>2 DEF MskOf
  <2>4. vault[d] \in F
    BY <1>3, <1>4 DEF Makes, Own
  <2>5. CASE Edited(d, g)
    BY <2>2, <2>3, <2>4, <2>5 DEF Edited, MskOf, F
  <2>6. CASE Rotated(d, g)
    BY <2>2, <2>3, <2>4, <2>6 DEF Rotated, MskOf, F
  <2>7. CASE Hybridized(d, g)
    BY <2>2, <2>3, <2>4, <2>7 DEF Hybridized, F
  <2>8. CASE Merged(d, g)
    <3>1. CurrentRecord \in F
      BY <1>3, <2>8 DEF Merged
    <3> QED
      BY <2>2, <2>3, <2>4, <2>8, <3>1 DEF Merged, MskOf, F
  <2>9. CASE Revoked(d, g)
    BY <2>2, <2>3, <2>9 DEF Revoked
  <2> QED
    BY <2>1, <2>5, <2>6, <2>7, <2>8, <2>9
<1>5. CASE Adopts(d)
  <2>1. PICK g \in Sealable :
          /\ sealed' = Append(sealed, g)
          /\ g.msk = sealed[inHand[d]].msk
          /\ g.slots = sealed[inHand[d]].slots \cup {NewHash}
    BY <1>5 DEF Adopts
  <2>2. sealed'[n] = g
    BY <1>1, <2>1, NewRoot
  <2>3. inHand[d] \in F
    BY <1>3, <1>5 DEF Adopts
  <2> QED
    BY <2>1, <2>2, <2>3 DEF MskOf, F
<1>6. CASE Marks(d) \/ Clears(d) \/ Idles(d)
  <2>1. store'[d].container \in Hash
    <3>1. store[d].container \in Hash /\ None \in Hash
      BY <1>1 DEF Stores, Hash
    <3>2. CASE Marks(d)
      BY <1>1, <3>1, <3>2 DEF Marks, Hash
    <3>3. CASE Clears(d)
      BY <1>1, <3>1, <3>3 DEF Clears
    <3>4. CASE Idles(d)
      BY <3>1, <3>4 DEF Idles
    <3> QED
      BY <1>6, <3>2, <3>3, <3>4
  <2> QED
    BY <1>1, <2>1
<1> QED
  BY <1>4, <1>5, <1>6 DEF Does

\* A step of d leaves the others' pinned MSKs right,
LEMMA OthersTold ==
  ASSUME Typed, Tidy, NEW d \in Device, Does(d), faults' = {},
         NEW e \in Device \ {d}, MskIsNews(e), NEW n, n = NewHash
  PROVE  MskIsNews(e)'
<1> DEFINE s == store[e]
<1>1. /\ store'[e] = store[e] /\ s \in Stores /\ n \notin Hash /\ None \in Hash
  BY OwnNext, TypesOf DEF Typed, Hash, Hashes, NewHash, None
<1>2. \A h \in Hashes : /\ sealed'[h] = sealed[h] /\ MskOf(h)' = MskOf(h)
                        /\ MskOf(h) \in Hashes
  <2>1. Seals /\ MsksAreKnown
    BY TidyGenerations DEF Tidy
  <2> QED
    BY <2>1, RootsStay, RootType, ChangesStay
<1> SUFFICES ASSUME s.container # None,
                    s.pinned \notin {None, MskOf(s.container)'}
             PROVE  \/ \A x \in Foreign(e)' : MskOf(x)' # MskOf(s.container)'
                    \/ \A x \in Foreign(e)' : s.slot \notin sealed'[x].slots
  BY <1>1 DEF MskIsNews
<1>3. /\ s.container \in Hashes /\ s.slot # n
      /\ MskOf(s.container)' = MskOf(s.container)
      /\ MskOf(s.container) \in Hashes /\ MskOf(s.container) # n
  <2>1. s.container \in Hashes /\ s.slot # n
    BY <1>1 DEF Stores, Hash
  <2> QED
    BY <1>1, <1>2, <2>1 DEF Hash
<1>4. store[d].slot # None => store[d].slot # s.slot
  BY DEF Tidy, SlotsDiffer
<1>5. /\ \A x \in Foreign(e)' : \/ x \in Foreign(e)
                                \/ x = n /\ store'[d].container = n
      /\ Foreign(e) \subseteq Hashes
  BY ForeignNext DEF Foreign
<1>6. store'[d].container = n =>
        /\ MskOf(n)' = n \/ \E z \in Foreign(e) : MskOf(n)' = MskOf(z)
        /\ \A slot \in sealed'[n].slots :
             \/ slot = n
             \/ slot = store[d].slot /\ slot # None
             \/ \E z \in Foreign(e) : slot \in sealed[z].slots
  BY NewForeign
<1> HIDE DEF s
<1>7. CASE \A x \in Foreign(e) : MskOf(x) # MskOf(s.container)
  <2>1. ASSUME NEW x \in Foreign(e)' PROVE MskOf(x)' # MskOf(s.container)'
    <3>1. CASE x \in Foreign(e)
      BY <1>2, <1>3, <1>5, <1>7, <3>1
    <3>2. CASE x = n /\ store'[d].container = n
      BY <1>3, <1>6, <1>7, <3>2
    <3> QED
      BY <1>5, <3>1, <3>2
  <2> QED
    BY <2>1
<1>8. CASE \A x \in Foreign(e) : s.slot \notin sealed[x].slots
  <2>1. ASSUME NEW x \in Foreign(e)' PROVE s.slot \notin sealed'[x].slots
    <3>1. CASE x \in Foreign(e)
      BY <1>2, <1>5, <1>8, <3>1
    <3>2. CASE x = n /\ store'[d].container = n
      BY <1>3, <1>4, <1>6, <1>8, <3>2
    <3> QED
      BY <1>5, <3>1, <3>2
  <2> QED
    BY <2>1
<1> QED
  BY <1>3, <1>7, <1>8 DEF MskIsNews, s

\* and its own.
LEMMA SelfTold ==
  ASSUME Typed, Tidy, OpenIsStored, NEW d \in Device, Does(d), faults' = {},
         MskIsNews(d), NEW n, n = NewHash
  PROVE  MskIsNews(d)'
<1> DEFINE c == store[d].container
           F == Foreign(d)
<1>1. /\ store \in [Device -> Stores] /\ store[d] \in Stores
      /\ vault \in [Device -> Hash]
      /\ n \notin Hash /\ None \in Hash /\ vault[d] \in {None, c}
  BY TypesOf DEF Typed, Hash, Hashes, NewHash, None, OpenIsStored
<1>2. \A h \in Hashes : /\ sealed'[h] = sealed[h] /\ MskOf(h)' = MskOf(h)
                        /\ MskOf(h) \in Hashes
  <2>1. Seals /\ MsksAreKnown
    BY TidyGenerations DEF Tidy
  <2> QED
    BY <2>1, RootsStay, RootType, ChangesStay
<1>3. F \subseteq Hashes /\ (c # None => c \in Hashes)
  BY <1>1 DEF Foreign, Stores, Hash
<1>4. ~Torn'
  BY DEF Torn
<1>5. UNCHANGED records => Foreign(d)' \subseteq F
  <2>1. \A e \in Device \ {d} : inHand'[e] = inHand[e] /\ Own(e)' = Own(e)
    BY OwnNext
  <2>2. \A e \in Device \ {d} : /\ Own(e) \subseteq Hashes
                                /\ inHand[e] # None => inHand[e] \in Hashes
    BY LiveOnes, TypesOf DEF Typed, Hash
  <2>3. records \in Seq(Hashes) /\ None \notin Hashes'
    BY TypesOf DEF Typed, Hashes, None
  <2> QED
    BY <2>1, <2>2, <2>3 DEF Foreign, Recorded
<1> HIDE DEF F, c
\* The vault has the MSK it had.
<1>6. ASSUME NEW b, b = store'[d].container, UNCHANGED records,
             store'[d].pinned = store[d].pinned,
             store'[d].slot = store[d].slot,
             c # None, MskOf(b)' = MskOf(c)
      PROVE  MskIsNews(d)'
  <2> DEFINE m == MskOf(c)
  <2> SUFFICES ASSUME store[d].pinned \notin {None, m}
               PROVE  \/ \A x \in Foreign(d)' : MskOf(x)' # m
                      \/ \A x \in Foreign(d)' : store[d].slot \notin sealed'[x].slots
    BY <1>6 DEF MskIsNews
  <2>1. \/ \A x \in F : MskOf(x) # m
        \/ \A x \in F : store[d].slot \notin sealed[x].slots
    BY <1>6 DEF MskIsNews, F, c
  <2>2. Foreign(d)' \subseteq F
    BY <1>5, <1>6
  <2> HIDE DEF m
  <2> QED
    BY <1>2, <1>3, <2>1, <2>2
\* It has one that nobody else has, or the device has a slot that nobody has.
<1>7. ASSUME NEW b, b = store'[d].container, UNCHANGED records,
             MskOf(b)' = n \/ store'[d].slot = n
      PROVE  MskIsNews(d)'
  <2>1. Foreign(d)' \subseteq F
    BY <1>5, <1>7
  <2>2. CASE MskOf(b)' = n
    <3>1. \A x \in F : MskOf(x)' # n
      BY <1>1, <1>2, <1>3 DEF Hash
    <3> QED
      BY <1>7, <2>1, <2>2, <3>1 DEF MskIsNews
  <2>3. CASE store'[d].slot = n
    <3>1. \A x \in F : n \notin sealed'[x].slots
      BY <1>1, <1>2, <1>3 DEF Tidy, SlotsAreSealed, Hash
    <3> QED
      BY <2>1, <2>3, <3>1 DEF MskIsNews
  <2> QED
    BY <1>7, <2>2, <2>3
\* It has the one that is pinned.
<1>8. ASSUME NEW b, b = store'[d].container, store'[d].pinned = MskOf(b)'
      PROVE  MskIsNews(d)'
  BY <1>8 DEF MskIsNews
<1>9. CASE Makes(d)
  <2>1. vault[d] # None /\ vault[d] = c /\ c \in Hashes /\ UNCHANGED records
    BY <1>1, <1>3, <1>9 DEF Makes
  <2>2. PICK g \in Sealable :
          /\ sealed' = Append(sealed, g)
          /\ \/ /\ \/ Edited(d, g) \/ Rotated(d, g) \/ Hybridized(d, g)
                   \/ Merged(d, g)
                /\ Shelves(d, store[d].pinned)
             \/ Revoked(d, g) /\ Shelves(d, NewHash)
    BY <1>9 DEF Makes
  <2>3. sealed'[n] = g
    BY <2>2, NewRoot DEF Tidy
  <2>4. MskOf(n)' = g.msk.made
    BY <2>3 DEF MskOf
  <2>5. ASSUME NEW p, Shelves(d, p)
        PROVE  /\ store'[d].container = n /\ store'[d].pinned = p
               /\ store'[d].slot = store[d].slot
    BY <1>1, <1>4, <2>5 DEF Shelves
  <2>6. CASE Revoked(d, g) /\ Shelves(d, NewHash)
    BY <1>8, <2>4, <2>5, <2>6 DEF Revoked
  <2>7. ASSUME Shelves(d, store[d].pinned), g.msk = sealed[vault[d]].msk
        PROVE  MskIsNews(d)'
    <3>1. MskOf(n)' = MskOf(c)
      BY <2>1, <2>4, <2>7 DEF MskOf
    <3>2. c # None
      BY <2>1
    <3> QED
      BY <1>6, <2>1, <2>5, <2>7, <3>1, <3>2
  <2>8. CASE Hybridized(d, g) /\ Shelves(d, store[d].pinned)
    <3>1. MskOf(n)' = n
      BY <2>4, <2>8 DEF Hybridized
    <3> QED
      BY <1>7, <2>1, <2>5, <2>8, <3>1
  <2>9. CASE /\ Merged(d, g) /\ Shelves(d, store[d].pinned)
             /\ g.msk = sealed[CurrentRecord].msk
    <3>1. MskOf(n)' = MskOf(CurrentRecord)
      BY <2>4, <2>9 DEF MskOf
    <3>2. store[d].pinned \in {None, MskOf(n)'}
      BY <2>9, <3>1 DEF Merged, Accepts, MskAccepted
    <3> QED
      BY <2>5, <2>9, <3>2 DEF MskIsNews
  <2> QED
    BY <2>2, <2>6, <2>7, <2>8, <2>9 DEF Edited, Rotated, Merged
<1>10. CASE Marks(d)
  <2>1. PICK h \in Hashes :
          \E s :
            /\ store' = [store EXCEPT ![d] = s]
            /\ s.slot = store[d].slot
            /\ s.pinned \in {store[d].pinned, MskOf(h)}
            /\ \/ UNCHANGED records
               \/ /\ s.pinned = MskOf(vault[d])
                  /\ records' = Append(records, vault[d])
            /\ \/ /\ s.container = h /\ s.pinned = MskOf(h)
               \/ /\ h = vault[d]
                  /\ s.container = store[d].container
    BY <1>4, <1>10 DEF Marks
  <2>2. PICK s :
            /\ store' = [store EXCEPT ![d] = s]
            /\ s.slot = store[d].slot
            /\ s.pinned \in {store[d].pinned, MskOf(h)}
            /\ \/ UNCHANGED records
               \/ /\ s.pinned = MskOf(vault[d])
                  /\ records' = Append(records, vault[d])
            /\ \/ /\ s.container = h /\ s.pinned = MskOf(h)
               \/ /\ h = vault[d]
                  /\ s.container = store[d].container
    BY <2>1
  <2>3. store'[d] = s /\ MskOf(h)' = MskOf(h) /\ h # None
    BY <1>1, <1>2, <2>2 DEF Hashes, None
  <2>4. CASE s.container = h /\ s.pinned = MskOf(h)
    BY <1>8, <2>3, <2>4
  <2>5. CASE h = vault[d] /\ s.container = store[d].container
    <3>1. s.container = h /\ c = h
      BY <1>1, <2>3, <2>5 DEF c
    <3>2. CASE s.pinned = MskOf(h)
      BY <1>8, <2>3, <3>1, <3>2
    <3>3. CASE s.pinned # MskOf(h)
      <4>1. UNCHANGED records /\ s.pinned = store[d].pinned
        BY <2>2, <2>5, <3>3
      <4> QED
        BY <1>6, <2>2, <2>3, <3>1, <4>1
    <3> QED
      BY <3>2, <3>3
  <2> QED
    BY <2>2, <2>4, <2>5
<1>11. CASE Adopts(d)
  <2>1. /\ UNCHANGED records /\ store'[d].slot = n
    BY <1>1, <1>4, <1>11 DEF Adopts
  <2> QED
    BY <1>7, <2>1
<1>12. CASE Clears(d)
  <2>1. store'[d].container = None
    BY <1>1, <1>4, <1>12 DEF Clears, Empty
  <2> QED
    BY <2>1 DEF MskIsNews
<1>13. CASE Idles(d)
  <2>1. store'[d] = store[d] /\ UNCHANGED records
    BY <1>13 DEF Idles
  <2>2. CASE c = None
    BY <2>1, <2>2 DEF MskIsNews, c
  <2>3. ASSUME NEW b, b = c, c # None PROVE MskIsNews(d)'
    <3>1. MskOf(b)' = MskOf(c)
      BY <1>2, <1>3, <2>3
    <3> QED
      BY <1>6, <2>1, <2>3, <3>1 DEF c
  <2>4. \E b : b = c
    OBVIOUS
  <2> QED
    BY <2>2, <2>3, <2>4
<1> QED
  BY <1>9, <1>10, <1>11, <1>12, <1>13 DEF Does

\* At first nothing is pinned.
LEMMA InitTold == Init => Told
<1> SUFFICES ASSUME Init, NEW d \in Device PROVE MskIsNews(d)
  BY DEF Told
<1>1. store[d].pinned = None
  BY DEF Init, Empty, None
<1> QED
  BY <1>1 DEF MskIsNews

\* A step in which nothing fails tells no device of an MSK it has,
LEMMA NextTold ==
  ASSUME Typed, Tidy, OpenIsStored, Told, Next, faults' = {}
  PROVE  Told'
<1>1. PICK d \in Device : Does(d)
  BY StepDoes
<1>2. \E n : n = NewHash
  OBVIOUS
<1>3. PICK n : n = NewHash
  BY <1>2
<1>4. MskIsNews(d)'
  BY <1>1, <1>3, SelfTold DEF Told
<1>5. \A e \in Device \ {d} : MskIsNews(e)'
  BY <1>1, <1>3, OthersTold DEF Told
<1> QED
  BY <1>4, <1>5 DEF Told

\* nor does one that changes nothing.
LEMMA StutterTold ==
  ASSUME Told, UNCHANGED vars
  PROVE  Told'
<1>1. /\ sealed' = sealed /\ records' = records /\ store' = store
      /\ vault' = vault /\ inHand' = inHand
  BY DEF vars
<1>2. /\ \A d : Foreign(d)' = Foreign(d)
      /\ \A h : MskOf(h)' = MskOf(h)
  BY <1>1 DEF Foreign, Hashes, Recorded, Own, MskOf
<1> QED
  BY <1>1, <1>2 DEF Told, MskIsNews

\* So it is as long as nothing has failed.
LEMMA AlwaysTold == Spec => [](faults = {} => Told)
<1>1. /\ Typed /\ Tidy /\ (~Torn => Sound) /\ (faults = {} => Told)
      /\ [Next]_vars
      => (faults = {} => Told)'
  <2> SUFFICES ASSUME Typed, Tidy, ~Torn => Sound, faults = {} => Told,
                      [Next]_vars, faults' = {}
               PROVE  Told'
    OBVIOUS
  <2>1. CASE Next
    <3>1. faults = {}
      BY <2>1, FaultsStay
    <3>2. OpenIsStored
      BY <3>1 DEF Torn, Sound
    <3> QED
      BY <2>1, <3>1, <3>2, NextTold
  <2>2. CASE UNCHANGED vars
    <3>1. faults = {}
      BY <2>2 DEF vars
    <3> QED
      BY <2>2, <3>1, StutterTold
  <2> QED
    BY <2>1, <2>2
<1> QED
  BY <1>1, InitTold, AlwaysTyped, AlwaysTidy, AlwaysSound, PTL DEF Spec

\* As long as nothing fails, no device that syncs is told that an MSK its own
\* vault has is another one: what it took over it has pinned, and an MSK that
\* it introduced the host has from nobody else.
THEOREM HeldMskAccepted == Spec => []HeldMskIsAccepted
<1>1. ASSUME Typed, ~Torn => Sound, faults = {} => Told
      PROVE  HeldMskIsAccepted
  <2> SUFFICES ASSUME faults = {}, NEW d \in Device, ToldMskChanged(d),
                      MskOf(CurrentRecord) = MskOf(vault[d])
               PROVE  FALSE
    BY DEF HeldMskIsAccepted
  <2> DEFINE h == CurrentRecord
  <2>1. /\ vault[d] # None /\ h # None
        /\ store[d].slot \in sealed[h].slots
        /\ store[d].pinned \notin {None, MskOf(h)}
    BY DEF ToldMskChanged, Opens, MskAccepted
  <2>2. vault[d] = store[d].container
    BY <1>1, <2>1 DEF Torn, Sound, OpenIsStored
  <2>3. h \in Foreign(d)
    BY <1>1, <2>1, RecordNumber DEF Foreign, Recorded
  <2>4. MskIsNews(d)
    BY <1>1 DEF Told
  <2> HIDE DEF h
  <2>5. MskOf(h) = MskOf(store[d].container)
    BY <2>2 DEF h
  <2> QED
    BY <2>1, <2>2, <2>3, <2>4, <2>5 DEF MskIsNews
<1>2. /\ Typed /\ (~Torn => Sound) /\ (faults = {} => Told)
      => HeldMskIsAccepted
  BY <1>1
<1> QED
  BY <1>2, AlwaysTyped, AlwaysSound, AlwaysTold, PTL

=============================================================================
