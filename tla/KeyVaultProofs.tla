--------------------------- MODULE KeyVaultProofs ---------------------------
(***************************************************************************)
(* Theorems about KeyVault for every set of devices and keys, every number *)
(* of push attempts and every bound: its typing, what devices and host     *)
(* hold, and that the vault implements SharedVault.                        *)
(***************************************************************************)
EXTENDS KeyVault, TLAPS

Payloads == [facts : SUBSET Fact, meta : [Key -> Nat], slots : SUBSET Nat]

-----------------------------------------------------------------------------
(* What the operators that seal generations return.                        *)

\* A child has the shape of a generation.
LEMMA ChildType ==
  ASSUME TypeOK, NEW p \in Hashes, NEW F \in SUBSET Fact,
         NEW m \in [Key -> Nat], NEW S \in SUBSET Nat
  PROVE  Child(p, F, m, S) \in Generation
<1>1. sealed[p] \in Generation
  BY DEF TypeOK, Hashes
<1>2. sealed[p].gen + 1 \in Nat \ {0} /\ p \in Nat
  BY <1>1 DEF Generation, Hashes, TypeOK
<1> QED
  BY <1>2 DEF Child, Generation

\* A merge has the shape of a generation, and holds the facts of both sides.
LEMMA MergedType ==
  ASSUME TypeOK, NEW h1 \in Hashes, NEW h2 \in Hashes,
         NEW S \in MergedSlots(h1, h2)
  PROVE  Merged(h1, h2, S) \in Generation
<1>1. sealed[h1] \in Generation /\ sealed[h2] \in Generation
  BY DEF TypeOK, Hashes
<1>2. [k \in Key |-> IF sealed[h2].meta[k] # 0 THEN sealed[h2].meta[k]
                                             ELSE sealed[h1].meta[k]]
        \in [Key -> Nat]
  BY <1>1 DEF Generation
<1>3. sealed[h1].facts \cup sealed[h2].facts \in SUBSET Fact
  BY <1>1 DEF Generation
<1>4. S \in SUBSET Nat
  BY <1>1 DEF Generation, MergedSlots
<1> QED
  BY <1>2, <1>3, <1>4, ChildType DEF Merged

\* Rechaining keeps the shape of a generation.
LEMMA RechainedType ==
  ASSUME TypeOK, NEW h \in Hashes, NEW g \in Nat \ {0}, NEW p \in Nat
  PROVE  Rechained(h, g, p) \in Generation
<1>1. sealed[h] \in Generation
  BY DEF TypeOK, Hashes
<1> QED
  BY <1>1 DEF Rechained, Generation

\* A chain has one generation for each payload.
LEMMA ChainType ==
  ASSUME TypeOK, NEW h \in Hashes, NEW ps \in Seq(Payloads)
  PROVE  /\ Chain(h, ps) \in Seq(Generation)
         /\ Len(Chain(h, ps)) = Len(ps)
<1>1. sealed[h] \in Generation
  BY DEF TypeOK, Hashes
<1>2. ASSUME NEW i \in 1 .. Len(ps)
      PROVE  [gen   |-> sealed[h].gen + i,
              prev  |-> IF i = 1 THEN h ELSE Len(sealed) + i - 1,
              facts |-> ps[i].facts,
              meta  |-> ps[i].meta,
              slots |-> ps[i].slots] \in Generation
  <2>1. ps[i] \in Payloads
    OBVIOUS
  <2>2. (IF i = 1 THEN h ELSE Len(sealed) + i - 1) \in Nat
    BY DEF TypeOK, Hashes
  <2>3. sealed[h].gen + i \in Nat \ {0}
    BY <1>1 DEF Generation
  <2> QED
    BY <2>1, <2>2, <2>3 DEF Generation, Payloads
<1>3. Chain(h, ps) \in [1 .. Len(ps) -> Generation]
  BY <1>2 DEF Chain
<1> QED
  BY <1>3

-----------------------------------------------------------------------------
(* Types.                                                                  *)

\* Sealing more generations keeps every type that mentions a hash.
LEMMA SealMore ==
  ASSUME TypeOK, NEW gs \in Seq(Generation), sealed' = sealed \o gs
  PROVE  /\ sealed' \in Seq(Generation)
         /\ Len(sealed') = Len(sealed) + Len(gs)
         /\ Hashes \subseteq Hashes'
         /\ \A i \in Hashes : sealed'[i] = sealed[i]
<1>1. Len(sealed) \in Nat /\ Len(gs) \in Nat
  BY DEF TypeOK
<1>2. sealed' \in Seq(Generation) /\ Len(sealed') = Len(sealed) + Len(gs)
  BY DEF TypeOK
<1>3. Hashes \subseteq Hashes'
  BY <1>1, <1>2 DEF Hashes
<1>4. \A i \in Hashes : sealed'[i] = sealed[i]
  BY DEF TypeOK, Hashes
<1> QED
  BY <1>2, <1>3, <1>4

\* Sealing one generation.
LEMMA SealOne ==
  ASSUME TypeOK, NEW g \in Generation, sealed' = Append(sealed, g)
  PROVE  /\ sealed' \in Seq(Generation)
         /\ Len(sealed') = Len(sealed) + 1
         /\ Hashes' = Hashes \cup {NewHash}
         /\ \A i \in Hashes : sealed'[i] = sealed[i]
         /\ sealed'[NewHash] = g
<1>1. Len(sealed) \in Nat
  BY DEF TypeOK
<1>2. sealed' \in Seq(Generation) /\ Len(sealed') = Len(sealed) + 1
  BY DEF TypeOK
<1>3. \A i \in Hashes : sealed'[i] = sealed[i]
  BY DEF TypeOK, Hashes
<1>4. sealed'[NewHash] = g
  BY DEF TypeOK, NewHash
<1> QED
  BY <1>1, <1>2, <1>3, <1>4 DEF Hashes, NewHash

\* The current record is a hash, or none.
LEMMA CurrentRecordType ==
  ASSUME TypeOK
  PROVE  CurrentRecord \in Hashes \cup {None}
BY DEF TypeOK, CurrentRecord

\* The initial state has the declared types.
LEMMA InitType == Init => TypeOK
<1> SUFFICES ASSUME Init PROVE TypeOK
  OBVIOUS
<1> USE DEF Init, None
<1>1. [gen |-> 1, prev |-> None, facts |-> {}, meta |-> [k \in Key |-> 0],
       slots |-> {FirstSlot}] \in Generation
  BY DEF Generation, FirstSlot
<1>2. sealed \in Seq(Generation) /\ Len(sealed) = 1
  BY <1>1
<1>3. Hashes = {1}
  BY <1>2 DEF Hashes
<1>4. records \in Seq(Hashes)
  OBVIOUS
<1>5. /\ store \in [Device -> [container : Hashes \cup {None},
                               synced    : Hashes \cup {None},
                               slot      : Hashes \cup {None}]]
      /\ vault \in [Device -> Hashes \cup {None}]
      /\ seen \in [Device -> Hashes \cup {None}]
  BY <1>3 DEF FirstSlot
<1>6. /\ pc \in [Device -> PC]
      /\ attempt \in [Device -> 0 .. PushAttempts]
      /\ thenPush \in [Device -> BOOLEAN]
  BY BoundsAssumption DEF PC
<1>7. calls \in 0 .. MaxCalls /\ faults \in 0 .. MaxFaults
  BY BoundsAssumption
<1> QED
  BY <1>2, <1>4, <1>5, <1>6, <1>7 DEF TypeOK

\* The moves every call is made of keep the types of a device's registers.
LEMMA GotoType ==
  ASSUME TypeOK, NEW d \in Device, NEW p \in PC, Goto(d, p)
  PROVE  /\ pc' \in [Device -> PC]
         /\ seen' \in [Device -> Hashes \cup {None}]
         /\ attempt' \in [Device -> 0 .. PushAttempts]
         /\ thenPush' \in [Device -> BOOLEAN]
<1>1. pc' \in [Device -> PC]
  BY DEF TypeOK, Goto
<1>2. CASE p = "idle"
  <2>1. 0 \in 0 .. PushAttempts
    BY BoundsAssumption
  <2> QED
    BY <1>1, <1>2, <2>1 DEF TypeOK, Goto
<1>3. CASE p # "idle"
  BY <1>1, <1>3 DEF TypeOK, Goto, local
<1> QED
  BY <1>2, <1>3

\* Starting a push attempt keeps the types of the call's variables,
LEMMA OfferType ==
  ASSUME TypeOK, NEW d \in Device, NEW n \in 0 .. PushAttempts, Offer(d, n)
  PROVE  /\ pc' \in [Device -> PC]
         /\ attempt' \in [Device -> 0 .. PushAttempts]
         /\ thenPush' \in [Device -> BOOLEAN]
BY DEF TypeOK, Offer, PC

\* and so does the return from a pull, alone or as part of sync,
LEMMA PullReturnsType ==
  ASSUME TypeOK, NEW d \in Device, PullReturns(d)
  PROVE  /\ pc' \in [Device -> PC]
         /\ seen' \in [Device -> Hashes \cup {None}]
         /\ attempt' \in [Device -> 0 .. PushAttempts]
         /\ thenPush' \in [Device -> BOOLEAN]
<1>1. 1 \in 0 .. PushAttempts
  BY BoundsAssumption
<1>2. CASE thenPush[d]
  BY <1>1, <1>2, OfferType DEF PullReturns, TypeOK
<1>3. CASE ~thenPush[d]
  BY <1>3, GotoType DEF PullReturns, PC
<1> QED
  BY <1>2, <1>3

\* and going on to the next attempt, of which there are PushAttempts.
LEMMA NextAttemptType ==
  ASSUME TypeOK, NEW d \in Device, NextAttempt(d)
  PROVE  /\ pc' \in [Device -> PC]
         /\ seen' \in [Device -> Hashes \cup {None}]
         /\ attempt' \in [Device -> 0 .. PushAttempts]
         /\ thenPush' \in [Device -> BOOLEAN]
<1>1. CASE attempt[d] < PushAttempts
  <2>1. attempt[d] + 1 \in 0 .. PushAttempts
    BY <1>1, BoundsAssumption DEF TypeOK
  <2> QED
    BY <1>1, <2>1, OfferType DEF NextAttempt, TypeOK
<1>2. CASE ~(attempt[d] < PushAttempts)
  BY <1>2, GotoType DEF NextAttempt, PC
<1> QED
  BY <1>1, <1>2

\* Persisting a sealed hash, and marking one as synced.
LEMMA PersistType ==
  ASSUME TypeOK, NEW d \in Device, NEW h \in Hashes', Hashes \subseteq Hashes',
         Persist(d, h)
  PROVE  /\ store' \in [Device -> [container : Hashes' \cup {None},
                                   synced    : Hashes' \cup {None},
                                   slot      : Hashes' \cup {None}]]
         /\ vault' \in [Device -> Hashes' \cup {None}]
BY DEF TypeOK, Persist

\* Noting a hash as synced keeps the types of store and vault.
LEMMA MarkSyncedType ==
  ASSUME TypeOK, NEW d \in Device, NEW h \in Hashes \cup {None},
         MarkSynced(d, h)
  PROVE  /\ store' \in [Device -> [container : Hashes \cup {None},
                                   synced    : Hashes \cup {None},
                                   slot      : Hashes \cup {None}]]
         /\ vault' \in [Device -> Hashes \cup {None}]
BY DEF TypeOK, MarkSynced

\* A call within its bound, a fault within its bound.
LEMMA CallType ==
  ASSUME TypeOK
  PROVE  /\ Call => calls' \in 0 .. MaxCalls
         /\ \A kind : Fault(kind) => faults' \in 0 .. MaxFaults
         /\ NoCall => calls' \in 0 .. MaxCalls /\ faults' \in 0 .. MaxFaults
BY BoundsAssumption DEF TypeOK, Call, Fault, NoCall

\* More hashes only widen the types.
LEMMA RecordsWiden ==
  ASSUME TypeOK, Hashes \subseteq Hashes', UNCHANGED records
  PROVE  records' \in Seq(Hashes')
BY DEF TypeOK

\* Committing a sequence of payloads keeps the types.
LEMMA CommitType ==
  ASSUME TypeOK, NEW d \in Device, NEW ps \in Seq(Payloads),
         NEW push \in BOOLEAN, Commit(d, ps, push)
  PROVE  TypeOK'
<1> DEFINE new == IF ps = <<>> THEN vault[d] ELSE Len(sealed) + Len(ps)
<1>1. vault[d] \in Hashes
  BY DEF Commit, IsOpen, TypeOK
<1>2. /\ Chain(vault[d], ps) \in Seq(Generation)
      /\ Len(Chain(vault[d], ps)) = Len(ps)
  BY <1>1, ChainType
<1>3. /\ sealed' \in Seq(Generation)
      /\ Len(sealed') = Len(sealed) + Len(ps)
      /\ Hashes \subseteq Hashes'
  BY <1>2, SealMore DEF Commit
<1>4. new \in Hashes'
  <2>1. CASE ps = <<>>
    BY <2>1, <1>1, <1>3
  <2>2. CASE ps # <<>>
    <3>1. Len(ps) > 0 /\ Len(sealed) \in Nat
      BY <2>2 DEF TypeOK
    <3> QED
      BY <2>2, <3>1, <1>3 DEF Hashes
  <2> QED
    BY <2>1, <2>2
<1>5. /\ store' \in [Device -> [container : Hashes' \cup {None},
                                synced    : Hashes' \cup {None},
                                slot      : Hashes' \cup {None}]]
      /\ vault' \in [Device -> Hashes' \cup {None}]
  BY <1>3, <1>4, PersistType DEF Commit
<1>6. /\ pc' \in [Device -> PC]
      /\ seen' \in [Device -> Hashes' \cup {None}]
      /\ attempt' \in [Device -> 0 .. PushAttempts]
      /\ thenPush' \in [Device -> BOOLEAN]
  <2>1. 1 \in 0 .. PushAttempts
    BY BoundsAssumption
  <2>2. CASE push
    BY <2>1, <2>2, <1>3, OfferType DEF Commit, TypeOK
  <2>3. CASE ~push
    BY <2>3, <1>3 DEF Commit, TypeOK, local
  <2> QED
    BY <2>2, <2>3
<1>7. records' \in Seq(Hashes')
  BY <1>3, RecordsWiden DEF Commit
<1>8. calls' \in 0 .. MaxCalls /\ faults' \in 0 .. MaxFaults
  BY CallType DEF Commit, TypeOK
<1> QED
  BY <1>3, <1>5, <1>6, <1>7, <1>8 DEF TypeOK

\* What a generation or a payload says: its facts, and for which keys it has
\* app metadata.
Said(F, m) == F \cup ({"meta"} \X {k \in Key : m[k] # 0})

Entries(p) == Said(p.facts, p.meta)

Content(h) == IF h = None THEN {} ELSE Entries(sealed[h])

\* Saying more: more facts, and metadata for every key that had some.
LEMMA SaidMore ==
  ASSUME NEW F, NEW G, NEW m, NEW n, F \subseteq G,
         \A k \in Key : m[k] # 0 => n[k] # 0
  PROVE  Said(F, m) \subseteq Said(G, n)
BY DEF Said

\* The content of a generation tells its facts and its metadata.
LEMMA ContentTells ==
  ASSUME TypeOK, NEW h \in Hashes \cup {None}
  PROVE  /\ Facts(h) = Content(h) \cap Fact
         /\ h # None =>
              \A k \in Key :
                sealed[h].meta[k] # 0 <=> <<"meta", k>> \in Content(h)
<1>1. CASE h = None
  BY <1>1 DEF Facts, Content
<1>2. CASE h # None
  <2>1. sealed[h] \in Generation
    BY <1>2 DEF TypeOK, Hashes
  <2>2. sealed[h].facts \in SUBSET Fact
    BY <2>1 DEF Generation
  <2>3. \A k : <<"meta", k>> \notin Fact
    BY DEF Fact
  <2>4. /\ Facts(h) = sealed[h].facts
        /\ Content(h) = Said(sealed[h].facts, sealed[h].meta)
    BY <1>2 DEF Facts, Content, Entries
  <2>5. Said(sealed[h].facts, sealed[h].meta) \cap Fact = sealed[h].facts
    BY <2>2, <2>3 DEF Said
  <2>6. \A k \in Key : sealed[h].meta[k] # 0
                         <=> <<"meta", k>>
                               \in Said(sealed[h].facts, sealed[h].meta)
    BY <2>2, <2>3 DEF Said
  <2> QED
    BY <2>4, <2>5, <2>6
<1> QED
  BY <1>1, <1>2

\* Each payload says what F says and what the payload before it says.
Grows(F, ps) ==
  \A i \in 1 .. Len(ps) : /\ F \subseteq Entries(ps[i])
                          /\ i > 1 => Entries(ps[i - 1]) \subseteq Entries(ps[i])

\* What the last payload says, or F when there is none.
Ends(F, ps) == IF ps = <<>> THEN F ELSE Entries(ps[Len(ps)])

\* One growing sequence of payloads after another is a growing sequence.
LEMMA GrowsConcat ==
  ASSUME NEW F, NEW s \in Seq(Payloads), NEW t \in Seq(Payloads),
         Grows(F, s), Grows(Ends(F, s), t)
  PROVE  /\ Grows(F, s \o t)
         /\ Ends(F, s \o t) = Ends(Ends(F, s), t)
<1> DEFINE r == s \o t
<1>1. /\ Len(r) = Len(s) + Len(t)
      /\ \A i \in 1 .. Len(s) : r[i] = s[i]
      /\ \A i \in Len(s) + 1 .. Len(r) : r[i] = t[i - Len(s)]
      /\ r = <<>> <=> s = <<>> /\ t = <<>>
  OBVIOUS
<1>2. /\ s = <<>> <=> Len(s) = 0
      /\ t = <<>> <=> Len(t) = 0
      /\ Len(s) \in Nat /\ Len(t) \in Nat
  OBVIOUS
<1> HIDE DEF r
<1>3. F \subseteq Ends(F, s)
  BY <1>2 DEF Ends, Grows
<1>4. ASSUME NEW i \in 1 .. Len(r)
      PROVE  /\ F \subseteq Entries(r[i])
             /\ i > 1 => Entries(r[i - 1]) \subseteq Entries(r[i])
  <2>1. CASE i <= Len(s)
    <3>1. i \in 1 .. Len(s) /\ r[i] = s[i]
      BY <1>1, <1>2, <2>1
    <3>2. i > 1 => r[i - 1] = s[i - 1]
      BY <1>1, <1>2, <3>1
    <3>3. /\ F \subseteq Entries(s[i])
          /\ i > 1 => Entries(s[i - 1]) \subseteq Entries(s[i])
      BY <3>1 DEF Grows
    <3> QED
      BY <3>1, <3>2, <3>3
  <2>2. CASE i > Len(s)
    <3> DEFINE j == i - Len(s)
    <3>1. j \in 1 .. Len(t) /\ r[i] = t[j]
      BY <1>1, <1>2, <2>2
    <3>2. Ends(F, s) \subseteq Entries(t[j])
      BY <3>1 DEF Grows
    <3>3. CASE j = 1
      <4>1. i > 1 => Entries(r[i - 1]) = Ends(F, s)
        BY <1>1, <1>2, <3>3 DEF Ends
      <4> QED
        BY <1>3, <3>1, <3>2, <4>1
    <3>4. CASE j > 1
      <4>1. r[i - 1] = t[j - 1]
        BY <1>1, <1>2, <3>1, <3>4
      <4>2. Entries(t[j - 1]) \subseteq Entries(t[j])
        BY <3>1, <3>4 DEF Grows
      <4> QED
        BY <1>3, <3>1, <3>2, <4>1, <4>2
    <3> QED
      BY <1>2, <3>1, <3>3, <3>4
  <2> QED
    BY <1>1, <1>2, <2>1, <2>2
<1>5. Ends(F, r) = Ends(Ends(F, s), t)
  BY <1>1, <1>2 DEF Ends
<1> QED
  BY <1>4, <1>5 DEF Grows, r

\* A payload that is committed only under a condition.
LEMMA GrowsOne ==
  ASSUME NEW F, NEW p \in Payloads, NEW b \in BOOLEAN, F \subseteq Entries(p)
  PROVE  /\ Grows(F, IF b THEN <<p>> ELSE <<>>)
         /\ Ends(F, IF b THEN <<p>> ELSE <<>>) = IF b THEN Entries(p) ELSE F
         /\ (IF b THEN <<p>> ELSE <<>>) \in Seq(Payloads)
BY DEF Grows, Ends

\* Every editing call commits payloads that grow from those of the open vault,
\* or fails.
LEMMA EditCommits ==
  ASSUME TypeOK, NEW d \in Device, Edit(d)
  PROVE  \/ \E ps \in Seq(Payloads), push \in BOOLEAN :
              Grows(Content(vault[d]), ps) /\ Commit(d, ps, push)
         \/ CommitFails(d)
<1> DEFINE F0 == Facts(vault[d])
           m0 == sealed[vault[d]].meta
           S0 == sealed[vault[d]].slots
           C0 == Content(vault[d])
<1>1. vault[d] # None => /\ F0 \in SUBSET Fact
                         /\ m0 \in [Key -> Nat]
                         /\ S0 \in SUBSET Nat
                         /\ \A k \in Key :
                              /\ Stamped(d, k) \in [Key -> Nat]
                              /\ \A j \in Key : m0[j] # 0 => Stamped(d, k)[j] # 0
                         /\ C0 = Said(F0, m0)
  <2> SUFFICES ASSUME vault[d] # None
               PROVE  /\ F0 \in SUBSET Fact
                      /\ m0 \in [Key -> Nat]
                      /\ S0 \in SUBSET Nat
                      /\ \A k \in Key :
                           /\ Stamped(d, k) \in [Key -> Nat]
                           /\ \A j \in Key : m0[j] # 0 => Stamped(d, k)[j] # 0
                      /\ C0 = Said(F0, m0)
    OBVIOUS
  <2>1. sealed[vault[d]] \in Generation
    BY DEF TypeOK, Hashes
  <2>2. F0 \in SUBSET Fact /\ m0 \in [Key -> Nat] /\ S0 \in SUBSET Nat
    BY <2>1 DEF Facts, Generation
  <2>3. calls + 1 \in Nat /\ calls + 1 # 0
    BY BoundsAssumption DEF TypeOK
  <2>4. \A k \in Key : /\ Stamped(d, k) \in [Key -> Nat]
                       /\ \A j \in Key : m0[j] # 0 => Stamped(d, k)[j] # 0
    BY <2>2, <2>3 DEF Stamped
  <2>5. C0 = Said(F0, m0)
    BY DEF Content, Entries, Facts
  <2> QED
    BY <2>2, <2>4, <2>5
<1>2. vault[d] # None =>
        \A F \in SUBSET Fact, m \in [Key -> Nat] :
          /\ Payload(d, F, m) \in Payloads
          /\ Entries(Payload(d, F, m)) = Said(F, m)
  BY <1>1 DEF Payload, Payloads, Entries
<1>3. ASSUME NEW k \in Key, NEW status \in {"active", "retired", "revoked"},
             NEW withMeta \in BOOLEAN, NEW push \in BOOLEAN,
             Import(d, k, status, withMeta, push)
      PROVE  \E ps \in Seq(Payloads) : Grows(C0, ps) /\ Commit(d, ps, push)
  <2> DEFINE F1 == F0 \cup {<<"key", k>>}
             applies == \/ status = "retired" /\ ~Has(d, "retired", k)
                                              /\ ~Has(d, "revoked", k)
                        \/ status = "revoked" /\ ~Has(d, "revoked", k)
             F2 == IF applies THEN F1 \cup {<<status, k>>} ELSE F1
             C1 == Said(F1, m0)
             C2 == Said(F2, m0)
             C3 == Said(F2, Stamped(d, k))
             p1 == IF F1 = F0 THEN <<>> ELSE <<Payload(d, F1, m0)>>
             p2 == IF applies THEN <<Payload(d, F2, m0)>> ELSE <<>>
             p3 == IF withMeta THEN <<Payload(d, F2, Stamped(d, k))>> ELSE <<>>
  <2>1. vault[d] # None
    BY <1>3 DEF Import, IsOpen
  <2>2. F1 \in SUBSET Fact /\ F2 \in SUBSET Fact
    BY <1>1, <2>1 DEF Fact
  <2>3. /\ C0 \subseteq C1 /\ C1 \subseteq C2 /\ C2 \subseteq C3
        /\ F1 = F0 => C1 = C0
        /\ ~applies => C2 = C1
    <3>1. F0 \subseteq F1 /\ F1 \subseteq F2 /\ (~applies => F2 = F1)
      OBVIOUS
    <3>2. C0 = Said(F0, m0)
      BY <1>1, <2>1
    <3>3. Said(F0, m0) \subseteq C1 /\ C1 \subseteq C2
      <4> HIDE DEF F0, F1, F2, m0
      <4> QED
        BY <3>1, SaidMore
    <3>4. C2 \subseteq C3
      <4>1. \A j \in Key : m0[j] # 0 => Stamped(d, k)[j] # 0
        BY <1>1, <2>1
      <4> HIDE DEF F2, m0
      <4> QED
        BY <4>1, SaidMore
    <3> QED
      BY <3>1, <3>2, <3>3, <3>4
  <2>4. applies \in BOOLEAN
    OBVIOUS
  <2>5. /\ Payload(d, F1, m0) \in Payloads
        /\ Entries(Payload(d, F1, m0)) = C1
        /\ Payload(d, F2, m0) \in Payloads
        /\ Entries(Payload(d, F2, m0)) = C2
        /\ Payload(d, F2, Stamped(d, k)) \in Payloads
        /\ Entries(Payload(d, F2, Stamped(d, k))) = C3
    BY <1>1, <1>2, <2>1, <2>2
  <2>6. p1 \o p2 \o p3 \in Seq(Payloads) /\ Grows(C0, p1 \o p2 \o p3)
    <3> HIDE DEF F0, F1, F2, m0, C0, C1, C2, C3, applies
    <3>1. /\ p1 = IF F1 # F0 THEN <<Payload(d, F1, m0)>> ELSE <<>>
          /\ (F1 # F0) \in BOOLEAN
      OBVIOUS
    <3>8. /\ C0 \subseteq C1 /\ (~(F1 # F0) => C1 = C0)
          /\ Payload(d, F1, m0) \in Payloads
          /\ Entries(Payload(d, F1, m0)) = C1
      BY <2>3, <2>5
    <3>2. /\ Grows(C0, p1) /\ Ends(C0, p1) = C1 /\ p1 \in Seq(Payloads)
      <4> HIDE DEF p1, p2, p3
      <4> QED
        BY <3>1, <3>8, GrowsOne
    <3>3. /\ Grows(C1, p2) /\ Ends(C1, p2) = C2 /\ p2 \in Seq(Payloads)
      <4>1. p2 = IF applies THEN <<Payload(d, F2, m0)>> ELSE <<>>
        OBVIOUS
      <4>2. /\ C1 \subseteq C2 /\ (~applies => C2 = C1)
            /\ Payload(d, F2, m0) \in Payloads
            /\ Entries(Payload(d, F2, m0)) = C2
        BY <2>3, <2>5
      <4> HIDE DEF p1, p2, p3
      <4> QED
        BY <2>4, <4>1, <4>2, GrowsOne
    <3>4. /\ Grows(C2, p3) /\ p3 \in Seq(Payloads)
      BY <2>3, <2>5, GrowsOne
    <3> HIDE DEF p1, p2, p3
    <3>5. /\ Grows(C0, p1 \o p2) /\ Ends(C0, p1 \o p2) = C2
          /\ p1 \o p2 \in Seq(Payloads)
      BY <3>2, <3>3, GrowsConcat
    <3>6. Grows(C0, (p1 \o p2) \o p3)
      BY <3>4, <3>5, GrowsConcat
    <3>7. (p1 \o p2) \o p3 \in Seq(Payloads)
      BY <3>4, <3>5
    <3> QED
      BY <3>6, <3>7
  <2>7. Commit(d, p1 \o p2 \o p3, push)
    BY <1>3 DEF Import
  <2> QED
    BY <2>6, <2>7
<1>4. ASSUME NEW k \in Key, SetKeyMeta(d, k)
      PROVE  \E ps \in Seq(Payloads) : Grows(C0, ps) /\ Commit(d, ps, TRUE)
  <2>1. vault[d] # None
    BY <1>4 DEF SetKeyMeta, IsOpen
  <2>2. /\ <<Payload(d, F0, Stamped(d, k))>> \in Seq(Payloads)
        /\ Grows(C0, <<Payload(d, F0, Stamped(d, k))>>)
    <3>1. /\ F0 \in SUBSET Fact /\ Stamped(d, k) \in [Key -> Nat]
          /\ \A j \in Key : m0[j] # 0 => Stamped(d, k)[j] # 0
          /\ C0 = Said(F0, m0)
      BY <1>1, <2>1
    <3>2. PICK p : p = Payload(d, F0, Stamped(d, k))
      OBVIOUS
    <3>3. p \in Payloads /\ Entries(p) = Said(F0, Stamped(d, k))
      BY <1>2, <2>1, <3>1, <3>2
    <3>4. C0 \subseteq Entries(p)
      BY <3>1, <3>3, SaidMore
    <3>5. <<p>> \in Seq(Payloads) /\ Grows(C0, <<p>>)
      <4> HIDE DEF C0
      <4> QED
        BY <3>3, <3>4 DEF Grows
    <3> QED
      BY <3>2, <3>5
  <2> QED
    BY <1>4, <2>2 DEF SetKeyMeta
<1>5. ASSUME NEW k \in Key, NEW kind \in {"retired", "revoked", "tombstone"},
             ChangeKey(d, k, kind)
      PROVE  \E ps \in Seq(Payloads) : Grows(C0, ps) /\ Commit(d, ps, TRUE)
  <2>1. vault[d] # None
    BY <1>5 DEF ChangeKey, IsOpen
  <2>2. F0 \cup {<<kind, k>>} \in SUBSET Fact
    BY <1>1, <2>1 DEF Fact
  <2>3. /\ <<Payload(d, F0 \cup {<<kind, k>>}, m0)>> \in Seq(Payloads)
        /\ Grows(C0, <<Payload(d, F0 \cup {<<kind, k>>}, m0)>>)
    <3>1. PICK F, p : /\ F = F0 \cup {<<kind, k>>}
                      /\ p = Payload(d, F, m0)
      OBVIOUS
    <3>2. p \in Payloads /\ Entries(p) = Said(F, m0)
      BY <1>1, <1>2, <2>1, <2>2, <3>1
    <3>3. C0 \subseteq Entries(p)
      <4>1. C0 = Said(F0, m0) /\ F0 \subseteq F
        BY <1>1, <2>1, <3>1
      <4> HIDE DEF C0, F0, m0
      <4> QED
        BY <3>2, <4>1, SaidMore
    <3>4. <<p>> \in Seq(Payloads) /\ Grows(C0, <<p>>)
      <4> HIDE DEF C0
      <4> QED
        BY <3>2, <3>3 DEF Grows
    <3> QED
      BY <3>1, <3>4
  <2> QED
    BY <1>5, <2>3 DEF ChangeKey
<1>6. ASSUME NEW slot \in Hashes, RemoveDevice(d, slot)
      PROVE  \E ps \in Seq(Payloads) : Grows(C0, ps) /\ Commit(d, ps, TRUE)
  <2>1. vault[d] # None
    BY <1>6 DEF RemoveDevice, IsOpen
  <2> DEFINE p == [Payload(d, F0, m0) EXCEPT !.slots = @ \ {slot}]
  <2>2. p \in Payloads /\ Entries(p) = C0
    BY <1>1, <2>1 DEF Payload, Payloads, Entries
  <2>3. Commit(d, <<p, p>>, TRUE)
    BY <1>6 DEF RemoveDevice
  <2> HIDE DEF p
  <2>4. <<p, p>> \in Seq(Payloads) /\ Grows(C0, <<p, p>>)
    <3> HIDE DEF C0
    <3> QED
      BY <2>2 DEF Grows
  <2> QED
    BY <2>3, <2>4
<1> QED
  BY <1>3, <1>4, <1>5, <1>6 DEF Edit

\* A step that seals nothing.
LEMMA SameSealed ==
  ASSUME TypeOK, UNCHANGED sealed
  PROVE  /\ sealed' \in Seq(Generation)
         /\ Hashes' = Hashes
         /\ UNCHANGED records => records' \in Seq(Hashes')
BY DEF TypeOK, Hashes

\* A push attempt that seals g on top of something and offers it again.
LEMMA SealAndRetryType ==
  ASSUME TypeOK, NEW d \in Device, NEW g \in Generation,
         sealed' = Append(sealed, g), Persist(d, NewHash),
         UNCHANGED records, NoCall,
         NextAttempt(d) \/ PullReturns(d)
  PROVE  TypeOK'
<1>1. /\ sealed' \in Seq(Generation)
      /\ Hashes' = Hashes \cup {NewHash}
  BY SealOne
<1>2. /\ pc' \in [Device -> PC]
      /\ seen' \in [Device -> Hashes \cup {None}]
      /\ attempt' \in [Device -> 0 .. PushAttempts]
      /\ thenPush' \in [Device -> BOOLEAN]
  BY NextAttemptType, PullReturnsType
<1>3. seen' \in [Device -> Hashes' \cup {None}]
  BY <1>1, <1>2
<1>4. /\ store' \in [Device -> [container : Hashes' \cup {None},
                                synced    : Hashes' \cup {None},
                                slot      : Hashes' \cup {None}]]
      /\ vault' \in [Device -> Hashes' \cup {None}]
  BY <1>1, PersistType
<1>5. records' \in Seq(Hashes')
  BY <1>1, RecordsWiden
<1>6. calls' \in 0 .. MaxCalls /\ faults' \in 0 .. MaxFaults
  BY CallType
<1> QED
  BY <1>1, <1>2, <1>3, <1>4, <1>5, <1>6 DEF TypeOK

\* The host's answer to a put keeps the type of its records.
LEMMA AcceptType ==
  ASSUME TypeOK, NEW h \in Hashes, HostAccepts(h)
  PROVE  records' \in Seq(Hashes)
<1>1. CASE UNCHANGED records
  BY <1>1 DEF TypeOK
<1>2. CASE records' = Append(records, h)
  BY <1>2 DEF TypeOK
<1> QED
  BY <1>1, <1>2 DEF HostAccepts

Typed == TypeOK /\ CallsHoldTheirData

\* The steps of a pull keep the types.
LEMMA PullType ==
  ASSUME Typed, NEW d \in Device,
         \/ \E sync \in BOOLEAN : PullRead(d, sync)
         \/ PullSame(d) \/ PullRefused(d) \/ PullFastForward(d)
         \/ PullPersist(d) \/ PullMerge(d)
  PROVE  TypeOK'
<1> USE DEF Typed
<1>1. 1 \in 0 .. PushAttempts
  BY BoundsAssumption
<1>2. CASE \E sync \in BOOLEAN : PullRead(d, sync)
  <2> PICK sync \in BOOLEAN : PullRead(d, sync)
    BY <1>2
  <2>1. UNCHANGED <<sealed, records, store, vault, faults>>
    BY DEF PullRead
  <2>2. calls' \in 0 .. MaxCalls
    BY CallType DEF PullRead, TypeOK
  <2>3. /\ pc' \in [Device -> PC]
        /\ seen' \in [Device -> Hashes \cup {None}]
        /\ attempt' \in [Device -> 0 .. PushAttempts]
        /\ thenPush' \in [Device -> BOOLEAN]
    <3>1. CASE CurrentRecord = None /\ sync
      BY <3>1, <1>1, OfferType DEF PullRead, TypeOK
    <3>2. CASE CurrentRecord = None /\ ~sync
      BY <3>2 DEF PullRead, TypeOK, local
    <3>3. CASE CurrentRecord # None
      BY <3>3, CurrentRecordType DEF PullRead, TypeOK, PC
    <3> QED
      BY <3>1, <3>2, <3>3
  <2> QED
    BY <2>1, <2>2, <2>3, SameSealed DEF TypeOK
<1>3. CASE PullSame(d)
  BY <1>3, PullReturnsType, MarkSyncedType, SameSealed, CallType
     DEF PullSame, TypeOK
<1>7. CASE PullRefused(d)
  <2>1. "idle" \in PC
    BY DEF PC
  <2> QED
    BY <1>7, <2>1, GotoType, SameSealed, CallType DEF PullRefused, TypeOK
<1>4. CASE PullFastForward(d)
  <2>1. "pull_persist" \in PC
    BY DEF PC
  <2> QED
    BY <1>4, <2>1, GotoType, MarkSyncedType, SameSealed, CallType
       DEF PullFastForward, TypeOK
<1>5. CASE PullPersist(d)
  <2>1. seen[d] \in Hashes
    BY <1>5 DEF PullPersist, CallsHoldTheirData, TypeOK
  <2> QED
    BY <1>5, <2>1, PullReturnsType, PersistType, SameSealed, CallType
       DEF PullPersist, TypeOK
<1>6. CASE PullMerge(d)
  <2>1. seen[d] \in Hashes /\ vault[d] \in Hashes
    BY <1>6 DEF PullMerge, Differs, CallsHoldTheirData, TypeOK
  <2>2. PICK S \in MergedSlots(seen[d], vault[d]) :
          sealed' = Append(sealed, Merged(seen[d], vault[d], S))
    BY <1>6 DEF PullMerge
  <2>3. Merged(seen[d], vault[d], S) \in Generation
    BY <2>1, MergedType
  <2> QED
    BY <1>6, <2>2, <2>3, SealAndRetryType DEF PullMerge
<1> QED
  BY <1>2, <1>3, <1>4, <1>5, <1>6, <1>7

\* The steps of a push keep the types.
LEMMA PushType ==
  ASSUME Typed, NEW d \in Device,
         \/ Push(d) \/ PushNothing(d) \/ PushAccepted(d) \/ PushSynced(d)
         \/ PushRestart(d) \/ PushConflict(d) \/ PushRead(d)
         \/ PushRechain(d) \/ PushRefused(d) \/ PushMerge(d)
  PROVE  TypeOK'
<1> USE DEF Typed
<1>1. 1 \in 0 .. PushAttempts
  BY BoundsAssumption
<1>2. {"idle", "push_synced", "push_read", "push_resolve"} \subseteq PC
  BY DEF PC
<1>3. CASE Push(d)
  BY <1>1, <1>3, OfferType, SameSealed, CallType DEF Push, TypeOK
<1>4. CASE PushNothing(d)
  BY <1>2, <1>4, GotoType, SameSealed, CallType DEF PushNothing, TypeOK
<1>5. CASE PushAccepted(d)
  <2>1. vault[d] \in Hashes
    BY <1>5 DEF PushAccepted, Offering, CallsHoldTheirData, TypeOK
  <2>2. records' \in Seq(Hashes)
    BY <1>5, <2>1, AcceptType DEF PushAccepted
  <2> QED
    BY <1>2, <1>5, <2>2, GotoType, SameSealed, CallType
       DEF PushAccepted, TypeOK
<1>6. CASE PushSynced(d)
  BY <1>2, <1>6, GotoType, MarkSyncedType, SameSealed, CallType
     DEF PushSynced, TypeOK
<1>7. ASSUME NEW g \in Nat \ {0}, NEW p \in Nat, Rechain(d, g, p),
             vault[d] # None
      PROVE  TypeOK'
  <2>1. Rechained(vault[d], g, p) \in Generation
    BY <1>7, RechainedType DEF TypeOK
  <2> QED
    BY <1>7, <2>1, SealAndRetryType DEF Rechain
<1>8. CASE PushRestart(d)
  <2>1. vault[d] # None
    BY <1>8 DEF PushRestart, Offering, CallsHoldTheirData
  <2> QED
    BY <1>7, <1>8, <2>1 DEF PushRestart, None
<1>9. CASE PushConflict(d)
  BY <1>2, <1>9, GotoType, SameSealed, CallType DEF PushConflict, TypeOK
<1>10. CASE PushRead(d)
  BY <1>2, <1>10, CurrentRecordType, SameSealed, CallType
     DEF PushRead, TypeOK
<1>11. CASE PushRechain(d)
  <2>1. seen[d] \in Hashes /\ vault[d] # None
    BY <1>11 DEF PushRechain, CallsHoldTheirData, TypeOK
  <2>2. sealed[seen[d]] \in Generation /\ seen[d] \in Nat
    BY <2>1 DEF TypeOK, Hashes
  <2>3. sealed[seen[d]].gen + 1 \in Nat \ {0}
    BY <2>2 DEF Generation
  <2> QED
    BY <1>7, <1>11, <2>1, <2>2, <2>3 DEF PushRechain
<1>12. CASE PushMerge(d)
  <2>1. seen[d] \in Hashes /\ vault[d] \in Hashes
    BY <1>12 DEF PushMerge, CallsHoldTheirData, TypeOK
  <2>2. PICK S \in MergedSlots(seen[d], vault[d]) :
          sealed' = Append(sealed, Merged(seen[d], vault[d], S))
    BY <1>12 DEF PushMerge
  <2>3. Merged(seen[d], vault[d], S) \in Generation
    BY <2>1, MergedType
  <2> QED
    BY <1>12, <2>2, <2>3, SealAndRetryType DEF PushMerge
<1>13. CASE PushRefused(d)
  BY <1>2, <1>13, GotoType, SameSealed, CallType DEF PushRefused, TypeOK
<1> QED
  BY <1>3, <1>4, <1>5, <1>6, <1>8, <1>9, <1>10, <1>11, <1>12, <1>13

\* Opening, adopting, clearing and the faults keep the types.
LEMMA OtherType ==
  ASSUME Typed, NEW d \in Device,
         \/ Open(d) \/ CommitFails(d)
         \/ AdoptRead(d) \/ AdoptKey(d) \/ AdoptWrite(d) \/ AdoptPersist(d)
         \/ Clear(d) \/ ClearDevice(d) \/ ClearSynced(d) \/ Disturb(d)
  PROVE  TypeOK'
<1> USE DEF Typed
<1>1. {"idle", "adopt_key", "adopt_write", "adopt_persist", "clear_device",
       "clear_synced"} \subseteq PC
  BY DEF PC
<1>2. CASE Open(d)
  BY <1>2, SameSealed, CallType DEF Open, TypeOK, local
<1>3. CASE CommitFails(d)
  BY <1>3, SameSealed, CallType DEF CommitFails, TypeOK, local
<1>4. CASE AdoptRead(d)
  BY <1>1, <1>4, CurrentRecordType, SameSealed, CallType
     DEF AdoptRead, TypeOK
<1>5. CASE AdoptWrite(d)
  <2>1. seen[d] \in Hashes
    BY <1>5 DEF AdoptWrite, CallsHoldTheirData, TypeOK
  <2>2. sealed[seen[d]] \in Generation
    BY <2>1 DEF TypeOK, Hashes
  <2>3. PICK synced \in {seen[d], None} : SealSlot(d, synced)
    BY <1>5 DEF AdoptWrite
  <2> DEFINE g == Child(seen[d], Facts(seen[d]), sealed[seen[d]].meta,
                        sealed[seen[d]].slots \cup {NewHash})
  <2>8. sealed[seen[d]].slots \cup {NewHash} \in SUBSET Nat
    BY <2>2 DEF Generation, NewHash, TypeOK
  <2>9. g \in Generation
    BY <2>1, <2>2, <2>8, ChildType DEF Generation, Facts, None, Hashes
  <2>10. sealed' = Append(sealed, g)
    BY <2>3 DEF SealSlot
  <2> HIDE DEF g
  <2>4. /\ sealed' \in Seq(Generation)
        /\ Hashes' = Hashes \cup {NewHash}
    BY <2>9, <2>10, SealOne
  <2>5. /\ store' \in [Device -> [container : Hashes' \cup {None},
                                  synced    : Hashes' \cup {None},
                                  slot      : Hashes' \cup {None}]]
        /\ vault' \in [Device -> Hashes' \cup {None}]
    <3>1. store' = [store EXCEPT ![d].slot = NewHash, ![d].synced = synced]
      BY <2>3 DEF SealSlot
    <3>2. synced \in Hashes \cup {None} /\ UNCHANGED vault
      BY <1>5, <2>1 DEF AdoptWrite
    <3>3. NewHash \in Hashes' /\ Hashes \subseteq Hashes'
      BY <2>4
    <3> HIDE DEF NewHash
    <3>4. store \in [Device -> [container : Hashes' \cup {None},
                               synced    : Hashes' \cup {None},
                               slot      : Hashes' \cup {None}]]
      BY <3>3 DEF TypeOK
    <3>5. synced \in Hashes' \cup {None}
      BY <3>2, <3>3
    <3>6. vault' \in [Device -> Hashes' \cup {None}]
      BY <3>2, <3>3 DEF TypeOK
    <3>7. store' \in [Device -> [container : Hashes' \cup {None},
                                synced    : Hashes' \cup {None},
                                slot      : Hashes' \cup {None}]]
      BY <3>1, <3>3, <3>4, <3>5
    <3> QED
      BY <3>6, <3>7
  <2>6. /\ pc' \in [Device -> PC]
        /\ seen' \in [Device -> Hashes' \cup {None}]
        /\ attempt' \in [Device -> 0 .. PushAttempts]
        /\ thenPush' \in [Device -> BOOLEAN]
    BY <1>1, <1>5, <2>4 DEF AdoptWrite, TypeOK
  <2>7. /\ records' \in Seq(Hashes')
        /\ calls' \in 0 .. MaxCalls
        /\ faults' \in 0 .. MaxFaults
    BY <1>5, <2>4, RecordsWiden, CallType DEF AdoptWrite
  <2> QED
    BY <2>4, <2>5, <2>6, <2>7 DEF TypeOK
<1>6. CASE AdoptPersist(d)
  <2>1. seen[d] \in Hashes
    BY <1>6 DEF AdoptPersist, CallsHoldTheirData, TypeOK
  <2> QED
    BY <1>1, <1>6, <2>1, GotoType, PersistType, SameSealed, CallType
       DEF AdoptPersist, TypeOK
<1>7. CASE Clear(d)
  BY <1>1, <1>7, SameSealed, CallType DEF Clear, TypeOK, local
<1>13. CASE AdoptKey(d) \/ ClearDevice(d)
  <2>1. /\ sealed' \in Seq(Generation) /\ Hashes' = Hashes
        /\ UNCHANGED <<records, vault, seen, attempt, thenPush, calls, faults>>
    BY <1>13, SameSealed DEF AdoptKey, ClearDevice, NoCall, local
  <2>2. store' \in [Device -> [container : Hashes \cup {None},
                               synced    : Hashes \cup {None},
                               slot      : Hashes \cup {None}]]
    <3>1. store' = [store EXCEPT ![d].slot = None]
      BY <1>13 DEF AdoptKey, ClearDevice
    <3>2. Hashes' = Hashes
      BY <2>1 DEF Hashes
    <3> QED
      BY <3>1 DEF TypeOK
  <2>3. pc' \in [Device -> PC]
    BY <1>1, <1>13 DEF AdoptKey, ClearDevice, TypeOK
  <2> QED
    BY <2>1, <2>2, <2>3 DEF TypeOK
<1>8. CASE ClearSynced(d)
  <2>1. /\ sealed' \in Seq(Generation) /\ Hashes' = Hashes
        /\ records' \in Seq(Hashes)
        /\ calls' \in 0 .. MaxCalls
        /\ faults' \in 0 .. MaxFaults
    BY <1>8, SameSealed, CallType DEF ClearSynced, TypeOK
  <2>2. /\ pc' \in [Device -> PC]
        /\ seen' \in [Device -> Hashes \cup {None}]
        /\ attempt' \in [Device -> 0 .. PushAttempts]
        /\ thenPush' \in [Device -> BOOLEAN]
    BY <1>1, <1>8, GotoType DEF ClearSynced, TypeOK
  <2>3. /\ store' \in [Device -> [container : Hashes \cup {None},
                                  synced    : Hashes \cup {None},
                                  slot      : Hashes \cup {None}]]
        /\ vault' \in [Device -> Hashes \cup {None}]
    BY <1>8 DEF ClearSynced, TypeOK
  <2> QED
    BY <2>1, <2>2, <2>3 DEF TypeOK
<1>9. CASE HostCallFails(d)
  BY <1>1, <1>9, GotoType, SameSealed, CallType DEF HostCallFails, TypeOK
<1>10. CASE AnswerLost(d)
  <2>1. vault[d] \in Hashes
    BY <1>10 DEF AnswerLost, Offering, CallsHoldTheirData, TypeOK
  <2>2. records' \in Seq(Hashes)
    BY <1>10, <2>1, AcceptType DEF AnswerLost
  <2> QED
    BY <1>1, <1>10, <2>2, GotoType, SameSealed, CallType
       DEF AnswerLost, TypeOK
<1>11. CASE StoreWriteFails(d)
  BY <1>1, <1>11, GotoType, SameSealed, CallType DEF StoreWriteFails, TypeOK
<1>12. CASE Crash(d)
  BY <1>1, <1>12, GotoType, SameSealed, CallType DEF Crash, TypeOK
<1> QED
  BY <1>2, <1>3, <1>4, <1>5, <1>6, <1>7, <1>8, <1>9, <1>10, <1>11, <1>12,
     <1>13
     DEF Disturb

\* Every step keeps the types.
LEMMA NextType ==
  ASSUME Typed, [Next]_vars
  PROVE  TypeOK'
<1>1. CASE UNCHANGED vars
  BY <1>1 DEF Typed, TypeOK, vars, Hashes
<1>2. CASE Next
  <2>1. PICK d \in Device :
          \/ Open(d) \/ Edit(d) \/ Push(d) \/ AdoptRead(d) \/ Clear(d)
          \/ \E sync \in BOOLEAN : PullRead(d, sync)
          \/ Continue(d)
          \/ Disturb(d)
    BY <1>2 DEF Next
  <2>2. CASE Edit(d)
    BY <2>2, EditCommits, CommitType, OtherType DEF Typed
  <2>3. CASE Open(d) \/ AdoptRead(d) \/ Clear(d) \/ Disturb(d)
    BY <2>3, OtherType
  <2>4. CASE Push(d) \/ (\E sync \in BOOLEAN : PullRead(d, sync))
    BY <2>4, PushType, PullType
  <2>5. CASE Continue(d)
    BY <2>5, PushType, PullType, OtherType DEF Continue
  <2> QED
    BY <2>1, <2>2, <2>3, <2>4, <2>5
<1> QED
  BY <1>1, <1>2

-----------------------------------------------------------------------------
(* A running call holds what its next step needs.                          *)

\* An accepting host is not empty afterwards.
LEMMA AcceptNonEmpty ==
  ASSUME TypeOK, NEW h \in Hashes, HostAccepts(h)
  PROVE  records # <<>> => records' # <<>>
BY DEF HostAccepts, TypeOK

\* Where a call stands after one of its common moves.
LEMMA MovesTo ==
  ASSUME TypeOK, NEW d \in Device
  PROVE  /\ \A p : Goto(d, p) =>
              /\ pc' = [pc EXCEPT ![d] = p]
              /\ \A e \in Device \ {d} : seen'[e] = seen[e]
              /\ p # "idle" => seen' = seen
         /\ \A n : Offer(d, n) => pc' = [pc EXCEPT ![d] = "push_put"]
         /\ PullReturns(d) =>
              /\ \E p \in {"push_put", "idle"} : pc' = [pc EXCEPT ![d] = p]
              /\ \A e \in Device \ {d} : seen'[e] = seen[e]
         /\ NextAttempt(d) =>
              /\ \E p \in {"push_put", "idle"} : pc' = [pc EXCEPT ![d] = p]
              /\ \A e \in Device \ {d} : seen'[e] = seen[e]
BY DEF TypeOK, Goto, Offer, PullReturns, NextAttempt, local

\* After a commit the vault is open, and the call is over or about to push.
LEMMA CommitHolds ==
  ASSUME Typed, NEW d \in Device, NEW ps \in Seq(Payloads),
         NEW push \in BOOLEAN, Commit(d, ps, push)
  PROVE  CallsHoldTheirData'
<1> DEFINE new == IF ps = <<>> THEN vault[d] ELSE Len(sealed) + Len(ps)
<1>1. new # None
  BY DEF Commit, IsOpen, None, Typed, TypeOK
<1>2. vault' = [vault EXCEPT ![d] = new] /\ UNCHANGED records
  BY DEF Commit, Persist
<1>3. /\ UNCHANGED seen
      /\ \/ UNCHANGED pc
         \/ pc' = [pc EXCEPT ![d] = "push_put"]
  BY DEF Commit, Offer, local
<1>4. pc[d] = "idle"
  BY DEF Commit, IsOpen
<1> HIDE DEF new
<1> QED
  BY <1>1, <1>2, <1>3, <1>4 DEF CallsHoldTheirData, Typed, TypeOK

\* No step leaves a running call without the data its next step needs.
LEMMA NextHolds ==
  ASSUME Typed, [Next]_vars
  PROVE  CallsHoldTheirData'
<1> USE DEF Typed
<1>1. CASE UNCHANGED vars
  BY <1>1 DEF CallsHoldTheirData, vars
<1>2. ASSUME NEW d \in Device,
             \/ Open(d) \/ Push(d) \/ AdoptRead(d) \/ Clear(d)
             \/ \E sync \in BOOLEAN : PullRead(d, sync)
             \/ Continue(d) \/ Disturb(d) \/ CommitFails(d)
      PROVE  CallsHoldTheirData'
  <2>1. CASE Open(d)
    BY <2>1 DEF Open, CallsHoldTheirData, TypeOK, local
  <2>2. CASE Push(d)
    BY <2>2 DEF Push, IsOpen, Offer, CallsHoldTheirData, TypeOK
  <2>3. CASE AdoptRead(d)
    BY <2>3 DEF AdoptRead, CallsHoldTheirData, TypeOK
  <2>4. CASE Clear(d)
    BY <2>4 DEF Clear, CallsHoldTheirData, TypeOK, local
  <2>5. CASE \E sync \in BOOLEAN : PullRead(d, sync)
    BY <2>5 DEF PullRead, IsOpen, Offer, CallsHoldTheirData, TypeOK, local
  <2>6. CASE CommitFails(d)
    BY <2>6 DEF CommitFails, IsOpen, CallsHoldTheirData, TypeOK, local
  <2>7. CASE PullSame(d)
    BY <2>7, MovesTo DEF PullSame, MarkSynced, CallsHoldTheirData, TypeOK
  <2>19. CASE PullRefused(d)
    BY <2>19, MovesTo DEF PullRefused, CallsHoldTheirData, TypeOK
  <2>20. CASE PushRefused(d)
    BY <2>20, MovesTo DEF PushRefused, CallsHoldTheirData, TypeOK
  <2>8. CASE PullFastForward(d)
    <3>1. /\ pc' = [pc EXCEPT ![d] = "pull_persist"]
          /\ UNCHANGED <<records, seen, vault>>
      BY <2>8, MovesTo DEF PullFastForward, MarkSynced
    <3>2. seen[d] # None /\ vault[d] # None
      BY <2>8 DEF PullFastForward, Differs, CallsHoldTheirData
    <3> QED
      BY <3>1, <3>2 DEF CallsHoldTheirData, TypeOK
  <2>9. CASE PullPersist(d)
    <3>1. seen[d] # None
      BY <2>9 DEF PullPersist, CallsHoldTheirData
    <3>2. /\ UNCHANGED records
          /\ vault' = [vault EXCEPT ![d] = seen[d]]
          /\ PullReturns(d)
      BY <2>9 DEF PullPersist, Persist
    <3>3. PICK p \in {"push_put", "idle"} : pc' = [pc EXCEPT ![d] = p]
      BY <3>2, MovesTo
    <3>4. \A e \in Device \ {d} : seen'[e] = seen[e]
      BY <3>2, MovesTo
    <3>5. vault'[d] # None /\ pc'[d] \in {"push_put", "idle"}
      BY <3>1, <3>2, <3>3 DEF TypeOK
    <3>6. \A e \in Device \ {d} : vault'[e] = vault[e] /\ pc'[e] = pc[e]
      BY <3>2, <3>3 DEF TypeOK
    <3> QED
      BY <3>2, <3>4, <3>5, <3>6 DEF CallsHoldTheirData
  <2>10. NewHash # None
    BY DEF NewHash, None, TypeOK
  <2>11. CASE PullMerge(d) \/ PushMerge(d) \/ PushRechain(d) \/ PushRestart(d)
    <3>1. /\ UNCHANGED records
          /\ vault' = [vault EXCEPT ![d] = NewHash]
          /\ NextAttempt(d) \/ PullReturns(d)
      BY <2>11 DEF PullMerge, PushMerge, PushRechain, PushRestart, Rechain,
                   Persist
    <3>2. PICK p \in {"push_put", "idle"} : pc' = [pc EXCEPT ![d] = p]
      BY <3>1, MovesTo
    <3>3. \A e \in Device \ {d} : seen'[e] = seen[e]
      BY <3>1, MovesTo
    <3>4. vault'[d] # None /\ pc'[d] \in {"push_put", "idle"}
      BY <2>10, <3>1, <3>2 DEF TypeOK
    <3>5. \A e \in Device \ {d} : vault'[e] = vault[e] /\ pc'[e] = pc[e]
      BY <3>1, <3>2 DEF TypeOK
    <3> QED
      BY <3>1, <3>3, <3>4, <3>5 DEF CallsHoldTheirData
  <2>12. CASE PushNothing(d) \/ PushConflict(d)
    BY <2>12, MovesTo
       DEF PushNothing, PushConflict, Offering, CallsHoldTheirData, TypeOK,
           CurrentRecord
  <2>13. CASE PushAccepted(d) \/ AnswerLost(d)
    <3>1. vault[d] \in Hashes
      BY <2>13 DEF PushAccepted, AnswerLost, Offering, CallsHoldTheirData,
                   TypeOK
    <3>2. records # <<>> => records' # <<>>
      BY <2>13, <3>1, AcceptNonEmpty DEF PushAccepted, AnswerLost
    <3>3. PICK p \in {"push_synced", "idle"} : Goto(d, p)
      BY <2>13 DEF PushAccepted, AnswerLost
    <3>4. /\ pc' = [pc EXCEPT ![d] = p]
          /\ \A e \in Device \ {d} : seen'[e] = seen[e]
      BY <3>3, MovesTo
    <3>5. pc'[d] = p /\ \A e \in Device \ {d} : pc'[e] = pc[e]
      BY <3>4 DEF TypeOK
    <3>6. UNCHANGED vault /\ vault[d] # None
      BY <2>13, <3>1 DEF PushAccepted, AnswerLost, Hashes, None
    <3> QED
      BY <3>2, <3>4, <3>5, <3>6 DEF CallsHoldTheirData
  <2>14. CASE PushSynced(d)
    BY <2>14, MovesTo DEF PushSynced, MarkSynced, CallsHoldTheirData, TypeOK
  <2>15. CASE PushRead(d)
    <3>1. CurrentRecord # None
      BY <2>15 DEF PushRead, CallsHoldTheirData, CurrentRecord, TypeOK, Hashes,
                   None
    <3> QED
      BY <2>15, <3>1 DEF PushRead, CallsHoldTheirData, TypeOK
  <2>16. CASE AdoptWrite(d)
    BY <2>10, <2>16 DEF AdoptWrite, CallsHoldTheirData, TypeOK
  <2>21. CASE AdoptKey(d) \/ ClearDevice(d)
    BY <2>21 DEF AdoptKey, ClearDevice, CallsHoldTheirData, TypeOK, local
  <2>17. CASE AdoptPersist(d) \/ ClearSynced(d) \/ Crash(d)
    <3>1. /\ UNCHANGED records
          /\ \A e \in Device \ {d} : vault'[e] = vault[e]
          /\ Goto(d, "idle")
      BY <2>17 DEF AdoptPersist, ClearSynced, Crash, Persist, TypeOK
    <3>2. /\ pc' = [pc EXCEPT ![d] = "idle"]
          /\ \A e \in Device \ {d} : seen'[e] = seen[e]
      BY <3>1, MovesTo
    <3>3. pc'[d] = "idle" /\ \A e \in Device \ {d} : pc'[e] = pc[e]
      BY <3>2 DEF TypeOK
    <3> QED
      BY <3>1, <3>2, <3>3 DEF CallsHoldTheirData
  <2>18. CASE HostCallFails(d) \/ StoreWriteFails(d)
    BY <2>18, MovesTo DEF HostCallFails, StoreWriteFails, CallsHoldTheirData,
                          TypeOK
  <2> QED
    BY <1>2, <2>1, <2>2, <2>3, <2>4, <2>5, <2>6, <2>7, <2>8, <2>9, <2>11,
       <2>12, <2>13, <2>14, <2>15, <2>16, <2>17, <2>18, <2>19, <2>20, <2>21
       DEF Continue, Disturb
<1>3. ASSUME NEW d \in Device, Edit(d)
      PROVE  CallsHoldTheirData'
  BY <1>2, <1>3, EditCommits, CommitHolds
<1> QED
  BY <1>1, <1>2, <1>3 DEF Next

\* What every step of a call may assume: the types, and that the call holds
\* the record it read and a vault nobody closed under it.
THEOREM AlwaysTyped == Spec => []Typed
<1>1. Init => Typed
  BY InitType DEF Init, CallsHoldTheirData, Typed
<1>2. Typed /\ [Next]_vars => Typed'
  BY NextType, NextHolds DEF Typed
<1> QED
  BY <1>1, <1>2, PTL DEF Spec

\* Whatever the devices, the keys, the number of push attempts and the faults,
\* every state is well typed: hashes name generations that were sealed before
\* they were stored or sent, and push stays within its attempts.
THEOREM TypeCorrect == Spec => []TypeOK
<1>1. Typed => TypeOK
  BY DEF Typed
<1> QED
  BY <1>1, AlwaysTyped, PTL

-----------------------------------------------------------------------------
(* What a step of one device leaves alone.                                 *)

Step(d) ==
  \/ Open(d) \/ Edit(d) \/ Push(d) \/ AdoptRead(d) \/ Clear(d)
  \/ \E sync \in BOOLEAN : PullRead(d, sync)
  \/ Continue(d)
  \/ Disturb(d)

OthersKeep(d) ==
  \A e \in Device \ {d} : /\ pc'[e] = pc[e]
                          /\ seen'[e] = seen[e]
                          /\ attempt'[e] = attempt[e]
                          /\ vault'[e] = vault[e]
                          /\ store'[e] = store[e]

\* The common moves of a call touch one device.
LEMMA MovesKeepOthers ==
  ASSUME TypeOK, NEW d \in Device
  PROVE  /\ \A p : Goto(d, p) =>
              \A e \in Device \ {d} : /\ pc'[e] = pc[e]
                                      /\ seen'[e] = seen[e]
                                      /\ attempt'[e] = attempt[e]
         /\ \A n : Offer(d, n) =>
              \A e \in Device \ {d} : /\ pc'[e] = pc[e]
                                      /\ attempt'[e] = attempt[e]
         /\ PullReturns(d) \/ NextAttempt(d) =>
              \A e \in Device \ {d} : /\ pc'[e] = pc[e]
                                      /\ seen'[e] = seen[e]
                                      /\ attempt'[e] = attempt[e]
         /\ \A h : Persist(d, h) \/ MarkSynced(d, h) =>
              \A e \in Device \ {d} : /\ vault'[e] = vault[e]
                                      /\ store'[e] = store[e]
<1>1. \A p : Goto(d, p) => \A e \in Device \ {d} : /\ pc'[e] = pc[e]
                                                   /\ seen'[e] = seen[e]
                                                   /\ attempt'[e] = attempt[e]
  BY DEF TypeOK, Goto, local
<1>2. \A n : Offer(d, n) => \A e \in Device \ {d} : /\ pc'[e] = pc[e]
                                                    /\ attempt'[e] = attempt[e]
  BY DEF TypeOK, Offer
<1>3. PullReturns(d) => \A e \in Device \ {d} : /\ pc'[e] = pc[e]
                                                /\ seen'[e] = seen[e]
                                                /\ attempt'[e] = attempt[e]
  BY <1>1, <1>2 DEF TypeOK, PullReturns
<1>4. NextAttempt(d) => \A e \in Device \ {d} : /\ pc'[e] = pc[e]
                                                /\ seen'[e] = seen[e]
                                                /\ attempt'[e] = attempt[e]
  BY <1>1, <1>2 DEF TypeOK, NextAttempt
<1>5. \A h : Persist(d, h) \/ MarkSynced(d, h) =>
        \A e \in Device \ {d} : vault'[e] = vault[e] /\ store'[e] = store[e]
  BY DEF TypeOK, Persist, MarkSynced
<1> QED
  BY <1>1, <1>2, <1>3, <1>4, <1>5

\* The two steps that only drop the slot a device has stored.
DropsSlot(d) == AdoptKey(d) \/ ClearDevice(d)

LEMMA DropSlotAt ==
  ASSUME TypeOK, NEW d \in Device, DropsSlot(d)
  PROVE  /\ UNCHANGED <<sealed, records, vault, seen, attempt, thenPush>>
         /\ store'[d].container = store[d].container
         /\ store'[d].synced = store[d].synced
         /\ store'[d].slot = None
         /\ \/ pc[d] = "adopt_key" /\ pc'[d] = "adopt_write"
            \/ pc[d] = "clear_device" /\ pc'[d] = "clear_synced"
         /\ \A e \in Device \ {d} : pc'[e] = pc[e] /\ store'[e] = store[e]
<1>1. \A e \in Device : pc[e] \in PC /\ store[e] = [container |-> store[e].container,
                       synced |-> store[e].synced, slot |-> store[e].slot]
  BY DEF TypeOK
<1> QED
  BY <1>1 DEF DropsSlot, AdoptKey, ClearDevice, TypeOK, local

\* Every step is the step of one device.
LEMMA StepKeepsOthers ==
  ASSUME Typed, NEW d \in Device, Step(d)
  PROVE  OthersKeep(d)
<1> USE DEF Typed
<1>1. CASE Open(d) \/ CommitFails(d)
  BY <1>1 DEF Open, CommitFails, OthersKeep, TypeOK, local
<1>2. ASSUME NEW ps, NEW push, Commit(d, ps, push)
      PROVE  OthersKeep(d)
  <2>1. PICK h : Persist(d, h)
    BY <1>2 DEF Commit
  <2>2. UNCHANGED seen /\ ((\E n : Offer(d, n)) \/ UNCHANGED <<pc, attempt>>)
    BY <1>2 DEF Commit, local
  <2> QED
    BY <2>1, <2>2, MovesKeepOthers DEF OthersKeep
<1>3. CASE Edit(d)
  BY <1>1, <1>2, <1>3, EditCommits
<1>4. CASE Push(d)
  BY <1>4, MovesKeepOthers DEF Push, OthersKeep
<1>5. CASE \E sync \in BOOLEAN : PullRead(d, sync)
  BY <1>5, MovesKeepOthers DEF PullRead, OthersKeep, TypeOK, local
<1>6. CASE AdoptRead(d)
  BY <1>6 DEF AdoptRead, OthersKeep, TypeOK
<1>7. CASE Clear(d)
  BY <1>7 DEF Clear, OthersKeep, TypeOK, local
<1>8. CASE PullSame(d) \/ PullFastForward(d)
  BY <1>8, MovesKeepOthers DEF PullSame, PullFastForward, OthersKeep
<1>9. CASE PullPersist(d)
  BY <1>9, MovesKeepOthers DEF PullPersist, OthersKeep
<1>10. CASE PullMerge(d) \/ PushRestart(d) \/ PushRechain(d) \/ PushMerge(d)
  <2>1. Persist(d, NewHash) /\ (PullReturns(d) \/ NextAttempt(d))
    BY <1>10 DEF PullMerge, PushRestart, PushRechain, PushMerge, Rechain
  <2> QED
    BY <2>1, MovesKeepOthers DEF OthersKeep
<1>11. CASE PushNothing(d) \/ PushAccepted(d) \/ PushConflict(d)
              \/ PullRefused(d) \/ PushRefused(d)
  BY <1>11, MovesKeepOthers
     DEF PushNothing, PushAccepted, PushConflict, PullRefused, PushRefused,
         OthersKeep
<1>12. CASE PushSynced(d)
  BY <1>12, MovesKeepOthers DEF PushSynced, OthersKeep
<1>13. CASE PushRead(d)
  BY <1>13 DEF PushRead, OthersKeep, TypeOK
<1>14. CASE AdoptWrite(d)
  <2>1. \A e \in Device \ {d} : store'[e] = store[e]
    BY <1>14 DEF AdoptWrite, SealSlot, TypeOK
  <2> QED
    BY <1>14, <2>1 DEF AdoptWrite, OthersKeep, TypeOK
<1>15. CASE AdoptPersist(d)
  BY <1>15, MovesKeepOthers DEF AdoptPersist, OthersKeep
<1>18. CASE DropsSlot(d)
  BY <1>18, DropSlotAt DEF OthersKeep
<1>16. CASE ClearSynced(d) \/ Crash(d)
  <2>1. Goto(d, "idle")
    BY <1>16 DEF ClearSynced, Crash
  <2>2. \A e \in Device \ {d} : vault'[e] = vault[e] /\ store'[e] = store[e]
    BY <1>16 DEF ClearSynced, Crash, TypeOK
  <2> QED
    BY <2>1, <2>2, MovesKeepOthers DEF OthersKeep
<1>17. CASE HostCallFails(d) \/ AnswerLost(d) \/ StoreWriteFails(d)
  BY <1>17, MovesKeepOthers
     DEF HostCallFails, AnswerLost, StoreWriteFails, OthersKeep
<1> QED
  BY <1>1, <1>3, <1>4, <1>5, <1>6, <1>7, <1>8, <1>9, <1>10, <1>11, <1>12,
     <1>13, <1>14, <1>15, <1>16, <1>17, <1>18
     DEF Step, Continue, Disturb, DropsSlot

-----------------------------------------------------------------------------
(* What counts as synced is on the host, under all faults.                 *)

InRecords(h) == \E g \in DOMAIN records : records[g] = h

\* What a device's call holds was accepted by the host: the record it read,
\* the vault whose put was answered; and so was what it noted as synced.
OnHost(d) ==
  /\ pc[d] \in {"pull_apply", "pull_persist", "push_resolve", "adopt_key",
               "adopt_write"} => InRecords(seen[d])
  /\ pc[d] = "push_synced" => InRecords(vault[d])
  /\ store[d].synced = None \/ InRecords(store[d].synced)

AllOnHost == \A d \in Device : OnHost(d)

\* The host never gives a generation up, and holds the one it accepts.
LEMMA AcceptKeeps ==
  ASSUME TypeOK, NEW h \in Hashes, HostAccepts(h)
  PROVE  /\ \A x : InRecords(x) => InRecords(x)'
         /\ InRecords(h)'
<1>1. CASE UNCHANGED records /\ IsDuplicate(h)
  <2>1. sealed[h].gen \in DOMAIN records
    <3> sealed[h] \in Generation
      BY DEF TypeOK, Hashes
    <3>1. sealed[h].gen \in Nat \ {0}
      BY DEF Generation
    <3> QED
      BY <1>1, <3>1 DEF IsDuplicate, HeadGeneration, TypeOK
  <2> QED
    BY <1>1, <2>1 DEF InRecords, IsDuplicate
<1>2. CASE records' = Append(records, h)
  <2>1. /\ Len(records) \in Nat
        /\ DOMAIN records = 1 .. Len(records)
        /\ DOMAIN records' = 1 .. Len(records) + 1
        /\ \A g \in 1 .. Len(records) : records'[g] = records[g]
        /\ records'[Len(records) + 1] = h
    BY <1>2 DEF TypeOK
  <2> QED
    BY <2>1 DEF InRecords
<1> QED
  BY <1>1, <1>2 DEF HostAccepts

\* What the host serves is one of its accepted generations.
LEMMA CurrentInRecords ==
  ASSUME TypeOK, CurrentRecord # None
  PROVE  InRecords(CurrentRecord)
<1>1. records # <<>> /\ CurrentRecord = records[Len(records)]
  BY DEF CurrentRecord
<1>2. Len(records) \in DOMAIN records
  BY <1>1 DEF TypeOK
<1> QED
  BY <1>1, <1>2 DEF InRecords

\* The host never gives up a generation it has accepted.
LEMMA StepKeepsRecords ==
  ASSUME Typed, NEW d \in Device, Step(d)
  PROVE  \A x : InRecords(x) => InRecords(x)'
<1>1. CASE PushAccepted(d) \/ AnswerLost(d)
  <2>1. vault[d] \in Hashes /\ HostAccepts(vault[d])
    BY <1>1 DEF PushAccepted, AnswerLost, Offering, Typed, TypeOK,
                CallsHoldTheirData
  <2> QED
    BY <2>1, AcceptKeeps DEF Typed
<1>2. CASE UNCHANGED records
  BY <1>2 DEF InRecords
<1>3. CASE Edit(d)
  <2>1. UNCHANGED records
    BY <1>3, EditCommits DEF Commit, CommitFails, Typed
  <2> QED
    BY <1>2, <2>1
<1>4. UNCHANGED records \/ PushAccepted(d) \/ AnswerLost(d) \/ Edit(d)
  BY DEF Step, Continue, Disturb, Open, Push, AdoptRead, Clear, PullRead,
         PullSame, PullRefused, PullFastForward, PullPersist, PullMerge,
         PushNothing, PushSynced, PushRestart, PushConflict, PushRead,
         PushRechain, PushRefused, PushMerge, Rechain, AdoptWrite,
         AdoptPersist, AdoptKey, ClearDevice, ClearSynced,
         HostCallFails, StoreWriteFails, Crash
<1> QED
  BY <1>1, <1>2, <1>3, <1>4

\* What a new slot and a new container leave of the device's store.
LEMMA StoreAt ==
  ASSUME TypeOK, NEW d \in Device
  PROVE  /\ \A h : Persist(d, h) => store'[d].slot = store[d].slot
         /\ \A m : SealSlot(d, m) => /\ store'[d].container = store[d].container
                                    /\ store'[d].synced = m
                                    /\ store'[d].slot = NewHash
<1>1. /\ store = [e \in Device |-> store[e]]
      /\ store[d] = [container |-> store[d].container,
                     synced |-> store[d].synced, slot |-> store[d].slot]
  BY DEF TypeOK
<1>2. ASSUME NEW h, Persist(d, h)
      PROVE  store'[d].slot = store[d].slot
  BY <1>1, <1>2 DEF Persist
<1>3. ASSUME NEW m, SealSlot(d, m)
      PROVE  /\ store'[d].container = store[d].container
             /\ store'[d].synced = m
             /\ store'[d].slot = NewHash
  BY <1>1, <1>3 DEF SealSlot
<1> QED
  BY <1>2, <1>3

\* What the moves of a call do to the device that makes them.
LEMMA MovesAt ==
  ASSUME TypeOK, NEW d \in Device
  PROVE  /\ \A p : Goto(d, p) => pc'[d] = p /\ (p # "idle" => seen' = seen)
         /\ \A n : Offer(d, n) => pc'[d] = "push_put" /\ attempt'[d] = n
         /\ PullReturns(d) \/ NextAttempt(d) => pc'[d] \in {"idle", "push_put"}
         /\ \A h : Persist(d, h) => /\ vault'[d] = h
                                    /\ store'[d].container = h
                                    /\ store'[d].synced = store[d].synced
         /\ \A h : MarkSynced(d, h) =>
              /\ vault' = vault
              /\ store'[d].container = store[d].container
              /\ store'[d].synced = h
<1>1. \A p : Goto(d, p) => pc'[d] = p /\ (p # "idle" => seen' = seen)
  BY DEF TypeOK, Goto, local
<1>2. \A n : Offer(d, n) => pc'[d] = "push_put" /\ attempt'[d] = n
  BY DEF TypeOK, Offer
<1>3. PullReturns(d) => pc'[d] \in {"idle", "push_put"}
  BY <1>1, <1>2 DEF PullReturns
<1>4. NextAttempt(d) => pc'[d] \in {"idle", "push_put"}
  BY <1>1, <1>2 DEF NextAttempt
<1>5. \A h : Persist(d, h) => /\ vault'[d] = h
                              /\ store'[d].container = h
                              /\ store'[d].synced = store[d].synced
  BY DEF TypeOK, Persist
<1>6. \A h : MarkSynced(d, h) => /\ vault' = vault
                                 /\ store'[d].container = store[d].container
                                 /\ store'[d].synced = h
  BY DEF TypeOK, MarkSynced
<1> QED
  BY <1>1, <1>2, <1>3, <1>4, <1>5, <1>6

\* The device that takes a step still holds only what the host has.
LEMMA StepOnHost ==
  ASSUME Typed, AllOnHost, NEW d \in Device, Step(d)
  PROVE  OnHost(d)'
<1> USE DEF Typed
<1>1. /\ OnHost(d)
      /\ \A x : InRecords(x) => InRecords(x)'
  BY StepKeepsRecords DEF AllOnHost
<1>3. ASSUME pc'[d] \in {"idle", "push_put", "push_read", "clear_device",
                         "clear_synced", "adopt_persist"},
             \/ store'[d].synced = store[d].synced
             \/ store'[d].synced = None
             \/ InRecords(store[d].synced)'
      PROVE  OnHost(d)'
  BY <1>1, <1>3 DEF OnHost
<1>4. ASSUME NEW ps, NEW push, Commit(d, ps, push)
      PROVE  OnHost(d)'
  <2>1. store'[d].synced = store[d].synced /\ UNCHANGED seen
    BY <1>4, MovesAt DEF Commit, local
  <2>2. pc'[d] \in {"push_put", "idle"}
    BY <1>4, MovesAt DEF Commit, IsOpen
  <2> QED
    BY <1>3, <2>1, <2>2
<1>5. CASE Open(d) \/ CommitFails(d)
  <2>1. pc'[d] = "idle" /\ UNCHANGED store
    BY <1>5 DEF Open, CommitFails, IsOpen
  <2> QED
    BY <1>3, <2>1
<1>6. CASE Edit(d)
  BY <1>4, <1>5, <1>6, EditCommits
<1>7. CASE Push(d)
  BY <1>3, <1>7, MovesAt DEF Push
<1>8. CASE \E sync \in BOOLEAN : PullRead(d, sync)
  <2>1. CASE CurrentRecord = None
    BY <1>3, <1>8, <2>1, MovesAt DEF PullRead, IsOpen, local
  <2>2. CASE CurrentRecord # None
    <3>1. /\ pc'[d] = "pull_apply" /\ seen'[d] = CurrentRecord
          /\ UNCHANGED store
      BY <1>8, <2>2 DEF PullRead, TypeOK
    <3> QED
      BY <1>1, <2>2, <3>1, CurrentInRecords DEF OnHost
  <2> QED
    BY <2>1, <2>2
<1>9. CASE PullSame(d)
  BY <1>1, <1>3, <1>9, MovesAt DEF PullSame, OnHost
<1>10. CASE PullFastForward(d)
  <2>1. /\ pc'[d] = "pull_persist" /\ seen' = seen
        /\ store'[d].synced = seen[d]
    BY <1>10, MovesAt DEF PullFastForward
  <2>2. InRecords(seen[d])
    BY <1>1, <1>10 DEF PullFastForward, Differs, OnHost
  <2> QED
    BY <1>1, <2>1, <2>2 DEF OnHost
<1>11. CASE PullPersist(d)
  BY <1>3, <1>11, MovesAt DEF PullPersist
<1>12. CASE PullMerge(d) \/ PushRestart(d) \/ PushRechain(d) \/ PushMerge(d)
  <2>1. Persist(d, NewHash) /\ (PullReturns(d) \/ NextAttempt(d))
    BY <1>12 DEF PullMerge, PushRestart, PushRechain, PushMerge, Rechain
  <2> QED
    BY <1>3, <2>1, MovesAt
<1>13. CASE \/ PullRefused(d) \/ PushRefused(d) \/ PushNothing(d)
            \/ PushConflict(d) \/ HostCallFails(d) \/ AnswerLost(d)
            \/ StoreWriteFails(d) \/ Crash(d)
  <2>1. UNCHANGED store /\ (Goto(d, "idle") \/ Goto(d, "push_read"))
    BY <1>13 DEF PullRefused, PushRefused, PushNothing, PushConflict,
                 HostCallFails, AnswerLost, StoreWriteFails, Crash
  <2> QED
    BY <1>3, <2>1, MovesAt
<1>14. CASE PushAccepted(d)
  <2>1. vault[d] \in Hashes /\ HostAccepts(vault[d])
    BY <1>14 DEF PushAccepted, Offering, TypeOK, CallsHoldTheirData
  <2>2. pc'[d] = "push_synced" /\ UNCHANGED <<vault, store>>
    BY <1>14, MovesAt DEF PushAccepted
  <2> QED
    BY <1>1, <2>1, <2>2, AcceptKeeps DEF OnHost
<1>15. CASE PushSynced(d)
  BY <1>1, <1>3, <1>15, MovesAt DEF PushSynced, OnHost
<1>16. CASE PushRead(d)
  <2>1. records # <<>>
    BY <1>16 DEF PushRead, CallsHoldTheirData
  <2>2. CurrentRecord # None
    BY <2>1 DEF CurrentRecord, TypeOK, Hashes, None
  <2>3. /\ pc'[d] = "push_resolve" /\ seen'[d] = CurrentRecord
        /\ UNCHANGED store
    BY <1>16 DEF PushRead, TypeOK
  <2> QED
    BY <1>1, <2>2, <2>3, CurrentInRecords DEF OnHost
<1>17. CASE AdoptRead(d)
  <2>1. /\ pc'[d] = "adopt_key" /\ seen'[d] = CurrentRecord
        /\ UNCHANGED store /\ CurrentRecord # None
    BY <1>17 DEF AdoptRead, TypeOK
  <2> QED
    BY <1>1, <2>1, CurrentInRecords DEF OnHost
<1>22. CASE DropsSlot(d)
  <2>1. /\ pc'[d] = "adopt_write" => InRecords(seen[d])
        /\ pc'[d] \in {"adopt_write", "clear_synced"}
        /\ UNCHANGED <<records, seen>> /\ store'[d].synced = store[d].synced
    BY <1>1, <1>22, DropSlotAt DEF OnHost
  <2> QED
    BY <1>1, <2>1 DEF OnHost
<1>18. CASE AdoptWrite(d)
  <2>1. InRecords(seen[d])
    BY <1>1, <1>18 DEF AdoptWrite, OnHost
  <2>2. pc'[d] = "adopt_persist" /\ UNCHANGED records
    BY <1>18 DEF AdoptWrite, TypeOK
  <2>3. store'[d].synced = None \/ store'[d].synced = seen[d]
    BY <1>18 DEF AdoptWrite, SealSlot, TypeOK
  <2>4. store'[d].synced = None \/ InRecords(store[d].synced)'
    BY <2>1, <2>2, <2>3 DEF InRecords
  <2> QED
    BY <1>3, <2>2, <2>4
<1>19. CASE AdoptPersist(d)
  BY <1>3, <1>19, MovesAt DEF AdoptPersist
<1>20. CASE Clear(d)
  BY <1>3, <1>20 DEF Clear, TypeOK
<1>21. CASE ClearSynced(d)
  <2>1. pc'[d] = "idle" /\ store'[d].synced = None
    BY <1>21, MovesAt DEF ClearSynced, TypeOK
  <2> QED
    BY <1>3, <2>1
<1> QED
  BY <1>5, <1>6, <1>7, <1>8, <1>9, <1>10, <1>11, <1>12, <1>13, <1>14, <1>15,
     <1>16, <1>17, <1>18, <1>19, <1>20, <1>21, <1>22
     DEF Step, Continue, Disturb, DropsSlot

\* What calls and stores refer to as accepted was accepted, in every state.
LEMMA AlwaysOnHost == Spec => []AllOnHost
<1>1. Init => AllOnHost
  <2> SUFFICES ASSUME Init, NEW d \in Device PROVE OnHost(d)
    BY DEF AllOnHost
  <2>1. pc[d] = "idle" /\ store[d].synced = None
    BY DEF Init
  <2> QED
    BY <2>1 DEF OnHost
<1>2. Typed /\ AllOnHost /\ [Next]_vars => AllOnHost'
  <2> SUFFICES ASSUME Typed, AllOnHost, [Next]_vars PROVE AllOnHost'
    OBVIOUS
  <2>1. CASE UNCHANGED vars
    BY <2>1 DEF AllOnHost, OnHost, InRecords, vars
  <2>2. ASSUME NEW d \in Device, Step(d) PROVE AllOnHost'
    <3>1. OnHost(d)'
      BY <2>2, StepOnHost
    <3>2. ASSUME NEW e \in Device \ {d} PROVE OnHost(e)'
      BY <2>2, StepKeepsOthers, StepKeepsRecords
         DEF AllOnHost, OnHost, OthersKeep
    <3> QED
      BY <3>1, <3>2 DEF AllOnHost
  <2> QED
    BY <2>1, <2>2 DEF Next, Step
<1> QED
  BY <1>1, <1>2, AlwaysTyped, PTL DEF Spec

\* synced_hash, which push takes as proof that nothing is left to upload, is
\* the hash of a generation the host accepted: whatever is lost, cut short or
\* crashed, and however many devices there are.
THEOREM SyncedHashOnHost == Spec => []SyncedIsOnHost
<1>1. AllOnHost => SyncedIsOnHost
  BY DEF AllOnHost, OnHost, SyncedIsOnHost, InRecords
<1> QED
  BY <1>1, AlwaysOnHost, PTL

-----------------------------------------------------------------------------
(* What the host accepted is never lost, as long as a device's stores are  *)
(* neither refused nor cut short: with either fault a pull may leave the   *)
(* new synced_hash beside the old container, and the next push rechains    *)
(* over the head (the run key_vault_torn_pull).                             *)

\* Every generation says what the generation it names as its parent says: its
\* facts, and for which keys there is metadata.
ChainGrows ==
  \A h \in Hashes : /\ sealed[h].prev < h
                    /\ Content(sealed[h].prev) \subseteq Content(h)

\* The host's later generations say what its earlier ones say.
HostKeepsContent ==
  \A g1, g2 \in DOMAIN records :
    g1 <= g2 => Content(records[g1]) \subseteq Content(records[g2])

\* The container, or the one about to replace it, holds what was synced; an
\* open vault is the stored one.
Held(d) ==
  /\ pc[d] \in {"pull_persist", "adopt_persist"}
       => Content(store[d].synced) \subseteq Content(seen[d])
  /\ pc[d] \notin {"pull_persist", "adopt_persist", "clear_device", "clear_synced"}
       => Content(store[d].synced) \subseteq Content(store[d].container)
  /\ pc[d] \notin {"clear_device", "clear_synced"} /\ vault[d] # None
       => store[d].container = vault[d]

AllHeld == \A d \in Device : Held(d)

\* A step seals new generations and leaves the others as they are.
Widens == /\ Hashes \subseteq Hashes'
          /\ \A h \in Hashes : sealed'[h] = sealed[h]

\* What a sealed generation says does not change.
LEMMA ContentStable ==
  ASSUME Widens
  PROVE  \A h \in Hashes \cup {None} : /\ Facts(h)' = Facts(h)
                                      /\ Content(h)' = Content(h)
BY DEF Widens, Facts, Content, Entries

\* The parent of a generation is an older one, or none.
LEMMA ParentType ==
  ASSUME TypeOK, ChainGrows, NEW h \in Hashes
  PROVE  sealed[h].prev \in Hashes \cup {None}
<1>1. sealed[h] \in Generation /\ h \in 1 .. Len(sealed)
  BY DEF TypeOK, Hashes
<1>2. sealed[h].prev \in Nat /\ sealed[h].prev < h
  BY <1>1 DEF Generation, ChainGrows
<1>3. Len(sealed) \in Nat
  BY DEF TypeOK
<1> QED
  BY <1>1, <1>2, <1>3 DEF Hashes, None

\* Generations sealed earlier still hold what their parents held.
LEMMA OldStillGrow ==
  ASSUME TypeOK, ChainGrows, Widens, NEW h \in Hashes
  PROVE  sealed'[h].prev < h /\ Content(sealed[h].prev)' \subseteq Content(h)'
<1>1. sealed[h].prev \in Hashes \cup {None} /\ sealed'[h] = sealed[h]
  BY ParentType DEF Widens
<1>2. PICK p \in Hashes \cup {None} : p = sealed[h].prev
  BY <1>1
<1>3. Content(p)' = Content(p) /\ Content(h)' = Content(h)
  BY ContentStable
<1>4. Content(sealed[h].prev)' = Content(p)'
  BY <1>1, <1>2 DEF Content
<1> QED
  BY <1>1, <1>2, <1>3, <1>4 DEF ChainGrows

\* A generation sealed with all facts of its parent keeps the chain growing.
LEMMA SealOneGrows ==
  ASSUME TypeOK, ChainGrows, NEW g \in Generation,
         g.prev \in Hashes \cup {None}, Content(g.prev) \subseteq Entries(g),
         sealed' = Append(sealed, g)
  PROVE  /\ Widens
         /\ ChainGrows'
         /\ \A n : n = NewHash => Content(n)' = Entries(g)
<1> DEFINE n == Len(sealed) + 1
<1>1. /\ Hashes' = Hashes \cup {n}
      /\ \A i \in Hashes : sealed'[i] = sealed[i]
      /\ sealed'[n] = g
  BY SealOne DEF NewHash
<1>2. n \in Nat \ {0}
  BY DEF TypeOK
<1>3. Widens
  BY <1>1 DEF Widens
<1>4. \A h : h = n => Content(h)' = Entries(g)
  BY <1>1, <1>2 DEF Content, Entries, None
<1>5. \A h : h = n => /\ sealed'[h].prev < h
                      /\ Content(sealed[h].prev)' \subseteq Content(h)'
  <2> SUFFICES ASSUME NEW h, h = n
               PROVE  /\ sealed'[h].prev < h
                      /\ Content(sealed[h].prev)' \subseteq Content(h)'
    OBVIOUS
  <2>1. g.prev < n
    BY <1>2 DEF Hashes, None, TypeOK
  <2>2. Content(g.prev)' = Content(g.prev)
    BY <1>3, ContentStable
  <2>3. Content(sealed[h].prev)' = Content(g.prev)'
    BY <1>1 DEF Content
  <2> QED
    BY <1>1, <1>4, <2>1, <2>2, <2>3
<1>6. ChainGrows'
  BY <1>1, <1>3, <1>5, OldStillGrow DEF ChainGrows
<1> QED
  BY <1>3, <1>4, <1>6 DEF NewHash

\* The chain of a commit grows as its payloads do.
LEMMA CommitGrows ==
  ASSUME TypeOK, ChainGrows, NEW h \in Hashes, NEW ps \in Seq(Payloads),
         Grows(Content(h), ps), sealed' = sealed \o Chain(h, ps)
  PROVE  /\ Widens
         /\ ChainGrows'
         /\ \A n \in Hashes' \ Hashes : Content(h) \subseteq Content(n)'
<1> DEFINE L == Len(sealed)
           c == Chain(h, ps)
<1>1. /\ c \in Seq(Generation) /\ Len(c) = Len(ps)
      /\ L \in Nat /\ Len(ps) \in Nat
  BY ChainType DEF TypeOK
<1>2. /\ Len(sealed') = L + Len(ps)
      /\ Hashes \subseteq Hashes'
      /\ \A i \in Hashes : sealed'[i] = sealed[i]
  BY <1>1, SealMore
<1>3. Widens
  BY <1>2 DEF Widens
<1>4. \A i \in 1 .. Len(ps) : sealed'[L + i] = c[i]
  <2> HIDE DEF c
  <2> QED
    BY <1>1 DEF TypeOK, c
<1>5. \A i \in 1 .. Len(ps) :
        /\ c[i].prev = IF i = 1 THEN h ELSE L + i - 1
        /\ Entries(c[i]) = Entries(ps[i])
  BY DEF Chain, Entries
<1>6. ASSUME NEW n \in Hashes' \ Hashes
      PROVE  /\ sealed'[n].prev < n
             /\ Content(sealed[n].prev)' \subseteq Content(n)'
             /\ Content(h) \subseteq Content(n)'
  <2> HIDE DEF c
  <2>1. PICK i \in 1 .. Len(ps) : n = L + i
    <3>1. n \in L + 1 .. L + Len(ps)
      BY <1>1, <1>2 DEF Hashes
    <3>2. n - L \in 1 .. Len(ps) /\ n = L + (n - L)
      BY <1>1, <3>1
    <3> QED
      BY <3>2
  <2>2. /\ sealed'[n].prev = IF i = 1 THEN h ELSE L + i - 1
        /\ Entries(sealed'[n]) = Entries(ps[i])
        /\ n # None
    <3>1. sealed'[n] = c[i]
      BY <1>4, <2>1
    <3>2. n # None
      BY <1>1, <2>1 DEF None
    <3> QED
      BY <1>5, <2>1, <3>1, <3>2
  <2>3. /\ Content(n)' = Entries(ps[i])
        /\ Content(h)' = Content(h)
    BY <1>3, <2>2, ContentStable DEF Content
  <2>4. Content(h) \subseteq Entries(ps[i])
    BY <2>1 DEF Grows
  <2>5. CASE i = 1
    <3>1. Content(sealed[n].prev)' = Content(h)'
      BY <2>2, <2>5 DEF Content
    <3>2. h < n
      BY <1>1, <2>1 DEF Hashes
    <3> QED
      BY <2>2, <2>3, <2>4, <2>5, <3>1, <3>2
  <2>6. CASE i > 1
    <3>1. i - 1 \in 1 .. Len(ps) /\ L + i - 1 = L + (i - 1) /\ L + i - 1 # 0
      BY <1>1, <2>1, <2>6
    <3>2. Entries(sealed'[L + i - 1]) = Entries(ps[i - 1])
      BY <1>4, <1>5, <3>1
    <3>3. Content(sealed[n].prev)' = Entries(ps[i - 1])
      <4>1. sealed'[n].prev = L + i - 1 /\ L + i - 1 # None
        BY <2>2, <2>6, <3>1 DEF None
      <4> QED
        BY <3>2, <4>1 DEF Content
    <3>4. Entries(ps[i - 1]) \subseteq Entries(ps[i])
      BY <2>6 DEF Grows
    <3>5. sealed'[n].prev < n
      BY <1>1, <2>1, <2>2, <2>6
    <3> QED
      BY <2>3, <2>4, <3>3, <3>4, <3>5
  <2>7. i = 1 \/ i > 1
    BY <1>1, <2>1
  <2> QED
    BY <2>5, <2>6, <2>7
<1>7. ChainGrows'
  BY <1>3, <1>6, OldStillGrow DEF ChainGrows
<1> QED
  BY <1>3, <1>6, <1>7

\* A generation sealed onto the open vault, or onto a head merged with it,
\* that is then persisted: the device holds what it held, and what it synced.
LEMMA SealAndPersistHeld ==
  ASSUME Typed, ChainGrows, NEW d \in Device, Held(d), vault[d] # None,
         pc[d] \notin {"pull_persist", "adopt_persist", "clear_device",
                    "clear_synced"},
         NEW g \in Generation, g.prev \in Hashes \cup {None},
         Content(g.prev) \subseteq Entries(g),
         Content(vault[d]) \subseteq Entries(g),
         sealed' = Append(sealed, g), Persist(d, NewHash),
         PullReturns(d) \/ NextAttempt(d)
  PROVE  Widens /\ ChainGrows' /\ Held(d)'
<1> USE DEF Typed
<1>1. /\ Widens
      /\ ChainGrows'
      /\ \A n : n = NewHash => Content(n)' = Entries(g)
  BY SealOneGrows
<1>2. PICK n : n = NewHash
  OBVIOUS
<1>3. /\ vault'[d] = n /\ store'[d].container = n
      /\ store'[d].synced = store[d].synced
      /\ pc'[d] \in {"idle", "push_put"}
  BY <1>2, MovesAt
<1>4. store[d].synced \in Hashes \cup {None}
  BY DEF TypeOK
<1>5. Content(store[d].synced) \subseteq Content(vault[d])
  BY DEF Held
<1>6. /\ Content(store[d].synced)' = Content(store[d].synced)
      /\ Content(store[d].container)' = Entries(g)
  <2>1. PICK m \in Hashes \cup {None} : m = store[d].synced
    BY <1>4
  <2>2. Content(m)' = Content(m)
    BY <1>1, ContentStable
  <2>3. Content(n)' = Entries(g)
    BY <1>1, <1>2
  <2> QED
    BY <1>3, <2>1, <2>2, <2>3 DEF Content
<1> QED
  BY <1>1, <1>3, <1>5, <1>6 DEF Held

\* A step that seals nothing and leaves the device's store and vault alone.
LEMMA SameStoreHeld ==
  ASSUME NEW d \in Device, Held(d), UNCHANGED <<sealed, store>>,
         vault'[d] \in {vault[d], None},
         pc[d] \notin {"pull_persist", "adopt_persist", "clear_device",
                    "clear_synced"},
         pc'[d] \notin {"pull_persist", "adopt_persist", "clear_device",
                    "clear_synced"}
  PROVE  Held(d)'
<1>1. /\ Content(store[d].synced)' = Content(store[d].synced)
      /\ Content(store[d].container)' = Content(store[d].container)
  BY DEF Content
<1> QED
  BY <1>1 DEF Held

\* A merge says what both sides say.
LEMMA MergedSaysBoth ==
  ASSUME TypeOK, NEW head \in Hashes, NEW h \in Hashes, NEW S
  PROVE  /\ Merged(head, h, S).prev = head
         /\ Content(head) \subseteq Entries(Merged(head, h, S))
         /\ Content(h) \subseteq Entries(Merged(head, h, S))
<1> DEFINE F == sealed[head].facts \cup sealed[h].facts
           m == [k \in Key |-> IF sealed[h].meta[k] # 0
                               THEN sealed[h].meta[k]
                               ELSE sealed[head].meta[k]]
<1>1. /\ Merged(head, h, S).prev = head
      /\ Entries(Merged(head, h, S)) = Said(F, m)
  BY DEF Merged, Child, Entries
<1>2. /\ Content(head) = Said(sealed[head].facts, sealed[head].meta)
      /\ Content(h) = Said(sealed[h].facts, sealed[h].meta)
  BY DEF Content, Entries, Hashes, None
<1>3. \A k \in Key : /\ sealed[head].meta[k] # 0 => m[k] # 0
                     /\ sealed[h].meta[k] # 0 => m[k] # 0
  OBVIOUS
<1>4. sealed[head].facts \subseteq F /\ sealed[h].facts \subseteq F
  OBVIOUS
<1> HIDE DEF F, m
<1> QED
  BY <1>1, <1>2, <1>3, <1>4, SaidMore

\* The steps of a pull.
LEMMA PullHeld ==
  ASSUME Typed, ChainGrows, NEW d \in Device, Held(d),
         \/ \E sync \in BOOLEAN : PullRead(d, sync)
         \/ PullSame(d) \/ PullRefused(d) \/ PullFastForward(d)
         \/ PullPersist(d) \/ PullMerge(d)
  PROVE  Widens /\ ChainGrows' /\ Held(d)'
<1> USE DEF Typed
<1>1. ASSUME UNCHANGED sealed PROVE Widens /\ ChainGrows'
  BY <1>1 DEF Widens, ChainGrows, Hashes, Content
<1>2. CASE \E sync \in BOOLEAN : PullRead(d, sync)
  <2>1. pc'[d] \in {"idle", "push_put", "pull_apply"} /\ pc[d] = "idle"
    BY <1>2, MovesAt DEF PullRead, IsOpen, TypeOK
  <2>2. UNCHANGED <<sealed, store, vault>>
    BY <1>2 DEF PullRead
  <2> QED
    BY <1>1, <2>1, <2>2, SameStoreHeld
<1>3. CASE PullSame(d)
  <2>1. /\ UNCHANGED sealed /\ vault' = vault
        /\ store'[d].container = store[d].container
        /\ store'[d].synced = vault[d]
        /\ pc'[d] \in {"idle", "push_put"}
    BY <1>3, MovesAt DEF PullSame
  <2>2. store[d].container = vault[d]
    BY <1>3 DEF PullSame, CallsHoldTheirData, Held
  <2> QED
    BY <1>1, <2>1, <2>2 DEF Held, Content
<1>4. CASE PullFastForward(d)
  <2>1. /\ UNCHANGED sealed /\ vault' = vault /\ seen' = seen
        /\ store'[d].container = store[d].container
        /\ store'[d].synced = seen[d]
        /\ pc'[d] = "pull_persist"
    BY <1>4, MovesAt DEF PullFastForward
  <2>2. store[d].container = vault[d]
    BY <1>4 DEF PullFastForward, Differs, CallsHoldTheirData, Held
  <2> QED
    BY <1>1, <2>1, <2>2 DEF Held
<1>5. CASE PullPersist(d)
  <2>1. /\ UNCHANGED sealed
        /\ vault'[d] = seen[d]
        /\ store'[d].container = seen[d]
        /\ store'[d].synced = store[d].synced
        /\ pc'[d] \in {"idle", "push_put"}
    BY <1>5, MovesAt DEF PullPersist
  <2>2. Content(store[d].synced) \subseteq Content(seen[d])
    BY <1>5 DEF PullPersist, Held
  <2> QED
    BY <1>1, <2>1, <2>2 DEF Held, Content
<1>6. CASE PullMerge(d)
  <2>1. seen[d] \in Hashes /\ vault[d] \in Hashes /\ pc[d] = "pull_apply"
    BY <1>6 DEF PullMerge, Differs, CallsHoldTheirData, TypeOK
  <2> PICK S \in MergedSlots(seen[d], vault[d]) :
        sealed' = Append(sealed, Merged(seen[d], vault[d], S))
    BY <1>6 DEF PullMerge
  <2> DEFINE g == Merged(seen[d], vault[d], S)
  <2>2. g \in Generation
    BY <2>1, MergedType
  <2>3. /\ g.prev = seen[d]
        /\ Content(seen[d]) \subseteq Entries(g)
        /\ Content(vault[d]) \subseteq Entries(g)
    BY <2>1, MergedSaysBoth
  <2>4. /\ sealed' = Append(sealed, g) /\ Persist(d, NewHash)
        /\ PullReturns(d)
    BY <1>6 DEF PullMerge
  <2>5. vault[d] # None
    BY <2>1 DEF Hashes, None
  <2> HIDE DEF g
  <2> QED
    BY <2>1, <2>2, <2>3, <2>4, <2>5, SealAndPersistHeld
<1>7. CASE PullRefused(d)
  <2>1. pc[d] = "pull_apply" /\ pc'[d] = "idle"
    BY <1>7, MovesAt DEF PullRefused, Differs
  <2>2. UNCHANGED <<sealed, store, vault>>
    BY <1>7 DEF PullRefused
  <2> QED
    BY <1>1, <2>1, <2>2, SameStoreHeld
<1> QED
  BY <1>2, <1>3, <1>4, <1>5, <1>6, <1>7

\* The steps of a push.
LEMMA PushHeld ==
  ASSUME Typed, ChainGrows, NEW d \in Device, Held(d),
         \/ Push(d) \/ PushNothing(d) \/ PushAccepted(d) \/ PushSynced(d)
         \/ PushRestart(d) \/ PushConflict(d) \/ PushRead(d)
         \/ PushRechain(d) \/ PushRefused(d) \/ PushMerge(d)
  PROVE  Widens /\ ChainGrows' /\ Held(d)'
<1> USE DEF Typed
<1>1. ASSUME UNCHANGED sealed PROVE Widens /\ ChainGrows'
  BY <1>1 DEF Widens, ChainGrows, Hashes, Content
<1>2. CASE Push(d) \/ PushNothing(d) \/ PushAccepted(d) \/ PushConflict(d)
             \/ PushRead(d) \/ PushRefused(d)
  <2>1. /\ pc[d] \in {"idle", "push_put", "push_read", "push_resolve"}
        /\ UNCHANGED <<sealed, store, vault>>
    BY <1>2 DEF Push, IsOpen, PushNothing, PushAccepted, Offering,
                PushConflict, PushRead, PushRefused
  <2>2. pc'[d] \in {"idle", "push_put", "push_synced", "push_read",
                    "push_resolve"}
    BY <1>2, MovesAt DEF Push, PushNothing, PushAccepted, PushConflict,
                         PushRead, PushRefused, TypeOK
  <2> QED
    BY <1>1, <2>1, <2>2, SameStoreHeld
<1>3. CASE PushSynced(d)
  <2>1. /\ UNCHANGED sealed /\ vault' = vault
        /\ store'[d].container = store[d].container
        /\ store'[d].synced = vault[d]
        /\ pc'[d] = "idle"
    BY <1>3, MovesAt DEF PushSynced
  <2>2. store[d].container = vault[d]
    BY <1>3 DEF PushSynced, CallsHoldTheirData, Held
  <2> QED
    BY <1>1, <2>1, <2>2 DEF Held, Content
<1>4. ASSUME NEW n \in Nat \ {0}, NEW p \in Hashes \cup {None},
             Rechain(d, n, p), pc[d] \in {"push_put", "push_resolve"},
             Content(p) \subseteq Content(vault[d])
      PROVE  Widens /\ ChainGrows' /\ Held(d)'
  <2>1. vault[d] \in Hashes /\ vault[d] # None
    BY <1>4 DEF CallsHoldTheirData, TypeOK
  <2> DEFINE g == Rechained(vault[d], n, p)
  <2>2. p \in Nat
    BY DEF Hashes, None
  <2>3. g \in Generation
    BY <2>1, <2>2, RechainedType
  <2>4. sealed[vault[d]] \in Generation
    BY <2>1 DEF TypeOK, Hashes
  <2>5. g.prev = p /\ Entries(g) = Content(vault[d])
    BY <2>1, <2>4 DEF Rechained, Content, Entries, Generation
  <2>6. /\ sealed' = Append(sealed, g) /\ Persist(d, NewHash)
        /\ NextAttempt(d)
    BY <1>4 DEF Rechain
  <2> HIDE DEF g
  <2> QED
    BY <1>4, <2>1, <2>3, <2>5, <2>6, SealAndPersistHeld
<1>5. CASE PushRestart(d)
  BY <1>4, <1>5 DEF PushRestart, Offering, Content, None
<1>6. CASE PushRechain(d)
  <2>1. /\ seen[d] \in Hashes /\ vault[d] # None
        /\ pc[d] = "push_resolve" /\ store[d].synced = seen[d]
    BY <1>6 DEF PushRechain, CallsHoldTheirData, TypeOK
  <2>2. Content(seen[d]) \subseteq Content(vault[d])
    BY <2>1 DEF Held
  <2>3. sealed[seen[d]].gen + 1 \in Nat \ {0}
    <3> sealed[seen[d]] \in Generation
      BY <2>1 DEF TypeOK, Hashes
    <3> QED
      BY DEF Generation
  <2> QED
    BY <1>4, <1>6, <2>1, <2>2, <2>3 DEF PushRechain
<1>7. CASE PushMerge(d)
  <2>1. seen[d] \in Hashes /\ vault[d] \in Hashes /\ pc[d] = "push_resolve"
    BY <1>7 DEF PushMerge, CallsHoldTheirData, TypeOK
  <2> PICK S \in MergedSlots(seen[d], vault[d]) :
        sealed' = Append(sealed, Merged(seen[d], vault[d], S))
    BY <1>7 DEF PushMerge
  <2> DEFINE g == Merged(seen[d], vault[d], S)
  <2>2. g \in Generation
    BY <2>1, MergedType
  <2>3. /\ g.prev = seen[d]
        /\ Content(seen[d]) \subseteq Entries(g)
        /\ Content(vault[d]) \subseteq Entries(g)
    BY <2>1, MergedSaysBoth
  <2>4. /\ sealed' = Append(sealed, g) /\ Persist(d, NewHash)
        /\ NextAttempt(d)
    BY <1>7 DEF PushMerge
  <2>5. vault[d] # None
    BY <2>1 DEF Hashes, None
  <2> HIDE DEF g
  <2> QED
    BY <2>1, <2>2, <2>3, <2>4, <2>5, SealAndPersistHeld
<1> QED
  BY <1>2, <1>3, <1>5, <1>6, <1>7

\* Editing, opening, adopting and clearing.
LEMMA OtherHeld ==
  ASSUME Typed, ChainGrows, NEW d \in Device, Held(d),
         \/ Open(d) \/ Edit(d) \/ AdoptRead(d) \/ DropsSlot(d) \/ AdoptWrite(d)
         \/ AdoptPersist(d) \/ Clear(d) \/ ClearSynced(d)
         \/ HostCallFails(d) \/ AnswerLost(d)
  PROVE  Widens /\ ChainGrows' /\ Held(d)'
<1> USE DEF Typed
<1>1. ASSUME UNCHANGED sealed PROVE Widens /\ ChainGrows'
  BY <1>1 DEF Widens, ChainGrows, Hashes, Content
<1>2. CASE Open(d)
  <2>1. /\ UNCHANGED <<sealed, store, pc>> /\ pc[d] = "idle"
        /\ vault'[d] = store[d].container
    BY <1>2 DEF Open, TypeOK
  <2> QED
    BY <1>1, <2>1 DEF Held, Content
<1>3. ASSUME NEW ps \in Seq(Payloads), NEW push \in BOOLEAN,
             Grows(Content(vault[d]), ps), Commit(d, ps, push)
      PROVE  Widens /\ ChainGrows' /\ Held(d)'
  <2>1. vault[d] \in Hashes /\ vault[d] # None /\ pc[d] = "idle"
    BY <1>3 DEF Commit, IsOpen, TypeOK
  <2>2. sealed' = sealed \o Chain(vault[d], ps)
    BY <1>3 DEF Commit
  <2>3. /\ Widens
        /\ ChainGrows'
        /\ \A n \in Hashes' \ Hashes : Content(vault[d]) \subseteq Content(n)'
    BY <1>3, <2>1, <2>2, CommitGrows
  <2>4. PICK new : new = IF ps = <<>> THEN vault[d] ELSE Len(sealed) + Len(ps)
    OBVIOUS
  <2>5. Content(vault[d]) \subseteq Content(new)'
    <3>1. CASE ps = <<>>
      BY <2>1, <2>3, <2>4, <3>1, ContentStable
    <3>2. CASE ps # <<>>
      <4>1. /\ Chain(vault[d], ps) \in Seq(Generation)
            /\ Len(Chain(vault[d], ps)) = Len(ps)
        BY <2>1, ChainType
      <4>2. Len(sealed') = Len(sealed) + Len(ps)
        BY <2>2, <4>1, SealMore
      <4>3. Len(ps) > 0 /\ Len(ps) \in Nat /\ Len(sealed) \in Nat
        BY <3>2 DEF TypeOK
      <4>4. new \in Hashes' \ Hashes
        BY <2>4, <3>2, <4>2, <4>3 DEF Hashes
      <4> QED
        BY <2>3, <4>4
    <3> QED
      BY <3>1, <3>2
  <2>6. /\ vault'[d] = new /\ store'[d].container = new
        /\ store'[d].synced = store[d].synced
    BY <1>3, <2>4, MovesAt DEF Commit
  <2>7. pc'[d] \in {"idle", "push_put"}
    BY <1>3, <2>1, MovesAt DEF Commit
  <2>8. Content(store[d].synced) \subseteq Content(vault[d])
    BY <2>1 DEF Held
  <2>9. Content(store[d].synced)' = Content(store[d].synced)
    <3>1. PICK m \in Hashes \cup {None} : m = store[d].synced
      BY DEF TypeOK
    <3>2. Content(m)' = Content(m)
      BY <2>3, ContentStable
    <3> QED
      BY <2>6, <3>1, <3>2 DEF Content
  <2>10. Content(store[d].container)' = Content(new)'
    BY <2>6 DEF Content
  <2> QED
    BY <2>3, <2>5, <2>6, <2>7, <2>8, <2>9, <2>10 DEF Held
<1>4. CASE CommitFails(d)
  <2>1. /\ UNCHANGED <<sealed, store, pc>> /\ pc[d] = "idle"
        /\ vault'[d] = None
    BY <1>4 DEF CommitFails, IsOpen, TypeOK
  <2> QED
    BY <1>1, <2>1, SameStoreHeld
<1>5. CASE Edit(d)
  BY <1>3, <1>4, <1>5, EditCommits
<1>6. CASE AdoptRead(d) \/ HostCallFails(d) \/ AnswerLost(d)
  <2>1. /\ pc[d] \in {"idle", "push_put", "push_read"}
        /\ UNCHANGED <<sealed, store, vault>>
    BY <1>6 DEF AdoptRead, HostCallFails, AwaitsHost, AnswerLost, Offering
  <2>2. pc'[d] \in {"idle", "adopt_key"}
    BY <1>6, MovesAt DEF AdoptRead, HostCallFails, AnswerLost, TypeOK
  <2> QED
    BY <1>1, <2>1, <2>2, SameStoreHeld
<1>7. CASE AdoptWrite(d)
  <2>1. seen[d] \in Hashes /\ sealed[seen[d]] \in Generation
    BY <1>7 DEF AdoptWrite, CallsHoldTheirData, TypeOK, Hashes
  <2> DEFINE g == Child(seen[d], Facts(seen[d]), sealed[seen[d]].meta,
                        sealed[seen[d]].slots \cup {NewHash})
  <2>2. /\ g \in Generation /\ g.prev = seen[d]
        /\ Entries(g) = Content(seen[d])
    <3>1. /\ Facts(seen[d]) \in SUBSET Fact
          /\ Facts(seen[d]) = sealed[seen[d]].facts /\ seen[d] # None
          /\ sealed[seen[d]].meta \in [Key -> Nat]
          /\ sealed[seen[d]].slots \cup {NewHash} \in SUBSET Nat
      BY <2>1 DEF Generation, Facts, NewHash, TypeOK, Hashes, None
    <3>2. g \in Generation /\ g.prev = seen[d]
      BY <2>1, <3>1, ChildType DEF Child
    <3>3. Entries(g) = Entries(sealed[seen[d]])
      BY <3>1 DEF Child, Entries
    <3> QED
      BY <3>1, <3>2, <3>3 DEF Content
  <2>3. sealed' = Append(sealed, g)
    BY <1>7 DEF AdoptWrite, SealSlot
  <2> HIDE DEF g
  <2>4. /\ Widens
        /\ ChainGrows'
        /\ \A n : n = NewHash => Content(n)' = Entries(g)
    BY <2>1, <2>2, <2>3, SealOneGrows
  <2>5. PICK n, m : n = NewHash /\ m = seen[d]
    OBVIOUS
  <2>6. /\ pc[d] = "adopt_write" /\ pc'[d] = "adopt_persist" /\ seen'[d] = n
        /\ vault' = vault
        /\ store'[d].container = store[d].container
        /\ store'[d].synced \in {m, None}
    <3>1. PICK b \in BOOLEAN : SealSlot(d, IF b THEN seen[d] ELSE None)
      BY <1>7 DEF AdoptWrite
    <3>2. /\ store'[d].container = store[d].container
          /\ store'[d].synced \in {m, None}
      BY <2>5, <3>1, StoreAt
    <3>3. /\ pc[d] = "adopt_write" /\ vault' = vault
          /\ pc'[d] = "adopt_persist" /\ seen'[d] = n
      BY <1>7, <2>5 DEF AdoptWrite, TypeOK
    <3> QED
      BY <3>2, <3>3
  <2>7. /\ Content(m)' = Content(m) /\ Content(None)' = {}
        /\ Content(n)' = Content(m)
    BY <2>1, <2>2, <2>4, <2>5, ContentStable DEF Content
  <2>8. Content(seen[d])' = Content(m)
    BY <2>6, <2>7 DEF Content
  <2>9. Content(store[d].synced)' \subseteq Content(m)
    BY <2>6, <2>7 DEF Content
  <2> QED
    BY <2>4, <2>6, <2>8, <2>9 DEF Held
<1>8. CASE AdoptPersist(d)
  <2>1. /\ UNCHANGED sealed
        /\ vault'[d] = seen[d]
        /\ store'[d].container = seen[d]
        /\ store'[d].synced = store[d].synced
        /\ pc'[d] = "idle"
    BY <1>8, MovesAt DEF AdoptPersist
  <2>2. Content(store[d].synced) \subseteq Content(seen[d])
    BY <1>8 DEF AdoptPersist, Held
  <2> QED
    BY <1>1, <2>1, <2>2 DEF Held, Content
<1>9. CASE Clear(d)
  <2>1. UNCHANGED sealed /\ pc'[d] = "clear_device"
    BY <1>9 DEF Clear, TypeOK
  <2> QED
    BY <1>1, <2>1 DEF Held
<1>10. CASE ClearSynced(d)
  <2>1. /\ UNCHANGED sealed /\ pc'[d] = "idle"
        /\ vault'[d] = None /\ store'[d].synced = None
    BY <1>10, MovesAt DEF ClearSynced, TypeOK
  <2> QED
    BY <1>1, <2>1 DEF Held, Content
<1>11. CASE DropsSlot(d)
  <2>1. /\ UNCHANGED <<sealed, vault, seen>>
        /\ pc'[d] \in {"adopt_write", "clear_synced"}
        /\ pc'[d] = "adopt_write" => pc[d] = "adopt_key"
        /\ store'[d].container = store[d].container
        /\ store'[d].synced = store[d].synced
    BY <1>11, DropSlotAt
  <2>2. Held(d)'
    BY <2>1 DEF Held, Content
  <2> QED
    BY <1>1, <2>1, <2>2
<1> QED
  BY <1>2, <1>5, <1>6, <1>7, <1>8, <1>9, <1>10, <1>11

\* What the step of one device leaves of another device's copy.
LEMMA OthersHeld ==
  ASSUME Typed, NEW d \in Device, OthersKeep(d), Widens,
         NEW e \in Device \ {d}, Held(e)
  PROVE  Held(e)'
<1>1. PICK s \in Hashes \cup {None}, c \in Hashes \cup {None},
           r \in Hashes \cup {None} :
        s = store[e].synced /\ c = store[e].container /\ r = seen[e]
  BY DEF Typed, TypeOK
<1>2. /\ Content(s)' = Content(s) /\ Content(c)' = Content(c)
      /\ Content(r)' = Content(r)
  BY ContentStable
<1>3. /\ Content(store[e].synced)' = Content(store[e].synced)
      /\ Content(store[e].container)' = Content(store[e].container)
      /\ Content(seen[e])' = Content(seen[e])
  BY <1>1, <1>2 DEF Content, OthersKeep
<1> QED
  BY <1>3 DEF Held, OthersKeep

\* The host takes only what holds everything it accepted before.
LEMMA StepHostKeeps ==
  ASSUME Typed, ChainGrows, HostKeepsContent, NEW d \in Device, Step(d), Widens
  PROVE  HostKeepsContent'
<1> USE DEF Typed
<1>1. ASSUME UNCHANGED records PROVE HostKeepsContent'
  <2>1. \A g \in DOMAIN records : records[g] \in Hashes
    BY DEF TypeOK
  <2>2. ASSUME NEW g \in DOMAIN records
        PROVE  Content(records[g])' = Content(records[g])
    <3>1. PICK h \in Hashes : h = records[g]
      BY <2>1
    <3>2. Content(h)' = Content(h)
      BY ContentStable
    <3> QED
      BY <1>1, <3>1, <3>2 DEF Content
  <2> QED
    BY <1>1, <2>2 DEF HostKeepsContent
<1>2. ASSUME UNCHANGED sealed, HostAccepts(vault[d]), vault[d] \in Hashes
      PROVE  HostKeepsContent'
  <2> DEFINE h == vault[d]
             N == Len(records)
  <2>1. CASE UNCHANGED records
    BY <1>1, <2>1
  <2>2. CASE records' = Append(records, h) /\ Extends(h)
    <3>1. /\ N \in Nat
          /\ DOMAIN records = 1 .. N
          /\ DOMAIN records' = 1 .. N + 1
          /\ \A g \in 1 .. N : records'[g] = records[g]
          /\ records'[N + 1] = h
      BY <2>2 DEF TypeOK
    <3>2. Content(CurrentRecord) \subseteq Content(h)
      BY <1>2, <2>2 DEF Extends, ChainGrows
    <3>3. \A g \in 1 .. N : Content(records[g]) \subseteq Content(h)
      <4>1. \A g \in 1 .. N :
              Content(records[g]) \subseteq Content(CurrentRecord)
        BY <3>1 DEF HostKeepsContent, CurrentRecord
      <4> QED
        BY <3>2, <4>1
    <3>4. \A x : Content(x)' = Content(x)
      BY <1>2 DEF Content
    <3>5. ASSUME NEW g1 \in 1 .. N + 1, NEW g2 \in 1 .. N + 1, g1 <= g2
          PROVE  Content(records'[g1]) \subseteq Content(records'[g2])
      <4>1. CASE g2 \in 1 .. N
        BY <3>1, <3>5, <4>1 DEF HostKeepsContent
      <4>2. CASE g2 = N + 1 /\ g1 \in 1 .. N
        BY <3>1, <3>3, <4>2
      <4>3. CASE g1 = N + 1 /\ g2 = N + 1
        BY <4>3
      <4> QED
        BY <3>1, <3>5, <4>1, <4>2, <4>3
    <3>6. ASSUME NEW g \in 1 .. N + 1
          PROVE  Content(records[g])' = Content(records'[g])
      BY <1>2 DEF Content
    <3> QED
      BY <3>1, <3>5, <3>6 DEF HostKeepsContent
  <2> QED
    BY <1>2, <2>1, <2>2 DEF HostAccepts
<1>3. CASE PushAccepted(d) \/ AnswerLost(d)
  BY <1>2, <1>3 DEF PushAccepted, AnswerLost, Offering, TypeOK,
                    CallsHoldTheirData
<1>4. CASE Edit(d)
  BY <1>1, <1>4, EditCommits DEF Commit, CommitFails
<1>5. UNCHANGED records \/ PushAccepted(d) \/ AnswerLost(d) \/ Edit(d)
  BY DEF Step, Continue, Disturb, Open, Push, AdoptRead, Clear, PullRead,
         PullSame, PullRefused, PullFastForward, PullPersist, PullMerge,
         PushNothing, PushSynced, PushRestart, PushConflict, PushRead,
         PushRechain, PushRefused, PushMerge, Rechain, AdoptWrite,
         AdoptPersist, AdoptKey, ClearDevice, ClearSynced,
         HostCallFails, StoreWriteFails, Crash
<1> QED
  BY <1>1, <1>3, <1>4, <1>5

\* Generations grow along their chain, devices hold what they synced, and the
\* host keeps what it accepted, in every state.
LEMMA AlwaysHeld ==
  ASSUME Faults \cap {"store", "crash"} = {}
  PROVE  Spec => [](ChainGrows /\ AllHeld /\ HostKeepsContent)
<1> DEFINE Inv == ChainGrows /\ AllHeld /\ HostKeepsContent
<1>1. Init => Inv
  <2> SUFFICES ASSUME Init PROVE Inv
    OBVIOUS
  <2>1. /\ sealed[1].prev = None /\ Hashes = {1} /\ records = <<>>
    BY DEF Init, Hashes
  <2>2. ChainGrows
    BY <2>1 DEF ChainGrows, Content, None
  <2>3. ASSUME NEW d \in Device PROVE Held(d)
    <3>1. /\ pc[d] = "idle" /\ store[d].synced = None
          /\ vault[d] # None => store[d].container = vault[d]
      BY DEF Init
    <3> QED
      BY <3>1 DEF Held, Content
  <2>4. HostKeepsContent
    BY <2>1 DEF HostKeepsContent
  <2> QED
    BY <2>2, <2>3, <2>4 DEF AllHeld
<1>2. Typed /\ Inv /\ [Next]_vars => Inv'
  <2> SUFFICES ASSUME Typed, Inv, [Next]_vars PROVE Inv'
    OBVIOUS
  <2>1. CASE UNCHANGED vars
    <3>1. UNCHANGED <<sealed, records, store, vault, pc, seen>>
      BY <2>1 DEF vars
    <3>2. ChainGrows'
      BY <3>1 DEF ChainGrows, Hashes, Content, Entries
    <3>3. AllHeld'
      BY <3>1 DEF AllHeld, Held, Content, Entries
    <3>4. HostKeepsContent'
      BY <3>1 DEF HostKeepsContent, Content, Entries
    <3> QED
      BY <3>2, <3>3, <3>4
  <2>2. ASSUME NEW d \in Device, Step(d) PROVE Inv'
    <3>1. ~StoreWriteFails(d) /\ ~Crash(d)
      BY DEF StoreWriteFails, Crash, Fault
    <3>2. Held(d)
      BY DEF AllHeld
    <3>3. Widens /\ ChainGrows' /\ Held(d)'
      BY <2>2, <3>1, <3>2, PullHeld, PushHeld, OtherHeld
         DEF Step, Continue, Disturb, DropsSlot
    <3>4. ASSUME NEW e \in Device \ {d} PROVE Held(e)'
      BY <2>2, <3>3, StepKeepsOthers, OthersHeld DEF AllHeld
    <3>5. HostKeepsContent'
      BY <2>2, <3>3, StepHostKeeps
    <3> QED
      BY <3>3, <3>4, <3>5 DEF AllHeld
  <2> QED
    BY <2>1, <2>2 DEF Next, Step
<1> QED
  BY <1>1, <1>2, AlwaysTyped, PTL DEF Spec

\* No push overwrites what another device stored: as long as store writes
\* neither fail nor are cut short by a crash, a generation that merge, rechain
\* or restart brings to the host holds every fact accepted before it.
THEOREM NothingOverwritten ==
  ASSUME Faults \cap {"store", "crash"} = {}
  PROVE  Spec => []HostKeepsFacts
<1>1. Typed /\ HostKeepsContent => HostKeepsFacts
  <2> SUFFICES ASSUME Typed, HostKeepsContent,
                      NEW g1 \in DOMAIN records, NEW g2 \in DOMAIN records,
                      g1 <= g2
               PROVE  Facts(records[g1]) \subseteq Facts(records[g2])
    BY DEF HostKeepsFacts
  <2>1. TypeOK /\ records[g1] \in Hashes /\ records[g2] \in Hashes
    BY DEF Typed, TypeOK
  <2>2. Content(records[g1]) \subseteq Content(records[g2])
    BY DEF HostKeepsContent
  <2> QED
    BY <2>1, <2>2, ContentTells
<1> QED
  BY <1>1, AlwaysHeld, AlwaysTyped, PTL

\* Nor is metadata dropped: though a merge takes the local entry of a key
\* without asking which side changed it, and a rechain takes the local payload
\* as it is, a key that has metadata at the host keeps having some.
THEOREM MetadataIsKept ==
  ASSUME Faults \cap {"store", "crash"} = {}
  PROVE  Spec => []MetaIsKept
<1>1. Typed /\ HostKeepsContent => MetaIsKept
  <2> SUFFICES ASSUME Typed, HostKeepsContent,
                      NEW g1 \in DOMAIN records, NEW g2 \in DOMAIN records,
                      NEW k \in Key, g1 <= g2, sealed[records[g1]].meta[k] # 0
               PROVE  sealed[records[g2]].meta[k] # 0
    BY DEF MetaIsKept
  <2>1. /\ TypeOK /\ records[g1] \in Hashes /\ records[g2] \in Hashes
        /\ \A h \in Hashes : h # None
    BY DEF Typed, TypeOK, Hashes, None
  <2>2. Content(records[g1]) \subseteq Content(records[g2])
    BY DEF HostKeepsContent
  <2>3. <<"meta", k>> \in Content(records[g1])
    BY <2>1, ContentTells
  <2> QED
    BY <2>1, <2>2, <2>3, ContentTells
<1> QED
  BY <1>1, AlwaysHeld, AlwaysTyped, PTL

-----------------------------------------------------------------------------
(* What counts as synced is served.                                        *)

\* What is noted as synced is among the accepted generations, and the head
\* says what each of them says.
LEMMA HeadHoldsSynced ==
  ASSUME TypeOK, SyncedIsOnHost, HostKeepsContent, NEW d \in Device
  PROVE  Content(store[d].synced) \subseteq Content(CurrentRecord)
<1>1. CASE store[d].synced = None
  BY <1>1 DEF Content
<1>2. CASE store[d].synced # None
  <2>1. PICK g \in DOMAIN records : records[g] = store[d].synced
    BY <1>2 DEF SyncedIsOnHost
  <2>2. /\ Len(records) \in DOMAIN records /\ g <= Len(records)
        /\ CurrentRecord = records[Len(records)]
    BY <2>1 DEF TypeOK, CurrentRecord
  <2> QED
    BY <2>1, <2>2 DEF HostKeepsContent
<1> QED
  BY <1>1, <1>2

\* When a device's container counts as synced, every fact of it is in the
\* generation that the other devices read: pull and push lose nothing by
\* returning early, as long as store writes neither fail nor are cut short.
THEOREM SyncedIsServed ==
  ASSUME Faults \cap {"store", "crash"} = {}
  PROVE  Spec => []SyncedWorkIsServed
<1>1. Typed /\ SyncedIsOnHost /\ HostKeepsContent => SyncedWorkIsServed
  <2> SUFFICES ASSUME Typed, SyncedIsOnHost, HostKeepsContent,
                      NEW d \in Device, store[d].synced = store[d].container
               PROVE  Facts(store[d].container) \subseteq Facts(CurrentRecord)
    BY DEF SyncedWorkIsServed
  <2>1. TypeOK /\ store[d].container \in Hashes \cup {None}
    BY DEF Typed, TypeOK
  <2>2. Content(store[d].container) \subseteq Content(CurrentRecord)
    BY <2>1, HeadHoldsSynced
  <2>3. CurrentRecord \in Hashes \cup {None}
    BY <2>1, CurrentRecordType
  <2> QED
    BY <2>1, <2>2, <2>3, ContentTells
<1> QED
  BY <1>1, AlwaysTyped, SyncedHashOnHost, AlwaysHeld, PTL

-----------------------------------------------------------------------------
(* The open vault is the stored one, under all faults.                     *)

Stored(d) == vault[d] # None => store[d].container \in {vault[d], None}

\* persist stores before it opens, and every failure leaves the open vault as
\* it was or drops it.
LEMMA StepStored ==
  ASSUME Typed, NEW d \in Device, Stored(d), Step(d)
  PROVE  Stored(d)'
<1> USE DEF Typed
<1>1. ASSUME store'[d].container = store[d].container,
             vault'[d] \in {vault[d], None}
      PROVE  Stored(d)'
  BY <1>1 DEF Stored
<1>2. ASSUME NEW h, Persist(d, h) PROVE Stored(d)'
  BY <1>2, MovesAt DEF Stored
<1>3. CASE Edit(d)
  BY <1>1, <1>2, <1>3, EditCommits DEF Commit, CommitFails, TypeOK
<1>4. CASE Open(d)
  BY <1>4 DEF Open, Stored, TypeOK
<1>5. CASE \/ Push(d) \/ AdoptRead(d) \/ PullRefused(d) \/ PushNothing(d)
           \/ PushAccepted(d) \/ PushConflict(d) \/ PushRead(d)
           \/ PushRefused(d) \/ HostCallFails(d) \/ AnswerLost(d)
           \/ StoreWriteFails(d) \/ Crash(d)
           \/ \E sync \in BOOLEAN : PullRead(d, sync)
  <2>1. UNCHANGED store /\ vault'[d] \in {vault[d], None}
    BY <1>5 DEF Push, AdoptRead, PullRead, PullRefused, PushNothing,
                PushAccepted, PushConflict, PushRead, PushRefused,
                HostCallFails, AnswerLost, StoreWriteFails, Crash, TypeOK
  <2> QED
    BY <1>1, <2>1
<1>6. CASE PullSame(d) \/ PullFastForward(d) \/ PushSynced(d)
  BY <1>1, <1>6, MovesAt DEF PullSame, PullFastForward, PushSynced
<1>7. CASE \/ PullPersist(d) \/ PullMerge(d) \/ PushRestart(d)
           \/ PushRechain(d) \/ PushMerge(d) \/ AdoptPersist(d)
  BY <1>2, <1>7 DEF PullPersist, PullMerge, PushRestart, PushRechain,
                    PushMerge, Rechain, AdoptPersist
<1>8. CASE AdoptWrite(d) \/ ClearSynced(d)
  BY <1>1, <1>8 DEF AdoptWrite, SealSlot, ClearSynced, TypeOK
<1>10. CASE DropsSlot(d)
  BY <1>1, <1>10, DropSlotAt
<1>9. CASE Clear(d)
  <2>1. store'[d].container = None
    BY <1>9 DEF Clear, TypeOK
  <2> QED
    BY <2>1 DEF Stored
<1> QED
  BY <1>3, <1>4, <1>5, <1>6, <1>7, <1>8, <1>9, <1>10
     DEF Step, Continue, Disturb, DropsSlot

\* What a device has open is what it has stored, whichever write failed and
\* wherever the process died, unless clear() deleted the container.
THEOREM OpenVaultIsStored == Spec => []OpenIsStored
<1>1. Init => OpenIsStored
  BY DEF Init, OpenIsStored
<1>2. Typed /\ OpenIsStored /\ [Next]_vars => OpenIsStored'
  <2> SUFFICES ASSUME Typed, OpenIsStored, [Next]_vars,
                      NEW e \in Device
               PROVE  Stored(e)'
    BY DEF OpenIsStored, Stored
  <2>1. Stored(e)
    BY DEF OpenIsStored, Stored
  <2>2. CASE UNCHANGED vars
    BY <2>1, <2>2 DEF Stored, vars
  <2>3. ASSUME NEW d \in Device, Step(d) PROVE Stored(e)'
    <3>1. CASE e = d
      BY <2>1, <2>3, <3>1, StepStored
    <3>2. CASE e # d
      BY <2>1, <2>3, <3>2, StepKeepsOthers DEF OthersKeep, Stored
    <3> QED
      BY <3>1, <3>2
  <2> QED
    BY <2>2, <2>3 DEF Next, Step
<1> QED
  BY <1>1, <1>2, AlwaysTyped, PTL DEF Spec

-----------------------------------------------------------------------------
(* A retried push extends the head it was refused for, under all faults.   *)

\* The host's generations are numbered by their places.
Numbered == \A g \in DOMAIN records : sealed[records[g]].gen = g

NextNumber(h) == IF h = None THEN 1 ELSE sealed[h].gen + 1

\* A call starts without a record; what push offers again is a child of the
\* record it read, or the start of a chain if it found an empty host.
Follows(d) ==
  /\ pc[d] = "idle" => seen[d] = None
  /\ pc[d] = "push_put" => seen[d] = None \/ InRecords(seen[d])
  /\ pc[d] = "push_put" /\ attempt[d] > 1
       => /\ sealed[vault[d]].prev = seen[d]
          /\ sealed[vault[d]].gen = NextNumber(seen[d])

AllFollow == \A d \in Device : Follows(d)

\* Every step seals new generations and leaves the others as they are.
LEMMA StepWidens ==
  ASSUME Typed, NEW d \in Device, Step(d)
  PROVE  Widens
<1> USE DEF Typed
<1>1. ASSUME UNCHANGED sealed PROVE Widens
  BY <1>1 DEF Widens, Hashes
<1>2. ASSUME NEW g \in Generation, sealed' = Append(sealed, g) PROVE Widens
  BY <1>2, SealOne DEF Widens
<1>3. CASE Edit(d)
  <2>1. CASE CommitFails(d)
    BY <1>1, <2>1 DEF CommitFails
  <2>2. ASSUME NEW ps \in Seq(Payloads), NEW push, Commit(d, ps, push)
        PROVE  Widens
    <3>1. vault[d] \in Hashes
      BY <2>2 DEF Commit, IsOpen, TypeOK
    <3>2. Chain(vault[d], ps) \in Seq(Generation)
      BY <3>1, ChainType
    <3> QED
      BY <2>2, <3>2, SealMore DEF Commit, Widens
  <2> QED
    BY <1>3, <2>1, <2>2, EditCommits
<1>4. CASE PullMerge(d) \/ PushMerge(d)
  <2>1. seen[d] \in Hashes /\ vault[d] \in Hashes
    BY <1>4 DEF PullMerge, PushMerge, Differs, CallsHoldTheirData, TypeOK
  <2>2. PICK S \in MergedSlots(seen[d], vault[d]) :
          sealed' = Append(sealed, Merged(seen[d], vault[d], S))
    BY <1>4 DEF PullMerge, PushMerge
  <2> QED
    BY <1>2, <2>1, <2>2, MergedType
<1>5. ASSUME NEW n \in Nat \ {0}, NEW p \in Hashes \cup {None},
             Rechain(d, n, p), pc[d] \in {"push_put", "push_resolve"}
      PROVE  Widens
  <2>1. vault[d] \in Hashes /\ p \in Nat
    BY <1>5 DEF CallsHoldTheirData, TypeOK, Hashes, None
  <2> QED
    BY <1>2, <1>5, <2>1, RechainedType DEF Rechain
<1>6. CASE PushRestart(d)
  BY <1>5, <1>6 DEF PushRestart, Offering
<1>7. CASE PushRechain(d)
  <2>1. seen[d] \in Hashes /\ sealed[seen[d]] \in Generation
    BY <1>7 DEF PushRechain, CallsHoldTheirData, TypeOK, Hashes
  <2>2. sealed[seen[d]].gen + 1 \in Nat \ {0}
    BY <2>1 DEF Generation
  <2> QED
    BY <1>5, <1>7, <2>1, <2>2 DEF PushRechain
<1>8. CASE AdoptWrite(d)
  <2>1. seen[d] \in Hashes /\ sealed[seen[d]] \in Generation
    BY <1>8 DEF AdoptWrite, CallsHoldTheirData, TypeOK, Hashes
  <2>2. /\ Facts(seen[d]) \in SUBSET Fact
        /\ sealed[seen[d]].meta \in [Key -> Nat]
        /\ sealed[seen[d]].slots \cup {NewHash} \in SUBSET Nat
    BY <2>1 DEF Generation, Facts, NewHash, TypeOK
  <2> QED
    BY <1>2, <1>8, <2>1, <2>2, ChildType DEF AdoptWrite, SealSlot
<1> QED
  BY <1>1, <1>3, <1>4, <1>6, <1>7, <1>8
     DEF Step, Continue, Disturb, Open, Push, AdoptRead, Clear, PullRead,
         PullSame, PullRefused, PullFastForward, PullPersist,
         PushNothing, PushAccepted, PushSynced, PushConflict, PushRead,
         PushRefused, AdoptPersist, AdoptKey, ClearDevice, ClearSynced,
         HostCallFails, AnswerLost,
         StoreWriteFails, Crash

\* What the host accepts goes into the place of its number.
LEMMA StepNumbered ==
  ASSUME Typed, Numbered, NEW d \in Device, Step(d)
  PROVE  Numbered'
<1> USE DEF Typed
<1>1. ASSUME UNCHANGED records PROVE Numbered'
  <2>1. \A g \in DOMAIN records : records[g] \in Hashes
    BY DEF TypeOK
  <2> QED
    BY <1>1, <2>1, StepWidens DEF Widens, Numbered
<1>2. CASE PushAccepted(d) \/ AnswerLost(d)
  <2>1. /\ vault[d] \in Hashes /\ HostAccepts(vault[d])
        /\ UNCHANGED sealed
    BY <1>2 DEF PushAccepted, AnswerLost, Offering, CallsHoldTheirData,
                TypeOK
  <2>2. ASSUME Extends(vault[d]), records' = Append(records, vault[d])
        PROVE  Numbered'
    <3>1. /\ DOMAIN records' = DOMAIN records \cup {Len(records) + 1}
          /\ \A g \in DOMAIN records : records'[g] = records[g]
          /\ records'[Len(records) + 1] = vault[d]
      BY <2>2 DEF TypeOK
    <3> QED
      BY <2>1, <2>2, <3>1 DEF Extends, HeadGeneration, Numbered
  <2> QED
    BY <1>1, <2>1, <2>2 DEF HostAccepts
<1>3. CASE Edit(d)
  BY <1>1, <1>3, EditCommits DEF Commit, CommitFails
<1>4. UNCHANGED records \/ PushAccepted(d) \/ AnswerLost(d) \/ Edit(d)
  BY DEF Step, Continue, Disturb, Open, Push, AdoptRead, Clear, PullRead,
         PullSame, PullRefused, PullFastForward, PullPersist, PullMerge,
         PushNothing, PushSynced, PushRestart, PushConflict, PushRead,
         PushRechain, PushRefused, PushMerge, Rechain, AdoptWrite,
         AdoptPersist, AdoptKey, ClearDevice, ClearSynced, HostCallFails,
         StoreWriteFails, Crash
<1> QED
  BY <1>1, <1>2, <1>3, <1>4

\* How the moves of a call treat the record it read.
LEMMA MovesSeen ==
  ASSUME TypeOK, NEW d \in Device
  PROVE  /\ Goto(d, "idle") => pc'[d] = "idle" /\ seen'[d] = None
         /\ \A n : Offer(d, n) => pc'[d] = "push_put" /\ attempt'[d] = n
         /\ PullReturns(d) =>
              /\ pc'[d] \in {"idle", "push_put"} /\ seen'[d] = None
              /\ pc'[d] = "push_put" => attempt'[d] = 1
         /\ NextAttempt(d) =>
              \/ pc'[d] = "idle" /\ seen'[d] = None
              \/ pc'[d] = "push_put" /\ seen' = seen
<1>1. Goto(d, "idle") => pc'[d] = "idle" /\ seen'[d] = None
  BY DEF Goto, TypeOK
<1>2. \A n : Offer(d, n) => pc'[d] = "push_put" /\ attempt'[d] = n
  BY DEF Offer, TypeOK
<1>3. PullReturns(d) =>
        /\ pc'[d] \in {"idle", "push_put"} /\ seen'[d] = None
        /\ pc'[d] = "push_put" => attempt'[d] = 1
  <2>1. CASE thenPush[d]
    BY <1>2, <2>1 DEF PullReturns, TypeOK
  <2>2. CASE ~thenPush[d]
    BY <1>1, <2>2 DEF PullReturns
  <2> QED
    BY <2>1, <2>2
<1>4. NextAttempt(d) => \/ pc'[d] = "idle" /\ seen'[d] = None
                        \/ pc'[d] = "push_put" /\ seen' = seen
  <2>1. CASE attempt[d] < PushAttempts
    BY <1>2, <2>1 DEF NextAttempt
  <2>2. CASE ~(attempt[d] < PushAttempts)
    BY <1>1, <2>2 DEF NextAttempt
  <2> QED
    BY <2>1, <2>2
<1> QED
  BY <1>1, <1>2, <1>3, <1>4

\* A generation sealed onto what was read follows it.
LEMMA SealedFollows ==
  ASSUME Typed, NEW d \in Device, Step(d), NEW g \in Generation,
         sealed' = Append(sealed, g), Persist(d, NewHash), NextAttempt(d),
         seen[d] = None \/ InRecords(seen[d]),
         g.prev = seen[d], g.gen = NextNumber(seen[d])
  PROVE  Follows(d)'
<1> USE DEF Typed
<1>1. CASE pc'[d] = "idle"
  <2>1. seen'[d] = None
    BY <1>1, MovesSeen
  <2> QED
    BY <1>1, <2>1 DEF Follows
<1>2. CASE pc'[d] # "idle"
  <2>1. pc'[d] = "push_put" /\ seen' = seen
    BY <1>2, MovesSeen
  <2>2. seen'[d] = None \/ InRecords(seen[d])'
    BY <2>1, StepKeepsRecords DEF InRecords
  <2>3. sealed'[vault'[d]] = g
    <3>1. vault'[d] = NewHash /\ sealed'[NewHash] = g
      BY MovesAt, SealOne
    <3> QED
      BY <3>1
  <2>4. g.gen = NextNumber(seen[d])'
    <3>1. PICK h \in Hashes \cup {None} : h = seen[d]
      BY DEF TypeOK
    <3>2. h # None => sealed'[h] = sealed[h]
      BY StepWidens DEF Widens
    <3> QED
      BY <2>1, <3>1, <3>2 DEF NextNumber
  <2> QED
    BY <2>1, <2>2, <2>3, <2>4 DEF Follows
<1> QED
  BY <1>1, <1>2

\* Push offers what follows the record it read.
LEMMA StepFollows ==
  ASSUME Typed, NEW d \in Device, OnHost(d), Follows(d), Step(d)
  PROVE  Follows(d)'
<1> USE DEF Typed
<1>1. ASSUME pc'[d] \notin {"idle", "push_put"} PROVE Follows(d)'
  BY <1>1 DEF Follows
<1>2. ASSUME seen'[d] = None, pc'[d] = "push_put" => attempt'[d] = 1
      PROVE  Follows(d)'
  BY <1>2 DEF Follows
<1>3. CASE Edit(d)
  <2>1. CASE CommitFails(d)
    BY <1>2, <2>1 DEF CommitFails, IsOpen, Follows, local
  <2>2. ASSUME NEW ps, NEW push, Commit(d, ps, push) PROVE Follows(d)'
    <3>1. seen[d] = None /\ pc[d] = "idle"
      BY <2>2 DEF Commit, IsOpen, Follows
    <3>2. seen' = seen /\ (pc'[d] = "push_put" => attempt'[d] = 1)
      BY <2>2, <3>1, MovesSeen DEF Commit, local
    <3> QED
      BY <1>2, <3>1, <3>2
  <2> QED
    BY <1>3, <2>1, <2>2, EditCommits
<1>4. CASE Open(d) \/ Push(d) \/ Clear(d)
  <2>1. seen' = seen /\ seen[d] = None
    BY <1>4 DEF Open, Push, Clear, IsOpen, Follows, local
  <2>2. pc'[d] = "push_put" => attempt'[d] = 1
    BY <1>4, MovesSeen DEF Open, Push, Clear, TypeOK
  <2> QED
    BY <1>2, <2>1, <2>2
<1>5. CASE \E sync \in BOOLEAN : PullRead(d, sync)
  <2>1. CASE CurrentRecord = None
    <3>1. seen' = seen /\ seen[d] = None
      BY <1>5, <2>1 DEF PullRead, IsOpen, Follows, local
    <3>2. pc'[d] = "push_put" => attempt'[d] = 1
      BY <1>5, <2>1, MovesSeen DEF PullRead, IsOpen
    <3> QED
      BY <1>2, <3>1, <3>2
  <2>2. CASE CurrentRecord # None
    BY <1>1, <1>5, <2>2 DEF PullRead, TypeOK
  <2> QED
    BY <2>1, <2>2
<1>6. CASE \/ PullSame(d) \/ PullPersist(d) \/ PullMerge(d)
  <2>1. PullReturns(d)
    BY <1>6 DEF PullSame, PullPersist, PullMerge
  <2> QED
    BY <1>2, <2>1, MovesSeen
<1>7. CASE \/ PullRefused(d) \/ PushNothing(d) \/ PushSynced(d)
           \/ PushRefused(d) \/ AdoptPersist(d) \/ ClearSynced(d) \/ Disturb(d)
  <2>1. Goto(d, "idle")
    BY <1>7 DEF PullRefused, PushNothing, PushSynced, PushRefused,
                AdoptPersist, ClearSynced, Disturb, HostCallFails, AnswerLost,
                StoreWriteFails, Crash
  <2> QED
    BY <1>2, <2>1, MovesSeen
<1>8. CASE PullFastForward(d) \/ PushAccepted(d) \/ PushConflict(d)
  <2>1. \E p \in {"pull_persist", "push_synced", "push_read"} : Goto(d, p)
    BY <1>8 DEF PullFastForward, PushAccepted, PushConflict
  <2> QED
    BY <1>1, <2>1, MovesAt
<1>9. CASE PushRead(d) \/ AdoptRead(d) \/ AdoptWrite(d)
  BY <1>1, <1>9 DEF PushRead, AdoptRead, AdoptWrite, TypeOK
<1>12. CASE DropsSlot(d)
  BY <1>1, <1>12, DropSlotAt
<1>10. CASE PushRestart(d)
  <2>1. /\ vault[d] \in Hashes /\ CurrentRecord = None
        /\ pc[d] = "push_put" /\ Rechain(d, 1, None)
    BY <1>10 DEF PushRestart, Offering, CallsHoldTheirData, TypeOK
  <2>2. seen[d] = None
    <3>1. records = <<>>
      BY <2>1 DEF CurrentRecord, TypeOK, Hashes, None
    <3>2. ~InRecords(seen[d])
      BY <3>1 DEF InRecords
    <3> QED
      BY <2>1, <3>2 DEF Follows
  <2> DEFINE g == Rechained(vault[d], 1, None)
  <2>3. g \in Generation
    BY <2>1, RechainedType DEF None
  <2>4. sealed[vault[d]] \in Generation
    BY <2>1 DEF TypeOK, Hashes
  <2>5. g.prev = seen[d] /\ g.gen = NextNumber(seen[d])
    BY <2>2, <2>4 DEF Rechained, NextNumber, Generation
  <2>6. /\ sealed' = Append(sealed, g) /\ Persist(d, NewHash)
        /\ NextAttempt(d)
    BY <2>1 DEF Rechain
  <2> HIDE DEF g
  <2> QED
    BY <2>2, <2>3, <2>5, <2>6, SealedFollows
<1>11. CASE PushRechain(d) \/ PushMerge(d)
  <2>1. /\ vault[d] \in Hashes /\ seen[d] \in Hashes /\ seen[d] # None
        /\ pc[d] = "push_resolve"
    BY <1>11 DEF PushRechain, PushMerge, CallsHoldTheirData, TypeOK
  <2>2. InRecords(seen[d])
    BY <2>1 DEF OnHost
  <2>3. /\ sealed[vault[d]] \in Generation /\ sealed[seen[d]] \in Generation
        /\ sealed[seen[d]].gen + 1 \in Nat \ {0}
    <3>1. sealed[vault[d]] \in Generation /\ sealed[seen[d]] \in Generation
      BY <2>1 DEF TypeOK, Hashes
    <3> QED
      BY <3>1 DEF Generation
  <2>4. PICK g \in Generation :
          /\ g.prev = seen[d] /\ g.gen = NextNumber(seen[d])
          /\ sealed' = Append(sealed, g)
    <3>1. CASE PushRechain(d)
      <4> DEFINE g == Rechained(vault[d], sealed[seen[d]].gen + 1, seen[d])
      <4>1. g \in Generation
        BY <2>1, <2>3, RechainedType DEF Hashes
      <4>2. g.prev = seen[d] /\ g.gen = NextNumber(seen[d])
        BY <2>1, <2>3 DEF Rechained, NextNumber, Generation
      <4>3. sealed' = Append(sealed, g)
        BY <3>1 DEF PushRechain, Rechain
      <4> HIDE DEF g
      <4> QED
        BY <4>1, <4>2, <4>3
    <3>2. CASE PushMerge(d)
      <4>1. PICK S \in MergedSlots(seen[d], vault[d]) :
              sealed' = Append(sealed, Merged(seen[d], vault[d], S))
        BY <3>2 DEF PushMerge
      <4> DEFINE g == Merged(seen[d], vault[d], S)
      <4>2. g \in Generation
        BY <2>1, MergedType
      <4>3. g.prev = seen[d] /\ g.gen = NextNumber(seen[d])
        BY <2>1 DEF Merged, Child, NextNumber
      <4> HIDE DEF g
      <4> QED
        BY <4>1, <4>2, <4>3 DEF g
    <3> QED
      BY <1>11, <3>1, <3>2
  <2>5. Persist(d, NewHash) /\ NextAttempt(d)
    BY <1>11 DEF PushRechain, Rechain, PushMerge
  <2> QED
    BY <2>2, <2>4, <2>5, SealedFollows
<1> QED
  BY <1>3, <1>4, <1>5, <1>6, <1>7, <1>8, <1>9, <1>10, <1>11, <1>12
     DEF Step, Continue, DropsSlot

\* Another device's step takes nothing from a push that is under way.
LEMMA OthersFollow ==
  ASSUME Typed, NEW d \in Device, Step(d), NEW e \in Device \ {d}, Follows(e)
  PROVE  Follows(e)'
<1> USE DEF Typed
<1>1. /\ pc'[e] = pc[e] /\ seen'[e] = seen[e] /\ attempt'[e] = attempt[e]
      /\ vault'[e] = vault[e]
  BY StepKeepsOthers DEF OthersKeep
<1>2. InRecords(seen[e]) => InRecords(seen[e])'
  BY <1>1, StepKeepsRecords DEF InRecords
<1>3. \A h \in Hashes : sealed'[h] = sealed[h]
  BY StepWidens DEF Widens
<1>4. NextNumber(seen[e])' = NextNumber(seen[e])
  BY <1>1, <1>3 DEF NextNumber, TypeOK
<1>5. pc[e] = "push_put" => sealed'[vault'[e]] = sealed[vault[e]]
  BY <1>1, <1>3 DEF CallsHoldTheirData, TypeOK
<1> QED
  BY <1>1, <1>2, <1>4, <1>5 DEF Follows

\* Records are numbered and pushes follow what they read, in every state.
LEMMA AlwaysFollow == Spec => [](Numbered /\ AllFollow)
<1> DEFINE Inv == Numbered /\ AllFollow
<1>1. Init => Inv
  <2> SUFFICES ASSUME Init PROVE Inv
    OBVIOUS
  <2>1. Numbered
    BY DEF Init, Numbered
  <2>2. ASSUME NEW d \in Device PROVE Follows(d)
    <3>1. pc[d] = "idle" /\ seen[d] = None
      BY DEF Init
    <3> QED
      BY <3>1 DEF Follows
  <2> QED
    BY <2>1, <2>2 DEF AllFollow
<1>2. Typed /\ AllOnHost /\ Inv /\ [Next]_vars => Inv'
  <2> SUFFICES ASSUME Typed, AllOnHost, Inv, [Next]_vars PROVE Inv'
    OBVIOUS
  <2>1. CASE UNCHANGED vars
    BY <2>1 DEF vars, Numbered, AllFollow, Follows, NextNumber, InRecords
  <2>2. ASSUME NEW d \in Device, Step(d) PROVE Inv'
    <3>1. Numbered'
      BY <2>2, StepNumbered
    <3>2. Follows(d)'
      BY <2>2, StepFollows DEF AllOnHost, AllFollow
    <3>3. ASSUME NEW e \in Device \ {d} PROVE Follows(e)'
      BY <2>2, <3>3, OthersFollow DEF AllFollow
    <3> QED
      BY <3>1, <3>2, <3>3 DEF AllFollow
  <2> QED
    BY <2>1, <2>2 DEF Next, Step
<1> QED
  BY <1>1, <1>2, AlwaysTyped, AlwaysOnHost, PTL DEF Spec

\* However often the head moves and whatever fails, an attempt after the first
\* is a child of the head it was made for: push uses up its attempts only
\* against a host that keeps moving.
THEOREM RetriesExtendHead == Spec => []RetryExtendsHead
<1>1. Typed /\ Numbered /\ AllFollow => RetryExtendsHead
  <2> SUFFICES ASSUME Typed, Numbered, AllFollow, NEW d \in Device,
                      pc[d] = "push_put", attempt[d] > 1,
                      seen[d] = CurrentRecord
               PROVE  Extends(vault[d])
    BY DEF RetryExtendsHead
  <2>1. /\ sealed[vault[d]].prev = CurrentRecord
        /\ sealed[vault[d]].gen = NextNumber(CurrentRecord)
    BY DEF AllFollow, Follows
  <2>2. NextNumber(CurrentRecord) = HeadGeneration + 1
    <3>1. CASE records = <<>>
      BY <3>1 DEF NextNumber, CurrentRecord, HeadGeneration
    <3>2. CASE records # <<>>
      <4>1. /\ Len(records) \in DOMAIN records
            /\ CurrentRecord = records[Len(records)] /\ CurrentRecord \in Hashes
        BY <3>2 DEF CurrentRecord, Typed, TypeOK
      <4> QED
        BY <4>1 DEF NextNumber, HeadGeneration, Numbered, Hashes, None
    <3> QED
      BY <3>1, <3>2
  <2> QED
    BY <2>1, <2>2 DEF Extends
<1> QED
  BY <1>1, AlwaysTyped, AlwaysFollow, PTL

-----------------------------------------------------------------------------
(* A call stores only what the device's own slot opens.                    *)

\* Payloads under one set of slots.
Under(S) == {p \in Payloads : p.slots = S}

\* What an edit seals, it seals under one set of slots, none of them new: those
\* of the open vault but for the one a removal takes out. They include the slot
\* of the device, if that opens the vault and is not the one removed.
LEMMA EditSlots ==
  ASSUME TypeOK, NEW d \in Device, Edit(d), ~CommitFails(d)
  PROVE  \E S \in SUBSET sealed[vault[d]].slots :
           \E ps \in Seq(Under(S)), push \in BOOLEAN :
             /\ Commit(d, ps, push)
             /\ \/ RemoveDevice(d, store[d].slot)
                \/ Opens(d, vault[d]) => store[d].slot \in S
<1> DEFINE F0 == Facts(vault[d])
           m0 == sealed[vault[d]].meta
           S0 == sealed[vault[d]].slots
<1>1. vault[d] # None =>
        /\ F0 \in SUBSET Fact
        /\ m0 \in [Key -> Nat]
        /\ S0 \in SUBSET Nat
        /\ \A k \in Key : Stamped(d, k) \in [Key -> Nat]
        /\ \A F \in SUBSET Fact, m \in [Key -> Nat] :
             Payload(d, F, m) \in Under(S0)
  <2> SUFFICES ASSUME vault[d] # None
               PROVE  /\ F0 \in SUBSET Fact
                      /\ m0 \in [Key -> Nat]
                      /\ S0 \in SUBSET Nat
                      /\ \A k \in Key : Stamped(d, k) \in [Key -> Nat]
                      /\ \A F \in SUBSET Fact, m \in [Key -> Nat] :
                           Payload(d, F, m) \in Under(S0)
    OBVIOUS
  <2>1. sealed[vault[d]] \in Generation
    BY DEF TypeOK, Hashes
  <2>2. F0 \in SUBSET Fact /\ m0 \in [Key -> Nat] /\ S0 \in SUBSET Nat
    BY <2>1 DEF Facts, Generation
  <2>3. calls + 1 \in Nat
    BY BoundsAssumption DEF TypeOK
  <2>4. \A k \in Key : Stamped(d, k) \in [Key -> Nat]
    BY <2>2, <2>3 DEF Stamped
  <2>5. ASSUME NEW F \in SUBSET Fact, NEW m \in [Key -> Nat]
        PROVE  Payload(d, F, m) \in Under(S0)
    BY <2>2 DEF Payload, Payloads, Under
  <2> QED
    BY <2>2, <2>4, <2>5
<1>2. ASSUME NEW k \in Key, NEW status \in {"active", "retired", "revoked"},
             NEW withMeta \in BOOLEAN, NEW push \in BOOLEAN,
             Import(d, k, status, withMeta, push)
      PROVE  \E ps \in Seq(Under(S0)) : Commit(d, ps, push)
  <2> DEFINE F1 == F0 \cup {<<"key", k>>}
             applies == \/ status = "retired" /\ ~Has(d, "retired", k)
                                              /\ ~Has(d, "revoked", k)
                        \/ status = "revoked" /\ ~Has(d, "revoked", k)
             F2 == IF applies THEN F1 \cup {<<status, k>>} ELSE F1
             p1 == IF F1 = F0 THEN <<>> ELSE <<Payload(d, F1, m0)>>
             p2 == IF applies THEN <<Payload(d, F2, m0)>> ELSE <<>>
             p3 == IF withMeta THEN <<Payload(d, F2, Stamped(d, k))>> ELSE <<>>
  <2>1. vault[d] # None
    BY <1>2 DEF Import, IsOpen
  <2>2. F1 \in SUBSET Fact /\ F2 \in SUBSET Fact
    BY <1>1, <2>1 DEF Fact
  <2>3. /\ Payload(d, F1, m0) \in Under(S0)
        /\ Payload(d, F2, m0) \in Under(S0)
        /\ Payload(d, F2, Stamped(d, k)) \in Under(S0)
    BY <1>1, <2>1, <2>2
  <2>4. Commit(d, p1 \o p2 \o p3, push)
    BY <1>2 DEF Import
  <2>5. p1 \in Seq(Under(S0)) /\ p2 \in Seq(Under(S0)) /\ p3 \in Seq(Under(S0))
    <3> HIDE DEF F0, F1, F2, m0, S0, applies
    <3> QED
      BY <2>3
  <2> HIDE DEF p1, p2, p3, S0
  <2>6. p1 \o p2 \o p3 \in Seq(Under(S0))
    BY <2>5
  <2> QED
    BY <2>4, <2>6
<1>3. ASSUME NEW k \in Key, SetKeyMeta(d, k)
      PROVE  \E ps \in Seq(Under(S0)) : Commit(d, ps, TRUE)
  <2>1. Payload(d, F0, Stamped(d, k)) \in Under(S0)
    BY <1>1, <1>3 DEF SetKeyMeta, IsOpen
  <2> HIDE DEF S0
  <2>2. <<Payload(d, F0, Stamped(d, k))>> \in Seq(Under(S0))
    BY <2>1
  <2> QED
    BY <1>3, <2>2 DEF SetKeyMeta
<1>4. ASSUME NEW k \in Key, NEW kind \in {"retired", "revoked", "tombstone"},
             ChangeKey(d, k, kind)
      PROVE  \E ps \in Seq(Under(S0)) : Commit(d, ps, TRUE)
  <2>1. vault[d] # None
    BY <1>4 DEF ChangeKey, IsOpen
  <2>2. F0 \cup {<<kind, k>>} \in SUBSET Fact
    BY <1>1, <2>1 DEF Fact
  <2>3. Payload(d, F0 \cup {<<kind, k>>}, m0) \in Under(S0)
    BY <1>1, <2>1, <2>2
  <2> HIDE DEF S0
  <2>4. <<Payload(d, F0 \cup {<<kind, k>>}, m0)>> \in Seq(Under(S0))
    BY <2>3
  <2> QED
    BY <1>4, <2>4 DEF ChangeKey
<1>5. ASSUME NEW slot \in Hashes, RemoveDevice(d, slot)
      PROVE  \E ps \in Seq(Under(S0 \ {slot})) : Commit(d, ps, TRUE)
  <2>1. vault[d] # None
    BY <1>5 DEF RemoveDevice, IsOpen
  <2> DEFINE q == Payload(d, F0, m0)
             p == [q EXCEPT !.slots = @ \ {slot}]
             S1 == S0 \ {slot}
  <2>2. p \in Under(S1)
    <3>1. q \in Under(S0)
      BY <1>1, <2>1
    <3> HIDE DEF q, S0
    <3> QED
      BY <3>1 DEF Under, Payloads
  <2>3. Commit(d, <<p, p>>, TRUE)
    BY <1>5 DEF RemoveDevice
  <2> HIDE DEF p, S1
  <2>4. <<p, p>> \in Seq(Under(S1))
    BY <2>2
  <2> QED
    BY <2>3, <2>4 DEF S1
<1>6. CASE \E ps \in Seq(Under(S0)), push \in BOOLEAN : Commit(d, ps, push)
  BY <1>6 DEF Opens
<1>7. ASSUME NEW slot \in Hashes, RemoveDevice(d, slot)
      PROVE  \E S \in SUBSET S0 :
               \E ps \in Seq(Under(S)), push \in BOOLEAN :
                 /\ Commit(d, ps, push)
                 /\ \/ RemoveDevice(d, store[d].slot)
                    \/ Opens(d, vault[d]) => store[d].slot \in S
  <2>1. PICK ps \in Seq(Under(S0 \ {slot})) : Commit(d, ps, TRUE)
    BY <1>5, <1>7
  <2>2. \/ RemoveDevice(d, store[d].slot)
        \/ Opens(d, vault[d]) => store[d].slot \in S0 \ {slot}
    BY <1>7 DEF Opens
  <2> QED
    BY <2>1, <2>2
<1> QED
  BY <1>2, <1>3, <1>4, <1>6, <1>7 DEF Edit

\* The slots of the last generation a commit seals, and of its parent.
LEMMA CommitSlots ==
  ASSUME Typed, NEW d \in Device, NEW S, NEW ps \in Seq(Under(S)), ps # <<>>,
         NEW push \in BOOLEAN, Commit(d, ps, push)
  PROVE  \E h : /\ store'[d].container = h
                /\ sealed'[h].slots = S
                /\ \/ sealed'[h].prev = vault[d]
                   \/ sealed'[sealed'[h].prev].slots = S
<1> USE DEF Typed
<1> DEFINE n == Len(ps)
           c == Chain(vault[d], ps)
           L == Len(sealed)
<1>1. /\ n \in Nat /\ n > 0 /\ L \in Nat /\ ps \in Seq(Payloads)
      /\ \A i \in 1 .. n : ps[i] \in Under(S)
      /\ vault[d] \in Hashes
  BY DEF Under, Commit, IsOpen, TypeOK
<1>2. c \in Seq(Generation) /\ Len(c) = n
  BY <1>1, ChainType
<1>3. \A i \in 1 .. n : sealed'[L + i] = c[i]
  <2>1. sealed' = sealed \o c
    BY DEF Commit
  <2> HIDE DEF c
  <2> QED
    BY <1>1, <1>2, <2>1 DEF TypeOK
<1>4. \A i \in 1 .. n : /\ c[i].slots = S
                        /\ c[i].prev = IF i = 1 THEN vault[d] ELSE L + i - 1
  BY <1>1 DEF Chain, Under
<1>5. PICK h : h = L + n /\ store'[d].container = h
  BY MovesAt DEF Commit
<1> HIDE DEF n, c, L
<1>6. /\ sealed'[h].slots = S
      /\ sealed'[h].prev = IF n = 1 THEN vault[d] ELSE L + n - 1
  BY <1>1, <1>3, <1>4, <1>5
<1>7. CASE n = 1
  BY <1>5, <1>6, <1>7
<1>8. CASE n # 1
  <2>1. n - 1 \in 1 .. n /\ L + n - 1 = L + (n - 1)
    BY <1>1, <1>8
  <2>2. sealed'[L + (n - 1)].slots = S
    BY <1>3, <1>4, <2>1
  <2> QED
    BY <1>5, <1>6, <1>8, <2>1, <2>2
<1> QED
  BY <1>7, <1>8

\* What is about to replace the container, the slot opens; while a vault is
\* adopted or cleared there is no container.
Ready(d) ==
  /\ pc[d] \in {"pull_persist", "adopt_persist"} => Opens(d, seen[d])
  /\ pc[d] \in {"adopt_key", "adopt_write", "adopt_persist",
               "clear_device", "clear_synced"}
       => store[d].container = None

AllReady == \A d \in Device : Ready(d)

\* A slot opens in a sealed generation, later too.
LEMMA OpensStable ==
  ASSUME Widens, NEW d \in Device, store'[d].slot = store[d].slot
  PROVE  \A h \in Hashes : Opens(d, h)' = Opens(d, h)
BY DEF Widens, Opens

\* A device opens the head before it takes it over, and what it adopts it first
\* gives itself a slot in.
LEMMA StepReady ==
  ASSUME Typed, NEW d \in Device, Ready(d), Step(d)
  PROVE  Ready(d)'
<1> USE DEF Typed
<1>1. ASSUME pc'[d] \in {"idle", "pull_apply", "push_put", "push_synced",
                         "push_read", "push_resolve"}
      PROVE  Ready(d)'
  BY <1>1 DEF Ready
<1>2. CASE Edit(d)
  <2>1. pc'[d] \in {"idle", "push_put"}
    BY <1>2, EditCommits, MovesAt DEF Commit, CommitFails, IsOpen
  <2> QED
    BY <1>1, <2>1
<1>3. CASE \/ Open(d) \/ Push(d) \/ PullRefused(d) \/ PushNothing(d)
           \/ PushAccepted(d) \/ PushConflict(d) \/ PushRead(d)
           \/ PushRefused(d) \/ AdoptPersist(d) \/ ClearSynced(d) \/ Disturb(d)
           \/ \E sync \in BOOLEAN : PullRead(d, sync)
  <2>1. pc'[d] \in {"idle", "pull_apply", "push_put", "push_synced",
                    "push_read", "push_resolve"}
    BY <1>3, MovesAt
       DEF Open, Push, IsOpen, PullRead, PullRefused, PushNothing,
           PushAccepted, PushConflict, PushRead, PushRefused, AdoptPersist,
           ClearSynced, Disturb, HostCallFails, AnswerLost, StoreWriteFails,
           Crash, TypeOK
  <2> QED
    BY <1>1, <2>1
<1>4. CASE \/ PullSame(d) \/ PushSynced(d) \/ PullPersist(d) \/ PullMerge(d)
           \/ PushMerge(d) \/ PushRestart(d) \/ PushRechain(d)
  <2>1. pc'[d] \in {"idle", "push_put"}
    BY <1>4, MovesAt DEF PullSame, PushSynced, PullPersist, PullMerge,
                         PushMerge, PushRestart, PushRechain, Rechain
  <2> QED
    BY <1>1, <2>1
<1>5. CASE PullFastForward(d)
  <2>1. /\ pc'[d] = "pull_persist" /\ UNCHANGED <<sealed, seen>>
        /\ store'[d].slot = store[d].slot /\ Opens(d, seen[d])
    BY <1>5, MovesAt DEF PullFastForward, MarkSynced, TypeOK
  <2> QED
    BY <2>1 DEF Ready, Opens
<1>6. CASE AdoptRead(d)
  <2>1. /\ UNCHANGED store /\ pc'[d] = "adopt_key"
        /\ store[d].container = None
    BY <1>6 DEF AdoptRead, TypeOK
  <2> QED
    BY <2>1 DEF Ready
<1>7. CASE DropsSlot(d)
  <2>1. /\ pc'[d] \in {"adopt_write", "clear_synced"}
        /\ store'[d].container = None
    BY <1>7, DropSlotAt DEF Ready
  <2> QED
    BY <2>1 DEF Ready
<1>8. CASE AdoptWrite(d)
  <2>1. seen[d] \in Hashes /\ sealed[seen[d]] \in Generation
    BY <1>8 DEF AdoptWrite, CallsHoldTheirData, TypeOK, Hashes
  <2>2. PICK n : n = NewHash
    OBVIOUS
  <2> DEFINE g == Child(seen[d], Facts(seen[d]), sealed[seen[d]].meta,
                        sealed[seen[d]].slots \cup {NewHash})
  <2>3. g \in Generation
    <3>1. /\ Facts(seen[d]) \in SUBSET Fact
          /\ sealed[seen[d]].meta \in [Key -> Nat]
          /\ sealed[seen[d]].slots \cup {NewHash} \in SUBSET Nat
      BY <2>1 DEF Generation, Facts, NewHash, TypeOK
    <3> QED
      BY <2>1, <3>1, ChildType
  <2>4. n \in g.slots
    BY <2>2 DEF Child
  <2>5. sealed' = Append(sealed, g)
    BY <1>8 DEF AdoptWrite, SealSlot
  <2> HIDE DEF g
  <2>6. sealed'[n] = g
    BY <2>2, <2>3, <2>5, SealOne
  <2>7. /\ store'[d].slot = n /\ seen'[d] = n
        /\ store'[d].container = None /\ pc'[d] = "adopt_persist"
    BY <1>8, <2>2 DEF AdoptWrite, SealSlot, Ready, TypeOK
  <2>8. Opens(d, seen[d])'
    BY <2>4, <2>6, <2>7 DEF Opens
  <2> QED
    BY <2>7, <2>8 DEF Ready
<1>9. CASE Clear(d)
  <2>1. store'[d].container = None /\ pc'[d] = "clear_device"
    BY <1>9 DEF Clear, TypeOK
  <2> QED
    BY <2>1 DEF Ready
<1> QED
  BY <1>2, <1>3, <1>4, <1>5, <1>6, <1>7, <1>8, <1>9
     DEF Step, Continue, DropsSlot

\* Another device's step changes neither the slot nor what it opens.
LEMMA OthersReady ==
  ASSUME Typed, NEW d \in Device, Step(d), NEW e \in Device \ {d}, Ready(e)
  PROVE  Ready(e)'
<1>1. Widens /\ OthersKeep(d)
  BY StepWidens, StepKeepsOthers
<1>2. pc'[e] = pc[e] /\ seen'[e] = seen[e] /\ store'[e] = store[e]
  BY <1>1 DEF OthersKeep
<1>3. pc[e] \in {"pull_persist", "adopt_persist"} => seen[e] \in Hashes
  BY DEF Typed, TypeOK, CallsHoldTheirData
<1>4. \A h \in Hashes : Opens(e, h)' = Opens(e, h)
  BY <1>1, <1>2, OpensStable
<1>5. seen[e] \in Hashes => (Opens(e, seen[e])' <=> Opens(e, seen[e]))
  BY <1>1, <1>2 DEF Opens, Widens
<1> QED
  BY <1>2, <1>3, <1>5 DEF Ready

\* Under all faults: a call cut short leaves nothing half decided behind.
LEMMA AlwaysReady == Spec => []AllReady
<1>1. Init => AllReady
  BY DEF Init, AllReady, Ready
<1>2. Typed /\ AllReady /\ [Next]_vars => AllReady'
  <2> SUFFICES ASSUME Typed, AllReady, [Next]_vars PROVE AllReady'
    OBVIOUS
  <2>1. CASE UNCHANGED vars
    BY <2>1 DEF vars, AllReady, Ready, Opens
  <2>2. ASSUME NEW d \in Device, Step(d) PROVE AllReady'
    BY <2>2, StepReady, OthersReady DEF AllReady
  <2> QED
    BY <2>1, <2>2 DEF Next, Step
<1> QED
  BY <1>1, <1>2, AlwaysTyped, PTL DEF Spec

\* The container a step stores opens, or the step has an excuse.
LEMMA StepOpens ==
  ASSUME Typed, NEW d \in Device, Ready(d), Step(d),
         store'[d].container \notin {None, store[d].container}
  PROVE  \/ store'[d].slot \in sealed'[store'[d].container].slots
         \/ RemoveDevice(d, store[d].slot)
         \/ /\ vault[d] # None /\ ~Opens(d, vault[d])
            /\ pc[d] \in {"idle", "push_put", "push_resolve"}
<1> USE DEF Typed
<1>1. CASE Edit(d)
  <2>1. ~CommitFails(d)
    BY DEF CommitFails
  <2>2. PICK S \in SUBSET sealed[vault[d]].slots :
          \E ps \in Seq(Under(S)), push \in BOOLEAN :
            /\ Commit(d, ps, push)
            /\ \/ RemoveDevice(d, store[d].slot)
               \/ Opens(d, vault[d]) => store[d].slot \in S
    BY <1>1, <2>1, EditSlots
  <2>3. PICK ps \in Seq(Under(S)), push \in BOOLEAN :
            /\ Commit(d, ps, push)
            /\ \/ RemoveDevice(d, store[d].slot)
               \/ Opens(d, vault[d]) => store[d].slot \in S
    BY <2>2
  <2>4. /\ vault[d] \in Hashes /\ vault[d] # None /\ pc[d] = "idle"
        /\ store'[d].slot = store[d].slot
    BY <2>3, StoreAt DEF Commit, IsOpen, TypeOK
  <2>5. CASE Opens(d, vault[d]) /\ store[d].slot \in S
    <3>1. CASE ps = <<>>
      <4>1. store'[d].container = vault[d]
        BY <2>3, <3>1, MovesAt DEF Commit
      <4>2. sealed'[vault[d]] = sealed[vault[d]]
        BY <2>4, StepWidens DEF Widens
      <4> QED
        BY <2>4, <2>5, <4>1, <4>2 DEF Opens
    <3>2. CASE ps # <<>>
      <4>1. sealed'[store'[d].container].slots = S
        BY <2>3, <3>2, CommitSlots
      <4> QED
        BY <2>4, <2>5, <4>1
    <3> QED
      BY <3>1, <3>2
  <2> QED
    BY <2>3, <2>4, <2>5
<1>2. CASE PullPersist(d) \/ AdoptPersist(d)
  <2>1. /\ UNCHANGED sealed /\ Persist(d, seen[d]) /\ Opens(d, seen[d])
    BY <1>2 DEF PullPersist, AdoptPersist, Ready
  <2>2. store'[d].slot = store[d].slot /\ store'[d].container = seen[d]
    BY <2>1, StoreAt, MovesAt
  <2> QED
    BY <2>1, <2>2 DEF Opens
<1>3. ASSUME NEW g \in Generation, sealed' = Append(sealed, g),
             Persist(d, NewHash), store[d].slot \in g.slots
      PROVE  store'[d].slot \in sealed'[store'[d].container].slots
  <2>1. PICK n : n = NewHash
    OBVIOUS
  <2>2. /\ sealed'[n] = g /\ store'[d].slot = store[d].slot
        /\ store'[d].container = n
    BY <1>3, <2>1, SealOne, StoreAt, MovesAt
  <2> QED
    BY <1>3, <2>2
<1>4. CASE PullMerge(d) \/ PushMerge(d)
  <2>1. /\ seen[d] \in Hashes /\ vault[d] \in Hashes
        /\ Opens(d, seen[d]) /\ Persist(d, NewHash)
    BY <1>4 DEF PullMerge, PushMerge, Differs, CallsHoldTheirData, TypeOK
  <2>2. PICK S \in MergedSlots(seen[d], vault[d]) :
          sealed' = Append(sealed, Merged(seen[d], vault[d], S))
    BY <1>4 DEF PullMerge, PushMerge
  <2> DEFINE g == Merged(seen[d], vault[d], S)
  <2>3. g \in Generation
    BY <2>1, MergedType
  <2>4. store[d].slot \in g.slots
    BY <2>1, <2>2 DEF Merged, Child, MergedSlots, Opens
  <2>5. sealed' = Append(sealed, g)
    BY <2>2
  <2> HIDE DEF g
  <2> QED
    BY <1>3, <2>1, <2>3, <2>4, <2>5
<1>5. ASSUME NEW n \in Nat \ {0}, NEW p \in Hashes \cup {None},
             Rechain(d, n, p), pc[d] \in {"push_put", "push_resolve"},
             Opens(d, vault[d])
      PROVE  store'[d].slot \in sealed'[store'[d].container].slots
  <2>1. /\ vault[d] \in Hashes /\ p \in Nat /\ sealed[vault[d]] \in Generation
    BY <1>5 DEF CallsHoldTheirData, TypeOK, Hashes, None
  <2> DEFINE g == Rechained(vault[d], n, p)
  <2>2. g \in Generation
    BY <2>1, RechainedType
  <2>3. store[d].slot \in g.slots
    BY <1>5, <2>1 DEF Rechained, Generation, Opens
  <2>4. sealed' = Append(sealed, g) /\ Persist(d, NewHash)
    BY <1>5 DEF Rechain
  <2> HIDE DEF g
  <2> QED
    BY <1>3, <2>2, <2>3, <2>4
<1>6. CASE PushRestart(d)
  <2>1. pc[d] = "push_put" /\ vault[d] # None /\ Rechain(d, 1, None)
    BY <1>6 DEF PushRestart, Offering, CallsHoldTheirData
  <2> QED
    BY <1>5, <2>1
<1>7. CASE PushRechain(d)
  <2>1. /\ seen[d] \in Hashes /\ sealed[seen[d]] \in Generation
        /\ pc[d] = "push_resolve" /\ vault[d] # None
        /\ Rechain(d, sealed[seen[d]].gen + 1, seen[d])
    BY <1>7 DEF PushRechain, CallsHoldTheirData, TypeOK, Hashes
  <2>2. sealed[seen[d]].gen + 1 \in Nat \ {0}
    BY <2>1 DEF Generation
  <2> QED
    BY <1>5, <2>1, <2>2
<1>8. CASE Clear(d) \/ AdoptWrite(d) \/ ClearSynced(d)
  <2>1. store'[d].container \in {None, store[d].container}
    BY <1>8 DEF Clear, AdoptWrite, SealSlot, ClearSynced, TypeOK
  <2> QED
    BY <2>1
<1>9. CASE DropsSlot(d)
  BY <1>9, DropSlotAt
<1>10. CASE PullSame(d) \/ PullFastForward(d) \/ PushSynced(d)
  BY <1>10, MovesAt DEF PullSame, PullFastForward, PushSynced
<1>11. CASE \/ Open(d) \/ Push(d) \/ AdoptRead(d) \/ PullRefused(d)
            \/ PushNothing(d) \/ PushAccepted(d) \/ PushConflict(d)
            \/ PushRead(d) \/ PushRefused(d) \/ Disturb(d)
            \/ \E sync \in BOOLEAN : PullRead(d, sync)
  BY <1>11 DEF Open, Push, AdoptRead, PullRead, PullRefused, PushNothing,
               PushAccepted, PushConflict, PushRead, PushRefused, Disturb,
               HostCallFails, AnswerLost, StoreWriteFails, Crash
<1> QED
  BY <1>1, <1>2, <1>4, <1>6, <1>7, <1>8, <1>9, <1>10, <1>11
     DEF Step, Continue, DropsSlot

\* Under all faults: no call takes a device's vault away from it. What a call
\* stores, the slot stored beside it opens, unless the call removes the device
\* itself or goes on from an open vault that the slot no longer opens.
THEOREM StoredOpens == Spec => StoredVaultOpens
<1>1. Typed /\ AllReady /\ [Next]_vars =>
        [\A d \in Device :
           LET c == store'[d].container
               lost == vault[d] # None /\ ~Opens(d, vault[d])
           IN c \notin {None, store[d].container}
                => \/ store'[d].slot \in sealed'[c].slots
                   \/ RemoveDevice(d, store[d].slot)
                   \/ lost /\ pc[d] \in {"idle", "push_put",
                                         "push_resolve"}]_vars
  <2> SUFFICES ASSUME Typed, AllReady, [Next]_vars, NEW e \in Device,
                      store'[e].container \notin {None, store[e].container},
                      ~UNCHANGED vars
               PROVE  \/ store'[e].slot \in sealed'[store'[e].container].slots
                      \/ RemoveDevice(e, store[e].slot)
                      \/ /\ vault[e] # None /\ ~Opens(e, vault[e])
                         /\ pc[e] \in {"idle", "push_put", "push_resolve"}
    OBVIOUS
  <2>1. PICK d \in Device : Step(d)
    BY DEF Next, Step
  <2>2. e = d
    BY <2>1, StepKeepsOthers DEF OthersKeep
  <2> QED
    BY <2>1, <2>2, StepOpens DEF AllReady
<1> QED
  BY <1>1, AlwaysTyped, AlwaysReady, PTL DEF Spec, StoredVaultOpens

-----------------------------------------------------------------------------
(* A removed device cannot write.                                          *)

Slots(h) == IF h = None THEN {} ELSE sealed[h].slots

\* The slots in the generations the device of d has at hand.
AtHand(d) == Slots(vault[d]) \cup Slots(store[d].container) \cup Slots(seen[d])

\* Slots go by generations that were sealed.
SlotsAreSealed == \A h \in Hashes : sealed[h].slots \subseteq Hashes

\* What a step makes the device name was at hand, is the current record, or is
\* sealed by the step.
LEMMA StepNames ==
  ASSUME Typed, NEW d \in Device, Step(d)
  PROVE  {vault'[d], store'[d].container, seen'[d]}
           \subseteq {vault[d], store[d].container, seen[d], CurrentRecord, None}
                       \cup (Hashes' \ Hashes)
<1> USE DEF Typed
<1> DEFINE old == {vault[d], store[d].container, seen[d], CurrentRecord, None}
           all == old \cup (Hashes' \ Hashes)
<1>2. /\ \A p : Goto(d, p) => seen'[d] \in {seen[d], None}
      /\ PullReturns(d) \/ NextAttempt(d) => seen'[d] \in {seen[d], None}
  <2>1. \A p : Goto(d, p) => seen'[d] \in {seen[d], None}
    BY DEF Goto, local, TypeOK
  <2> QED
    BY <2>1, MovesSeen
<1>3. ASSUME NEW h \in all, Persist(d, h), seen'[d] \in {seen[d], None}
      PROVE  {vault'[d], store'[d].container, seen'[d]} \subseteq all
  BY <1>3, MovesAt
<1>4. CASE Edit(d)
  <2>1. CASE CommitFails(d)
    BY <2>1 DEF CommitFails, local, TypeOK
  <2>2. ASSUME NEW ps \in Seq(Payloads), NEW push \in BOOLEAN,
               Commit(d, ps, push)
        PROVE  {vault'[d], store'[d].container, seen'[d]} \subseteq all
    <3>1. seen' = seen
      BY <2>2 DEF Commit, local
    <3>2. PICK new : new = IF ps = <<>> THEN vault[d]
                                        ELSE Len(sealed) + Len(ps)
      OBVIOUS
    <3>3. new \in all
      <4>1. CASE ps = <<>>
        BY <3>2, <4>1
      <4>2. CASE ps # <<>>
        <5>1. vault[d] \in Hashes
          BY <2>2 DEF Commit, IsOpen, TypeOK
        <5>2. /\ Chain(vault[d], ps) \in Seq(Generation)
              /\ Len(Chain(vault[d], ps)) = Len(ps)
          BY <5>1, ChainType
        <5>3. Len(sealed') = Len(sealed) + Len(ps)
          BY <2>2, <5>2, SealMore DEF Commit
        <5>4. Len(ps) > 0 /\ Len(ps) \in Nat /\ Len(sealed) \in Nat
          BY <4>2 DEF TypeOK
        <5>5. new \in Hashes' \ Hashes
          BY <3>2, <4>2, <5>3, <5>4 DEF Hashes
        <5> QED
          BY <5>5
      <4> QED
        BY <4>1, <4>2
    <3>4. Persist(d, new)
      BY <2>2, <3>2 DEF Commit
    <3> QED
      BY <1>3, <3>1, <3>3, <3>4
  <2> QED
    BY <1>4, <2>1, <2>2, EditCommits
<1>5. CASE \/ Open(d) \/ Push(d) \/ Clear(d)
           \/ \E sync \in BOOLEAN : PullRead(d, sync)
  BY <1>5 DEF Open, Push, Clear, PullRead, Offer, local, TypeOK
<1>6. CASE AdoptRead(d) \/ PushRead(d)
  BY <1>6 DEF AdoptRead, PushRead, TypeOK
<1>7. CASE \/ PullRefused(d) \/ PushNothing(d) \/ PushAccepted(d)
           \/ PushConflict(d) \/ PushRefused(d) \/ Disturb(d)
  <2>1. UNCHANGED store /\ vault'[d] \in {vault[d], None}
    BY <1>7 DEF PullRefused, PushNothing, PushAccepted, PushConflict,
                PushRefused, Disturb, HostCallFails, AnswerLost,
                StoreWriteFails, Crash, TypeOK
  <2>2. \E p \in PC : Goto(d, p)
    BY <1>7 DEF PullRefused, PushNothing, PushAccepted, PushConflict,
                PushRefused, Disturb, HostCallFails, AnswerLost,
                StoreWriteFails, Crash, PC
  <2> QED
    BY <1>2, <2>1, <2>2
<1>8. CASE PullSame(d) \/ PullFastForward(d) \/ PushSynced(d)
  <2>1. vault' = vault /\ store'[d].container = store[d].container
    BY <1>8, MovesAt DEF PullSame, PullFastForward, PushSynced
  <2>2. seen'[d] \in {seen[d], None}
    BY <1>2, <1>8 DEF PullSame, PullFastForward, PushSynced
  <2> QED
    BY <2>1, <2>2
<1>9. CASE PullPersist(d) \/ AdoptPersist(d)
  <2>1. Persist(d, seen[d]) /\ seen'[d] \in {seen[d], None}
    BY <1>2, <1>9 DEF PullPersist, AdoptPersist
  <2> QED
    BY <1>3, <2>1
<1>10. CASE \/ PullMerge(d) \/ PushMerge(d) \/ PushRestart(d)
            \/ PushRechain(d)
  <2>1. Persist(d, NewHash) /\ seen'[d] \in {seen[d], None}
    BY <1>2, <1>10 DEF PullMerge, PushMerge, PushRestart, PushRechain, Rechain
  <2>2. \E g : sealed' = Append(sealed, g)
    BY <1>10 DEF PullMerge, PushMerge, PushRestart, PushRechain, Rechain
  <2>3. NewHash \in Hashes' \ Hashes
    BY <2>2 DEF TypeOK, Hashes, NewHash
  <2> QED
    BY <1>3, <2>1, <2>3
<1>11. CASE AdoptWrite(d)
  <2>1. /\ vault' = vault /\ store'[d].container = store[d].container
        /\ seen'[d] = NewHash /\ \E g : sealed' = Append(sealed, g)
    BY <1>11 DEF AdoptWrite, SealSlot, TypeOK
  <2>2. NewHash \in Hashes' \ Hashes
    BY <2>1 DEF TypeOK, Hashes, NewHash
  <2> QED
    BY <2>1, <2>2
<1>12. CASE ClearSynced(d)
  <2>1. /\ vault'[d] = None /\ store'[d].container = store[d].container
        /\ seen'[d] \in {seen[d], None}
    BY <1>2, <1>12 DEF ClearSynced, TypeOK
  <2> QED
    BY <2>1
<1>13. CASE DropsSlot(d)
  BY <1>13, DropSlotAt
<1> QED
  BY <1>4, <1>5, <1>6, <1>7, <1>8, <1>9, <1>10, <1>11, <1>12, <1>13
     DEF Step, Continue, DropsSlot

\* What a step seals has no slots but those at hand and, in an adoption, one
\* that is new.
LEMMA StepSeals ==
  ASSUME Typed, NEW d \in Device, Step(d), NEW n \in Hashes' \ Hashes
  PROVE  sealed'[n].slots \subseteq AtHand(d) \cup {NewHash}
<1> USE DEF Typed
<1>1. ASSUME NEW g \in Generation, sealed' = Append(sealed, g),
             g.slots \subseteq AtHand(d) \cup {NewHash}
      PROVE  sealed'[n].slots \subseteq AtHand(d) \cup {NewHash}
  <2>1. n = NewHash
    BY <1>1, SealOne
  <2> QED
    BY <1>1, <2>1, SealOne
<1>2. CASE Edit(d)
  <2>1. CASE CommitFails(d)
    BY <2>1 DEF CommitFails, Hashes
  <2>2. ASSUME NEW S \in SUBSET sealed[vault[d]].slots,
               NEW ps \in Seq(Under(S)), NEW push \in BOOLEAN,
               Commit(d, ps, push)
        PROVE  sealed'[n].slots \subseteq AtHand(d) \cup {NewHash}
    <3> DEFINE c == Chain(vault[d], ps)
               L == Len(sealed)
    <3>1. vault[d] \in Hashes /\ vault[d] # None /\ ps \in Seq(Payloads)
      BY <2>2 DEF Commit, IsOpen, TypeOK, Under
    <3>2. c \in Seq(Generation) /\ Len(c) = Len(ps)
      BY <3>1, ChainType
    <3>3. /\ sealed' = sealed \o c /\ Len(sealed') = L + Len(ps)
          /\ L \in Nat /\ Len(ps) \in Nat
      BY <2>2, <3>2, SealMore DEF Commit, TypeOK
    <3>4. n \in L + 1 .. L + Len(ps)
      BY <3>3 DEF Hashes
    <3>5. PICK i \in 1 .. Len(ps) : n = L + i
      <4>1. n - L \in 1 .. Len(ps) /\ n = L + (n - L)
        BY <3>3, <3>4
      <4> QED
        BY <4>1
    <3>6. c[i].slots = ps[i].slots
      BY DEF Chain
    <3>7. sealed'[n] = c[i]
      <4> HIDE DEF c
      <4> QED
        BY <3>2, <3>3, <3>5 DEF TypeOK
    <3>8. ps[i].slots \subseteq Slots(vault[d])
      <4>1. ps[i] \in Under(S)
        OBVIOUS
      <4> QED
        BY <3>1, <4>1 DEF Under, Slots
    <3> QED
      BY <3>6, <3>7, <3>8 DEF AtHand
  <2> QED
    BY <1>2, <2>1, <2>2, EditSlots
<1>3. CASE PullMerge(d) \/ PushMerge(d)
  <2>1. /\ seen[d] \in Hashes /\ vault[d] \in Hashes
        /\ seen[d] # None /\ vault[d] # None
    BY <1>3 DEF PullMerge, PushMerge, Differs, CallsHoldTheirData, TypeOK
  <2>2. PICK S \in MergedSlots(seen[d], vault[d]) :
          sealed' = Append(sealed, Merged(seen[d], vault[d], S))
    BY <1>3 DEF PullMerge, PushMerge
  <2>3. Merged(seen[d], vault[d], S).slots \subseteq AtHand(d)
    BY <2>1 DEF Merged, Child, MergedSlots, AtHand, Slots
  <2> QED
    BY <1>1, <2>1, <2>2, <2>3, MergedType
<1>4. ASSUME NEW m \in Nat \ {0}, NEW p \in Hashes \cup {None},
             Rechain(d, m, p), pc[d] \in {"push_put", "push_resolve"}
      PROVE  sealed'[n].slots \subseteq AtHand(d) \cup {NewHash}
  <2>1. /\ vault[d] \in Hashes /\ vault[d] # None /\ p \in Nat
        /\ sealed[vault[d]] \in Generation
    BY <1>4 DEF CallsHoldTheirData, TypeOK, Hashes, None
  <2>2. Rechained(vault[d], m, p).slots \subseteq AtHand(d)
    BY <2>1 DEF Rechained, Generation, AtHand, Slots
  <2> QED
    BY <1>1, <1>4, <2>1, <2>2, RechainedType DEF Rechain
<1>5. CASE PushRestart(d)
  BY <1>4, <1>5 DEF PushRestart, Offering
<1>6. CASE PushRechain(d)
  <2>1. seen[d] \in Hashes /\ sealed[seen[d]] \in Generation
    BY <1>6 DEF PushRechain, CallsHoldTheirData, TypeOK, Hashes
  <2>2. sealed[seen[d]].gen + 1 \in Nat \ {0}
    BY <2>1 DEF Generation
  <2> QED
    BY <1>4, <1>6, <2>1, <2>2 DEF PushRechain
<1>7. CASE AdoptWrite(d)
  <2>1. seen[d] \in Hashes /\ seen[d] # None /\ sealed[seen[d]] \in Generation
    BY <1>7 DEF AdoptWrite, CallsHoldTheirData, TypeOK, Hashes
  <2> DEFINE g == Child(seen[d], Facts(seen[d]), sealed[seen[d]].meta,
                        sealed[seen[d]].slots \cup {NewHash})
  <2>2. /\ Facts(seen[d]) \in SUBSET Fact
        /\ sealed[seen[d]].meta \in [Key -> Nat]
        /\ sealed[seen[d]].slots \cup {NewHash} \in SUBSET Nat
    BY <2>1 DEF Generation, Facts, NewHash, TypeOK
  <2>3. g \in Generation
    BY <2>1, <2>2, ChildType
  <2>4. g.slots \subseteq AtHand(d) \cup {NewHash}
    BY <2>1 DEF Child, AtHand, Slots
  <2>5. sealed' = Append(sealed, g)
    BY <1>7 DEF AdoptWrite, SealSlot
  <2> HIDE DEF g
  <2> QED
    BY <1>1, <2>3, <2>4, <2>5
<1>8. ASSUME UNCHANGED sealed PROVE FALSE
  BY <1>8 DEF Hashes
<1> QED
  BY <1>2, <1>3, <1>5, <1>6, <1>7, <1>8
     DEF Step, Continue, Disturb, Open, Push, AdoptRead, Clear, PullRead,
         PullSame, PullRefused, PullFastForward, PullPersist,
         PushNothing, PushAccepted, PushSynced, PushConflict, PushRead,
         PushRefused, AdoptPersist, AdoptKey, ClearDevice, ClearSynced,
         HostCallFails, AnswerLost,
         StoreWriteFails, Crash

\* The slots at hand after a step.
LEMMA StepAtHand ==
  ASSUME Typed, NEW d \in Device, Step(d)
  PROVE  AtHand(d)' \subseteq AtHand(d) \cup Slots(CurrentRecord) \cup {NewHash}
<1> USE DEF Typed
<1> DEFINE all == AtHand(d) \cup Slots(CurrentRecord) \cup {NewHash}
<1>1. ASSUME NEW h \in {vault'[d], store'[d].container, seen'[d]}, h # None
      PROVE  sealed'[h].slots \subseteq all
  <2>1. CASE h \in {vault[d], store[d].container, seen[d], CurrentRecord}
    <3>1. h \in Hashes
      BY <1>1, <2>1, CurrentRecordType DEF TypeOK
    <3>2. sealed'[h] = sealed[h]
      BY <3>1, StepWidens DEF Widens
    <3> QED
      BY <1>1, <2>1, <3>2 DEF AtHand, Slots
  <2>2. CASE h \in Hashes' \ Hashes
    BY <2>2, StepSeals
  <2> QED
    BY <1>1, <2>1, <2>2, StepNames
<1> QED
  BY <1>1 DEF AtHand, Slots

\* Another device has at hand what it had.
LEMMA OthersAtHand ==
  ASSUME Typed, NEW d \in Device, Step(d), NEW e \in Device \ {d}
  PROVE  AtHand(e)' = AtHand(e)
<1>1. /\ vault'[e] = vault[e] /\ store'[e] = store[e] /\ seen'[e] = seen[e]
  BY StepKeepsOthers DEF OthersKeep
<1>2. \A h \in Hashes : sealed'[h] = sealed[h]
  BY StepWidens DEF Widens
<1>3. /\ vault[e] \in Hashes \cup {None}
      /\ store[e].container \in Hashes \cup {None}
      /\ seen[e] \in Hashes \cup {None}
  BY DEF Typed, TypeOK
<1>4. \A h \in Hashes \cup {None} : h = None \/ sealed'[h].slots = sealed[h].slots
  BY <1>2
<1> QED
  BY <1>1, <1>3, <1>4 DEF AtHand, Slots

\* Slots stay names of sealed generations.
LEMMA StepSlotsAreSealed ==
  ASSUME Typed, SlotsAreSealed, NEW d \in Device, Step(d)
  PROVE  SlotsAreSealed' /\ AtHand(d) \subseteq Hashes
<1> USE DEF Typed
<1>1. AtHand(d) \subseteq Hashes
  BY DEF SlotsAreSealed, AtHand, Slots, TypeOK
<1>2. Widens
  BY StepWidens
<1>3. ASSUME NEW h \in Hashes' PROVE sealed'[h].slots \subseteq Hashes'
  <2>1. CASE h \in Hashes
    BY <1>2, <2>1 DEF Widens, SlotsAreSealed
  <2>2. CASE h \notin Hashes
    <3>1. NewHash \in Hashes'
      <4>1. Len(sealed) \in Nat /\ Len(sealed') \in Nat
        BY NextType DEF TypeOK, Next, Step
      <4> QED
        BY <2>2, <4>1 DEF Hashes, NewHash
    <3> QED
      BY <1>1, <1>2, <2>2, <3>1, StepSeals DEF Widens
  <2> QED
    BY <2>1, <2>2
<1> QED
  BY <1>1, <1>3 DEF SlotsAreSealed

\* A step leaves the records alone, or has the host take the vault a push
\* offers.
LEMMA StepAppends ==
  ASSUME Typed, NEW d \in Device, Step(d)
  PROVE  \/ UNCHANGED records
         \/ /\ pc[d] = "push_put" /\ vault[d] \in Hashes
            /\ Extends(vault[d])
            /\ records' = Append(records, vault[d])
            /\ UNCHANGED <<sealed, store, vault>>
            /\ pc'[d] \in {"push_synced", "idle"}
<1> USE DEF Typed
<1>1. CASE PushAccepted(d) \/ AnswerLost(d)
  <2>1. /\ vault[d] \in Hashes /\ HostAccepts(vault[d])
        /\ pc[d] = "push_put" /\ UNCHANGED <<sealed, store, vault>>
    BY <1>1 DEF PushAccepted, AnswerLost, Offering, CallsHoldTheirData,
                TypeOK
  <2>2. pc'[d] \in {"push_synced", "idle"}
    BY <1>1, MovesAt DEF PushAccepted, AnswerLost
  <2> QED
    BY <2>1, <2>2 DEF HostAccepts
<1>2. CASE Edit(d)
  BY <1>2, EditCommits DEF Commit, CommitFails
<1>3. UNCHANGED records \/ PushAccepted(d) \/ AnswerLost(d) \/ Edit(d)
  BY DEF Step, Continue, Disturb, Open, Push, AdoptRead, Clear, PullRead,
         PullSame, PullRefused, PullFastForward, PullPersist, PullMerge,
         PushNothing, PushSynced, PushRestart, PushConflict, PushRead,
         PushRechain, PushRefused, PushMerge, Rechain, AdoptWrite,
         AdoptPersist, AdoptKey, ClearDevice, ClearSynced, HostCallFails,
         StoreWriteFails, Crash
<1> QED
  BY <1>1, <1>2, <1>3

\* Every record is the child of the one before it.
Chained ==
  \A g \in DOMAIN records :
    sealed[records[g]].prev = IF g = 1 THEN None ELSE records[g - 1]

\* A record that another one follows.
Buried(h) == \E g \in DOMAIN records : g < Len(records) /\ records[g] = h

\* What the host takes goes on top of what it has.
LEMMA StepChained ==
  ASSUME Typed, Chained, NEW d \in Device, Step(d)
  PROVE  /\ Chained'
         /\ \A h : Buried(h) => Buried(h)'
<1> USE DEF Typed
<1>1. \A g \in DOMAIN records : records[g] \in Hashes
  BY DEF TypeOK
<1>2. \A h \in Hashes : sealed'[h] = sealed[h]
  BY StepWidens DEF Widens
<1>3. CASE UNCHANGED records
  BY <1>1, <1>2, <1>3 DEF Chained, Buried
<1>4. ASSUME UNCHANGED sealed, vault[d] \in Hashes, Extends(vault[d]),
             records' = Append(records, vault[d])
      PROVE  Chained' /\ \A h : Buried(h) => Buried(h)'
  <2> DEFINE N == Len(records)
  <2>1. /\ N \in Nat /\ DOMAIN records = 1 .. N
        /\ Len(records') = N + 1 /\ DOMAIN records' = 1 .. N + 1
        /\ \A g \in 1 .. N : records'[g] = records[g]
        /\ records'[N + 1] = vault[d]
    BY <1>4 DEF TypeOK
  <2>2. \A h : Buried(h) => Buried(h)'
    BY <2>1 DEF Buried
  <2>3. ASSUME NEW g \in 1 .. N + 1
        PROVE  sealed'[records'[g]].prev
                 = IF g = 1 THEN None ELSE records'[g - 1]
    <3>1. CASE g \in 1 .. N
      BY <1>4, <2>1, <3>1 DEF Chained
    <3>2. CASE g = N + 1
      <4>1. sealed[vault[d]].prev = CurrentRecord
        BY <1>4 DEF Extends
      <4>2. CurrentRecord = IF g = 1 THEN None ELSE records'[g - 1]
        <5>1. records = <<>> <=> N = 0
          BY DEF TypeOK
        <5> QED
          BY <2>1, <3>2, <5>1 DEF CurrentRecord
      <4> QED
        BY <1>4, <2>1, <3>2, <4>1, <4>2
    <3> QED
      BY <2>1, <3>1, <3>2
  <2> QED
    BY <2>1, <2>2, <2>3 DEF Chained
<1> QED
  BY <1>3, <1>4, StepAppends

\* The slot of a device that was never in a record is at hand nowhere else.
Private(d) ==
  store[d].slot # None /\ ~WasMember(d)
    => \A e \in Device \ {d} : store[d].slot \notin AtHand(e)

AllPrivate == \A d \in Device : Private(d)

\* The records only grow, so that a member stays one,
LEMMA MemberStays ==
  ASSUME Typed, NEW d \in Device, Step(d), NEW e \in Device,
         store'[e].slot = store[e].slot, WasMember(e)
  PROVE  WasMember(e)'
<1> USE DEF Typed
<1>1. PICK g \in DOMAIN records : store[e].slot \in sealed[records[g]].slots
  BY DEF WasMember, Opens
<1>2. PICK h \in Hashes : h = records[g]
  BY DEF TypeOK
<1>3. InRecords(h)'
  BY <1>2, StepKeepsRecords DEF InRecords
<1>4. sealed'[h] = sealed[h]
  BY StepWidens DEF Widens
<1> QED
  BY <1>1, <1>2, <1>3, <1>4 DEF WasMember, Opens, InRecords

\* and only its own push can make a device one.
LEMMA MemberByOwnPush ==
  ASSUME Typed, SlotsAreSealed, NEW d \in Device, Step(d), NEW e \in Device,
         store'[e].slot = store[e].slot, WasMember(e)', ~WasMember(e),
         UNCHANGED records \/ (e # d /\ Private(e))
  PROVE  FALSE
<1> USE DEF Typed
<1>1. /\ \A h \in Hashes : sealed'[h] = sealed[h]
      /\ \A g \in DOMAIN records : records[g] \in Hashes
  BY StepWidens DEF Widens, TypeOK
<1>2. CASE UNCHANGED records
  BY <1>1, <1>2 DEF WasMember, Opens
<1>3. CASE /\ e # d /\ Private(e) /\ vault[d] \in Hashes
           /\ records' = Append(records, vault[d])
  <2>1. PICK g \in DOMAIN records' :
          store[e].slot \in sealed'[records'[g]].slots
    BY DEF WasMember, Opens
  <2>2. \/ g \in DOMAIN records /\ records'[g] = records[g]
        \/ records'[g] = vault[d]
    BY <1>3, <2>1 DEF TypeOK
  <2>3. records'[g] = vault[d]
    BY <1>1, <2>1, <2>2 DEF WasMember, Opens
  <2>4. store[e].slot \in sealed[vault[d]].slots
    BY <1>1, <1>3, <2>1, <2>3
  <2>5. vault[d] # None /\ store[e].slot # None
    BY <1>3, <2>4 DEF SlotsAreSealed, Hashes, None
  <2> QED
    BY <1>3, <2>4, <2>5 DEF Private, AtHand, Slots
<1> QED
  BY <1>2, <1>3, StepAppends

\* The slot of a device stays, is that of the adoption under way, or goes.
LEMMA StepSlot ==
  ASSUME Typed, NEW d \in Device, Step(d)
  PROVE  \/ store'[d].slot = store[d].slot
         \/ AdoptWrite(d) /\ store'[d].slot = NewHash
         \/ DropsSlot(d) /\ store'[d].slot = None
<1> USE DEF Typed
<1>1. ASSUME NEW h, Persist(d, h) \/ MarkSynced(d, h)
      PROVE  store'[d].slot = store[d].slot
  BY <1>1 DEF Persist, MarkSynced, TypeOK
<1>2. CASE Edit(d)
  BY <1>1, <1>2, EditCommits DEF Commit, CommitFails
<1>3. CASE AdoptWrite(d)
  BY <1>3, StoreAt DEF AdoptWrite
<1>4. CASE DropsSlot(d)
  BY <1>4, DropSlotAt
<1>5. CASE Clear(d) \/ ClearSynced(d)
  BY <1>5 DEF Clear, ClearSynced, TypeOK
<1>6. CASE \/ PullSame(d) \/ PullFastForward(d) \/ PushSynced(d)
           \/ PullPersist(d) \/ PullMerge(d) \/ PushRestart(d)
           \/ PushRechain(d) \/ PushMerge(d) \/ AdoptPersist(d)
  BY <1>1, <1>6 DEF PullSame, PullFastForward, PushSynced, PullPersist,
                    PullMerge, PushRestart, PushRechain, PushMerge, Rechain,
                    AdoptPersist
<1>7. CASE \/ Open(d) \/ Push(d) \/ AdoptRead(d) \/ PullRefused(d)
           \/ PushNothing(d) \/ PushAccepted(d) \/ PushConflict(d)
           \/ PushRead(d) \/ PushRefused(d) \/ Disturb(d)
           \/ \E sync \in BOOLEAN : PullRead(d, sync)
  BY <1>7 DEF Open, Push, AdoptRead, PullRead, PullRefused, PushNothing,
              PushAccepted, PushConflict, PushRead, PushRefused, Disturb,
              HostCallFails, AnswerLost, StoreWriteFails, Crash
<1> QED
  BY <1>2, <1>3, <1>4, <1>5, <1>6, <1>7 DEF Step, Continue, DropsSlot

\* No step hands a slot on before it is in a record.
LEMMA StepPrivate ==
  ASSUME Typed, SlotsAreSealed, AllPrivate, NEW d \in Device, Step(d),
         NEW e \in Device
  PROVE  Private(e)'
<1> USE DEF Typed
<1>1. AtHand(d) \subseteq Hashes /\ \A f \in Device : AtHand(f) \subseteq Hashes
  BY DEF SlotsAreSealed, AtHand, Slots, TypeOK
<1>2. NewHash \notin Hashes
  BY DEF TypeOK, Hashes, NewHash
<1>3. CASE store'[e].slot = store[e].slot
  <2> SUFFICES ASSUME store[e].slot # None, ~WasMember(e)',
                      NEW f \in Device \ {e}
               PROVE  store[e].slot \notin AtHand(f)'
    BY <1>3 DEF Private
  <2>1. ~WasMember(e) /\ store[e].slot \notin AtHand(f)
    BY <1>3, MemberStays DEF AllPrivate, Private
  <2>2. CASE f # d
    BY <2>1, <2>2, OthersAtHand
  <2>3. CASE f = d
    <3>1. store[e].slot \notin Slots(CurrentRecord)
      BY <2>1 DEF Slots, CurrentRecord, WasMember, Opens, TypeOK
    <3>2. store[e].slot # NewHash
      BY <1>2 DEF TypeOK
    <3> QED
      BY <2>1, <2>3, <3>1, <3>2, StepAtHand
  <2> QED
    BY <2>2, <2>3
<1>4. CASE store'[e].slot # store[e].slot
  <2>1. e = d
    BY <1>4, StepKeepsOthers DEF OthersKeep
  <2>2. store'[e].slot \in {NewHash, None}
    BY <1>4, <2>1, StepSlot
  <2> QED
    BY <1>1, <1>2, <2>1, <2>2, OthersAtHand DEF Private
<1> QED
  BY <1>3, <1>4

\* A parent that d may build on: it opens it, or was never a member, or the
\* host is past it, so that nothing on top of it can extend the head.
Behind(d, p) == p = None \/ Opens(d, p) \/ ~WasMember(d) \/ Buried(p)

\* The device goes by what it has noted as synced: its slot opens what it
\* stores, or it is about to store what its slot opens.
Relies(d) ==
  \/ store[d].container # None /\ Opens(d, store[d].container)
  \/ pc[d] \in {"pull_persist", "adopt_persist"}

\* A device stores nothing that it opens and could push onto a head it cannot
\* open, nor has it noted such a head as synced. (One that has removed itself
\* stores, and notes, what it does not open.)
Entitled(d) ==
  /\ store[d].container # None /\ Opens(d, store[d].container)
       => Behind(d, sealed[store[d].container].prev)
  /\ Relies(d) => Behind(d, store[d].synced)
  /\ pc[d] = "adopt_persist" => Behind(d, sealed[seen[d]].prev)

AllEntitled == \A d \in Device : Entitled(d)

\* While a record that was read is being applied, what the device has noted is
\* that record, or one the host is past.
Reading(d) ==
  pc[d] \in {"pull_apply", "push_resolve"}
    => \/ store[d].synced \in {None, seen[d]}
       \/ Buried(store[d].synced)

AllReading == \A d \in Device : Reading(d)

\* The record that is read is the last one, and what is noted is a record.
LEMMA StepReading ==
  ASSUME Typed, AllOnHost, Chained, NEW d \in Device, Step(d),
         NEW e \in Device, Reading(e)
  PROVE  Reading(e)'
<1> USE DEF Typed
<1>1. ASSUME e # d PROVE Reading(e)'
  <2>1. /\ pc'[e] = pc[e] /\ seen'[e] = seen[e] /\ store'[e] = store[e]
    BY <1>1, StepKeepsOthers DEF OthersKeep
  <2>2. Buried(store[e].synced) => Buried(store[e].synced)'
    BY <2>1, StepChained DEF Buried
  <2> QED
    BY <2>1, <2>2 DEF Reading
<1> SUFFICES Reading(d)'
  BY <1>1
<1>2. ASSUME pc'[d] \notin {"pull_apply", "push_resolve"} PROVE Reading(d)'
  BY <1>2 DEF Reading
<1>3. ASSUME seen'[d] = CurrentRecord, UNCHANGED <<records, store>>
      PROVE  Reading(d)'
  <2>1. PICK m : m = store[d].synced
    OBVIOUS
  <2>2. m \in {None, CurrentRecord} \/ Buried(m)
    <3>1. CASE m # None
      <4>1. PICK g \in DOMAIN records : records[g] = m
        BY <2>1, <3>1 DEF AllOnHost, OnHost, InRecords
      <4>2. g = Len(records) \/ g < Len(records)
        BY <4>1 DEF TypeOK
      <4> QED
        BY <4>1, <4>2 DEF Buried, CurrentRecord
    <3> QED
      BY <3>1
  <2>3. store'[d].synced = m
    BY <1>3, <2>1
  <2>4. Buried(m)' = Buried(m)
    BY <1>3 DEF Buried
  <2> QED
    BY <1>3, <2>2, <2>3, <2>4 DEF Reading, Buried
<1>4. CASE \E sync \in BOOLEAN : PullRead(d, sync)
  <2>1. \/ pc'[d] \in {"idle", "push_put"}
        \/ seen'[d] = CurrentRecord /\ UNCHANGED <<records, store>>
    BY <1>4, MovesAt DEF PullRead, IsOpen, TypeOK
  <2> QED
    BY <1>2, <1>3, <2>1
<1>5. CASE PushRead(d)
  BY <1>3, <1>5 DEF PushRead, TypeOK
<1>6. CASE Edit(d)
  <2>1. pc'[d] \in {"idle", "push_put"}
    BY <1>6, EditCommits, MovesAt DEF Commit, CommitFails, IsOpen
  <2> QED
    BY <1>2, <2>1
<1>7. CASE \/ Open(d) \/ Push(d) \/ AdoptRead(d) \/ Clear(d) \/ PullRefused(d)
           \/ PullFastForward(d) \/ PushNothing(d) \/ PushAccepted(d)
           \/ PushConflict(d) \/ PushRefused(d) \/ PushSynced(d)
           \/ AdoptWrite(d) \/ AdoptPersist(d) \/ ClearSynced(d) \/ Disturb(d)
  <2>1. pc'[d] \notin {"pull_apply", "push_resolve"}
    BY <1>7, MovesAt
       DEF Open, Push, AdoptRead, Clear, PullRefused, PullFastForward,
           PushNothing, PushAccepted, PushConflict, PushRefused, PushSynced,
           AdoptWrite, AdoptPersist, ClearSynced, Disturb, HostCallFails,
           AnswerLost, StoreWriteFails, Crash, TypeOK
  <2> QED
    BY <1>2, <2>1
<1>8. CASE \/ PullSame(d) \/ PullPersist(d) \/ PullMerge(d)
           \/ PushMerge(d) \/ PushRestart(d) \/ PushRechain(d)
  <2>1. pc'[d] \in {"idle", "push_put"}
    BY <1>8, MovesAt DEF PullSame, PullPersist, PullMerge, PushMerge,
                         PushRestart, PushRechain, Rechain
  <2> QED
    BY <1>2, <2>1
<1>9. CASE DropsSlot(d)
  BY <1>2, <1>9, DropSlotAt
<1> QED
  BY <1>4, <1>5, <1>6, <1>7, <1>8, <1>9 DEF Step, Continue, DropsSlot

\* What was behind a device stays behind it while its slot stays.
LEMMA BehindStays ==
  ASSUME Typed, SlotsAreSealed, Chained, NEW d \in Device, Step(d),
         NEW e \in Device, store'[e].slot = store[e].slot,
         UNCHANGED records \/ (e # d /\ Private(e)),
         NEW p \in Hashes \cup {None}, Behind(e, p)
  PROVE  Behind(e, p)'
<1>1. CASE p = None
  BY <1>1 DEF Behind
<1>2. CASE p # None /\ Opens(e, p)
  BY <1>2, StepWidens, OpensStable DEF Behind
<1>3. CASE ~WasMember(e)
  <2>1. ~WasMember(e)'
    BY <1>3, MemberByOwnPush
  <2> QED
    BY <2>1 DEF Behind
<1>4. CASE Buried(p)
  <2>1. Buried(p)'
    BY <1>4, StepChained
  <2> QED
    BY <2>1 DEF Behind
<1> QED
  BY <1>1, <1>2, <1>3, <1>4 DEF Behind

\* A step that keeps the stored container and the slot, and notes as synced
\* what was noted, nothing, or what the device opens if it goes by it.
LEMMA SameEntitled ==
  ASSUME Typed, ChainGrows, SlotsAreSealed, Chained, NEW d \in Device, Step(d),
         NEW e \in Device, Entitled(e), store'[e].slot = store[e].slot,
         UNCHANGED records \/ (e # d /\ Private(e)),
         store'[e].container \in {store[e].container, None},
         \/ /\ store'[e].synced \in {store[e].synced, None}
            /\ pc'[e] = "pull_persist" => pc[e] = "pull_persist"
         \/ /\ store'[e].synced \in Hashes
            /\ Relies(e)' => Opens(e, store'[e].synced),
         pc'[e] = "adopt_persist" =>
           pc[e] = "adopt_persist" /\ seen'[e] = seen[e]
  PROVE  Entitled(e)'
<1> USE DEF Typed
<1>1. ASSUME NEW c \in Hashes, Behind(e, sealed[c].prev)
      PROVE  Behind(e, sealed[c].prev)'
  <2>1. PICK p \in Hashes \cup {None} : p = sealed[c].prev
    BY ParentType
  <2>2. sealed'[c].prev = p
    BY <2>1, StepWidens DEF Widens
  <2>3. Behind(e, p)'
    BY <1>1, <2>1, BehindStays
  <2> QED
    BY <2>1, <2>2, <2>3 DEF Behind, Opens, Buried
<1>2. store'[e].container # None /\ Opens(e, store[e].container)' =>
        /\ store[e].container # None /\ Opens(e, store[e].container)
        /\ Behind(e, sealed[store[e].container].prev)'
  <2> SUFFICES ASSUME store'[e].container # None,
                      Opens(e, store[e].container)'
               PROVE  /\ store[e].container # None
                      /\ Opens(e, store[e].container)
                      /\ Behind(e, sealed[store[e].container].prev)'
    OBVIOUS
  <2>1. PICK c \in Hashes : c = store[e].container /\ c = store'[e].container
    BY DEF TypeOK
  <2>2. c # None /\ Opens(e, c)
    BY <2>1, StepWidens DEF Widens, Opens, Hashes, None
  <2>3. Behind(e, sealed[c].prev)'
    BY <1>1, <2>1, <2>2 DEF Entitled
  <2> QED
    BY <2>1, <2>2, <2>3 DEF Behind, Opens, Buried
<1>3. Relies(e)' => Behind(e, store[e].synced)'
  <2> SUFFICES ASSUME Relies(e)' PROVE Behind(e, store[e].synced)'
    OBVIOUS
  <2>1. PICK m \in Hashes \cup {None} : m = store'[e].synced
    BY DEF TypeOK
  <2>2. Behind(e, m)
    <3>1. CASE m = None
      BY <3>1 DEF Behind
    <3>2. CASE m # None /\ Relies(e)
      BY <2>1, <3>2 DEF Entitled, Behind
    <3>3. CASE m # None /\ ~Relies(e)
      <4>1. pc'[e] = "pull_persist" \/ store'[e].synced # store[e].synced
        BY <1>2, <3>3 DEF Relies
      <4>2. Opens(e, m)
        BY <2>1, <3>3, <4>1 DEF Relies
      <4> QED
        BY <4>2 DEF Behind
    <3> QED
      BY <3>1, <3>2, <3>3
  <2>3. Behind(e, m)'
    BY <2>2, BehindStays
  <2> QED
    BY <2>1, <2>3 DEF Behind, Opens, Buried
<1>4. pc'[e] = "adopt_persist" => Behind(e, sealed[seen[e]].prev)'
  <2> SUFFICES ASSUME pc'[e] = "adopt_persist"
               PROVE  Behind(e, sealed[seen[e]].prev)'
    OBVIOUS
  <2>1. PICK r \in Hashes : r = seen[e] /\ r = seen'[e]
    BY DEF CallsHoldTheirData, TypeOK
  <2>2. Behind(e, sealed[r].prev)'
    BY <1>1, <2>1 DEF Entitled
  <2> QED
    BY <2>1, <2>2 DEF Behind, Opens, Buried
<1> QED
  BY <1>2, <1>3, <1>4 DEF Entitled

\* A step that persists a generation: if the device opens it, it may build on
\* its parent, and on what it has noted as synced.
LEMMA PersistEntitled ==
  ASSUME Typed, SlotsAreSealed, Chained, NEW d \in Device, Step(d),
         UNCHANGED records, NEW h, Persist(d, h),
         Opens(d, h)' => /\ Behind(d, sealed[h].prev)'
                         /\ Behind(d, store[d].synced),
         pc'[d] \notin {"pull_persist", "adopt_persist"}
  PROVE  Entitled(d)'
<1> USE DEF Typed
<1>1. /\ store'[d].container = h /\ store'[d].synced = store[d].synced
      /\ store'[d].slot = store[d].slot
  BY MovesAt, StoreAt
<1>2. Opens(d, h)' <=> Opens(d, store[d].container)'
  BY <1>1 DEF Opens
<1>3. Opens(d, h)' => Behind(d, sealed[store[d].container].prev)'
  BY <1>1 DEF Behind, Opens, Buried
<1>4. Opens(d, h)' => Behind(d, store[d].synced)'
  <2> SUFFICES ASSUME Opens(d, h)' PROVE Behind(d, store[d].synced)'
    OBVIOUS
  <2>1. PICK m \in Hashes \cup {None} : m = store[d].synced
    BY DEF TypeOK
  <2>2. Behind(d, m)'
    BY <1>1, <2>1, BehindStays
  <2> QED
    BY <1>1, <2>1, <2>2 DEF Behind, Opens, Buried
<1> QED
  BY <1>2, <1>3, <1>4 DEF Entitled, Relies

\* What an edit seals, the device opens only if it opens the open vault; then
\* the edit builds on that, or on a generation of its own under the same slots.
LEMMA CommitEntitled ==
  ASSUME Typed, ChainGrows, SlotsAreSealed, Chained, NEW d \in Device, Step(d),
         Entitled(d), Held(d), NEW S \in SUBSET sealed[vault[d]].slots,
         NEW ps \in Seq(Under(S)), NEW push \in BOOLEAN, Commit(d, ps, push)
  PROVE  Entitled(d)'
<1> USE DEF Typed
<1>1. /\ vault[d] \in Hashes /\ vault[d] # None /\ pc[d] = "idle"
      /\ store[d].container = vault[d]
      /\ store'[d].slot = store[d].slot /\ UNCHANGED records
  BY StoreAt DEF Commit, IsOpen, TypeOK, Held
<1>2. pc'[d] \in {"idle", "push_put"}
  BY <1>1, MovesAt DEF Commit
<1>3. CASE ps = <<>>
  <2>1. /\ store'[d].container = store[d].container
        /\ store'[d].synced = store[d].synced
    BY <1>1, <1>3, MovesAt DEF Commit
  <2> QED
    BY <1>1, <1>2, <2>1, SameEntitled
<1>4. CASE ps # <<>>
  <2>1. PICK h : /\ store'[d].container = h
                 /\ sealed'[h].slots = S
                 /\ \/ sealed'[h].prev = vault[d]
                    \/ sealed'[sealed'[h].prev].slots = S
    BY <1>4, CommitSlots
  <2>2. Persist(d, h)
    BY <2>1, MovesAt DEF Commit
  <2>3. ASSUME Opens(d, h)'
        PROVE  Behind(d, sealed[h].prev)' /\ Behind(d, store[d].synced)
    <3>1. store[d].slot \in S /\ Opens(d, vault[d])
      BY <1>1, <2>1, <2>3 DEF Opens
    <3>2. PICK v \in Hashes : v = vault[d]
      BY <1>1
    <3>3. Opens(d, v)'
      BY <1>1, <3>1, <3>2, StepWidens, OpensStable
    <3>4. Opens(d, sealed[h].prev)'
      BY <1>1, <2>1, <3>1, <3>2, <3>3 DEF Opens
    <3>5. Behind(d, store[d].synced)
      BY <1>1, <3>1 DEF Entitled, Relies
    <3> QED
      BY <3>4, <3>5 DEF Behind, Opens
  <2> QED
    BY <1>1, <1>2, <2>2, <2>3, PersistEntitled
<1> QED
  BY <1>3, <1>4

\* A generation sealed on a parent the device may build on.
LEMMA SealedEntitled ==
  ASSUME Typed, SlotsAreSealed, Chained, NEW d \in Device, Step(d),
         UNCHANGED records, NEW g \in Generation,
         sealed' = Append(sealed, g), Persist(d, NewHash),
         PullReturns(d) \/ NextAttempt(d), g.prev \in Hashes \cup {None},
         store[d].slot \in g.slots => /\ Behind(d, g.prev)
                                      /\ Behind(d, store[d].synced)
  PROVE  Entitled(d)'
<1> USE DEF Typed
<1>1. PICK n, p : n = NewHash /\ p = g.prev
  OBVIOUS
<1>2. sealed'[n] = g /\ store'[d].slot = store[d].slot
  <2>1. sealed'[n] = g
    BY <1>1, SealOne
  <2>2. store'[d].slot = store[d].slot
    BY StoreAt
  <2> QED
    BY <2>1, <2>2
<1>3. Opens(d, n)' => store[d].slot \in g.slots
  BY <1>2 DEF Opens
<1>4. ASSUME Opens(d, n)'
      PROVE  Behind(d, sealed[n].prev)' /\ Behind(d, store[d].synced)
  <2>1. Behind(d, p)'
    BY <1>1, <1>2, <1>3, <1>4, BehindStays
  <2>2. Behind(d, sealed[n].prev)'
    BY <1>1, <1>2, <2>1 DEF Behind, Opens, Buried
  <2> QED
    BY <1>3, <1>4, <2>2
<1>5. pc'[d] \notin {"pull_persist", "adopt_persist"}
  BY MovesAt
<1> QED
  BY <1>1, <1>4, <1>5, PersistEntitled

\* The parent of a record is none, or one that is followed.
LEMMA RecordIsBehind ==
  ASSUME TypeOK, Chained, NEW d \in Device, NEW h, InRecords(h)
  PROVE  Behind(d, sealed[h].prev)
<1>1. PICK g \in DOMAIN records : records[g] = h
  BY DEF InRecords
<1>2. CASE g = 1
  BY <1>1, <1>2 DEF Chained, Behind
<1>3. CASE g # 1
  <2>1. g - 1 \in DOMAIN records /\ g - 1 < Len(records)
    BY <1>1, <1>3 DEF TypeOK
  <2>2. sealed[h].prev = records[g - 1]
    BY <1>1, <1>3 DEF Chained
  <2> QED
    BY <2>1, <2>2 DEF Behind, Buried
<1> QED
  BY <1>2, <1>3

\* The device that moves builds only on what its slot opens, or on what the
\* host is past.
LEMMA StepEntitled ==
  ASSUME Typed, ChainGrows, SlotsAreSealed, Chained, NEW d \in Device, Step(d),
         Entitled(d), Ready(d), Held(d), Reading(d), OnHost(d),
         ~StoreWriteFails(d), ~Crash(d)
  PROVE  Entitled(d)'
<1> USE DEF Typed
<1>1. CASE ~UNCHANGED records
  <2>1. /\ pc[d] = "push_put" /\ vault[d] \in Hashes
        /\ Extends(vault[d]) /\ records' = Append(records, vault[d])
        /\ UNCHANGED <<sealed, store, vault>>
        /\ pc'[d] \in {"push_synced", "idle"}
    BY <1>1, StepAppends
  <2>2. ASSUME NEW h, InRecords(h) PROVE Buried(h)'
    <3>1. PICK g \in DOMAIN records : records[g] = h
      BY <2>2 DEF InRecords
    <3>2. /\ g \in DOMAIN records' /\ records'[g] = h /\ g < Len(records')
      BY <2>1, <3>1 DEF TypeOK
    <3> QED
      BY <3>2 DEF Buried
  <2>3. Behind(d, store[d].synced)'
    <3>1. PICK m : m = store[d].synced
      OBVIOUS
    <3>2. m = None \/ Buried(m)'
      BY <2>2, <3>1 DEF OnHost
    <3>3. store'[d].synced = m
      BY <2>1, <3>1
    <3> QED
      BY <3>2, <3>3 DEF Behind, Buried
  <2>4. Behind(d, sealed[store[d].container].prev)'
    <3>1. vault[d] = store[d].container
      BY <2>1 DEF Held, CallsHoldTheirData
    <3>2. PICK p : p = CurrentRecord
      OBVIOUS
    <3>3. p = None \/ Buried(p)'
      BY <2>2, <3>2, CurrentInRecords
    <3>4. sealed'[store'[d].container].prev = p
      BY <2>1, <3>1, <3>2 DEF Extends
    <3> QED
      BY <3>3, <3>4 DEF Behind, Buried
  <2> QED
    BY <2>1, <2>3, <2>4 DEF Entitled
<1>2. CASE UNCHANGED records
  <2>1. CASE Edit(d)
    <3>1. CASE CommitFails(d)
      <4>1. UNCHANGED <<store, pc>> /\ pc[d] = "idle"
        BY <3>1 DEF CommitFails, IsOpen
      <4> QED
        BY <1>2, <4>1, SameEntitled
    <3> QED
      BY <2>1, <3>1, EditSlots, CommitEntitled
  <2>2. CASE \/ Open(d) \/ Push(d) \/ AdoptRead(d) \/ PullRefused(d)
             \/ PushNothing(d) \/ PushAccepted(d) \/ PushConflict(d)
             \/ PushRead(d) \/ PushRefused(d)
             \/ HostCallFails(d) \/ AnswerLost(d)
             \/ \E sync \in BOOLEAN : PullRead(d, sync)
    <3>1. UNCHANGED store
      BY <2>2 DEF Open, Push, AdoptRead, PullRead, PullRefused, PushNothing,
                  PushAccepted, PushConflict, PushRead, PushRefused,
                  HostCallFails, AnswerLost
    <3>2. pc'[d] \notin {"pull_persist", "adopt_persist"}
      BY <2>2, MovesAt
         DEF Open, Push, IsOpen, AdoptRead, PullRead, PullRefused,
             PushNothing, PushAccepted, PushConflict, PushRead, PushRefused,
             HostCallFails, AnswerLost, TypeOK
    <3> QED
      BY <1>2, <3>1, <3>2, SameEntitled
  <2>3. CASE PullSame(d) \/ PullFastForward(d) \/ PushSynced(d)
    <3>1. PICK m \in Hashes : /\ MarkSynced(d, m)
                              /\ \/ Opens(d, m)
                                 \/ /\ m = vault[d] /\ m = store[d].container
                                    /\ pc'[d] \in {"idle", "push_put"}
      <4>1. CASE PullFastForward(d)
        BY <4>1 DEF PullFastForward, Differs, CallsHoldTheirData, TypeOK
      <4>2. CASE PullSame(d) \/ PushSynced(d)
        <5>1. /\ vault[d] \in Hashes /\ vault[d] = store[d].container
              /\ MarkSynced(d, vault[d])
          BY <4>2 DEF PullSame, PushSynced, Held, CallsHoldTheirData, TypeOK
        <5>2. pc'[d] \in {"idle", "push_put"}
          BY <4>2, MovesAt DEF PullSame, PushSynced
        <5> QED
          BY <5>1, <5>2
      <4> QED
        BY <2>3, <4>1, <4>2
    <3>2. /\ store'[d].slot = store[d].slot /\ UNCHANGED sealed
          /\ store'[d].container = store[d].container
          /\ store'[d].synced = m
      BY <2>3, <3>1 DEF MarkSynced, PullSame, PullFastForward, PushSynced,
                        TypeOK
    <3>3. pc'[d] # "adopt_persist"
      BY <2>3, MovesAt DEF PullSame, PullFastForward, PushSynced
    <3>4. Relies(d)' => Opens(d, m)
      BY <3>1, <3>2 DEF Relies, Opens
    <3> QED
      BY <1>2, <3>2, <3>3, <3>4, SameEntitled
  <2>4. CASE PullPersist(d) \/ AdoptPersist(d)
    <3>1. /\ UNCHANGED sealed /\ Persist(d, seen[d]) /\ seen[d] \in Hashes
          /\ pc'[d] \notin {"pull_persist", "adopt_persist"}
      <4>1. pc'[d] \in {"idle", "push_put"}
        BY <2>4, MovesAt DEF PullPersist, AdoptPersist
      <4>2. UNCHANGED sealed /\ Persist(d, seen[d])
        BY <2>4 DEF PullPersist, AdoptPersist
      <4>3. seen[d] \in Hashes
        BY <2>4 DEF PullPersist, AdoptPersist, CallsHoldTheirData, TypeOK
      <4> QED
        BY <4>1, <4>2, <4>3
    <3>2. Behind(d, sealed[seen[d]].prev)
      BY <2>4, RecordIsBehind DEF PullPersist, AdoptPersist, OnHost, Entitled
    <3>3. PICK h, p : h = seen[d] /\ p = sealed[h].prev
      OBVIOUS
    <3>4. p \in Hashes \cup {None}
      BY <3>1, <3>3, ParentType
    <3>5. store'[d].slot = store[d].slot
      BY <3>1, StoreAt
    <3>6. Behind(d, p)'
      BY <1>2, <3>2, <3>3, <3>4, <3>5, BehindStays
    <3>7. Behind(d, sealed[h].prev)'
      BY <3>1, <3>3, <3>6 DEF Behind, Opens, Buried
    <3>8. Behind(d, store[d].synced)
      BY <2>4 DEF PullPersist, AdoptPersist, Entitled, Relies
    <3> QED
      BY <1>2, <3>1, <3>3, <3>7, <3>8, PersistEntitled
  <2>5. CASE PullMerge(d) \/ PushMerge(d)
    <3>1. /\ seen[d] \in Hashes /\ vault[d] \in Hashes
          /\ Opens(d, seen[d]) /\ Persist(d, NewHash)
          /\ PullReturns(d) \/ NextAttempt(d)
      BY <2>5 DEF PullMerge, PushMerge, Differs, CallsHoldTheirData, TypeOK
    <3>2. PICK S \in MergedSlots(seen[d], vault[d]) :
            sealed' = Append(sealed, Merged(seen[d], vault[d], S))
      BY <2>5 DEF PullMerge, PushMerge
    <3> DEFINE g == Merged(seen[d], vault[d], S)
    <3>3. g \in Generation
      BY <3>1, MergedType
    <3>4. g.prev = seen[d]
      BY DEF Merged, Child
    <3>5. sealed' = Append(sealed, g)
      BY <3>2
    <3>6. Behind(d, seen[d])
      BY <3>1 DEF Behind
    <3>7. Behind(d, store[d].synced)
      <4>1. pc[d] \in {"pull_apply", "push_resolve"}
        BY <2>5 DEF PullMerge, PushMerge, Differs
      <4> QED
        BY <3>6, <4>1 DEF Reading, Behind
    <3> HIDE DEF g
    <3> QED
      BY <1>2, <3>1, <3>3, <3>4, <3>5, <3>6, <3>7, SealedEntitled
  <2>6. ASSUME NEW n \in Nat \ {0}, NEW p \in Hashes \cup {None},
               Rechain(d, n, p), pc[d] \in {"push_put", "push_resolve"},
               Opens(d, vault[d]) => Behind(d, p)
        PROVE  Entitled(d)'
    <3>1. /\ vault[d] \in Hashes /\ p \in Nat
          /\ sealed[vault[d]] \in Generation
      BY <2>6 DEF CallsHoldTheirData, TypeOK, Hashes, None
    <3> DEFINE g == Rechained(vault[d], n, p)
    <3>2. g \in Generation
      BY <3>1, RechainedType
    <3>3. g.prev = p /\ g.slots = sealed[vault[d]].slots
      BY <3>1 DEF Rechained, Generation
    <3>4. /\ sealed' = Append(sealed, g) /\ Persist(d, NewHash)
          /\ NextAttempt(d)
      BY <2>6 DEF Rechain
    <3>5. Opens(d, vault[d]) => Behind(d, store[d].synced)
      <4>1. store[d].container = vault[d] /\ vault[d] # None
        BY <2>6 DEF Held, CallsHoldTheirData
      <4> QED
        BY <4>1 DEF Entitled, Relies
    <3> HIDE DEF g
    <3> QED
      BY <1>2, <2>6, <3>2, <3>3, <3>4, <3>5, SealedEntitled DEF Opens
  <2>7. CASE PushRestart(d)
    BY <2>6, <2>7 DEF PushRestart, Offering, Behind
  <2>8. CASE PushRechain(d)
    <3>1. seen[d] \in Hashes /\ sealed[seen[d]] \in Generation
      BY <2>8 DEF PushRechain, CallsHoldTheirData, TypeOK, Hashes
    <3>2. sealed[seen[d]].gen + 1 \in Nat \ {0}
      BY <3>1 DEF Generation
    <3>3. Opens(d, vault[d]) => Behind(d, seen[d])
      BY <2>8 DEF PushRechain, Held, CallsHoldTheirData, Entitled, Relies
    <3> QED
      BY <2>6, <2>8, <3>1, <3>2, <3>3 DEF PushRechain
  <2>9. CASE AdoptWrite(d)
    <3>1. store'[d].slot = NewHash /\ store'[d].container = None
      BY <2>9 DEF AdoptWrite, SealSlot, Ready, TypeOK
    <3>2. NewHash \notin Hashes
      BY DEF TypeOK, Hashes, NewHash
    <3>3. \A g \in DOMAIN records : NewHash \notin sealed'[records[g]].slots
      <4>1. \A g \in DOMAIN records : records[g] \in Hashes
        BY DEF TypeOK
      <4> QED
        BY <3>2, <4>1, StepWidens DEF Widens, SlotsAreSealed
    <3>4. ~WasMember(d)'
      BY <1>2, <3>1, <3>3 DEF WasMember, Opens
    <3> QED
      BY <3>1, <3>4 DEF Entitled, Behind
  <2>10. CASE Clear(d)
    <3>1. store'[d].container = None /\ pc'[d] = "clear_device"
      BY <2>10 DEF Clear, TypeOK
    <3> QED
      BY <3>1 DEF Entitled, Relies
  <2>11. CASE ClearSynced(d)
    <3>1. store'[d].container = None /\ pc'[d] = "idle"
      BY <2>11, MovesAt DEF ClearSynced, Ready, TypeOK
    <3> QED
      BY <3>1 DEF Entitled, Relies
  <2>12. CASE DropsSlot(d)
    <3>1. /\ store'[d].container = None
          /\ pc'[d] \in {"adopt_write", "clear_synced"}
      BY <2>12, DropSlotAt DEF Ready
    <3> QED
      BY <3>1 DEF Entitled, Relies
  <2> QED
    BY <2>1, <2>2, <2>3, <2>4, <2>5, <2>7, <2>8, <2>9, <2>10, <2>11,
       <2>12
       DEF Step, Continue, Disturb, DropsSlot
<1> QED
  BY <1>1, <1>2

\* Once another device has removed it, nothing a device pushes is accepted, also
\* where push builds on the head without opening it: what it stores and opens
\* was built on what its slot opened, and its slot was in no record but by its
\* own push. Store writes that fail or are cut short are left out.
THEOREM RemovedStaysOut ==
  ASSUME Faults \cap {"store", "crash"} = {}
  PROVE  Spec => []RemovedCannotWrite
<1> DEFINE Inv == /\ SlotsAreSealed /\ Chained /\ AllPrivate /\ AllReading
                  /\ AllEntitled
           Ctx == /\ Typed /\ ChainGrows /\ AllHeld /\ AllReady /\ AllOnHost
<1>1. Init => Inv
  <2> SUFFICES ASSUME Init PROVE Inv
    OBVIOUS
  <2>1. /\ Hashes = {1} /\ sealed[1].slots = {1} /\ sealed[1].prev = None
        /\ records = <<>>
    BY DEF Init, Hashes, FirstSlot
  <2>2. SlotsAreSealed /\ Chained
    BY <2>1 DEF SlotsAreSealed, Chained
  <2>3. ASSUME NEW d \in Device
        PROVE  Private(d) /\ Reading(d) /\ Entitled(d)
    <3>1. /\ pc[d] = "idle" /\ store[d].synced = None
          /\ store[d].container \in {1, None}
          /\ store[d].slot # None => d = Creator
      BY DEF Init
    <3>2. ASSUME NEW e \in Device, e # Creator PROVE AtHand(e) = {}
      BY <3>2 DEF Init, AtHand, Slots
    <3>3. Private(d)
      BY <3>1, <3>2 DEF Private
    <3>4. Reading(d) /\ Entitled(d)
      BY <2>1, <3>1 DEF Reading, Entitled, Behind
    <3> QED
      BY <3>3, <3>4
  <2> QED
    BY <2>2, <2>3 DEF AllPrivate, AllReading, AllEntitled
<1>2. Ctx /\ Inv /\ [Next]_vars => Inv'
  <2> SUFFICES ASSUME Ctx, Inv, [Next]_vars PROVE Inv'
    OBVIOUS
  <2>1. CASE UNCHANGED vars
    BY <2>1 DEF vars, SlotsAreSealed, Chained, AllPrivate, Private, AtHand,
                Slots, AllReading, Reading, AllEntitled, Entitled, Relies,
                Behind, Buried, WasMember, Opens, Hashes
  <2>2. ASSUME NEW d \in Device, Step(d) PROVE Inv'
    <3>1. ~StoreWriteFails(d) /\ ~Crash(d)
      BY DEF StoreWriteFails, Crash, Fault
    <3>2. SlotsAreSealed' /\ Chained'
      BY <2>2, StepSlotsAreSealed, StepChained
    <3>3. \A e \in Device : Private(e)'
      BY <2>2, StepPrivate
    <3>4. Entitled(d)'
      BY <2>2, <3>1, StepEntitled
         DEF AllEntitled, AllReady, AllHeld, AllReading, AllOnHost
    <3>5. ASSUME NEW e \in Device \ {d} PROVE Entitled(e)'
      <4>1. /\ store'[e] = store[e] /\ pc'[e] = pc[e] /\ seen'[e] = seen[e]
        BY <2>2, StepKeepsOthers DEF OthersKeep
      <4> QED
        BY <2>2, <4>1, SameEntitled DEF AllEntitled, AllPrivate
    <3>6. \A e \in Device : Reading(e)'
      BY <2>2, StepReading DEF AllReading
    <3> QED
      BY <3>2, <3>3, <3>4, <3>5, <3>6 DEF AllPrivate, AllReading, AllEntitled
  <2> QED
    BY <2>1, <2>2 DEF Next, Step
<1>3. Ctx /\ Inv /\ Numbered => RemovedCannotWrite
  <2> SUFFICES ASSUME Ctx, Inv, Numbered, NEW d \in Device, Offering(d),
                      Opens(d, vault[d]), WasMember(d),
                      ~Opens(d, CurrentRecord),
                      Extends(vault[d])
               PROVE  FALSE
    BY DEF RemovedCannotWrite
  <2>1. store[d].container = vault[d] /\ vault[d] # None
    BY DEF Offering, AllHeld, Held, Typed, CallsHoldTheirData
  <2>2. Behind(d, CurrentRecord)
    BY <2>1 DEF AllEntitled, Entitled, Extends
  <2>3. PICK k \in DOMAIN records : Opens(d, records[k])
    BY DEF WasMember
  <2>4. /\ Len(records) \in DOMAIN records /\ Len(records) \in Nat
        /\ CurrentRecord = records[Len(records)] /\ CurrentRecord \in Hashes
    BY <2>3 DEF CurrentRecord, Typed, TypeOK
  <2>5. PICK g \in DOMAIN records :
          g < Len(records) /\ records[g] = CurrentRecord
    BY <2>2, <2>4 DEF Behind, Buried, Hashes, None
  <2>6. g = Len(records)
    BY <2>4, <2>5 DEF Numbered
  <2> QED
    BY <2>4, <2>5, <2>6
<1> QED
  BY <1>1, <1>2, <1>3, AlwaysTyped, AlwaysHeld, AlwaysReady, AlwaysOnHost,
     AlwaysFollow, PTL DEF Spec

-----------------------------------------------------------------------------
(* The vault implements SharedVault: a step of KeyVault edits, publishes   *)
(* or leaves, or changes neither what the host serves nor what a device    *)
(* stores.                                                                 *)

\* What a pull is about to store holds what it replaces.
Forward(d) ==
  /\ pc[d] = "pull_apply" => Content(store[d].synced) \subseteq Content(seen[d])
  /\ pc[d] = "pull_persist"
       => Content(store[d].container) \subseteq Content(seen[d])

AllForward == \A d \in Device : Forward(d)

\* The stored container gains facts, or goes.
Gains(d) ==
  \/ Content(store[d].container) \subseteq Content(store[d].container)'
  \/ Content(store[d].container)' = {}

-----------------------------------------------------------------------------
(* What a step does to the container of its device.                        *)

\* A container that is not replaced keeps its facts.
LEMMA SameContainer ==
  ASSUME TypeOK, Widens, NEW d \in Device,
         store'[d].container = store[d].container
  PROVE  Content(store[d].container)' = Content(store[d].container)
<1>1. PICK h \in Hashes \cup {None} : h = store[d].container
  BY DEF TypeOK
<1>2. Content(h)' = Content(h)
  BY ContentStable
<1> QED
  BY <1>1, <1>2 DEF Content

\* A generation sealed over the open vault replaces it in the store.
LEMMA SealedGains ==
  ASSUME Typed, ChainGrows, NEW d \in Device, Held(d), vault[d] # None,
         pc[d] \notin {"clear_device", "clear_synced"},
         NEW g \in Generation, g.prev \in Hashes \cup {None},
         Content(g.prev) \subseteq Entries(g),
         Content(vault[d]) \subseteq Entries(g),
         sealed' = Append(sealed, g), Persist(d, NewHash)
  PROVE  Gains(d)
<1> USE DEF Typed
<1>1. \A n : n = NewHash => Content(n)' = Entries(g)
  BY SealOneGrows
<1>2. PICK n : n = NewHash
  OBVIOUS
<1>3. store'[d].container = n /\ Content(n)' = Entries(g)
  BY <1>1, <1>2, MovesAt
<1>4. Content(store[d].container)' = Entries(g)
  BY <1>3 DEF Content
<1>5. Content(store[d].container) \subseteq Entries(g)
  BY DEF Held
<1> QED
  BY <1>4, <1>5 DEF Gains

\* Committed payloads grow from those of the open vault.
LEMMA CommitGains ==
  ASSUME Typed, ChainGrows, NEW d \in Device, Held(d),
         NEW ps \in Seq(Payloads), NEW push \in BOOLEAN,
         Grows(Content(vault[d]), ps), Commit(d, ps, push)
  PROVE  Gains(d)
<1> USE DEF Typed
<1>1. vault[d] \in Hashes /\ vault[d] # None /\ pc[d] = "idle"
  BY DEF Commit, IsOpen, TypeOK
<1>2. sealed' = sealed \o Chain(vault[d], ps)
  BY DEF Commit
<1>3. /\ Widens
      /\ \A n \in Hashes' \ Hashes : Content(vault[d]) \subseteq Content(n)'
  BY <1>1, <1>2, CommitGrows
<1>4. store[d].container = vault[d]
  BY <1>1 DEF Held
<1>5. CASE ps = <<>>
  <2>1. store'[d].container = store[d].container
    BY <1>4, <1>5, MovesAt DEF Commit
  <2> QED
    BY <1>3, <2>1, SameContainer DEF Gains
<1>6. CASE ps # <<>>
  <2>1. PICK new : new = Len(sealed) + Len(ps)
    OBVIOUS
  <2>2. /\ Chain(vault[d], ps) \in Seq(Generation)
        /\ Len(Chain(vault[d], ps)) = Len(ps)
    BY <1>1, ChainType
  <2>3. Len(sealed') = Len(sealed) + Len(ps)
    BY <1>2, <2>2, SealMore
  <2>4. Len(ps) > 0 /\ Len(ps) \in Nat /\ Len(sealed) \in Nat
    BY <1>6 DEF TypeOK
  <2>5. new \in Hashes' \ Hashes
    BY <2>1, <2>3, <2>4 DEF Hashes
  <2>6. store'[d].container = new
    BY <1>6, <2>1, MovesAt DEF Commit
  <2>7. Content(store[d].container)' = Content(new)'
    BY <2>6 DEF Content
  <2>8. Content(vault[d]) \subseteq Content(new)'
    BY <1>3, <2>5
  <2> QED
    BY <1>4, <2>7, <2>8 DEF Gains
<1> QED
  BY <1>5, <1>6

\* A merge onto the head that was read holds the facts of both sides.
LEMMA MergeGains ==
  ASSUME Typed, ChainGrows, NEW d \in Device, Held(d),
         PullMerge(d) \/ PushMerge(d)
  PROVE  Gains(d)
<1> USE DEF Typed
<1>1. /\ seen[d] \in Hashes /\ vault[d] \in Hashes
      /\ pc[d] \in {"pull_apply", "push_resolve"}
  BY DEF PullMerge, PushMerge, Differs, CallsHoldTheirData, TypeOK
<1>2. PICK S \in MergedSlots(seen[d], vault[d]) :
        sealed' = Append(sealed, Merged(seen[d], vault[d], S))
  BY DEF PullMerge, PushMerge
<1> DEFINE g == Merged(seen[d], vault[d], S)
<1>3. g \in Generation
  BY <1>1, MergedType
<1>4. /\ g.prev = seen[d]
      /\ Content(seen[d]) \subseteq Entries(g)
      /\ Content(vault[d]) \subseteq Entries(g)
  BY <1>1, MergedSaysBoth
<1>5. sealed' = Append(sealed, g) /\ Persist(d, NewHash)
  BY <1>2 DEF PullMerge, PushMerge
<1>6. vault[d] # None
  BY <1>1 DEF Hashes, None
<1> HIDE DEF g
<1> QED
  BY <1>1, <1>3, <1>4, <1>5, <1>6, SealedGains

\* A rechained generation holds the facts of the open vault.
LEMMA RechainGains ==
  ASSUME Typed, ChainGrows, NEW d \in Device, Held(d),
         PushRestart(d) \/ PushRechain(d)
  PROVE  Gains(d)
<1> USE DEF Typed
<1>1. ASSUME NEW n \in Nat \ {0}, NEW p \in Hashes \cup {None},
             Rechain(d, n, p), pc[d] \in {"push_put", "push_resolve"},
             Content(p) \subseteq Content(vault[d])
      PROVE  Gains(d)
  <2>1. vault[d] \in Hashes /\ vault[d] # None
    BY <1>1 DEF CallsHoldTheirData, TypeOK
  <2> DEFINE g == Rechained(vault[d], n, p)
  <2>2. g \in Generation
    <3>1. p \in Nat
      BY DEF Hashes, None
    <3> QED
      BY <2>1, <3>1, RechainedType
  <2>3. g.prev = p /\ Entries(g) = Content(vault[d])
    <3>1. sealed[vault[d]] \in Generation
      BY <2>1 DEF TypeOK, Hashes
    <3> QED
      BY <2>1, <3>1 DEF Rechained, Content, Entries, Generation
  <2>4. sealed' = Append(sealed, g) /\ Persist(d, NewHash)
    BY <1>1 DEF Rechain
  <2> HIDE DEF g
  <2> QED
    BY <1>1, <2>1, <2>2, <2>3, <2>4, SealedGains
<1>2. CASE PushRestart(d)
  BY <1>1, <1>2 DEF PushRestart, Offering, Content, None
<1>3. CASE PushRechain(d)
  <2>1. /\ seen[d] \in Hashes /\ vault[d] # None
        /\ pc[d] = "push_resolve" /\ store[d].synced = seen[d]
    BY <1>3 DEF PushRechain, CallsHoldTheirData, TypeOK
  <2>2. Content(seen[d]) \subseteq Content(vault[d])
    BY <2>1 DEF Held
  <2>3. sealed[seen[d]].gen + 1 \in Nat \ {0}
    <3> sealed[seen[d]] \in Generation
      BY <2>1 DEF TypeOK, Hashes
    <3> QED
      BY DEF Generation
  <2> QED
    BY <1>1, <1>3, <2>1, <2>2, <2>3 DEF PushRechain
<1> QED
  BY <1>2, <1>3

\* No step of a device takes facts out of its container, except clear(), which
\* gives all of it up.
LEMMA StepGains ==
  ASSUME Typed, ChainGrows, NEW d \in Device, Held(d), Forward(d), Ready(d),
         Widens, Step(d)
  PROVE  Gains(d)
<1> USE DEF Typed
<1>1. ASSUME store'[d].container = store[d].container PROVE Gains(d)
  BY <1>1, SameContainer DEF Gains
<1>2. CASE Edit(d)
  <2>1. CASE CommitFails(d)
    BY <1>1, <2>1 DEF CommitFails
  <2> QED
    BY <1>2, <2>1, EditCommits, CommitGains
<1>3. CASE \/ Open(d) \/ Push(d) \/ AdoptRead(d) \/ PullRefused(d)
           \/ PushNothing(d) \/ PushAccepted(d) \/ PushConflict(d)
           \/ PushRead(d) \/ PushRefused(d) \/ Disturb(d)
           \/ \E sync \in BOOLEAN : PullRead(d, sync)
  <2>1. UNCHANGED store
    BY <1>3 DEF Open, Push, AdoptRead, PullRead, PullRefused, PushNothing,
                PushAccepted, PushConflict, PushRead, PushRefused, Disturb,
                HostCallFails, AnswerLost, StoreWriteFails, Crash
  <2> QED
    BY <1>1, <2>1
<1>4. CASE PullSame(d) \/ PullFastForward(d) \/ PushSynced(d)
  BY <1>1, <1>4, MovesAt DEF PullSame, PullFastForward, PushSynced
<1>5. CASE AdoptWrite(d) \/ ClearSynced(d)
  BY <1>1, <1>5 DEF AdoptWrite, SealSlot, ClearSynced, TypeOK
<1>10. CASE DropsSlot(d)
  BY <1>1, <1>10, DropSlotAt
<1>6. CASE PullPersist(d)
  <2>1. UNCHANGED sealed /\ store'[d].container = seen[d]
    BY <1>6, MovesAt DEF PullPersist
  <2>2. Content(store[d].container)' = Content(seen[d])
    BY <2>1 DEF Content
  <2> QED
    BY <1>6, <2>2 DEF Gains, PullPersist, Forward
<1>7. CASE AdoptPersist(d)
  <2>1. Content(store[d].container) = {}
    BY <1>7 DEF AdoptPersist, Ready, Content
  <2> QED
    BY <2>1 DEF Gains
<1>8. CASE Clear(d)
  <2>1. store'[d].container = None
    BY <1>8 DEF Clear, TypeOK
  <2> QED
    BY <2>1 DEF Gains, Content
<1>9. CASE PullMerge(d) \/ PushMerge(d) \/ PushRestart(d) \/ PushRechain(d)
  BY <1>9, MergeGains, RechainGains
<1> QED
  BY <1>2, <1>3, <1>4, <1>5, <1>6, <1>7, <1>8, <1>9, <1>10
     DEF Step, Continue, DropsSlot

-----------------------------------------------------------------------------
(* Pulls stay ahead of the store.                                          *)

\* A pull reads a head that holds what it last synced, and fast-forwards only
\* from there.
LEMMA StepForward ==
  ASSUME Typed, HostKeepsContent, SyncedIsOnHost, NEW d \in Device, Held(d),
         Forward(d), Widens, Step(d)
  PROVE  Forward(d)'
<1> USE DEF Typed
<1>1. ASSUME pc'[d] \notin {"pull_apply", "pull_persist"}
      PROVE  Forward(d)'
  BY <1>1 DEF Forward
<1>2. CASE Edit(d)
  <2>1. CASE CommitFails(d)
    BY <1>1, <2>1 DEF CommitFails, IsOpen
  <2>2. ASSUME NEW ps, NEW push, Commit(d, ps, push) PROVE Forward(d)'
    <3>1. pc'[d] \in {"push_put", "idle"}
      BY <2>2, MovesAt DEF Commit, IsOpen
    <3> QED
      BY <1>1, <3>1
  <2> QED
    BY <1>2, <2>1, <2>2, EditCommits
<1>3. CASE Open(d) \/ Push(d) \/ Clear(d)
  <2>1. pc'[d] \in {"idle", "push_put", "clear_device"}
    BY <1>3, MovesAt DEF Open, Push, Clear, TypeOK
  <2> QED
    BY <1>1, <2>1
<1>4. CASE \E sync \in BOOLEAN : PullRead(d, sync)
  <2>1. CASE CurrentRecord = None
    <3>1. pc'[d] \in {"idle", "push_put"}
      BY <1>4, <2>1, MovesAt DEF PullRead, IsOpen
    <3> QED
      BY <1>1, <3>1
  <2>2. CASE CurrentRecord # None
    <3>1. /\ pc'[d] = "pull_apply" /\ seen'[d] = CurrentRecord
          /\ UNCHANGED <<sealed, store>>
      BY <1>4, <2>2 DEF PullRead, TypeOK
    <3>2. Content(store[d].synced)' = Content(store[d].synced)
      BY <3>1 DEF Content
    <3>3. Content(seen[d])' = Content(CurrentRecord)
      BY <3>1 DEF Content
    <3> QED
      BY <3>1, <3>2, <3>3, HeadHoldsSynced DEF Forward
  <2> QED
    BY <2>1, <2>2
<1>5. CASE PullFastForward(d)
  <2>1. /\ UNCHANGED <<sealed, seen>> /\ pc'[d] = "pull_persist"
        /\ store'[d].container = store[d].container
    BY <1>5, MovesAt DEF PullFastForward
  <2>2. Content(store[d].container) \subseteq Content(seen[d])
    <3>1. store[d].container = store[d].synced
      BY <1>5 DEF PullFastForward, Differs, CallsHoldTheirData, Held
    <3> QED
      BY <1>5, <3>1 DEF PullFastForward, Differs, Forward
  <2>3. /\ Content(store[d].container)' = Content(store[d].container)
        /\ Content(seen[d])' = Content(seen[d])
    BY <2>1 DEF Content
  <2> QED
    BY <2>1, <2>2, <2>3 DEF Forward
<1>6. CASE AdoptRead(d) \/ AdoptWrite(d)
  BY <1>1, <1>6 DEF AdoptRead, AdoptWrite, TypeOK
<1>7. CASE DropsSlot(d)
  BY <1>1, <1>7, DropSlotAt
<1>8. CASE \/ PullSame(d) \/ PullPersist(d) \/ PullMerge(d)
           \/ PushRestart(d) \/ PushRechain(d) \/ PushMerge(d)
  <2>1. PullReturns(d) \/ NextAttempt(d)
    BY <1>8 DEF PullSame, PullPersist, PullMerge, PushRestart, PushRechain,
                PushMerge, Rechain
  <2> QED
    BY <1>1, <2>1, MovesAt
<1>9. CASE \/ PullRefused(d) \/ PushNothing(d) \/ PushAccepted(d)
           \/ PushSynced(d) \/ PushConflict(d) \/ PushRefused(d)
           \/ AdoptPersist(d) \/ ClearSynced(d) \/ Disturb(d)
  <2>1. \E p \in {"idle", "push_synced", "push_read"} : Goto(d, p)
    BY <1>9 DEF PullRefused, PushNothing, PushAccepted, PushSynced,
                PushConflict, PushRefused, AdoptPersist, ClearSynced,
                Disturb, HostCallFails, AnswerLost, StoreWriteFails, Crash
  <2> QED
    BY <1>1, <2>1, MovesAt
<1>10. CASE PushRead(d)
  BY <1>1, <1>10 DEF PushRead, TypeOK
<1> QED
  BY <1>2, <1>3, <1>4, <1>5, <1>6, <1>7, <1>8, <1>9, <1>10
     DEF Step, Continue, DropsSlot

\* The step of one device leaves another one's pull as it is.
LEMMA OthersForward ==
  ASSUME Typed, NEW d \in Device, OthersKeep(d), Widens,
         NEW e \in Device \ {d}, Forward(e)
  PROVE  Forward(e)'
<1>1. PICK s \in Hashes \cup {None}, c \in Hashes \cup {None},
           r \in Hashes \cup {None} :
        s = store[e].synced /\ c = store[e].container /\ r = seen[e]
  BY DEF Typed, TypeOK
<1>2. /\ Content(s)' = Content(s) /\ Content(c)' = Content(c)
      /\ Content(r)' = Content(r)
  BY ContentStable
<1>3. /\ Content(store[e].synced)' = Content(store[e].synced)
      /\ Content(store[e].container)' = Content(store[e].container)
      /\ Content(seen[e])' = Content(seen[e])
  BY <1>1, <1>2 DEF Content, OthersKeep
<1> QED
  BY <1>3 DEF Forward, OthersKeep

-----------------------------------------------------------------------------
(* What a step does to the host.                                           *)

\* A step seals nothing and has the host take the stored container, or leaves
\* the facts the host serves as they are.
LEMMA StepServes ==
  ASSUME Typed, ChainGrows, NEW d \in Device, Held(d), Widens, Step(d)
  PROVE  \/ Content(CurrentRecord)' = Content(CurrentRecord)
         \/ /\ UNCHANGED <<sealed, store>>
            /\ Content(CurrentRecord) \subseteq Content(store[d].container)
            /\ Content(CurrentRecord)' = Content(store[d].container)
<1> USE DEF Typed
<1>1. ASSUME UNCHANGED records
      PROVE  Content(CurrentRecord)' = Content(CurrentRecord)
  <2>1. PICK h \in Hashes \cup {None} : h = CurrentRecord
    BY CurrentRecordType
  <2>2. Content(h)' = Content(h)
    BY ContentStable
  <2>3. CurrentRecord' = h
    BY <1>1, <2>1 DEF CurrentRecord
  <2> QED
    BY <2>1, <2>2, <2>3 DEF Content
<1>2. CASE PushAccepted(d) \/ AnswerLost(d)
  <2>1. /\ vault[d] \in Hashes /\ store[d].container = vault[d]
        /\ HostAccepts(vault[d]) /\ UNCHANGED <<sealed, store>>
    BY <1>2 DEF PushAccepted, AnswerLost, Offering, CallsHoldTheirData,
                TypeOK, Held
  <2>2. CASE UNCHANGED records
    BY <1>1, <2>2
  <2>3. CASE Extends(vault[d]) /\ records' = Append(records, vault[d])
    <3>1. Content(CurrentRecord) \subseteq Content(vault[d])
      BY <2>1, <2>3 DEF Extends, ChainGrows
    <3>2. CurrentRecord' = vault[d]
      <4>1. PICK h \in Hashes : h = vault[d]
        BY <2>1
      <4>2. /\ records' # <<>> /\ Len(records') = Len(records) + 1
            /\ records'[Len(records) + 1] = h
        BY <2>3, <4>1 DEF TypeOK
      <4> QED
        BY <4>1, <4>2 DEF CurrentRecord
    <3>3. Content(CurrentRecord)' = Content(vault[d])
      BY <2>1, <3>2 DEF Content
    <3> QED
      BY <2>1, <3>1, <3>3
  <2> QED
    BY <2>1, <2>2, <2>3 DEF HostAccepts
<1>3. CASE Edit(d)
  BY <1>1, <1>3, EditCommits DEF Commit, CommitFails
<1>4. UNCHANGED records \/ PushAccepted(d) \/ AnswerLost(d) \/ Edit(d)
  BY DEF Step, Continue, Disturb, Open, Push, AdoptRead, Clear, PullRead,
         PullSame, PullRefused, PullFastForward, PullPersist, PullMerge,
         PushNothing, PushSynced, PushRestart, PushConflict, PushRead,
         PushRechain, PushRefused, PushMerge, Rechain, AdoptWrite,
         AdoptPersist, AdoptKey, ClearDevice, ClearSynced, HostCallFails,
         StoreWriteFails, Crash
<1> QED
  BY <1>1, <1>2, <1>3, <1>4

-----------------------------------------------------------------------------
(* The refinement.                                                         *)

\* The facts a device comes to store are facts.
LEMMA FactsType ==
  ASSUME TypeOK', NEW d \in Device
  PROVE  Facts(store[d].container)' \in SUBSET Fact
<1>1. CASE store'[d].container = None
  BY <1>1 DEF Facts
<1>2. CASE store'[d].container \in Hashes'
  <2>1. sealed'[store'[d].container] \in Generation
    BY <1>2 DEF TypeOK, Hashes
  <2> QED
    BY <2>1 DEF Facts, Generation
<1> QED
  BY <1>1, <1>2 DEF TypeOK

\* The facts of a generation are those its content tells.
Told == \A h \in Hashes \cup {None} : Facts(h) = Content(h) \cap Fact

\* A step of one device is a step of SharedVault, or changes nothing there.
LEMMA StepShares ==
  ASSUME Typed, TypeOK', Told, Told', ChainGrows, NEW d \in Device, Held(d),
         Forward(d), Ready(d), Widens, OthersKeep(d), Step(d)
  PROVE  [Shared!Next]_(Shared!vars)
<1> USE DEF Typed
<1> DEFINE held(e) == Facts(store[e].container)
           F == held(d)'
<1> DEFINE kept(e) == Content(store[e].container)
<1>10. /\ \A e \in Device : /\ held(e) = kept(e) \cap Fact
                             /\ held(e)' = kept(e)' \cap Fact
       /\ Facts(CurrentRecord) = Content(CurrentRecord) \cap Fact
       /\ Facts(CurrentRecord)' = Content(CurrentRecord)' \cap Fact
  <2>1. /\ \A e \in Device : store[e].container \in Hashes \cup {None}
        /\ \A e \in Device : store'[e].container \in Hashes' \cup {None}
    BY DEF TypeOK
  <2>2. CurrentRecord \in Hashes \cup {None}
    BY CurrentRecordType
  <2>3. CurrentRecord' \in Hashes' \cup {None}
    BY DEF TypeOK, CurrentRecord
  <2> QED
    BY <2>1, <2>2, <2>3 DEF Told
<1>1. ASSUME NEW e \in Device \ {d} PROVE held(e)' = held(e)
  BY <1>1, <1>10, SameContainer DEF OthersKeep
<1>2. held(d) \subseteq F \/ F = {}
  BY <1>10, StepGains DEF Gains
<1>3. F \in SUBSET Fact
  BY FactsType
<1>4. CASE /\ UNCHANGED <<sealed, store>>
           /\ Facts(CurrentRecord) \subseteq held(d)
           /\ Facts(CurrentRecord)' = held(d)
  <2>1. \A e \in Device : held(e)' = held(e)
    BY <1>4 DEF Facts
  <2>2. Shared!Publish(d)
    BY <1>4, <2>1 DEF Shared!Publish
  <2> QED
    BY <2>2 DEF Shared!Next
<1>5. CASE Facts(CurrentRecord)' = Facts(CurrentRecord)
  <2>1. CASE held(d) \subseteq F
    <3>1. F = held(d) \cup F
      BY <2>1
    <3>2. Shared!Edit(d)
      BY <1>1, <1>3, <1>5, <3>1 DEF Shared!Edit
    <3> QED
      BY <3>2 DEF Shared!Next
  <2>2. CASE F = {}
    <3>1. Shared!Leave(d)
      BY <1>1, <1>5, <2>2 DEF Shared!Leave
    <3> QED
      BY <3>1 DEF Shared!Next
  <2> QED
    BY <1>2, <2>1, <2>2
<1> QED
  BY <1>4, <1>5, <1>10, StepServes

\* As long as store writes neither fail nor are cut short by a crash, devices
\* and host share facts as SharedVault says, however many devices there are:
\* pulling, merging, rechaining and adopting never take a fact out of a stored
\* container, and what a device publishes holds all that was published before.
THEOREM Implements ==
  ASSUME Faults \cap {"store", "crash"} = {}
  PROVE  Spec => ImplementsSharedVault
<1> DEFINE Sound == /\ Typed /\ ChainGrows /\ AllHeld /\ HostKeepsContent
                    /\ SyncedIsOnHost /\ AllReady /\ Told
<1>1. Init => AllForward /\ Shared!Init
  <2> SUFFICES ASSUME Init PROVE AllForward /\ Shared!Init
    OBVIOUS
  <2>1. /\ sealed[1].prev = None /\ sealed[1].facts = {} /\ Hashes = {1}
        /\ records = <<>>
    BY DEF Init, Hashes
  <2>2. AllForward
    BY DEF Init, AllForward, Forward
  <2>3. \A d \in Device : Facts(store[d].container) = {}
    BY <2>1 DEF Init, Facts, None
  <2>4. Facts(CurrentRecord) = {}
    BY <2>1 DEF CurrentRecord, Facts
  <2> QED
    BY <2>2, <2>3, <2>4 DEF Shared!Init
<1>2. Sound /\ Sound' /\ AllForward /\ [Next]_vars
        => AllForward' /\ [Shared!Next]_(Shared!vars)
  <2> SUFFICES ASSUME Sound, Sound', AllForward, [Next]_vars
               PROVE  AllForward' /\ [Shared!Next]_(Shared!vars)
    OBVIOUS
  <2>1. CASE UNCHANGED vars
    <3>1. AllForward'
      BY <2>1 DEF vars, AllForward, Forward, Content, Entries
    <3>2. UNCHANGED Shared!vars
      BY <2>1 DEF vars, Shared!vars, Facts, CurrentRecord
    <3> QED
      BY <3>1, <3>2
  <2>2. ASSUME NEW d \in Device, Step(d)
        PROVE  AllForward' /\ [Shared!Next]_(Shared!vars)
    <3>1. ~StoreWriteFails(d) /\ ~Crash(d)
      BY DEF StoreWriteFails, Crash, Fault
    <3>2. Held(d) /\ Forward(d) /\ Ready(d) /\ Held(d)'
      BY DEF AllHeld, AllForward, AllReady
    <3>3. Widens
      BY <2>2, StepWidens
    <3>4. OthersKeep(d)
      BY <2>2, StepKeepsOthers
    <3>5. Forward(d)'
      BY <2>2, <3>2, <3>3, StepForward
    <3>6. ASSUME NEW e \in Device \ {d} PROVE Forward(e)'
      BY <3>3, <3>4, OthersForward DEF AllForward
    <3>7. [Shared!Next]_(Shared!vars)
      BY <2>2, <3>1, <3>2, <3>3, <3>4, StepShares DEF Typed
    <3> QED
      BY <3>5, <3>6, <3>7 DEF AllForward
  <2> QED
    BY <2>1, <2>2 DEF Next, Step
<1>3. Spec => []Sound
  <2>1. Typed => Told
    BY ContentTells DEF Typed, Told
  <2> QED
    BY <2>1, AlwaysTyped, AlwaysHeld, SyncedHashOnHost, AlwaysReady, PTL
<1> QED
  BY <1>1, <1>2, <1>3, PTL DEF Spec, ImplementsSharedVault, Shared!Spec
=============================================================================
