------------------------- MODULE PepperUnlockProofs -------------------------
(***************************************************************************)
(* Theorems about backup passwords and recovery codes, for every set of    *)
(* devices, methods and pepper keys and every bound: a secret opens its    *)
(* slot, the user has every secret that is in place, and a replaced secret *)
(* does not come back.                                                     *)
(***************************************************************************)
EXTENDS PepperUnlock, FiniteSetTheorems, TLAPS

-----------------------------------------------------------------------------
(* Slots.                                                                  *)

\* The values of a sequence, by its indexes.
LEMMA ValuesOf ==
  ASSUME NEW S, NEW s \in Seq(S)
  PROVE  /\ Range(s) \subseteq S
         /\ \A x : x \in Range(s) <=> \E i \in 1 .. Len(s) : s[i] = x
<1>1. DOMAIN s = 1 .. Len(s) /\ \A i \in 1 .. Len(s) : s[i] \in S
  OBVIOUS
<1>2. Range(s) = {s[i] : i \in 1 .. Len(s)}
  BY <1>1 DEF Range
<1> QED
  BY <1>1, <1>2

\* A sequence has finitely many values.
LEMMA RangeIsFinite ==
  ASSUME NEW S, NEW s \in Seq(S)
  PROVE  IsFiniteSet(Range(s))
<1>1. /\ DOMAIN s = 1 .. Len(s) /\ Len(s) \in Nat
      /\ s \in [1 .. Len(s) -> Range(s)]
  BY DEF Range
<1>2. s \in Surjection(1 .. Len(s), Range(s))
  BY <1>1 DEF Surjection, Range
<1>3. IsFiniteSet(1 .. Len(s))
  BY <1>1, FS_Interval
<1> QED
  BY <1>2, <1>3, FS_Surjection

\* One sequence after another has the values of both.
LEMMA RangeOfConcat ==
  ASSUME NEW S, NEW s \in Seq(S), NEW t \in Seq(S)
  PROVE  /\ s \o t \in Seq(S)
         /\ Range(s \o t) = Range(s) \cup Range(t)
<1> DEFINE r == s \o t
<1>1. /\ r \in Seq(S) /\ Len(r) = Len(s) + Len(t)
      /\ Len(s) \in Nat /\ Len(t) \in Nat
      /\ \A i \in 1 .. Len(s) : r[i] = s[i]
      /\ \A i \in 1 .. Len(t) : r[Len(s) + i] = t[i]
  OBVIOUS
<1> HIDE DEF r
<1>2. ASSUME NEW x \in Range(r) PROVE x \in Range(s) \cup Range(t)
  <2>1. PICK i \in 1 .. Len(r) : r[i] = x
    BY <1>1, ValuesOf
  <2>2. CASE i <= Len(s)
    BY <1>1, <2>1, <2>2, ValuesOf
  <2>3. CASE i > Len(s)
    <3>1. i - Len(s) \in 1 .. Len(t) /\ i = Len(s) + (i - Len(s))
      BY <1>1, <2>1, <2>3
    <3>2. t[i - Len(s)] = x
      BY <1>1, <2>1, <3>1
    <3> QED
      BY <3>1, <3>2, ValuesOf
  <2> QED
    BY <1>1, <2>1, <2>2, <2>3
<1>3. ASSUME NEW x \in Range(s) PROVE x \in Range(r)
  <2>1. PICK i \in 1 .. Len(s) : s[i] = x
    BY ValuesOf
  <2>2. i \in 1 .. Len(r) /\ r[i] = x
    BY <1>1, <2>1
  <2> QED
    BY <1>1, <2>2, ValuesOf
<1>4. ASSUME NEW x \in Range(t) PROVE x \in Range(r)
  <2>1. PICK i \in 1 .. Len(t) : t[i] = x
    BY ValuesOf
  <2>2. Len(s) + i \in 1 .. Len(r) /\ r[Len(s) + i] = x
    BY <1>1, <2>1
  <2> QED
    BY <1>1, <2>2, ValuesOf
<1> QED
  BY <1>1, <1>2, <1>3, <1>4 DEF r

\* A merge brings in no slot that neither side has.
LEMMA MergedSlotsOfBoth ==
  ASSUME TypeOK, NEW d \in Device, NEW slots \in MergedSlots(d)
  PROVE  /\ slots \in Slots
         /\ \A m \in Method : Range(slots[m])
              \subseteq Range(record.slots[m]) \cup Range(local[d].slots[m])
<1>1. \A m \in Method : /\ record.slots[m] \in Seq(Slot)
                        /\ local[d].slots[m] \in Seq(Slot)
  BY DEF TypeOK, Slots, Container
<1>2. ASSUME NEW m \in Method, NEW s \in BothSlots(d, m)
      PROVE  /\ s \in Seq(Slot)
             /\ Range(s)
                  \subseteq Range(record.slots[m]) \cup Range(local[d].slots[m])
  <2> DEFINE R == Range(local[d].slots[m]) \ Range(record.slots[m])
  <2>1. PICK more \in SetToSeqs(R) : s = record.slots[m] \o more
    BY DEF BothSlots
  <2>2. IsFiniteSet(R)
    <3>1. IsFiniteSet(Range(local[d].slots[m]))
      BY <1>1, RangeIsFinite
    <3> QED
      BY <3>1, FS_Subset
  <2>3. Cardinality(R) \in Nat
    BY <2>2, FS_CardinalityType
  <2>4. R \subseteq Slot /\ R \subseteq Range(local[d].slots[m])
    BY <1>1, ValuesOf
  <2> HIDE DEF R
  <2>5. more \in [1 .. Cardinality(R) -> R]
    BY <2>1 DEF SetToSeqs
  <2>6. more \in Seq(R) /\ more \in Seq(Slot)
    BY <2>3, <2>4, <2>5
  <2>7. Range(more) \subseteq R
    BY <2>6, ValuesOf
  <2> QED
    BY <1>1, <2>1, <2>4, <2>6, <2>7, RangeOfConcat
<1>3. CASE slots = record.slots
  BY <1>3 DEF TypeOK
<1>4. CASE slots # record.slots
  <2>1. /\ slots \in [Method -> UNION {BothSlots(d, m) : m \in Method}]
        /\ \A m \in Method : slots[m] \in BothSlots(d, m)
    BY <1>4 DEF MergedSlots
  <2>2. slots \in Slots
    BY <1>2, <2>1 DEF Slots
  <2> QED
    BY <1>2, <2>1, <2>2
<1> QED
  BY <1>3, <1>4

\* The slots of a container with one of a method in the place of the others.
LEMMA WithSlotHas ==
  ASSUME NEW slots \in Slots, NEW m \in Method, NEW s \in Slot
  PROVE  /\ WithSlot(slots, m, s) \in Slots
         /\ \A x \in Range(WithSlot(slots, m, s)[m]) : x = s
         /\ \A k \in Method \ {m} : WithSlot(slots, m, s)[k] = slots[k]
<1>1. <<s>> \in Seq(Slot) /\ Range(<<s>>) = {s}
  <2>1. <<s>> \in Seq(Slot) /\ Len(<<s>>) = 1 /\ <<s>>[1] = s
    OBVIOUS
  <2>2. \A x : x \in Range(<<s>>) <=> \E i \in 1 .. 1 : <<s>>[i] = x
    BY <2>1, ValuesOf
  <2>3. \A i \in 1 .. 1 : i = 1
    OBVIOUS
  <2> QED
    BY <2>1, <2>2, <2>3
<1>2. /\ WithSlot(slots, m, s) \in Slots
      /\ WithSlot(slots, m, s)[m] = <<s>>
      /\ \A k \in Method \ {m} : WithSlot(slots, m, s)[k] = slots[k]
  BY <1>1 DEF WithSlot, Slots
<1> QED
  BY <1>1, <1>2

-----------------------------------------------------------------------------
(* What the steps do to the record and to the devices.                     *)

\* A device without a call.
LEMMA NoAddType ==
  ASSUME codes \in Nat
  PROVE  NoAdd \in Call /\ NoAdd.pc = "idle" /\ NoAdd.code = 0
<1>1. (CHOOSE m \in Method : TRUE) \in Method /\ (CHOOSE k \in Kid : TRUE) \in Kid
  BY PepperAssumption
<1> QED
  BY <1>1 DEF NoAdd, Call

\* The types of slots and calls.
DevicesType ==
  /\ record \in [slots : Slots, version : Nat]
  /\ holders \subseteq Device
  /\ local \in [Device -> Container]
  /\ adding \in [Device -> Call]
  /\ \A d \in Device : adding[d].code # 0 <=> adding[d].pc = "push"
  /\ codes \in 0 .. MaxCodes
  /\ known \cup lost \subseteq 1 .. codes
  /\ merged \in BOOLEAN

\* The host takes a container, and the device notes it or not.
Takes(d) == HostTakes(d) /\ (Noted(d) \/ Unnoted(d))

\* What a container looks like after the host took it.
LEMMA TakesEffects ==
  ASSUME DevicesType, NEW d \in Device, Takes(d)
  PROVE  /\ record' \in [slots : Slots, version : Nat]
         /\ \/ record' = record
            \/ /\ record' = [slots   |-> local[d].slots,
                             version |-> record.version + 1]
               /\ Extends(d)
         /\ \E v \in {local[d].synced, TakenAs(d)} :
              local' = [local EXCEPT ![d] = Stored(local[d].slots, TakenAs(d), v)]
         /\ TakenAs(d) \in 1 .. record'.version
         /\ \/ record' = record /\ TakenAs(d) = local[d].stored
            \/ record'.version = record.version + 1
               /\ TakenAs(d) = record'.version
         /\ UNCHANGED <<holders, merged>>
<1>1. /\ record \in [slots : Slots, version : Nat]
      /\ local[d] \in Container
  BY DEF DevicesType
<1>2. /\ local[d].slots \in Slots /\ local[d].stored \in 0 .. record.version
      /\ record.version \in Nat
  BY <1>1 DEF Container
<1>3. UNCHANGED <<holders, merged>>
  BY DEF Takes, HostTakes
<1>4. \E v \in {local[d].synced, TakenAs(d)} :
        local' = [local EXCEPT ![d] = Stored(local[d].slots, TakenAs(d), v)]
  BY DEF Takes, Noted, Unnoted, Set
<1>5. CASE local[d].stored # 0 /\ UNCHANGED record
  <2>1. TakenAs(d) = local[d].stored /\ TakenAs(d) \in 1 .. record.version
    BY <1>2, <1>5 DEF TakenAs
  <2> QED
    BY <1>1, <1>3, <1>4, <1>5, <2>1
<1>6. CASE /\ Extends(d)
           /\ record' = [slots |-> local[d].slots, version |-> record.version + 1]
  <2>1. /\ record'.version = record.version + 1
        /\ TakenAs(d) = record.version + 1
        /\ record.version + 1 \in 1 .. (record.version + 1)
        /\ record' \in [slots : Slots, version : Nat]
    BY <1>2, <1>6 DEF TakenAs, Extends
  <2> QED
    BY <1>3, <1>4, <1>6, <2>1
<1> QED
  BY <1>5, <1>6 DEF Takes, HostTakes

\* A device gets another container without a put: a merge of both, its own as
\* the record's child, or what the host has.
Moves(d) ==
  /\ UNCHANGED <<record, adding, known, lost, codes>>
  /\ holders' \subseteq Device
  /\ \E c \in Container :
       /\ Set(d, c)
       /\ c.stored # 0 => c.stored = record.version /\ c.synced = record.version
       /\ \A m \in Method :
            Range(c.slots[m])
              \subseteq Range(record.slots[m]) \cup Range(local[d].slots[m])
       /\ \/ merged' = TRUE /\ c.stored = 0
          \/ /\ merged' = merged
             /\ \/ c.slots = record.slots
                \/ /\ c.slots = local[d].slots
                   /\ local[d].stored # 0 => local[d].stored = record.version
                   /\ local[d].stored = 0 =>
                        c.stored = 0 /\ local[d].synced = record.version

\* The containers of the model are containers.
LEMMA Containers ==
  ASSUME DevicesType, NEW slots \in Slots, NEW v \in 0 .. record.version
  PROVE  /\ New(slots, record.version, v) \in Container
         /\ New(slots, record.version, v).slots = slots
         /\ New(slots, record.version, v).stored = 0
         /\ Stored(slots, record.version, v) \in Container
         /\ Stored(slots, record.version, v).slots = slots
         /\ Stored(slots, record.version, v).stored = record.version
         /\ Stored(slots, record.version, v).synced = v
<1>1. record.version \in Nat
  BY DEF DevicesType
<1> QED
  BY <1>1 DEF New, Stored, Container

LEMMA MergeMoves ==
  ASSUME TypeOK, DevicesType, NEW d \in Device, Merge(d),
         UNCHANGED <<record, holders, adding, known, lost, codes>>
  PROVE  Moves(d)
<1>1. PICK slots \in MergedSlots(d) :
        Set(d, New(slots, record.version, local[d].synced))
  BY DEF Merge
<1> DEFINE c == New(slots, record.version, local[d].synced)
<1>2. /\ slots \in Slots
      /\ \A m \in Method : Range(slots[m])
           \subseteq Range(record.slots[m]) \cup Range(local[d].slots[m])
  BY MergedSlotsOfBoth
<1>3. local[d].synced \in 0 .. record.version
  BY DEF DevicesType, Container
<1>4. c \in Container /\ c.slots = slots /\ c.stored = 0
  BY <1>2, <1>3, Containers
<1>5. merged' = TRUE /\ holders' \subseteq Device /\ Set(d, c)
  BY <1>1 DEF Merge, DevicesType
<1> HIDE DEF c
<1> QED
  BY <1>2, <1>4, <1>5 DEF Moves

LEMMA ResolveMoves ==
  ASSUME TypeOK, DevicesType, NEW d \in Device, Resolve(d)
  PROVE  Moves(d)
<1>1. CASE local[d].synced = record.version
  <2> DEFINE c == New(local[d].slots, record.version, local[d].synced)
  <2>1. /\ local[d].slots \in Slots
        /\ local[d].synced \in 0 .. record.version
    BY DEF DevicesType, Container
  <2>2. c \in Container /\ c.slots = local[d].slots /\ c.stored = 0
    BY <2>1, Containers
  <2>3. /\ Set(d, c) /\ merged' = merged /\ holders' \subseteq Device
        /\ local[d].stored = 0
        /\ UNCHANGED <<record, adding, known, lost, codes>>
    BY <1>1 DEF Resolve, Rechain, DevicesType
  <2> HIDE DEF c
  <2> QED
    BY <1>1, <2>2, <2>3 DEF Moves
<1>2. CASE local[d].synced # record.version
  BY <1>2, MergeMoves DEF Resolve
<1> QED
  BY <1>1, <1>2

LEMMA PullMoves ==
  ASSUME TypeOK, DevicesType, NEW d \in Device, Pull(d)
  PROVE  Moves(d)
<1>1. /\ record.version \in Nat \ {0} /\ record.slots \in Slots
      /\ record.version \in 0 .. record.version
      /\ local[d].slots \in Slots /\ holders' \subseteq Device
      /\ UNCHANGED <<record, adding, known, lost, codes>>
  BY DEF Pull, DevicesType, Container
<1>2. CASE local[d].stored = record.version
  <2> DEFINE c == Stored(local[d].slots, record.version, record.version)
  <2>1. Set(d, c) /\ merged' = merged
    <3>1. TakenAs(d) = record.version
      BY <1>1, <1>2 DEF TakenAs
    <3> QED
      BY <1>2, <3>1 DEF Pull, Noted
  <2>2. /\ c \in Container /\ c.slots = local[d].slots
        /\ c.stored = record.version /\ c.synced = record.version
    BY <1>1, Containers
  <2> HIDE DEF c
  <2> QED
    BY <1>1, <1>2, <2>1, <2>2 DEF Moves
<1>3. CASE local[d].stored # record.version /\ Clean(d)
  <2> DEFINE c == Stored(record.slots, record.version, record.version)
  <2>1. Set(d, c) /\ merged' = merged
    BY <1>3 DEF Pull
  <2>2. /\ c \in Container /\ c.slots = record.slots
        /\ c.stored = record.version /\ c.synced = record.version
    BY <1>1, Containers
  <2> HIDE DEF c
  <2> QED
    BY <1>1, <2>1, <2>2 DEF Moves
<1>4. CASE local[d].stored # record.version /\ ~Clean(d)
  BY <1>4, MergeMoves DEF Pull
<1> QED
  BY <1>2, <1>3, <1>4

LEMMA AdoptMoves ==
  ASSUME TypeOK, DevicesType, NEW d \in Device, Adopt(d)
  PROVE  Moves(d)
<1> DEFINE c == New(record.slots, record.version, record.version)
<1>1. /\ record.version \in 0 .. record.version /\ record.slots \in Slots
      /\ holders' \subseteq Device /\ merged' = merged /\ Set(d, c)
      /\ UNCHANGED <<record, adding, known, lost, codes>>
  BY DEF Adopt, DevicesType
<1>2. c \in Container /\ c.slots = record.slots /\ c.stored = 0
  BY <1>1, Containers
<1> HIDE DEF c
<1> QED
  BY <1>1, <1>2 DEF Moves

\* What a step does to slots and calls, if it does anything to them.
Asks(d) ==
  /\ adding[d].pc = "idle"
  /\ \E m \in Method, k \in Kid :
       adding' = [adding EXCEPT ![d] = [pc |-> "wrap", method |-> m, kid |-> k,
                                        code |-> 0]]
  /\ UNCHANGED <<record, holders, local, known, lost, codes, merged>>

Drops(d) ==
  /\ adding[d].pc = "wrap"
  /\ adding' = [adding EXCEPT ![d] = NoAdd]
  /\ UNCHANGED <<record, holders, local, known, lost, codes, merged>>

\* The call that sets a secret ends, and gives it out unless the process ends.
Ends(d) ==
  /\ adding[d].pc = "push"
  /\ Takes(d) \/ UNCHANGED <<record, holders, local, merged>>
  /\ adding' = [adding EXCEPT ![d] = NoAdd]
  /\ \/ known' = known \cup {adding[d].code} /\ lost' = lost
     \/ lost' = lost \cup {adding[d].code} /\ known' = known
  /\ UNCHANGED codes

Pushes(d) == Takes(d) /\ UNCHANGED <<adding, known, lost, codes>>

\* Only the calls that set a secret, and syncs, touch slots and calls.
LEMMA StepEffects ==
  ASSUME TypeOK, DevicesType, Next
  PROVE  \/ UNCHANGED devices
         \/ \E d \in Device : \/ Asks(d) \/ Wrap(d) \/ Drops(d) \/ Ends(d)
                             \/ Pushes(d) \/ Moves(d)
<1>1. ASSUME NEW d \in Device, NEW m \in Method, AskKeys(d, m)
      PROVE  Asks(d)
  <2>1. PICK k \in Kid :
          adding' = [adding EXCEPT ![d] = [pc |-> "wrap", method |-> m,
                                           kid |-> k, code |-> 0]]
    BY <1>1 DEF AskKeys, CurrentKey, TypeOK
  <2> QED
    BY <1>1, <2>1 DEF AskKeys, Asks
<1>2. ASSUME NEW d \in Device, WrapFails(d)
      PROVE  Drops(d)
  BY <1>2 DEF WrapFails, Drops
<1>3. ASSUME NEW d \in Device, PushQuietly(d)
      PROVE  Ends(d)
  BY <1>3 DEF PushQuietly, ReturnsOk, Ends, Takes
<1>4. ASSUME NEW d \in Device, PushEnds(d)
      PROVE  Takes(d) \/ UNCHANGED <<record, holders, local, merged>>
  BY <1>4 DEF PushEnds, Takes
<1>5. ASSUME NEW d \in Device, PushQuietlyFails(d)
      PROVE  Ends(d)
  <2>1. PushEnds(d) /\ ReturnsOk(d)
    BY <1>5 DEF PushQuietlyFails
  <2>2. adding[d].pc = "push" /\ UNCHANGED codes
    BY <2>1 DEF PushEnds
  <2> QED
    BY <1>4, <2>1, <2>2 DEF Ends, ReturnsOk
<1>6. ASSUME NEW d \in Device, Dies(d)
      PROVE  Ends(d)
  <2>1. PushEnds(d)
    BY <1>6 DEF Dies
  <2>2. adding[d].pc = "push" /\ UNCHANGED codes
    BY <2>1 DEF PushEnds
  <2> QED
    BY <1>4, <1>6, <2>1, <2>2 DEF Ends, Dies
<1>7. ASSUME NEW d \in Device, Push(d) \/ PushFails(d)
      PROVE  Pushes(d)
  BY <1>7 DEF Push, PushFails, Pushes, Takes
<1>8. \/ UNCHANGED devices
      \/ \E d \in Device :
           \/ \E m \in Method : AskKeys(d, m)
           \/ Wrap(d) \/ WrapFails(d)
           \/ PushQuietly(d) \/ PushQuietlyFails(d) \/ Dies(d)
           \/ Resolve(d) \/ Push(d) \/ PushFails(d) \/ Pull(d) \/ Adopt(d)
  BY DEF Next, Rotate, Drop, Begin, ReadRecord, ReadFails, TrySlot, SlotGone,
         EvaluationFails
<1> QED
  BY <1>1, <1>2, <1>3, <1>5, <1>6, <1>7, <1>8, ResolveMoves, PullMoves,
     AdoptMoves

-----------------------------------------------------------------------------
(* Types.                                                                  *)

\* The record's version only grows.
LEMMA TakesType ==
  ASSUME DevicesType, NEW d \in Device, Takes(d)
  PROVE  local' \in [Device -> Container']
<1>1. /\ record.version \in Nat /\ local \in [Device -> Container]
      /\ local[d].slots \in Slots
      /\ local[d].synced \in 0 .. record.version
  BY DEF DevicesType, Container
<1>2. /\ record'.version \in Nat
      /\ record'.version = record.version
           \/ record'.version = record.version + 1
      /\ TakenAs(d) \in 1 .. record'.version
  BY TakesEffects
<1>3. 0 .. record.version \subseteq 0 .. record'.version
  BY <1>1, <1>2
<1>4. Container \subseteq Container'
  BY <1>3 DEF Container
<1>5. PICK v \in {local[d].synced, TakenAs(d)} :
        local' = [local EXCEPT ![d] = Stored(local[d].slots, TakenAs(d), v)]
  BY TakesEffects
<1>6. v \in 0 .. record'.version /\ TakenAs(d) \in 0 .. record'.version
  BY <1>1, <1>2, <1>3
<1>7. Stored(local[d].slots, TakenAs(d), v) \in Container'
  BY <1>1, <1>6 DEF Stored, Container
<1> QED
  BY <1>1, <1>4, <1>5, <1>7

\* The slot that a commit makes, and the container that it leaves.
WrappedSlot(d) == [code |-> codes + 1, kid |-> adding[d].kid]
WrappedSlots(d) == WithSlot(local[d].slots, adding[d].method, WrappedSlot(d))

LEMMA WrapEffects ==
  ASSUME DevicesType, NEW d \in Device, Wrap(d)
  PROVE  /\ WrappedSlot(d) \in Slot /\ WrappedSlot(d).code = codes + 1
         /\ WrappedSlots(d) \in Slots
         /\ adding[d].method \in Method
         /\ \A x \in Range(WrappedSlots(d)[adding[d].method]) :
              x = WrappedSlot(d)
         /\ \A k \in Method \ {adding[d].method} :
              WrappedSlots(d)[k] = local[d].slots[k]
         /\ local' = [local EXCEPT ![d] =
              New(WrappedSlots(d),
                  IF local[d].stored = 0 THEN Unsent ELSE local[d].stored,
                  local[d].synced)]
         /\ local' \in [Device -> Container]
         /\ codes \in Nat /\ codes' = codes + 1 /\ codes' \in 1 .. MaxCodes
         /\ adding' = [adding EXCEPT ![d] = [adding[d] EXCEPT !.pc = "push",
                                                              !.code = codes + 1]]
         /\ UNCHANGED <<record, holders, known, lost, merged>>
<1>1. /\ codes \in 0 .. MaxCodes /\ codes < MaxCodes /\ codes' = codes + 1
      /\ adding[d] \in Call /\ local[d] \in Container
      /\ local \in [Device -> Container]
  BY DEF DevicesType, Wrap
<1>2. codes \in Nat /\ codes + 1 \in 1 .. MaxCodes
  BY <1>1, PepperAssumption
<1>3. /\ adding[d].method \in Method /\ adding[d].kid \in Kid
      /\ local[d].slots \in Slots /\ local[d].stored \in 0 .. record.version
      /\ local[d].synced \in 0 .. record.version
  BY <1>1 DEF Call, Container
<1>4. WrappedSlot(d) \in Slot /\ WrappedSlot(d).code = codes + 1
  BY <1>2, <1>3 DEF WrappedSlot, Slot, Code
<1>5. /\ WrappedSlots(d) \in Slots
      /\ \A x \in Range(WrappedSlots(d)[adding[d].method]) : x = WrappedSlot(d)
      /\ \A k \in Method \ {adding[d].method} :
           WrappedSlots(d)[k] = local[d].slots[k]
  <2> DEFINE s == WrappedSlot(d)
  <2>1. WrappedSlots(d) = WithSlot(local[d].slots, adding[d].method, s)
    BY DEF WrappedSlots
  <2>2. s \in Slot
    BY <1>4
  <2> HIDE DEF s
  <2>3. /\ WithSlot(local[d].slots, adding[d].method, s) \in Slots
        /\ \A x \in Range(WithSlot(local[d].slots, adding[d].method, s)
                            [adding[d].method]) : x = s
        /\ \A k \in Method \ {adding[d].method} :
             WithSlot(local[d].slots, adding[d].method, s)[k]
               = local[d].slots[k]
    BY <1>3, <2>2, WithSlotHas
  <2> QED
    BY <2>1, <2>3 DEF s
<1> DEFINE p == IF local[d].stored = 0 THEN Unsent ELSE local[d].stored
<1>6. p \in {Unsent} \cup 0 .. record.version /\ 0 \in 0 .. record.version
  <2>1. record.version \in Nat
    BY DEF DevicesType
  <2> QED
    BY <1>3, <2>1
<1>7. local' = [local EXCEPT ![d] = New(WrappedSlots(d), p, local[d].synced)]
  BY DEF Wrap, Set, WrappedSlots, WrappedSlot
<1>8. New(WrappedSlots(d), p, local[d].synced) \in Container
  <2> HIDE DEF p
  <2> QED
    BY <1>3, <1>5, <1>6 DEF New, Container
<1>9. local' \in [Device -> Container]
  BY <1>1, <1>7, <1>8
<1>10. /\ adding' = [adding EXCEPT ![d] = [adding[d] EXCEPT !.pc = "push",
                                                            !.code = codes + 1]]
       /\ UNCHANGED <<record, holders, known, lost, merged>>
  BY DEF Wrap
<1> QED
  BY <1>1, <1>2, <1>3, <1>4, <1>5, <1>7, <1>9, <1>10

LEMMA StepDevicesType ==
  ASSUME TypeOK, DevicesType, Next
  PROVE  DevicesType'
<1>1. codes \in Nat /\ DevicesType
  BY PepperAssumption DEF TypeOK
<1>2. NoAdd \in Call /\ NoAdd.pc = "idle" /\ NoAdd.code = 0
  BY <1>1, NoAddType
<1>3. CASE UNCHANGED devices
  BY <1>1, <1>3 DEF DevicesType, devices, Call, Container
<1>4. ASSUME NEW d \in Device, Asks(d) PROVE DevicesType'
  <2>1. PICK m \in Method, k \in Kid :
          adding' = [adding EXCEPT ![d] = [pc |-> "wrap", method |-> m,
                                           kid |-> k, code |-> 0]]
    BY <1>4 DEF Asks
  <2>2. [pc |-> "wrap", method |-> m, kid |-> k, code |-> 0] \in Call
    BY <1>1 DEF Call
  <2>3. /\ adding' \in [Device -> Call]
        /\ \A e \in Device : adding'[e].code # 0 <=> adding'[e].pc = "push"
    BY <1>1, <2>1, <2>2 DEF DevicesType
  <2>4. UNCHANGED <<record, holders, local, known, lost, codes, merged>>
    BY <1>4 DEF Asks
  <2> QED
    BY <1>1, <2>3, <2>4 DEF DevicesType, Call, Container
<1>5. ASSUME NEW d \in Device, Wrap(d) PROVE DevicesType'
  <2>1. /\ codes' = codes + 1 /\ codes' \in 1 .. MaxCodes
        /\ local' \in [Device -> Container]
        /\ adding' = [adding EXCEPT ![d] = [adding[d] EXCEPT !.pc = "push",
                                                             !.code = codes + 1]]
        /\ UNCHANGED <<record, holders, known, lost, merged>>
    BY <1>5, WrapEffects
  <2>2. /\ 0 .. codes \subseteq 0 .. codes' /\ 1 .. codes \subseteq 1 .. codes'
        /\ codes + 1 \in 0 .. codes' /\ codes' \in 0 .. MaxCodes
        /\ codes + 1 # 0
    BY <1>1, <2>1
  <2>3. Call \subseteq Call'
    BY <2>2 DEF Call
  <2>4. /\ [adding[d] EXCEPT !.pc = "push", !.code = codes + 1] \in Call'
        /\ [adding[d] EXCEPT !.pc = "push", !.code = codes + 1].pc = "push"
        /\ [adding[d] EXCEPT !.pc = "push", !.code = codes + 1].code = codes + 1
    <3>1. adding[d] \in Call
      BY <1>1 DEF DevicesType
    <3> QED
      BY <2>2, <3>1 DEF Call
  <2>5. /\ adding' \in [Device -> Call']
        /\ \A e \in Device : adding'[e].code # 0 <=> adding'[e].pc = "push"
    BY <1>1, <2>1, <2>2, <2>3, <2>4 DEF DevicesType
  <2>6. known' \cup lost' \subseteq 1 .. codes'
    BY <1>1, <2>1, <2>2 DEF DevicesType
  <2> QED
    BY <1>1, <2>1, <2>2, <2>5, <2>6 DEF DevicesType, Container
<1>6. ASSUME NEW d \in Device, adding' = [adding EXCEPT ![d] = NoAdd],
             UNCHANGED codes
      PROVE  /\ adding' \in [Device -> Call']
             /\ \A e \in Device : adding'[e].code # 0 <=> adding'[e].pc = "push"
  BY <1>1, <1>2, <1>6 DEF DevicesType, Call
<1>7. ASSUME NEW d \in Device, Drops(d) PROVE DevicesType'
  BY <1>1, <1>6, <1>7 DEF DevicesType, Drops, Container
<1>8. ASSUME NEW d \in Device, adding[d].pc = "push"
      PROVE  known \cup lost \cup {adding[d].code} \subseteq 1 .. codes
  <2>1. /\ known \cup lost \subseteq 1 .. codes
        /\ adding[d] \in Call /\ adding[d].code # 0
    BY <1>1, <1>8 DEF DevicesType
  <2>2. adding[d].code \in 0 .. codes
    BY <2>1 DEF Call
  <2>3. adding[d].code \in 1 .. codes
    BY <1>1, <2>1, <2>2
  <2> QED
    BY <2>1, <2>3
<1>9. ASSUME NEW d \in Device,
             Takes(d) \/ UNCHANGED <<record, holders, local, merged>>
      PROVE  /\ record' \in [slots : Slots, version : Nat]
             /\ holders' \subseteq Device /\ merged' \in BOOLEAN
             /\ local' \in [Device -> Container']
  <2>1. CASE Takes(d)
    BY <1>1, <2>1, TakesEffects, TakesType DEF DevicesType
  <2>2. CASE UNCHANGED <<record, holders, local, merged>>
    BY <1>1, <2>2 DEF DevicesType, Container
  <2> QED
    BY <1>9, <2>1, <2>2
<1>10. ASSUME NEW d \in Device, Ends(d) PROVE DevicesType'
  <2>1. /\ known' \cup lost' \subseteq 1 .. codes' /\ UNCHANGED codes
        /\ adding' = [adding EXCEPT ![d] = NoAdd]
    BY <1>8, <1>10 DEF Ends
  <2>2. Takes(d) \/ UNCHANGED <<record, holders, local, merged>>
    BY <1>10 DEF Ends
  <2> QED
    BY <1>1, <1>6, <1>9, <2>1, <2>2 DEF DevicesType
<1>11. ASSUME NEW d \in Device, Pushes(d) PROVE DevicesType'
  <2>1. Takes(d) /\ UNCHANGED <<adding, known, lost, codes>>
    BY <1>11 DEF Pushes
  <2> QED
    BY <1>1, <1>9, <2>1 DEF DevicesType, Call
<1>12. ASSUME NEW d \in Device, Moves(d) PROVE DevicesType'
  <2>1. PICK c \in Container : local' = [local EXCEPT ![d] = c]
    BY <1>12 DEF Moves, Set
  <2>2. merged' \in BOOLEAN /\ holders' \subseteq Device
        /\ UNCHANGED <<record, adding, known, lost, codes>>
    BY <1>1, <1>12 DEF Moves, DevicesType
  <2>3. local' \in [Device -> Container]
    BY <1>1, <2>1 DEF DevicesType
  <2> QED
    BY <1>1, <2>2, <2>3 DEF DevicesType, Call, Container
<1> QED
  BY <1>3, <1>4, <1>5, <1>7, <1>10, <1>11, <1>12, StepEffects

-----------------------------------------------------------------------------
(* The recovery.                                                           *)

\* What has been tried: all slots before the next one, and those among them
\* that are of the secret could not be evaluated.
Tried ==
  /\ rec.pc \in {"idle", "read"} => rec.slots = <<>> /\ rec.next = 1
  /\ rec.pc = "try" =>
       /\ rec.failed \subseteq 1 .. (rec.next - 1)
       /\ \A i \in 1 .. (rec.next - 1) :
            rec.slots[i].code = rec.code => i \in rec.failed

RecoveryType ==
  /\ rec \in Recovery
  /\ rec.pc = "try" => rec.next \in 1 .. Len(rec.slots)
  /\ rec.failed \subseteq 1 .. Len(rec.slots)

RecoveryInv == RecoveryType /\ Tried /\ SecretOpensItsSlot

\* No stage of a recovery is an end of it, and no failed call opens the vault.
LEMMA Stages ==
  /\ "idle" \notin Ended /\ "read" \notin Ended /\ "try" \notin Ended
  /\ \A f \in Failures : f.code \in Ended \ {"opened", "vault_not_synced"}
BY DEF Ended, Failures

LEMMA NoRecoveryType ==
  NoRecovery \in Recovery
<1>1. (CHOOSE m \in Method : TRUE) \in Method
  BY PepperAssumption
<1>2. <<>> \in Seq(Slot) /\ 0 \in 0 .. MaxCodes
  BY PepperAssumption
<1> QED
  BY <1>1, <1>2 DEF NoRecovery, Recovery

\* A secret is typed in: no slot is looked at yet.
LEMMA BeginInv ==
  ASSUME RecoveryInv, NEW m \in Method, NEW c \in Code, Begin(m, c)
  PROVE  RecoveryInv'
<1>1. PICK g \in {TRUE, rec.granted} :
        rec' = [NoRecovery EXCEPT !.pc = "read", !.method = m, !.code = c,
                                  !.granted = g]
  BY DEF Begin
<1>2. g \in BOOLEAN /\ c \in 0 .. MaxCodes
  <2>1. rec.granted \in BOOLEAN
    BY DEF RecoveryInv, RecoveryType, Recovery
  <2>2. c \in 0 .. MaxCodes
    BY PepperAssumption DEF Code
  <2> QED
    BY <2>1, <2>2
<1>3. /\ rec' \in Recovery /\ rec'.pc = "read" /\ rec'.slots = <<>>
      /\ rec'.failed = {} /\ rec'.next = 1
  BY <1>1, <1>2, NoRecoveryType DEF Recovery, NoRecovery
<1>4. Recovery' = Recovery
  BY DEF Recovery
<1> QED
  BY <1>3, <1>4, Stages DEF RecoveryInv, RecoveryType, Tried, SecretOpensItsSlot

\* The slots of the method are there, and the first one comes next.
LEMMA ReadRecordInv ==
  ASSUME TypeOK, RecoveryInv, ReadRecord
  PROVE  RecoveryInv'
<1> DEFINE slots == record.slots[rec.method]
           pc == CASE ~rec.granted        -> "unauthorized"
                   [] record.version = 0  -> "vault_not_synced"
                   [] slots = <<>>        -> "ERR_UNLOCK"
                   [] OTHER               -> "try"
           read == IF rec.granted THEN slots ELSE <<>>
<1>1. rec \in Recovery /\ rec.slots = <<>> /\ rec.failed \subseteq 1 .. 0
  BY DEF RecoveryInv, RecoveryType, Tried, ReadRecord
<1>2. slots \in Seq(Slot)
  BY <1>1 DEF TypeOK, Slots, Recovery
<1>3. rec' = [rec EXCEPT !.granted = FALSE, !.slots = read, !.pc = pc]
  BY DEF ReadRecord, SlotsOf
<1>4. /\ pc \in {"unauthorized", "vault_not_synced", "ERR_UNLOCK", "try"}
      /\ pc = "try" => read # <<>>
      /\ pc \in {"unauthorized", "ERR_UNLOCK"} => read = <<>>
      /\ read \in Seq(Slot)
  BY <1>1, <1>2 DEF Recovery
<1> HIDE DEF pc, read
<1>5. /\ rec' = [pc |-> pc, method |-> rec.method, code |-> rec.code,
                 granted |-> FALSE, slots |-> read, next |-> rec.next,
                 failed |-> rec.failed]
  BY <1>1, <1>3 DEF Recovery
<1>6. pc \in {"idle", "read", "try"} \cup Ended
  BY <1>4 DEF Ended
<1>7. rec' \in Recovery
  BY <1>1, <1>4, <1>5, <1>6 DEF Recovery
<1>8. /\ rec'.pc = pc /\ rec'.slots = read /\ rec'.failed = {} /\ rec'.next = 1
  <2>1. rec.next = 1
    BY DEF RecoveryInv, Tried, ReadRecord
  <2>2. rec.failed = {}
    BY <1>1
  <2> QED
    BY <1>5, <2>1, <2>2
<1>9. Len(read) \in Nat /\ (read # <<>> => 1 \in 1 .. Len(read))
  BY <1>4
<1>10. Recovery' = Recovery
  BY DEF Recovery
<1>11. RecoveryType'
  BY <1>4, <1>7, <1>8, <1>9, <1>10 DEF RecoveryType
<1>12. Tried' /\ SecretOpensItsSlot'
  BY <1>4, <1>8, Stages DEF Tried, SecretOpensItsSlot
<1> QED
  BY <1>11, <1>12 DEF RecoveryInv

\* The recovery ends before it saw a slot.
LEMMA ReadFailsInv ==
  ASSUME RecoveryInv, ReadFails
  PROVE  RecoveryInv'
<1>1. PICK f \in Failures :
        rec' = [rec EXCEPT !.pc = f.code, !.granted = @ /\ ~f.taken]
  BY DEF ReadFails
<1>2. f.code \in Ended /\ f.code # "try"
  BY Stages
<1>3. rec \in Recovery /\ rec.slots = <<>> /\ rec.failed \subseteq 1 .. 0
  BY DEF RecoveryInv, RecoveryType, Tried, ReadFails
<1>4. rec' = [pc |-> f.code, method |-> rec.method, code |-> rec.code,
              granted |-> rec.granted /\ ~f.taken, slots |-> <<>>,
              next |-> rec.next, failed |-> rec.failed]
  BY <1>1, <1>3 DEF Recovery
<1>5. rec' \in Recovery
  BY <1>2, <1>3, <1>4 DEF Recovery
<1>6. Recovery' = Recovery
  BY DEF Recovery
<1> QED
  BY <1>2, <1>3, <1>4, <1>5, <1>6, Stages
     DEF RecoveryInv, RecoveryType, Tried, SecretOpensItsSlot

\* The recovery goes on to the next slot, or ends at the last one with an error.
LEMMA GoOnInv ==
  ASSUME RecoveryInv, rec.pc = "try",
         NEW error \in Ended \ {"opened", "vault_not_synced"},
         NEW failed \in {rec.failed, rec.failed \cup {rec.next}},
         rec.slots[rec.next].code = rec.code => rec.next \in failed,
         GoOn(error, failed)
  PROVE  RecoveryInv'
<1>1. /\ rec \in Recovery /\ rec.slots \in Seq(Slot)
      /\ rec.next \in 1 .. Len(rec.slots) /\ Len(rec.slots) \in Nat
  BY DEF RecoveryInv, RecoveryType, Recovery
<1>2. /\ failed \subseteq 1 .. rec.next
      /\ \A i \in 1 .. rec.next :
           rec.slots[i].code = rec.code => i \in failed
  <2>1. /\ rec.failed \subseteq 1 .. (rec.next - 1)
        /\ \A i \in 1 .. (rec.next - 1) :
             rec.slots[i].code = rec.code => i \in rec.failed
    BY DEF RecoveryInv, Tried
  <2>2. 1 .. rec.next = (1 .. (rec.next - 1)) \cup {rec.next}
    BY <1>1
  <2> QED
    BY <2>1, <2>2
<1>3. Recovery' = Recovery
  BY DEF Recovery
<1>4. 1 .. rec.next \subseteq 1 .. Len(rec.slots) /\ 1 .. rec.next \subseteq Nat
  BY <1>1
<1>5. CASE rec.next = Len(rec.slots)
  <2>1. rec' = [pc |-> error, method |-> rec.method, code |-> rec.code,
                granted |-> rec.granted, slots |-> rec.slots,
                next |-> rec.next, failed |-> failed]
    BY <1>1, <1>5 DEF GoOn, IsLast, Recovery
  <2>2. rec' \in Recovery
    BY <1>1, <1>2, <1>4, <2>1 DEF Recovery
  <2> QED
    BY <1>2, <1>3, <1>4, <1>5, <2>1, <2>2, Stages
       DEF RecoveryInv, RecoveryType, Tried, SecretOpensItsSlot
<1>6. CASE rec.next # Len(rec.slots)
  <2>1. rec' = [pc |-> "try", method |-> rec.method, code |-> rec.code,
                granted |-> rec.granted, slots |-> rec.slots,
                next |-> rec.next + 1, failed |-> failed]
    BY <1>1, <1>6 DEF GoOn, IsLast, Recovery
  <2>2. /\ rec.next + 1 \in 1 .. Len(rec.slots)
        /\ rec.next + 1 \in Nat \ {0}
        /\ (rec.next + 1) - 1 = rec.next
    BY <1>1, <1>6
  <2>3. rec' \in Recovery
    BY <1>1, <1>2, <1>4, <2>1, <2>2 DEF Recovery
  <2> QED
    BY <1>2, <1>3, <1>4, <2>1, <2>2, <2>3, Stages
       DEF RecoveryInv, RecoveryType, Tried, SecretOpensItsSlot
<1> QED
  BY <1>5, <1>6

\* The slot opens, and has not failed before, or the recovery goes on.
LEMMA TrySlotInv ==
  ASSUME RecoveryInv, TrySlot
  PROVE  RecoveryInv'
<1>1. /\ rec \in Recovery /\ rec.next \in 1 .. Len(rec.slots)
      /\ rec.failed \subseteq 1 .. (rec.next - 1)
      /\ rec.slots \in Seq(Slot) /\ Len(rec.slots) \in Nat
      /\ rec.pc = "try"
  BY DEF RecoveryInv, RecoveryType, Recovery, Tried, TrySlot
<1>2. CASE rec.slots[rec.next].code = rec.code
  <2>1. rec' = [pc |-> "opened", method |-> rec.method, code |-> rec.code,
                granted |-> rec.granted, slots |-> rec.slots,
                next |-> rec.next, failed |-> rec.failed]
    BY <1>1, <1>2 DEF TrySlot, Unwraps, Recovery
  <2>2. rec' \in Recovery
    BY <1>1, <2>1 DEF Recovery, Ended
  <2>3. rec.next \notin rec.failed
    BY <1>1
  <2>4. Recovery' = Recovery
    BY DEF Recovery
  <2>5. rec.failed \subseteq 1 .. Len(rec.slots)
    BY DEF RecoveryInv, RecoveryType
  <2> QED
    BY <1>1, <1>2, <2>1, <2>2, <2>3, <2>4, <2>5
       DEF RecoveryInv, RecoveryType, Tried, SecretOpensItsSlot
<1>3. CASE rec.slots[rec.next].code # rec.code
  <2>1. GoOn("ERR_WRAP_DECRYPT", rec.failed)
    BY <1>3 DEF TrySlot, Unwraps
  <2>2. "ERR_WRAP_DECRYPT" \in Ended \ {"opened", "vault_not_synced"}
    BY DEF Ended
  <2> QED
    BY <1>1, <1>3, <2>1, <2>2, GoOnInv
<1> QED
  BY <1>2, <1>3

LEMMA StepRecoveryInv ==
  ASSUME TypeOK, RecoveryInv, [Next]_vars
  PROVE  RecoveryInv'
<1>1. ASSUME rec' = rec PROVE RecoveryInv'
  BY <1>1 DEF RecoveryInv, RecoveryType, Recovery, Tried, SecretOpensItsSlot
<1>2. CASE SlotGone
  <2>1. "unknown_kid" \in Ended \ {"opened", "vault_not_synced"}
    BY DEF Ended
  <2>2. /\ rec.pc = "try"
        /\ GoOn("unknown_kid", rec.failed \cup {rec.next})
    BY <1>2 DEF SlotGone
  <2> QED
    BY <2>1, <2>2, GoOnInv
<1>3. CASE EvaluationFails
  <2>1. PICK e \in {f.code : f \in Failures} \cup {"invalid_evaluation"} :
          GoOn(e, rec.failed \cup {rec.next})
    BY <1>3 DEF EvaluationFails
  <2>2. e \in Ended \ {"opened", "vault_not_synced"}
    BY Stages DEF Ended
  <2> QED
    BY <1>3, <2>1, <2>2, GoOnInv DEF EvaluationFails
<1>4. \/ rec' = rec
      \/ \E m \in Method, c \in Code : Begin(m, c)
      \/ ReadRecord \/ ReadFails \/ TrySlot \/ SlotGone \/ EvaluationFails
  BY DEF Next, vars, recovery, Rotate, Drop, AskKeys, Wrap, WrapFails,
         PushQuietly, PushQuietlyFails, PushEnds, Dies, Resolve, Push, PushFails,
         Pull, Adopt
<1> QED
  BY <1>1, <1>2, <1>3, <1>4, BeginInv, ReadRecordInv, ReadFailsInv, TrySlotInv

-----------------------------------------------------------------------------
(* Type correctness.                                                       *)

\* The keys that the host serves, and the bounds.
HostType ==
  /\ served \subseteq Kid /\ current \in served
  /\ tries \in 0 .. MaxTries /\ faults \in 0 .. MaxFaults

LEMMA TypeOKParts ==
  TypeOK <=> HostType /\ DevicesType /\ RecoveryType
BY DEF TypeOK, HostType, DevicesType, RecoveryType

LEMMA StepHostType ==
  ASSUME HostType, Next
  PROVE  HostType'
<1>1. /\ Fault => faults' \in 0 .. MaxFaults
      /\ tries < MaxTries => tries + 1 \in 0 .. MaxTries
  BY PepperAssumption DEF HostType, Fault
<1>2. served' \subseteq Kid /\ current' \in served'
  BY DEF Next, HostType, host, Rotate, Drop, AskKeys, Wrap, WrapFails,
         PushQuietly, PushQuietlyFails, PushEnds, Dies, Resolve, Push, PushFails,
         Pull, Adopt, Begin, ReadRecord, ReadFails,
         TrySlot, SlotGone, EvaluationFails
<1>3. tries' \in 0 .. MaxTries
  BY <1>1 DEF Next, HostType, recovery, Rotate, Drop, AskKeys, Wrap, WrapFails,
         PushQuietly, PushQuietlyFails, PushEnds, Dies, Resolve, Push, PushFails,
         Pull, Adopt, Begin, ReadRecord, ReadFails,
         TrySlot, SlotGone, EvaluationFails
<1>4. faults' \in 0 .. MaxFaults
  BY <1>1 DEF Next, HostType, Rotate, Drop, AskKeys, Wrap, WrapFails,
         PushQuietly, PushQuietlyFails, PushEnds, Dies, Resolve, Push, PushFails,
         Pull, Adopt, Begin, ReadRecord, ReadFails,
         TrySlot, SlotGone, EvaluationFails
<1> QED
  BY <1>2, <1>3, <1>4 DEF HostType

\* A container without slots.
LEMMA NoSlotsHas ==
  /\ NoSlots \in Slots
  /\ \A m \in Method : Range(NoSlots[m]) = {}
<1>1. <<>> \in Seq(Slot) /\ Range(<<>>) = {}
  BY DEF Range
<1> QED
  BY <1>1 DEF NoSlots, Slots

LEMMA InitTypes ==
  Init => TypeOK /\ RecoveryInv
<1> SUFFICES ASSUME Init PROVE TypeOK /\ RecoveryInv
  OBVIOUS
<1>1. HostType
  BY PepperAssumption DEF Init, HostType
<1>2. codes = 0 /\ 0 .. codes = {0}
  BY DEF Init
<1>3. /\ record \in [slots : Slots, version : Nat]
      /\ record.version \in 0 .. record.version
  BY NoSlotsHas DEF Init
<1>4. DevicesType
  <2>1. /\ adding \in [Device -> Call]
        /\ \A d \in Device : adding[d].pc = "idle" /\ adding[d].code = 0
    BY <1>2, NoAddType DEF Init
  <2>2. local \in [Device -> Container] /\ holders \subseteq Device
    <3>1. CASE /\ record = [slots |-> NoSlots, version |-> 0]
               /\ \E d \in Device : holders = {d}
               /\ local = [d \in Device |-> New(NoSlots, 0, 0)]
      <4>1. New(NoSlots, 0, 0) \in Container
        BY <3>1, NoSlotsHas DEF New, Container
      <4> QED
        BY <3>1, <4>1
    <3>2. CASE /\ record = [slots |-> NoSlots, version |-> 1]
               /\ holders = Device
               /\ local = [d \in Device |-> Stored(NoSlots, 1, 1)]
      <4>1. Stored(NoSlots, 1, 1) \in Container
        BY <3>2, NoSlotsHas DEF Stored, Container
      <4> QED
        BY <3>2, <4>1
    <3> QED
      BY <3>1, <3>2 DEF Init
  <2>3. /\ known = {} /\ lost = {} /\ merged = FALSE
        /\ codes \in 0 .. MaxCodes
    BY <1>2, PepperAssumption DEF Init
  <2> QED
    BY <1>3, <2>1, <2>2, <2>3 DEF DevicesType
<1>5. RecoveryInv
  <2>1. /\ rec.pc = "idle" /\ rec.slots = <<>> /\ rec.next = 1
        /\ rec.failed = {}
    BY DEF Init, NoRecovery
  <2>2. rec \in Recovery
    BY NoRecoveryType DEF Init
  <2> QED
    BY <2>1, <2>2, Stages
       DEF RecoveryInv, RecoveryType, Tried, SecretOpensItsSlot
<1> QED
  BY <1>1, <1>4, <1>5, TypeOKParts DEF RecoveryInv

LEMMA StepTypes ==
  ASSUME TypeOK, RecoveryInv, [Next]_vars
  PROVE  TypeOK' /\ RecoveryInv'
<1>1. RecoveryInv'
  BY StepRecoveryInv
<1>2. CASE UNCHANGED vars
  <2>1. HostType' /\ DevicesType'
    BY <1>2, TypeOKParts
       DEF vars, host, devices, recovery, HostType, DevicesType, Call,
           Container
  <2> QED
    BY <1>1, <2>1 DEF RecoveryInv, TypeOK, HostType, DevicesType, RecoveryType
<1>3. CASE Next
  <2>1. HostType' /\ DevicesType'
    BY <1>3, StepHostType, StepDevicesType, TypeOKParts
  <2> QED
    BY <1>1, <2>1 DEF RecoveryInv, TypeOK, HostType, DevicesType, RecoveryType
<1> QED
  BY <1>1, <1>2, <1>3

\* Type correctness: served keys and the current one, slots by method with
\* codes that were made, calls, and a recovery that looks at a slot there is.
THEOREM TypeCorrect == Spec => []TypeOK
<1>1. TypeOK /\ RecoveryInv /\ [Next]_vars => (TypeOK /\ RecoveryInv)'
  BY StepTypes
<1> QED
  BY InitTypes, <1>1, PTL DEF Spec

\* A secret opens its slot: a recovery that got to the slots opens the vault
\* exactly when some slot of the secret could be evaluated, so that no slot
\* that fails hides a later one (the loop of open_host_vault_with_host_pepper).
THEOREM RightSecretOpens == Spec => []SecretOpensItsSlot
<1>1. TypeOK /\ RecoveryInv /\ [Next]_vars => (TypeOK /\ RecoveryInv)'
  BY StepTypes
<1>2. RecoveryInv => SecretOpensItsSlot
  BY DEF RecoveryInv
<1> QED
  BY InitTypes, <1>1, <1>2, PTL DEF Spec

-----------------------------------------------------------------------------
(* The secrets that are in place.                                          *)

\* A slot of the record or of some container.
InPlace(s) ==
  \E m \in Method : \/ s \in Range(record.slots[m])
                    \/ \E d \in Device : s \in Range(local[d].slots[m])

\* The user has a secret, or a call is about to give it out, or its process
\* ended.
InHand(c) ==
  \/ c \in known \cup lost
  \/ \E d \in Device : adding[d].pc = "push" /\ adding[d].code = c

\* Nothing is in place that was not made, and nothing that the user does not
\* get: what a device has not pushed yet counts, since a sync would bring it to
\* the record.
SecretsInv ==
  \A s \in Slot : InPlace(s) => s.code <= codes /\ InHand(s.code)

\* A slot that is anywhere is one.
LEMMA CodesAreNumbers ==
  ASSUME TypeOK, NEW s, InPlace(s)
  PROVE  s \in Slot /\ s.code \in Nat
<1>1. /\ \A m \in Method : record.slots[m] \in Seq(Slot)
      /\ \A d \in Device, m \in Method : local[d].slots[m] \in Seq(Slot)
  BY DEF TypeOK, Slots, Container
<1>2. s \in Slot
  <2>1. PICK m \in Method : \/ s \in Range(record.slots[m])
                            \/ \E d \in Device : s \in Range(local[d].slots[m])
    BY DEF InPlace
  <2>2. CASE s \in Range(record.slots[m])
    BY <1>1, <2>2, ValuesOf
  <2>3. CASE \E d \in Device : s \in Range(local[d].slots[m])
    BY <1>1, <2>3, ValuesOf
  <2> QED
    BY <2>1, <2>2, <2>3
<1> QED
  BY <1>2, PepperAssumption DEF Slot, Code

\* A slot that is new anywhere is the one a commit makes.
LEMMA NewSlotIsWrapped ==
  ASSUME TypeOK, DevicesType, Next, NEW s, InPlace(s)', ~InPlace(s)
  PROVE  \E d \in Device : Wrap(d) /\ s = WrappedSlot(d)
<1>1. \E m \in Method : \/ s \in Range(record'.slots[m])
                        \/ \E d \in Device : s \in Range(local'[d].slots[m])
  BY DEF InPlace
<1>2. \A m \in Method : /\ s \notin Range(record.slots[m])
                        /\ \A d \in Device : s \notin Range(local[d].slots[m])
  BY DEF InPlace
<1>3. local \in [Device -> Container]
  BY DEF DevicesType
<1>4. ASSUME NEW d \in Device, Takes(d)
      PROVE  FALSE
  <2>1. \A m \in Method : s \notin Range(record'.slots[m])
    <3>1. record'.slots = record.slots \/ record'.slots = local[d].slots
      BY <1>4, TakesEffects
    <3> QED
      BY <1>2, <3>1
  <2>2. PICK v : local' = [local EXCEPT ![d] =
                              Stored(local[d].slots, TakenAs(d), v)]
    BY <1>4, TakesEffects
  <2>3. \A e \in Device : local'[e].slots = local[e].slots
    BY <1>3, <2>2 DEF Stored
  <2> QED
    BY <1>1, <1>2, <2>1, <2>3
<1>5. ASSUME record' = record, local' = local
      PROVE  FALSE
  BY <1>1, <1>2, <1>5
<1>6. ASSUME NEW d \in Device, Moves(d)
      PROVE  FALSE
  <2>1. record' = record
    BY <1>6 DEF Moves
  <2>2. PICK c \in Container :
          /\ local' = [local EXCEPT ![d] = c]
          /\ \A m \in Method :
               Range(c.slots[m])
                 \subseteq Range(record.slots[m]) \cup Range(local[d].slots[m])
    BY <1>6 DEF Moves, Set
  <2>3. PICK e \in Device, m \in Method : s \in Range(local'[e].slots[m])
    BY <1>1, <1>2, <2>1
  <2>4. local'[e] = local[e] \/ local'[e] = c
    BY <1>3, <2>2
  <2> QED
    BY <1>2, <2>2, <2>3, <2>4
<1>7. ASSUME NEW d \in Device, Wrap(d)
      PROVE  s = WrappedSlot(d)
  <2> DEFINE new == WrappedSlots(d)
  <2>1. /\ \A x \in Range(new[adding[d].method]) : x = WrappedSlot(d)
        /\ \A k \in Method \ {adding[d].method} : new[k] = local[d].slots[k]
        /\ record' = record
    BY <1>7, WrapEffects
  <2>2. \A e \in Device : \/ local'[e].slots = local[e].slots
                          \/ e = d /\ local'[e].slots = new
    <3>1. local' = [local EXCEPT ![d] =
              New(new,
                  IF local[d].stored = 0 THEN Unsent ELSE local[d].stored,
                  local[d].synced)]
      BY <1>7, WrapEffects
    <3> HIDE DEF new
    <3> QED
      BY <1>3, <3>1 DEF New
  <2> HIDE DEF new
  <2>3. PICK e \in Device, m \in Method : s \in Range(local'[e].slots[m])
    BY <1>1, <1>2, <2>1
  <2>4. e = d /\ s \in Range(new[m])
    BY <1>2, <2>2, <2>3
  <2>5. m = adding[d].method
    BY <1>2, <2>1, <2>4
  <2> QED
    BY <2>1, <2>4, <2>5
<1>8. ~UNCHANGED devices
  BY <1>5 DEF devices
<1>9. ASSUME NEW d \in Device
      PROVE  ~Asks(d) /\ ~Drops(d) /\ ~Ends(d) /\ ~Pushes(d) /\ ~Moves(d)
  <2>1. ~Asks(d) /\ ~Drops(d)
    BY <1>5 DEF Asks, Drops
  <2>2. ~Ends(d) /\ ~Pushes(d)
    BY <1>4, <1>5 DEF Ends, Pushes
  <2> QED
    BY <1>6, <2>1, <2>2
<1> QED
  BY <1>7, <1>8, <1>9, StepEffects

\* What is in hand stays so: a call that ends gives its secret out, or ended
\* with its process.
LEMMA InHandStays ==
  ASSUME TypeOK, DevicesType, Next, NEW c, InHand(c)
  PROVE  InHand(c)'
<1>1. adding \in [Device -> Call]
  BY DEF DevicesType
<1>2. ASSUME NEW d \in Device, Wrap(d)
      PROVE  /\ adding[d].pc = "wrap" /\ UNCHANGED <<known, lost>>
             /\ \A e \in Device \ {d} : adding'[e] = adding[e]
  BY <1>1, <1>2 DEF Wrap
<1>3. CASE c \in known \cup lost
  <2>1. known \subseteq known' /\ lost \subseteq lost'
    BY <1>2, StepEffects DEF devices, Asks, Drops, Ends, Pushes, Moves
  <2> QED
    BY <1>3, <2>1 DEF InHand
<1>4. ASSUME NEW e \in Device, adding[e].pc = "push", adding[e].code = c
      PROVE  InHand(c)'
  <2>1. ASSUME adding'[e] = adding[e] PROVE InHand(c)'
    BY <1>4, <2>1 DEF InHand
  <2>2. ASSUME c \in known' \cup lost' PROVE InHand(c)'
    BY <2>2 DEF InHand
  <2>3. ASSUME NEW d \in Device, d # e,
               Asks(d) \/ Wrap(d) \/ Drops(d) \/ Ends(d)
        PROVE  adding'[e] = adding[e]
    BY <1>1, <1>2, <2>3 DEF Asks, Drops, Ends
  <2>4. ASSUME Ends(e) PROVE c \in known' \cup lost'
    BY <1>4, <2>4 DEF Ends
  <2>5. ~Asks(e) /\ ~Wrap(e) /\ ~Drops(e)
    BY <1>4 DEF Asks, Wrap, Drops
  <2>6. ASSUME NEW d \in Device, Pushes(d) \/ Moves(d)
        PROVE  adding'[e] = adding[e]
    BY <2>6 DEF Pushes, Moves
  <2>7. UNCHANGED devices => adding'[e] = adding[e]
    BY DEF devices
  <2> QED
    BY <2>1, <2>2, <2>3, <2>4, <2>5, <2>6, <2>7, StepEffects
<1> QED
  BY <1>3, <1>4 DEF InHand

LEMMA StepSecrets ==
  ASSUME TypeOK, DevicesType, SecretsInv, Next
  PROVE  SecretsInv'
<1>1. codes \in Nat /\ codes' \in Nat /\ codes <= codes'
  <2>1. codes \in Nat
    BY PepperAssumption DEF TypeOK
  <2>2. codes' = codes \/ codes' = codes + 1
    BY WrapEffects, StepEffects DEF devices, Asks, Drops, Ends, Pushes, Moves
  <2> QED
    BY <2>1, <2>2
<1>2. ASSUME NEW s, InPlace(s)'
      PROVE  s.code <= codes' /\ InHand(s.code)'
  <2>1. CASE InPlace(s)
    <3>1. s \in Slot /\ s.code \in Nat
      BY <2>1, CodesAreNumbers
    <3>2. s.code <= codes /\ InHand(s.code)
      BY <2>1, <3>1 DEF SecretsInv
    <3>3. s.code <= codes'
      BY <1>1, <3>1, <3>2
    <3> QED
      BY <3>2, <3>3, InHandStays
  <2>2. CASE ~InPlace(s)
    <3>1. PICK d \in Device : Wrap(d) /\ s = WrappedSlot(d)
      BY <1>2, <2>2, NewSlotIsWrapped
    <3>2. s.code = codes + 1 /\ codes' = codes + 1
      BY <3>1, WrapEffects
    <3>3. adding'[d].pc = "push" /\ adding'[d].code = codes + 1
      <4>1. adding \in [Device -> Call]
        BY DEF DevicesType
      <4>2. adding' = [adding EXCEPT ![d] = [adding[d] EXCEPT !.pc = "push",
                                                        !.code = codes + 1]]
        BY <3>1, WrapEffects
      <4> QED
        BY <4>1, <4>2 DEF Call
    <3> QED
      BY <1>1, <3>2, <3>3 DEF InHand
  <2> QED
    BY <2>1, <2>2
<1> QED
  BY <1>2 DEF SecretsInv

LEMMA InitSecrets ==
  Init => SecretsInv
<1> SUFFICES ASSUME Init, NEW s, InPlace(s) PROVE FALSE
  BY DEF SecretsInv
<1>1. /\ record.slots = NoSlots
      /\ \A d \in Device : local[d].slots = NoSlots
  BY DEF Init, New, Stored
<1> QED
  BY <1>1, NoSlotsHas DEF InPlace

\* The user has every secret of the record, or gets it from a call that is
\* under way, or the process ended inside the call that made it. No failing
\* push loses a secret, since commit discards what push_quietly returns: the
\* same holds of every slot that is not on the host yet.
THEOREM NobodyIsLockedOut == Spec => []EverySecretIsKnown
<1>1. Init => TypeOK /\ SecretsInv
  BY InitTypes, InitSecrets
<1>2. TypeOK /\ SecretsInv /\ [Next]_vars => SecretsInv'
  <2>1. UNCHANGED vars /\ SecretsInv => SecretsInv'
    BY DEF vars, devices, SecretsInv, InPlace, InHand
  <2> QED
    BY <2>1, StepSecrets, TypeOKParts
<1>3. TypeOK /\ SecretsInv => EverySecretIsKnown
  <2> SUFFICES ASSUME TypeOK, SecretsInv, NEW m \in Method,
                      NEW s \in Range(record.slots[m])
               PROVE  InHand(s.code)
    BY DEF EverySecretIsKnown, InHand
  <2>1. InPlace(s)
    BY DEF InPlace
  <2>2. s \in Slot
    BY <2>1, CodesAreNumbers
  <2> QED
    BY <2>1, <2>2 DEF SecretsInv
<1> QED
  BY <1>1, <1>2, <1>3, TypeCorrect, PTL DEF Spec

-----------------------------------------------------------------------------
(* Replacing a secret.                                                     *)

\* Slots of a device against those of the record: the same of a method, or
\* only newer ones.
Replaces(slots) ==
  \A m \in Method :
    \/ slots[m] = record.slots[m]
    \/ \A s \in Range(slots[m]), t \in Range(record.slots[m]) : t.code < s.code

\* A container that the host has is not older than the one noted in
\* synced_hash, and has the record's slots if it is the record.
OnRecord(d) ==
  /\ local[d].stored # 0 => local[d].synced <= local[d].stored
  /\ local[d].stored # 0 /\ local[d].stored = record.version
       => local[d].slots = record.slots

\* The host takes the container, now or after a rechain.
MayExtend(d) ==
  /\ local[d].stored = 0
  /\ local[d].parent = record.version \/ local[d].synced = record.version

OnRecordInv == \A d \in Device : OnRecord(d)

\* So it is with every device while nobody merged.
ReplacesInv ==
  ~merged => \A d \in Device : MayExtend(d) => Replaces(local[d].slots)

ReplaceInv == OnRecordInv /\ ReplacesInv

\* Versions of a device's container are numbers up to the record's.
LEMMA Versions ==
  ASSUME DevicesType, NEW d \in Device
  PROVE  /\ record.version \in Nat
         /\ local[d].stored \in 0 .. record.version
         /\ local[d].synced \in 0 .. record.version
         /\ local[d].parent \in {Unsent} \cup 0 .. record.version
         /\ local[d].slots \in Slots
BY DEF DevicesType, Container

\* A merge is not forgotten.
LEMMA StepMerged ==
  ASSUME TypeOK, DevicesType, Next, ~merged'
  PROVE  ~merged
<1>1. ASSUME NEW d \in Device, Takes(d) PROVE merged' = merged
  BY <1>1, TakesEffects
<1>2. ASSUME NEW d \in Device, Wrap(d) PROVE merged' = merged
  BY <1>2 DEF Wrap
<1>3. ASSUME NEW d \in Device, Moves(d) PROVE merged' = merged
  BY <1>3 DEF Moves
<1> QED
  BY <1>1, <1>2, <1>3, StepEffects DEF devices, Asks, Drops, Ends, Pushes

LEMMA TakesReplaces ==
  ASSUME TypeOK, DevicesType, ReplaceInv, NEW d \in Device, Takes(d)
  PROVE  ReplaceInv'
<1>1. merged' = merged
  BY TakesEffects
<1>2. ASSUME NEW e \in Device \ {d}
      PROVE  OnRecord(e)' /\ (~merged /\ MayExtend(e)' => Replaces(local[e].slots)')
  <2>1. local'[e] = local[e]
    BY TakesEffects DEF DevicesType
  <2>2. CASE record' = record
    BY <2>1, <2>2 DEF ReplaceInv, OnRecordInv, ReplacesInv, OnRecord, MayExtend,
                      Replaces
  <2>3. CASE record'.version = record.version + 1
    <3>1. /\ local[e].stored # record'.version
          /\ local[e].synced # record'.version
          /\ local[e].parent # record'.version
      BY <2>3, Versions DEF Unsent
    <3>2. ~MayExtend(e)'
      BY <2>1, <3>1 DEF MayExtend
    <3>3. OnRecord(e)'
      BY <2>1, <3>1 DEF ReplaceInv, OnRecordInv, OnRecord
    <3> QED
      BY <3>2, <3>3
  <2> QED
    BY <2>2, <2>3, TakesEffects
<1>3. OnRecord(d)' /\ ~MayExtend(d)'
  <2>1. PICK v \in {local[d].synced, TakenAs(d)} :
          local' = [local EXCEPT ![d] = Stored(local[d].slots, TakenAs(d), v)]
    BY TakesEffects
  <2>2. /\ local'[d].slots = local[d].slots /\ local'[d].stored = TakenAs(d)
        /\ local'[d].synced = v
    BY <2>1 DEF DevicesType, Stored
  <2>3. TakenAs(d) \in Nat \ {0}
    BY TakesEffects, Versions
  <2>4. CASE record' = record /\ TakenAs(d) = local[d].stored
    BY <2>2, <2>3, <2>4, Versions
       DEF ReplaceInv, OnRecordInv, OnRecord, MayExtend
  <2>5. CASE /\ record' = [slots   |-> local[d].slots,
                           version |-> record.version + 1]
             /\ TakenAs(d) = record.version + 1
    <3>1. v <= TakenAs(d)
      BY <2>3, <2>5, Versions
    <3> QED
      BY <2>2, <2>3, <2>5, <3>1 DEF OnRecord, MayExtend
  <2>6. record.version + 1 # record.version
    BY Versions
  <2> QED
    BY <2>4, <2>5, <2>6, TakesEffects
<1> QED
  BY <1>1, <1>2, <1>3 DEF ReplaceInv, OnRecordInv, ReplacesInv

LEMMA MovesReplaces ==
  ASSUME TypeOK, DevicesType, ReplaceInv, NEW d \in Device, Moves(d)
  PROVE  ReplaceInv'
<1>1. PICK c \in Container :
        /\ local' = [local EXCEPT ![d] = c]
        /\ c.stored # 0 => c.stored = record.version /\ c.synced = record.version
        /\ \/ merged' = TRUE /\ c.stored = 0
           \/ /\ merged' = merged
              /\ \/ c.slots = record.slots
                 \/ /\ c.slots = local[d].slots
                    /\ local[d].stored # 0 => local[d].stored = record.version
                    /\ local[d].stored = 0 =>
                         c.stored = 0 /\ local[d].synced = record.version
  BY DEF Moves, Set
<1>2. record' = record
  BY DEF Moves
<1>3. local'[d] = c /\ \A e \in Device \ {d} : local'[e] = local[e]
  BY <1>1 DEF DevicesType
<1>4. ~merged' => ~merged
  BY <1>1
<1>5. OnRecord(d)'
  <2>1. CASE c.stored = 0
    BY <1>3, <2>1 DEF OnRecord
  <2>2. CASE c.stored # 0
    <3>1. c.synced <= c.stored
      BY <1>1, <2>2, Versions
    <3>2. c.slots = record.slots
      BY <1>1, <2>2 DEF ReplaceInv, OnRecordInv, OnRecord
    <3> QED
      BY <1>2, <1>3, <3>1, <3>2 DEF OnRecord
  <2> QED
    BY <2>1, <2>2
<1>6. ASSUME ~merged', c.stored = 0 PROVE Replaces(c.slots)
  <2>1. CASE c.slots = record.slots
    BY <2>1 DEF Replaces
  <2>2. CASE /\ c.slots = local[d].slots
             /\ local[d].stored # 0 /\ local[d].stored = record.version
    BY <2>2 DEF ReplaceInv, OnRecordInv, OnRecord, Replaces
  <2>3. CASE /\ c.slots = local[d].slots
             /\ local[d].stored = 0 /\ local[d].synced = record.version
    BY <1>4, <1>6, <2>3 DEF ReplaceInv, ReplacesInv, MayExtend
  <2> QED
    BY <1>1, <1>6, <2>1, <2>2, <2>3
<1>7. ReplacesInv'
  <2> SUFFICES ASSUME ~merged', NEW e \in Device, MayExtend(e)'
               PROVE  Replaces(local[e].slots)'
    BY DEF ReplacesInv
  <2>1. CASE e = d
    <3>1. Replaces(c.slots)
      BY <1>3, <1>6, <2>1 DEF MayExtend
    <3> QED
      BY <1>2, <1>3, <2>1, <3>1 DEF Replaces
  <2>2. CASE e # d
    BY <1>2, <1>3, <1>4, <2>2 DEF ReplaceInv, ReplacesInv, MayExtend, Replaces
  <2> QED
    BY <2>1, <2>2
<1> QED
  BY <1>2, <1>3, <1>5, <1>7 DEF ReplaceInv, OnRecordInv, OnRecord

LEMMA WrapReplaces ==
  ASSUME TypeOK, DevicesType, SecretsInv, ReplaceInv, NEW d \in Device, Wrap(d)
  PROVE  ReplaceInv'
<1> DEFINE new == WrappedSlots(d)
           p   == IF local[d].stored = 0 THEN Unsent ELSE local[d].stored
<1>1. /\ record' = record /\ merged' = merged
      /\ local' = [local EXCEPT ![d] = New(new, p, local[d].synced)]
      /\ WrappedSlot(d).code = codes + 1
      /\ \A x \in Range(new[adding[d].method]) : x = WrappedSlot(d)
      /\ \A k \in Method \ {adding[d].method} : new[k] = local[d].slots[k]
  BY WrapEffects
<1> HIDE DEF new
<1>2. /\ local'[d].slots = new /\ local'[d].stored = 0
      /\ local'[d].parent = p /\ local'[d].synced = local[d].synced
      /\ \A e \in Device \ {d} : local'[e] = local[e]
  <2> HIDE DEF p
  <2> QED
    BY <1>1 DEF DevicesType, New
<1>3. OnRecordInv'
  BY <1>1, <1>2 DEF ReplaceInv, OnRecordInv, OnRecord
<1>4. ASSUME NEW m \in Method, NEW t \in Range(record.slots[m])
      PROVE  t.code < codes + 1
  <2>1. InPlace(t)
    BY DEF InPlace
  <2>2. t \in Slot /\ t.code \in Nat /\ codes \in Nat
    BY <2>1, CodesAreNumbers, PepperAssumption DEF TypeOK
  <2>3. t.code <= codes
    BY <2>1, <2>2 DEF SecretsInv
  <2> QED
    BY <2>2, <2>3
<1>5. ASSUME ~merged, p = record.version \/ local[d].synced = record.version
      PROVE  Replaces(local[d].slots)
  <2>1. CASE local[d].stored = 0
    <3>1. local[d].synced = record.version
      BY <1>5, <2>1, Versions DEF Unsent
    <3> QED
      BY <1>5, <2>1, <3>1 DEF ReplaceInv, ReplacesInv, MayExtend
  <2>2. CASE local[d].stored # 0
    <3>1. local[d].stored = record.version
      <4>1. local[d].synced <= local[d].stored
        BY <2>2 DEF ReplaceInv, OnRecordInv, OnRecord
      <4> QED
        BY <1>5, <2>2, <4>1, Versions
    <3> QED
      BY <2>2, <3>1 DEF ReplaceInv, OnRecordInv, OnRecord, Replaces
  <2> QED
    BY <2>1, <2>2
<1>6. ASSUME ~merged, p = record.version \/ local[d].synced = record.version
      PROVE  Replaces(new)
  <2> SUFFICES ASSUME NEW m \in Method
               PROVE  \/ new[m] = record.slots[m]
                      \/ \A s \in Range(new[m]), t \in Range(record.slots[m]) :
                           t.code < s.code
    BY DEF Replaces
  <2>1. CASE m = adding[d].method
    BY <1>1, <1>4, <2>1
  <2>2. CASE m # adding[d].method
    <3>1. new[m] = local[d].slots[m]
      BY <1>1, <2>2
    <3>2. Replaces(local[d].slots)
      BY <1>5, <1>6
    <3> QED
      BY <3>1, <3>2 DEF Replaces
  <2> QED
    BY <2>1, <2>2
<1> HIDE DEF p
<1>7. ReplacesInv'
  <2> SUFFICES ASSUME ~merged, NEW e \in Device, MayExtend(e)'
               PROVE  Replaces(local[e].slots)'
    BY <1>1 DEF ReplacesInv
  <2>1. CASE e = d
    <3>1. p = record.version \/ local[d].synced = record.version
      BY <1>1, <1>2, <2>1 DEF MayExtend
    <3> QED
      BY <1>1, <1>2, <1>6, <2>1, <3>1 DEF Replaces
  <2>2. CASE e # d
    BY <1>1, <1>2, <2>2 DEF ReplaceInv, ReplacesInv, MayExtend, Replaces
  <2> QED
    BY <2>1, <2>2
<1> QED
  BY <1>3, <1>7 DEF ReplaceInv

LEMMA StepReplaceInv ==
  ASSUME TypeOK, DevicesType, SecretsInv, ReplaceInv, Next
  PROVE  ReplaceInv'
<1>1. ASSUME UNCHANGED <<record, local, merged>> PROVE ReplaceInv'
  BY <1>1 DEF ReplaceInv, OnRecordInv, ReplacesInv, OnRecord, MayExtend, Replaces
<1> QED
  BY <1>1, TakesReplaces, MovesReplaces, WrapReplaces, StepEffects
     DEF devices, Asks, Drops, Ends, Pushes

\* A slot comes to the host only in the place of every older one of its method.
LEMMA StepReplaces ==
  ASSUME TypeOK, DevicesType, ReplaceInv, Next, ~merged',
         NEW m \in Method,
         NEW s \in Range(record'.slots[m]) \ Range(record.slots[m]),
         NEW t \in Range(record.slots[m])
  PROVE  t.code < s.code /\ t \notin Range(record'.slots[m])
<1>1. record' # record
  OBVIOUS
<1>2. PICK d \in Device : Takes(d)
  <2>1. \A d \in Device : ~Wrap(d)
    BY <1>1 DEF Wrap
  <2> QED
    BY <1>1, <2>1, StepEffects DEF devices, Asks, Drops, Ends, Pushes, Moves
<1>3. record'.slots = local[d].slots /\ Extends(d)
  BY <1>1, <1>2, TakesEffects
<1>4. Replaces(local[d].slots)
  BY <1>3, StepMerged DEF Extends, MayExtend, ReplaceInv, ReplacesInv
<1>5. \A x \in Range(local[d].slots[m]), y \in Range(record.slots[m]) :
        y.code < x.code
  BY <1>3, <1>4 DEF Replaces
<1>6. t.code \in Nat
  <2>1. InPlace(t)
    BY DEF InPlace
  <2> QED
    BY <2>1, CodesAreNumbers
<1>7. t \notin Range(local[d].slots[m])
  BY <1>5, <1>6
<1> QED
  BY <1>3, <1>5, <1>7

\* A replaced secret opens nothing: while no device merged its work into
\* another's, a slot comes to the host only in the place of every older slot of
\* its method and takes them off the record (replace_pepper_slot), whatever
\* answers are lost and containers rechained.
THEOREM ReplacedIsGone == Spec => ReplacedCodeIsGone
<1>1. Init => SecretsInv /\ ReplaceInv
  <2>1. Init => \A d \in Device : local[d].slots = record.slots
                                  /\ local[d].synced = local[d].stored
    BY DEF Init, New, Stored
  <2>2. Init => \A d \in Device : local[d].synced <= local[d].stored
    BY DEF Init, New, Stored
  <2>3. Init => ReplaceInv
    BY <2>1, <2>2 DEF ReplaceInv, OnRecordInv, ReplacesInv, OnRecord, Replaces
  <2> QED
    BY <2>3, InitSecrets
<1>2. TypeOK /\ SecretsInv /\ ReplaceInv /\ [Next]_vars
        => SecretsInv' /\ ReplaceInv'
  <2>1. UNCHANGED vars /\ SecretsInv => SecretsInv'
    BY DEF vars, devices, SecretsInv, InPlace, InHand
  <2>2. UNCHANGED vars /\ ReplaceInv => ReplaceInv'
    BY DEF vars, devices, ReplaceInv, OnRecordInv, ReplacesInv, OnRecord,
           MayExtend, Replaces
  <2> QED
    BY <2>1, <2>2, StepSecrets, StepReplaceInv, TypeOKParts
<1>3. TypeOK /\ ReplaceInv /\ [Next]_vars
        => [~merged' =>
              \A m \in Method :
                \A s \in Range(record'.slots[m]) \ Range(record.slots[m]),
                   t \in Range(record.slots[m]) :
                  /\ t.code < s.code
                  /\ t \notin Range(record'.slots[m])]_vars
  BY StepReplaces, TypeOKParts DEF vars
<1> QED
  BY <1>1, <1>2, <1>3, TypeCorrect, PTL DEF Spec, ReplacedCodeIsGone
=============================================================================
