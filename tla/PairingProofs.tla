--------------------------- MODULE PairingProofs ---------------------------
(***************************************************************************)
(* The safety properties of Pairing, for any number of sessions, approvers *)
(* and failing calls. They follow from one inductive invariant, Inv, which *)
(* says how far the two sides and the mailbox between them may be apart.   *)
(*                                                                         *)
(* In the second half what CPace computes for a pairing and the two        *)
(* oblivious functions of the vault host, in a group of any prime order,   *)
(* and which of the keys of a document is chosen.                          *)
(***************************************************************************)
EXTENDS Pairing, MCAlgorithms, FiniteSetTheorems, TLAPS

\* An answer in a mailbox was put there by an approver that had pushed.
AnswersAreBacked ==
  \A s \in Session :
    mailbox[s].state \in {"RESPONDED", "COMPLETED"}
      => mailbox[s].by \in Approver /\ stored

\* Only the new device's own poll collects an answer, and then it is done
\* polling; it reads on only if the answer was under its password.
CollectedByOwner ==
  \A s \in Session :
    /\ mailbox[s].state = "COMPLETED"
         => newpc[s] \notin {"none", "poll", "clock", "expired"}
    /\ newpc[s] \in {"read", "joined"}
         => mailbox[s].state = "COMPLETED" /\ mailbox[s].right
    /\ newpc[s] = "none" => mailbox[s].state = "NONE"
    /\ newpc[s] # "not_synced"

\* An approver that polls has its own answer in the mailbox it polls.
ApproversHoldTheirs ==
  \A a \in Approver :
    /\ pc[a] \in {"fetched", "respond", "wait", "clock", "ok"}
         => work[a] \in Session
    /\ pc[a] = "respond" => stored
    /\ pc[a] \in {"wait", "clock", "ok"}
         => /\ mailbox[work[a]].state \in {"RESPONDED", "COMPLETED"}
            /\ mailbox[work[a]].by = a
    /\ pc[a] = "ok" => mailbox[work[a]].state = "COMPLETED"

Inv == TypeOK /\ AnswersAreBacked /\ CollectedByOwner /\ ApproversHoldTheirs

\* The steps of one new device, and those of one approver.
NewStep(s) == \/ Start(s) \/ NewSteps(s) \/ Expire(s)
              \/ StartFails(s) \/ PollFails(s) \/ ReadFails(s)

ApproverStep(a) == \/ \E s \in Session : Fetch(a, s)
                   \/ Steps(a) \/ Deadline(a)
                   \/ PushFails(a) \/ RespondFails(a) \/ WaitFails(a)

-----------------------------------------------------------------------------
(* Types.                                                                  *)

\* Nothing has been opened, answered or fetched, which is well typed.
LEMMA InitType == Init => TypeOK
<1> SUFFICES ASSUME Init
             PROVE  TypeOK
  OBVIOUS
<1> USE PairingAssumption DEF Init, TypeOK
<1>1. mailbox \in [Session -> [state : {"NONE", "PENDING", "RESPONDED",
                                       "COMPLETED"},
                              by    : Approver \cup {NoOne},
                              right : BOOLEAN]]
  OBVIOUS
<1>2. pc \in [Approver -> Running \cup Ended] /\ tokens \subseteq Session
  BY DEF Ended
<1>3. faults \in 0 .. MaxFaults
  OBVIOUS
<1>4. newpc \in [Session -> {"none"} \cup NewRunning \cup NewEnded]
  OBVIOUS
<1> QED
  BY <1>1, <1>2, <1>3, <1>4

\* What a poll leads to is a place of the new device's.
LEMMA HeardType ==
  ASSUME NEW s \in Session
  PROVE  Heard(s) \in NewRunning \cup NewEnded
<1>1. Heard(s) \in {"read", "mismatch", "already_responded", "clock"}
  BY DEF Heard
<1> QED
  BY <1>1 DEF NewRunning, NewEnded

MailboxTyped == mailbox \in [Session -> [state : {"NONE", "PENDING",
                                                  "RESPONDED", "COMPLETED"},
                                        by    : Approver \cup {NoOne},
                                        right : BOOLEAN]]

\* A poll, counted by the host or not, keeps the types of its mailboxes.
LEMMA CollectType ==
  ASSUME TypeOK, NEW s \in Session,
         Collect(s) \/ UNCHANGED <<mailbox, tokens>>
  PROVE  MailboxTyped' /\ tokens' \subseteq Session
<1>1. CASE UNCHANGED <<mailbox, tokens>>
  BY <1>1 DEF TypeOK, MailboxTyped
<1>2. CASE /\ mailbox' = [mailbox EXCEPT ![s].state = "COMPLETED"]
           /\ tokens' = tokens \cup {s}
  BY <1>2 DEF TypeOK, MailboxTyped
<1> QED
  BY <1>1, <1>2 DEF Collect

\* So does an answer.
LEMMA AnswerType ==
  ASSUME TypeOK, NEW a \in Approver, NEW s \in Session,
         NEW right \in BOOLEAN, Answer(a, s, right)
  PROVE  MailboxTyped'
<1>1. CASE UNCHANGED mailbox
  BY <1>1 DEF TypeOK, MailboxTyped
<1>2. CASE mailbox' = [mailbox EXCEPT ![s] =
                         [state |-> "RESPONDED", by |-> a, right |-> right]]
  BY <1>2 DEF TypeOK, MailboxTyped
<1> QED
  BY <1>1, <1>2 DEF Answer

\* The steps of start_pairing and await_response keep the types.
LEMMA NewStepType ==
  ASSUME TypeOK, NEW s \in Session, NewStep(s)
  PROVE  TypeOK'
<1> USE PairingAssumption DEF TypeOK, approver, newDevice, NewGoto
<1>1. CASE Start(s)
  BY <1>1 DEF Start, OpenMailbox, NewRunning
<1>2. CASE Poll(s)
  <2>1. newpc' \in [Session -> {"none"} \cup NewRunning \cup NewEnded]
    <3>1. newpc' = [newpc EXCEPT ![s] = Heard(s)]
      BY <1>2 DEF Poll
    <3> QED
      BY <3>1, HeardType
  <2>2. Collect(s) /\ UNCHANGED <<stored, expired, approver, faults>>
    BY <1>2 DEF Poll
  <2> QED
    BY <2>1, <2>2, CollectType DEF MailboxTyped
<1>3. CASE PollClock(s)
  BY <1>3 DEF PollClock, NewRunning, NewEnded
<1>4. CASE Read(s)
  BY <1>4 DEF Read, NewEnded
<1>5. CASE Expire(s)
  BY <1>5 DEF Expire
<1>6. CASE StartFails(s)
  BY <1>6 DEF StartFails, OpenMailbox, Fault, NewEnded
<1>7. CASE PollFails(s)
  <2>1. newpc' \in [Session -> {"none"} \cup NewRunning \cup NewEnded]
    BY <1>7 DEF PollFails, NewEnded
  <2>2. faults' \in 0 .. MaxFaults
    BY <1>7 DEF PollFails, Fault
  <2>3. /\ Collect(s) \/ UNCHANGED <<mailbox, tokens>>
        /\ UNCHANGED <<stored, expired, approver>>
    BY <1>7 DEF PollFails
  <2> QED
    BY <2>1, <2>2, <2>3, CollectType DEF MailboxTyped
<1>8. CASE ReadFails(s)
  BY <1>8 DEF ReadFails, Fault, NewEnded
<1> QED
  BY <1>1, <1>2, <1>3, <1>4, <1>5, <1>6, <1>7, <1>8 DEF NewStep, NewSteps

\* So do those of fetch_pairing_request and approve_pairing.
LEMMA ApproverStepType ==
  ASSUME TypeOK, ApproversHoldTheirs, NEW a \in Approver, ApproverStep(a)
  PROVE  TypeOK'
<1> USE PairingAssumption
    DEF TypeOK, approver, newDevice, Goto, Running, Ended
<1>1. CASE \E s \in Session : Fetch(a, s)
  BY <1>1 DEF Fetch
<1>2. CASE Push(a)
  BY <1>2 DEF Push
<1>3. CASE Respond(a)
  <2>1. work[a] \in Session
    BY <1>3 DEF Respond, ApproversHoldTheirs
  <2>2. PICK right \in BOOLEAN : Answer(a, work[a], right)
    BY <1>3 DEF Respond
  <2>3. pc' \in [Approver -> Running \cup Ended]
    BY <1>3 DEF Respond
  <2>4. UNCHANGED <<tokens, stored, newDevice, work, due, faults>>
    BY <1>3 DEF Respond
  <2> QED
    BY <2>1, <2>2, <2>3, <2>4, AnswerType DEF MailboxTyped
<1>4. CASE Wait(a) \/ WaitClock(a) \/ Deadline(a)
  BY <1>4 DEF Wait, WaitClock, Deadline
<1>5. CASE PushFails(a)
  <2>1. stored' \in BOOLEAN
    BY <1>5 DEF PushFails
  <2> QED
    BY <1>5, <2>1 DEF PushFails, Fault
<1>7. CASE WaitFails(a)
  BY <1>7 DEF WaitFails, Fault
<1>6. CASE RespondFails(a)
  <2>1. work[a] \in Session
    BY <1>6 DEF RespondFails, ApproversHoldTheirs
  <2>2. MailboxTyped'
    <3>1. CASE \E right \in BOOLEAN : Answer(a, work[a], right)
      BY <2>1, <3>1, AnswerType
    <3>2. CASE UNCHANGED mailbox
      BY <3>2 DEF MailboxTyped
    <3> QED
      BY <1>6, <3>1, <3>2 DEF RespondFails
  <2>3. pc' \in [Approver -> Running \cup Ended]
    BY <1>6 DEF RespondFails
  <2>4. faults' \in 0 .. MaxFaults
    BY <1>6 DEF RespondFails, Fault
  <2>5. UNCHANGED <<tokens, stored, newDevice, work, due>>
    BY <1>6 DEF RespondFails
  <2> QED
    BY <2>2, <2>3, <2>4, <2>5 DEF MailboxTyped
<1> QED
  BY <1>1, <1>2, <1>3, <1>4, <1>5, <1>6, <1>7 DEF ApproverStep, Steps

-----------------------------------------------------------------------------
(* The steps of a new device.                                              *)

\* A new device touches no mailbox but its own, and changes what an answer
\* says in none.
LEMMA NewStepKeepsAnswers ==
  ASSUME TypeOK, NEW s \in Session, NewStep(s)
  PROVE  /\ UNCHANGED <<stored, pc, work>>
         /\ \A t \in Session : mailbox[t].state \in {"RESPONDED", "COMPLETED"}
              => /\ mailbox'[t].by = mailbox[t].by
                 /\ mailbox'[t].right = mailbox[t].right
         /\ \A t \in Session \ {s} : /\ mailbox'[t] = mailbox[t]
                                     /\ newpc'[t] = newpc[t]
<1> USE DEF TypeOK, approver, NewGoto
<1>1. CASE Start(s) \/ StartFails(s)
  BY <1>1 DEF Start, StartFails, OpenMailbox
<1>2. CASE Poll(s) \/ PollFails(s)
  BY <1>2 DEF Poll, PollFails, Collect
<1>3. CASE PollClock(s) \/ Read(s) \/ Expire(s) \/ ReadFails(s)
  BY <1>3 DEF PollClock, Read, Expire, ReadFails
<1> QED
  BY <1>1, <1>2, <1>3 DEF NewStep, NewSteps

\* An answer it finds was there before, and stays.
LEMMA NewStepKeepsState ==
  ASSUME TypeOK, CollectedByOwner, NEW s \in Session, NewStep(s)
  PROVE  /\ mailbox'[s].state \in {"RESPONDED", "COMPLETED"}
              <=> mailbox[s].state \in {"RESPONDED", "COMPLETED"}
         /\ mailbox[s].state = "COMPLETED" => mailbox'[s].state = "COMPLETED"
<1> USE DEF TypeOK, NewGoto
<1>1. CASE Start(s) \/ StartFails(s)
  BY <1>1 DEF Start, StartFails, OpenMailbox, CollectedByOwner
<1>2. CASE Poll(s) \/ PollFails(s)
  BY <1>2 DEF Poll, PollFails, Collect
<1>3. CASE PollClock(s) \/ Read(s) \/ Expire(s) \/ ReadFails(s)
  BY <1>3 DEF PollClock, Read, Expire, ReadFails
<1> QED
  BY <1>1, <1>2, <1>3 DEF NewStep, NewSteps

\* A new device that collects an answer is done polling with that step.
LEMMA NewStepOwner ==
  ASSUME Inv, NEW s \in Session, NewStep(s)
  PROVE  CollectedByOwner'
<1> USE DEF Inv
<1>1. ASSUME NEW t \in Session \ {s}
      PROVE  CollectedByOwner!(t)'
  BY <1>1, NewStepKeepsAnswers DEF CollectedByOwner
<1>2. CollectedByOwner!(s)'
  <2> USE DEF TypeOK, NewGoto, CollectedByOwner, NewRunning, NewEnded
  <2>1. CASE Start(s) \/ StartFails(s)
    BY <2>1 DEF Start, StartFails, OpenMailbox
  <2>2. CASE Poll(s)
    BY <2>2 DEF Poll, Collect, Heard
  <2>3. CASE PollFails(s)
    BY <2>3 DEF PollFails, Collect
  <2>4. CASE Read(s)
    BY <2>4 DEF Read, AnswersAreBacked
  <2>5. CASE PollClock(s) \/ Expire(s) \/ ReadFails(s)
    BY <2>5 DEF PollClock, Expire, ReadFails
  <2> QED
    BY <2>1, <2>2, <2>3, <2>4, <2>5 DEF NewStep, NewSteps
<1> QED
  BY <1>1, <1>2 DEF CollectedByOwner

\* The whole invariant, over a step of a new device.
LEMMA NewStepInv ==
  ASSUME Inv, NEW s \in Session, NewStep(s)
  PROVE  Inv'
<1> USE DEF Inv
<1>1. TypeOK'
  BY NewStepType
<1>2. AnswersAreBacked'
  BY NewStepKeepsAnswers, NewStepKeepsState DEF AnswersAreBacked
<1>3. CollectedByOwner'
  BY NewStepOwner
<1>4. ApproversHoldTheirs'
  BY NewStepKeepsAnswers, NewStepKeepsState DEF ApproversHoldTheirs
<1> QED
  BY <1>1, <1>2, <1>3, <1>4

-----------------------------------------------------------------------------
(* The steps of an approver.                                               *)

\* An approver changes a mailbox only by answering a pending request, never
\* touches a new device, and the vault it has pushed stays on the host.
LEMMA ApproverStepKeeps ==
  ASSUME TypeOK, ApproversHoldTheirs, NEW a \in Approver, ApproverStep(a)
  PROVE  /\ UNCHANGED newpc
         /\ stored => stored'
         /\ \A s \in Session :
              \/ mailbox'[s] = mailbox[s]
              \/ /\ mailbox[s].state = "PENDING"
                 /\ mailbox'[s].state = "RESPONDED"
                 /\ mailbox'[s].by = a
                 /\ stored
         /\ \A b \in Approver \ {a} : pc'[b] = pc[b] /\ work'[b] = work[b]
<1> USE DEF TypeOK, newDevice, Goto
<1>1. CASE \E s \in Session : Fetch(a, s)
  BY <1>1 DEF Fetch
<1>2. CASE Respond(a) \/ RespondFails(a)
  <2>1. work[a] \in Session /\ stored
    BY <1>2 DEF Respond, RespondFails, ApproversHoldTheirs
  <2>2. \/ UNCHANGED mailbox
        \/ \E right \in BOOLEAN : Answer(a, work[a], right)
    BY <1>2 DEF Respond, RespondFails
  <2>3. \A s \in Session : \/ mailbox'[s] = mailbox[s]
                          \/ /\ mailbox[s].state = "PENDING"
                             /\ mailbox'[s].state = "RESPONDED"
                             /\ mailbox'[s].by = a
    BY <2>1, <2>2 DEF Answer
  <2> QED
    BY <1>2, <2>1, <2>3 DEF Respond, RespondFails
<1>3. CASE Push(a) \/ PushFails(a)
  BY <1>3 DEF Push, PushFails
<1>4. CASE Wait(a) \/ WaitClock(a) \/ Deadline(a) \/ WaitFails(a)
  BY <1>4 DEF Wait, WaitClock, Deadline, WaitFails
<1> QED
  BY <1>1, <1>2, <1>3, <1>4 DEF ApproverStep, Steps

\* An approver starts to poll only when its own answer was taken.
LEMMA ApproverStepHolds ==
  ASSUME Inv, NEW a \in Approver, ApproverStep(a)
  PROVE  ApproversHoldTheirs'
<1> USE DEF Inv
<1>1. ASSUME NEW b \in Approver \ {a}
      PROVE  ApproversHoldTheirs!(b)'
  BY <1>1, ApproverStepKeeps DEF ApproversHoldTheirs
<1>2. ApproversHoldTheirs!(a)'
  <2> USE DEF TypeOK, Goto, ApproversHoldTheirs
  <2>1. CASE \E s \in Session : Fetch(a, s)
    BY <2>1 DEF Fetch
  <2>2. CASE Push(a)
    BY <2>2 DEF Push
  <2>3. CASE Respond(a)
    BY <2>3 DEF Respond, Answer
  <2>4. CASE Wait(a) \/ WaitClock(a) \/ Deadline(a)
    BY <2>4 DEF Wait, WaitClock, Deadline
  <2>5. CASE PushFails(a) \/ RespondFails(a) \/ WaitFails(a)
    BY <2>5 DEF PushFails, RespondFails, WaitFails
  <2> QED
    BY <2>1, <2>2, <2>3, <2>4, <2>5 DEF ApproverStep, Steps
<1> QED
  BY <1>1, <1>2 DEF ApproversHoldTheirs

\* The whole invariant, over a step of an approver.
LEMMA ApproverStepInv ==
  ASSUME Inv, NEW a \in Approver, ApproverStep(a)
  PROVE  Inv'
<1> USE DEF Inv
<1>1. TypeOK'
  BY ApproverStepType
<1>2. AnswersAreBacked'
  BY ApproverStepKeeps DEF AnswersAreBacked
<1>3. CollectedByOwner'
  BY ApproverStepKeeps DEF CollectedByOwner
<1>4. ApproversHoldTheirs'
  BY ApproverStepHolds
<1> QED
  BY <1>1, <1>2, <1>3, <1>4

-----------------------------------------------------------------------------
(* The invariant and what follows from it.                                 *)

\* It holds before anything was opened,
LEMMA InitInv == Init => Inv
  BY InitType DEF Init, Inv, AnswersAreBacked, CollectedByOwner,
                  ApproversHoldTheirs

\* over steps that change nothing,
LEMMA StutterInv == Inv /\ UNCHANGED vars => Inv'
  BY DEF vars, newDevice, approver, Inv, TypeOK, AnswersAreBacked,
         CollectedByOwner, ApproversHoldTheirs

\* and so always: mailbox, new devices and approvers agree as Inv says.
THEOREM Invariance == Spec => []Inv
<1>1. Inv /\ [Next]_vars => Inv'
  <2> SUFFICES ASSUME Inv, [Next]_vars
               PROVE  Inv'
    OBVIOUS
  <2>1. CASE \E s \in Session : NewStep(s)
    BY <2>1, NewStepInv
  <2>2. CASE \E a \in Approver : ApproverStep(a)
    BY <2>2, ApproverStepInv
  <2> QED
    BY <2>1, <2>2, StutterInv DEF Next, NewStep, ApproverStep
<1> QED
  BY <1>1, InitInv, PTL DEF Spec

\* start_pairing completes with a vault only if an approver answered under
\* this session's password.
THEOREM OnlyApprovedJoin == Spec => []JoinedWasApproved
<1>1. Inv => JoinedWasApproved
  BY DEF Inv, JoinedWasApproved, AnswersAreBacked, CollectedByOwner
<1> QED
  BY <1>1, Invariance, PTL

\* approve_pairing returns Ok only if its own answer was collected.
THEOREM OkMeansCollected == Spec => []OkWasCollected
<1>1. Inv => OkWasCollected
  BY DEF Inv, OkWasCollected, CollectedByOwner, ApproversHoldTheirs
<1> QED
  BY <1>1, Invariance, PTL

\* Because the approver pushes before it answers, the new device never reads
\* an empty host.
THEOREM VaultIsThere == Spec => []AnswerFindsVault
<1>1. Inv => AnswerFindsVault
  BY DEF Inv, AnswerFindsVault, CollectedByOwner
<1> QED
  BY <1>1, Invariance, PTL

-----------------------------------------------------------------------------
(* Calculation modulo q. The order of the group is prime, so that the      *)
(* scalars are a field.                                                    *)

\* Division with remainder has one result.
LEMMA OneRemainder ==
  ASSUME NEW n \in Nat \ {0}, NEW a \in Int, NEW k \in Int, NEW r \in 0 .. n - 1,
         a = n * k + r
  PROVE  a % n = r
<1> DEFINE d == a \div n
           s == a % n
<1>1. d \in Int /\ s \in 0 .. n - 1 /\ a = n * d + s
  OBVIOUS
<1> HIDE DEF d, s
<1>2. n * (k - d) = s - r
  BY <1>1
<1>3. CASE k - d >= 1
  <2>1. n * (k - d) >= n
    BY <1>1, <1>3
  <2> QED
    BY <1>1, <1>2, <2>1
<1>4. CASE k - d <= -1
  <2>1. n * (k - d) <= -n
    BY <1>1, <1>4
  <2> QED
    BY <1>1, <1>2, <2>1
<1>5. CASE k - d = 0
  <2>1. s = r
    BY <1>1, <1>2, <1>5
  <2> QED
    BY <2>1 DEF s
<1> QED
  BY <1>1, <1>3, <1>4, <1>5

\* A remainder may be taken before or after a product.
LEMMA ReduceFactor ==
  ASSUME NEW n \in Nat \ {0}, NEW a \in Int, NEW b \in Int
  PROVE  (a * (b % n)) % n = (a * b) % n
<1> DEFINE d == b \div n
           s == b % n
           e == (a * s) \div n
           r == (a * s) % n
<1>1. d \in Int /\ s \in 0 .. n - 1 /\ b = n * d + s
  OBVIOUS
<1>2. a * s \in Int
  BY <1>1
<1>3. e \in Int /\ r \in 0 .. n - 1 /\ a * s = n * e + r
  BY <1>2
<1> HIDE DEF d, s, e, r
<1>4. a * d + e \in Int /\ a * b \in Int
  BY <1>1, <1>3
<1>5. a * b = n * (a * d + e) + r
  <2>1. a * b = a * (n * d) + a * s
    BY <1>1
  <2> QED
    BY <1>1, <1>3, <2>1
<1>6. (a * b) % n = r
  BY <1>3, <1>4, <1>5, OneRemainder
<1> QED
  BY <1>6 DEF r, s

\* Scalars and elements are the numbers below q.
LEMMA Order == /\ q \in Nat \ {0, 1}
               /\ Scalar = 0 .. q - 1 /\ Element = 0 .. q - 1
               /\ 1 \in Scalar /\ 0 \in Scalar
               /\ \A a \in Int : a % q \in Scalar
               /\ \A a \in Scalar : a \in Int /\ a % q = a
<1>1. q \in Nat \ {0, 1}
  BY PrimeOrder
<1>2. ASSUME NEW a \in Int PROVE a % q \in 0 .. q - 1
  BY <1>1
<1>3. ASSUME NEW a \in 0 .. q - 1 PROVE a % q = a
  <2>1. a = q * 0 + a
    BY <1>1
  <2> QED
    BY <1>1, <2>1, OneRemainder
<1> QED
  BY <1>1, <1>2, <1>3 DEF Scalar, Element

\* So one may forget that an operand was reduced.
LEMMA Unreduced ==
  \A a, b \in Int : /\ add(a, b % q) = add(a, b) /\ add(b % q, a) = add(a, b)
                    /\ mul(a, b % q) = mul(a, b) /\ mul(b % q, a) = mul(a, b)
<1> SUFFICES ASSUME NEW a \in Int, NEW b \in Int
             PROVE  /\ add(a, b % q) = add(a, b) /\ add(b % q, a) = add(a, b)
                    /\ mul(a, b % q) = mul(a, b) /\ mul(b % q, a) = mul(a, b)
  OBVIOUS
<1> DEFINE r == b % q
<1>1. r \in Int /\ q \in Nat \ {0}
  BY Order
<1>2. (a + r) % q = (a + b) % q
  <2> DEFINE d == b \div q
             e == (a + r) \div q
             t == (a + r) % q
  <2>1. a + r \in Int /\ d \in Int /\ b = q * d + r
    BY <1>1
  <2>2. e \in Int /\ t \in 0 .. q - 1 /\ a + r = q * e + t
    BY <1>1, <2>1
  <2> HIDE DEF r, d, e, t
  <2>3. d + e \in Int /\ a + b \in Int /\ a + b = q * (d + e) + t
    BY <1>1, <2>1, <2>2
  <2>4. (a + b) % q = t
    BY <1>1, <2>2, <2>3, OneRemainder
  <2> QED
    BY <2>4 DEF t
<1>3. (a * r) % q = (a * b) % q
  BY <1>1, ReduceFactor
<1> HIDE DEF r
<1>4. r + a = a + r /\ r * a = a * r
  BY <1>1
<1>5. /\ add(a, r) = add(a, b) /\ add(r, a) = add(a, b)
      /\ mul(a, r) = mul(a, b) /\ mul(r, a) = mul(a, b)
  BY <1>2, <1>3, <1>4, Zenon DEF add, mul
<1> QED
  BY <1>5 DEF r

\* Products and sums are scalars again.
LEMMA Closed ==
  \A a, b \in Scalar : /\ mul(a, b) \in Scalar /\ add(a, b) \in Scalar
                       /\ mul_gen(a) = a
<1> SUFFICES ASSUME NEW a \in Scalar, NEW b \in Scalar
             PROVE  /\ mul(a, b) \in Scalar /\ add(a, b) \in Scalar
                    /\ mul_gen(a) = a
  OBVIOUS
<1>1. a * b \in Int /\ a + b \in Int
  BY Order
<1> QED
  BY <1>1, Order DEF mul, add, mul_gen

\* The laws of a field: products commute, ...
LEMMA MulCommutes == \A a, b \in Scalar : mul(a, b) = mul(b, a)
<1> SUFFICES ASSUME NEW a \in Scalar, NEW b \in Scalar
             PROVE  mul(a, b) = mul(b, a)
  OBVIOUS
<1>1. a * b = b * a
  BY Order
<1> QED
  BY <1>1 DEF mul

\* ... products associate, ...
LEMMA MulAssociates ==
  \A a, b, c \in Scalar : mul(a, mul(b, c)) = mul(mul(a, b), c)
<1> SUFFICES ASSUME NEW a \in Scalar, NEW b \in Scalar, NEW c \in Scalar
             PROVE  mul(a, mul(b, c)) = mul(mul(a, b), c)
  OBVIOUS
<1>1. a \in Int /\ b \in Int /\ c \in Int
  BY Order
<1> DEFINE x == b * c
           y == a * b
<1>2. x \in Int /\ y \in Int /\ a * x = c * y
  BY <1>1
<1>3. mul(b, c) = x % q /\ mul(a, b) = y % q
  BY Zenon DEF mul
<1> HIDE DEF x, y
<1>4. mul(a, x % q) = mul(a, x) /\ mul(y % q, c) = mul(c, y)
  BY <1>1, <1>2, Unreduced
<1>5. mul(a, x) = mul(c, y)
  BY <1>2, Zenon DEF mul
<1> QED
  BY <1>3, <1>4, <1>5

\* ... sums commute ...
LEMMA AddCommutes == \A a, b \in Scalar : add(a, b) = add(b, a)
<1> SUFFICES ASSUME NEW a \in Scalar, NEW b \in Scalar
             PROVE  add(a, b) = add(b, a)
  OBVIOUS
<1>1. a + b = b + a
  BY Order
<1> QED
  BY <1>1 DEF add

\* ... and associate, ...
LEMMA AddAssociates ==
  \A a, b, c \in Scalar : add(a, add(b, c)) = add(add(a, b), c)
<1> SUFFICES ASSUME NEW a \in Scalar, NEW b \in Scalar, NEW c \in Scalar
             PROVE  add(a, add(b, c)) = add(add(a, b), c)
  OBVIOUS
<1>1. a \in Int /\ b \in Int /\ c \in Int
  BY Order
<1> DEFINE x == b + c
           y == a + b
<1>2. x \in Int /\ y \in Int /\ a + x = c + y
  BY <1>1
<1>3. add(b, c) = x % q /\ add(a, b) = y % q
  BY Zenon DEF add
<1> HIDE DEF x, y
<1>4. add(a, x % q) = add(a, x) /\ add(y % q, c) = add(c, y)
  BY <1>1, <1>2, Unreduced
<1>5. add(a, x) = add(c, y)
  BY <1>2, Zenon DEF add
<1> QED
  BY <1>3, <1>4, <1>5

\* ... and products distribute over sums.
LEMMA Distributes ==
  \A a, b, c \in Scalar : mul(a, add(b, c)) = add(mul(a, b), mul(a, c))
<1> SUFFICES ASSUME NEW a \in Scalar, NEW b \in Scalar, NEW c \in Scalar
             PROVE  mul(a, add(b, c)) = add(mul(a, b), mul(a, c))
  OBVIOUS
<1> DEFINE s == b + c
           x == a * b
           y == a * c
<1>1. a \in Int /\ b \in Int /\ c \in Int
  BY Order
<1>2. s \in Int /\ x \in Int /\ y \in Int /\ a * s = y + x
  BY <1>1
<1>3. add(b, c) = s % q /\ mul(a, b) = x % q /\ mul(a, c) = y % q
  BY Zenon DEF add, mul
<1> HIDE DEF s, x, y
<1>4. x % q \in Int
  BY <1>2, Order
<1>5. mul(a, s % q) = mul(a, s)
  BY <1>1, <1>2, Unreduced
<1>6. add(x % q, y % q) = add(x % q, y) /\ add(x % q, y) = add(y, x)
  BY <1>2, <1>4, Unreduced
<1>7. mul(a, s) = add(y, x)
  BY <1>2, Zenon DEF mul, add
<1> QED
  BY <1>3, <1>5, <1>6, <1>7

\* Zero and one.
LEMMA Units ==
  \A a \in Scalar : /\ mul(a, 1) = a /\ mul(1, a) = a
                     /\ mul(a, 0) = 0 /\ mul(0, a) = 0
                     /\ add(a, 0) = a /\ add(0, a) = a
<1> SUFFICES ASSUME NEW a \in Scalar
             PROVE  /\ mul(a, 1) = a /\ mul(1, a) = a
                    /\ mul(a, 0) = 0 /\ mul(0, a) = 0
                    /\ add(a, 0) = a /\ add(0, a) = a
  OBVIOUS
<1>1. /\ a * 1 = a /\ 1 * a = a /\ a * 0 = 0 /\ 0 * a = 0
      /\ a + 0 = a /\ 0 + a = a
  BY Order
<1>2. a % q = a /\ 0 % q = 0
  BY Order
<1> QED
  BY <1>1, <1>2 DEF mul, add

\* Sums can be cancelled.
LEMMA AddCancels ==
  \A a, b, c \in Scalar : add(a, b) = add(a, c) => b = c
<1> SUFFICES ASSUME NEW a \in Scalar, NEW b \in Scalar, NEW c \in Scalar,
                    add(a, b) = add(a, c)
             PROVE  b = c
  OBVIOUS
<1> DEFINE x == q - a
           minus == x % q
<1>1. x \in Int /\ a \in Int /\ a + x = q * 1 + 0
  BY Order
<1>2. minus \in Scalar /\ add(minus, a) = 0
  <2>1. minus \in Scalar
    BY <1>1, Order
  <2>2. (a + x) % q = 0
    BY <1>1, Order, OneRemainder
  <2> HIDE DEF x
  <2>3. add(x % q, a) = add(a, x)
    BY <1>1, Unreduced
  <2>4. add(a, x) = 0
    BY <2>2, Zenon DEF add
  <2> QED
    BY <2>1, <2>3, <2>4
<1> HIDE DEF minus
<1>3. add(minus, add(a, b)) = b /\ add(minus, add(a, c)) = c
  BY <1>2, AddAssociates, Units
<1> QED
  BY <1>3

\* q is prime: products have no factor zero where they are not zero, ...
LEMMA NoZeroDivisors ==
  \A a, b \in Scalar : mul(a, b) = 0 <=> a = 0 \/ b = 0
<1> SUFFICES ASSUME NEW a \in Scalar, NEW b \in Scalar
             PROVE  mul(a, b) = 0 <=> a = 0 \/ b = 0
  OBVIOUS
<1>1. CASE a = 0 \/ b = 0
  BY <1>1, Units
<1>2. CASE a # 0 /\ b # 0
  <2>1. a \in 1 .. q - 1 /\ b \in 1 .. q - 1
    BY <1>2, Order
  <2> QED
    BY <1>2, <2>1, PrimeOrder DEF mul
<1> QED
  BY <1>1, <1>2

\* ... so that factors can be cancelled.
LEMMA MulCancels ==
  \A a, b, c \in Scalar : a # 0 /\ mul(a, b) = mul(a, c) => b = c
<1> SUFFICES ASSUME NEW a \in Scalar, NEW b \in Scalar, NEW c \in Scalar,
                    a # 0, mul(a, b) = mul(a, c)
             PROVE  b = c
  OBVIOUS
<1> DEFINE x == b - c
           d == x % q
<1>1. x \in Int /\ c \in Int /\ c + x = b /\ b % q = b
  BY Order
<1> HIDE DEF x
<1>2. d \in Scalar /\ b = add(c, d)
  <2>1. d \in Scalar
    BY <1>1, Order
  <2>2. add(c, x % q) = add(c, x)
    BY <1>1, Unreduced
  <2>3. add(c, x) = b
    BY <1>1, Zenon DEF add
  <2> QED
    BY <2>1, <2>2, <2>3
<1> HIDE DEF d
<1>3. mul(a, b) = add(mul(a, c), mul(a, d))
  BY <1>2, Distributes
<1>4. add(mul(a, c), mul(a, d)) = add(mul(a, c), 0)
  BY <1>3, Closed, Units
<1>5. mul(a, d) = 0
  <2>1. mul(a, c) \in Scalar /\ mul(a, d) \in Scalar /\ 0 \in Scalar
    BY <1>2, Closed, Order
  <2> QED
    BY <1>4, <2>1, AddCancels
<1>6. d = 0
  BY <1>2, <1>5, NoZeroDivisors
<1> QED
  BY <1>2, <1>6, Units

\* Multiplication by a scalar other than zero is injective, and so it is
\* surjective: invert finds what it looks for.
LEMMA Inverts ==
  \A s \in Scalar \ {0} : invert(s) \in Scalar /\ mul(s, invert(s)) = 1
<1> SUFFICES ASSUME NEW s \in Scalar \ {0}
             PROVE  invert(s) \in Scalar /\ mul(s, invert(s)) = 1
  OBVIOUS
<1> DEFINE f == [t \in Scalar |-> mul(s, t)]
<1>1. IsFiniteSet(Scalar)
  BY Order, FS_Interval
<1>2. f \in Injection(Scalar, Scalar)
  BY Closed, MulCancels DEF Injection, IsInjective
<1>3. f \in Surjection(Scalar, Scalar)
  BY <1>1, <1>2, FS_Injection
<1>4. \E t \in Scalar : mul(s, t) = 1
  BY <1>3, Order DEF Surjection
<1> QED
  BY <1>4 DEF invert, mul
-----------------------------------------------------------------------------
(* Proofs of equal discrete logarithms.                                    *)

\* An honest response fits the commitments it is made for.
LEMMA ResponseFits ==
  ASSUME NEW k \in Scalar, NEW r \in Scalar, NEW cs \in Scalar,
         NEW m \in Scalar, NEW ss, ss = (r - cs * k) % q
  PROVE  /\ ss \in Scalar
         /\ add(ss, mul(cs, k)) = r
         /\ add(mul(ss, m), mul(cs, mul(k, m))) = mul(r, m)
<1> DEFINE y == cs * k
           x == r - y
<1>0. ss = x % q
  OBVIOUS
<1>1. y \in Int /\ x \in Int /\ r \in Int /\ y + x = r /\ r % q = r
  <2>1. cs \in Int /\ k \in Int /\ r \in Int /\ r % q = r
    BY Order
  <2> QED
    BY <2>1
<1>2. mul(cs, k) = y % q
  BY Zenon DEF mul
<1> HIDE DEF x, y
<1>3. ss \in Scalar /\ y % q \in Int /\ x % q \in Int
  BY <1>0, <1>1, Order
<1>4. add(ss, mul(cs, k)) = r
  <2>1. add(x % q, y % q) = add(x % q, y) /\ add(x % q, y) = add(y, x)
    BY <1>1, <1>3, Unreduced
  <2>2. add(y, x) = r
    BY <1>1, Zenon DEF add
  <2> QED
    BY <1>0, <1>2, <2>1, <2>2
<1>5. add(mul(ss, m), mul(cs, mul(k, m))) = mul(r, m)
  <2> DEFINE p == mul(cs, k)
  <2>1. p \in Scalar /\ mul(cs, mul(k, m)) = mul(p, m)
    BY Closed, MulAssociates
  <2> HIDE DEF p
  <2>2. mul(p, m) = mul(m, p) /\ mul(ss, m) = mul(m, ss)
    BY <1>3, <2>1, MulCommutes
  <2>3. add(mul(m, ss), mul(m, p)) = mul(m, add(ss, p))
    BY <1>3, <2>1, Distributes
  <2> QED
    BY <1>4, <2>1, <2>2, <2>3, MulCommutes DEF p
<1> QED
  BY <1>3, <1>4, <1>5

\* A verifier accepts the proof of a host exactly if it is about the public
\* element and the composite elements that it counts on.
LEMMA ProofAccepted ==
  ASSUME NEW mode, NEW oracle \in Oracle, NEW k \in Scalar, NEW b \in Scalar,
         NEW host_c \in Scalar, NEW host_d, NEW c \in Scalar, NEW d \in Scalar,
         NEW r \in Scalar
  PROVE  verify_proof(mode, b, c, d,
           generate_proof(mode, k, mul_gen(k), host_c, host_d, r, oracle),
           oracle)
         <=> b = k /\ c = host_c /\ d = mul(k, c)
<1> DEFINE proof == generate_proof(mode, k, mul_gen(k), host_c, host_d, r, oracle)
           m == mul(oracle.di, host_c)
<1>1. /\ oracle.di \in Scalar /\ oracle.di # 0 /\ oracle.h \in Scalar
      /\ m \in Scalar /\ mul(oracle.di, c) \in Scalar /\ mul(k, c) \in Scalar
  BY Closed DEF Oracle
<1>2. verify_proof(mode, b, c, d, proof, oracle) <=>
        /\ b = k
        /\ mul(oracle.di, c) = m /\ mul(oracle.di, d) = mul(k, m)
        /\ add(proof.ss, mul(oracle.h, b)) = r
        /\ add(mul(proof.ss, mul(oracle.di, c)),
               mul(oracle.h, mul(oracle.di, d))) = mul(r, m)
  BY DEF verify_proof, generate_proof, Commitments, composites, mul_gen
<1>3. /\ proof.ss \in Scalar
      /\ add(proof.ss, mul(oracle.h, k)) = r
      /\ add(mul(proof.ss, m), mul(oracle.h, mul(k, m))) = mul(r, m)
  <2> DEFINE h == oracle.h
             ss == proof.ss
  <2>1. ss = (r - h * k) % q
    BY Zenon DEF generate_proof
  <2>2. h \in Scalar
    BY <1>1
  <2> HIDE DEF proof, m, h, ss
  <2>3. /\ ss \in Scalar /\ add(ss, mul(h, k)) = r
        /\ add(mul(ss, m), mul(h, mul(k, m))) = mul(r, m)
    BY <1>1, <2>1, <2>2, ResponseFits
  <2> QED
    BY <2>3 DEF h, ss
<1>4. mul(oracle.di, c) = m <=> c = host_c
  BY <1>1, MulCancels
<1>5. mul(k, mul(oracle.di, c)) = mul(oracle.di, mul(k, c))
  BY <1>1, MulAssociates, MulCommutes
<1>6. mul(oracle.di, d) = mul(k, mul(oracle.di, c)) <=> d = mul(k, c)
  BY <1>1, <1>5, MulCancels
<1> HIDE DEF proof, m
<1>7. verify_proof(mode, b, c, d, proof, oracle)
        <=> b = k /\ c = host_c /\ d = mul(k, c)
  BY <1>2, <1>3, <1>4, <1>6
<1> QED
  BY <1>7 DEF proof
-----------------------------------------------------------------------------
(* Oblivious evaluation.                                                   *)

\* Unblinding takes back what blinding did, also where the host has
\* multiplied meanwhile.
LEMMA Unblinds ==
  \A blind \in Scalar \ {0}, k, p \in Scalar :
    mul(invert(blind), mul(k, mul(blind, p))) = mul(k, p)
<1> SUFFICES ASSUME NEW blind \in Scalar \ {0}, NEW k \in Scalar,
                    NEW p \in Scalar
             PROVE  mul(invert(blind), mul(k, mul(blind, p))) = mul(k, p)
  OBVIOUS
<1> DEFINE i == invert(blind)
<1>1. i \in Scalar /\ mul(blind, i) = 1
  BY Inverts
<1> HIDE DEF i
<1>2. mul(k, mul(blind, p)) = mul(blind, mul(k, p))
  BY MulAssociates, MulCommutes
<1>3. mul(i, mul(blind, mul(k, p))) = mul(mul(i, blind), mul(k, p))
  BY <1>1, Closed, MulAssociates
<1>4. mul(i, blind) = 1
  BY <1>1, MulCommutes
<1> QED
  BY <1>2, <1>3, <1>4, Closed, Units DEF i

\* The questions of AskEvaluation, with any nonce and any oracle.
Evaluation == [kind : {"evaluation"}, point : Element, info : Element,
               sk : Scalar, host_key : Element, theirs : Element,
               blind : Scalar, nonce : Scalar, oracle : Oracle]

\* What poprf_finalize makes of an answer of a host.
LEMMA PepperIsRight ==
  ASSUME NEW e \in Evaluation,
         NEW state \in poprf_blind(e.point, e.info, mul_gen(e.sk), e.blind)
  PROVE  UNION {poprf_finalize(state, answer, e.oracle) :
           answer \in poprf_blind_evaluate(e.host_key, e.info, e.theirs,
                                           e.nonce, e.oracle)}
         = IF /\ e.host_key = e.sk /\ e.theirs = state.blinded
              /\ e.blind # 0 /\ e.sk # 0
             THEN {finalize_hash(e.point,
                     mul(invert((e.sk + e.info) % q), e.point), e.info)}
             ELSE {}
<1>1. /\ e.point \in Scalar /\ e.info \in Scalar /\ e.sk \in Scalar
      /\ e.host_key \in Scalar /\ e.theirs \in Scalar /\ e.blind \in Scalar
      /\ e.nonce \in Scalar /\ e.oracle \in Oracle
  BY Order DEF Evaluation
<1> DEFINE w == add(e.info, e.sk)
           t == add(e.info, e.host_key)
           k == invert(t)
<1>2. /\ e.sk # 0 /\ w # 0 /\ e.point # 0
      /\ state.point = e.point /\ state.info = e.info /\ state.blind = e.blind
      /\ state.blinded = mul(e.blind, e.point) /\ state.tweaked_key = w
  BY <1>1 DEF poprf_blind, decode_element, Identity, mul_gen
<1>3. w \in Scalar /\ t \in Scalar
  BY <1>1, Closed
<1>4. (e.host_key + e.info) % q = t /\ (e.sk + e.info) % q = w
  <2>1. \A x, y \in Int : x + y = y + x
    OBVIOUS
  <2>2. e.host_key \in Int /\ e.info \in Int /\ e.sk \in Int
    BY <1>1, Order
  <2>3. e.host_key + e.info = e.info + e.host_key /\ e.sk + e.info = e.info + e.sk
    BY <2>1, <2>2, Zenon
  <2> QED
    BY <2>3, Zenon DEF add
<1>5. t = w <=> e.host_key = e.sk
  BY <1>1, AddCancels
<1> DEFINE ev == mul(k, e.theirs)
           pf == generate_proof("POPRF", t, mul_gen(t), ev, e.theirs, e.nonce,
                                e.oracle)
           answers == poprf_blind_evaluate(e.host_key, e.info, e.theirs,
                                           e.nonce, e.oracle)
<1>6. answers = IF t = 0 \/ e.theirs = 0 THEN {}
                ELSE {[evaluated |-> ev, proof |-> pf]}
  BY <1>4 DEF poprf_blind_evaluate, decode_element, Identity
<1> HIDE DEF w, t, pf, answers
<1>7. CASE t = 0 \/ e.theirs = 0
  <2>1. answers = {}
    BY <1>6, <1>7
  <2>2. e.theirs = 0 /\ e.theirs = state.blinded => e.blind = 0
    BY <1>1, <1>2, NoZeroDivisors
  <2> QED
    BY <1>2, <1>5, <1>7, <2>1, <2>2 DEF answers
<1>8. CASE t # 0 /\ e.theirs # 0
  <2>1. /\ k \in Scalar /\ mul(t, k) = 1 /\ ev \in Scalar
        /\ mul(t, ev) = e.theirs
    <3>1. k \in Scalar /\ mul(t, k) = 1
      BY <1>3, <1>8, Inverts
    <3> HIDE DEF k
    <3>2. ev \in Scalar
      BY <1>1, <3>1, Closed
    <3>3. mul(t, ev) = mul(mul(t, k), e.theirs)
      BY <1>1, <1>3, <3>1, MulAssociates
    <3> QED
      BY <1>1, <3>1, <3>2, <3>3, Units DEF k
  <2>2. k # 0 /\ ev # 0
    BY <1>1, <1>3, <1>8, <2>1, NoZeroDivisors, Order
  <2>3. verify_proof("POPRF", w, ev, state.blinded, pf, e.oracle)
          <=> w = t /\ state.blinded = e.theirs
    <3>1. state.blinded \in Scalar
      BY <1>1, <1>2, Closed
    <3> HIDE DEF ev
    <3> QED
      BY <1>1, <1>3, <2>1, <3>1, ProofAccepted DEF pf
  <2> DEFINE a == [evaluated |-> ev, proof |-> pf]
             value == finalize_hash(e.point, mul(invert(e.blind), ev), e.info)
  <2>4. poprf_finalize(state, a, e.oracle) =
          IF state.blinded # 0 /\ w = t /\ state.blinded = e.theirs
            THEN {value} ELSE {}
    <3> HIDE DEF ev
    <3> QED
      BY <1>2, <2>2, <2>3 DEF poprf_finalize, decode_element, Identity
  <2>5. answers = {a}
    BY <1>6, <1>8
  <2>6. w = t /\ state.blinded = e.theirs /\ e.blind # 0
          => value = finalize_hash(e.point, mul(invert(w), e.point), e.info)
    <3>1. ASSUME w = t, state.blinded = e.theirs, e.blind # 0
          PROVE  mul(invert(e.blind), ev) = mul(invert(w), e.point)
      <4>1. ev = mul(k, mul(e.blind, e.point)) /\ k = invert(w)
        BY <1>2, <3>1
      <4> HIDE DEF ev, k
      <4> QED
        BY <1>1, <2>1, <3>1, <4>1, Unblinds
    <3> QED
      BY <3>1
  <2>7. state.blinded # 0 <=> e.blind # 0
    BY <1>1, <1>2, NoZeroDivisors
  <2> HIDE DEF a, value
  <2>8. UNION {poprf_finalize(state, answer, e.oracle) : answer \in answers}
          = poprf_finalize(state, a, e.oracle)
    BY <2>5
  <2> QED
    BY <1>2, <1>4, <1>5, <2>4, <2>6, <2>7, <2>8 DEF answers
<1> QED
  BY <1>7, <1>8
\* What identity_finalize makes of an answer of a host.
LEMMA IdentityIsRight ==
  ASSUME NEW e \in Evaluation, NEW state \in identity_blind(e.point, e.blind)
  PROVE  UNION {identity_finalize(state, answer, mul_gen(e.sk), e.oracle) :
           answer \in identity_blind_evaluate(e.host_key, e.theirs,
                                              e.nonce, e.oracle)}
         = IF /\ e.host_key = e.sk /\ e.theirs = state.blinded
              /\ e.blind # 0 /\ e.sk # 0
             THEN {finalize_hash(e.point, mul(e.sk, e.point), "none")}
             ELSE {}
<1>1. /\ e.point \in Scalar /\ e.sk \in Scalar
      /\ e.host_key \in Scalar /\ e.theirs \in Scalar /\ e.blind \in Scalar
      /\ e.nonce \in Scalar /\ e.oracle \in Oracle
  BY Order DEF Evaluation
<1> DEFINE k == e.host_key
           ev == mul(k, e.theirs)
           pf == generate_proof("VOPRF", k, mul_gen(k), e.theirs, ev, e.nonce,
                                e.oracle)
           answers == identity_blind_evaluate(k, e.theirs, e.nonce, e.oracle)
<1>2. /\ e.point # 0 /\ state.point = e.point /\ state.blind = e.blind
      /\ state.blinded = mul(e.blind, e.point) /\ state.blinded \in Scalar
  BY <1>1, Closed DEF identity_blind, decode_element, Identity
<1>3. ev \in Scalar /\ mul_gen(e.sk) = e.sk
  BY <1>1, Closed
<1>4. answers = IF e.theirs = 0 THEN {} ELSE {[evaluated |-> ev, proof |-> pf]}
  BY DEF identity_blind_evaluate, decode_element, Identity
<1>5. state.blinded # 0 <=> e.blind # 0
  BY <1>1, <1>2, NoZeroDivisors
<1> HIDE DEF ev, pf, answers
<1>6. CASE e.theirs = 0
  <2>1. answers = {}
    BY <1>4, <1>6
  <2> QED
    BY <1>5, <1>6, <2>1 DEF answers
<1>7. CASE e.theirs # 0
  <2>1. verify_proof("VOPRF", e.sk, state.blinded, ev, pf, e.oracle)
          <=> e.sk = k /\ state.blinded = e.theirs /\ ev = mul(k, state.blinded)
    BY <1>1, <1>2, <1>3, ProofAccepted DEF pf
  <2>2. state.blinded = e.theirs => ev = mul(k, state.blinded)
    BY DEF ev
  <2>3. ev # 0 <=> k # 0
    BY <1>1, <1>7, NoZeroDivisors DEF ev
  <2> DEFINE a == [evaluated |-> ev, proof |-> pf]
             value == finalize_hash(e.point, mul(invert(e.blind), ev), "none")
  <2>4. identity_finalize(state, a, e.sk, e.oracle) =
          IF /\ ev # 0 /\ e.sk # 0 /\ state.blinded # 0
             /\ e.sk = k /\ state.blinded = e.theirs
            THEN {value} ELSE {}
    BY <1>2, <2>1, <2>2 DEF identity_finalize, decode_element, Identity
  <2>5. answers = {a}
    BY <1>4, <1>7
  <2>6. state.blinded = e.theirs /\ e.blind # 0
          => value = finalize_hash(e.point, mul(k, e.point), "none")
    <3>1. ASSUME state.blinded = e.theirs, e.blind # 0
          PROVE  mul(invert(e.blind), ev) = mul(k, e.point)
      <4>1. ev = mul(k, mul(e.blind, e.point))
        BY <1>2, <3>1 DEF ev
      <4> HIDE DEF k
      <4>2. k \in Scalar
        BY <1>1 DEF k
      <4> QED
        BY <1>1, <3>1, <4>1, <4>2, Unblinds
    <3> QED
      BY <3>1
  <2> HIDE DEF a, value
  <2>7. UNION {identity_finalize(state, answer, e.sk, e.oracle) :
                 answer \in answers}
          = identity_finalize(state, a, e.sk, e.oracle)
    BY <2>5
  <2> QED
    BY <1>3, <1>5, <2>3, <2>4, <2>6, <2>7 DEF answers
<1> QED
  BY <1>6, <1>7

\* An answer is never accepted that is not the right one, whatever the client
\* asked and the host evaluated.
LEMMA Evaluations ==
  ASSUME question \in Evaluation
  PROVE  EvaluationIsRight
<1> DEFINE e == question
<1>1. ASSUME NEW state \in poprf_blind(e.point, e.info, mul_gen(e.sk), e.blind)
      PROVE  UNION {poprf_finalize(state, answer, e.oracle) :
               answer \in poprf_blind_evaluate(e.host_key, e.info, e.theirs,
                                               e.nonce, e.oracle)}
             = IF /\ e.host_key = e.sk /\ e.theirs = state.blinded
                  /\ e.blind # 0 /\ e.sk # 0
                 THEN {finalize_hash(e.point,
                         mul(invert((e.sk + e.info) % q), e.point), e.info)}
                 ELSE {}
  BY PepperIsRight
<1>2. ASSUME NEW state \in identity_blind(e.point, e.blind)
      PROVE  UNION {identity_finalize(state, answer, mul_gen(e.sk), e.oracle) :
               answer \in identity_blind_evaluate(e.host_key, e.theirs,
                                                  e.nonce, e.oracle)}
             = IF /\ e.host_key = e.sk /\ e.theirs = state.blinded
                  /\ e.blind # 0 /\ e.sk # 0
                 THEN {finalize_hash(e.point, mul(e.sk, e.point), "none")}
                 ELSE {}
  BY IdentityIsRight
<1> QED
  BY <1>1, <1>2, Zenon DEF EvaluationIsRight

-----------------------------------------------------------------------------
(* One challenge at most.                                                  *)

\* The questions of AskProof.
Claim == [kind : {"proof"}, k : Scalar \ {0}, di : Scalar \ {0},
          c : Element, d : Element, t2 : Element, t3 : Element]

\* Two challenges that the same commitments answer are the same, where the
\* composites are not a multiple of each other by k.
LEMMA OneChallenge ==
  ASSUME NEW k \in Scalar, NEW m \in Scalar, NEW z \in Scalar,
         z # mul(k, m),
         NEW c1 \in Scalar, NEW s1 \in Scalar,
         NEW c2 \in Scalar, NEW s2 \in Scalar,
         add(s1, mul(c1, k)) = add(s2, mul(c2, k)),
         add(mul(s1, m), mul(c1, z)) = add(mul(s2, m), mul(c2, z))
  PROVE  c1 = c2
<1> DEFINE km == mul(k, m)
<1>1. km \in Scalar /\ z # km
  BY Closed
<1> HIDE DEF km
<1>2. PICK x \in Scalar : z = add(km, x)
  <2> DEFINE y == z - km
  <2>1. y \in Int /\ km \in Int /\ km + y = z /\ z % q = z
    BY <1>1, Order
  <2> HIDE DEF y
  <2>2. y % q \in Scalar /\ add(km, y % q) = add(km, y)
    BY <2>1, Order, Unreduced
  <2>3. add(km, y) = z
    BY <2>1, Zenon DEF add
  <2> QED
    BY <2>2, <2>3
<1>3. x # 0
  BY <1>1, <1>2, Units
\* The second commitment is the first one times m, and x for each challenge.
<1>4. ASSUME NEW c \in Scalar, NEW s \in Scalar
      PROVE  add(mul(s, m), mul(c, z))
               = add(mul(m, add(s, mul(c, k))), mul(c, x))
  <2> DEFINE ck == mul(c, k)
             cx == mul(c, x)
             sm == mul(s, m)
             ckm == mul(ck, m)
  <2>1. ck \in Scalar /\ cx \in Scalar /\ sm \in Scalar
    BY Closed
  <2>2. mul(c, km) = ckm
    BY MulAssociates DEF km
  <2>3. mul(c, z) = add(ckm, cx)
    BY <1>1, <1>2, <2>2, Distributes
  <2> HIDE DEF ck
  <2>4. ckm \in Scalar /\ sm = mul(m, s) /\ ckm = mul(m, ck)
    BY <2>1, Closed, MulCommutes
  <2>5. mul(m, add(s, ck)) = add(sm, ckm)
    BY <2>1, <2>4, Distributes
  <2> HIDE DEF cx, sm, ckm
  <2>6. add(sm, add(ckm, cx)) = add(add(sm, ckm), cx)
    BY <2>1, <2>4, AddAssociates
  <2> QED
    BY <2>3, <2>5, <2>6 DEF ck, cx, sm
<1> DEFINE t == mul(m, add(s1, mul(c1, k)))
<1>5. add(t, mul(c1, x)) = add(t, mul(c2, x))
  BY <1>4
<1>6. t \in Scalar /\ mul(c1, x) \in Scalar /\ mul(c2, x) \in Scalar
  BY Closed
<1> HIDE DEF t
<1>7. mul(x, c1) = mul(x, c2)
  BY <1>5, <1>6, AddCancels, MulCommutes
<1> QED
  BY <1>3, <1>7, MulCancels

\* A set without two elements.
LEMMA AtMostOne ==
  ASSUME NEW S, \A x, y \in S : x = y
  PROVE  Cardinality(S) <= 1
<1>1. CASE S = {}
  BY <1>1, FS_EmptySet
<1>2. CASE S # {}
  <2>1. PICK x \in S : S = {x}
    BY <1>2
  <2> QED
    BY <2>1, FS_Singleton
<1> QED
  BY <1>1, <1>2

\* A proof is about one evaluation, whatever was claimed.
LEMMA Proofs ==
  ASSUME question \in Claim
  PROVE  ProofBindsEvaluation
<1> DEFINE e  == question
           mz == composites(e.c, e.d, e.di)
           m  == mul(e.di, e.c)
           z  == mul(e.di, e.d)
           Fits(cs, ss) == /\ add(ss, mul(cs, e.k)) = e.t2
                           /\ add(mul(ss, m), mul(cs, z)) = e.t3
           answerable == {cs \in Scalar : \E ss \in Scalar : Fits(cs, ss)}
<1>1. /\ e.k \in Scalar /\ e.di \in Scalar /\ e.di # 0
      /\ e.c \in Scalar /\ e.d \in Scalar /\ e.t2 \in Scalar /\ e.t3 \in Scalar
  BY Order DEF Claim
<1>2. m \in Scalar /\ z \in Scalar
  BY <1>1, Closed
<1>3. {cs \in Scalar : \E ss \in Scalar :
         Commitments(mul_gen(e.k), mz, cs, ss) = [t2 |-> e.t2, t3 |-> e.t3]}
        = answerable
  BY DEF Commitments, composites, mul_gen
<1>4. ASSUME e.d # mul(e.k, e.c) PROVE Cardinality(answerable) <= 1
  <2>1. z # mul(e.k, m)
    <3>1. mul(e.k, e.c) \in Scalar /\ mul(e.k, e.di) = mul(e.di, e.k)
      BY <1>1, Closed, MulCommutes
    <3>2. mul(e.k, m) = mul(e.di, mul(e.k, e.c))
      BY <1>1, <3>1, MulAssociates
    <3> QED
      BY <1>1, <1>4, <3>1, <3>2, MulCancels
  <2> HIDE DEF m, z
  <2>2. \A c1, c2 \in answerable : c1 = c2
    BY <1>1, <1>2, <2>1, OneChallenge
  <2> QED
    BY <2>2, AtMostOne
<1>5. ASSUME e.d = mul(e.k, e.c), e.t3 = mul(e.t2, m)
      PROVE  answerable = Scalar
  <2>1. z = mul(e.k, m)
    BY <1>1, <1>5, MulAssociates, MulCommutes
  <2>2. ASSUME NEW cs \in Scalar PROVE \E ss \in Scalar : Fits(cs, ss)
    <3> DEFINE k == e.k
               t == e.t2
               ss == (t - cs * k) % q
    <3>1. k \in Scalar /\ t \in Scalar /\ ss = (t - cs * k) % q
      BY <1>1
    <3> HIDE DEF k, t, ss, m, z
    <3>2. /\ ss \in Scalar
          /\ add(ss, mul(cs, k)) = t
          /\ add(mul(ss, m), mul(cs, mul(k, m))) = mul(t, m)
      BY <1>2, <3>1, ResponseFits
    <3> QED
      BY <1>5, <2>1, <3>2 DEF k, t
  <2> QED
    BY <2>2
<1>6. mz.m = m
  BY DEF composites
<1> HIDE DEF mz, answerable
<1> QED
  BY <1>3, <1>4, <1>5, <1>6 DEF ProofBindsEvaluation, mz
-----------------------------------------------------------------------------
(* The key of a pairing.                                                   *)

\* The questions of AskPairing.
Meeting ==
  {e \in [kind : {"pairing"}, ya : Element, yb : Element,
          new : [session : {"s"}, identity : {"i"},
                 generator : Element, scalar : Scalar],
          approver : [session : {"s", "t"}, identity : {"i", "j"},
                      generator : Element, scalar : Scalar, vek : {"vek"}]] :
     e.new.generator = e.approver.generator
       => /\ e.approver.session = e.new.session
          /\ e.approver.identity = e.new.identity}

\* The TEK of device, of its session key k.
Tek(device, k, ya, yb) ==
  tek(<<sid(device.session, device.identity), k, ya, yb>>,
      device.session, ya, yb, device.identity)

\* What the approving device answers to an element, if anything.
LEMMA Approves ==
  ASSUME NEW a, NEW ya \in Scalar
  PROVE  LET k   == mul(a.scalar, ya)
             yb  == mul(a.scalar, a.generator)
             key == Tek(a, k, ya, yb)
         IN  Approve(a, ya) =
               IF a.scalar = 0 \/ k = 0 THEN {}
               ELSE {[yb |-> yb, tag |-> seal(key, "confirm"),
                      vek |-> seal(key, a.vek)]}
<1> DEFINE k   == mul(a.scalar, ya)
           yb  == mul(a.scalar, a.generator)
           si  == sid(a.session, a.identity)
           key == Tek(a, k, ya, yb)
<1>1. cpace_respond(a.generator, si, ya, a.scalar) =
        IF a.scalar = 0 \/ k = 0 THEN {}
        ELSE {[yb |-> yb, isk |-> <<si, k, ya, yb>>]}
  BY DEF cpace_respond, isk, decode_element, Identity
<1>2. CASE a.scalar = 0 \/ k = 0
  <2>1. cpace_respond(a.generator, si, ya, a.scalar) = {}
    BY <1>1, <1>2
  <2> QED
    BY <1>2, <2>1 DEF Approve
<1>3. CASE ~(a.scalar = 0 \/ k = 0)
  <2> DEFINE r == [yb |-> yb, isk |-> <<si, k, ya, yb>>]
  <2>1. cpace_respond(a.generator, si, ya, a.scalar) = {r}
    BY <1>1, <1>3
  <2>2. r.yb = yb /\ r.isk = <<si, k, ya, yb>>
    OBVIOUS
  <2> HIDE DEF r, yb, k
  <2>3. Approve(a, ya) = {[yb |-> r.yb,
          tag |-> seal(tek(r.isk, a.session, ya, r.yb, a.identity), "confirm"),
          vek |-> seal(tek(r.isk, a.session, ya, r.yb, a.identity), a.vek)]}
    BY <2>1 DEF Approve
  <2> QED
    BY <1>3, <2>2, <2>3 DEF Tek, k, yb
<1> QED
  BY <1>2, <1>3

\* What the new device reads of an answer whose boxes were sealed under key.
LEMMA Finishes ==
  ASSUME NEW n, NEW key, NEW yb \in Scalar, NEW answer,
         answer.yb = yb, answer.tag = seal(key, "confirm"),
         answer.vek = seal(key, "vek")
  PROVE  LET k  == mul(n.scalar, yb)
             ya == mul(n.scalar, n.generator)
         IN  Finish(n, answer) =
               IF n.scalar # 0 /\ k # 0 /\ key = Tek(n, k, ya, yb)
               THEN {"vek"} ELSE {}
<1> DEFINE k   == mul(n.scalar, yb)
           ya  == mul(n.scalar, n.generator)
           si  == sid(n.session, n.identity)
           ReadWith(st, i) ==
             LET own == tek(i, n.session, st.ya, answer.yb, n.identity)
             IN  IF open(own, answer.tag) = {} THEN {} ELSE open(own, answer.vek)
<1>1. cpace_start(n.generator, si, n.scalar) =
        IF n.scalar = 0 THEN {}
        ELSE {[scalar |-> n.scalar, ya |-> ya, sid |-> si]}
  BY DEF cpace_start
<1>2. Finish(n, answer) =
        UNION {UNION {ReadWith(st, i) : i \in cpace_finish(st, answer.yb)} :
                 st \in cpace_start(n.generator, si, n.scalar)}
  BY Zenon DEF Finish
<1>3. CASE n.scalar = 0
  <2>1. cpace_start(n.generator, si, n.scalar) = {}
    BY <1>1, <1>3
  <2> HIDE DEF ReadWith
  <2> QED
    BY <1>2, <1>3, <2>1
<1>4. CASE n.scalar # 0
  <2> DEFINE st == [scalar |-> n.scalar, ya |-> ya, sid |-> si]
             i  == <<si, k, ya, yb>>
  <2>1. cpace_start(n.generator, si, n.scalar) = {st}
    BY <1>1, <1>4
  <2>2. st.ya = ya /\ st.scalar = n.scalar /\ st.sid = si
    OBVIOUS
  <2> HIDE DEF st, ya, si
  <2>3. cpace_finish(st, answer.yb) = IF k = 0 THEN {} ELSE {i}
    BY <2>2 DEF cpace_finish, isk, decode_element, Identity
  <2>4. ReadWith(st, i) = IF key = tek(i, n.session, ya, yb, n.identity)
                          THEN {"vek"} ELSE {}
    <3> HIDE DEF i
    <3> QED
      BY <2>2 DEF open, seal
  <2> HIDE DEF ReadWith, i
  <2>5. Finish(n, answer) = UNION {ReadWith(st, j) : j \in cpace_finish(st, answer.yb)}
    BY <1>2, <2>1
  <2>6. Finish(n, answer) = IF k = 0 THEN {} ELSE ReadWith(st, i)
    BY <2>3, <2>5
  <2>7. Tek(n, k, ya, yb) = tek(i, n.session, ya, yb, n.identity)
    BY DEF Tek, i, si
  <2> QED
    BY <1>4, <2>4, <2>6, <2>7 DEF ya
<1> QED
  BY <1>3, <1>4

\* The new device reads the key exactly if the generators and the elements of
\* both sides fit.
LEMMA Pairings ==
  ASSUME question \in Meeting
  PROVE  PairedDevicesAgree
<1> DEFINE n  == question.new
           a  == question.approver
           ya == question.ya
           yb == question.yb
           kN  == mul(n.scalar, yb)
           yaN == mul(n.scalar, n.generator)
           kA  == mul(a.scalar, ya)
           ybA == mul(a.scalar, a.generator)
           key == Tek(a, kA, ya, ybA)
           own == Tek(n, kN, yaN, yb)
           sent == [yb |-> ybA, tag |-> seal(key, "confirm"),
                    vek |-> seal(key, "vek")]
           got  == [sent EXCEPT !.yb = yb]
           read == UNION {Finish(n, [answer EXCEPT !.yb = yb]) :
                            answer \in Approve(a, ya)}
<1>1. /\ n.scalar \in Scalar /\ n.generator \in Scalar
      /\ a.scalar \in Scalar /\ a.generator \in Scalar
      /\ ya \in Scalar /\ yb \in Scalar /\ a.vek = "vek"
      /\ n.generator = a.generator
           => a.session = n.session /\ a.identity = n.identity
  BY Order DEF Meeting
<1>2. kN \in Scalar /\ yaN \in Scalar /\ kA \in Scalar /\ ybA \in Scalar
  BY <1>1, Closed
<1>3. Approve(a, ya) = IF a.scalar = 0 \/ kA = 0 THEN {} ELSE {sent}
  BY <1>1, Approves
<1>4. Finish(n, got) =
        IF n.scalar # 0 /\ kN # 0 /\ key = own THEN {"vek"} ELSE {}
  <2>1. /\ got.yb = yb /\ got.tag = seal(key, "confirm")
        /\ got.vek = seal(key, "vek")
    OBVIOUS
  <2> HIDE DEF got, key, n, yb
  <2> QED
    BY <1>1, <2>1, Finishes DEF own
\* The devices make the same key of the generators exactly if these are the
\* same.
<1>5. key = own <=> /\ a.session = n.session /\ a.identity = n.identity
                    /\ kA = kN /\ ya = yaN /\ ybA = yb
  BY DEF Tek, tek, sid
<1>6. ya = yaN /\ ybA = yb /\ a.scalar # 0 /\ n.scalar # 0
        => (kA = kN <=> a.generator = n.generator)
  <2>1. ASSUME ya = yaN, ybA = yb, a.scalar # 0, n.scalar # 0
        PROVE  kA = kN <=> a.generator = n.generator
    <3> DEFINE s == a.scalar
               t == n.scalar
    <3>1. mul(s, mul(t, n.generator)) = mul(t, mul(s, n.generator))
      BY <1>1, MulAssociates, MulCommutes
    <3>2. mul(s, n.generator) \in Scalar /\ mul(s, a.generator) \in Scalar
      BY <1>1, Closed
    <3>3. kA = kN <=> mul(t, mul(s, n.generator)) = mul(t, mul(s, a.generator))
      BY <2>1, <3>1
    <3> QED
      BY <1>1, <2>1, <3>2, <3>3, MulCancels
  <2> QED
    BY <2>1
<1>7. /\ kA = 0 <=> a.scalar = 0 \/ ya = 0
      /\ kN = 0 <=> n.scalar = 0 \/ yb = 0
      /\ yaN = 0 <=> n.scalar = 0 \/ n.generator = 0
      /\ ybA = 0 <=> a.scalar = 0 \/ a.generator = 0
  BY <1>1, NoZeroDivisors
<1>8. read = IF a.scalar = 0 \/ kA = 0 THEN {} ELSE Finish(n, got)
  <2>1. CASE a.scalar = 0 \/ kA = 0
    <3>1. Approve(a, ya) = {}
      BY <1>3, <2>1
    <3> QED
      BY <2>1, <3>1
  <2>2. CASE ~(a.scalar = 0 \/ kA = 0)
    <3>1. Approve(a, ya) = {sent}
      BY <1>3, <2>2
    <3> HIDE DEF sent, kA, n, a
    <3> QED
      BY <2>2, <3>1
  <2> QED
    BY <2>1, <2>2
<1> HIDE DEF key, own, kA, kN, got, read
<1>9. read = IF /\ n.generator = a.generator
                /\ 0 \notin {n.generator, n.scalar, a.scalar}
                /\ ya = yaN /\ yb = ybA
               THEN {"vek"} ELSE {}
  BY <1>1, <1>4, <1>5, <1>6, <1>7, <1>8
<1> QED
  BY <1>9 DEF PairedDevicesAgree, read

-----------------------------------------------------------------------------
(* The choice of a key.                                                    *)

\* The questions of AskKey, about documents of any length.
Selection ==
  /\ Len(question.keys) \in Nat
  /\ DOMAIN question.keys = 1 .. Len(question.keys)
  /\ \A i \in DOMAIN question.keys : question.keys[i].keyId = i
  /\ question.supported \in SUBSET (WireFamily \X Algorithm)

\* Of two places the later one has the greater index among any places.
LEMMA IndexGrows ==
  ASSUME NEW n \in Nat, NEW places \in SUBSET (1 .. n),
         NEW i \in places, NEW j \in places
  PROVE  /\ Index(places, i) \in Nat
         /\ i < j => Index(places, i) < Index(places, j)
<1> DEFINE Under(k) == {l \in places : l < k}
<1>1. ASSUME NEW k \in places
      PROVE  IsFiniteSet(Under(k)) /\ Cardinality(Under(k)) \in Nat
  <2>1. Under(k) \subseteq 1 .. n /\ IsFiniteSet(1 .. n)
    BY 1 \in Int /\ n \in Int, FS_Interval
  <2>2. IsFiniteSet(Under(k))
    BY <2>1, FS_Subset
  <2> QED
    BY <2>2, FS_CardinalityType
<1>2. ASSUME i < j
      PROVE  Under(i) \subseteq Under(j) /\ Under(i) # Under(j)
  <2>1. i \in Under(j) /\ i \notin Under(i)
    BY <1>2
  <2>2. ASSUME NEW l \in Under(i)
        PROVE  l \in Under(j)
    BY <1>2
  <2> HIDE DEF Under
  <2> QED
    BY <2>1, <2>2
<1> HIDE DEF Under
<1>3. ASSUME i < j
      PROVE  Cardinality(Under(i)) < Cardinality(Under(j))
  BY <1>1, <1>2, <1>3, FS_Subset
<1> QED
  BY <1>1, <1>3 DEF Index, Under

\* What select_best_artifact is given of a usable key.
LEMMA Artifacts ==
  ASSUME NEW keys
  PROVE  LET artifacts == encryption_artifacts_for_selection(keys)
         IN  /\ DOMAIN artifacts = Usable(keys)
             /\ \A i \in Usable(keys) :
                  /\ artifacts[i].family = WireName(keys[i].family)
                  /\ artifacts[i].algorithm = keys[i].algorithms[1]
                  /\ artifacts[i].key_id = Index(Usable(keys), i)
                  /\ artifacts[i].published_key_id = keys[i].keyId
                  /\ artifacts[i].status = "active"
                  /\ artifacts[i].purpose = "encryption"
                  /\ artifacts[i].material = "key"
BY DEF encryption_artifacts_for_selection

\* What place i is worth among L places.
Weight(artifacts, L, i) ==
  (IF artifacts[i].algorithm \in PqAlgorithm THEN 4 * L ELSE 0)
  + (IF artifacts[i].family = "smime" THEN 2 * L ELSE 0) + i

\* sort_by puts first what is worth most: the index of a key only counts
\* where algorithm and family leave the choice open.
LEMMA MostWorth ==
  ASSUME NEW L \in Nat, NEW artifacts, NEW candidates \in SUBSET (1 .. L),
         \A i \in candidates : artifacts[i].family \in WireFamily
                            /\ artifacts[i].key_id \in Nat,
         \A i, j \in candidates :
           i < j => artifacts[i].key_id < artifacts[j].key_id
  PROVE  FirstSorted(artifacts, candidates)
         = {i \in candidates : \A j \in candidates :
              Weight(artifacts, L, i) >= Weight(artifacts, L, j)}
<1> DEFINE Worth(i) == Weight(artifacts, L, i)
           Pq(i) == artifacts[i].algorithm \in PqAlgorithm
           Smime(i) == artifacts[i].family = "smime"
<1>1. ASSUME NEW i \in candidates
      PROVE  /\ i \in Nat /\ 1 <= i /\ i <= L
             /\ algorithm_preference_rank(artifacts[i].algorithm)
                = IF Pq(i) THEN 1 ELSE 0
             /\ family_preference_rank(artifacts[i].family)
                = IF Smime(i) THEN 1 ELSE 0
             /\ artifacts[i].key_id \in Nat
  BY DEF algorithm_preference_rank, family_preference_rank, WireFamily
<1>2. ASSUME NEW i \in candidates, NEW j \in candidates
      PROVE  Before(artifacts[i], artifacts[j]) <=> Worth(i) > Worth(j)
  <2>1. i \in 1 .. L /\ j \in 1 .. L
    OBVIOUS
  <2>2. /\ artifacts[i].key_id > artifacts[j].key_id <=> i > j
        /\ artifacts[i].key_id \in Nat /\ artifacts[j].key_id \in Nat
    <3>1. i < j \/ i = j \/ i > j
      BY <2>1
    <3> QED
      BY <1>1, <2>1, <3>1
  <2>3. Before(artifacts[i], artifacts[j]) <=>
          \/ Pq(i) /\ ~Pq(j)
          \/ (Pq(i) <=> Pq(j)) /\ Smime(i) /\ ~Smime(j)
          \/ (Pq(i) <=> Pq(j)) /\ (Smime(i) <=> Smime(j)) /\ i > j
    <3> HIDE DEF Pq, Smime
    <3> QED
      BY <1>1, <2>2 DEF Before
  <2>4. /\ Worth(i) = (IF Pq(i) THEN 4 * L ELSE 0)
                      + (IF Smime(i) THEN 2 * L ELSE 0) + i
        /\ Worth(j) = (IF Pq(j) THEN 4 * L ELSE 0)
                      + (IF Smime(j) THEN 2 * L ELSE 0) + j
    BY DEF Weight
  <2> HIDE DEF Pq, Smime, Worth
  <2> QED
    BY <2>1, <2>3, <2>4
<1>3. ASSUME NEW i \in candidates
      PROVE  Worth(i) \in Int
  BY <1>1 DEF Weight
<1> HIDE DEF Worth
<1>4. ASSUME NEW i \in candidates, NEW j \in candidates
      PROVE  (/\ ~Before(artifacts[j], artifacts[i])
              /\ j < i => Before(artifacts[i], artifacts[j]))
             <=> Worth(i) >= Worth(j)
  <2>1. j < i => Worth(i) # Worth(j)
    BY <1>1 DEF Worth, Weight
  <2> QED
    BY <1>2, <1>3, <2>1
<1>5. FirstSorted(artifacts, candidates)
      = {i \in candidates : \A j \in candidates : Worth(i) >= Worth(j)}
  BY <1>4 DEF FirstSorted
<1> QED
  BY <1>5 DEF Worth

\* The choice among any number of keys.
LEMMA Selections ==
  ASSUME Selection
  PROVE  BestKeyIsChosen
<1> DEFINE keys == question.keys
           L == Len(keys)
           prefs == question.prefs
           Wire(i) == IF keys[i].family = "openpgp" THEN "pgp" ELSE keys[i].family
           Algo(i) == keys[i].algorithms[1]
           usable == {i \in DOMAIN keys :
             /\ keys[i].material /\ keys[i].algorithms # <<>>
             /\ <<Wire(i), Algo(i)>> \in question.supported}
           liked == {i \in usable :
             /\ Wire(i) = prefs.family
             /\ prefs.algorithm \in {"none", Algo(i)}}
           Worth(i) == (IF Algo(i) \in PqAlgorithm THEN 4 * L ELSE 0)
                     + (IF Wire(i) = "smime" THEN 2 * L ELSE 0) + i
           best == IF liked # {} THEN {i \in liked : \A j \in liked : i <= j}
                   ELSE {i \in usable : \A j \in usable : Worth(i) >= Worth(j)}
           artifacts == encryption_artifacts_for_selection(keys)
           candidates == {i \in DOMAIN artifacts :
             Suits(artifacts[i], question.supported, "encryption")}
           preferred == {i \in candidates : Preferred(artifacts[i], prefs)}
           chosen == IF preferred # {}
                       THEN {i \in preferred : \A j \in preferred : i <= j}
                       ELSE FirstSorted(artifacts, candidates)
<1>1. /\ L \in Nat /\ DOMAIN keys = 1 .. L
      /\ \A i \in 1 .. L : keys[i].keyId = i
      /\ question.supported \subseteq WireFamily \X Algorithm
  BY DEF Selection
<1>2. /\ DOMAIN artifacts = Usable(keys)
      /\ \A i \in Usable(keys) :
           /\ artifacts[i].family = Wire(i)
           /\ artifacts[i].algorithm = Algo(i)
           /\ artifacts[i].key_id = Index(Usable(keys), i)
           /\ artifacts[i].published_key_id = keys[i].keyId
           /\ artifacts[i].status = "active"
           /\ artifacts[i].purpose = "encryption"
           /\ artifacts[i].material = "key"
  BY Artifacts DEF WireName
<1>3. Usable(keys) = {i \in DOMAIN keys :
        /\ Wire(i) \in WireFamily
        /\ keys[i].material /\ keys[i].algorithms # <<>>}
  BY DEF Usable, is_wire_family, WireName
<1>4. candidates = usable
  <2> HIDE DEF artifacts, Wire, Algo
  <2>1. ASSUME NEW i \in Usable(keys)
        PROVE  Suits(artifacts[i], question.supported, "encryption")
               <=> <<Wire(i), Algo(i)>> \in question.supported
    BY <1>2, <1>3 DEF Suits, is_wire_family, None
  <2>2. \A i : <<Wire(i), Algo(i)>> \in question.supported
                 => Wire(i) \in WireFamily
    BY <1>1
  <2> QED
    BY <1>2, <1>3, <2>1, <2>2
<1>5. usable \subseteq Usable(keys) /\ usable \subseteq 1 .. L
  BY <1>1, <1>2, <1>4
<1>6. \A i \in usable : Wire(i) \in WireFamily
  BY <1>3, <1>5
<1>7. preferred = liked
  <2> HIDE DEF artifacts, candidates, usable, Wire, Algo
  <2>1. ASSUME NEW i \in usable
        PROVE  Preferred(artifacts[i], prefs)
               <=> Wire(i) = prefs.family /\ prefs.algorithm \in {"none", Algo(i)}
    BY <1>2, <1>5, <1>6 DEF Preferred, is_wire_family, None
  <2> QED
    BY <1>4, <2>1
<1>8. FirstSorted(artifacts, usable)
      = {i \in usable : \A j \in usable : Worth(i) >= Worth(j)}
  <2> HIDE DEF artifacts, usable, Wire, Algo, L, keys
  <2>1. ASSUME NEW i \in usable, NEW j \in usable
        PROVE  /\ artifacts[i].key_id \in Nat
               /\ i < j => artifacts[i].key_id < artifacts[j].key_id
    <3>1. Usable(keys) \in SUBSET (1 .. L)
      BY <1>1, <1>3
    <3>2. /\ i \in Usable(keys) /\ j \in Usable(keys)
          /\ artifacts[i].key_id = Index(Usable(keys), i)
          /\ artifacts[j].key_id = Index(Usable(keys), j)
      BY <1>2, <1>5
    <3>3. /\ Index(Usable(keys), i) \in Nat
          /\ i < j => Index(Usable(keys), i) < Index(Usable(keys), j)
      BY <1>1, <3>1, <3>2, IndexGrows
    <3> QED
      BY <3>2, <3>3
  <2>2. /\ \A i \in usable : artifacts[i].family \in WireFamily
                          /\ artifacts[i].key_id \in Nat
        /\ \A i, j \in usable :
             i < j => artifacts[i].key_id < artifacts[j].key_id
    BY <1>2, <1>5, <1>6, <2>1
  <2>3. usable \in SUBSET (1 .. L) /\ L \in Nat
    BY <1>1, <1>5
  <2>4. FirstSorted(artifacts, usable)
        = {i \in usable : \A j \in usable :
             Weight(artifacts, L, i) >= Weight(artifacts, L, j)}
    BY <2>2, <2>3, MostWorth
  <2>5. \A i \in usable : Weight(artifacts, L, i) = Worth(i)
    BY <1>2, <1>5 DEF Weight
  <2> HIDE DEF Worth
  <2> QED
    BY <2>4, <2>5
<1>9. chosen = best
  <2> HIDE DEF candidates, usable, preferred, liked, Worth, artifacts
  <2> QED
    BY <1>4, <1>7, <1>8
<1>10. chosen \subseteq 1 .. L /\ \A i \in chosen : artifacts[i].published_key_id = i
  <2>1. chosen \subseteq candidates
    BY DEF FirstSorted
  <2> HIDE DEF chosen, candidates, usable, artifacts
  <2> QED
    BY <1>1, <1>2, <1>4, <1>5, <2>1
<1>11. {a.published_key_id : a \in select_best_encryption_key(keys,
          question.supported, prefs)} = chosen
  <2>1. select_best_encryption_key(keys, question.supported, prefs)
        = {artifacts[i] : i \in chosen}
    BY Zenon DEF select_best_encryption_key, select_best_artifact
  <2> HIDE DEF chosen, artifacts
  <2>2. {a.published_key_id : a \in {artifacts[i] : i \in chosen}}
        = {artifacts[i].published_key_id : i \in chosen}
    OBVIOUS
  <2>3. {artifacts[i].published_key_id : i \in chosen} = chosen
    BY <1>10
  <2> QED
    BY <2>1, <2>2, <2>3
<1>12. {a.published_key_id : a \in select_best_encryption_key(keys,
          question.supported, prefs)} = best
  <2> HIDE DEF chosen, best
  <2> QED
    BY <1>9, <1>11
<1> HIDE DEF artifacts, candidates, preferred, chosen
<1>13. {a.published_key_id : a \in select_best_encryption_key(question.keys,
          question.supported, question.prefs)} = best
  BY <1>12
<1> QED
  BY <1>13, Zenon DEF BestKeyIsChosen

-----------------------------------------------------------------------------
(* The questions are of these kinds.                                       *)

\* A question is of the kind it says.
Asked == /\ question.kind = "evaluation" => question \in Evaluation
         /\ question.kind = "proof" => question \in Claim
         /\ question.kind = "pairing" => question \in Meeting
         /\ question.kind = "key" => Selection

\* It always is.
LEMMA AlwaysAsked == AskSpec => []Asked
<1>1. AskInit => Asked
  BY DEF AskInit, Nothing, Asked
<1>2. ASSUME AskEvaluation PROVE Asked'
  <2>1. q - 1 \in Scalar \ {0} /\ q - 2 \in Scalar /\ 1 \in Scalar \ {0}
    BY Order
  <2>2. MCOracle \subseteq Oracle
    BY <2>1, Order DEF MCOracle, Oracle
  <2> QED
    BY <1>2, <2>1, <2>2 DEF AskEvaluation, Ask, Asked, Evaluation
<1>3. ASSUME AskProof PROVE Asked'
  BY <1>3 DEF AskProof, Ask, Asked, Claim
<1>4. ASSUME AskPairing PROVE Asked'
  BY <1>4 DEF AskPairing, Ask, Asked, Meeting
<1>5. ASSUME AskKey PROVE Asked'
  <2>1. PICK n \in 0 .. 3 :
          \E prefs \in Preference, supported \in SUBSET (WireFamily \X Algorithm),
             keys \in [1 .. n -> DocumentKey] :
            question' = [kind |-> "key", supported |-> supported,
              prefs |-> prefs,
              keys |-> [i \in 1 .. n |-> [family |-> keys[i].family,
                algorithms |-> keys[i].algorithms, material |-> keys[i].material,
                keyId |-> i]]]
    BY <1>5 DEF AskKey, Ask
  <2>2. /\ question'.kind = "key"
        /\ Len(question'.keys) = n /\ DOMAIN question'.keys = 1 .. n
        /\ \A i \in 1 .. n : question'.keys[i].keyId = i
        /\ question'.supported \in SUBSET (WireFamily \X Algorithm)
    BY <2>1
  <2> QED
    BY <2>2 DEF Asked, Selection
<1>6. ASSUME AskTyped \/ AskUri PROVE Asked'
  BY <1>6 DEF AskTyped, AskUri, Ask, Asked
<1>7. Asked /\ [AskNext]_question => Asked'
  <2>1. ASSUME Asked, UNCHANGED question PROVE Asked'
    BY <2>1 DEF Asked, Selection
  <2> QED
    BY <1>2, <1>3, <1>4, <1>5, <1>6, <2>1 DEF AskNext
<1> QED
  BY <1>1, <1>7, PTL DEF AskSpec

\* For every prime order, point, info, blind and key: an honest evaluation of
\* what the client asked gives the value of its input, and no answer to
\* anything else, or under another key, is accepted.
THEOREM EvaluationsAreRight == AskSpec => []EvaluationIsRight
<1>1. Asked => EvaluationIsRight
  BY Evaluations DEF Asked, EvaluationIsRight
<1> QED
  BY <1>1, AlwaysAsked, PTL

\* For every prime order: a host that has committed itself can answer one
\* challenge at most for an evaluation that is not by its key.
THEOREM ProofsBind == AskSpec => []ProofBindsEvaluation
<1>1. Asked => ProofBindsEvaluation
  BY Proofs DEF Asked, ProofBindsEvaluation
<1> QED
  BY <1>1, AlwaysAsked, PTL

\* For every prime order, generator, scalar and element on the way: the new
\* device reads the vault key exactly if both devices have the same password,
\* session and identity, and each the element the other made.
THEOREM DevicesAgree == AskSpec => []PairedDevicesAgree
<1>1. Asked => PairedDevicesAgree
  BY Pairings DEF Asked, PairedDevicesAgree
<1> QED
  BY <1>1, AlwaysAsked, PTL
\* For any algorithms, preference and supported pairs: the key that is chosen
\* is the first of the client's liking or else, by algorithm, family and
\* place, the best that the client supports; and there is one if any fits.
THEOREM BestIsChosen == AskSpec => []BestKeyIsChosen
<1>1. Asked => BestKeyIsChosen
  BY Selections DEF Asked, BestKeyIsChosen
<1> QED
  BY <1>1, AlwaysAsked, PTL
=============================================================================
