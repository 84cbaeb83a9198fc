------------------------ MODULE FolderPairingProofs ------------------------
(***************************************************************************)
(* The safety properties of FolderPairing, for any number of sessions,     *)
(* approvers and devices that stop. Nobody guards a session file, so what  *)
(* is proved rests on the new device alone: only it writes COMPLETED, and  *)
(* what it opened it has read under its own password.                      *)
(***************************************************************************)
EXTENDS FolderPairing, TLAPS

\* An answer in a file is some approver's, and only a device that joined has
\* written that it did.
FilesTellTheTruth ==
  \A s \in Session :
    /\ file[s].state = "RESPONDED" => file[s].answer.by \in Approver
    /\ file[s].state = "COMPLETED" => newpc[s] = "joined"

\* What a new device goes on with was made under its password.
OpenedIsApproved ==
  \A s \in Session :
    newpc[s] \in {"opened", "joined"} => got[s].by \in Approver /\ got[s].right

\* An approver at work has a session; one that returned well has a joined one.
ApproversHaveSessions ==
  \A a \in Approver :
    /\ pc[a] \in Running \cup {"ok"} => work[a] \in Session
    /\ pc[a] = "ok" => newpc[work[a]] = "joined"

Inv == TypeOK /\ FilesTellTheTruth /\ OpenedIsApproved /\ ApproversHaveSessions

\* The steps of one new device, and those of one approver.
NewStep(s) == Start(s) \/ NewSteps(s) \/ Expire(s) \/ NewStops(s)

ApproverStep(a) == \/ \E s \in Session : Fetch(a, s)
                   \/ Steps(a) \/ Deadline(a) \/ ApproverStops(a)

-----------------------------------------------------------------------------
(* The new device.                                                         *)

\* The steps of a new device keep the types.
LEMMA NewStepType ==
  ASSUME TypeOK, NEW s \in Session, NewStep(s)
  PROVE  TypeOK'
<1> USE FolderPairingAssumption
    DEF TypeOK, Answers, NoAnswer, NewRunning, NewEnded, approver, NewGoto
<1>1. CASE Start(s)
  BY <1>1 DEF Start, Write
<1>2. CASE Poll(s)
  BY <1>2 DEF Poll
<1>3. CASE PollClock(s) \/ Expire(s)
  BY <1>3 DEF PollClock, Expire
<1>4. CASE Complete(s)
  BY <1>4 DEF Complete, Write
<1>5. CASE NewStops(s)
  BY <1>5 DEF NewStops, Fault
<1> QED
  BY <1>1, <1>2, <1>3, <1>4, <1>5 DEF NewStep, NewSteps

\* A new device writes no file but its own and keeps what it has joined by.
LEMMA NewStepKeeps ==
  ASSUME TypeOK, NEW s \in Session, NewStep(s)
  PROVE  /\ UNCHANGED <<pc, work>>
         /\ newpc[s] = "joined" => newpc'[s] = "joined"
         /\ \A t \in Session \ {s} : /\ file'[t] = file[t]
                                     /\ newpc'[t] = newpc[t]
                                     /\ got'[t] = got[t]
<1> USE DEF TypeOK, approver, NewGoto
<1>1. CASE Start(s) \/ Complete(s)
  BY <1>1 DEF Start, Complete, Write
<1>2. CASE Poll(s)
  BY <1>2 DEF Poll
<1>3. CASE PollClock(s) \/ Expire(s) \/ NewStops(s)
  BY <1>3 DEF PollClock, Expire, NewStops, NewRunning
<1> QED
  BY <1>1, <1>2, <1>3 DEF NewStep, NewSteps

\* The session file and what the device holds stay in step.
LEMMA NewStepHolds ==
  ASSUME Inv, NEW s \in Session, NewStep(s)
  PROVE  FilesTellTheTruth!(s)' /\ OpenedIsApproved!(s)'
<1> USE DEF Inv, TypeOK, NewGoto, FilesTellTheTruth, OpenedIsApproved
<1>1. CASE Start(s)
  BY <1>1 DEF Start, Write
<1>2. CASE Poll(s)
  BY <1>2 DEF Poll, Answers
<1>3. CASE PollClock(s)
  BY <1>3 DEF PollClock
<1>4. CASE Complete(s)
  BY <1>4 DEF Complete, Write
<1>5. CASE Expire(s)
  BY <1>5 DEF Expire
<1>6. CASE NewStops(s)
  BY <1>6 DEF NewStops, NewRunning
<1> QED
  BY <1>1, <1>2, <1>3, <1>4, <1>5, <1>6 DEF NewStep, NewSteps

\* The whole invariant, over a step of a new device.
LEMMA NewStepInv ==
  ASSUME Inv, NEW s \in Session, NewStep(s)
  PROVE  Inv'
<1> USE DEF Inv
<1>1. TypeOK'
  BY NewStepType
<1>2. FilesTellTheTruth' /\ OpenedIsApproved'
  BY NewStepKeeps, NewStepHolds DEF FilesTellTheTruth, OpenedIsApproved
<1>3. ApproversHaveSessions'
  BY NewStepKeeps DEF ApproversHaveSessions
<1> QED
  BY <1>1, <1>2, <1>3

-----------------------------------------------------------------------------
(* The approvers.                                                          *)

\* The steps of an approver keep the types.
LEMMA ApproverStepType ==
  ASSUME TypeOK, ApproversHaveSessions, NEW a \in Approver, ApproverStep(a)
  PROVE  TypeOK'
<1> USE FolderPairingAssumption
    DEF TypeOK, Running, Ended, newDevice, Goto
<1>1. CASE \E s \in Session : Fetch(a, s)
  BY <1>1 DEF Fetch
<1>2. CASE Respond(a)
  BY <1>2 DEF Respond, Write, Answers, ApproversHaveSessions
<1>3. CASE Wait(a) \/ WaitClock(a) \/ Deadline(a)
  BY <1>3 DEF Wait, WaitClock, Deadline
<1>4. CASE ApproverStops(a)
  BY <1>4 DEF ApproverStops, Fault
<1> QED
  BY <1>1, <1>2, <1>3, <1>4 DEF ApproverStep, Steps

\* An approver touches no new device, and changes a file only by its answer.
LEMMA ApproverStepKeeps ==
  ASSUME TypeOK, ApproversHaveSessions, NEW a \in Approver, ApproverStep(a)
  PROVE  /\ UNCHANGED <<newpc, got>>
         /\ \A s \in Session :
              \/ file'[s] = file[s]
              \/ file'[s].state = "RESPONDED" /\ file'[s].answer.by = a
         /\ \A b \in Approver \ {a} : pc'[b] = pc[b] /\ work'[b] = work[b]
<1> USE DEF TypeOK, newDevice, Goto
<1>1. CASE \E s \in Session : Fetch(a, s)
  BY <1>1 DEF Fetch
<1>2. CASE Respond(a)
  BY <1>2 DEF Respond, Write, Running, ApproversHaveSessions
<1>3. CASE Wait(a) \/ WaitClock(a) \/ Deadline(a) \/ ApproverStops(a)
  BY <1>3 DEF Wait, WaitClock, Deadline, ApproverStops
<1> QED
  BY <1>1, <1>2, <1>3 DEF ApproverStep, Steps

\* An approver returns well only when the file of its session says COMPLETED.
LEMMA ApproverStepHolds ==
  ASSUME Inv, NEW a \in Approver, ApproverStep(a)
  PROVE  ApproversHaveSessions!(a)'
<1> USE DEF Inv, TypeOK, Goto, newDevice, Running, ApproversHaveSessions
<1>1. CASE \E s \in Session : Fetch(a, s)
  BY <1>1 DEF Fetch
<1>2. CASE Respond(a)
  BY <1>2 DEF Respond
<1>3. CASE Wait(a)
  BY <1>3 DEF Wait, FilesTellTheTruth
<1>4. CASE WaitClock(a) \/ Deadline(a) \/ ApproverStops(a)
  BY <1>4 DEF WaitClock, Deadline, ApproverStops
<1> QED
  BY <1>1, <1>2, <1>3, <1>4 DEF ApproverStep, Steps

\* The whole invariant, over a step of an approver.
LEMMA ApproverStepInv ==
  ASSUME Inv, NEW a \in Approver, ApproverStep(a)
  PROVE  Inv'
<1> USE DEF Inv
<1>1. TypeOK'
  BY ApproverStepType
<1>2. FilesTellTheTruth' /\ OpenedIsApproved'
  BY ApproverStepKeeps DEF FilesTellTheTruth, OpenedIsApproved
<1>3. ApproversHaveSessions'
  BY ApproverStepKeeps, ApproverStepHolds DEF ApproversHaveSessions
<1> QED
  BY <1>1, <1>2, <1>3

-----------------------------------------------------------------------------
(* The invariant and what follows from it.                                 *)

\* It holds before any file was written,
LEMMA InitInv == Init => Inv
  BY FolderPairingAssumption
     DEF Init, Inv, TypeOK, Answers, NoAnswer, NewRunning, NewEnded, Running,
         Ended, FilesTellTheTruth, OpenedIsApproved, ApproversHaveSessions

\* over steps that change nothing,
LEMMA StutterInv == Inv /\ UNCHANGED vars => Inv'
  BY DEF vars, newDevice, approver, Inv, TypeOK, FilesTellTheTruth,
         OpenedIsApproved, ApproversHaveSessions

\* and so always: files, new devices and approvers agree as Inv says.
THEOREM Invariance == Spec => []Inv
<1>1. Inv /\ [Next]_vars => Inv'
  <2> SUFFICES ASSUME Inv, [Next]_vars
               PROVE  Inv'
    OBVIOUS
  <2>1. CASE \E s \in Session : NewStep(s)
    BY <2>1, NewStepInv
  <2>2. CASE \E a \in Approver : ApproverStep(a)
    BY <2>2, ApproverStepInv
  <2> QED
    BY <2>1, <2>2, StutterInv DEF Next, NewStep, ApproverStep
<1> QED
  BY <1>1, InitInv, PTL DEF Spec

\* startFolderPairing completes with a vault only by an answer that was made
\* under its password, whoever replaced the file in between.
THEOREM OnlyApprovedJoin == Spec => []JoinedWasApproved
<1>1. Inv => JoinedWasApproved
  BY DEF Inv, JoinedWasApproved, OpenedIsApproved
<1> QED
  BY <1>1, Invariance, PTL

\* approveFolderPairing returns without an error only when its session's
\* device has joined.
THEOREM OkOnlyIfJoined == Spec => []OkMeansJoined
<1>1. Inv => OkMeansJoined
  BY DEF Inv, OkMeansJoined, ApproversHaveSessions
<1> QED
  BY <1>1, Invariance, PTL
=============================================================================
