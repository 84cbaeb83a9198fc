--------------------------- MODULE FolderPairing ---------------------------
(***************************************************************************)
(* Device pairing through a shared folder: pairing/folder_pairing.dart of  *)
(* packages/scomm_vault_client. A session is a file that the new device    *)
(* and the approvers read and replace; nobody guards it, so an approver    *)
(* answers with the request it read some time ago.                         *)
(*                                                                         *)
(* As in Pairing, boxes and keys are reduced to whether an answer was made *)
(* with the password of the session. Replacing the file (write beside it,  *)
(* rename) is one step.                                                    *)
(***************************************************************************)
EXTENDS Naturals

CONSTANTS
  Session,     \* pairing sessions, each with its new device
  Approver,    \* devices that have the vault
  NoOne,       \* nobody
  MaxFaults    \* bound: devices that stop in the middle

ASSUME FolderPairingAssumption == /\ NoOne \notin Session \cup Approver
                                  /\ MaxFaults \in Nat

VARIABLES
  file,      \* file[s]: state and answer in pair/<s>.json
  newpc,     \* newpc[s]: where the new device stands, or how it ended
  got,       \* got[s]: the answer the new device has read
  expired,   \* expired[s]: the new device's clock is past expiresAt
  pc,        \* pc[a]: where the approver stands, or how it ended
  work,      \* work[a]: the session it works on
  due,       \* due[a]: its clock is past the deadline
  faults

newDevice == <<newpc, got, expired>>
approver  == <<pc, work, due>>
vars == <<file, newDevice, approver, faults>>

Answers == [by : Approver \cup {NoOne}, right : BOOLEAN]

NoAnswer == [by |-> NoOne, right |-> FALSE]

NewRunning == {"poll", "clock", "opened"}
NewEnded   == {"joined", "mismatch", "already_responded", "expired", "stopped"}
Running    == {"fetched", "wait", "clock"}
Ended      == {"idle", "ok", "uncollected", "stopped"}

TypeOK ==
  /\ file \in [Session -> [state  : {"NONE", "PENDING", "RESPONDED",
                                     "COMPLETED"},
                           answer : Answers]]
  /\ newpc \in [Session -> {"none"} \cup NewRunning \cup NewEnded]
  /\ got \in [Session -> Answers]
  /\ expired \in [Session -> BOOLEAN]
  /\ pc \in [Approver -> Running \cup Ended]
  /\ work \in [Approver -> Session \cup {NoOne}]
  /\ due \in [Approver -> BOOLEAN]
  /\ faults \in 0 .. MaxFaults

Init ==
  /\ file = [s \in Session |-> [state |-> "NONE", answer |-> NoAnswer]]
  /\ newpc = [s \in Session |-> "none"]
  /\ got = [s \in Session |-> NoAnswer]
  /\ expired = [s \in Session |-> FALSE]
  /\ pc = [a \in Approver |-> "idle"]
  /\ work = [a \in Approver |-> NoOne]
  /\ due = [a \in Approver |-> FALSE]
  /\ faults = 0

Write(s, state, answer) ==
  file' = [file EXCEPT ![s] = [state |-> state, answer |-> answer]]

NewGoto(s, p) == newpc' = [newpc EXCEPT ![s] = p]
Goto(a, p)    == pc' = [pc EXCEPT ![a] = p]

-----------------------------------------------------------------------------
(* The new device.                                                         *)

\* startFolderPairing
Start(s) ==
  /\ newpc[s] = "none"
  /\ Write(s, "PENDING", NoAnswer)
  /\ NewGoto(s, "poll")
  /\ UNCHANGED <<got, expired, approver, faults>>

\* Wrong on purpose: an answer whose confirmation fails is opened as well.
PollUnconfirmed(s) ==
  /\ newpc[s] = "poll"
  /\ CASE file[s].state = "RESPONDED" ->
            /\ got' = [got EXCEPT ![s] = file[s].answer]
            /\ NewGoto(s, "opened")
       [] file[s].state = "COMPLETED" ->
            NewGoto(s, "already_responded") /\ UNCHANGED got
       [] OTHER ->
            NewGoto(s, "clock") /\ UNCHANGED got
  /\ UNCHANGED <<file, expired, approver, faults>>

\* The file is read. An answer is opened with the password of the session;
\* one made with another password ends the pairing, and its file stays.
Poll(s) ==
  /\ newpc[s] = "poll"
  /\ CASE file[s].state = "RESPONDED" ->
            /\ got' = [got EXCEPT ![s] = file[s].answer]
            /\ NewGoto(s, IF file[s].answer.right THEN "opened"
                                                  ELSE "mismatch")
       [] file[s].state = "COMPLETED" ->
            NewGoto(s, "already_responded") /\ UNCHANGED got
       [] OTHER ->
            NewGoto(s, "clock") /\ UNCHANGED got
  /\ UNCHANGED <<file, expired, approver, faults>>

PollClock(s) ==
  /\ newpc[s] = "clock"
  /\ NewGoto(s, IF expired[s] THEN "expired" ELSE "poll")
  /\ UNCHANGED <<file, got, expired, approver, faults>>

\* The container is open and its transcript verified: the file says so.
Complete(s) ==
  /\ newpc[s] = "opened"
  /\ Write(s, "COMPLETED", NoAnswer)
  /\ NewGoto(s, "joined")
  /\ UNCHANGED <<got, expired, approver, faults>>

Expire(s) ==
  /\ newpc[s] \in {"poll", "clock"}
  /\ ~expired[s]
  /\ expired' = [expired EXCEPT ![s] = TRUE]
  /\ UNCHANGED <<file, newpc, got, approver, faults>>

-----------------------------------------------------------------------------
(* An approving device.                                                    *)

\* fetchFolderPairing
Fetch(a, s) ==
  /\ pc[a] \in Ended
  /\ file[s].state = "PENDING"
  /\ Goto(a, "fetched")
  /\ work' = [work EXCEPT ![a] = s]
  /\ due' = [due EXCEPT ![a] = FALSE]
  /\ UNCHANGED <<file, newDevice, faults>>

\* approveFolderPairing replaces the file, whatever it says by now,
Respond(a) ==
  /\ pc[a] = "fetched"
  /\ \E right \in BOOLEAN :
        Write(work[a], "RESPONDED", [by |-> a, right |-> right])
  /\ Goto(a, "wait")
  /\ UNCHANGED <<newDevice, work, due, faults>>

\* Wrong on purpose: an answer that is gone counts as collected.
WaitAny(a) ==
  /\ pc[a] = "wait"
  /\ Goto(a, IF file[work[a]].answer.by # a THEN "ok" ELSE "clock")
  /\ UNCHANGED <<file, newDevice, work, due, faults>>

\* and polls until the file says COMPLETED
Wait(a) ==
  /\ pc[a] = "wait"
  /\ Goto(a, IF file[work[a]].state = "COMPLETED" THEN "ok" ELSE "clock")
  /\ UNCHANGED <<file, newDevice, work, due, faults>>

\* or the deadline has passed.
WaitClock(a) ==
  /\ pc[a] = "clock"
  /\ Goto(a, IF due[a] THEN "uncollected" ELSE "wait")
  /\ UNCHANGED <<file, newDevice, work, due, faults>>

Deadline(a) ==
  /\ pc[a] \in {"wait", "clock"}
  /\ ~due[a]
  /\ due' = [due EXCEPT ![a] = TRUE]
  /\ UNCHANGED <<file, newDevice, pc, work, faults>>

-----------------------------------------------------------------------------
(* A device stops (its process ends, or it cannot write the folder).       *)

Fault == faults < MaxFaults /\ faults' = faults + 1

NewStops(s) ==
  /\ Fault
  /\ newpc[s] \in NewRunning
  /\ NewGoto(s, "stopped")
  /\ UNCHANGED <<file, got, expired, approver>>

ApproverStops(a) ==
  /\ Fault
  /\ pc[a] \in Running
  /\ Goto(a, "stopped")
  /\ UNCHANGED <<file, newDevice, work, due>>

-----------------------------------------------------------------------------
(* The specification.                                                      *)

NewSteps(s) == Poll(s) \/ PollClock(s) \/ Complete(s)

Steps(a) == Respond(a) \/ Wait(a) \/ WaitClock(a)

Next ==
  \/ \E s \in Session : Start(s) \/ NewSteps(s) \/ Expire(s) \/ NewStops(s)
  \/ \E a \in Approver : \/ \E s \in Session : Fetch(a, s)
                         \/ Steps(a) \/ Deadline(a) \/ ApproverStops(a)

Spec == Init /\ [][Next]_vars

-----------------------------------------------------------------------------
(* Properties.                                                             *)

\* A new device joins only with an answer that an approver made with the
\* password of this session, though any answer may be replaced by another.
JoinedWasApproved ==
  \A s \in Session :
    newpc[s] = "joined" => got[s].by \in Approver /\ got[s].right

\* When an approver returns without an error the new device has joined, by
\* its answer or by one that took its place.
OkMeansJoined ==
  \A a \in Approver : pc[a] = "ok" => newpc[work[a]] = "joined"
=============================================================================
