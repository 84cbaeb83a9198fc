------------------------------ MODULE Pairing ------------------------------
(***************************************************************************)
(* Device pairing through the host's mailbox: pairing/pairing_flow.rs of   *)
(* crates/scomm-vault. A new device opens a mailbox and polls it; devices  *)
(* that have the vault may fetch the request, push, answer with the vault  *)
(* key under a key derived from the password, and poll until the answer is *)
(* collected. The mailbox is the one of the host in tests/common/mod.rs.   *)
(*                                                                         *)
(* Every call of start_pairing has a mailbox and a poller of its own, so a *)
(* session stands for the new device that opened it. Boxes and keys are    *)
(* reduced to one fact: whether the answer was made with the password the  *)
(* new device shows, which is when its confirmation opens.                 *)
(***************************************************************************)
EXTENDS Naturals

CONSTANTS
  Session,     \* pairing sessions
  Approver,    \* devices that have the vault
  NoOne,       \* nobody answered; no session is being worked on
  MaxFaults    \* bound: host calls that fail

ASSUME PairingAssumption == /\ NoOne \notin Session \cup Approver
                            /\ MaxFaults \in Nat

VARIABLES
  mailbox,   \* mailbox[s]: what the host keeps for session s
  tokens,    \* sessions whose single-use read token is unused
  stored,    \* the host stores the vault
  newpc,     \* newpc[s]: where the new device stands, or how it ended
  expired,   \* expired[s]: the new device's clock is past expires_at
  pc,        \* pc[a]: where the approver stands, or how it ended
  work,      \* work[a]: the session the approver works on
  due,       \* due[a]: the approver's clock is past its deadline
  faults

newDevice == <<newpc, expired>>
approver  == <<pc, work, due>>
vars == <<mailbox, tokens, stored, newDevice, approver, faults>>

NewRunning == {"poll", "clock", "read"}
NewEnded   == {"joined", "mismatch", "already_responded", "expired",
               "not_synced", "token_invalid", "failed"}
Running    == {"fetched", "respond", "wait", "clock"}
Ended      == {"idle", "ok", "refused", "uncollected", "failed"}

TypeOK ==
  /\ mailbox \in [Session -> [state : {"NONE", "PENDING", "RESPONDED",
                                       "COMPLETED"},
                              by    : Approver \cup {NoOne},
                              right : BOOLEAN]]
  /\ tokens \subseteq Session
  /\ stored \in BOOLEAN
  /\ newpc \in [Session -> {"none"} \cup NewRunning \cup NewEnded]
  /\ expired \in [Session -> BOOLEAN]
  /\ pc \in [Approver -> Running \cup Ended]
  /\ work \in [Approver -> Session \cup {NoOne}]
  /\ due \in [Approver -> BOOLEAN]
  /\ faults \in 0 .. MaxFaults

Init ==
  /\ mailbox = [s \in Session |->
                  [state |-> "NONE", by |-> NoOne, right |-> FALSE]]
  /\ tokens = {}
  /\ stored = FALSE
  /\ newpc = [s \in Session |-> "none"]
  /\ expired = [s \in Session |-> FALSE]
  /\ pc = [a \in Approver |-> "idle"]
  /\ work = [a \in Approver |-> NoOne]
  /\ due = [a \in Approver |-> FALSE]
  /\ faults = 0

NewGoto(s, p) == newpc' = [newpc EXCEPT ![s] = p]
Goto(a, p)    == pc' = [pc EXCEPT ![a] = p]

-----------------------------------------------------------------------------
(* The mailbox.                                                            *)

OpenMailbox(s) ==
  mailbox' = [mailbox EXCEPT ![s].state = "PENDING"]

\* Wrong on purpose: an answer is handed out without its read token.
CollectNoToken(s) ==
  /\ mailbox' = IF mailbox[s].state = "RESPONDED"
                THEN [mailbox EXCEPT ![s].state = "COMPLETED"] ELSE mailbox
  /\ UNCHANGED tokens

\* get_pairing with the device id of the mailbox: an answer is handed out
\* once, together with a read token.
Collect(s) ==
  IF mailbox[s].state = "RESPONDED"
  THEN /\ mailbox' = [mailbox EXCEPT ![s].state = "COMPLETED"]
       /\ tokens' = tokens \cup {s}
  ELSE UNCHANGED <<mailbox, tokens>>

\* Wrong on purpose: a later answer replaces the first.
AnswerReplaces(a, s, right) ==
  IF mailbox[s].state \in {"PENDING", "RESPONDED"}
  THEN mailbox' = [mailbox EXCEPT ![s] =
                     [state |-> "RESPONDED", by |-> a, right |-> right]]
  ELSE UNCHANGED mailbox

\* respond_pairing: only the first answer is taken.
Answer(a, s, right) ==
  IF mailbox[s].state = "PENDING"
  THEN mailbox' = [mailbox EXCEPT ![s] =
                     [state |-> "RESPONDED", by |-> a, right |-> right]]
  ELSE UNCHANGED mailbox

-----------------------------------------------------------------------------
(* The new device.                                                         *)

\* start_pairing
Start(s) ==
  /\ newpc[s] = "none"
  /\ OpenMailbox(s)
  /\ NewGoto(s, "poll")
  /\ UNCHANGED <<tokens, stored, expired, approver, faults>>

\* Wrong on purpose: the confirmation is not opened.
HeardUnconfirmed(s) ==
  CASE mailbox[s].state = "RESPONDED" -> "read"
    [] mailbox[s].state = "COMPLETED" -> "already_responded"
    [] OTHER -> "clock"

\* What the poll answer leads to: an answer is confirmed on the spot, with
\* the password of this session; anything else lets the clock decide.
Heard(s) ==
  CASE mailbox[s].state = "RESPONDED" ->
         IF mailbox[s].right THEN "read" ELSE "mismatch"
    [] mailbox[s].state = "COMPLETED" -> "already_responded"
    [] OTHER -> "clock"

Poll(s) ==
  /\ newpc[s] = "poll"
  /\ Collect(s)
  /\ NewGoto(s, Heard(s))
  /\ UNCHANGED <<stored, expired, approver, faults>>

\* The clock is read after the answer: nothing was there when it was asked.
PollClock(s) ==
  /\ newpc[s] = "clock"
  /\ NewGoto(s, IF expired[s] THEN "expired" ELSE "poll")
  /\ UNCHANGED <<mailbox, tokens, stored, expired, approver, faults>>

\* current_record with the read token, which the host takes once.
Read(s) ==
  /\ newpc[s] = "read"
  /\ tokens' = tokens \ {s}
  /\ NewGoto(s, CASE s \notin tokens -> "token_invalid"
                  [] s \in tokens /\ stored -> "joined"
                  [] OTHER -> "not_synced")
  /\ UNCHANGED <<mailbox, stored, expired, approver, faults>>

\* The new device's clock passes expires_at.
Expire(s) ==
  /\ newpc[s] \in {"poll", "clock"}
  /\ ~expired[s]
  /\ expired' = [expired EXCEPT ![s] = TRUE]
  /\ UNCHANGED <<mailbox, tokens, stored, newpc, approver, faults>>

-----------------------------------------------------------------------------
(* An approving device.                                                    *)

\* fetch_pairing_request: only a pending request is returned.
Fetch(a, s) ==
  /\ pc[a] \in Ended
  /\ mailbox[s].state = "PENDING"
  /\ Goto(a, "fetched")
  /\ work' = [work EXCEPT ![a] = s]
  /\ due' = [due EXCEPT ![a] = FALSE]
  /\ UNCHANGED <<mailbox, tokens, stored, newDevice, faults>>

\* Wrong on purpose: the request is answered before the vault is pushed.
PushSkipped(a) ==
  /\ pc[a] = "fetched"
  /\ Goto(a, "respond")
  /\ UNCHANGED <<mailbox, tokens, stored, newDevice, work, due, faults>>

\* approve_pairing pushes its vault first,
Push(a) ==
  /\ pc[a] = "fetched"
  /\ stored' = TRUE
  /\ Goto(a, "respond")
  /\ UNCHANGED <<mailbox, tokens, newDevice, work, due, faults>>

\* then answers, with the password its user scanned or typed,
Respond(a) ==
  /\ pc[a] = "respond"
  /\ \E right \in BOOLEAN : Answer(a, work[a], right)
  /\ Goto(a, IF mailbox[work[a]].state = "PENDING" THEN "wait" ELSE "refused")
  /\ UNCHANGED <<tokens, stored, newDevice, work, due, faults>>

\* and polls, without a device id, until the answer has been collected
Wait(a) ==
  /\ pc[a] = "wait"
  /\ Goto(a, IF mailbox[work[a]].state = "COMPLETED" THEN "ok" ELSE "clock")
  /\ UNCHANGED <<mailbox, tokens, stored, newDevice, work, due, faults>>

\* or its deadline has passed.
WaitClock(a) ==
  /\ pc[a] = "clock"
  /\ Goto(a, IF due[a] THEN "uncollected" ELSE "wait")
  /\ UNCHANGED <<mailbox, tokens, stored, newDevice, work, due, faults>>

\* The approver's clock passes its deadline.
Deadline(a) ==
  /\ pc[a] \in {"wait", "clock"}
  /\ ~due[a]
  /\ due' = [due EXCEPT ![a] = TRUE]
  /\ UNCHANGED <<mailbox, tokens, stored, newDevice, pc, work, faults>>

-----------------------------------------------------------------------------
(* A host call fails with network_error, before the host took it or after: *)
(* no call of the pairing flow is tried again.                             *)

Fault == faults < MaxFaults /\ faults' = faults + 1

StartFails(s) ==
  /\ Fault
  /\ newpc[s] = "none"
  /\ OpenMailbox(s) \/ UNCHANGED mailbox
  /\ NewGoto(s, "failed")
  /\ UNCHANGED <<tokens, stored, expired, approver>>

PollFails(s) ==
  /\ Fault
  /\ newpc[s] = "poll"
  /\ Collect(s) \/ UNCHANGED <<mailbox, tokens>>
  /\ NewGoto(s, "failed")
  /\ UNCHANGED <<stored, expired, approver>>

ReadFails(s) ==
  /\ Fault
  /\ newpc[s] = "read"
  /\ tokens' \in {tokens, tokens \ {s}}
  /\ NewGoto(s, "failed")
  /\ UNCHANGED <<mailbox, stored, expired, approver>>

PushFails(a) ==
  /\ Fault
  /\ pc[a] = "fetched"
  /\ stored' \in {stored, TRUE}
  /\ Goto(a, "failed")
  /\ UNCHANGED <<mailbox, tokens, newDevice, work, due>>

RespondFails(a) ==
  /\ Fault
  /\ pc[a] = "respond"
  /\ \/ \E right \in BOOLEAN : Answer(a, work[a], right)
     \/ UNCHANGED mailbox
  /\ Goto(a, "failed")
  /\ UNCHANGED <<tokens, stored, newDevice, work, due>>

WaitFails(a) ==
  /\ Fault
  /\ pc[a] = "wait"
  /\ Goto(a, "failed")
  /\ UNCHANGED <<mailbox, tokens, stored, newDevice, work, due>>

-----------------------------------------------------------------------------
(* The specification.                                                      *)

NewSteps(s) == Poll(s) \/ PollClock(s) \/ Read(s)

Steps(a) == Push(a) \/ Respond(a) \/ Wait(a) \/ WaitClock(a)

Next ==
  \/ \E s \in Session : \/ Start(s) \/ NewSteps(s) \/ Expire(s)
                        \/ StartFails(s) \/ PollFails(s) \/ ReadFails(s)
  \/ \E a \in Approver : \/ \E s \in Session : Fetch(a, s)
                         \/ Steps(a) \/ Deadline(a)
                         \/ PushFails(a) \/ RespondFails(a) \/ WaitFails(a)

Spec == Init /\ [][Next]_vars

\* Both sides run their loops, and clocks go on.
Fairness ==
  /\ \A s \in Session : WF_vars(NewSteps(s)) /\ WF_vars(Expire(s))
  /\ \A a \in Approver : WF_vars(Steps(a)) /\ WF_vars(Deadline(a))

FairSpec == Spec /\ Fairness

-----------------------------------------------------------------------------
(* Properties.                                                             *)

\* A new device joins only with what a device of this vault answered under
\* the password of this session, however many approvers race for it.
JoinedWasApproved ==
  \A s \in Session :
    newpc[s] = "joined" => /\ mailbox[s].by \in Approver
                           /\ mailbox[s].right

\* approve_pairing returns Ok only to the approver whose own answer the new
\* device collected; that device has not given up for lack of an approval.
OkWasCollected ==
  \A a \in Approver :
    pc[a] = "ok" => /\ mailbox[work[a]].by = a
                    /\ newpc[work[a]] \notin {"none", "poll", "clock", "expired"}

\* The record that a collected answer opens is on the host when the new
\* device reads it: it never ends with vault_not_synced.
AnswerFindsVault ==
  \A s \in Session : newpc[s] # "not_synced"

\* When approve_pairing has returned Ok and the password was the right one,
\* the new device gets the vault, unless a call of its own fails.
ApprovedJoins ==
  \A a \in Approver, s \in Session :
    pc[a] = "ok" /\ work[a] = s /\ mailbox[s].right
      ~> newpc[s] \in {"joined", "failed"}
=============================================================================
