--------------------------- MODULE DirectoryCalls ---------------------------
(***************************************************************************)
(* The calls that change something on the directory's hosts, and the       *)
(* transport they all go through: pubkeyRequest of http.rs and http.dart.  *)
(* A call sends one request up to CONNECTION_ATTEMPTS times. An answer to  *)
(* an earlier attempt is never read, but the request of that attempt may   *)
(* still be under way and reach the host at any later time, even after the *)
(* call has returned.                                                      *)
(*                                                                         *)
(* Two things keep a repeated request from taking effect twice. Signed     *)
(* operations carry a nonce that is made once per call; the host answers   *)
(* nonce_replayed to a nonce it has accepted, which the client takes for   *)
(* the lost success if it has lost a connection in this call. The Dart     *)
(* client sends every request of a call under one Idempotency-Key, for     *)
(* which the host repeats its first answer; the Rust client sends none.    *)
(*                                                                         *)
(* The hosts are not in the repository. They do what the clients rely on:  *)
(* is_pubkey_replay_rejection, withIdempotencyKey and the comments there.  *)
(* That a nonce is looked up before anything else about a signed request   *)
(* is refused, its timestamp or its grant, is assumed: only then is the    *)
(* answer to a repeated request the echo of the first one.                 *)
(***************************************************************************)
EXTENDS Naturals

CONSTANTS
  Call,                 \* the calls; also their nonces and their new key ids
  Lang,                 \* the clients in use: "rust", "dart"
  CONNECTION_ATTEMPTS,
  OldGrant,             \* a grant the application got earlier
  NoCode                \* no challenge

ASSUME CallsAssumption ==
  /\ Lang \subseteq {"rust", "dart"}
  /\ CONNECTION_ATTEMPTS \in Nat \ {0}

Attempt == 1 .. CONNECTION_ATTEMPTS
\* A request on its way. One that took effect also names what it made: the
\* mailer's challenge together with the code it mailed.
Request == Call \X Attempt
Challenge == Request \cup {OldGrant}

SignedKind == {"arm", "set", "withdraw", "pop"}
Kind == SignedKind \cup {"otp", "verify"}

Answer == [code  : {"ok", "refused", "nonce_replayed"},
           value : Challenge \cup {NoCode},
           after : BOOLEAN]
\* No answer yet.
NoAnswer == [code |-> "none", value |-> NoCode, after |-> FALSE]

VARIABLES
  op,          \* op[c]: what call c is, once it has started
  pc,          \* pc[c]: where call c stands, or what it returned
  attempt,     \* attempt[c]: the attempt whose answer c waits for
  had_connection_failure,
  answer,      \* answer[c]: the host's answer to that attempt
  net,         \* requests that have not reached the host
  otp_challenge_ids,  \* per client: the challenge of its last code request
  grants,      \* grants the application holds
  took,        \* requests that took effect at a host
  kept,        \* kept[c]: the answer kept under the call's Idempotency-Key
  armed,       \* the identity has an armed MSK
  keys,        \* key ids that are published
  spent,       \* challenges whose code was used, for a grant
  used         \* grants that armed an MSK

callVars == <<op, pc, attempt, had_connection_failure, answer>>
appVars  == <<otp_challenge_ids, grants>>
hostVars == <<took, kept, armed, keys, spent, used>>
vars == <<callVars, net, appVars, hostVars>>

Returned == {"ok", "refused", "nonce_replayed", "unreachable", "transport",
             "unclear"}

TypeOK ==
  /\ op \in [Call -> [kind      : Kind \cup {"none"},
                      lang      : {"rust", "dart"},
                      challenge : Challenge \cup {NoCode},
                      code      : Request \cup {NoCode},
                      key       : Call]]
  /\ pc \in [Call -> {"idle", "waiting"} \cup Returned]
  /\ attempt \in [Call -> 0 .. CONNECTION_ATTEMPTS]
  /\ had_connection_failure \in [Call -> BOOLEAN]
  /\ answer \in [Call -> Answer \cup {NoAnswer}]
  /\ net \subseteq Request
  /\ otp_challenge_ids \in [Lang -> Request \cup {NoCode}]
  /\ grants \subseteq Challenge
  /\ took \subseteq Request
  /\ kept \in [Call -> Answer \cup {NoAnswer}]
  /\ armed \in BOOLEAN
  /\ keys \subseteq Call
  /\ spent \subseteq Challenge
  /\ used \subseteq spent

Init ==
  /\ op = [c \in Call |-> [kind |-> "none", lang |-> "rust",
                           challenge |-> NoCode, code |-> NoCode,
                           key |-> c]]
  /\ pc = [c \in Call |-> "idle"]
  /\ attempt = [c \in Call |-> 0]
  /\ had_connection_failure = [c \in Call |-> FALSE]
  /\ answer = [c \in Call |-> NoAnswer]
  /\ net = {}
  /\ otp_challenge_ids = [l \in Lang |-> NoCode]
  /\ grants = {OldGrant}
  /\ took = {}
  /\ kept = [c \in Call |-> NoAnswer]
  /\ armed \in BOOLEAN
  /\ keys = {}
  /\ spent = {OldGrant}
  /\ used = {}

-----------------------------------------------------------------------------
(* The operations of PubkeyClient and MailerClient. Each builds its request*)
(* once, with its nonce and its key, and hands it to the transport.        *)

Begin(c, k, l, challenge, code, key) ==
  /\ pc[c] = "idle"
  /\ op' = [op EXCEPT ![c] = [kind |-> k, lang |-> l, challenge |-> challenge,
                             code |-> code, key |-> key]]
  /\ pc' = [pc EXCEPT ![c] = "waiting"]
  /\ attempt' = [attempt EXCEPT ![c] = 1]
  /\ net' = net \cup {<<c, 1>>}
  /\ UNCHANGED <<had_connection_failure, answer, appVars, hostVars>>

\* request_otp and verify_otp of the Rust mailer client take &mut self: one
\* at a time. The Dart client lets them overlap.
MailerIsFree(l) ==
  l = "rust" => \A c \in Call : ~ /\ pc[c] = "waiting"
                                  /\ op[c].lang = l
                                  /\ op[c].kind \in {"otp", "verify"}

RequestOtp(c, l) ==
  /\ MailerIsFree(l)
  /\ Begin(c, "otp", l, NoCode, NoCode, c)

\* The codes the user has been mailed.
Mailed == {r \in took : op[r[1]].kind = "otp"}

\* The user types a code that was mailed; the client takes it to answer the
\* challenge it remembers.
VerifyOtp(c, l, code) ==
  /\ MailerIsFree(l)
  /\ otp_challenge_ids[l] # NoCode
  /\ Begin(c, "verify", l, otp_challenge_ids[l], code, c)

\* verify_enroll_for_identity and verify_replace_for_identity, with a grant.
ArmMsk(c, l, grant) == Begin(c, "arm", l, grant, NoCode, c)

\* set_keys, set_signing_key_with_proof, set_encryption_key_with_proof.
SetKeys(c, l) == Begin(c, "set", l, NoCode, NoCode, c)

\* withdraw_key of a key the application has set.
WithdrawKey(c, l, k) ==
  /\ op[k].kind = "set"
  /\ Begin(c, "withdraw", l, NoCode, NoCode, k)

\* request_encryption_key_challenge: signed, but its answer is needed.
KeyChallenge(c, l) == Begin(c, "pop", l, NoCode, NoCode, c)

-----------------------------------------------------------------------------
(* The hosts. A request reaches its host at any time after it was sent.    *)

Signed(c) == op[c].kind \in SignedKind
Known(c)  == \E a \in Attempt : <<c, a>> \in took

\* withIdempotencyKey: the attempts of a Dart call share their key.
SameKey(c) == op[c].lang = "dart"

\* What the host asks of an operation before it takes effect.
Permitted(c) ==
  \/ op[c].kind = "otp"
  \/ op[c].kind = "verify" /\ op[c].code = op[c].challenge
                           /\ op[c].challenge \notin spent
  \/ op[c].kind = "arm" /\ op[c].challenge \in spent \ used
  \/ op[c].kind \in {"set", "pop"} /\ armed
  \/ op[c].kind = "withdraw" /\ armed /\ op[c].key \in keys

\* The answer reaches the call if it still waits for this attempt.
Respond(c, a, ans) ==
  /\ <<c, a>> \in net
  /\ net' = net \ {<<c, a>>}
  /\ answer' = IF pc[c] = "waiting" /\ attempt[c] = a
               THEN [answer EXCEPT ![c] = ans] ELSE answer
  /\ UNCHANGED <<op, pc, attempt, had_connection_failure, appVars>>

\* A nonce that was accepted before.
RejectReplay(c, a) ==
  /\ Signed(c) /\ Known(c)
  /\ Respond(c, a, [code |-> "nonce_replayed", value |-> NoCode,
                    after |-> TRUE])
  /\ UNCHANGED hostVars

\* A key under which an answer was given before.
RepeatAnswer(c, a) ==
  /\ ~Signed(c) /\ SameKey(c) /\ kept[c] # NoAnswer
  /\ Respond(c, a, kept[c])
  /\ UNCHANGED hostVars

IsNew(c) == IF Signed(c) THEN ~Known(c)
            ELSE ~(SameKey(c) /\ kept[c] # NoAnswer)

Refuse(c, a) ==
  LET ans == [code |-> "refused", value |-> NoCode, after |-> Known(c)]
  IN  /\ IsNew(c) /\ ~Permitted(c)
      /\ Respond(c, a, ans)
      /\ kept' = [kept EXCEPT ![c] = ans]
      /\ UNCHANGED <<took, armed, keys, spent, used>>

\* The value answered: a new challenge, or the grant for the one answered.
TakeEffect(c, a) ==
  LET kind == op[c].kind
      ans == [code  |-> "ok",
              value |-> IF kind = "otp" THEN <<c, a>> ELSE op[c].challenge,
              after |-> Known(c)]
  IN  /\ IsNew(c) /\ Permitted(c)
      /\ Respond(c, a, ans)
      /\ took' = took \cup {<<c, a>>}
      /\ kept' = [kept EXCEPT ![c] = ans]
      /\ spent' = spent \cup {op[c].challenge : x \in {kind} \cap {"verify"}}
      /\ used' = used \cup {op[c].challenge : x \in {kind} \cap {"arm"}}
      /\ armed' = (armed \/ kind = "arm")
      /\ keys' = (keys \cup {c : x \in {kind} \cap {"set"}})
                       \ {op[c].key : x \in {kind} \cap {"withdraw"}}

Serve(c, a) == \/ RejectReplay(c, a)
               \/ RepeatAnswer(c, a)
               \/ Refuse(c, a)
               \/ TakeEffect(c, a)

-----------------------------------------------------------------------------
(* pubkeyRequest.                                                          *)

Waiting(c) == pc[c] = "waiting"

Return(c, result) ==
  /\ pc' = [pc EXCEPT ![c] = result]
  /\ UNCHANGED <<op, attempt, had_connection_failure, answer, net, hostVars>>

\* A 2xx answer. request_otp remembers the challenge for the next
\* verify_otp; the application gets the grant of a verify.
ReturnOk(c) ==
  /\ Waiting(c) /\ answer[c].code = "ok"
  /\ Return(c, "ok")
  /\ otp_challenge_ids' =
       IF op[c].kind = "otp"
       THEN [otp_challenge_ids EXCEPT ![op[c].lang] = answer[c].value]
       ELSE otp_challenge_ids
  /\ grants' = IF op[c].kind = "verify" THEN grants \cup {answer[c].value}
                                        ELSE grants

\* Wrong on purpose: the flag is not passed.
ReconcilesNever(c) == FALSE

\* reconcile_replay_after_connection_failure is passed for every signed
\* write whose answer is not needed.
Reconciles(c) == op[c].kind \in {"arm", "set", "withdraw"}

\* Wrong on purpose: any refusal after a lost connection counts as success.
ReconcileAny(c) ==
  /\ Waiting(c) /\ answer[c].code \in {"refused", "nonce_replayed"}
  /\ Reconciles(c) /\ had_connection_failure[c]
  /\ Return(c, "ok")
  /\ UNCHANGED appVars

\* The server already accepted this very envelope in an attempt whose answer
\* was lost.
Reconcile(c) ==
  /\ Waiting(c) /\ answer[c].code = "nonce_replayed"
  /\ Reconciles(c) /\ had_connection_failure[c]
  /\ Return(c, "ok")
  /\ UNCHANGED appVars

ReturnError(c) ==
  /\ Waiting(c) /\ answer[c].code \in {"refused", "nonce_replayed"}
  /\ ~ /\ answer[c].code = "nonce_replayed"
       /\ Reconciles(c) /\ had_connection_failure[c]
  /\ Return(c, answer[c].code)
  /\ UNCHANGED appVars

\* The Rust client reads the body after the status and takes a body it
\* cannot read for an empty one: an error loses its code, a success its
\* value, which only the writes do without.
LoseBody(c) ==
  /\ Waiting(c) /\ op[c].lang = "rust" /\ answer[c] # NoAnswer
  /\ Return(c, IF answer[c].code = "ok" /\ Reconciles(c) THEN "ok"
                                                         ELSE "unclear")
  /\ UNCHANGED appVars

\* Wrong on purpose: the attempts are not counted.
TryAgainForever(c) ==
  /\ Waiting(c)
  /\ had_connection_failure' = [had_connection_failure EXCEPT ![c] = TRUE]
  /\ answer' = [answer EXCEPT ![c] = NoAnswer]
  /\ net' = net \cup {<<c, attempt[c]>>}
  /\ UNCHANGED <<op, pc, attempt, appVars, hostVars>>

\* The connection fails before the request has left or after, or no answer
\* came in time: the same request once more.
TryAgain(c) ==
  /\ Waiting(c) /\ attempt[c] < CONNECTION_ATTEMPTS
  /\ had_connection_failure' = [had_connection_failure EXCEPT ![c] = TRUE]
  /\ attempt' = [attempt EXCEPT ![c] = @ + 1]
  /\ answer' = [answer EXCEPT ![c] = NoAnswer]
  /\ \E left \in BOOLEAN :
       net' = (IF left THEN net ELSE net \ {<<c, attempt[c]>>})
                \cup {<<c, attempt[c] + 1>>}
  /\ UNCHANGED <<op, pc, appVars, hostVars>>

GiveUp(c) ==
  /\ Waiting(c) /\ attempt[c] = CONNECTION_ATTEMPTS
  /\ Return(c, "unreachable")
  /\ UNCHANGED appVars

\* A failed TLS handshake or any other failure of the transport is not
\* tried again.
Abort(c) ==
  /\ Waiting(c)
  /\ pc' = [pc EXCEPT ![c] = "transport"]
  /\ \E left \in BOOLEAN :
       net' = IF left THEN net ELSE net \ {<<c, attempt[c]>>}
  /\ UNCHANGED <<op, attempt, had_connection_failure, answer, appVars,
                 hostVars>>

Proceed(c) == \/ ReturnOk(c) \/ Reconcile(c) \/ ReturnError(c)
              \/ TryAgain(c) \/ GiveUp(c)

Start(c) ==
  \E l \in Lang :
    \/ RequestOtp(c, l)
    \/ \E code \in Mailed : VerifyOtp(c, l, code)
    \/ \E grant \in grants : ArmMsk(c, l, grant)
    \/ SetKeys(c, l)
    \/ \E k \in Call : WithdrawKey(c, l, k)
    \/ KeyChallenge(c, l)

Next ==
  \E c \in Call :
    \/ Start(c)
    \/ \E a \in Attempt : Serve(c, a)
    \/ Proceed(c)
    \/ LoseBody(c)
    \/ Abort(c)

Spec == Init /\ [][Next]_vars

\* HttpClient::new and createPubkeyDio give every attempt 30 seconds. The
\* Dio that the Dart MailerClient makes for itself has no timeout: a host
\* that never answers keeps its calls waiting.
HasTimeout(c) == ~(op[c].lang = "dart" /\ op[c].kind \in {"otp", "verify"})

\* The timeout ends every attempt, and the sleep between two attempts ends.
Fairness == \A c \in Call : WF_vars(HasTimeout(c) /\ Proceed(c))

FairSpec == Spec /\ Fairness

-----------------------------------------------------------------------------
(* Properties.                                                             *)

Effects(c) == {a \in Attempt : <<c, a>> \in took}

\* A call that reports success took effect, and whatever was lost, late or
\* sent again it took effect once: never a second key, a second code in the
\* mail or a success without an operation. For signed operations and for
\* the Dart client.
OkTookEffectOnce ==
  \A c \in Call :
    pc[c] = "ok" /\ (Signed(c) \/ op[c].lang = "dart") =>
      \E a \in Attempt : Effects(c) = {a}

\* A host's refusal that a call reports is not the echo of its own success:
\* when the host refused, no earlier attempt of the call had taken effect.
\* So a used code has given its grant to the application unless the
\* connection is reported as failed. For the signed writes and for the Dart
\* client's calls to the mailer.
EffectIsReported ==
  \A c \in Call :
    /\ pc[c] \in {"refused", "nonce_replayed"}
    /\ op[c].kind # "pop"
    /\ Signed(c) \/ op[c].lang = "dart"
    => ~answer[c].after

\* Every call whose attempts have a timeout returns, whatever the hosts and
\* the network do: the retries end.
EveryCallReturns ==
  \A c \in Call : pc[c] = "waiting" /\ HasTimeout(c) ~> pc[c] \in Returned
=============================================================================
