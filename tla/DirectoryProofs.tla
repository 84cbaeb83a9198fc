-------------------------- MODULE DirectoryProofs --------------------------
(***************************************************************************)
(* The safety properties of DirectoryCalls, for any number of calls and    *)
(* attempts. They rest on where the requests of a call are: each attempt   *)
(* is sent once, so what took effect is no longer under way, and a host    *)
(* that has accepted a call's nonce or kept its answer will not let a      *)
(* later attempt of the call take effect again.                            *)
(***************************************************************************)
EXTENDS DirectoryCalls, TLAPS

\* Calls that a host can tell from others when they are repeated.
Recognised(c) == Signed(c) \/ op[c].lang = "dart"

\* A call that has not begun has sent nothing, and every request sent was one
\* of the attempts made so far; a second attempt follows a lost connection.
RequestsWereSent ==
  \A c \in Call :
    /\ pc[c] = "idle" => /\ kept[c] = NoAnswer
                         /\ attempt[c] = 0
                         /\ answer[c] = NoAnswer
    /\ \A a \in Attempt : <<c, a>> \in net \cup took => a <= attempt[c]
    /\ \A a \in Attempt : <<c, a>> \in took => <<c, a>> \notin net
    /\ attempt[c] > 1 => had_connection_failure[c]

\* A host that let a call take effect has kept its answer, and a call it can
\* recognise took effect in one attempt only.
EffectsAreKept ==
  \A c \in Call :
    /\ Known(c) => kept[c] # NoAnswer
    /\ Recognised(c) => \A a, b \in Attempt :
                          <<c, a>> \in took /\ <<c, b>> \in took => a = b

\* What an answer that was kept or that arrived says about its call.
Truthful(c, ans) ==
  /\ ans.code = "ok" =>
       /\ Known(c)
       /\ op[c].kind = "otp" => ans.value \in Request
       /\ op[c].kind = "verify" => ans.value \in Challenge
  /\ ans.code = "refused" /\ Recognised(c) => ~ans.after

AnswersAreTrue ==
  \A c \in Call :
    /\ Truthful(c, answer[c]) /\ Truthful(c, kept[c])
    /\ kept[c].code # "nonce_replayed"
    /\ answer[c].code = "nonce_replayed" =>
         Signed(c) /\ Known(c) /\ had_connection_failure[c]

\* What a call has returned, and what it asks for.
ReturnsAreTrue ==
  \A c \in Call :
    /\ op[c].kind = "verify" => op[c].challenge \in Challenge
    /\ pc[c] = "ok" => Known(c)
    /\ pc[c] = "refused" => answer[c].code = "refused"
    /\ pc[c] = "nonce_replayed" => op[c].kind = "pop"

Inv == /\ TypeOK
       /\ RequestsWereSent
       /\ EffectsAreKept
       /\ AnswersAreTrue
       /\ ReturnsAreTrue

-----------------------------------------------------------------------------
(* A call begins.                                                          *)

OpType == [kind      : Kind \cup {"none"},
           lang      : {"rust", "dart"},
           challenge : Challenge \cup {NoCode},
           code      : Request \cup {NoCode},
           key       : Call]

\* Call c begins, as o.
Begins(c, o) ==
  /\ pc[c] = "idle"
  /\ op' = [op EXCEPT ![c] = o]
  /\ pc' = [pc EXCEPT ![c] = "waiting"]
  /\ attempt' = [attempt EXCEPT ![c] = 1]
  /\ net' = net \cup {<<c, 1>>}
  /\ UNCHANGED <<had_connection_failure, answer, otp_challenge_ids, grants,
                 took, kept, armed, keys, spent, used>>

\* A call that begins with typed data begins as something typed.
LEMMA BeginsTyped ==
  ASSUME NEW c \in Call, NEW k \in Kind, NEW l \in {"rust", "dart"},
         NEW challenge \in Challenge \cup {NoCode},
         NEW code \in Request \cup {NoCode}, NEW key \in Call,
         k = "verify" => challenge \in Challenge,
         Begin(c, k, l, challenge, code, key)
  PROVE  \E o \in OpType : /\ Begins(c, o)
                           /\ o.kind = "verify" => o.challenge \in Challenge
<1> DEFINE o == [kind |-> k, lang |-> l, challenge |-> challenge,
                 code |-> code, key |-> key]
<1>1. /\ o.kind = k /\ o.lang = l /\ o.challenge = challenge
      /\ o.code = code /\ o.key = key
  OBVIOUS
<1>2. o \in OpType
  BY DEF OpType
<1>3. Begins(c, o)
  BY DEF Begins, Begin, appVars, hostVars
<1> HIDE DEF o
<1> QED
  BY <1>1, <1>2, <1>3

\* Each operation of the clients begins with a request that is well typed.
LEMMA StartBegins ==
  ASSUME TypeOK, NEW c \in Call, Start(c)
  PROVE  \E o \in OpType : /\ Begins(c, o)
                           /\ o.kind = "verify" => o.challenge \in Challenge
<1>1. PICK l \in Lang :
        \/ RequestOtp(c, l)
        \/ \E code \in Mailed : VerifyOtp(c, l, code)
        \/ \E grant \in grants : ArmMsk(c, l, grant)
        \/ SetKeys(c, l)
        \/ \E k \in Call : WithdrawKey(c, l, k)
        \/ KeyChallenge(c, l)
  BY DEF Start
<1>2. l \in {"rust", "dart"}
  BY CallsAssumption
<1>3. CASE RequestOtp(c, l)
  <2>1. Begin(c, "otp", l, NoCode, NoCode, c)
    BY <1>3 DEF RequestOtp
  <2> QED
    BY <1>2, <2>1, BeginsTyped DEF Kind
<1>4. CASE \E code \in Mailed : VerifyOtp(c, l, code)
  <2>1. PICK code \in Mailed : VerifyOtp(c, l, code)
    BY <1>4
  <2>2. code \in Request /\ otp_challenge_ids[l] \in Request
    BY <2>1 DEF VerifyOtp, Mailed, TypeOK
  <2>3. Begin(c, "verify", l, otp_challenge_ids[l], code, c)
    BY <2>1 DEF VerifyOtp
  <2> QED
    BY <1>2, <2>2, <2>3, BeginsTyped DEF Kind, Challenge
<1>5. CASE \E grant \in grants : ArmMsk(c, l, grant)
  <2>1. PICK grant \in grants : Begin(c, "arm", l, grant, NoCode, c)
    BY <1>5 DEF ArmMsk
  <2>2. grant \in Challenge
    BY <2>1 DEF TypeOK
  <2> QED
    BY <1>2, <2>1, <2>2, BeginsTyped DEF Kind, SignedKind
<1>6. CASE SetKeys(c, l)
  BY <1>2, <1>6, BeginsTyped DEF SetKeys, Kind, SignedKind
<1>7. CASE \E k \in Call : WithdrawKey(c, l, k)
  <2>1. PICK k \in Call : Begin(c, "withdraw", l, NoCode, NoCode, k)
    BY <1>7 DEF WithdrawKey
  <2> QED
    BY <1>2, <2>1, BeginsTyped DEF Kind, SignedKind
<1>8. CASE KeyChallenge(c, l)
  BY <1>2, <1>8, BeginsTyped DEF KeyChallenge, Kind, SignedKind
<1> QED
  BY <1>1, <1>3, <1>4, <1>5, <1>6, <1>7, <1>8

\* A call that begins keeps the invariant: nothing of it was sent before.
LEMMA StartInv ==
  ASSUME Inv, NEW c \in Call, Start(c)
  PROVE  Inv'
<1> USE CallsAssumption DEF Inv
<1>1. PICK o \in OpType : /\ Begins(c, o)
                          /\ o.kind = "verify" => o.challenge \in Challenge
  BY StartBegins
<1> USE <1>1 DEF Begins
<1>2. TypeOK'
  BY DEF TypeOK, OpType, Attempt, Request
<1>3. /\ pc[c] = "idle" /\ ~Known(c)
      /\ answer[c] = NoAnswer /\ kept[c] = NoAnswer
  <2>1. attempt[c] = 0 /\ answer[c] = NoAnswer /\ kept[c] = NoAnswer
    BY DEF RequestsWereSent
  <2>2. \A a \in Attempt : a > 0
    BY DEF Attempt
  <2>3. ASSUME NEW a \in Attempt, <<c, a>> \in took
        PROVE  FALSE
    <3>1. a <= attempt[c]
      BY <2>3 DEF RequestsWereSent
    <3> QED
      BY <2>1, <2>2, <3>1 DEF Attempt
  <2> QED
    BY <2>1, <2>3 DEF Known
<1>4. \A d \in Call \ {c} : /\ op'[d] = op[d] /\ pc'[d] = pc[d]
                            /\ attempt'[d] = attempt[d]
                            /\ \A a : <<d, a>> \in net' <=> <<d, a>> \in net
  BY DEF TypeOK
<1>5. op'[c] = o /\ pc'[c] = "waiting" /\ attempt'[c] = 1
  BY DEF TypeOK, OpType
<1>6. RequestsWereSent'
  <2>1. \A a \in Attempt : <<c, a>> \notin net \cup took
    BY <1>3 DEF RequestsWereSent, Attempt
  <2>2. \A a : <<c, a>> \in net' <=> <<c, a>> \in net \/ a = 1
    OBVIOUS
  <2> QED
    BY <1>4, <1>5, <2>1, <2>2 DEF RequestsWereSent, Attempt
<1>7. EffectsAreKept' /\ ReturnsAreTrue'
  BY <1>3, <1>4, <1>5
     DEF EffectsAreKept, ReturnsAreTrue, Known, Recognised, Signed
<1>8. AnswersAreTrue'
  BY <1>3, <1>4, <1>5
     DEF AnswersAreTrue, Truthful, Known, Recognised, Signed, NoAnswer
<1> QED
  BY <1>2, <1>6, <1>7, <1>8

-----------------------------------------------------------------------------
(* A host serves a request.                                                *)

\* Whatever a host answers, the request is no longer under way, and the
\* answer is read by the call that waits for it or by nobody.
Answered(c, a, ans) ==
  /\ UNCHANGED <<op, pc, attempt, had_connection_failure,
                 otp_challenge_ids, grants>>
  /\ <<c, a>> \in net /\ net' = net \ {<<c, a>>}
  /\ answer' \in [Call -> Answer \cup {NoAnswer}]
  /\ \A d \in Call :
       \/ answer'[d] = answer[d]
       \/ /\ d = c /\ answer'[d] = ans
          /\ pc[c] = "waiting" /\ attempt[c] = a

\* That is all a host's answer does on the client's side.
LEMMA Responded ==
  ASSUME TypeOK, NEW c \in Call, NEW a \in Attempt, NEW ans \in Answer,
         Respond(c, a, ans)
  PROVE  Answered(c, a, ans)
<1>1. /\ UNCHANGED <<op, pc, attempt, had_connection_failure,
                     otp_challenge_ids, grants>>
      /\ <<c, a>> \in net /\ net' = net \ {<<c, a>>}
  BY DEF Respond, appVars
<1>2. CASE UNCHANGED answer
  BY <1>1, <1>2 DEF TypeOK, Answered
<1>3. CASE /\ answer' = [answer EXCEPT ![c] = ans]
           /\ pc[c] = "waiting" /\ attempt[c] = a
  BY <1>1, <1>3 DEF TypeOK, Answered
<1> QED
  BY <1>2, <1>3 DEF Respond

\* An answer that changes nothing at the host.
LEMMA RepeatInv ==
  ASSUME Inv, NEW c \in Call, NEW a \in Attempt,
         RejectReplay(c, a) \/ RepeatAnswer(c, a)
  PROVE  Inv'
<1> USE DEF Inv, hostVars
<1>1. PICK ans \in Answer :
        /\ Respond(c, a, ans)
        /\ ans = kept[c] \/ (/\ ans.code = "nonce_replayed"
                             /\ Signed(c) /\ Known(c))
  <2>1. CASE RejectReplay(c, a)
    <3> DEFINE ans == [code |-> "nonce_replayed", value |-> NoCode,
                       after |-> TRUE]
    <3>1. ans \in Answer /\ ans.code = "nonce_replayed"
      BY DEF Answer
    <3>2. Respond(c, a, ans) /\ Signed(c) /\ Known(c)
      BY <2>1 DEF RejectReplay
    <3> QED
      BY <3>1, <3>2
  <2>2. CASE RepeatAnswer(c, a)
    BY <2>2 DEF RepeatAnswer, TypeOK
  <2> QED
    BY <2>1, <2>2
<1>2. UNCHANGED <<took, kept, armed, keys, spent, used>>
  BY DEF RejectReplay, RepeatAnswer
<1>3. Answered(c, a, ans)
  BY <1>1, Responded
<1>4. TypeOK'
  BY <1>2, <1>3 DEF TypeOK, Answered
<1>5. RequestsWereSent'
  <2>1. pc[c] # "idle"
    BY <1>3, CallsAssumption
       DEF Answered, RequestsWereSent, TypeOK, Attempt
  <2> QED
    BY <1>2, <1>3, <2>1 DEF Answered, RequestsWereSent
<1>6. EffectsAreKept'
  BY <1>2, <1>3 DEF Answered, EffectsAreKept, Known, Recognised, Signed
<1>7. ReturnsAreTrue'
  BY <1>2, <1>3 DEF Answered, ReturnsAreTrue, Known
<1>8. AnswersAreTrue'
  <2>1. Known(c) /\ attempt[c] = a => had_connection_failure[c]
    <3>1. ASSUME NEW b \in Attempt, <<c, b>> \in took, attempt[c] = a
          PROVE  attempt[c] > 1
      BY <1>3, <3>1, CallsAssumption
         DEF Answered, RequestsWereSent, Attempt
    <3> QED
      BY <3>1 DEF Known, RequestsWereSent
  <2>2. ASSUME NEW d \in Call
        PROVE  AnswersAreTrue!(d)'
    <3>1. CASE answer'[d] = answer[d]
      BY <1>2, <1>3, <3>1
         DEF Answered, AnswersAreTrue, Truthful, Known, Recognised, Signed
    <3>2. CASE d = c /\ answer'[d] = ans /\ attempt[c] = a
      BY <1>1, <1>2, <1>3, <2>1, <3>2
         DEF Answered, AnswersAreTrue, Truthful, Known, Recognised, Signed
    <3> QED
      BY <1>3, <3>1, <3>2 DEF Answered
  <2> QED
    BY <2>2 DEF AnswersAreTrue
<1> QED
  BY <1>4, <1>5, <1>6, <1>7, <1>8

\* A recognised call that is new to the host has not taken effect.
LEMMA NewIsUnknown ==
  ASSUME Inv, NEW c \in Call, IsNew(c), Recognised(c)
  PROVE  ~Known(c)
  BY DEF Inv, IsNew, Recognised, SameKey, EffectsAreKept

\* A refusal, which a recognised call never gets after its own success.
LEMMA RefuseInv ==
  ASSUME Inv, NEW c \in Call, NEW a \in Attempt, Refuse(c, a)
  PROVE  Inv'
<1> USE DEF Inv
<1>1. PICK ans \in Answer : ans = [code |-> "refused", value |-> NoCode,
                                   after |-> Known(c)]
  <2>1. PICK after \in BOOLEAN : after = Known(c)
    BY DEF Known
  <2>2. [code |-> "refused", value |-> NoCode, after |-> after] \in Answer
    BY DEF Answer
  <2> QED
    BY <2>1, <2>2
<1>2. /\ Respond(c, a, ans) /\ IsNew(c)
      /\ kept' = [kept EXCEPT ![c] = ans]
      /\ UNCHANGED <<took, armed, keys, spent, used>>
  BY <1>1 DEF Refuse
<1>3. ans # NoAnswer
  BY <1>1 DEF NoAnswer
<1>4. Answered(c, a, ans)
  BY <1>1, <1>2, Responded
<1>5. TypeOK'
  BY <1>1, <1>2, <1>4 DEF TypeOK, Answered
<1>6. \A d \in Call : kept'[d] = kept[d] \/ (d = c /\ kept'[d] = ans)
  BY <1>2 DEF TypeOK
<1>7. RequestsWereSent'
  <2>1. pc[c] # "idle"
    BY <1>4, CallsAssumption
       DEF Answered, RequestsWereSent, TypeOK, Attempt
  <2> QED
    BY <1>2, <1>4, <1>6, <2>1 DEF Answered, RequestsWereSent
<1>8. EffectsAreKept'
  BY <1>2, <1>3, <1>4, <1>6
     DEF Answered, EffectsAreKept, Known, Recognised, Signed
<1>9. ReturnsAreTrue'
  BY <1>2, <1>4
     DEF Answered, ReturnsAreTrue, Known
<1>10. AnswersAreTrue'
  <2>1. Truthful(c, ans)'
    BY <1>1, <1>2, <1>4, NewIsUnknown
       DEF Answered, Truthful, Known, Recognised, Signed
  <2>2. ans.code = "refused"
    BY <1>1
  <2>3. ASSUME NEW d \in Call
        PROVE  AnswersAreTrue!(d)'
    <3>1. Truthful(d, answer[d])'
      <4>1. CASE answer'[d] = answer[d]
        BY <1>2, <1>4, <4>1 DEF Answered, AnswersAreTrue, Truthful, Known,
                                Recognised, Signed
      <4>2. CASE d = c /\ answer'[d] = ans
        BY <2>1, <4>2 DEF Truthful
      <4> QED
        BY <1>4, <4>1, <4>2 DEF Answered
    <3>2. Truthful(d, kept[d])'
      <4>1. CASE kept'[d] = kept[d]
        BY <1>2, <1>4, <4>1 DEF Answered, AnswersAreTrue, Truthful, Known,
                                Recognised, Signed
      <4>2. CASE d = c /\ kept'[d] = ans
        BY <2>1, <4>2 DEF Truthful
      <4> QED
        BY <1>6, <4>1, <4>2
    <3> QED
      BY <1>2, <1>4, <1>6, <2>2, <3>1, <3>2
         DEF Answered, AnswersAreTrue, Known, Signed
  <2> QED
    BY <2>3 DEF AnswersAreTrue
<1> QED
  BY <1>5, <1>7, <1>8, <1>9, <1>10

\* An operation takes effect, for a recognised call for the first time.
LEMMA EffectInv ==
  ASSUME Inv, NEW c \in Call, NEW a \in Attempt, TakeEffect(c, a)
  PROVE  Inv'
<1> USE DEF Inv
<1>1. PICK ans \in Answer :
        ans = [code  |-> "ok",
               value |-> IF op[c].kind = "otp" THEN <<c, a>>
                                               ELSE op[c].challenge,
               after |-> Known(c)]
  <2>1. PICK after \in BOOLEAN : after = Known(c)
    BY DEF Known
  <2>2. PICK value \in Challenge \cup {NoCode} :
          value = IF op[c].kind = "otp" THEN <<c, a>> ELSE op[c].challenge
    BY DEF TypeOK, Challenge, Request
  <2>3. [code |-> "ok", value |-> value, after |-> after] \in Answer
    BY DEF Answer
  <2> QED
    BY <2>1, <2>2, <2>3
<1>2. /\ Respond(c, a, ans) /\ IsNew(c) /\ Permitted(c)
      /\ took' = took \cup {<<c, a>>}
      /\ kept' = [kept EXCEPT ![c] = ans]
  BY <1>1 DEF TakeEffect
<1>3. ans # NoAnswer
  BY <1>1 DEF NoAnswer
<1>4. Answered(c, a, ans)
  BY <1>1, <1>2, Responded
<1>5. \A d \in Call : kept'[d] = kept[d] \/ (d = c /\ kept'[d] = ans)
  BY <1>2 DEF TypeOK
<1>6. TypeOK'
  <2>1. spent' \subseteq Challenge /\ used' \subseteq spent'
    BY <1>2 DEF TakeEffect, TypeOK, ReturnsAreTrue, Permitted
  <2>2. armed' \in BOOLEAN /\ keys' \subseteq Call
    BY DEF TakeEffect, TypeOK
  <2>3. took' \subseteq Request
    BY <1>2 DEF TypeOK, Request
  <2> QED
    BY <1>1, <1>2, <1>4, <2>1, <2>2, <2>3 DEF TypeOK, Answered
<1>7. Truthful(c, ans)'
  <2>1. UNCHANGED op
    BY <1>2 DEF Respond
  <2>2. Known(c)'
    BY <1>2 DEF Known
  <2> QED
    BY <1>1, <2>1, <2>2 DEF Truthful, Request, Challenge, ReturnsAreTrue
<1>8. \A d \in Call : /\ Known(d) => Known(d)'
                      /\ d # c => \A b : <<d, b>> \in took' <=> <<d, b>> \in took
  BY <1>2 DEF Known
<1>9. RequestsWereSent'
  <2>1. pc[c] # "idle"
    BY <1>4, CallsAssumption
       DEF Answered, RequestsWereSent, TypeOK, Attempt
  <2>2. \A d \in Call, b \in Attempt :
          <<d, b>> \in took' => <<d, b>> \in took \/ (d = c /\ b = a)
    BY <1>2
  <2>3. \A d \in Call : d # c => kept'[d] = kept[d]
    BY <1>5
  <2>4. \A d \in Call : pc[d] = "idle" => d # c /\ answer'[d] = answer[d]
    BY <1>4, <2>1 DEF Answered
  <2> HIDE DEF Inv
  <2> QED
    BY <1>4, <2>1, <2>2, <2>3, <2>4 DEF Inv, Answered, RequestsWereSent
<1>10. EffectsAreKept'
  <2>1. Recognised(c) => ~Known(c)
    BY <1>2, NewIsUnknown
  <2>2. UNCHANGED op
    BY <1>2 DEF Respond
  <2>3. ASSUME NEW d \in Call
        PROVE  EffectsAreKept!(d)'
    <3>1. CASE d = c
      <4>1. kept'[c] # NoAnswer
        BY <1>2, <1>3 DEF TypeOK
      <4>2. Recognised(c)' => Recognised(c)
        BY <2>2 DEF Recognised, Signed
      <4>3. Recognised(c) => \A b \in Attempt : <<c, b>> \in took' => b = a
        BY <1>2, <2>1 DEF Known
      <4> QED
        BY <3>1, <4>1, <4>2, <4>3
    <3>2. CASE d # c
      <4>1. kept'[d] = kept[d] /\ (Known(d)' <=> Known(d))
        BY <1>2, <1>8, <3>2 DEF TypeOK, Known
      <4>2. Recognised(d)' <=> Recognised(d)
        BY <2>2 DEF Recognised, Signed
      <4> QED
        BY <1>8, <3>2, <4>1, <4>2 DEF EffectsAreKept
    <3> QED
      BY <3>1, <3>2
  <2> QED
    BY <2>3 DEF EffectsAreKept
<1>11. ReturnsAreTrue'
  BY <1>8, <1>4 DEF Answered, ReturnsAreTrue
<1>12. AnswersAreTrue'
  <2>1. ans.code = "ok"
    BY <1>1
  <2>2. UNCHANGED <<op, had_connection_failure>>
    BY <1>2 DEF Respond
  <2>3. ASSUME NEW d \in Call
        PROVE  AnswersAreTrue!(d)'
    <3>1. Truthful(d, answer[d])'
      <4>1. CASE answer'[d] = answer[d]
        BY <1>8, <2>2, <4>1
           DEF AnswersAreTrue, Truthful, Recognised, Signed
      <4>2. CASE d = c /\ answer'[d] = ans
        BY <1>7, <4>2 DEF Truthful
      <4> QED
        BY <1>4, <4>1, <4>2 DEF Answered
    <3>4. Truthful(d, kept[d])'
      <4>1. CASE kept'[d] = kept[d]
        BY <1>8, <2>2, <4>1
           DEF AnswersAreTrue, Truthful, Recognised, Signed
      <4>2. CASE d = c /\ kept'[d] = ans
        BY <1>7, <4>2 DEF Truthful
      <4> QED
        BY <1>5, <4>1, <4>2
    <3>2. kept'[d].code # "nonce_replayed"
      BY <1>5, <2>1 DEF AnswersAreTrue
    <3>3. answer'[d].code = "nonce_replayed"
            => (Signed(d) /\ Known(d) /\ had_connection_failure[d])'
      <4>1. CASE answer'[d] = answer[d]
        BY <1>8, <2>2, <4>1 DEF AnswersAreTrue, Signed
      <4>2. CASE answer'[d] = ans
        BY <2>1, <4>2
      <4> QED
        BY <1>4, <4>1, <4>2 DEF Answered
    <3> QED
      BY <3>1, <3>2, <3>3, <3>4
  <2> QED
    BY <2>3 DEF AnswersAreTrue
<1> QED
  BY <1>6, <1>9, <1>10, <1>11, <1>12

-----------------------------------------------------------------------------
(* The transport goes on with a call.                                      *)

\* A call returns, with what its answer and its lost connections justify.
LEMMA ReturnInv ==
  ASSUME Inv, NEW c \in Call,
         ReturnOk(c) \/ Reconcile(c) \/ ReturnError(c) \/ LoseBody(c)
           \/ GiveUp(c) \/ Abort(c)
  PROVE  Inv'
<1> USE DEF Inv
<1>1. /\ UNCHANGED <<op, attempt, had_connection_failure, answer>>
      /\ UNCHANGED hostVars
      /\ net' \subseteq net
  BY DEF ReturnOk, Reconcile, ReturnError, LoseBody, GiveUp, Abort, Return
<1>2. PICK r \in Returned :
        /\ pc' = [pc EXCEPT ![c] = r]
        /\ r = "ok" => Known(c)
        /\ r = "refused" => answer[c].code = "refused"
        /\ r = "nonce_replayed" => op[c].kind = "pop"
  <2> USE DEF Return, Returned, AnswersAreTrue, Truthful
  <2>1. CASE ReturnOk(c) \/ Reconcile(c)
    BY <2>1 DEF ReturnOk, Reconcile
  <2>2. CASE ReturnError(c)
    BY <2>2 DEF ReturnError, Reconciles, Signed, SignedKind
  <2>3. CASE LoseBody(c)
    BY <2>3 DEF LoseBody
  <2>4. CASE GiveUp(c) \/ Abort(c)
    BY <2>4 DEF GiveUp, Abort
  <2> QED
    BY <2>1, <2>2, <2>3, <2>4
<1>3. Waiting(c)
  BY DEF ReturnOk, Reconcile, ReturnError, LoseBody, GiveUp, Abort
<1>4. otp_challenge_ids' \in [Lang -> Request \cup {NoCode}]
      /\ grants' \subseteq Challenge
  <2>1. CASE ReturnOk(c)
    BY <2>1 DEF ReturnOk, TypeOK, AnswersAreTrue, Truthful
  <2>2. CASE UNCHANGED appVars
    BY <2>2 DEF TypeOK, appVars
  <2> QED
    BY <2>1, <2>2 DEF Reconcile, ReturnError, LoseBody, GiveUp, Abort
<1>5. TypeOK'
  BY <1>1, <1>2, <1>4 DEF TypeOK, hostVars
<1>6. RequestsWereSent'
  BY <1>1, <1>2, <1>3
     DEF TypeOK, RequestsWereSent, Returned, Waiting, hostVars
<1>7. EffectsAreKept' /\ AnswersAreTrue'
  BY <1>1 DEF EffectsAreKept, AnswersAreTrue, Truthful, Known, Recognised,
              Signed, hostVars
<1>8. ReturnsAreTrue'
  BY <1>1, <1>2 DEF TypeOK, ReturnsAreTrue, Known, hostVars
<1> QED
  BY <1>5, <1>6, <1>7, <1>8

\* The next attempt is a new request, sent after a lost connection.
LEMMA TryAgainInv ==
  ASSUME Inv, NEW c \in Call, TryAgain(c)
  PROVE  Inv'
<1> USE CallsAssumption DEF Inv, appVars, hostVars
<1>1. PICK left \in BOOLEAN :
        net' = (IF left THEN net ELSE net \ {<<c, attempt[c]>>})
                 \cup {<<c, attempt[c] + 1>>}
  BY DEF TryAgain
<1>2. /\ attempt[c] + 1 \in Attempt
      /\ attempt'[c] = attempt[c] + 1
      /\ had_connection_failure'[c] = TRUE
      /\ answer'[c] = NoAnswer
      /\ pc[c] = "waiting"
      /\ UNCHANGED <<op, pc, otp_challenge_ids, grants, took, kept, armed,
                     keys, spent, used>>
  BY DEF TryAgain, TypeOK, Attempt, Waiting
<1>3. \A d \in Call \ {c} :
        /\ attempt'[d] = attempt[d] /\ answer'[d] = answer[d]
        /\ had_connection_failure'[d] = had_connection_failure[d]
  BY DEF TryAgain, TypeOK
<1>4. TypeOK'
  <2>1. net' \subseteq Request
    BY <1>1, <1>2 DEF TypeOK, Request
  <2>2. attempt' \in [Call -> 0 .. CONNECTION_ATTEMPTS]
    BY <1>2 DEF TryAgain, TypeOK, Attempt
  <2>3. /\ had_connection_failure' \in [Call -> BOOLEAN]
        /\ answer' \in [Call -> Answer \cup {NoAnswer}]
    BY DEF TryAgain, TypeOK
  <2> QED
    BY <1>2, <2>1, <2>2, <2>3 DEF TypeOK
<1>5. RequestsWereSent'
  <2>1. ASSUME NEW d \in Call
        PROVE  RequestsWereSent!(d)'
    <3>1. CASE d = c
      BY <1>1, <1>2, <3>1 DEF TypeOK, RequestsWereSent, Attempt
    <3>2. CASE d # c
      BY <1>1, <1>2, <1>3, <3>2 DEF RequestsWereSent
    <3> QED
      BY <3>1, <3>2
  <2> QED
    BY <2>1 DEF RequestsWereSent
<1>6. EffectsAreKept'
  BY <1>2 DEF EffectsAreKept, Known, Recognised, Signed
<1>7. AnswersAreTrue'
  BY <1>2, <1>3 DEF AnswersAreTrue, Truthful, Known, Recognised, Signed,
                    NoAnswer
<1>8. ReturnsAreTrue'
  BY <1>2, <1>3 DEF ReturnsAreTrue, Known
<1> QED
  BY <1>4, <1>5, <1>6, <1>7, <1>8

-----------------------------------------------------------------------------
(* The invariant and what follows from it.                                 *)

\* It holds before any call has begun,
LEMMA InitInv == Init => Inv
<1> SUFFICES ASSUME Init
             PROVE  Inv
  OBVIOUS
<1> USE CallsAssumption DEF Init
<1>1. TypeOK
  BY DEF TypeOK, Challenge
<1>2. RequestsWereSent /\ EffectsAreKept
  BY DEF RequestsWereSent, EffectsAreKept, Known
<1>3. AnswersAreTrue /\ ReturnsAreTrue
  BY DEF AnswersAreTrue, ReturnsAreTrue, Truthful, NoAnswer
<1> QED
  BY <1>1, <1>2, <1>3 DEF Inv

\* over steps that change nothing,
LEMMA StutterInv == Inv /\ UNCHANGED vars => Inv'
<1> SUFFICES ASSUME Inv, UNCHANGED vars
             PROVE  Inv'
  OBVIOUS
<1> USE DEF Inv, vars, callVars, appVars, hostVars
<1>1. TypeOK'
  BY DEF TypeOK
<1>2. RequestsWereSent' /\ EffectsAreKept'
  BY DEF RequestsWereSent, EffectsAreKept, Known, Recognised, Signed
<1>3. AnswersAreTrue' /\ ReturnsAreTrue'
  BY DEF AnswersAreTrue, ReturnsAreTrue, Truthful, Known, Recognised, Signed
<1> QED
  BY <1>1, <1>2, <1>3

\* and so always.
THEOREM Invariance == Spec => []Inv
<1>1. Inv /\ [Next]_vars => Inv'
  <2> SUFFICES ASSUME Inv, [Next]_vars
               PROVE  Inv'
    OBVIOUS
  <2>1. ASSUME NEW c \in Call, Start(c)
        PROVE  Inv'
    BY <2>1, StartInv
  <2>2. ASSUME NEW c \in Call, NEW a \in Attempt, Serve(c, a)
        PROVE  Inv'
    BY <2>2, RepeatInv, RefuseInv, EffectInv DEF Serve
  <2>3. ASSUME NEW c \in Call, Proceed(c) \/ LoseBody(c) \/ Abort(c)
        PROVE  Inv'
    BY <2>3, ReturnInv, TryAgainInv DEF Proceed
  <2> QED
    BY <2>1, <2>2, <2>3, StutterInv DEF Next
<1> QED
  BY <1>1, InitInv, PTL DEF Spec

\* What a client reports as done was done, and done once, however often its
\* request was sent.
THEOREM DoneOnce == Spec => []OkTookEffectOnce
<1>1. Inv => OkTookEffectOnce
  <2> SUFFICES ASSUME Inv, NEW c \in Call, pc[c] = "ok", Recognised(c)
               PROVE  \E a \in Attempt : Effects(c) = {a}
    BY DEF OkTookEffectOnce, Recognised
  <2>1. PICK a \in Attempt : <<c, a>> \in took
    BY DEF Inv, ReturnsAreTrue, Known
  <2>2. Effects(c) = {a}
    BY <2>1 DEF Inv, EffectsAreKept, Effects
  <2> QED
    BY <2>2
<1> QED
  BY <1>1, Invariance, PTL

\* A refusal that a client reports is not the echo of its own success.
THEOREM RefusedIsRefused == Spec => []EffectIsReported
<1>1. Inv => EffectIsReported
  BY DEF Inv, EffectIsReported, AnswersAreTrue, ReturnsAreTrue, Truthful,
         Recognised
<1> QED
  BY <1>1, Invariance, PTL
=============================================================================
