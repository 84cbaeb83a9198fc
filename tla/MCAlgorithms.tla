---------------------------- MODULE MCAlgorithms ----------------------------
(***************************************************************************)
(* The algorithms of the SDK that keep no state, each asked every question *)
(* of a bounded set: Oprf and CPace in the group of order q, PairingCode   *)
(* and KeySelection. A behaviour asks one question; the properties compare *)
(* the answer of the algorithm with what it is for.                        *)
(***************************************************************************)
EXTENDS Oprf, CPace, PairingCode, KeySelection, FiniteSets

VARIABLE question

Nothing == [kind |-> "nothing"]

AskInit == question = Nothing

Ask(asked) == question' = asked

-----------------------------------------------------------------------------
(* Oblivious evaluation. The host may have another key than the client     *)
(* counts on, and may evaluate the element of another request.             *)

MCOracle == [di : {1, q - 1}, h : {0, 1, q - 2}]

AskEvaluation ==
  \E point, info, host_key, theirs \in Element, sk, blind \in Scalar,
     nonce \in {1, q - 1}, oracle \in MCOracle :
    Ask([kind |-> "evaluation", point |-> point, info |-> info, sk |-> sk,
         host_key |-> host_key, theirs |-> theirs, blind |-> blind,
         nonce |-> nonce, oracle |-> oracle])

\* poprf_blind and poprf_finalize, poprf.rs:40 and 75; identity_blind and
\* identity_finalize, identity_voprf.rs:22 and 46: whatever the blind, an
\* honest evaluation is accepted and gives the one value that the input and
\* the key have, so that a recovery finds the key the slot was made with. An
\* evaluation under another key or of another request is never accepted.
EvaluationIsRight ==
  question.kind = "evaluation" =>
  LET e    == question
      sk   == e.sk
      pepper   == poprf_blind(e.point, e.info, mul_gen(sk), e.blind)
      identity == identity_blind(e.point, e.blind)
      Peppers(state) ==
        UNION {poprf_finalize(state, answer, e.oracle) :
          answer \in poprf_blind_evaluate(e.host_key, e.info, e.theirs,
                                          e.nonce, e.oracle)}
      Identities(state) ==
        UNION {identity_finalize(state, answer, mul_gen(sk), e.oracle) :
          answer \in identity_blind_evaluate(e.host_key, e.theirs,
                                             e.nonce, e.oracle)}
      Right(state) == /\ e.host_key = sk /\ e.theirs = state.blinded
                      /\ e.blind # 0 /\ sk # 0
  IN /\ \A state \in pepper :
          Peppers(state) =
            IF Right(state)
              THEN {finalize_hash(e.point,
                      mul(invert((sk + e.info) % q), e.point), e.info)}
              ELSE {}
     /\ \A state \in identity :
          Identities(state) =
            IF Right(state)
              THEN {finalize_hash(e.point, mul(sk, e.point), "none")}
              ELSE {}

AskProof ==
  \E k, di \in Scalar \ {0}, c, d, t2, t3 \in Element :
    Ask([kind |-> "proof", k |-> k, di |-> di, c |-> c, d |-> d,
         t2 |-> t2, t3 |-> t3])

\* verify_proof, rfc9497.rs:174: once a host has committed itself, there is
\* at most one challenge it can answer for an evaluation that is not by the
\* key of its public element; for one that is, it can answer every one.
ProofBindsEvaluation ==
  question.kind = "proof" =>
  LET e  == question
      mz == composites(e.c, e.d, e.di)
      answerable == {cs \in Scalar : \E ss \in Scalar :
        Commitments(mul_gen(e.k), mz, cs, ss) = [t2 |-> e.t2, t3 |-> e.t3]}
  IN  IF e.d # mul(e.k, e.c) THEN Cardinality(answerable) <= 1
      ELSE e.t3 = mul(e.t2, mz.m) => answerable = Scalar

-----------------------------------------------------------------------------
(* A pairing. Password, session and identity make the generator; the       *)
(* elements that arrive may be of another attempt.                         *)

AskPairing ==
  \E session \in {"s", "t"}, identity \in {"i", "j"},
     g1, g2, ya, yb \in Element, s1, s2 \in Scalar :
    /\ g1 = g2 => session = "s" /\ identity = "i"
    /\ Ask([kind |-> "pairing", ya |-> ya, yb |-> yb,
            new |-> [session |-> "s", identity |-> "i",
                     generator |-> g1, scalar |-> s1],
            approver |-> [session |-> session, identity |-> identity,
                          generator |-> g2, scalar |-> s2, vek |-> "vek"]])

\* cpace_start, cpace_respond and cpace_finish, cpace.rs:104 to 151, and tek,
\* pairing_protocol.rs:240: the new device reads the vault key exactly if
\* both devices have the same password, session and identity and each has
\* the other's element of this attempt.
PairedDevicesAgree ==
  question.kind = "pairing" =>
  LET n == question.new
      a == question.approver
      read == UNION {Finish(n, [answer EXCEPT !.yb = question.yb]) :
                       answer \in Approve(a, question.ya)}
  IN  read = IF /\ n.generator = a.generator
                /\ 0 \notin {n.generator, n.scalar, a.scalar}
                /\ question.ya = mul(n.scalar, n.generator)
                /\ question.yb = mul(a.scalar, a.generator)
               THEN {"vek"} ELSE {}

-----------------------------------------------------------------------------
(* The password on its way.                                                *)

TypedByte == {0, 37, 90, 128, 255}

AskTyped ==
  \E bytes \in [1 .. 5 -> TypedByte], lower, blanks \in BOOLEAN :
    Ask([kind |-> "typed", bytes |-> bytes, lower |-> lower, blanks |-> blanks])

IdByte == {32, 37, 38, 43, 49, 61, 63, 97}

AskUri ==
  \E n \in 0 .. 3, m \in 0 .. 3 :
    \E id \in [1 .. n -> IdByte], password \in [1 .. m -> {0, 1}] :
      Ask([kind |-> "uri", session_id |-> id, password |-> password])

\* The n-th bit of bytes, from the highest of the first one.
Bit(bytes, n) == (bytes[n \div 8 + 1] \div 2 ^ (7 - (n % 8))) % 2

\* generate_typed_password, pairing_protocol.rs:191, and to_uri_string, 64: a
\* typed code has all the random bits, five to a character in their order,
\* and gives the same password in either case and between blanks; the URI gives
\* back the session and the password, whatever is in them, and nothing is made
\* of one with too short a password.
PasswordSurvivesTransfer ==
  LET Typed(code) ==
        LET s == [i \in DOMAIN code |->
                    IF question.lower /\ code[i] >= 10
                      THEN code[i] + LowerCase ELSE code[i]]
        IN  IF question.blanks THEN <<Blank>> \o s \o <<Blank>> ELSE s
      groups == [i \in 1 .. PasswordLength |->
        LET b(n) == Bit(question.bytes, 5 * (i - 1) + n)
        IN  16 * b(0) + 8 * b(1) + 4 * b(2) + 2 * b(3) + b(4)]
  IN /\ question.kind = "typed" =>
          typed_password_bytes(
            Typed(generate_typed_password(question.bytes))) = {groups}
     /\ question.kind = "uri" =>
          parse_query(to_uri_string(question.session_id,
                                              question.password)) =
            IF question.session_id # <<>> /\ Len(question.password) >= PasswordBytes
              THEN {[session_id |-> question.session_id,
                     password |-> question.password]}
              ELSE {}

-----------------------------------------------------------------------------
(* A published key.                                                        *)

DocumentKey ==
  [family : {"openpgp", "smime", "other"}, material : {TRUE},
   algorithms : {<<"mlkem">>, <<"x25519">>, <<"x25519", "mlkem">>}]
  \cup [family : {"pgp"}, material : {TRUE, FALSE}, algorithms : {<<"mlkem">>}]
  \cup [family : {"smime"}, material : {TRUE}, algorithms : {<<>>}]

Preference == [family : {"none", "pgp", "smime", "other"},
               algorithm : {"none"} \cup Algorithm]

AskKey ==
  \E n \in 0 .. 3, prefs \in Preference,
     supported \in SUBSET (WireFamily \X Algorithm) :
    \E keys \in [1 .. n -> DocumentKey] :
      Ask([kind |-> "key", supported |-> supported, prefs |-> prefs,
           keys |-> [i \in 1 .. n |-> [family |-> keys[i].family,
             algorithms |-> keys[i].algorithms, material |-> keys[i].material,
             keyId |-> i]]])

\* select_best_encryption_key, document.rs:124, and select_best_artifact,
\* select.rs:64: a key is found if the document has one whose first algorithm
\* the client supports. The first that fits the client's preference is
\* chosen; where none does, a post-quantum one before others, then S/MIME
\* before OpenPGP, then the last of the document.
BestKeyIsChosen ==
  question.kind = "key" =>
  LET keys == question.keys
      Wire(i) == IF keys[i].family = "openpgp" THEN "pgp" ELSE keys[i].family
      Algo(i) == keys[i].algorithms[1]
      usable == {i \in DOMAIN keys :
        /\ keys[i].material /\ keys[i].algorithms # <<>>
        /\ <<Wire(i), Algo(i)>> \in question.supported}
      liked == {i \in usable :
        /\ Wire(i) = question.prefs.family
        /\ question.prefs.algorithm \in {"none", Algo(i)}}
      Worth(i) == (IF Algo(i) \in PqAlgorithm THEN 4 * Len(keys) ELSE 0)
                + (IF Wire(i) = "smime" THEN 2 * Len(keys) ELSE 0) + i
      best == IF liked # {} THEN {i \in liked : \A j \in liked : i <= j}
              ELSE {i \in usable : \A j \in usable : Worth(i) >= Worth(j)}
  IN  {a.published_key_id : a \in select_best_encryption_key(keys,
         question.supported, question.prefs)} = best

-----------------------------------------------------------------------------
AskNext ==
  /\ question = Nothing
  /\ \/ AskEvaluation \/ AskProof \/ AskPairing
     \/ AskTyped \/ AskUri \/ AskKey

AskSpec == AskInit /\ [][AskNext]_question
=============================================================================
