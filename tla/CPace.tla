------------------------------- MODULE CPace --------------------------------
(***************************************************************************)
(* The key that a pairing rests on: CPace (cpace.rs), by which two devices *)
(* that know the same short password come to the same key, and what        *)
(* pairing_protocol.rs makes of that key: the transfer key TEK and the     *)
(* boxes sealed under it.                                                  *)
(*                                                                         *)
(* A session names the mailbox session and the identity, which both go     *)
(* into the generator and into the keys. The generator that a password     *)
(* and a session hash to is given as its value.                            *)
(***************************************************************************)
EXTENDS Ristretto

\* The session id that CPace is run with: the hash of session and identity.
sid(session_id, identity_id) == <<session_id, identity_id>>

\* shared and isk: the session key, unless the shared element is the
\* identity. Its hash covers the elements in the order initiator, responder.
\* decode takes the identity as well.
isk(the_sid, s, peer, ya, yb) ==
  {<<the_sid, k, ya, yb>> : k \in decode_element(mul(s, peer))}

\* A scalar is sampled until here: zero is an error.
cpace_start(g, the_sid, s) ==
  IF s = 0 THEN {} ELSE {[scalar |-> s, ya |-> mul(s, g), sid |-> the_sid]}

\* Mutant: each device puts its own element first.
RespondOwnFirst(g, the_sid, peer_ya, s) ==
  IF s = 0 THEN {}
  ELSE {[yb |-> mul(s, g), isk |-> key] :
          key \in isk(the_sid, s, peer_ya, mul(s, g), peer_ya)}

cpace_respond(g, the_sid, peer_ya, s) ==
  IF s = 0 THEN {}
  ELSE {[yb |-> mul(s, g), isk |-> key] :
          key \in isk(the_sid, s, peer_ya, peer_ya, mul(s, g))}

cpace_finish(state, peer_yb) ==
  isk(state.sid, state.scalar, peer_yb, state.ya, peer_yb)

\* The key that seals the boxes: a hash of all these.
tek(key, session_id, ya, yb, identity_id) ==
  <<key, session_id, ya, yb, identity_id>>

\* The tag of a box is a function of key, iv and plaintext; it opens under
\* the key it was sealed with.
seal(key, plaintext) == [key |-> key, plaintext |-> plaintext]
open(key, box) == IF box.key = key THEN {box.plaintext} ELSE {}

-----------------------------------------------------------------------------
(* A pairing, from the request to the vault key. Each device has a session *)
(* (session and identity), a generator and a scalar; the elements may have *)
(* come from another attempt of either.                                    *)

\* The approving device: its element and the boxes it answers with.
Approve(device, ya) ==
  {[yb  |-> r.yb,
    tag |-> seal(tek(r.isk, device.session, ya, r.yb, device.identity),
                 "confirm"),
    vek |-> seal(tek(r.isk, device.session, ya, r.yb, device.identity),
                 device.vek)] :
     r \in cpace_respond(device.generator,
                         sid(device.session, device.identity), ya,
                         device.scalar)}

\* The new device reads the answer: the confirmation first, then the vault
\* key. The TEK is made of its own element and the one it was sent.
Finish(device, answer) ==
  UNION {UNION {
    LET key == tek(k, device.session, st.ya, answer.yb, device.identity)
    IN  IF open(key, answer.tag) = {} THEN {} ELSE open(key, answer.vek) :
      k \in cpace_finish(st, answer.yb)} :
      st \in cpace_start(device.generator,
                         sid(device.session, device.identity), device.scalar)}
=============================================================================
