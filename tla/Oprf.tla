-------------------------------- MODULE Oprf --------------------------------
(***************************************************************************)
(* The two oblivious functions the vault host evaluates for a client:      *)
(* poprf.rs turns a password or recovery code into the key of its slot,    *)
(* identity_voprf.rs a mailbox into an identity id. The client blinds what *)
(* it asks about; the host answers with a multiple by its key and a proof  *)
(* that it used that key (rfc9497.rs).                                     *)
(*                                                                         *)
(* The hash of an input to the group and of info to a scalar are given     *)
(* here as their values. An oracle gives the two values a proof needs of   *)
(* its hashes: di, of what is proved, and h, of everything before it.      *)
(***************************************************************************)
EXTENDS Ristretto

Oracle == [di : Scalar \ {0}, h : Scalar]

\* Mutant: both composites are made of the first element.
CompositesOfOne(c, d, di) == [m |-> mul(di, c), z |-> mul(di, c)]

composites(c, d, di) == [m |-> mul(di, c), z |-> mul(di, d)]

\* What the verifier hashes in the place of the prover's commitments.
Commitments(b, mz, cs, ss) ==
  [t2 |-> add(mul_gen(ss), mul(cs, b)),
   t3 |-> add(mul(ss, mz.m), mul(cs, mz.z))]

\* The challenge is the hash of its input: only one that hashes the same
\* input finds the same challenge.
generate_proof(mode, k, b, c, d, r, oracle) ==
  LET m == mul(oracle.di, c)
      z == mul(k, m)
  IN  [cs |-> oracle.h,
       ss |-> (r - oracle.h * k) % q,
       hashed |-> <<mode, b, [m |-> m, z |-> z],
                    [t2 |-> mul_gen(r), t3 |-> mul(r, m)]>>]

verify_proof(mode, b, c, d, proof, oracle) ==
  LET mz == composites(c, d, oracle.di)
  IN  proof.hashed = <<mode, b, mz, Commitments(b, mz, proof.cs, proof.ss)>>

-----------------------------------------------------------------------------
(* The pepper of a slot: mode POPRF, with info naming vault and slot.      *)

poprf_blind(point, info, public_key, blind) ==
  LET tweaked == add(mul_gen(info), public_key)
  IN  IF \/ decode_element(public_key) = {}
         \/ tweaked = Identity
         \/ point = Identity
        THEN {}
        ELSE {[point |-> point, info |-> info, blind |-> blind,
               blinded |-> mul(blind, point), tweaked_key |-> tweaked]}

poprf_blind_evaluate(secret_key, info, blinded, nonce, oracle) ==
  LET t == (secret_key + info) % q
  IN  IF t = 0 THEN {}
      ELSE {[evaluated |-> mul(invert(t), d),
             proof |-> generate_proof("POPRF", t, mul_gen(t),
                         mul(invert(t), d), d, nonce, oracle)] :
              d \in decode_element(blinded)}

\* finalize_hash: the hash of the input, the unblinded element and info.
finalize_hash(point, unblinded, info) == <<point, unblinded, info>>

\* Mutant: the proof is not looked at.
PoprfFinalizeUnverified(state, answer, oracle) ==
  {finalize_hash(state.point, mul(invert(state.blind), ev), state.info) :
     ev \in decode_element(answer.evaluated)}

poprf_finalize(state, answer, oracle) ==
  {finalize_hash(state.point, mul(invert(state.blind), ev), state.info) :
     ev \in {e \in decode_element(answer.evaluated) :
               /\ decode_element(state.tweaked_key) # {}
               /\ decode_element(state.blinded) # {}
               /\ verify_proof("POPRF", state.tweaked_key, e, state.blinded,
                               answer.proof, oracle)}}

-----------------------------------------------------------------------------
(* The identity: blinded as in mode OPRF, proved as in mode VOPRF.         *)

identity_blind(point, blind) ==
  {[point |-> p, blind |-> blind, blinded |-> mul(blind, p)] :
     p \in decode_element(point)}

identity_blind_evaluate(secret_key, blinded, nonce, oracle) ==
  {[evaluated |-> mul(secret_key, c),
    proof |-> generate_proof("VOPRF", secret_key, mul_gen(secret_key),
                c, mul(secret_key, c), nonce, oracle)] :
     c \in decode_element(blinded)}

identity_finalize(state, answer, public_key, oracle) ==
  {finalize_hash(state.point, mul(invert(state.blind), ev), "none") :
     ev \in {e \in decode_element(answer.evaluated) :
               /\ decode_element(public_key) # {}
               /\ decode_element(state.blinded) # {}
               /\ verify_proof("VOPRF", public_key, state.blinded, e,
                               answer.proof, oracle)}}
=============================================================================
