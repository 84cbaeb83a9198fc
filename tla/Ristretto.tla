------------------------------ MODULE Ristretto ------------------------------
(***************************************************************************)
(* The group that the OPRFs and CPace calculate in. Ristretto255 is a      *)
(* cyclic group of prime order, so that an element is written here as its  *)
(* multiple of the base point: the base point is 1, the identity 0, and a  *)
(* scalar times an element a product modulo q. What the code does with     *)
(* elements and scalars is the same in every such group; q is small for    *)
(* model checking.                                                         *)
(*                                                                         *)
(* A call that may fail is an operator whose value is the set of its       *)
(* results: {} for an error, {x} for Ok(x). A hash of something is that    *)
(* something: no two inputs have the same hash.                            *)
(***************************************************************************)
EXTENDS Integers

CONSTANT q

ASSUME PrimeOrder == /\ q \in Nat \ {0, 1}
                     /\ \A a, b \in 1 .. q - 1 : (a * b) % q # 0

Scalar   == 0 .. q - 1
Element  == 0 .. q - 1
Identity == 0

mul(s, e)  == (s * e) % q
mul_gen(s) == s
add(a, b)  == (a + b) % q

\* Scalar::invert; of zero it makes zero.
invert(s) == IF s = 0 THEN 0 ELSE CHOOSE t \in Scalar : (s * t) % q = 1

\* An encoding decodes unless it stands for the identity.
decode_element(e) == IF e = Identity THEN {} ELSE {e}
=============================================================================
