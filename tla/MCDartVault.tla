---------------------------- MODULE MCDartVault ----------------------------
(***************************************************************************)
(* DartVault with fewer calls where writes are cut short, which most of    *)
(* its properties leave out, and where the host goes back. A clear() that  *)
(* was cut short is followed by one more.                                  *)
(***************************************************************************)
EXTENDS DartVault

CONSTANT MaxDamagedCalls  \* bound: calls made in a run with such a fault

Damaged == Torn \/ "rollback" \in faults

HalfCleared == \E d \in Device : vault[d] # None /\ store[d].container = None

LimitedSpec ==
  Init /\ [][/\ Next
             /\ Damaged' => \/ calls' <= MaxDamagedCalls
                            \/ Damaged /\ calls' = calls
                            \/ Damaged /\ HalfCleared]_vars
=============================================================================
