--------------------------- MODULE MCPepperUnlock ---------------------------
(***************************************************************************)
(* PepperUnlock with interchangeable devices: Init and Next treat all of   *)
(* them alike, and the run checks no liveness.                             *)
(***************************************************************************)
EXTENDS PepperUnlock, TLC

SomeDevices == Permutations(Device)
=============================================================================
