---------------------------- MODULE MCTelemetry ----------------------------
(***************************************************************************)
(* Instances of Telemetry for TLC.                                         *)
(***************************************************************************)
EXTENDS Telemetry, TLC

OneVersion == 1 .. 1
ThreeDays == 1 .. 3
Symmetry == Permutations(Calls)
=============================================================================
