------------------------------ MODULE MCUpRun ------------------------------
(* A registry of two external managers, the first with two commands as brew  *)
(* has, and the internal step.                                               *)
EXTENDS UpRun

TwoAndOne == <<2, 1>>
=============================================================================
