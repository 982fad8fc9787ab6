---------------------------- MODULE MCProcGroup ----------------------------
(* A command with a few descendants; symmetry would be unsound here, the      *)
(* properties are temporal.                                                   *)
EXTENDS ProcGroup
=============================================================================
