-------------------------- MODULE MCExecutionEngine --------------------------
(* Values of the constants of ExecutionEngine for TLC. *)
EXTENDS ExecutionEngine

CONSTANTS a1, p1, p2
=============================================================================
