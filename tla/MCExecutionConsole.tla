------------------------- MODULE MCExecutionConsole -------------------------
(***************************************************************************)
(* ExecutionConsole for TLC: the planner whose runs and previews share the *)
(* runtime, and yellow 0 with one more robot.  There are two runs, so that *)
(* a worker of the first can live to see the second, of a scenario without *)
(* yellow 0.                                                               *)
(***************************************************************************)
EXTENDS ExecutionConsole

CONSTANTS p1, r1, r2
=============================================================================
