---------------------------- MODULE MCSimulatorLink ----------------------------
(* SimulatorLink for TLC: two processes, so that a new child meets an old one.  *)
(* The server's loop is checked with MCSimServer; here one robot that is told   *)
(* to drive is enough for it to have something to do while it is stopped.       *)
EXTENDS SimulatorLink

CONSTANTS c1, c2, k1

MCProcs == {c1, c2}
MCOrders == {[drive |-> SPEED, turn |-> 0, kick |-> 0]}
================================================================================
