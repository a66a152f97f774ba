------------------------------ MODULE MCSimServer ------------------------------
(* SimServer for TLC: two robots, so that one can push the other, a cap of one  *)
(* step per cycle with two due, so that the loop falls behind, and commands     *)
(* that drive, turn and kick.                                                   *)
EXTENDS SimServer

CONSTANTS k1, k2

MCKeys == {k1, k2}

MCOrders == {NoOrder, [drive |-> SPEED, turn |-> SPIN, kick |-> 0],
             [drive |-> 0, turn |-> 0, kick |-> KICK]}
================================================================================
