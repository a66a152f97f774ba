------------------------ MODULE MCCommandDispatcher ------------------------
(***************************************************************************)
(* CommandDispatcher for TLC.                                              *)
(***************************************************************************)
EXTENDS CommandDispatcher

CONSTANTS k1, k2, w1, w2
=============================================================================
