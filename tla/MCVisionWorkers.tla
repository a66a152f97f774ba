---------------------------- MODULE MCVisionWorkers ----------------------------
EXTENDS VisionWorkers

CONSTANTS c1, c2

MCCams == <<c1, c2>>
\* Losses and a restart of the source; or a burst of failures of the socket.
MCSetups == {[lost |-> 2, restarts |-> 1, faults |-> 0, cycles |-> 4, ahead |-> 1],
             [lost |-> 0, restarts |-> 0, faults |-> 8, cycles |-> 1, ahead |-> 0]}
================================================================================
