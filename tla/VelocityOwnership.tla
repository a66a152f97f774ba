-------------------------- MODULE VelocityOwnership --------------------------
(***************************************************************************)
(* What the execution page promises its user, without its states, timers   *)
(* and failures: "Exactly one planner may own velocity output for a robot  *)
(* at a time."  A planner becomes the owner once the field is armed, keeps *)
(* the robots through holds, and gives them up in a release only, so that  *)
(* no planner takes over from another without the robots being let go.     *)
(***************************************************************************)
CONSTANTS Planners, NoOwner

VARIABLES
    owner,  \* the planner that owns velocity output, or NoOwner
    phase   \* what the owner's output is doing

\* idle: nobody may claim; armed: the scenario is on the field; latched: the
\* output was ended and stays so until a release.
Phases == {"idle", "armed", "driving", "holding", "latched"}

Init == owner = NoOwner /\ phase = "idle"

Arm ==
    /\ phase = "idle"
    /\ phase' = "armed"
    /\ UNCHANGED owner

Claim ==
    /\ phase = "armed"
    /\ owner = NoOwner
    /\ owner' \in Planners
    /\ phase' = "driving"

Hold ==
    /\ phase = "driving"
    /\ phase' = "holding"
    /\ UNCHANGED owner

Resume ==
    /\ phase = "holding"
    /\ phase' = "driving"
    /\ UNCHANGED owner

\* Output may be ended at any time, a claim that fails at once included.
Latch ==
    /\ phase' = "latched"
    /\ \/ UNCHANGED owner
       \/ phase = "armed" /\ owner = NoOwner /\ owner' \in Planners

\* A release that cannot rearm the field leaves the output ended.
Release ==
    /\ owner' = NoOwner
    /\ phase' \in {"idle", "latched"}

Next == Arm \/ Claim \/ Hold \/ Resume \/ Latch \/ Release

Spec == Init /\ [][Next]_<<owner, phase>>

=============================================================================
