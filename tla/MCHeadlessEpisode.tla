------------------------- MODULE MCHeadlessEpisode -------------------------
EXTENDS HeadlessEpisode

\* The planner is consulted alike under cycle, event and event_route.
MCSetups == {[policy |-> "event", limit |-> 4], [policy |-> "once", limit |-> 0]}
=============================================================================
