-------------------------- MODULE MCRouteFollowing --------------------------
EXTENDS RouteFollowing

\* The planners under every policy; one of them with a planning clearance, which
\* only Voronoi's own checks leave out.
MCSetups ==
    {[planner |-> p, policy |-> q, period |-> 0, clearance |-> FALSE] :
        p \in {"voronoi", "prm"}, q \in {"cycle", "event", "event_route"}}
    \cup {[planner |-> "visibility", policy |-> "event", period |-> 2, clearance |-> FALSE],
          [planner |-> "voronoi", policy |-> "event", period |-> 0, clearance |-> TRUE]}
=============================================================================
