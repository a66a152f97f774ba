--------------------------- MODULE RouteFollowing ---------------------------
(***************************************************************************)
(* One robot of a headless episode between its planner and its executor:   *)
(* _plan_call and _advance_waypoint (headless.py) above the planners' gate *)
(* (RerouteGate). The route lives twice. The gate holds the waypoints it   *)
(* thinks are left, the executor the path it drives along; each is         *)
(* advanced by its own rule, and only the executor sees how many waypoints *)
(* were passed. Obstacles are free to move between two consults.           *)
(*                                                                         *)
(* setup picks planner, policy and cadence once. Policy `once' makes no    *)
(* second call and is left to HeadlessEpisode.                             *)
(***************************************************************************)
EXTENDS RerouteGate, SequencesExt

CONSTANT Setups        \* the [planner, policy, period, clearance] to explore; clearance is
                       \* TRUE for a planning clearance above zero (--clearance-mm)

ASSUME SetupsAssumption ==
    Setups \subseteq [planner : {"voronoi", "prm", "visibility"},
                      policy : {"cycle", "event", "event_route"}, period : 0 .. FRAME_CAP - 1,
                      clearance : BOOLEAN]

VARIABLES setup, gate, cached,     \* the planner's side
          ahead, reached, first,   \* the executor's side: path left, reached_since_call > 0, no route yet
          kind,                    \* record["kind"] of the last call
          seen                     \* what the last call's scene showed, for the properties

vars == <<setup, gate, cached, ahead, reached, first, kind, seen>>

-----------------------------------------------------------------------------
(* Scenes: which points the robot sees, which legs are closed, which       *)
(* endpoint Voronoi settles for. Only points of a route, old or new, are   *)
(* told apart; between them at most one leg is closed, and at most one leg *)
(* is free by one measure only.                                            *)

Graph == setup.planner \in {"prm", "visibility"}
EndsSeen == IF Graph THEN {Goal} ELSE Ends
Watched(end) == Mids \cup {end, Goal} \cup Range(ahead) \cup Range(gate.route)
BetweenLegs(end) ==
    {leg \in {Segment(p, q) : p, q \in Watched(end)} : Cardinality(leg) = 2}
Closures(end) == {{}} \cup {{leg} : leg \in BetweenLegs(end)}

SceneOf(visible, between, margin, end, inside) ==
    LET free == {Segment(Here, p) : p \in visible} \cup between
    IN  [free |-> free, open |-> free \cup margin, end |-> end, inside |-> inside]

\* A leg that only the Voronoi planner's own checks let pass: it is nearer to an
\* obstacle than the planning clearance.
TwoMeasures == setup.clearance /\ ~Graph
LegsAtHand(end) == {Segment(Here, p) : p \in Watched(end)}
Margins(closed, end) ==
    {{}} \cup IF TwoMeasures THEN {{leg} : leg \in LegsAtHand(end) \cup closed} ELSE {}

\* Inside an obstacle's zone no segment that starts at the robot is free.
ScenesWith(closed, between, end) ==
    {SceneOf(visible, between, margin, end, "no") :
        visible \in SUBSET Watched(end), margin \in Margins(closed, end)}
    \cup {SceneOf({}, between, {}, end, inside) : inside \in {"escape", "stuck"}}
ScenesTo(end) ==
    UNION {ScenesWith(closed, BetweenLegs(end) \ closed, end) : closed \in Closures(end)}
Scenes == UNION {ScenesTo(end) : end \in EndsSeen}

-----------------------------------------------------------------------------
(* The planner's answer to one call.                                       *)

Rules == [gated |-> setup.policy # "cycle", full |-> setup.policy = "event_route",
          period |-> setup.period]

\* planner.reset: the cycle policy forgets the robot before every later call.
Forgets == setup.policy = "cycle" /\ ~first
GateAtCall == IF Forgets THEN NewRoute ELSE gate
CacheAtCall == IF Forgets THEN NoOutput ELSE cached

Answers(scene) ==
    LET passed == reached /\ ~first
    IN  CASE ~Graph -> {[gate |-> a.gate, cached |-> NoOutput, out |-> a.out] :
                           a \in VoronoiUpdate(GateAtCall, scene, passed, Rules)}
          [] Graph /\ Rules.gated -> GatedPlan(GateAtCall, CacheAtCall, scene, passed, Rules)
          [] OTHER -> {[gate |-> GateAtCall, cached |-> CacheAtCall, out |-> o] : o \in GraphPlans(scene)}

\* plan() raised, after the reached waypoint was popped.
Raised == [gate |-> IF Graph /\ ~Rules.gated THEN GateAtCall
                    ELSE PopReached(GateAtCall, reached /\ ~first),
           cached |-> CacheAtCall, out |-> NoOutput]

-----------------------------------------------------------------------------
(* _plan_call's reading of the answer.                                     *)

\* Voronoi may settle short of the target: the executor drives on to it.
PathOf(out) == Joined(out.route, Goal)

FirstKind(out) == IF out # NoOutput /\ (out.free \/ out.route # <<>>) THEN "initial" ELSE "failed"

Straight == IF ahead = <<Goal>> THEN "check" ELSE "switch_direct"
LaterKind(out) ==
    CASE out = NoOutput -> "failed"
      [] out # NoOutput /\ out.free -> Straight
      [] out # NoOutput /\ ~out.free /\ ~out.did -> "check"
      [] out # NoOutput /\ ~out.free /\ out.did /\ out.route = <<>> -> "failed"
      [] OTHER -> IF PathOf(out) = <<Goal>> THEN Straight
                  ELSE IF out.escaped THEN "escape" ELSE "rebuild"

Kind(out) == IF first THEN FirstKind(out) ELSE LaterKind(out)

\* A failed call leaves the robot on its old path.
AheadAfter(out) == IF Kind(out) \in {"initial", "switch_direct", "escape", "rebuild"}
                   THEN PathOf(out) ELSE ahead

\* _replan_reason, from the executor's own path.
Reason(scene) ==
    CASE ahead = <<>> -> "route_finished"
      [] ahead # <<>> /\ ~PathFree(scene, Here, Head(ahead)) -> "active_blocked"
      [] OTHER -> IF Legs(ahead) \subseteq scene.free THEN "other" ELSE "route_blocked"

-----------------------------------------------------------------------------
(* What a property may refer to: the last call's scene by both measures    *)
(* and the endpoint the route was built for.                               *)

Built == {"initial", "rebuild", "escape"}
Away(a, b) == IF a > b THEN a - b ELSE b - a

SeenAfter(scene, answer) ==
    LET k == Kind(answer.out)
        builtFor == IF k \in Built THEN scene.end ELSE seen.builtFor
    IN  [direct |-> PathFree(scene, Here, scene.end),
         clear |-> PathOpen(scene, Here, scene.end),
         leg |-> ahead # <<>> /\ PathOpen(scene, Here, Head(ahead)),
         reason |-> Reason(scene),
         raised |-> answer.out = NoOutput,
         synced |-> Joined(answer.gate.route, Goal) = ahead,
         builtFor |-> builtFor,
         drift |-> Away(builtFor, scene.end)]

NothingSeen(builtFor) ==
    [direct |-> TRUE, clear |-> TRUE, leg |-> TRUE, reason |-> "other", raised |-> FALSE,
     synced |-> FALSE, builtFor |-> builtFor, drift |-> 0]

-----------------------------------------------------------------------------
Init == /\ setup \in Setups
        /\ gate = NewRoute /\ cached = NoOutput
        /\ ahead = <<>> /\ reached = FALSE /\ first = TRUE
        /\ kind = "none" /\ seen = NothingSeen(Goal)

\* An arrived robot is not asked about again.
Arrived == ~first /\ ahead = <<>>

Consult ==
    /\ ~Arrived
    /\ \E scene \in Scenes : \E answer \in Answers(scene) \cup {Raised} :
          /\ gate' = answer.gate /\ cached' = answer.cached
          /\ kind' = Kind(answer.out)
          /\ ahead' = AheadAfter(answer.out)
          /\ first' = (first /\ kind' = "failed")
          /\ seen' = SeenAfter(scene, answer)
    /\ reached' = FALSE
    /\ UNCHANGED setup

\* The 120 mm tolerance lets one step pass several waypoints that lie close.
Drive ==
    /\ ~first
    /\ \E k \in 1 .. Len(ahead) : ahead' = SubSeq(ahead, k + 1, Len(ahead))
    /\ reached' = TRUE
    /\ kind' = "none" /\ seen' = NothingSeen(seen.builtFor)
    /\ UNCHANGED <<setup, gate, cached, first>>

Next == Consult \/ Drive

Spec == Init /\ [][Next]_vars

-----------------------------------------------------------------------------
(* What is required.                                                       *)

\* Type invariant of the gate's memory, the executor's path and the record.
TypeOK ==
    /\ setup \in Setups
    /\ gate \in RouteStates
    /\ cached = NoOutput \/ cached.route \in Seq(Points)
    /\ ahead \in Seq(Points) /\ reached \in BOOLEAN /\ first \in BOOLEAN
    /\ kind \in {"none", "initial", "failed", "check", "switch_direct", "escape", "rebuild"}

\* The gate may be behind the executor and is never on another route: what it
\* still holds ends with everything the executor has left, whatever was
\* popped, escaped, refused or raised in between (commit_reroute, _plan_call).
GateFollowsExecutor == gate.route # <<>> => IsSuffix(ahead, Joined(gate.route, Goal))

\* While gate and executor agree on what is left, the active leg of a route that
\* is kept touches no obstacle, and lies outside the planning clearance too
\* unless the Voronoi planner, which measures without it, was the one to keep
\* the route. Under event_route PRM and the visibility graph keep none with a
\* blocked leg ahead (evaluate_route, headless.py:15).
KeptRouteIsClear ==
    (kind = "check" /\ ~seen.direct /\ seen.synced /\ Rules.gated) =>
        /\ seen.leg
        /\ ~TwoMeasures => seen.reason # "active_blocked"
        /\ Graph /\ setup.policy = "event_route" => seen.reason # "route_blocked"

\* What reroute.py:180-184 promises of the event policy: a kept Voronoi route
\* was built for an endpoint no further than the dead zone from the present
\* one, so that small moves add up. With a planning clearance it fails: the
\* gate's event ends in the old route, and committing that moves the endpoint
\* drift is measured from.
SmallMovesAddUp ==
    (~Graph /\ setup.policy = "event" /\ setup.period = 0 /\ kind = "check" /\ ~seen.direct)
        => seen.drift <= DeadZone

\* Without a planning clearance it holds (note_no_reroute).
DriftIsBounded == ~setup.clearance => SmallMovesAddUp

\* voronoi_dijkstra.py:114-115: "taking the free direct path is exactly the right
\* thing to do". A call whose planner found the direct path free, and did not
\* raise, is not a failed one.
DirectPathIsTaken == (kind = "failed" /\ ~seen.raised) => ~seen.clear

\* headless.py:19-20: under event_route "a blocked segment anywhere on the
\* remaining route also counts as an event".
LaterBlockedIsAnEvent ==
    (setup.policy = "event_route" /\ kind = "check" /\ ~seen.direct /\ seen.synced)
        => seen.reason # "route_blocked"
=============================================================================
