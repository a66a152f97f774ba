----------------------------- MODULE RerouteGate -----------------------------
(***************************************************************************)
(* planners/reroute.py and the memory each planner keeps around it: the    *)
(* cheap check that decides whether a robot's cached route may be kept,    *)
(* VoronoiWaypointManager.update (planners/Dijkstra/waypoint_manager.py)   *)
(* and _gated_plan of the PRM and visibility-graph planners.               *)
(*                                                                         *)
(* Geometry enters as a scene: the segments that are free of obstacles at  *)
(* the moment of the call, the endpoint the planner settles for, and       *)
(* whether the robot stands inside an obstacle's zone. The gate measures   *)
(* with the planning clearance (scene.free), the Voronoi planner's own     *)
(* checks without it (scene.open, which holds at least as much).           *)
(***************************************************************************)
EXTENDS Integers, Sequences, FiniteSets

CONSTANTS Mids,        \* intermediate points a route may take
          Here,        \* the robot's present position
          Aside,       \* the point an escape step leads to
          MaxShift,    \* an endpoint is moved at most this far from the goal
          DeadZone,    \* a target that moves no further than this has not moved
          FRAME_CAP,   \* bound on frames_since_reroute where nothing reads it
          NoEnd,       \* last_target_pose is None
          NoOutput     \* no output is cached for the robot

ASSUME GateAssumption ==
    /\ MaxShift \in Nat /\ DeadZone \in Nat /\ FRAME_CAP \in Nat
    /\ Mids \cap (0 .. MaxShift) = {} /\ Here \notin Mids /\ Aside \notin Mids
    /\ Aside # Here /\ Aside \notin 0 .. MaxShift /\ NoEnd \notin 0 .. MaxShift

Goal == 0
Ends == 0 .. MaxShift
Points == Mids \cup Ends \cup {Aside}

\* What a search can return: distinct intermediate points and the endpoint.
Detours == {<<m>> : m \in Mids} \cup {<<m, n>> : m \in Mids, n \in Mids}
Routes(end) == {Append(d, end) : d \in {e \in Detours : Len(e) = 2 => e[1] # e[2]}}

\* (*args) of tuple concatenation, without equal neighbours.
Joined(route, end) == IF route # <<>> /\ route[Len(route)] = end THEN route
                      ELSE Append(route, end)

Segment(a, b) == {a, b}
Legs(route) == {Segment(route[i], route[i + 1]) : i \in 1 .. Len(route) - 1}
LegsFromHere(route) == Legs(<<Here>> \o route)

-----------------------------------------------------------------------------
(* RouteState and its two updates.                                         *)

RouteStates == [last : Ends \cup {NoEnd}, route : Seq(Points), frames : 0 .. FRAME_CAP]
NewRoute == [last |-> NoEnd, route |-> <<>>, frames |-> 0]

CommitReroute(r, route, end) == [last |-> end, route |-> route, frames |-> 0]

\* Fault: the target of every call becomes the one drift is measured from.
NoteAndMoveTarget(r) ==
    [r EXCEPT !.last = Goal, !.frames = IF @ < FRAME_CAP THEN @ + 1 ELSE @]

NoteNoReroute(r) == [r EXCEPT !.frames = IF @ < FRAME_CAP THEN @ + 1 ELSE @]

\* Fault: every call takes a waypoint off.
PopAlways(r, reached) == [r EXCEPT !.route = IF @ # <<>> THEN Tail(@) ELSE @]

\* robot_reached_current_waypoint: one waypoint goes, however many were passed.
PopReached(r, reached) ==
    [r EXCEPT !.route = IF reached /\ @ # <<>> THEN Tail(@) ELSE @]

-----------------------------------------------------------------------------
(* evaluate_route.                                                         *)

PathFree(scene, a, b) == Segment(a, b) \in scene.free

TargetMoved(r, end) ==
    r.last # NoEnd /\ (r.last - end > DeadZone \/ end - r.last > DeadZone)

\* Fault: the leg that is checked starts at the first waypoint.
ActiveBlockedFromWaypoint(r, scene) ==
    Len(r.route) > 1 /\ ~PathFree(scene, r.route[1], r.route[2])

ActiveBlocked(r, scene) == r.route # <<>> /\ ~PathFree(scene, Here, Head(r.route))

LaterBlocked(r, scene) ==
    /\ r.route # <<>>
    /\ ~(Legs(Joined(r.route, scene.end)) \subseteq scene.free)

\* rules.full is check_full_route, rules.period periodic_reroute_frames (0: None).
PeriodicDue(r, rules) == rules.period > 0 /\ r.frames >= rules.period

NeedReroute(r, scene, rules) ==
    /\ ~PathFree(scene, Here, scene.end)
    /\ \/ TargetMoved(r, scene.end)
       \/ r.route = <<>>
       \/ ActiveBlocked(r, scene)
       \/ rules.full /\ LaterBlocked(r, scene)
       \/ PeriodicDue(r, rules)

-----------------------------------------------------------------------------
(* Outputs. `route' leaves out the robot's own position, with which PRM    *)
(* and the visibility graph begin theirs.                                  *)

Output(route, free, did, escaped) ==
    [route |-> route, free |-> free, did |-> did, escaped |-> escaped]
Direct == Output(<<>>, TRUE, FALSE, FALSE)
Outputs == [route : Seq(Points), free : BOOLEAN, did : BOOLEAN, escaped : BOOLEAN]

ASSUME NoOutputAssumption == NoOutput \notin Outputs

\* A search over the legs it may use finds a route to the endpoint, or none.
Found(legs, end) == {<<>>} \cup {route \in Routes(end) : LegsFromHere(route) \subseteq legs}

\* escape_waypoint returns a point only inside a zone, and may find no way out.
Escapes(scene) == scene.inside = "escape"

-----------------------------------------------------------------------------
(* VoronoiDijkstraPlanner.plan and VoronoiWaypointManager.update. The      *)
(* planner calls is_path_free without a clearance and its zones have none; *)
(* what it reports as the free direct path reaches the caller as an empty  *)
(* route, since the manager does not read used_direct_path.                *)

PathOpen(scene, a, b) == Segment(a, b) \in scene.open

\* Fault: the leg to the next waypoint is not looked at.
PreviousPathUnchecked(r, scene) ==
    r.last # NoEnd /\ r.route # <<>> /\ ~TargetMoved(r, scene.end)

PreviousPathIsValid(r, scene) ==
    /\ r.last # NoEnd /\ r.route # <<>>
    /\ ~TargetMoved(r, scene.end)
    /\ PathOpen(scene, Here, Head(r.route))

VoronoiPlans(r, scene) ==
    IF Escapes(scene) THEN {Output(<<Aside>>, FALSE, TRUE, TRUE)}
    ELSE IF PathOpen(scene, Here, scene.end) THEN {Output(<<>>, FALSE, TRUE, FALSE)}
    ELSE IF PreviousPathIsValid(r, scene) THEN {Output(r.route, FALSE, FALSE, FALSE)}
    ELSE {Output(route, FALSE, TRUE, FALSE) : route \in Found(scene.open, scene.end)}

VoronoiUpdate(r0, scene, reached, rules) ==
    LET r == PopReached(r0, reached)
        need == IF rules.gated THEN NeedReroute(r, scene, rules)
                ELSE ~PathFree(scene, Here, scene.end)
    IN  IF PathFree(scene, Here, scene.end)
        THEN {[gate |-> CommitReroute(r, <<>>, scene.end), out |-> Direct]}
        ELSE IF need
        THEN {[gate |-> CommitReroute(r, o.route, scene.end), out |-> o] : o \in VoronoiPlans(r, scene)}
        ELSE {[gate |-> NoteNoReroute(r), out |-> Output(r.route, FALSE, FALSE, FALSE)]}

-----------------------------------------------------------------------------
(* plan, _escape_output and _gated_plan of PRMPlanner and                  *)
(* VisibilityGraphPlanner, which differ in their search only and measure   *)
(* everything with the planning clearance (PlanRequest.total_clearance_mm).*)

EscapeOutput == Output(<<Aside, Goal>>, FALSE, TRUE, TRUE)

GraphPlans(scene) ==
    IF Escapes(scene) THEN {EscapeOutput}
    ELSE IF PathFree(scene, Here, Goal) THEN {Output(<<Goal>>, FALSE, TRUE, FALSE)}
    ELSE {Output(route, FALSE, TRUE, FALSE) : route \in Found(scene.free, Goal)}

Remembered(gate, out) == [gate |-> gate, cached |-> out, out |-> out]

GatedPlan(r0, cached, scene0, reached, rules) ==
    LET r == PopReached(r0, reached)
        scene == [scene0 EXCEPT !.end = Goal]
    IN  IF PathFree(scene, Here, Goal)
        THEN {Remembered(CommitReroute(r, <<>>, Goal), Direct)}
        ELSE IF ~NeedReroute(r, scene, rules) /\ cached # NoOutput
        THEN {[gate |-> NoteNoReroute(r), cached |-> cached, out |-> [cached EXCEPT !.did = FALSE]]}
        ELSE {Remembered(CommitReroute(r, o.route, Goal), o) : o \in GraphPlans(scene)}
=============================================================================
