----------------------------- MODULE MCPlanning -----------------------------
(* Both halves of planning for TLC: a behaviour is either of a robot between *)
(* gate and executor, or of one planning call. What a call answers is a      *)
(* choice to the robot, so that they need not run together.                  *)
(*                                                                           *)
(* The field is 14 by 8 units, one unit being about the radius of two robots. *)
EXTENDS MCRouteFollowing, RoadmapSearch

MCField == <<0, 14, 0, 8>>
MCSpots == {At(3, 4), At(6, 4), At(7, 3), At(8, 4), At(10, 5)}
MCTrips == {<<At(1, 4), At(12, 4)>>, <<At(3, 2), At(11, 6)>>, <<At(7, 4), At(8, 7)>>, <<At(6, 6), At(6, 1)>>,
           <<At(1, 4), At(14, 4)>>}
MCPool == {At(x, y) : x \in {3, 7, 11}, y \in {1, 4, 7}}
MCPlacements == {[mode |-> "density", percent |-> 10], [mode |-> "density", percent |-> 100],
                 [mode |-> "spaced", by |-> 6], [mode |-> "count", count |-> 17],
                 [mode |-> "random", count |-> 2]}
MCSitePool == {At(3, 2), At(4, 3), At(11, 6)}

\* No planning call, and no robot.
NoCall ==
    /\ planner = "prm" /\ obstacles = {} /\ trip = <<At(1, 4), At(12, 4)>> /\ virtual = {}
    /\ attempt = 0 /\ status = "none" /\ legs = {}

NoRobot == Init /\ setup = CHOOSE s \in Setups : s.policy = "cycle"

PlanningInit == (Init /\ NoCall) \/ (SearchInit /\ NoRobot)

PlanningNext ==
    \/ status = "none" /\ Next /\ UNCHANGED searchVars
    \/ SearchNext /\ UNCHANGED vars

PlanningSpec == PlanningInit /\ [][PlanningNext]_<<vars, searchVars>>
=============================================================================
