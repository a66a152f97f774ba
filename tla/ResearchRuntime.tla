--------------------------- MODULE ResearchRuntime ---------------------------
(***************************************************************************)
(* The execution half of ui/runtime.py: the polylines being driven, how    *)
(* far each robot is along its own, and the pause and step flags.  It is a *)
(* record for the same reason the controller is one: the page calls        *)
(* several of these methods in one slot.  What the methods send is in      *)
(* ExecutionConsole.                                                       *)
(*                                                                         *)
(* Geometry is reduced to indices.  A path of a robot is its number of     *)
(* points, and a control tick moves a robot's index as far along it as the *)
(* robot's observed position happens to allow.                             *)
(***************************************************************************)
EXTENDS Integers

CONSTANTS
    Robots,     \* the robots of the scenario: each has a path while one runs
    MaxPoints   \* bound: the longest path, in points

ASSUME PathBoundAssumption == MaxPoints \in Nat /\ MaxPoints >= 2

PathLengths == [Robots -> 1..MaxPoints]
Indices == [Robots -> 0..MaxPoints]
AtStart == [r \in Robots |-> 0]

Runtimes == [active : BOOLEAN,           \* _active_paths is not empty
             len : Indices,              \* len(path.points_mm), 0 without a path
             idx : Indices,              \* _waypoint_indices
             mark : Indices,             \* _step_boundary_indices
             failed : SUBSET Robots,     \* path.failed
             paused : BOOLEAN,
             step : BOOLEAN,             \* _step_mode
             done : BOOLEAN]             \* step_completed

IdleRuntime == [active |-> FALSE, len |-> AtStart, idx |-> AtStart,
                mark |-> AtStart, failed |-> {},
                paused |-> FALSE, step |-> FALSE, done |-> FALSE]

\* A robot whose planning failed is given its own position as its path.
StartExecution(lens, failures) ==
    [IdleRuntime EXCEPT !.active = TRUE,
                        !.len = lens,
                        !.idx = [r \in Robots |-> 1],
                        !.failed = failures]

PauseExecution(rt) ==
    [rt EXCEPT !.paused = TRUE, !.step = FALSE, !.mark = AtStart]

ContinueExecution(rt) ==
    [rt EXCEPT !.paused = FALSE, !.step = FALSE, !.done = FALSE]

CanStepExecution(rt) == rt.active /\ rt.paused

\* Fault: the boundary of a step is counted from the robot instead of from the
\* start of its path.
StepExecutionFromRobot(rt) ==
    [rt EXCEPT !.mark = [r \in Robots |-> rt.idx[r] + rt.len[r]],
               !.step = TRUE, !.paused = FALSE, !.done = FALSE]

StepExecution(rt) ==
    [rt EXCEPT !.mark = rt.idx, !.step = TRUE, !.paused = FALSE, !.done = FALSE]

-----------------------------------------------------------------------------

TickIndices(rt, seen) ==
    {n \in Indices :
        \A r \in Robots :
            /\ rt.idx[r] <= n[r]
            /\ r \notin seen => n[r] = rt.idx[r]
            /\ n[r] > rt.idx[r] => n[r] <= rt.len[r]
            /\ rt.step => n[r] <= rt.idx[r] + 1}

AtEnd(rt, n, r) == n[r] >= rt.len[r]

AtBoundary(rt, n, r) == rt.step /\ n[r] > rt.mark[r]

\* The robots a waypoint command is published for; the others get a zero.
Driven(rt, seen, n) ==
    {r \in seen : ~AtEnd(rt, n, r) /\ ~AtBoundary(rt, n, r)}

\* A step ends when no robot in view is still on its way to a boundary.
StepFinished(rt, seen, n) == rt.step /\ Driven(rt, seen, n) = {}

\* What the tick returns: every robot is in view and none is being driven.
AllArrived(rt, seen, n) == seen = Robots /\ Driven(rt, seen, n) = {}

Ticked(rt, seen, n) ==
    IF StepFinished(rt, seen, n)
    THEN [rt EXCEPT !.idx = n, !.step = FALSE, !.paused = TRUE, !.done = TRUE]
    ELSE [rt EXCEPT !.idx = n]

\* replan_active_robots: the rerouted robots start again on a new polyline,
\* built from the live position, whose path is not marked as failed.
Replanned(rt, rerouted, lens) ==
    [rt EXCEPT !.len = [r \in Robots |-> IF r \in rerouted THEN lens[r] ELSE @[r]],
               !.idx = [r \in Robots |-> IF r \in rerouted THEN 1 ELSE @[r]],
               !.failed = @ \ rerouted]

=============================================================================
