--------------------------- MODULE HeadlessEpisode ---------------------------
(***************************************************************************)
(* simulate() of headless.py: one episode on the virtual clock. Each turn  *)
(* of its loop is a control cycle when one is due (ControlCycle), the look *)
(* for the end and for contacts (Watch), and one step of motion (Advance); *)
(* Close is what follows the loop. Only the program moves this clock, so   *)
(* nothing interleaves: what is hard is the bookkeeping that must agree    *)
(* over the episode, whatever the planner answers and however long it      *)
(* takes.                                                                  *)
(*                                                                         *)
(* A planner call enters by its kind (RouteFollowing models how the kind   *)
(* comes about) and by whether it was slow. Time is counted in ticks.      *)
(* Motion and geometry enter by what they decide: whether a robot has      *)
(* arrived, and how close each pair of bodies is now and came in a step.   *)
(***************************************************************************)
EXTENDS Integers, FiniteSets, FiniteSetsExt

CONSTANTS Robots, Pairs,    \* Pairs: the robot-robot and robot-obstacle pairs
          SETUPS,           \* the [policy, limit] to explore: replan_policy and
                            \* no_route_limit_ms, of which 0 stands for None
          DT,               \* dt_s
          PERIOD,           \* control_period_s
          MAX_TIME,         \* max_simulation_s
          SLOW_LIMIT,       \* slow_call_limit_ms is not None
          CAP,              \* bound on the counters of the result
          None              \* a time that is not set

ASSUME EpisodeAssumption ==
    /\ DT \in Nat \ {0} /\ PERIOD \in Nat \ {0} /\ MAX_TIME \in Nat \ {0}
    /\ CAP \in Nat \ {0} /\ SLOW_LIMIT \in BOOLEAN
    /\ SETUPS \subseteq [policy : {"once", "cycle", "event", "event_route"}, limit : Nat]
    /\ None \notin Nat
    /\ IsFiniteSet(Robots) /\ IsFiniteSet(Pairs)

VARIABLES policy, limit, phase, now, next_control, first_cycle,
          robot,            \* _RobotState of every robot
          gap,              \* how close each pair is at this instant
          swept,            \* how close it came in the last step
          touching,         \* active_*_collisions: pairs in contact when last watched
          count,            \* the result's counters; routes, those opened, is a ghost
          ends,             \* route_ends
          end_reason, result

vars == <<policy, limit, phase, now, next_control, first_cycle, robot, gap, swept, touching,
          count, ends, end_reason, result>>

Times == 0 .. MAX_TIME
NoReason == "none"    \* the empty text of the code
Phases == {"control", "watch", "advance", "closing", "ended"}

\* far: 30 mm and more between the bodies; near: less; touch: none.
Gaps == {"far", "near", "touch"}
Rank(g) == CASE g = "far" -> 0 [] g = "near" -> 1 [] g = "touch" -> 2

Bump(n, k) == IF n + k > CAP THEN CAP ELSE n + k

-----------------------------------------------------------------------------
(* _RobotState. `arrived' is _advance_waypoint for a robot with a route;   *)
(* of first_route_s and route_started_s only whether they are set is kept. *)
(* `good' is a ghost: the time of the last call that did not fail, while   *)
(* the robot is on its way or once it was stopped for having no route.     *)

NewRobot == [failed |-> FALSE, awaiting |-> FALSE, arrived |-> FALSE, routed |-> FALSE,
             open |-> FALSE, streak |-> None, stop |-> NoReason, stopped |-> None,
             good |-> 0]

PathDone(r) == ~r.awaiting /\ (r.failed \/ r.arrived)


-----------------------------------------------------------------------------
(* One planner call and what simulate() makes of it.                       *)

NewRouteKinds == {"rebuild", "switch_direct", "escape"}

First(r) == first_cycle \/ r.awaiting
Kinds(r) == IF First(r) THEN {"initial", "failed"} ELSE {"check", "failed"} \cup NewRouteKinds
Calls(r) == {c \in [kind : Kinds(r), slow : BOOLEAN, there : BOOLEAN] :
                 c.there => c.kind \in NewRouteKinds \cup {"initial"}}

Consulted(r) == ~r.failed /\ (First(r) \/ (policy # "once" /\ ~PathDone(r)))

\* Fault: the old route is closed and the new one not opened.
NotReopened(r, call) ==
    CASE call.kind = "initial" ->
             [r EXCEPT !.awaiting = FALSE, !.routed = TRUE, !.open = TRUE, !.arrived = call.there]
      [] call.kind = "failed" /\ First(r) ->
             [r EXCEPT !.awaiting = TRUE]
      [] call.kind \in NewRouteKinds -> [r EXCEPT !.open = FALSE, !.arrived = call.there]
      [] OTHER -> r

\* `there': the robot already stands within tolerance of all of its new path.
Answered(r, call) ==
    CASE call.kind = "initial" ->
             [r EXCEPT !.awaiting = FALSE, !.routed = TRUE, !.open = TRUE, !.arrived = call.there]
      [] call.kind = "failed" /\ First(r) ->
             [r EXCEPT !.awaiting = TRUE]
      [] call.kind \in NewRouteKinds ->
             [r EXCEPT !.arrived = call.there]
      [] OTHER -> r

\* Fault: every failure starts the streak anew.
StreakRestarts(r, call) == IF call.kind = "failed" THEN now ELSE None

Streak(r, call) == IF call.kind # "failed" THEN None ELSE IF r.streak = None THEN now ELSE r.streak

TooSlow(r, call) ==
    SLOW_LIMIT /\ ~First(r) /\ call.kind \in {"rebuild", "failed"} /\ call.slow

TooLong(r, call) ==
    limit > 0 /\ Streak(r, call) # None /\ now - Streak(r, call) >= limit

StopReason(r, call) == IF TooSlow(r, call) THEN "time_limit"
                       ELSE IF TooLong(r, call) THEN "no_valid_path" ELSE NoReason

\* close_route and _stop_robot.
Stopped(r, reason) == [r EXCEPT !.failed = TRUE, !.awaiting = FALSE, !.stop = reason,
                                !.stopped = now, !.open = FALSE]

AfterCall(r, call) ==
    LET a == [Answered(r, call) EXCEPT !.streak = Streak(r, call),
                                       !.good = IF call.kind = "failed" THEN @ ELSE now]
        reason == StopReason(r, call)
        after == IF reason = NoReason THEN a ELSE Stopped(a, reason)
    IN  IF after.arrived \/ reason = "time_limit" THEN [after EXCEPT !.good = 0] ELSE after

\* The routes this call closes, by reason: at most a replaced and a stopped one.
Replaces(r, call) == call.kind \in NewRouteKinds /\ r.open
StopsRoute(r, call) == StopReason(r, call) # NoReason /\ Answered(r, call).open

-----------------------------------------------------------------------------
Init ==
    /\ \E setup \in SETUPS : policy = setup.policy /\ limit = setup.limit
    /\ phase = "control" /\ now = 0 /\ next_control = 0
    /\ first_cycle = TRUE
    /\ robot = [r \in Robots |-> NewRobot]
    /\ gap \in [Pairs -> Gaps] /\ swept = [p \in Pairs |-> "far"] /\ touching = {}
    /\ count = [collisions |-> 0, contacts |-> 0, buffers |-> 0, routes |-> 0,
                overlap |-> \E p \in Pairs : gap[p] = "touch"]
    /\ ends = [replaced |-> 0, goal |-> 0, stopped |-> 0, episode_end |-> 0]
    /\ end_reason = NoReason /\ result = None

ControlDue ==
    first_cycle \/ ((policy # "once" \/ \E r \in Robots : robot[r].awaiting) /\ now >= next_control)

\* while next_control_s <= simulation_s: one period beyond the last missed one.
NextControl == next_control + PERIOD * Cardinality({k \in 0 .. now : next_control + PERIOD * k <= now})

ControlCycle ==
    /\ phase = "control" /\ ControlDue
    /\ LET asked == {r \in Robots : Consulted(robot[r])}
       IN  \E call \in [asked -> UNION {Calls(robot[r]) : r \in asked}] :
           /\ \A r \in asked : call[r] \in Calls(robot[r])
           /\ robot' = [r \in Robots |-> IF r \in asked THEN AfterCall(robot[r], call[r]) ELSE robot[r]]
           /\ count' = [count EXCEPT
                  !.routes = @ + Cardinality({r \in asked : call[r].kind = "initial"
                                                             \/ Replaces(robot[r], call[r])})]
           /\ ends' = [ends EXCEPT
                  !.replaced = @ + Cardinality({r \in asked : Replaces(robot[r], call[r])}),
                  !.stopped = @ + Cardinality({r \in asked : StopsRoute(robot[r], call[r])})]
           /\ end_reason' = IF \E r \in asked : StopReason(robot[r], call[r]) = "no_valid_path"
                            THEN "no_valid_path" ELSE end_reason
    /\ first_cycle' = FALSE
    /\ next_control' = NextControl
    /\ phase' = IF end_reason' # NoReason THEN "closing" ELSE "watch"
    /\ UNCHANGED <<policy, limit, now, gap, swept, touching, result>>

NoControl ==
    /\ phase = "control" /\ ~ControlDue
    /\ phase' = "watch"
    /\ UNCHANGED <<policy, limit, now, next_control, first_cycle, robot, gap, swept, touching, count, ends,
                   end_reason, result>>

-----------------------------------------------------------------------------
(* _collisions at the instant, and the end of the loop.                    *)

InContact(g) == {p \in Pairs : g[p] = "touch"}
InBuffer(g) == {p \in Pairs : g[p] \in {"near", "touch"}}

Watch ==
    /\ phase = "watch"
    /\ touching' = InContact(gap)
    /\ count' = [count EXCEPT !.collisions = Bump(@, Cardinality(InContact(gap) \ touching))]
    /\ phase' = IF (\A r \in Robots : PathDone(robot[r])) \/ now >= MAX_TIME THEN "closing" ELSE "advance"
    /\ UNCHANGED <<policy, limit, now, next_control, first_cycle, robot, gap, swept, ends, end_reason, result>>

-----------------------------------------------------------------------------
(* One step of motion.                                                     *)

\* Fault: every step is cut at the next control time, due or not.
StepToControl == Min({DT, MAX_TIME - now, next_control - now})

Step == LET whole == {DT, MAX_TIME - now}
            cut == IF (policy # "once" \/ \E r \in Robots : robot[r].awaiting) /\ next_control > now
                   THEN {next_control - now} ELSE {}
        IN  Min(whole \cup cut)

\* Between two states a pair comes at least as close as at either.
Came(from, to, during) == IF Rank(from) >= Rank(to) /\ Rank(from) >= Rank(during) THEN from
                          ELSE IF Rank(to) >= Rank(during) THEN to ELSE during

\* next_positions: a robot that waits, has stopped or has arrived stays.
Moves(r) == ~r.awaiting /\ ~PathDone(r)

Arrive(r) == [r EXCEPT !.arrived = TRUE, !.good = 0]
CloseAtGoal(r) == IF PathDone(r) THEN [r EXCEPT !.open = FALSE] ELSE r

Advance ==
    /\ phase = "advance"
    /\ \E here \in SUBSET {r \in Robots : Moves(robot[r])} :
          LET moved == [r \in Robots |-> IF r \in here THEN Arrive(robot[r]) ELSE robot[r]]
          IN  /\ robot' = [r \in Robots |-> CloseAtGoal(moved[r])]
              /\ ends' = [ends EXCEPT
                     !.goal = @ + Cardinality({r \in Robots : moved[r].open /\ PathDone(moved[r])})]
    /\ \E to, during \in [Pairs -> Gaps] :
          LET came == [p \in Pairs |-> Came(gap[p], to[p], during[p])]
          IN  /\ gap' = to /\ swept' = came
              /\ count' = [count EXCEPT
                     !.contacts = Bump(@, Cardinality(InContact(came) \ InContact(swept))),
                     !.buffers = Bump(@, Cardinality(InBuffer(came) \ InBuffer(swept)))]
    /\ now' = now + Step
    /\ phase' = "control"
    /\ UNCHANGED <<policy, limit, next_control, first_cycle, touching, end_reason, result>>

-----------------------------------------------------------------------------
(* After the loop.                                                         *)

\* Fault: a robot that never had a route is left waiting.
LeaveWaiting(r) == [r EXCEPT !.open = FALSE]

GiveUp(r) == [r EXCEPT !.open = FALSE, !.failed = @ \/ r.awaiting, !.awaiting = FALSE]

classify_outcome(completed) ==
    CASE count.overlap -> "X"
      [] ~count.overlap /\ ~completed -> "I"
      [] ~count.overlap /\ completed /\ count.contacts > 0 -> "P"
      [] ~count.overlap /\ completed /\ count.contacts = 0 /\ count.buffers > 0 -> "B"
      [] OTHER -> "S"

StoppedFor(rs, reason) == Cardinality({r \in Robots : rs[r].stop = reason})

\* What simulate() returns: the verdict, and the counts that explain it.
RunResult(rs, es) ==
    LET failed == {r \in Robots : rs[r].failed}
        completed == failed = {} /\ \A r \in Robots : PathDone(rs[r])
    IN  [status |-> IF completed THEN "completed"
                    ELSE IF failed # {} THEN "planning_failed" ELSE "timed_out",
         outcome |-> classify_outcome(completed),
         failed_plans |-> Cardinality(failed),
         time_to_goal |-> IF completed THEN now ELSE None,
         stopped_no_path |-> StoppedFor(rs, "no_valid_path"),
         stopped_time_limit |-> StoppedFor(rs, "time_limit"),
         route_count |-> es.replaced + es.goal + es.stopped + es.episode_end]

Close ==
    /\ phase = "closing"
    /\ robot' = [r \in Robots |-> GiveUp(robot[r])]
    /\ ends' = [ends EXCEPT !.episode_end = @ + Cardinality({r \in Robots : robot[r].open})]
    /\ result' = RunResult(robot', ends')
    /\ phase' = "ended"
    /\ UNCHANGED <<policy, limit, now, next_control, first_cycle, gap, swept, touching, count, end_reason>>

Next == ControlCycle \/ NoControl \/ Watch \/ Advance \/ Close

Spec == Init /\ [][Next]_vars /\ WF_vars(Next)

-----------------------------------------------------------------------------
(* What is required.                                                       *)

RobotStates == [failed : BOOLEAN, awaiting : BOOLEAN, arrived : BOOLEAN, routed : BOOLEAN,
                open : BOOLEAN, streak : Times \cup {None},
                stop : {NoReason, "time_limit", "no_valid_path"}, stopped : Times \cup {None},
                good : Times]

RunResults ==
    [status : {"completed", "planning_failed", "timed_out"}, outcome : {"S", "B", "P", "I", "X"},
     failed_plans : 0 .. Cardinality(Robots), time_to_goal : Times \cup {None},
     stopped_no_path : 0 .. Cardinality(Robots), stopped_time_limit : 0 .. Cardinality(Robots),
     route_count : Nat]

\* Type invariant.
TypeOK ==
    /\ [policy |-> policy, limit |-> limit] \in SETUPS /\ phase \in Phases /\ now \in Times /\ next_control \in Nat
    /\ first_cycle \in BOOLEAN
    /\ robot \in [Robots -> RobotStates]
    /\ gap \in [Pairs -> Gaps] /\ swept \in [Pairs -> Gaps] /\ touching \subseteq Pairs
    /\ count \in [collisions : 0 .. CAP, contacts : 0 .. CAP, buffers : 0 .. CAP, routes : Nat,
                   overlap : BOOLEAN]
    /\ ends \in [{"replaced", "goal", "stopped", "episode_end"} -> Nat]
    /\ end_reason \in {NoReason, "no_valid_path"} /\ result \in RunResults \cup {None}

Running == phase \in {"control", "watch", "advance"}

\* Every route that was opened is closed for one reason or still open, and at
\* the end every robot that ever had one has one final reason (close_route).
RouteLedger ==
    /\ count.routes = ends.replaced + ends.goal + ends.stopped + ends.episode_end
                      + Cardinality({r \in Robots : robot[r].open})
    /\ phase = "ended" => ends.goal + ends.stopped + ends.episode_end
                          = Cardinality({r \in Robots : robot[r].routed})

\* The streak begins at most one check after the last valid answer.
Overdue == PERIOD * (1 + (limit + PERIOD - 1) \div PERIOD)

\* No robot that still has somewhere to go is without a valid answer past
\* the first check at which the limit is over (docs/headless.md, "No-route
\* limit").
NoRouteLimitHolds ==
    \A r \in Robots :
        (phase \in {"watch", "advance"} /\ limit > 0 /\ ~PathDone(robot[r])
         /\ (policy # "once" \/ robot[r].awaiting)) => now - robot[r].good < Overdue

\* The status, the outcome, the reason and the robots' fates agree: a run that
\* completed has every robot at its goal, one that timed out used all its time
\* and has routes for all, and only a robot without a route ends it early; the
\* robots stopped and those that never had a route are the failed ones; and a
\* contact seen at an instant is one that the swept count or the verdict on
\* the start has seen too (simulate, HeadlessRunResult).
StatusTellsFate ==
    /\ phase = "ended" =>
           /\ result.status = "completed" => \A r \in Robots : robot[r].arrived /\ robot[r].stop = NoReason
           /\ result.status = "timed_out" => now >= MAX_TIME /\ \A r \in Robots : robot[r].routed
           /\ result.status = "planning_failed" =>
                  \E r \in Robots : robot[r].stop # NoReason \/ ~robot[r].routed
           /\ result.failed_plans = result.stopped_no_path + result.stopped_time_limit
                                    + Cardinality({r \in Robots : robot[r].stop = NoReason /\ ~robot[r].routed})
           /\ (result.status = "completed") = (result.time_to_goal # None)
           /\ result.outcome \in {"S", "B"} => count.collisions = 0
           /\ result.route_count >= Cardinality({r \in Robots : robot[r].routed})
           /\ (now < MAX_TIME /\ end_reason = NoReason) => \A r \in Robots : PathDone(robot[r])
    /\ end_reason # NoReason => \E r \in Robots : robot[r].stop = end_reason

\* Every episode ends: no step takes no time (simulate's loop).
EpisodeEnds == <>(phase = "ended")

=============================================================================
