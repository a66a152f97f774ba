---------------------------- MODULE ObstacleMotion ----------------------------
(***************************************************************************)
(* Where a moving obstacle of a headless episode is at a given time        *)
(* (headless.py), which the scene, the gate, the collision counts and the  *)
(* swept clearances all ask for: an obstacle with a velocity runs straight *)
(* and is reflected by the field's border, a patrol runs along its route   *)
(* and back. Pure functions of the time, in whole units of length and time.*)
(***************************************************************************)
EXTENDS Integers, Sequences, FiniteSetsExt

CONSTANTS Field,            \* the border on each axis, <<low, high>>
          DEFAULT_SPEED     \* DEFAULT_PATROL_SPEED_MMPS

Axes == 1 .. 2

\* ScenarioObstacle without a patrol.
Obstacles == [pos : Int \X Int, vel : Int \X Int, radius : Int]

\* _reflect: an unbounded coordinate folded into the interval, and the
\* direction in which it runs there.
Reflect(value, low, high) ==
    LET span   == high - low
        offset == (value - low) % (2 * span)
    IN  IF span <= 0 THEN [at |-> (low + high) \div 2, dir |-> 0]
        ELSE IF offset <= span THEN [at |-> low + offset, dir |-> 1]
        ELSE [at |-> low + 2 * span - offset, dir |-> -1]

\* patrol_route: the spawn point and the waypoints, of which there may be none.
Route(o) == IF o.waypoints = <<>> THEN <<>> ELSE <<o.pos>> \o o.waypoints

\* _patrol_state, in distances along the route: marks[i] is how far along its
\* i-th point lies. The segment and how far into it, and the direction.
Along(marks, speed, t) ==
    LET total     == marks[Len(marks)]
        travelled == (speed * t) % (2 * total)
    IN  IF travelled > total THEN [at |-> 2 * total - travelled, dir |-> -1]
        ELSE [at |-> travelled, dir |-> 1]

PatrolState(o, marks, t) ==
    LET speed == IF o.speed = 0 THEN DEFAULT_SPEED ELSE o.speed
        run   == Along(marks, speed, t)
        leg   == Min({i \in 2 .. Len(marks) : run.at <= marks[i]})
    IN  IF marks[Len(marks)] <= 0 \/ speed <= 0 THEN [leg |-> 2, into |-> 0, speed |-> 0]
        ELSE [leg |-> leg, into |-> run.at - marks[leg - 1], speed |-> run.dir * speed]

\* _moving_obstacle_state without a patrol: position and velocity.
MovingState(o, t) ==
    LET run == [a \in Axes |-> Reflect(o.pos[a] + o.vel[a] * t,
                                       Field[a][1] + o.radius, Field[a][2] - o.radius)]
    IN  IF o.vel[1] = 0 /\ o.vel[2] = 0 THEN [pos |-> o.pos, vel |-> o.vel]
        ELSE [pos |-> <<run[1].at, run[2].at>>, vel |-> <<o.vel[1] * run[1].dir, o.vel[2] * run[2].dir>>]
===============================================================================
