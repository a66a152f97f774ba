--------------------------- MODULE ScenarioGenerator ---------------------------
(***************************************************************************)
(* scenario_generator.py: which scenarios random_scenario and              *)
(* perturb_scenario may return. The code samples; a result is any scenario *)
(* that its rejections let through. Positions are in the tenths of a       *)
(* millimetre to which the code rounds them before it looks at them.       *)
(***************************************************************************)
EXTENDS Integers, FiniteSets

CONSTANTS ROBOT_RADIUS,   \* ROBOT_RADIUS_MM
          Half,           \* half the field on each axis
          INDICES, SALTS  \* the factors of _rng, 1_000_003 and 7919

MAX_ROBOTS_PER_TEAM == 16
Axes == 1 .. 2
Points == Int \X Int

\* GeneratorConfig. The fractions are given by what they come to: how many
\* obstacles move, and how many of those patrol.
Configs == [robots : Nat, obstacles : Nat, moving : Nat, patrolling : Nat, patrol_points : Nat,
            min_speed : Nat, max_speed : Nat, min_travel : Nat, edge_margin : Nat, min_gap : Int, jitter : Nat]
ValidConfig(c) ==
    /\ c \in Configs
    /\ c.robots >= 1 /\ c.robots + c.obstacles <= 2 * MAX_ROBOTS_PER_TEAM
    /\ c.patrolling <= c.moving /\ c.moving <= c.obstacles
    /\ c.patrol_points >= 1 /\ c.min_speed <= c.max_speed

\* _rng: the number that seeds the generator.
Stream(seed, index, salt) == SALTS * (INDICES * seed + index) + salt

\* _bounds; random.uniform takes its ends in either order.
Low(margin, a) == margin - Half[a]
High(margin, a) == Half[a] - margin
Uniform(low, high) == IF low <= high THEN low .. high ELSE high .. low

\* _sample, _clear: what _place asks of a point before it takes it.
Samples(margin) == {p \in Points : \A a \in Axes : p[a] \in Uniform(Low(margin, a), High(margin, a))}
Distance2(p, q) == (p[1] - q[1]) * (p[1] - q[1]) + (p[2] - q[2]) * (p[2] - q[2])
AtLeast(p, q, d) == d <= 0 \/ Distance2(p, q) >= d * d
Clear(p, others, d) == \A q \in others : AtLeast(p, q, d)
Separation(c) == 2 * ROBOT_RADIUS + c.min_gap

\* The identities given to the bodies, counted from 0: yellow obstacles first,
\* then the blue numbers that the robots leave.
RobotKey(i) == <<"blue", i>>
ObstacleKey(c, i) == IF i < MAX_ROBOTS_PER_TEAM THEN <<"yellow", i>>
                     ELSE <<"blue", c.robots + i - MAX_ROBOTS_PER_TEAM>>

\* random_scenario: s holds positions, starts, targets, routes and speeds, of
\* which the heading is left out.
Before(i) == 0 .. i - 1
MayReturn(c, s) ==
    LET d == Separation(c)
        free == Samples(c.edge_margin)
    IN  /\ s.pos \in [Before(c.obstacles) -> free]
        /\ s.start \in [Before(c.robots) -> free] /\ s.target \in [Before(c.robots) -> free]
        /\ \A i \in Before(c.obstacles) : Clear(s.pos[i], {s.pos[j] : j \in Before(i)}, d)
        /\ \A i \in Before(c.robots) :
               /\ Clear(s.start[i], {s.pos[j] : j \in Before(c.obstacles)}, d)
               /\ Clear(s.start[i], {s.start[j] : j \in Before(i)}, d)
               /\ Clear(s.target[i], {s.pos[j] : j \in Before(c.obstacles)}, d)
               /\ Clear(s.target[i], {s.target[j] : j \in Before(i)}, d)
               /\ AtLeast(s.target[i], s.start[i], c.min_travel)
        /\ s.moving \subseteq Before(c.obstacles) /\ Cardinality(s.moving) = c.moving
        /\ s.patrolling \subseteq s.moving /\ Cardinality(s.patrolling) = c.patrolling
        /\ s.route \in [s.patrolling -> [1 .. c.patrol_points -> free]]
        /\ s.speed \in [s.moving -> c.min_speed .. c.max_speed]

\* _jitter: a step in the disc, kept on the field. Rounding to the grid adds
\* less than one unit to a step.
Clamp(value, low, high) == IF value > high THEN high ELSE IF value < low THEN low ELSE value
Steps(radius) == {v \in Points : v[1] * v[1] + v[2] * v[2] <= (radius + 1) * (radius + 1)}
Jittered(p, v, margin) == <<Clamp(p[1] + v[1], Low(margin, 1), High(margin, 1)),
                            Clamp(p[2] + v[2], Low(margin, 2), High(margin, 2))>>
Jitters(p, radius, margin) == {Jittered(p, v, margin) : v \in Steps(radius)}

\* perturb_scenario: s from base, robot by robot; a start that found no clear
\* sample in its attempts stays, whatever now stands there.
MayPerturb(base, c, s) ==
    LET Near(p) == Jitters(p, c.jitter, ROBOT_RADIUS)
        Taken(i) == {s.pos[j] : j \in DOMAIN base.pos} \cup {s.start[j] : j \in Before(i)}
    IN  /\ DOMAIN s.pos = DOMAIN base.pos /\ \A i \in DOMAIN base.pos : s.pos[i] \in Near(base.pos[i])
        /\ DOMAIN s.route = DOMAIN base.route
        /\ \A i \in DOMAIN base.route :
               /\ DOMAIN s.route[i] = DOMAIN base.route[i]
               /\ \A n \in DOMAIN base.route[i] : s.route[i][n] \in Near(base.route[i][n])
        /\ DOMAIN s.start = DOMAIN base.start /\ DOMAIN s.target = DOMAIN base.target
        /\ \A i \in DOMAIN base.start :
               /\ \/ s.start[i] \in Near(base.start[i]) /\ Clear(s.start[i], Taken(i), Separation(c))
                  \/ s.start[i] = base.start[i]
               /\ i \in DOMAIN base.target => s.target[i] \in Near(base.target[i])
===============================================================================
