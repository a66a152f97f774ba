-------------------------------- MODULE SimServer --------------------------------
(* The built-in simulator's loop (sim/server.py SimServer.run) around its model  *)
(* (sim/engine.py SimWorld): every cycle drains the command socket, catches up   *)
(* on at most MAX_STEPS physics steps and judges a command's age by the wall     *)
(* time read when the cycle began.                                               *)
(*                                                                               *)
(* Places and directions are not kept, speeds are, in units of what one step of  *)
(* full acceleration changes, rounded up. Which robots touch each other, a wall  *)
(* or the ball in a step is chosen by the step, over every speed the contact     *)
(* rules allow. The frames the loop publishes are those of VisionWorkers' source.*)
EXTENDS Integers, FiniteSets, FiniteSetsExt

CONSTANTS
    Keys,        \* the robots (team and number) a packet may name
    Orders,      \* what a packet commands: the speeds of drive, turn and kick
    TIMEOUT,     \* wall ticks after which a command is stale
    SCALE,       \* physics steps due per wall tick, the time scale
    MAX_STEPS,   \* physics steps per cycle
    LAG_CAP,     \* bound: physics steps overdue
    SPEED,       \* the speed a robot can be told to drive
    SPIN,        \* the speed it can be told to turn
    KICK,        \* the speed a kick gives the ball
    FASTEST      \* bound: the speed that contacts give a robot or the ball

ASSUME ServerBounds ==
    /\ TIMEOUT \in Nat /\ SCALE \in Nat \ {0} /\ MAX_STEPS \in Nat \ {0}
    /\ LAG_CAP \in Nat /\ LAG_CAP >= SCALE
    /\ SPEED \in Nat /\ SPIN \in Nat /\ KICK \in Nat
    /\ FASTEST \in Nat /\ FASTEST >= SPEED /\ FASTEST >= KICK
    /\ Orders \subseteq [drive : 0..SPEED, turn : 0..SPIN, kick : 0..KICK]

VARIABLES
    robots,     \* SimWorld.robots: a robot of Keys, or Off
    ball,       \* the ball's speed
    heard,      \* history: something was set in motion since the last cycle
    lag,        \* physics steps due and not taken
    stepsLeft   \* steps the cycle may still take; 0 at the top of the loop

server == <<robots, ball, heard, lag, stepsLeft>>

NoOrder == [drive |-> 0, turn |-> 0, kick |-> 0]
Off == [on |-> FALSE, speed |-> 0, spin |-> 0, order |-> NoOrder, age |-> TIMEOUT + 1]
Still == [Off EXCEPT !.on = TRUE]       \* reset_formation's robot, command never received

\* Type invariant of the server and its world.
ServerTypeOK ==
    /\ robots \in [Keys -> [on : BOOLEAN, speed : 0..FASTEST, spin : 0..SPIN,
                            order : [drive : 0..SPEED, turn : 0..SPIN, kick : 0..KICK],
                            age : 0..TIMEOUT + 1]]
    /\ ball \in 0..FASTEST
    /\ heard \in BOOLEAN
    /\ lag \in 0..LAG_CAP /\ stepsLeft \in 0..MAX_STEPS

ServerStart ==
    /\ robots = [k \in Keys |-> Still]
    /\ ball = 0 /\ heard = FALSE /\ lag = 0 /\ stepsLeft = 0

ServerReset ==
    /\ robots' = [k \in Keys |-> Still]
    /\ ball' = 0 /\ heard' = FALSE /\ lag' = 0 /\ stepsLeft' = 0

--------------------------------------------------------------------------------
(* The command socket and SimWorld.apply_packet. *)

\* A command for a robot that is not there is ignored.
Command(k, order) ==
    /\ robots' = IF robots[k].on THEN [robots EXCEPT ![k].order = order, ![k].age = 0]
                 ELSE robots
    /\ heard' = TRUE
    /\ UNCHANGED ball

\* A robot's replacement stops it and clears what it was told, and keeps the time
\* of its last command; or it takes the robot away.
Replace(k, on) ==
    /\ robots' = [robots EXCEPT ![k] = IF on THEN [Still EXCEPT !.age = robots[k].age] ELSE Off]
    /\ UNCHANGED <<ball, heard>>

\* The ball is put down, at rest or rolling.
ReplaceBall(speed) ==
    /\ ball' = speed
    /\ heard' = (heard \/ speed > 0)
    /\ UNCHANGED robots

\* drain_commands takes what has arrived when a cycle begins, packet by packet.
Drain ==
    /\ stepsLeft = 0
    /\ \/ \E k \in Keys : (\E o \in Orders : Command(k, o)) \/ (\E on \in BOOLEAN : Replace(k, on))
       \/ \E speed \in {0, KICK} : ReplaceBall(speed)
    /\ UNCHANGED <<lag, stepsLeft>>

--------------------------------------------------------------------------------
(* SimServer.run. *)

\* Wall time passes between two cycles: commands age and physics falls due.
Tick ==
    /\ stepsLeft = 0
    /\ lag + SCALE <= LAG_CAP
    /\ lag' = lag + SCALE
    /\ robots' = [k \in Keys |->
                    [robots[k] EXCEPT !.age = Min({@ + 1, TIMEOUT + 1})]]
    /\ UNCHANGED <<ball, heard, stepsLeft>>

\* The socket is empty: as many steps as are due follow, and no more than the cap.
Cycle ==
    /\ stepsLeft = 0 /\ lag > 0
    /\ stepsLeft' = Min({lag, MAX_STEPS})
    /\ heard' = FALSE
    /\ UNCHANGED <<robots, ball, lag>>

--------------------------------------------------------------------------------
(* SimWorld.step. *)

Stale(bot) == bot.age > TIMEOUT

\* A fault: the last command is followed whatever its age.
FollowedForever(bot) == bot.order

\* What the robot tries to do.
Followed(bot) == IF Stale(bot) THEN NoOrder ELSE bot.order

\* The speeds after one step of acceleration towards the commanded velocity. A
\* robot that is to stand slows down; one that turns into another direction may
\* for a while be faster or slower, and never faster than it was and is told.
Tracked(bot) ==
    LET told == Followed(bot).drive
    IN  IF told = 0 THEN {Max({bot.speed - 1, 0})}
        ELSE {v \in bot.speed - 1..bot.speed + 1 : v >= 0 /\ v <= Max({bot.speed, told})}

Spun(bot) ==
    LET told == Followed(bot).turn
    IN  IF told > bot.spin THEN bot.spin + 1 ELSE Max({told, bot.spin - 1})

BotsOn == {k \in Keys : robots[k].on}
Speeds == [Keys -> 0..FASTEST]
Driven == {v \in Speeds : \A k \in Keys : IF k \in BotsOn THEN v[k] \in Tracked(robots[k])
                                                         ELSE v[k] = 0}

\* _separate_robots: two that run into each other share the speed along the line
\* between them and keep what they have across it. Together they gain no energy,
\* though one of them may be faster than both were. The speeds that are left when
\* only some touch, or none, are among these.
Energy(v) == MapThenSumSet(LAMBDA k : v[k] * v[k], Keys)

Separated(v) ==
    {w \in Speeds :
        LET least == [k \in Keys |-> Max({w[k] - 1, 0})]   \* what is rounded up to w
        IN  /\ \A k \in Keys \ BotsOn : w[k] = 0
            /\ Energy(least) < Energy(v) \/ \A k \in Keys : w[k] = 0}

\* _clamp_to_field: at a wall a robot loses the speed that drives it out.
Slower(w) == {left \in Speeds : \A k \in Keys : left[k] <= w[k]}

\* _step_ball: the ball slows down, is kicked by robots that have it in reach and
\* whose command is fresh, and may be pushed by any others, each of which gives it
\* at most one and a half times its own speed, or nothing.
Kicks(k) == robots[k].order.kick > 0 /\ ~Stale(robots[k])

BallAtMost(kickers, v) ==
    LET kicked == {v[k] + robots[k].order.kick : k \in kickers}
        pushed == MapThenSumSet(LAMBDA k : (3 * v[k] + 1) \div 2, BotsOn \ kickers)
    IN  Min({FASTEST, Max({0, ball - 1} \cup kicked) + pushed})

\* The robots move, are separated, meet the ball, and are kept in the field, as
\* the ball is.
Step ==
    /\ stepsLeft > 0
    /\ stepsLeft' = stepsLeft - 1 /\ lag' = lag - 1
    /\ \E v \in Driven : \E w \in Separated(v) : \E left \in Slower(w) :
          \E kickers \in SUBSET {k \in BotsOn : Kicks(k)} :
            /\ ball' \in 0..BallAtMost(kickers, w)
            /\ robots' = [k \in Keys |->
                 [robots[k] EXCEPT !.speed = left[k], !.spin = Spun(robots[k]),
                                   !.order.kick = IF k \in kickers THEN 0 ELSE @]]
    /\ UNCHANGED heard

ServerNext == Drain \/ Tick \/ Cycle \/ Step

\* The loop is scheduled and time passes; nobody has to send anything.
ServerSpec ==
    ServerStart /\ [][ServerNext]_server /\ WF_server(Tick) /\ WF_server(Cycle) /\ WF_server(Step)

--------------------------------------------------------------------------------
(* Properties. *)

AtRest == ball = 0 /\ \A k \in Keys : robots[k].speed = 0 /\ robots[k].spin = 0

\* Robots that nobody commands come to rest, and a ball that nobody rolls with
\* them, whatever they touch and push, however late the loop runs, and however
\* often packets put robots and the ball down elsewhere (the command timeout of
\* SimWorld.step and of the kick in _step_ball).
SilentRobotsRest == []<>heard \/ <>[]AtRest
================================================================================
