------------------------- MODULE HeadlessEpisodeProofs -------------------------
(******************************************************************************)
(* Proofs about headless.py, for all robots, periods, limits and lengths of    *)
(* an episode: the bookkeeping of simulate() (HeadlessEpisode), and what the   *)
(* swept clearances, the collision counts and the predicted circles take for   *)
(* granted of a moving obstacle, for every field, velocity, route and time     *)
(* (ObstacleMotion): it stays where it may be, it does not jump, and its       *)
(* velocity tells where it goes until it turns.                                *)
(******************************************************************************)
EXTENDS HeadlessEpisode, ObstacleMotion, FiniteSetTheorems, TLAPS

--------------------------------------------------------------------------------
(* Division. *)

LEMMA Division ==
    ASSUME NEW a \in Int, NEW n \in Int, n > 0
    PROVE  /\ a % n \in Int /\ 0 <= a % n /\ a % n < n
           /\ a \div n \in Int
           /\ a = n * (a \div n) + (a % n)
  BY SMT

LEMMA Multiple ==
    ASSUME NEW n \in Int, n > 0, NEW j \in Int, NEW k \in Int, j < k
    PROVE  n * j \in Int /\ n * k \in Int /\ n * k >= n * j + n
  BY SMT

--------------------------------------------------------------------------------
(* Counting robots. *)

LEMMA Counted ==
    ASSUME NEW S \in SUBSET Robots
    PROVE  IsFiniteSet(S) /\ Cardinality(S) \in Nat /\ (S = {} <=> Cardinality(S) = 0)
<1>1. IsFiniteSet(S)
  BY EpisodeAssumption, FS_Subset
<1> QED
  BY <1>1, FS_CardinalityType, FS_EmptySet

LEMMA CountedTogether ==
    ASSUME NEW S \in SUBSET Robots, NEW T \in SUBSET Robots, S \cap T = {}
    PROVE  Cardinality(S \cup T) = Cardinality(S) + Cardinality(T)
<1>1. IsFiniteSet(S) /\ IsFiniteSet(T) /\ Cardinality(S) \in Nat /\ Cardinality(T) \in Nat
  BY Counted
<1>2. Cardinality(S \cup T) = Cardinality(S) + Cardinality(T) - Cardinality(S \cap T)
  BY <1>1, FS_Union
<1>3. Cardinality(S \cap T) = 0
  BY FS_EmptySet
<1> QED
  BY <1>1, <1>2, <1>3

LEMMA CountedPairs ==
    ASSUME NEW S \in SUBSET Pairs
    PROVE  Cardinality(S) \in Nat /\ (S = {} <=> Cardinality(S) = 0)
<1>1. IsFiniteSet(S)
  BY EpisodeAssumption, FS_Subset
<1> QED
  BY <1>1, FS_CardinalityType, FS_EmptySet

--------------------------------------------------------------------------------
(* A robot and one call for it. *)

Reasons == {NoReason, "time_limit", "no_valid_path"}
RobotSet == [failed : BOOLEAN, awaiting : BOOLEAN, arrived : BOOLEAN, routed : BOOLEAN,
             open : BOOLEAN, streak : Nat \cup {None}, stop : Reasons,
             stopped : Nat \cup {None}, good : Nat]

LEMMA CallKinds ==
    ASSUME NEW r, NEW c \in Calls(r)
    PROVE  /\ c.there \in BOOLEAN /\ c.slow \in BOOLEAN
           /\ First(r) => c.kind \in {"initial", "failed"}
           /\ ~First(r) => c.kind \in {"check", "failed"} \cup NewRouteKinds
  BY DEF Calls, Kinds

LEMMA AnswerFacts ==
    ASSUME NEW r \in RobotSet, NEW c \in Calls(r)
    PROVE  LET a == Answered(r, c)
           IN  /\ a \in RobotSet
               /\ a.failed = r.failed /\ a.stop = r.stop /\ a.good = r.good
               /\ a.awaiting = IF c.kind = "initial" THEN FALSE
                               ELSE r.awaiting \/ (c.kind = "failed" /\ First(r))
               /\ a.routed = (r.routed \/ c.kind = "initial")
               /\ a.open = (r.open \/ c.kind = "initial")
               /\ c.kind \in {"check", "failed"} => a.arrived = r.arrived
<1>0. c.there \in BOOLEAN
  BY CallKinds
<1>1. CASE c.kind = "initial"
  <2>1. Answered(r, c) = [r EXCEPT !.awaiting = FALSE, !.routed = TRUE, !.open = TRUE, !.arrived = c.there]
    BY <1>1 DEF Answered, NewRouteKinds
  <2> QED
    BY <1>0, <1>1, <2>1 DEF RobotSet
<1>2. CASE c.kind = "failed" /\ First(r)
  <2>1. Answered(r, c) = [r EXCEPT !.awaiting = TRUE]
    BY <1>2 DEF Answered, NewRouteKinds
  <2> QED
    BY <1>2, <2>1 DEF RobotSet
<1>3. CASE c.kind \in NewRouteKinds
  <2>1. Answered(r, c) = [r EXCEPT !.arrived = c.there]
    BY <1>3 DEF Answered, NewRouteKinds
  <2> QED
    BY <1>0, <1>3, <2>1 DEF RobotSet, NewRouteKinds
<1>4. CASE c.kind # "initial" /\ ~(c.kind = "failed" /\ First(r)) /\ c.kind \notin NewRouteKinds
  <2>1. Answered(r, c) = r
    BY <1>4 DEF Answered
  <2> QED
    BY <1>4, <2>1 DEF RobotSet
<1> QED
  BY <1>1, <1>2, <1>3, <1>4

LEMMA CallFacts ==
    ASSUME now \in Nat, NEW r \in RobotSet, NEW c \in Calls(r)
    PROVE  LET a == Answered(r, c)
               after == AfterCall(r, c)
               reason == StopReason(r, c)
           IN  /\ after \in RobotSet /\ reason \in Reasons
               /\ after.failed = (r.failed \/ reason # NoReason)
               /\ after.stop = IF reason = NoReason THEN r.stop ELSE reason
               /\ after.awaiting = (reason = NoReason /\ a.awaiting)
               /\ after.open = (reason = NoReason /\ a.open)
               /\ after.routed = a.routed /\ after.arrived = a.arrived
               /\ after.streak = Streak(r, c)
               /\ ~after.arrived /\ reason # "time_limit" =>
                     after.good = IF c.kind = "failed" THEN r.good ELSE now
<1> DEFINE a == Answered(r, c)
           reason == StopReason(r, c)
           b == [a EXCEPT !.streak = Streak(r, c), !.good = IF c.kind = "failed" THEN @ ELSE now]
           s == IF reason = NoReason THEN b ELSE Stopped(b, reason)
<1>1. reason \in Reasons
  BY DEF StopReason, Reasons
<1>2. Streak(r, c) \in Nat \cup {None}
  BY DEF Streak, RobotSet
<1>3. a \in RobotSet /\ a.failed = r.failed /\ a.stop = r.stop /\ a.good = r.good
  BY AnswerFacts
<1>4. AfterCall(r, c) = IF s.arrived \/ reason = "time_limit" THEN [s EXCEPT !.good = 0] ELSE s
  BY DEF AfterCall
<1> HIDE DEF a, reason
<1>5. /\ b \in RobotSet /\ b.failed = r.failed /\ b.stop = r.stop
      /\ b.awaiting = a.awaiting /\ b.open = a.open /\ b.routed = a.routed /\ b.arrived = a.arrived
      /\ b.streak = Streak(r, c) /\ b.good = IF c.kind = "failed" THEN r.good ELSE now
  BY <1>2, <1>3 DEF RobotSet
<1> HIDE DEF b
<1>6. /\ s \in RobotSet
      /\ s.failed = (r.failed \/ reason # NoReason)
      /\ s.stop = IF reason = NoReason THEN r.stop ELSE reason
      /\ s.awaiting = (reason = NoReason /\ a.awaiting)
      /\ s.open = (reason = NoReason /\ a.open)
      /\ s.routed = a.routed /\ s.arrived = a.arrived
      /\ s.streak = Streak(r, c) /\ s.good = IF c.kind = "failed" THEN r.good ELSE now
  <2>1. CASE reason = NoReason
    BY <1>3, <1>5, <2>1 DEF RobotSet
  <2>2. CASE reason # NoReason
    <3>1. s = [b EXCEPT !.failed = TRUE, !.awaiting = FALSE, !.stop = reason,
                        !.stopped = now, !.open = FALSE]
      BY <2>2 DEF Stopped
    <3>2. /\ s.failed = TRUE /\ s.awaiting = FALSE /\ s.stop = reason /\ s.open = FALSE
          /\ s.routed = b.routed /\ s.arrived = b.arrived /\ s.streak = b.streak /\ s.good = b.good
      BY <1>5, <3>1 DEF RobotSet
    <3>3. s \in RobotSet
      BY <1>1, <1>5, <3>1 DEF RobotSet
    <3> QED
      BY <1>3, <1>5, <2>2, <3>2, <3>3
  <2> QED
    BY <2>1, <2>2
<1> HIDE DEF s
<1>7. CASE s.arrived \/ reason = "time_limit"
  <2>1. AfterCall(r, c) = [s EXCEPT !.good = 0]
    BY <1>4, <1>7
  <2> QED
    BY <1>1, <1>6, <1>7, <2>1 DEF RobotSet, a, reason
<1>8. CASE ~(s.arrived \/ reason = "time_limit")
  <2>1. AfterCall(r, c) = s
    BY <1>4, <1>8
  <2> QED
    BY <1>1, <1>6, <1>8, <2>1 DEF a, reason
<1> QED
  BY <1>7, <1>8

\* A robot that gets its first route is not stopped by the same call.
LEMMA FirstRouteStays ==
    ASSUME NEW r, NEW c, c.kind \in {"initial", "check"}
    PROVE  StopReason(r, c) = NoReason /\ Streak(r, c) = None
  BY DEF StopReason, TooSlow, TooLong, Streak

--------------------------------------------------------------------------------
(* The state of the loop and of the robots. *)

\* A robot that waits for its first route has none, was not stopped and is nowhere.
RobotFits(r) ==
    /\ r.failed <=> r.stop # NoReason
    /\ r.awaiting => ~r.open /\ ~r.routed /\ ~r.failed /\ ~r.arrived
    /\ first_cycle => r = NewRobot
    /\ ~first_cycle /\ ~r.awaiting /\ ~r.failed => r.routed

LoopInv ==
    /\ [policy |-> policy, limit |-> limit] \in SETUPS
    /\ phase \in Phases /\ now \in Nat /\ next_control \in Nat /\ first_cycle \in BOOLEAN
    /\ phase = "advance" => now < MAX_TIME
    /\ first_cycle => phase = "control" /\ now = 0 /\ next_control = 0
    /\ robot \in [Robots -> RobotSet]
    /\ phase # "ended" => \A r \in Robots : RobotFits(robot[r])
    /\ end_reason \in {NoReason, "no_valid_path"}

LEMMA StepIsForward ==
    ASSUME LoopInv, now < MAX_TIME
    PROVE  /\ Step \in Nat
           /\ (policy # "once" \/ \E r \in Robots : robot[r].awaiting) /\ next_control > now =>
                 Step <= next_control - now
<1> DEFINE cut == IF (policy # "once" \/ \E r \in Robots : robot[r].awaiting) /\ next_control > now
                  THEN {next_control - now} ELSE {}
           S == {DT, MAX_TIME - now} \cup cut
<1>1. DT \in Nat /\ MAX_TIME - now \in Nat /\ cut \subseteq Nat
  BY EpisodeAssumption DEF LoopInv
<1>2. cut = {} \/ cut = {next_control - now}
  OBVIOUS
<1> HIDE DEF cut
<1>3. \E x \in S : \A y \in S : x <= y
  <2>1. CASE cut = {}
    <3>1. S = {DT, MAX_TIME - now}
      BY <2>1
    <3> QED
      BY <1>1, <3>1
  <2>2. CASE cut = {next_control - now}
    <3>1. S = {DT, MAX_TIME - now, next_control - now} /\ next_control - now \in Nat
      BY <1>1, <2>2
    <3> QED
      BY <1>1, <3>1
  <2> QED
    BY <1>2, <2>1, <2>2
<1>4. Step = Min(S)
  BY DEF Step, cut
<1>5. Min(S) \in S /\ \A y \in S : Min(S) <= y
  BY <1>3 DEF Min
<1> QED
  BY <1>1, <1>4, <1>5 DEF cut

LEMMA NextControlIsLater ==
    ASSUME now \in Nat, next_control \in Nat
    PROVE  /\ NextControl \in Nat
           /\ now = next_control => NextControl = next_control + PERIOD
<1> DEFINE S == {k \in 0..now : next_control + PERIOD * k <= now}
<1>1. NextControl = next_control + PERIOD * Cardinality(S)
  BY DEF NextControl
<1>2. IsFiniteSet(0..now)
  BY FS_Interval
<1>3. Cardinality(S) \in Nat
  BY <1>2, FS_Subset, FS_CardinalityType
<1>4. ASSUME now = next_control
      PROVE  Cardinality(S) = 1
  <2>1. 0 \in S
    BY <1>4, EpisodeAssumption
  <2>2. ASSUME NEW k \in S
        PROVE  k = 0
    <3>1. k \in Nat /\ PERIOD \in Nat \ {0} /\ next_control + PERIOD * k <= now
      BY EpisodeAssumption
    <3>2. k > 0 => PERIOD * k > 0
      BY <3>1
    <3>3. PERIOD * k \in Nat
      BY <3>1
    <3> QED
      BY <1>4, <3>1, <3>2, <3>3
  <2>3. S = {0}
    BY <2>1, <2>2
  <2> QED
    BY <2>3, FS_Singleton
<1> HIDE DEF S
<1>5. PERIOD \in Nat /\ PERIOD * Cardinality(S) \in Nat
  BY <1>3, EpisodeAssumption
<1> QED
  BY <1>1, <1>4, <1>5

\* Who a control cycle asks about, and what it makes of the answers.
Asked == {r \in Robots : Consulted(robot[r])}
Answers(call) ==
    /\ \A r \in Asked : call[r] \in Calls(robot[r])
    /\ robot' = [r \in Robots |-> IF r \in Asked THEN AfterCall(robot[r], call[r]) ELSE robot[r]]
    /\ count' = [count EXCEPT
           !.routes = @ + Cardinality({r \in Asked : call[r].kind = "initial"
                                                      \/ Replaces(robot[r], call[r])})]
    /\ ends' = [ends EXCEPT
           !.replaced = @ + Cardinality({r \in Asked : Replaces(robot[r], call[r])}),
           !.stopped = @ + Cardinality({r \in Asked : StopsRoute(robot[r], call[r])})]
    /\ end_reason' = IF \E r \in Asked : StopReason(robot[r], call[r]) = "no_valid_path"
                     THEN "no_valid_path" ELSE end_reason

LEMMA CycleAnswers ==
    ASSUME ControlCycle
    PROVE  \E call : Answers(call)
  BY DEF ControlCycle, Answers, Asked

LEMMA Unasked ==
    ASSUME LoopInv, phase # "ended", NEW r \in Robots, r \notin Asked
    PROVE  /\ robot[r].failed \/ ~First(robot[r])
           /\ ~first_cycle
<1>1. RobotFits(robot[r])
  BY DEF LoopInv
<1> QED
  BY <1>1 DEF RobotFits, Asked, Consulted, First, NewRobot

LEMMA LoopInvStarts == Init => LoopInv
<1> SUFFICES ASSUME Init PROVE LoopInv
  OBVIOUS
<1>1. NewRobot \in RobotSet
  BY DEF NewRobot, RobotSet, Reasons
<1>2. \A r \in Robots : RobotFits(robot[r])
  BY DEF Init, RobotFits, NewRobot
<1>3. [policy |-> policy, limit |-> limit] \in SETUPS
  <2>1. PICK setup \in SETUPS : policy = setup.policy /\ limit = setup.limit
    BY DEF Init
  <2>2. setup = [policy |-> setup.policy, limit |-> setup.limit]
    BY EpisodeAssumption
  <2> QED
    BY <2>1, <2>2
<1>4. robot \in [Robots -> RobotSet]
  BY <1>1 DEF Init
<1> QED
  BY <1>2, <1>3, <1>4 DEF Init, LoopInv, Phases

LEMMA LoopInvStep == LoopInv /\ [Next]_vars => LoopInv'
<1>1. ASSUME LoopInv, ControlCycle
      PROVE  LoopInv'
  <2>1. PICK call : Answers(call)
    BY <1>1, CycleAnswers
  <2>2. phase = "control" /\ now \in Nat /\ next_control \in Nat
    BY <1>1 DEF ControlCycle, LoopInv
  <2>3. ASSUME NEW r \in Robots
        PROVE  robot'[r] \in RobotSet /\ RobotFits(robot[r])'
    <3>1. robot[r] \in RobotSet /\ RobotFits(robot[r])
      BY <1>1, <2>2 DEF LoopInv
    <3>2. CASE r \in Asked
      <4>1. robot'[r] = AfterCall(robot[r], call[r]) /\ call[r] \in Calls(robot[r])
        BY <2>1, <3>2 DEF Answers
      <4>2. ~robot[r].failed /\ (First(robot[r]) => ~robot[r].arrived)
        BY <3>1, <3>2 DEF Asked, Consulted, First, RobotFits, NewRobot
      <4>3. /\ AfterCall(robot[r], call[r]) \in RobotSet
            /\ AfterCall(robot[r], call[r]).failed = (robot[r].failed \/ StopReason(robot[r], call[r]) # NoReason)
            /\ AfterCall(robot[r], call[r]).stop = IF StopReason(robot[r], call[r]) = NoReason THEN robot[r].stop
                                     ELSE StopReason(robot[r], call[r])
            /\ AfterCall(robot[r], call[r]).awaiting = (StopReason(robot[r], call[r]) = NoReason
                                                 /\ Answered(robot[r], call[r]).awaiting)
            /\ AfterCall(robot[r], call[r]).open = (StopReason(robot[r], call[r]) = NoReason
                                                 /\ Answered(robot[r], call[r]).open)
            /\ AfterCall(robot[r], call[r]).routed = Answered(robot[r], call[r]).routed
            /\ AfterCall(robot[r], call[r]).arrived = Answered(robot[r], call[r]).arrived
        BY <2>2, <3>1, <4>1, CallFacts
      <4>4. /\ Answered(robot[r], call[r]).awaiting = IF call[r].kind = "initial" THEN FALSE
                               ELSE robot[r].awaiting \/ (call[r].kind = "failed" /\ First(robot[r]))
            /\ Answered(robot[r], call[r]).routed = (robot[r].routed \/ call[r].kind = "initial")
            /\ Answered(robot[r], call[r]).open = (robot[r].open \/ call[r].kind = "initial")
            /\ call[r].kind \in {"check", "failed"} =>
                  Answered(robot[r], call[r]).arrived = robot[r].arrived
        BY <3>1, <4>1, AnswerFacts
      <4>5. /\ First(robot[r]) => call[r].kind \in {"initial", "failed"}
            /\ ~First(robot[r]) => call[r].kind \in {"check", "failed"} \cup NewRouteKinds
        BY <4>1, CallKinds
      <4>6. ~first_cycle'
        BY <1>1 DEF ControlCycle
      <4>7. /\ first_cycle \/ robot[r].awaiting => ~robot[r].open /\ ~robot[r].routed
            /\ ~first_cycle /\ ~robot[r].awaiting => robot[r].routed
            /\ robot[r].failed <=> robot[r].stop # NoReason
        BY <3>1, <4>2 DEF RobotFits, NewRobot
      <4>8. First(robot[r]) <=> first_cycle \/ robot[r].awaiting
        BY DEF First
      <4>9. /\ robot'[r].awaiting => ~robot'[r].open /\ ~robot'[r].routed /\ ~robot'[r].failed /\ ~robot'[r].arrived
        BY <4>1, <4>2, <4>3, <4>4, <4>5, <4>7, <4>8 DEF NewRouteKinds
      <4>10. ~robot'[r].awaiting /\ ~robot'[r].failed => robot'[r].routed
        BY <4>1, <4>2, <4>3, <4>4, <4>5, <4>7, <4>8 DEF NewRouteKinds
      <4>11. robot'[r].failed <=> robot'[r].stop # NoReason
        BY <4>1, <4>2, <4>3, <4>7
      <4> QED
        BY <4>1, <4>3, <4>6, <4>9, <4>10, <4>11 DEF RobotFits
    <3>3. CASE r \notin Asked
      <4>1. robot'[r] = robot[r]
        BY <2>1, <3>3 DEF Answers
      <4>2. ~first_cycle /\ first_cycle' = FALSE
        BY <1>1, <2>2, <3>3, Unasked DEF ControlCycle
      <4> QED
        BY <3>1, <4>1, <4>2 DEF RobotFits
    <3> QED
      BY <3>2, <3>3
  <2>4. robot' \in [Robots -> RobotSet]
    BY <2>1, <2>3 DEF Answers
  <2>5. end_reason' \in {NoReason, "no_valid_path"}
    BY <1>1, <2>1 DEF Answers, LoopInv
  <2>6. next_control' \in Nat
    BY <1>1, <2>2, NextControlIsLater DEF ControlCycle
  <2>7. /\ policy' = policy /\ limit' = limit /\ now' = now /\ first_cycle' = FALSE
        /\ phase' \in {"closing", "watch"}
    BY <1>1 DEF ControlCycle
  <2> QED
    BY <1>1, <2>2, <2>3, <2>4, <2>5, <2>6, <2>7 DEF LoopInv, Phases
<1>2. ASSUME LoopInv, NoControl
      PROVE  LoopInv'
  BY <1>2 DEF LoopInv, NoControl, ControlDue, RobotFits, Phases
<1>3. ASSUME LoopInv, Watch
      PROVE  LoopInv'
  <2>1. phase' \in {"closing", "advance"} /\ (phase' = "advance" => now < MAX_TIME)
    BY <1>3, EpisodeAssumption DEF Watch, LoopInv
  <2> QED
    BY <1>3, <2>1 DEF LoopInv, Watch, RobotFits, Phases
<1>4. ASSUME LoopInv, Advance
      PROVE  LoopInv'
  <2>1. PICK here \in SUBSET {r \in Robots : Moves(robot[r])} :
            robot' = [r \in Robots |-> CloseAtGoal(IF r \in here THEN Arrive(robot[r]) ELSE robot[r])]
    BY <1>4 DEF Advance
  <2>2. ASSUME NEW r \in Robots
        PROVE  robot'[r] \in RobotSet /\ RobotFits(robot[r])'
    <3> DEFINE m == IF r \in here THEN Arrive(robot[r]) ELSE robot[r]
    <3>1. robot[r] \in RobotSet /\ RobotFits(robot[r]) /\ ~first_cycle /\ first_cycle' = first_cycle
      BY <1>4 DEF LoopInv, Advance
    <3>2. /\ m \in RobotSet /\ m.failed = robot[r].failed /\ m.stop = robot[r].stop
          /\ m.awaiting = robot[r].awaiting /\ m.routed = robot[r].routed /\ m.open = robot[r].open
          /\ r \notin here => m = robot[r]
      BY <3>1 DEF Arrive, RobotSet
    <3>3. robot[r].awaiting => r \notin here
      BY DEF Moves
    <3>4. robot'[r] = CloseAtGoal(m)
      BY <2>1
    <3> HIDE DEF m
    <3>5. /\ robot'[r] \in RobotSet /\ robot'[r].failed = m.failed /\ robot'[r].stop = m.stop
          /\ robot'[r].awaiting = m.awaiting /\ robot'[r].routed = m.routed
          /\ robot'[r].arrived = m.arrived /\ (robot'[r].open => m.open)
      BY <3>2, <3>4 DEF CloseAtGoal, RobotSet
    <3> QED
      BY <3>1, <3>2, <3>3, <3>5 DEF RobotFits
  <2>3. now' \in Nat
    <3>1. Step \in Nat /\ now \in Nat
      BY <1>4, StepIsForward DEF Advance, LoopInv
    <3> QED
      BY <1>4, <3>1 DEF Advance
  <2>4. /\ policy' = policy /\ limit' = limit /\ first_cycle' = first_cycle /\ ~first_cycle
        /\ phase' = "control" /\ next_control' = next_control /\ end_reason' = end_reason
    BY <1>4 DEF Advance, LoopInv
  <2>5. robot' \in [Robots -> RobotSet]
    BY <2>1, <2>2
  <2> QED
    BY <1>4, <2>2, <2>3, <2>4, <2>5 DEF LoopInv, Phases
<1>5. ASSUME LoopInv, Close
      PROVE  LoopInv'
  <2>1. \A r \in Robots : GiveUp(robot[r]) \in RobotSet
    BY <1>5 DEF LoopInv, GiveUp, RobotSet
  <2>2. robot' \in [Robots -> RobotSet]
    BY <1>5, <2>1 DEF Close
  <2> QED
    BY <1>5, <2>2 DEF LoopInv, Close, Phases
<1>6. ASSUME LoopInv, UNCHANGED vars
      PROVE  LoopInv'
  BY <1>6 DEF LoopInv, vars, RobotFits
<1> QED
  BY <1>1, <1>2, <1>3, <1>4, <1>5, <1>6 DEF Next

LEMMA LoopInvHolds == Spec => []LoopInv
  BY LoopInvStarts, LoopInvStep, PTL DEF Spec

--------------------------------------------------------------------------------
(* The ledger of routes. *)

OpenOnes == {r \in Robots : robot[r].open}
RoutedOnes == {r \in Robots : robot[r].routed}

\* Apart from those that replaced another, a robot opens one route.
LedgerInv ==
    /\ count \in [collisions : Nat, contacts : Nat, buffers : Nat, routes : Nat, overlap : BOOLEAN]
    /\ ends \in [replaced : Nat, goal : Nat, stopped : Nat, episode_end : Nat]
    /\ count.routes = ends.replaced + ends.goal + ends.stopped + ends.episode_end + Cardinality(OpenOnes)
    /\ count.routes = ends.replaced + Cardinality(RoutedOnes)
    /\ phase = "ended" => OpenOnes = {}

\* What one robot's call does to its route.
LEMMA CycleMoves ==
    ASSUME LoopInv, phase = "control", NEW call, Answers(call), NEW r \in Asked
    PROVE  /\ robot'[r].open \/ StopsRoute(robot[r], call[r]) <=>
                 robot[r].open \/ call[r].kind = "initial"
           /\ ~(robot'[r].open /\ StopsRoute(robot[r], call[r]))
           /\ call[r].kind = "initial" => ~robot[r].open /\ ~robot[r].routed
           /\ robot'[r].routed <=> robot[r].routed \/ call[r].kind = "initial"
           /\ Replaces(robot[r], call[r]) => robot[r].open /\ call[r].kind # "initial"
<1> DEFINE c == call[r]
           a == Answered(robot[r], c)
           reason == StopReason(robot[r], c)
<1>1. /\ r \in Robots /\ robot[r] \in RobotSet /\ RobotFits(robot[r]) /\ now \in Nat
      /\ c \in Calls(robot[r]) /\ robot'[r] = AfterCall(robot[r], c)
  BY DEF LoopInv, Answers, Asked
<1>2. /\ robot'[r].open = (reason = NoReason /\ a.open) /\ robot'[r].routed = a.routed
  BY <1>1, CallFacts
<1>3. a.open = (robot[r].open \/ c.kind = "initial") /\ a.routed = (robot[r].routed \/ c.kind = "initial")
  BY <1>1, AnswerFacts
<1>4. robot[r].open \in BOOLEAN /\ robot[r].routed \in BOOLEAN
  BY <1>1 DEF RobotSet
<1>5. c.kind = "initial" => ~robot[r].open /\ ~robot[r].routed
  <2>1. c.kind = "initial" => First(robot[r])
    BY <1>1, CallKinds DEF NewRouteKinds
  <2> QED
    BY <1>1, <2>1 DEF First, RobotFits, NewRobot
<1>6. Replaces(robot[r], c) => robot[r].open /\ c.kind # "initial"
  BY DEF Replaces, NewRouteKinds
<1> QED
  BY <1>2, <1>3, <1>4, <1>5, <1>6 DEF StopsRoute

LEMMA CycleKeepsLedger ==
    ASSUME LoopInv, LedgerInv, ControlCycle
    PROVE  LedgerInv'
<1>1. PICK call : Answers(call)
  BY CycleAnswers
<1> DEFINE A == {r \in Asked : call[r].kind = "initial" \/ Replaces(robot[r], call[r])}
           B == {r \in Asked : Replaces(robot[r], call[r])}
           C == {r \in Asked : StopsRoute(robot[r], call[r])}
           N == {r \in Asked : call[r].kind = "initial"}
<1>2. phase = "control" /\ phase' \in {"closing", "watch"}
  BY DEF ControlCycle
<1>3. /\ A \in SUBSET Robots /\ B \in SUBSET Robots /\ C \in SUBSET Robots /\ N \in SUBSET Robots
      /\ OpenOnes \in SUBSET Robots /\ RoutedOnes \in SUBSET Robots
      /\ OpenOnes' \in SUBSET Robots /\ RoutedOnes' \in SUBSET Robots
  BY DEF Asked, OpenOnes, RoutedOnes
<1>4. A = N \cup B
  OBVIOUS
<1>5. N \cap B = {} /\ OpenOnes \cap N = {} /\ RoutedOnes \cap N = {} /\ OpenOnes' \cap C = {}
  BY <1>1, <1>2, CycleMoves DEF OpenOnes, RoutedOnes
<1>6. \A r \in Robots \ Asked : robot'[r] = robot[r]
  BY <1>1 DEF Answers
<1>7. OpenOnes' \cup C = OpenOnes \cup N
  <2>1. \A r \in Robots : r \in OpenOnes' \cup C <=> r \in OpenOnes \cup N
    BY <1>1, <1>2, <1>6, CycleMoves DEF OpenOnes
  <2> QED
    BY <1>3, <2>1
<1>8. RoutedOnes' = RoutedOnes \cup N
  <2>1. \A r \in Robots : r \in RoutedOnes' <=> r \in RoutedOnes \cup N
    BY <1>1, <1>2, <1>6, CycleMoves DEF RoutedOnes
  <2> QED
    BY <1>3, <2>1
<1>9. /\ count' = [count EXCEPT !.routes = @ + Cardinality(A)]
      /\ ends' = [ends EXCEPT !.replaced = @ + Cardinality(B), !.stopped = @ + Cardinality(C)]
  BY <1>1 DEF Answers
<1> HIDE DEF A, B, C, N
<1>10. Cardinality(A) = Cardinality(N) + Cardinality(B)
  BY <1>3, <1>4, <1>5, CountedTogether
<1>11. Cardinality(OpenOnes') + Cardinality(C) = Cardinality(OpenOnes) + Cardinality(N)
  <2>1. Cardinality(OpenOnes' \cup C) = Cardinality(OpenOnes') + Cardinality(C)
    BY <1>3, <1>5, CountedTogether
  <2>2. Cardinality(OpenOnes \cup N) = Cardinality(OpenOnes) + Cardinality(N)
    BY <1>3, <1>5, CountedTogether
  <2> QED
    BY <1>7, <2>1, <2>2
<1>12. Cardinality(RoutedOnes') = Cardinality(RoutedOnes) + Cardinality(N)
  BY <1>3, <1>5, <1>8, CountedTogether
<1>13. /\ Cardinality(A) \in Nat /\ Cardinality(B) \in Nat /\ Cardinality(C) \in Nat /\ Cardinality(N) \in Nat
       /\ Cardinality(OpenOnes) \in Nat /\ Cardinality(RoutedOnes) \in Nat
       /\ Cardinality(OpenOnes') \in Nat /\ Cardinality(RoutedOnes') \in Nat
  BY <1>3, Counted
<1>14. /\ count'.routes = count.routes + Cardinality(A)
       /\ ends'.replaced = ends.replaced + Cardinality(B) /\ ends'.stopped = ends.stopped + Cardinality(C)
       /\ ends'.goal = ends.goal /\ ends'.episode_end = ends.episode_end
       /\ count' \in [collisions : Nat, contacts : Nat, buffers : Nat, routes : Nat, overlap : BOOLEAN]
       /\ ends' \in [replaced : Nat, goal : Nat, stopped : Nat, episode_end : Nat]
  <2>1. /\ count \in [collisions : Nat, contacts : Nat, buffers : Nat, routes : Nat, overlap : BOOLEAN]
        /\ ends \in [replaced : Nat, goal : Nat, stopped : Nat, episode_end : Nat]
    BY DEF LedgerInv
  <2>2. count.routes + Cardinality(A) \in Nat
    BY <1>13, <2>1
  <2>3. ends.replaced + Cardinality(B) \in Nat /\ ends.stopped + Cardinality(C) \in Nat
    BY <1>13, <2>1
  <2>4. /\ count' \in [collisions : Nat, contacts : Nat, buffers : Nat, routes : Nat, overlap : BOOLEAN]
        /\ count'.routes = count.routes + Cardinality(A)
    BY <1>9, <2>1, <2>2
  <2>5. /\ ends' \in [replaced : Nat, goal : Nat, stopped : Nat, episode_end : Nat]
        /\ ends'.replaced = ends.replaced + Cardinality(B) /\ ends'.stopped = ends.stopped + Cardinality(C)
        /\ ends'.goal = ends.goal /\ ends'.episode_end = ends.episode_end
    BY <1>9, <2>1, <2>3
  <2> QED
    BY <2>4, <2>5
<1>15. /\ count.routes \in Nat /\ ends.replaced \in Nat /\ ends.goal \in Nat /\ ends.stopped \in Nat
       /\ ends.episode_end \in Nat
       /\ count.routes = ends.replaced + ends.goal + ends.stopped + ends.episode_end + Cardinality(OpenOnes)
       /\ count.routes = ends.replaced + Cardinality(RoutedOnes)
  BY DEF LedgerInv
<1>16. count'.routes = ends'.replaced + ends'.goal + ends'.stopped + ends'.episode_end + Cardinality(OpenOnes')
  <2>1. count'.routes = count.routes + Cardinality(N) + Cardinality(B)
    BY <1>10, <1>13, <1>14, <1>15
  <2>2. ends'.replaced + ends'.goal + ends'.stopped + ends'.episode_end
           = ends.replaced + ends.goal + ends.stopped + ends.episode_end + Cardinality(B) + Cardinality(C)
    BY <1>13, <1>14, <1>15
  <2> QED
    BY ONLY <1>11, <1>13, <1>15, <2>1, <2>2
<1>17. count'.routes = ends'.replaced + Cardinality(RoutedOnes')
  BY <1>10, <1>12, <1>13, <1>14, <1>15
<1> QED
  BY <1>2, <1>14, <1>16, <1>17 DEF LedgerInv

LEMMA Bumped ==
    ASSUME NEW n \in Nat, NEW k \in Nat
    PROVE  Bump(n, k) \in Nat /\ (Bump(n, k) = 0 <=> n = 0 /\ k = 0)
  BY EpisodeAssumption DEF Bump

LEMMA InitLedger == Init => LedgerInv
<1> SUFFICES ASSUME Init PROVE LedgerInv
  OBVIOUS
<1>1. OpenOnes = {} /\ RoutedOnes = {}
  BY DEF Init, OpenOnes, RoutedOnes, NewRobot
<1>2. (\E p \in Pairs : gap[p] = "touch") \in BOOLEAN
  OBVIOUS
<1> QED
  BY <1>1, <1>2, FS_EmptySet DEF Init, LedgerInv

LEMMA WatchKeepsLedger ==
    ASSUME LedgerInv, Watch
    PROVE  LedgerInv'
<1> DEFINE new == InContact(gap) \ touching
<1>1. new \in SUBSET Pairs
  BY DEF InContact
<1>2. Cardinality(new) \in Nat
  BY <1>1, CountedPairs
<1>3. count' = [count EXCEPT !.collisions = Bump(@, Cardinality(new))] /\ ends' = ends /\ robot' = robot
      /\ phase' # "ended"
  BY DEF Watch
<1> HIDE DEF new
<1>4. Bump(count.collisions, Cardinality(new)) \in Nat
  BY <1>2, Bumped DEF LedgerInv
<1>5. OpenOnes' = OpenOnes /\ RoutedOnes' = RoutedOnes
  BY <1>3 DEF OpenOnes, RoutedOnes
<1> QED
  BY <1>3, <1>4, <1>5 DEF LedgerInv

LEMMA AdvanceKeepsLedger ==
    ASSUME LoopInv, LedgerInv, Advance
    PROVE  LedgerInv'
<1>1. PICK here \in SUBSET {r \in Robots : Moves(robot[r])} :
         LET moved == [r \in Robots |-> IF r \in here THEN Arrive(robot[r]) ELSE robot[r]]
         IN  /\ robot' = [r \in Robots |-> CloseAtGoal(moved[r])]
             /\ ends' = [ends EXCEPT
                    !.goal = @ + Cardinality({r \in Robots : moved[r].open /\ PathDone(moved[r])})]
  BY DEF Advance
<1>2. PICK to \in [Pairs -> Gaps] : \E during \in [Pairs -> Gaps] :
         LET came == [p \in Pairs |-> Came(gap[p], to[p], during[p])]
         IN  count' = [count EXCEPT
                     !.contacts = Bump(@, Cardinality(InContact(came) \ InContact(swept))),
                     !.buffers = Bump(@, Cardinality(InBuffer(came) \ InBuffer(swept)))]
  BY DEF Advance
<1>3. PICK during \in [Pairs -> Gaps] :
         LET came == [p \in Pairs |-> Came(gap[p], to[p], during[p])]
         IN  count' = [count EXCEPT
                     !.contacts = Bump(@, Cardinality(InContact(came) \ InContact(swept))),
                     !.buffers = Bump(@, Cardinality(InBuffer(came) \ InBuffer(swept)))]
  BY <1>2
<1> DEFINE moved == [r \in Robots |-> IF r \in here THEN Arrive(robot[r]) ELSE robot[r]]
           G == {r \in Robots : moved[r].open /\ PathDone(moved[r])}
           came == [p \in Pairs |-> Came(gap[p], to[p], during[p])]
           x == InContact(came) \ InContact(swept)
           y == InBuffer(came) \ InBuffer(swept)
<1>4. \A r \in Robots : /\ moved[r].open = robot[r].open /\ moved[r].routed = robot[r].routed
                        /\ moved[r] \in RobotSet
  <2> TAKE r \in Robots
  <2>1. robot[r] \in RobotSet
    BY DEF LoopInv
  <2>2. /\ Arrive(robot[r]).open = robot[r].open /\ Arrive(robot[r]).routed = robot[r].routed
        /\ Arrive(robot[r]) \in RobotSet
    BY <2>1 DEF Arrive, RobotSet
  <2> QED
    BY <2>1, <2>2
<1>5. /\ robot' = [r \in Robots |-> CloseAtGoal(moved[r])]
      /\ ends' = [ends EXCEPT !.goal = @ + Cardinality(G)]
      /\ count' = [count EXCEPT !.contacts = Bump(@, Cardinality(x)), !.buffers = Bump(@, Cardinality(y))]
      /\ phase' # "ended"
  BY <1>1, <1>3 DEF Advance
<1>6. x \in SUBSET Pairs /\ y \in SUBSET Pairs /\ G \in SUBSET Robots
  BY DEF InContact, InBuffer
<1> HIDE DEF moved, came, x, y
<1>7. \A r \in Robots : /\ robot'[r].routed = robot[r].routed
                        /\ robot'[r].open = (robot[r].open /\ ~PathDone(moved[r]))
  BY <1>4, <1>5 DEF CloseAtGoal, RobotSet
<1>8. RoutedOnes' = RoutedOnes /\ OpenOnes = OpenOnes' \cup G /\ OpenOnes' \cap G = {}
  <2>1. \A r \in Robots : robot[r].open \in BOOLEAN
    BY DEF LoopInv, RobotSet
  <2> QED
    BY <1>4, <1>7, <2>1 DEF RoutedOnes, OpenOnes
<1> HIDE DEF G
<1>9. OpenOnes \in SUBSET Robots /\ OpenOnes' \in SUBSET Robots
  BY DEF OpenOnes
<1>10. /\ Cardinality(OpenOnes) = Cardinality(OpenOnes') + Cardinality(G)
       /\ Cardinality(OpenOnes) \in Nat /\ Cardinality(OpenOnes') \in Nat /\ Cardinality(G) \in Nat
  BY <1>6, <1>8, <1>9, CountedTogether, Counted
<1>11. Cardinality(x) \in Nat /\ Cardinality(y) \in Nat
  BY <1>6, CountedPairs
<1>12. Bump(count.contacts, Cardinality(x)) \in Nat /\ Bump(count.buffers, Cardinality(y)) \in Nat
  BY <1>11, Bumped DEF LedgerInv
<1>13. /\ count' \in [collisions : Nat, contacts : Nat, buffers : Nat, routes : Nat, overlap : BOOLEAN]
       /\ count'.routes = count.routes
       /\ ends' \in [replaced : Nat, goal : Nat, stopped : Nat, episode_end : Nat]
       /\ ends'.goal = ends.goal + Cardinality(G) /\ ends'.replaced = ends.replaced
       /\ ends'.stopped = ends.stopped /\ ends'.episode_end = ends.episode_end
  <2>1. /\ count \in [collisions : Nat, contacts : Nat, buffers : Nat, routes : Nat, overlap : BOOLEAN]
        /\ ends \in [replaced : Nat, goal : Nat, stopped : Nat, episode_end : Nat]
    BY DEF LedgerInv
  <2>2. ends.goal + Cardinality(G) \in Nat
    BY <1>10, <2>1
  <2>3. /\ ends' \in [replaced : Nat, goal : Nat, stopped : Nat, episode_end : Nat]
        /\ ends'.goal = ends.goal + Cardinality(G) /\ ends'.replaced = ends.replaced
        /\ ends'.stopped = ends.stopped /\ ends'.episode_end = ends.episode_end
    BY <1>5, <2>1, <2>2
  <2>4. /\ count' \in [collisions : Nat, contacts : Nat, buffers : Nat, routes : Nat, overlap : BOOLEAN]
        /\ count'.routes = count.routes
    BY <1>5, <1>12, <2>1
  <2> QED
    BY <2>3, <2>4
<1>14. /\ count.routes \in Nat /\ ends.replaced \in Nat /\ ends.goal \in Nat /\ ends.stopped \in Nat
       /\ ends.episode_end \in Nat
       /\ count.routes = ends.replaced + ends.goal + ends.stopped + ends.episode_end + Cardinality(OpenOnes)
       /\ count.routes = ends.replaced + Cardinality(RoutedOnes)
  BY DEF LedgerInv
<1>15. count'.routes = ends'.replaced + ends'.goal + ends'.stopped + ends'.episode_end + Cardinality(OpenOnes')
  BY <1>10, <1>13, <1>14
<1> QED
  BY <1>5, <1>8, <1>13, <1>14, <1>15 DEF LedgerInv

LEMMA CloseKeepsLedger ==
    ASSUME LoopInv, LedgerInv, Close
    PROVE  LedgerInv'
<1>1. /\ robot' = [r \in Robots |-> GiveUp(robot[r])]
      /\ ends' = [ends EXCEPT !.episode_end = @ + Cardinality(OpenOnes)]
      /\ count' = count
  BY DEF Close, OpenOnes
<1>2. \A r \in Robots : ~robot'[r].open /\ robot'[r].routed = robot[r].routed
  BY <1>1 DEF GiveUp, LoopInv, RobotSet
<1>3. OpenOnes' = {} /\ RoutedOnes' = RoutedOnes /\ Cardinality(OpenOnes') = 0
  BY <1>2, FS_EmptySet DEF OpenOnes, RoutedOnes
<1>4. Cardinality(OpenOnes) \in Nat
  BY Counted DEF OpenOnes
<1>5. /\ ends' \in [replaced : Nat, goal : Nat, stopped : Nat, episode_end : Nat]
      /\ ends'.goal = ends.goal /\ ends'.replaced = ends.replaced
      /\ ends'.stopped = ends.stopped /\ ends'.episode_end = ends.episode_end + Cardinality(OpenOnes)
  BY <1>1, <1>4 DEF LedgerInv
<1>6. /\ count.routes \in Nat /\ ends.replaced \in Nat /\ ends.goal \in Nat /\ ends.stopped \in Nat
      /\ ends.episode_end \in Nat
      /\ count.routes = ends.replaced + ends.goal + ends.stopped + ends.episode_end + Cardinality(OpenOnes)
  BY DEF LedgerInv
<1>7. count.routes = ends'.replaced + ends'.goal + ends'.stopped + ends'.episode_end + 0
  BY <1>4, <1>5, <1>6
<1> QED
  BY <1>1, <1>3, <1>5, <1>7 DEF LedgerInv

LEMMA LedgerInvHolds == Spec => []LedgerInv
<1>1. LoopInv /\ LedgerInv /\ [Next]_vars => LedgerInv'
  <2>1. ASSUME LedgerInv, NoControl
        PROVE  LedgerInv'
    BY <2>1 DEF LedgerInv, NoControl, OpenOnes, RoutedOnes
  <2>2. ASSUME LedgerInv, UNCHANGED vars
        PROVE  LedgerInv'
    BY <2>2 DEF LedgerInv, vars, OpenOnes, RoutedOnes
  <2> QED
    BY <2>1, <2>2, CycleKeepsLedger, WatchKeepsLedger, AdvanceKeepsLedger, CloseKeepsLedger DEF Next
<1> QED
  BY <1>1, InitLedger, LoopInvHolds, PTL DEF Spec

\* Every route that is opened is closed once or still open, for any number of
\* robots and of replacements, and at the end each robot that had a route has
\* one final reason (close_route).
THEOREM RoutesAreAccountedFor == Spec => []RouteLedger
<1>1. LedgerInv => RouteLedger
  <2> SUFFICES ASSUME LedgerInv PROVE RouteLedger
    OBVIOUS
  <2>1. /\ count.routes \in Nat /\ ends.replaced \in Nat /\ ends.goal \in Nat /\ ends.stopped \in Nat
        /\ ends.episode_end \in Nat
        /\ count.routes = ends.replaced + ends.goal + ends.stopped + ends.episode_end + Cardinality(OpenOnes)
        /\ count.routes = ends.replaced + Cardinality(RoutedOnes)
    BY DEF LedgerInv
  <2>2. phase = "ended" => Cardinality(OpenOnes) = 0
    BY FS_EmptySet DEF LedgerInv
  <2>3. Cardinality(RoutedOnes) \in Nat
    BY Counted DEF RoutedOnes
  <2>4. phase = "ended" => ends.goal + ends.stopped + ends.episode_end = Cardinality(RoutedOnes)
    BY <2>1, <2>2, <2>3
  <2> QED
    BY <2>1, <2>4 DEF RouteLedger, OpenOnes, RoutedOnes
<1> QED
  BY <1>1, LedgerInvHolds, PTL

--------------------------------------------------------------------------------
(* Contacts: what is seen at an instant was seen by the step that led to it, or *)
(* by the look at the start.                                                    *)

ContactInv ==
    /\ gap \in [Pairs -> Gaps] /\ swept \in [Pairs -> Gaps]
    /\ \A p \in Pairs : swept[p] = "touch" => count.contacts > 0
    /\ \A p \in Pairs : gap[p] = "touch" => count.overlap \/ count.contacts > 0
    /\ count.collisions > 0 => count.overlap \/ count.contacts > 0

LEMMA ContactInvHolds == Spec => []ContactInv
<1>1. Init => ContactInv
  <2> SUFFICES ASSUME Init PROVE ContactInv
    OBVIOUS
  <2>1. /\ gap \in [Pairs -> Gaps] /\ swept = [p \in Pairs |-> "far"]
        /\ count.collisions = 0 /\ count.contacts = 0
        /\ count.overlap = \E p \in Pairs : gap[p] = "touch"
    BY DEF Init
  <2> QED
    BY <2>1 DEF ContactInv, Gaps
<1>2. ASSUME LedgerInv, ContactInv, ControlCycle
      PROVE  ContactInv'
  <2>1. PICK call : Answers(call)
    BY <1>2, CycleAnswers
  <2>2. PICK n : count' = [count EXCEPT !.routes = n]
    BY <2>1 DEF Answers
  <2>3. count'.collisions = count.collisions /\ count'.contacts = count.contacts /\ count'.overlap = count.overlap
    BY <2>2 DEF LedgerInv
  <2> QED
    BY <1>2, <2>3 DEF ContactInv, ControlCycle
<1>3. ASSUME ContactInv, NoControl
      PROVE  ContactInv'
  BY <1>3 DEF ContactInv, NoControl
<1>4. ASSUME LedgerInv, ContactInv, Watch
      PROVE  ContactInv'
  <2> DEFINE new == InContact(gap) \ touching
  <2>1. new \in SUBSET Pairs /\ \A p \in new : gap[p] = "touch"
    BY DEF InContact
  <2>2. count' = [count EXCEPT !.collisions = Bump(@, Cardinality(new))] /\ gap' = gap /\ swept' = swept
    BY <1>4 DEF Watch
  <2> HIDE DEF new
  <2>3. Cardinality(new) \in Nat /\ (new = {} <=> Cardinality(new) = 0)
    BY <2>1, CountedPairs
  <2>4. /\ count'.collisions = Bump(count.collisions, Cardinality(new)) /\ count'.contacts = count.contacts
        /\ count'.overlap = count.overlap /\ count.collisions \in Nat
    BY <1>4, <2>2 DEF LedgerInv
  <2>5. count'.collisions > 0 => count.collisions > 0 \/ new # {}
    <3> DEFINE n == count.collisions
               k == Cardinality(new)
               m == count'.collisions
    <3>1. n \in Nat /\ k \in Nat /\ m = Bump(n, k) /\ (new = {} <=> k = 0)
      BY <2>3, <2>4
    <3> HIDE DEF n, k, m
    <3>2. m \in Nat /\ (m = 0 <=> n = 0 /\ k = 0)
      BY <3>1, Bumped
    <3>3. m > 0 => n > 0 \/ new # {}
      BY <3>1, <3>2
    <3> QED
      BY <3>3 DEF n, m
  <2>6. new # {} => count.overlap \/ count.contacts > 0
    BY <1>4, <2>1 DEF ContactInv
  <2> QED
    BY <1>4, <2>2, <2>4, <2>5, <2>6 DEF ContactInv
<1>5. ASSUME LedgerInv, ContactInv, Advance
      PROVE  ContactInv'
  <2>1. PICK to \in [Pairs -> Gaps] : \E during \in [Pairs -> Gaps] :
           LET came == [p \in Pairs |-> Came(gap[p], to[p], during[p])]
           IN  /\ gap' = to /\ swept' = came
               /\ count' = [count EXCEPT
                     !.contacts = Bump(@, Cardinality(InContact(came) \ InContact(swept))),
                     !.buffers = Bump(@, Cardinality(InBuffer(came) \ InBuffer(swept)))]
    BY <1>5 DEF Advance
  <2>2. PICK during \in [Pairs -> Gaps] :
           LET came == [p \in Pairs |-> Came(gap[p], to[p], during[p])]
           IN  /\ gap' = to /\ swept' = came
               /\ count' = [count EXCEPT
                     !.contacts = Bump(@, Cardinality(InContact(came) \ InContact(swept))),
                     !.buffers = Bump(@, Cardinality(InBuffer(came) \ InBuffer(swept)))]
    BY <2>1
  <2> DEFINE came == [p \in Pairs |-> Came(gap[p], to[p], during[p])]
             x == InContact(came) \ InContact(swept)
             y == InBuffer(came) \ InBuffer(swept)
  <2>3. /\ gap' = to /\ swept' = came
        /\ count' = [count EXCEPT !.contacts = Bump(@, Cardinality(x)), !.buffers = Bump(@, Cardinality(y))]
    BY <2>2
  <2>4. \A p \in Pairs : came[p] \in Gaps /\ (to[p] = "touch" => came[p] = "touch")
    <3> TAKE p \in Pairs
    <3>1. gap[p] \in Gaps /\ to[p] \in Gaps /\ during[p] \in Gaps
      BY <1>5 DEF ContactInv
    <3>2. came[p] = Came(gap[p], to[p], during[p])
      OBVIOUS
    <3>3. Rank("far") = 0 /\ Rank("near") = 1 /\ Rank("touch") = 2
      BY DEF Rank
    <3> HIDE DEF came
    <3>4. CASE gap[p] = "touch"
      BY <3>1, <3>2, <3>3, <3>4 DEF Came, Gaps
    <3>5. CASE gap[p] # "touch"
      BY <3>1, <3>2, <3>3, <3>5 DEF Came, Gaps
    <3> QED
      BY <3>4, <3>5
  <2>5. came \in [Pairs -> Gaps]
    BY <2>4
  <2>6. x \in SUBSET Pairs /\ \A p \in Pairs : came[p] = "touch" => p \in x \/ swept[p] = "touch"
    BY DEF InContact
  <2> HIDE DEF came, x, y
  <2>7. Cardinality(x) \in Nat /\ (x = {} <=> Cardinality(x) = 0)
    BY <2>6, CountedPairs
  <2>8. /\ count'.contacts = Bump(count.contacts, Cardinality(x)) /\ count'.collisions = count.collisions
        /\ count'.overlap = count.overlap /\ count.contacts \in Nat
    BY <1>5, <2>3 DEF LedgerInv
  <2>9. count.contacts > 0 \/ x # {} => count'.contacts > 0
    <3>1. /\ Bump(count.contacts, Cardinality(x)) \in Nat
          /\ Bump(count.contacts, Cardinality(x)) = 0 <=> count.contacts = 0 /\ Cardinality(x) = 0
      BY <2>7, <2>8, Bumped
    <3> QED
      BY <2>7, <2>8, <3>1
  <2>10. \A p \in Pairs : swept'[p] = "touch" => count'.contacts > 0
    BY <1>5, <2>3, <2>6, <2>9 DEF ContactInv
  <2>11. \A p \in Pairs : gap'[p] = "touch" => count'.contacts > 0
    BY <2>3, <2>4, <2>10
  <2> QED
    BY <1>5, <2>3, <2>5, <2>8, <2>9, <2>10, <2>11 DEF ContactInv
<1>6. ASSUME ContactInv, Close
      PROVE  ContactInv'
  BY <1>6 DEF ContactInv, Close
<1>7. ASSUME ContactInv, UNCHANGED vars
      PROVE  ContactInv'
  BY <1>7 DEF ContactInv, vars
<1> QED
  BY <1>1, <1>2, <1>3, <1>4, <1>5, <1>6, <1>7, LedgerInvHolds, PTL DEF Spec, Next

--------------------------------------------------------------------------------
(* The end of the loop and the result. *)

EndInv ==
    /\ phase = "closing" =>
          end_reason # NoReason \/ now >= MAX_TIME \/ \A r \in Robots : PathDone(robot[r])
    /\ StatusTellsFate

LEMMA CycleKeepsEnd ==
    ASSUME LoopInv, EndInv, ControlCycle
    PROVE  EndInv'
<1>1. PICK call : Answers(call)
  BY CycleAnswers
<1>2. phase = "control" /\ phase' = IF end_reason' # NoReason THEN "closing" ELSE "watch"
  BY DEF ControlCycle
<1>3. ASSUME NEW r \in Robots, robot[r].stop # NoReason
      PROVE  robot'[r].stop = robot[r].stop
  <2>1. RobotFits(robot[r])
    BY <1>2 DEF LoopInv
  <2>2. r \notin Asked
    BY <1>3, <2>1 DEF RobotFits, Asked, Consulted
  <2> QED
    BY <1>1, <2>2 DEF Answers
<1>4. ASSUME end_reason' # NoReason
      PROVE  \E r \in Robots : robot'[r].stop = end_reason'
  <2>1. CASE \E r \in Asked : StopReason(robot[r], call[r]) = "no_valid_path"
    <3>1. PICK r \in Asked : StopReason(robot[r], call[r]) = "no_valid_path"
      BY <2>1
    <3>2. /\ r \in Robots /\ robot[r] \in RobotSet /\ now \in Nat
          /\ call[r] \in Calls(robot[r]) /\ robot'[r] = AfterCall(robot[r], call[r])
      BY <1>1 DEF LoopInv, Answers, Asked
    <3>3. robot'[r].stop = "no_valid_path"
      BY <3>1, <3>2, CallFacts DEF NoReason
    <3>4. end_reason' = "no_valid_path"
      BY <1>1, <2>1 DEF Answers
    <3> QED
      BY <3>2, <3>3, <3>4
  <2>2. CASE ~\E r \in Asked : StopReason(robot[r], call[r]) = "no_valid_path"
    <3>1. end_reason' = end_reason
      BY <1>1, <2>2 DEF Answers
    <3> QED
      BY <1>3, <1>4, <3>1 DEF EndInv, StatusTellsFate
  <2> QED
    BY <2>1, <2>2
<1> QED
  BY <1>2, <1>4 DEF EndInv, StatusTellsFate

LEMMA CloseKeepsEnd ==
    ASSUME LoopInv, LedgerInv, ContactInv, EndInv, Close, LedgerInv'
    PROVE  EndInv'
<1> DEFINE F == {r \in Robots : robot'[r].failed}
           completed == F = {} /\ \A r \in Robots : PathDone(robot'[r])
<1>1. /\ phase = "closing" /\ phase' = "ended" /\ robot' = [r \in Robots |-> GiveUp(robot[r])]
      /\ now' = now /\ end_reason' = end_reason /\ count' = count
      /\ result' = RunResult(robot', ends')
  BY DEF Close
<1>2. ASSUME NEW r \in Robots
      PROVE  /\ robot[r] \in RobotSet
             /\ robot'[r].stop = robot[r].stop /\ robot'[r].routed = robot[r].routed
             /\ robot'[r].arrived = robot[r].arrived /\ ~robot'[r].awaiting
             /\ robot'[r].failed <=> robot[r].stop # NoReason \/ robot[r].awaiting
             /\ robot[r].awaiting => ~robot[r].routed
             /\ robot[r].stop = NoReason /\ ~robot[r].awaiting => robot[r].routed
             /\ robot[r].failed <=> robot[r].stop # NoReason
             /\ robot[r].awaiting => robot[r].stop = NoReason
  <2>1. robot[r] \in RobotSet /\ RobotFits(robot[r]) /\ ~first_cycle
    BY <1>1 DEF LoopInv
  <2>2. robot'[r] = [robot[r] EXCEPT !.open = FALSE, !.failed = @ \/ robot[r].awaiting, !.awaiting = FALSE]
    BY <1>1 DEF GiveUp
  <2>3. /\ robot'[r].stop = robot[r].stop /\ robot'[r].routed = robot[r].routed
        /\ robot'[r].arrived = robot[r].arrived /\ ~robot'[r].awaiting
        /\ robot'[r].failed <=> robot[r].failed \/ robot[r].awaiting
    BY <2>1, <2>2 DEF RobotSet
  <2> QED
    BY <2>1, <2>3 DEF RobotFits
<1>3. \A r \in Robots : /\ PathDone(robot[r]) => PathDone(robot'[r])
                        /\ PathDone(robot'[r]) /\ ~robot'[r].failed => robot'[r].arrived
  BY <1>2 DEF PathDone
<1>4. /\ result'.status = (IF completed THEN "completed" ELSE IF F # {} THEN "planning_failed" ELSE "timed_out")
      /\ result'.outcome = classify_outcome(completed)
      /\ result'.failed_plans = Cardinality(F)
      /\ result'.time_to_goal = IF completed THEN now ELSE None
      /\ result'.stopped_no_path = StoppedFor(robot', "no_valid_path")
      /\ result'.stopped_time_limit = StoppedFor(robot', "time_limit")
      /\ result'.route_count = ends'.replaced + ends'.goal + ends'.stopped + ends'.episode_end
  BY <1>1 DEF RunResult
<1> HIDE DEF F, completed
<1>5. result'.status = "completed" => \A r \in Robots : robot'[r].arrived /\ robot'[r].stop = NoReason
  <2>1. result'.status = "completed" => completed
    BY <1>4
  <2>2. completed => \A r \in Robots : ~robot'[r].failed /\ PathDone(robot'[r])
    BY DEF completed, F
  <2> QED
    BY <1>2, <1>3, <2>1, <2>2
<1>6. result'.status = "timed_out" => now' >= MAX_TIME /\ \A r \in Robots : robot'[r].routed
  <2> SUFFICES ASSUME result'.status = "timed_out"
               PROVE  now >= MAX_TIME /\ \A r \in Robots : robot'[r].routed
    BY <1>1
  <2>1. ~completed /\ F = {}
    BY <1>4
  <2>2. \A r \in Robots : ~robot'[r].failed
    BY <2>1 DEF F
  <2>3. end_reason = NoReason
    BY <1>2, <2>2 DEF EndInv, StatusTellsFate
  <2>4. ~\A r \in Robots : PathDone(robot[r])
    BY <1>3, <2>1 DEF completed
  <2> QED
    BY <1>1, <1>2, <2>2, <2>3, <2>4 DEF EndInv
<1>7. result'.status = "planning_failed" => \E r \in Robots : robot'[r].stop # NoReason \/ ~robot'[r].routed
  <2>1. result'.status = "planning_failed" => F # {}
    BY <1>4
  <2> QED
    BY <1>2, <2>1 DEF F
<1>8. result'.failed_plans = result'.stopped_no_path + result'.stopped_time_limit
                             + Cardinality({r \in Robots : robot'[r].stop = NoReason /\ ~robot'[r].routed})
  <2> DEFINE P == {r \in Robots : robot'[r].stop = "no_valid_path"}
             T == {r \in Robots : robot'[r].stop = "time_limit"}
             U == {r \in Robots : robot'[r].stop = NoReason /\ ~robot'[r].routed}
  <2>1. \A r \in Robots : robot'[r].stop \in Reasons
    BY <1>2 DEF RobotSet
  <2>2. F = (P \cup T) \cup U
    BY <1>2, <2>1 DEF F, Reasons, NoReason
  <2>3. P \cap T = {} /\ (P \cup T) \cap U = {}
    BY DEF NoReason
  <2>4. P \in SUBSET Robots /\ T \in SUBSET Robots /\ U \in SUBSET Robots /\ (P \cup T) \in SUBSET Robots
    OBVIOUS
  <2>5. result'.stopped_no_path = Cardinality(P) /\ result'.stopped_time_limit = Cardinality(T)
    BY <1>4 DEF StoppedFor
  <2> HIDE DEF P, T
  <2>6. Cardinality(P \cup T) = Cardinality(P) + Cardinality(T)
    BY <2>3, <2>4, CountedTogether
  <2>7. Cardinality((P \cup T) \cup U) = Cardinality(P \cup T) + Cardinality(U)
    BY <2>3, <2>4, CountedTogether
  <2> QED
    BY <1>4, <2>2, <2>5, <2>6, <2>7
<1>9. (result'.status = "completed") = (result'.time_to_goal # None)
  <2>1. now \in Nat /\ now # None
    BY EpisodeAssumption DEF LoopInv
  <2>2. CASE completed
    BY <1>4, <2>1, <2>2
  <2>3. CASE ~completed
    BY <1>4, <2>3
  <2> QED
    BY <2>2, <2>3
<1>10. result'.outcome \in {"S", "B"} => count'.collisions = 0
  <2>1. result'.outcome \in {"S", "B"} => ~count.overlap /\ ~(count.contacts > 0)
    <3>1. result'.outcome = CASE count.overlap -> "X"
                  [] ~count.overlap /\ ~completed -> "I"
                  [] ~count.overlap /\ completed /\ count.contacts > 0 -> "P"
                  [] ~count.overlap /\ completed /\ count.contacts = 0 /\ count.buffers > 0 -> "B"
                  [] OTHER -> "S"
      BY <1>4 DEF classify_outcome
    <3>2. count.overlap \in BOOLEAN
      BY DEF LedgerInv
    <3>3. CASE count.overlap
      BY <3>1, <3>3
    <3>4. CASE ~count.overlap /\ ~completed
      BY <3>1, <3>4
    <3>5. CASE ~count.overlap /\ completed /\ count.contacts > 0
      <4>1. result'.outcome = "P"
        BY <3>1, <3>5, count.contacts \in Nat DEF LedgerInv
      <4> QED
        BY <4>1
    <3> QED
      BY <3>2, <3>3, <3>4, <3>5
  <2>2. count.collisions \in Nat /\ (count.collisions > 0 => count.overlap \/ count.contacts > 0)
    BY DEF LedgerInv, ContactInv
  <2> QED
    BY <1>1, <2>1, <2>2
<1>11. result'.route_count >= Cardinality({r \in Robots : robot'[r].routed})
  <2>1. /\ count'.routes \in Nat /\ ends'.replaced \in Nat /\ ends'.goal \in Nat /\ ends'.stopped \in Nat
        /\ ends'.episode_end \in Nat
        /\ count'.routes = ends'.replaced + ends'.goal + ends'.stopped + ends'.episode_end + Cardinality(OpenOnes')
        /\ count'.routes = ends'.replaced + Cardinality(RoutedOnes')
        /\ OpenOnes' = {}
    BY <1>1 DEF LedgerInv
  <2>2. Cardinality(OpenOnes') = 0 /\ Cardinality(RoutedOnes') \in Nat
    BY <2>1, FS_EmptySet, Counted DEF RoutedOnes
  <2>3. result'.route_count >= Cardinality(RoutedOnes')
    BY <1>4, <2>1, <2>2
  <2> QED
    BY <2>3 DEF RoutedOnes
<1>12. (now' < MAX_TIME /\ end_reason' = NoReason) => \A r \in Robots : PathDone(robot'[r])
  <2>1. now \in Nat /\ MAX_TIME \in Nat
    BY EpisodeAssumption DEF LoopInv
  <2> QED
    BY <1>1, <1>3, <2>1 DEF EndInv
<1>13. end_reason' # NoReason => \E r \in Robots : robot'[r].stop = end_reason'
  BY <1>1, <1>2 DEF EndInv, StatusTellsFate
<1> QED
  BY <1>1, <1>5, <1>6, <1>7, <1>8, <1>9, <1>10, <1>11, <1>12, <1>13 DEF EndInv, StatusTellsFate

LEMMA EndInvHolds == Spec => []EndInv
<1>1. Init => EndInv
  BY DEF Init, EndInv, StatusTellsFate
<1>2. ASSUME EndInv, NoControl
      PROVE  EndInv'
  BY <1>2 DEF EndInv, StatusTellsFate, NoControl
<1>3. ASSUME EndInv, Watch
      PROVE  EndInv'
  BY <1>3 DEF EndInv, StatusTellsFate, Watch
<1>4. ASSUME LoopInv, EndInv, Advance
      PROVE  EndInv'
  <2>1. PICK here \in SUBSET {r \in Robots : Moves(robot[r])} :
            robot' = [r \in Robots |-> CloseAtGoal(IF r \in here THEN Arrive(robot[r]) ELSE robot[r])]
    BY <1>4 DEF Advance
  <2>2. \A r \in Robots : robot'[r].stop = robot[r].stop
    BY <1>4, <2>1 DEF Arrive, CloseAtGoal, LoopInv, RobotSet
  <2> QED
    BY <1>4, <2>2 DEF EndInv, StatusTellsFate, Advance
<1>5. ASSUME EndInv, UNCHANGED vars
      PROVE  EndInv'
  BY <1>5 DEF EndInv, StatusTellsFate, vars
<1>6. LoopInv /\ LedgerInv /\ LedgerInv' /\ ContactInv /\ EndInv /\ [Next]_vars => EndInv'
  BY <1>2, <1>3, <1>4, <1>5, CycleKeepsEnd, CloseKeepsEnd DEF Next
<1> QED
  BY <1>1, <1>6, LoopInvHolds, LedgerInvHolds, ContactInvHolds, PTL DEF Spec

\* The verdict, the reason the episode ended for, the counts of the result and
\* what became of every robot agree, and a success without contact has no
\* contact at any instant (simulate, classify_outcome, HeadlessRunResult).
THEOREM ResultIsTrue == Spec => []StatusTellsFate
<1>1. EndInv => StatusTellsFate
  BY DEF EndInv
<1> QED
  BY <1>1, EndInvHolds, PTL

--------------------------------------------------------------------------------
(* The limit without a route. While somebody is asked again, every control      *)
(* cycle comes exactly one period after the last, since steps are cut there; a  *)
(* streak begins at a control cycle and at most one period after the last valid *)
(* answer.                                                                      *)

InForce == policy # "once" \/ \E r \in Robots : robot[r].awaiting
Watched(r) == limit > 0 /\ ~PathDone(r) /\ (policy # "once" \/ r.awaiting)
Grid(t) == \E k \in Nat : t = PERIOD * k

\* Of a robot that is asked again, when the last control cycle was at last.
StreakFits(r, last) ==
    /\ r.streak = None => r.good >= last
    /\ r.streak # None => /\ Grid(r.streak) /\ r.good + PERIOD >= r.streak
                          /\ last - r.streak < limit

ClockInv ==
    /\ Grid(next_control)
    /\ ~first_cycle /\ InForce /\ Running =>
          /\ next_control - PERIOD <= now /\ now <= next_control
          /\ phase \in {"watch", "advance"} => now < next_control
    /\ ~first_cycle /\ Running =>
          \A r \in Robots : Watched(robot[r]) => StreakFits(robot[r], next_control - PERIOD)

LEMMA GridGoesOn ==
    ASSUME NEW t, Grid(t)
    PROVE  t \in Nat /\ Grid(t + PERIOD)
<1>1. PICK k \in Nat : t = PERIOD * k
  BY DEF Grid
<1>2. PERIOD \in Nat
  BY EpisodeAssumption
<1>3. t \in Nat /\ t + PERIOD = PERIOD * (k + 1)
  BY <1>1, <1>2
<1> QED
  BY <1>3 DEF Grid

\* One period is over before a control cycle, and only one.
LEMMA CycleIsOnTime ==
    ASSUME LoopInv, ClockInv, ControlCycle
    PROVE  /\ now = next_control /\ next_control' = now + PERIOD
           /\ ~first_cycle => InForce
<1>1. phase = "control" /\ ControlDue /\ next_control' = NextControl
  BY DEF ControlCycle
<1>2. now \in Nat /\ next_control \in Nat
  BY DEF LoopInv
<1>3. now = next_control
  <2>1. CASE first_cycle
    BY <2>1 DEF LoopInv
  <2>2. CASE ~first_cycle
    <3>1. InForce /\ now >= next_control
      BY <1>1, <2>2 DEF ControlDue, InForce
    <3>2. now <= next_control
      BY <1>1, <2>2, <3>1 DEF ClockInv, Running
    <3> QED
      BY <1>2, <3>1, <3>2
  <2> QED
    BY <2>1, <2>2
<1>4. ~first_cycle => InForce
  BY <1>1 DEF ControlDue, InForce
<1> QED
  BY <1>1, <1>2, <1>3, <1>4, NextControlIsLater

LEMMA CallKeepsStreak ==
    ASSUME LoopInv, ClockInv, ControlCycle, NEW r \in Robots, Watched(robot[r])'
    PROVE  StreakFits(robot'[r], now)
<1>1. PICK call : Answers(call)
  BY CycleAnswers
<1>2. phase = "control" /\ now \in Nat /\ Running /\ policy' = policy /\ limit' = limit
  BY DEF ControlCycle, LoopInv, Running
<1>3. robot[r] \in RobotSet /\ RobotFits(robot[r]) /\ PERIOD \in Nat \ {0}
  BY <1>2, EpisodeAssumption DEF LoopInv
<1>4. now = next_control /\ Grid(now)
  BY CycleIsOnTime DEF ClockInv
<1>5. limit > 0 /\ limit \in Nat
  <2>1. [policy |-> policy, limit |-> limit].limit \in Nat
    BY EpisodeAssumption DEF LoopInv
  <2> QED
    BY <1>2, <2>1 DEF Watched
<1>6. ~robot'[r].failed /\ (robot'[r].arrived => robot'[r].awaiting) /\ (policy # "once" \/ robot'[r].awaiting)
  <2>1. robot'[r] \in RobotSet
    <3>1. LoopInv'
      <4>1. Next
        BY DEF Next
      <4> QED
        BY <4>1, LoopInvStep
    <3> QED
      BY <3>1 DEF LoopInv
  <2>2. RobotFits(robot[r])'
    <3>1. LoopInv' /\ phase' # "ended"
      <4>1. Next
        BY DEF Next
      <4> QED
        BY <4>1, LoopInvStep DEF ControlCycle
    <3> QED
      BY <3>1 DEF LoopInv
  <2>3. robot'[r].awaiting => ~robot'[r].failed
    BY <2>2 DEF RobotFits
  <2>4. ~PathDone(robot'[r]) /\ (policy # "once" \/ robot'[r].awaiting)
    BY <1>2 DEF Watched, PathDone
  <2> QED
    BY <2>3, <2>4 DEF PathDone
<1>7. r \in Asked
  <2> SUFFICES ASSUME r \notin Asked PROVE FALSE
    OBVIOUS
  <2>1. robot'[r] = robot[r]
    BY <1>1 DEF Answers
  <2>2. ~robot[r].failed /\ ~First(robot[r])
    BY <1>2, <1>6, <2>1, Unasked
  <2>3. ~robot[r].awaiting /\ policy # "once" /\ ~PathDone(robot[r])
    BY <1>6, <2>1, <2>2 DEF First, PathDone
  <2> QED
    BY <2>2, <2>3 DEF Asked, Consulted
<1> DEFINE c == call[r]
           after == AfterCall(robot[r], c)
           reason == StopReason(robot[r], c)
<1>8. /\ c \in Calls(robot[r]) /\ robot'[r] = after
      /\ after.failed = (robot[r].failed \/ reason # NoReason)
      /\ after.awaiting = (reason = NoReason /\ Answered(robot[r], c).awaiting)
      /\ after.arrived = Answered(robot[r], c).arrived
      /\ after.streak = Streak(robot[r], c)
      /\ ~after.arrived /\ reason # "time_limit" =>
            after.good = IF c.kind = "failed" THEN robot[r].good ELSE now
  BY <1>1, <1>2, <1>3, <1>7, CallFacts DEF Answers
<1>9. reason = NoReason /\ ~robot[r].failed
  BY <1>6, <1>8, <1>3 DEF RobotSet
<1>10. ~after.arrived
  <2>1. ASSUME after.awaiting
        PROVE  ~after.arrived
    <3>1. LoopInv' /\ phase' # "ended"
      <4>1. Next
        BY DEF Next
      <4> QED
        BY <4>1, LoopInvStep DEF ControlCycle
    <3>2. RobotFits(robot[r])'
      BY <3>1 DEF LoopInv
    <3> QED
      BY <1>8, <2>1, <3>2 DEF RobotFits
  <2> QED
    BY <1>6, <1>8, <2>1
<1> HIDE DEF after, reason, c
<1>11. after.good = IF c.kind = "failed" THEN robot[r].good ELSE now
  BY <1>8, <1>9, <1>10 DEF NoReason
<1>12. CASE c.kind # "failed"
  <2>1. after.streak = None /\ after.good = now
    BY <1>8, <1>11, <1>12 DEF Streak
  <2> QED
    BY <1>2, <1>8, <2>1 DEF StreakFits
<1>13. CASE c.kind = "failed"
  <2>1. /\ after.good = robot[r].good /\ robot[r].good \in Nat
        /\ after.streak = IF robot[r].streak = None THEN now ELSE robot[r].streak
        /\ after.streak # None /\ after.streak \in Nat
    BY <1>2, <1>3, <1>8, <1>11, <1>13, EpisodeAssumption DEF Streak, RobotSet
  <2>2. now - after.streak < limit
    <3>1. ~TooLong(robot[r], c)
      BY <1>9 DEF reason, StopReason, NoReason
    <3>2. ~(now - Streak(robot[r], c) >= limit)
      BY <1>5, <1>8, <2>1, <3>1 DEF TooLong
    <3> QED
      BY <1>2, <1>5, <1>8, <2>1, <3>2
  <2>3. CASE first_cycle
    <3>1. robot[r].streak = None /\ now = 0
      BY <1>3, <2>3 DEF RobotFits, NewRobot, LoopInv
    <3> QED
      BY <1>3, <1>4, <1>8, <2>1, <2>2, <3>1 DEF StreakFits
  <2>4. CASE ~first_cycle
    <3>1. Watched(robot[r])
      <4>1. CASE First(robot[r])
        <5>1. robot[r].awaiting
          BY <2>4, <4>1 DEF First
        <5> QED
          BY <1>5, <5>1 DEF Watched, PathDone
      <4>2. CASE ~First(robot[r])
        BY <1>5, <1>7, <4>2 DEF Watched, Asked, Consulted
      <4> QED
        BY <4>1, <4>2
    <3>2. StreakFits(robot[r], next_control - PERIOD)
      BY <1>2, <2>4, <3>1 DEF ClockInv
    <3>3. CASE robot[r].streak = None
      <4>1. robot[r].good >= now - PERIOD /\ after.streak = now
        BY <1>4, <2>1, <3>2, <3>3 DEF StreakFits
      <4>2. after.good + PERIOD >= after.streak
        BY <1>2, <1>3, <2>1, <4>1
      <4> QED
        BY <1>4, <1>8, <2>1, <2>2, <4>1, <4>2 DEF StreakFits
    <3>4. CASE robot[r].streak # None
      BY <1>8, <2>1, <2>2, <3>2, <3>4 DEF StreakFits
    <3> QED
      BY <3>3, <3>4
  <2> QED
    BY <2>3, <2>4
<1> QED
  BY <1>12, <1>13

LEMMA CycleKeepsClock ==
    ASSUME LoopInv, ClockInv, ControlCycle
    PROVE  ClockInv'
<1>1. /\ now = next_control /\ next_control' = now + PERIOD /\ now' = now
      /\ first_cycle' = FALSE /\ limit' = limit /\ now \in Nat /\ PERIOD \in Nat \ {0}
  BY CycleIsOnTime, EpisodeAssumption DEF ControlCycle, LoopInv
<1>2. Grid(next_control')
  BY <1>1, GridGoesOn DEF ClockInv
<1>3. next_control' - PERIOD = now /\ now < next_control' /\ now <= next_control'
  BY <1>1
<1>4. \A r \in Robots : Watched(robot[r])' => StreakFits(robot'[r], now)
  BY CallKeepsStreak
<1>5. \A r \in Robots : Watched(robot[r])' => StreakFits(robot[r], next_control - PERIOD)'
  BY <1>1, <1>3, <1>4 DEF StreakFits
<1> QED
  BY <1>1, <1>2, <1>3, <1>5 DEF ClockInv

LEMMA AdvanceKeepsClock ==
    ASSUME LoopInv, ClockInv, Advance
    PROVE  ClockInv'
<1>1. PICK here \in SUBSET {r \in Robots : Moves(robot[r])} :
          robot' = [r \in Robots |-> CloseAtGoal(IF r \in here THEN Arrive(robot[r]) ELSE robot[r])]
  BY DEF Advance
<1>2. /\ policy' = policy /\ limit' = limit /\ next_control' = next_control /\ now' = now + Step
      /\ first_cycle' = first_cycle /\ phase = "advance" /\ phase' = "control"
      /\ now \in Nat /\ next_control \in Nat /\ PERIOD \in Nat
  BY EpisodeAssumption DEF Advance, LoopInv
<1>3. ASSUME NEW r \in Robots
      PROVE  /\ robot'[r].awaiting = robot[r].awaiting
             /\ ~PathDone(robot'[r]) => /\ ~PathDone(robot[r])
                                        /\ robot'[r].streak = robot[r].streak
                                        /\ robot'[r].good = robot[r].good
  <2> DEFINE m == IF r \in here THEN Arrive(robot[r]) ELSE robot[r]
  <2>1. robot[r] \in RobotSet /\ robot'[r] = CloseAtGoal(m)
    BY <1>1 DEF LoopInv
  <2>2. /\ m \in RobotSet /\ m.awaiting = robot[r].awaiting /\ m.failed = robot[r].failed
        /\ r \in here => m.arrived
        /\ r \notin here => m = robot[r]
    BY <2>1 DEF Arrive, RobotSet
  <2>3. r \in here => ~robot[r].awaiting
    BY DEF Moves
  <2> HIDE DEF m
  <2>4. /\ robot'[r].awaiting = m.awaiting /\ robot'[r].failed = m.failed /\ robot'[r].arrived = m.arrived
        /\ robot'[r].streak = m.streak /\ robot'[r].good = m.good
    BY <2>1, <2>2 DEF CloseAtGoal, RobotSet
  <2> QED
    BY <2>2, <2>3, <2>4 DEF PathDone
<1>4. Step \in Nat /\ (InForce /\ next_control > now => Step <= next_control - now)
  BY <1>2, StepIsForward DEF LoopInv, InForce
<1>5. InForce' => InForce
  BY <1>2, <1>3 DEF InForce
<1>6. \A r \in Robots : Watched(robot[r])' => Watched(robot[r])
  BY <1>2, <1>3 DEF Watched, PathDone
<1>7. \A r \in Robots : Watched(robot[r])' /\ StreakFits(robot[r], next_control - PERIOD)
                           => StreakFits(robot[r], next_control - PERIOD)'
  BY <1>2, <1>3 DEF StreakFits, Watched, PathDone
<1>8. ~first_cycle /\ InForce => next_control - PERIOD <= now /\ now < next_control
  BY <1>2 DEF ClockInv, Running
<1>9. ~first_cycle' /\ InForce' => next_control' - PERIOD <= now' /\ now' <= next_control'
  <2>1. ~first_cycle' /\ InForce' => /\ next_control - PERIOD <= now /\ now < next_control
                                     /\ Step <= next_control - now
    BY <1>2, <1>4, <1>5, <1>8
  <2> QED
    BY <1>2, <1>4, <2>1
<1>10. ~first_cycle => \A r \in Robots : Watched(robot[r]) => StreakFits(robot[r], next_control - PERIOD)
  BY <1>2 DEF ClockInv, Running
<1>11. ~first_cycle' => \A r \in Robots : Watched(robot[r])' => StreakFits(robot[r], next_control - PERIOD)'
  BY <1>2, <1>6, <1>7, <1>10
<1> QED
  BY <1>2, <1>9, <1>11 DEF ClockInv, Grid

LEMMA ClockInvHolds == Spec => []ClockInv
<1>1. Init => ClockInv
  <2>1. PERIOD * 0 = 0
    BY EpisodeAssumption
  <2> QED
    BY <2>1 DEF Init, ClockInv, Grid
<1>2. ASSUME LoopInv, ClockInv, NoControl
      PROVE  ClockInv'
  <2>1. /\ phase = "control" /\ ~ControlDue /\ phase' = "watch"
        /\ UNCHANGED <<policy, limit, now, next_control, first_cycle, robot>>
    BY <1>2 DEF NoControl
  <2>2. ~first_cycle /\ now \in Nat /\ next_control \in Nat
    BY <1>2, <2>1 DEF ControlDue, LoopInv
  <2>3. InForce => now < next_control
    BY <2>1, <2>2 DEF ControlDue, InForce
  <2> QED
    BY <1>2, <2>1, <2>2, <2>3 DEF ClockInv, InForce, Running, Watched, StreakFits, PathDone, Grid
<1>3. ASSUME ClockInv, Watch
      PROVE  ClockInv'
  BY <1>3 DEF ClockInv, InForce, Running, Watched, StreakFits, PathDone, Grid, Watch
<1>4. ASSUME ClockInv, Close
      PROVE  ClockInv'
  BY <1>4 DEF ClockInv, Close, Grid, Running
<1>5. ASSUME ClockInv, UNCHANGED vars
      PROVE  ClockInv'
  BY <1>5 DEF ClockInv, InForce, Running, Watched, StreakFits, PathDone, Grid, vars
<1>6. LoopInv /\ ClockInv /\ [Next]_vars => ClockInv'
  BY <1>2, <1>3, <1>4, <1>5, CycleKeepsClock, AdvanceKeepsClock DEF Next
<1> QED
  BY <1>1, <1>6, LoopInvHolds, PTL DEF Spec

\* The periods that cover a time, rounded up.
LEMMA WholePeriods ==
    ASSUME NEW n \in Nat, NEW p \in Nat \ {0}
    PROVE  (n + p - 1) \div p \in Int /\ n <= p * ((n + p - 1) \div p)
<1>1. n + p - 1 \in Nat
  OBVIOUS
<1> DEFINE q == (n + p - 1) \div p
<1>2. q \in Int /\ n + p - 1 < p * q + p
  BY <1>1, Division
<1>3. p * q \in Int
  BY <1>2
<1> HIDE DEF q
<1>4. n <= p * q
  BY <1>2, <1>3
<1> QED
  BY <1>2, <1>4 DEF q

\* Multiples of the period that are less than the limit apart are at most
\* as far apart as the whole periods before it.
LEMMA PeriodsBeforeLimit ==
    ASSUME NEW a, NEW b, Grid(a), Grid(b), limit \in Nat, a - b < limit
    PROVE  a - b <= PERIOD * ((limit + PERIOD - 1) \div PERIOD) - PERIOD
<1>1. PICK i \in Nat : a = PERIOD * i
  BY DEF Grid
<1>2. PICK j \in Nat : b = PERIOD * j
  BY DEF Grid
<1> DEFINE q == (limit + PERIOD - 1) \div PERIOD
<1>3. PERIOD \in Nat \ {0} /\ q \in Int /\ limit <= PERIOD * q
  BY EpisodeAssumption, WholePeriods
<1> HIDE DEF q
<1>4. a - b = PERIOD * (i - j)
  BY <1>1, <1>2, <1>3
<1>5. i - j < q
  <2> SUFFICES ASSUME q <= i - j PROVE FALSE
    BY <1>3
  <2>1. PERIOD * q <= PERIOD * (i - j)
    BY <1>3
  <2>2. PERIOD * q \in Int /\ PERIOD * (i - j) \in Int
    BY <1>3
  <2> QED
    BY <1>3, <1>4, <2>1, <2>2
<1>6. PERIOD * (i - j) <= PERIOD * (q - 1)
  BY <1>3, <1>5
<1>7. PERIOD * (q - 1) = PERIOD * q - PERIOD
  BY <1>3
<1> QED
  BY <1>4, <1>6, <1>7 DEF q

\* No robot that still has somewhere to go is without a valid answer past the
\* first check at which the limit is over, whatever the step, the period, the
\* limit and the length of the episode (no_route_limit_ms).
THEOREM LimitIsHeld == Spec => []NoRouteLimitHolds
<1>1. LoopInv /\ ClockInv => NoRouteLimitHolds
  <2> SUFFICES ASSUME LoopInv, ClockInv, NEW r \in Robots,
                      phase \in {"watch", "advance"}, limit > 0, ~PathDone(robot[r]),
                      policy # "once" \/ robot[r].awaiting
               PROVE  now - robot[r].good < Overdue
    BY DEF NoRouteLimitHolds
  <2> DEFINE last == next_control - PERIOD
             g == robot[r].good
             q == (limit + PERIOD - 1) \div PERIOD
  <2>1. /\ ~first_cycle /\ Running /\ InForce /\ Watched(robot[r])
        /\ now \in Nat /\ next_control \in Nat /\ PERIOD \in Nat \ {0} /\ g \in Nat
    BY EpisodeAssumption DEF LoopInv, Running, InForce, Watched, RobotSet
  <2>2. limit \in Nat
    <3>1. [policy |-> policy, limit |-> limit].limit \in Nat
      BY EpisodeAssumption DEF LoopInv
    <3> QED
      BY <3>1
  <2>3. now < next_control /\ StreakFits(robot[r], last)
    BY <2>1 DEF ClockInv
  <2>4. Overdue = PERIOD * (1 + q) /\ q \in Int
    BY <2>1, <2>2 DEF Overdue
  <2>5. PERIOD * (1 + q) = PERIOD + PERIOD * q /\ PERIOD * q \in Int
    BY <2>1, <2>4
  <2>6. limit <= PERIOD * q
    BY <2>1, <2>2, WholePeriods
  <2>7. CASE robot[r].streak = None
    <3>1. g >= last
      BY <2>3, <2>7 DEF StreakFits
    <3> HIDE DEF g, q
    <3> QED
      BY <2>1, <2>2, <2>3, <2>4, <2>5, <2>6, <3>1 DEF g
  <2>8. CASE robot[r].streak # None
    <3> DEFINE b == robot[r].streak
    <3>1. Grid(b) /\ g + PERIOD >= b /\ last - b < limit
      BY <2>3, <2>8 DEF StreakFits
    <3>2. Grid(next_control) /\ b \in Nat
      BY <3>1, GridGoesOn DEF ClockInv
    <3>3. last - b <= PERIOD * q - PERIOD
      <4>1. Grid(last)
        <5>1. PICK k \in Nat : next_control = PERIOD * k
          BY <3>2 DEF Grid
        <5>2. k # 0
          BY <2>1, <2>3, <5>1
        <5>3. last = PERIOD * (k - 1) /\ k - 1 \in Nat
          BY <2>1, <5>1, <5>2
        <5> QED
          BY <5>3 DEF Grid
      <4> QED
        BY <2>2, <3>1, <4>1, PeriodsBeforeLimit
    <3> HIDE DEF g, q, b
    <3> QED
      BY <2>1, <2>3, <2>4, <2>5, <3>1, <3>2, <3>3 DEF g
  <2> QED
    BY <2>7, <2>8
<1> QED
  BY <1>1, LoopInvHolds, ClockInvHolds, PTL

--------------------------------------------------------------------------------
(* Moving obstacles. *)

\* The remainders of two numbers `step' apart: as far apart, or a turn more.
LEMMA Remainders ==
    ASSUME NEW a \in Int, NEW step \in Nat, NEW n \in Int, n > 0
    PROVE  \/ (a + step) % n = (a % n) + step
           \/ step >= (n + ((a + step) % n)) - (a % n)
  <1> DEFINE j == a \div n
             k == (a + step) \div n
             r == a % n
             s == (a + step) % n
  <1>1. /\ j \in Int /\ r \in Int /\ 0 <= r /\ r < n /\ a = n * j + r
    BY Division
  <1>2. /\ k \in Int /\ s \in Int /\ 0 <= s /\ s < n /\ a + step = n * k + s
    <2>1. a + step \in Int
      OBVIOUS
    <2>. QED  BY <2>1, Division
  <1> HIDE DEF j, k, r, s
  <1>3. CASE j = k
    <2>1. s = r + step
      BY <1>1, <1>2, <1>3
    <2>. QED  BY <2>1 DEF r, s
  <1>4. CASE j < k
    <2>1. n * j \in Int /\ n * k \in Int /\ n * k >= n * j + n
      BY <1>1, <1>2, <1>4, Multiple
    <2>2. step >= n + s - r
      BY <1>1, <1>2, <2>1
    <2>. QED  BY <2>2 DEF r, s
  <1>5. CASE k < j
    <2>1. n * j \in Int /\ n * k \in Int /\ n * j >= n * k + n
      BY <1>1, <1>2, <1>5, Multiple
    <2>2. FALSE
      BY <1>1, <1>2, <2>1
    <2>. QED  BY <2>2
  <1>. QED  BY <1>1, <1>2, <1>3, <1>4, <1>5

\* A reflected coordinate stays between the borders (_reflect).
THEOREM ReflectStaysInside ==
    ASSUME NEW value \in Int, NEW low \in Int, NEW high \in Int, low < high
    PROVE  /\ Reflect(value, low, high).at \in low .. high
           /\ Reflect(value, low, high).dir \in {-1, 1}
  <1> DEFINE n == 2 * (high - low)
             r == (value - low) % n
  <1>1. value - low \in Int /\ n \in Int /\ n > 0 /\ high - low > 0
    OBVIOUS
  <1>2. r \in Int /\ 0 <= r /\ r < n
    BY <1>1, Division
  <1>3. Reflect(value, low, high) = IF r <= high - low THEN [at |-> low + r, dir |-> 1]
                                    ELSE [at |-> low + n - r, dir |-> -1]
    BY <1>1 DEF Reflect
  <1> HIDE DEF r
  <1>. QED  BY <1>1, <1>2, <1>3

\* It never jumps: it moves no further than the unbounded coordinate does,
\* however often it is reflected on the way (_reflect).
THEOREM ReflectNeverJumps ==
    ASSUME NEW value \in Int, NEW step \in Nat, NEW low \in Int, NEW high \in Int, low < high
    PROVE  /\ Reflect(value + step, low, high).at - Reflect(value, low, high).at <= step
           /\ Reflect(value, low, high).at - Reflect(value + step, low, high).at <= step
  <1> DEFINE n == 2 * (high - low)
             r == (value - low) % n
             s == (value + step - low) % n
  <1>1. /\ value - low \in Int /\ n \in Int /\ n > 0 /\ high - low > 0
        /\ value + step - low = (value - low) + step /\ value + step - low \in Int
    OBVIOUS
  <1>2. r \in Int /\ 0 <= r /\ r < n
    BY <1>1, Division
  <1>3. s \in Int /\ 0 <= s /\ s < n
    BY <1>1, Division
  <1>4. s = r + step \/ step >= n + s - r
    BY <1>1, Remainders
  <1>5. Reflect(value, low, high).at = IF r <= high - low THEN low + r ELSE low + n - r
    BY <1>1 DEF Reflect
  <1>6. Reflect(value + step, low, high).at = IF s <= high - low THEN low + s ELSE low + n - s
    BY <1>1 DEF Reflect
  <1> HIDE DEF r, s
  <1>. QED  BY <1>1, <1>2, <1>3, <1>4, <1>5, <1>6

\* Folding forgets whole turns: a remainder moves with its number as long as it
\* stays a remainder.
LEMMA RemainderMoves ==
    ASSUME NEW n \in Int, NEW step \in Int, NEW j \in Int, NEW k \in Int, NEW r \in Int, NEW s \in Int,
           0 <= r, r < n, 0 <= s, s < n, n * k + s = (n * j + r) + step,
           0 <= r + step, r + step <= n
    PROVE  IF r + step = n THEN s = 0 ELSE s = r + step
  <1>1. n * j \in Int /\ n * k \in Int
    OBVIOUS
  <1>2. CASE j = k
    BY <1>1, <1>2
  <1>3. CASE j < k
    <2>1. n * k >= n * j + n
      BY <1>1, <1>3, Multiple
    <2>. QED  BY <1>1, <2>1
  <1>4. CASE k < j
    <2>1. n * j >= n * k + n
      BY <1>1, <1>4, Multiple
    <2>. QED  BY <1>1, <2>1
  <1>. QED  BY <1>2, <1>3, <1>4

\* Up to the border, that it may touch, it runs straight in the direction it
\* reports, and against it when the unbounded coordinate runs back (_reflect).
THEOREM ReflectRunsStraight ==
    ASSUME NEW value \in Int, NEW step \in Int, NEW low \in Int, NEW high \in Int, low < high
    PROVE  LET here == Reflect(value, low, high)
           IN  here.at + step * here.dir \in low .. high
                 => Reflect(value + step, low, high).at = here.at + step * here.dir
  <1> DEFINE n == 2 * (high - low)
             r == (value - low) % n
             s == (value + step - low) % n
             here == Reflect(value, low, high)
  <1>1. /\ value - low \in Int /\ n \in Int /\ n > 0 /\ high - low > 0
        /\ value + step - low = (value - low) + step /\ value + step - low \in Int
    OBVIOUS
  <1>2. r \in Int /\ 0 <= r /\ r < n
    BY <1>1, Division
  <1>3. /\ 0 <= r + step /\ r + step < n => s = r + step
        /\ r + step = n => s = 0
    <2> DEFINE j == (value - low) \div n
               k == (value + step - low) \div n
    <2>1. j \in Int /\ 0 <= r /\ r < n /\ r \in Int /\ value - low = n * j + r
      BY <1>1, Division
    <2>2. k \in Int /\ 0 <= s /\ s < n /\ s \in Int /\ value + step - low = n * k + s
      BY <1>1, Division
    <2> HIDE DEF j, k, n, r, s
    <2>3. n \in Int /\ n * k + s = (n * j + r) + step
      BY <1>1, <2>1, <2>2
    <2>. SUFFICES ASSUME 0 <= r + step, r + step <= n
                  PROVE  IF r + step = n THEN s = 0 ELSE s = r + step
      BY <1>2, <2>2, <2>3
    <2>. QED  BY <2>1, <2>2, <2>3, RemainderMoves
  <1>4. here = IF r <= high - low THEN [at |-> low + r, dir |-> 1]
                                 ELSE [at |-> low + n - r, dir |-> -1]
    BY <1>1 DEF Reflect
  <1>5. Reflect(value + step, low, high).at = IF s <= high - low THEN low + s ELSE low + n - s
    BY <1>1 DEF Reflect
  <1> HIDE DEF r, s
  <1>. SUFFICES ASSUME here.at + step * here.dir \in low .. high
                PROVE  Reflect(value + step, low, high).at = here.at + step * here.dir
    OBVIOUS
  <1>6. CASE r <= high - low
    <2>1. here.at + step * here.dir = low + (r + step) /\ low + (r + step) \in low .. high
      BY <1>2, <1>4, <1>6
    <2>2. 0 <= r + step /\ r + step <= high - low
      BY <1>2, <2>1
    <2>. QED  BY <1>1, <1>2, <1>3, <1>5, <2>1, <2>2
  <1>7. CASE ~(r <= high - low)
    <2>1. here.at + step * here.dir = low + n - (r + step) /\ low + n - (r + step) \in low .. high
      BY <1>2, <1>4, <1>7
    <2>2. high - low <= r + step /\ r + step <= n
      BY <1>2, <2>1
    <2>. QED  BY <1>1, <1>2, <1>3, <1>5, <2>1, <2>2
  <1>. QED  BY <1>6, <1>7

LEMMA ReflectMovesAtMost ==
    ASSUME NEW value \in Int, NEW by \in Int, NEW bound \in Int, -bound <= by, by <= bound,
           NEW low \in Int, NEW high \in Int, low < high
    PROVE  /\ Reflect(value + by, low, high).at \in Int /\ Reflect(value, low, high).at \in Int
           /\ Reflect(value + by, low, high).at - Reflect(value, low, high).at <= bound
           /\ Reflect(value, low, high).at - Reflect(value + by, low, high).at <= bound
  <1>1. Reflect(value + by, low, high).at \in low .. high /\ Reflect(value, low, high).at \in low .. high
    <2>1. value + by \in Int
      OBVIOUS
    <2>. QED  BY <2>1, ReflectStaysInside
  <1>2. CASE by >= 0
    <2>1. by \in Nat
      BY <1>2
    <2>2. /\ Reflect(value + by, low, high).at - Reflect(value, low, high).at <= by
          /\ Reflect(value, low, high).at - Reflect(value + by, low, high).at <= by
      BY <2>1, ReflectNeverJumps
    <2>. QED  BY <1>1, <2>2
  <1>3. CASE by < 0
    <2>1. -by \in Nat /\ value + by \in Int /\ (value + by) + (-by) = value
      BY <1>3
    <2>2. /\ Reflect((value + by) + (-by), low, high).at - Reflect(value + by, low, high).at <= -by
          /\ Reflect(value + by, low, high).at - Reflect((value + by) + (-by), low, high).at <= -by
      BY ONLY <2>1, ReflectNeverJumps, low \in Int, high \in Int, low < high
    <2>3. /\ Reflect(value, low, high).at - Reflect(value + by, low, high).at <= -by
          /\ Reflect(value + by, low, high).at - Reflect(value, low, high).at <= -by
      BY <2>1, <2>2
    <2>. QED  BY <1>1, <2>3
  <1>. QED  BY <1>2, <1>3

\* A moving obstacle stays on the field with all of its body
\* (_moving_obstacle_state).
THEOREM ObstacleStaysOnField ==
    ASSUME NEW o \in Obstacles, o.vel # <<0, 0>>, NEW t \in Nat, NEW a \in Axes,
           \A b \in Axes : /\ Field[b] \in Int \X Int
                           /\ Field[b][1] + o.radius < Field[b][2] - o.radius
    PROVE  MovingState(o, t).pos[a] \in Field[a][1] + o.radius .. Field[a][2] - o.radius
  <1> DEFINE low == Field[a][1] + o.radius
             high == Field[a][2] - o.radius
             value == o.pos[a] + o.vel[a] * t
  <1>1. low \in Int /\ high \in Int /\ low < high /\ value \in Int
    BY DEF Obstacles, Axes
  <1>2. Reflect(value, low, high).at \in low .. high
    BY <1>1, ReflectStaysInside
  <1>3. MovingState(o, t).pos[a] = Reflect(value, low, high).at
    BY DEF MovingState, Obstacles, Axes
  <1>. QED  BY <1>2, <1>3

\* Between any two times it moves on each axis no further than its velocity
\* allows, reflections included: the premise of clearances swept from step to
\* step (_moving_obstacle_state, _swept_min_distance).
THEOREM ObstacleNeverJumps ==
    ASSUME NEW o \in Obstacles, o.vel # <<0, 0>>, NEW t \in Nat, NEW d \in Nat, NEW a \in Axes,
           NEW bound \in Int, -bound <= o.vel[a] * d, o.vel[a] * d <= bound,
           \A b \in Axes : /\ Field[b] \in Int \X Int
                           /\ Field[b][1] + o.radius < Field[b][2] - o.radius
    PROVE  /\ MovingState(o, t + d).pos[a] - MovingState(o, t).pos[a] <= bound
           /\ MovingState(o, t).pos[a] - MovingState(o, t + d).pos[a] <= bound
  <1> DEFINE low == Field[a][1] + o.radius
             high == Field[a][2] - o.radius
             value == o.pos[a] + o.vel[a] * t
             by == o.vel[a] * d
  <1>1. low \in Int /\ high \in Int /\ low < high /\ value \in Int /\ by \in Int
    BY DEF Obstacles, Axes
  <1>2. o.pos[a] + o.vel[a] * (t + d) = value + by
    <2>1. o.pos[a] \in Int /\ o.vel[a] \in Int
      BY DEF Obstacles, Axes
    <2>. QED  BY <2>1
  <1>3. /\ Reflect(value + by, low, high).at - Reflect(value, low, high).at <= bound
        /\ Reflect(value, low, high).at - Reflect(value + by, low, high).at <= bound
    BY <1>1, ReflectMovesAtMost
  <1>4. MovingState(o, t).pos[a] = Reflect(value, low, high).at
    BY DEF MovingState, Obstacles, Axes
  <1>5. MovingState(o, t + d).pos[a] = Reflect(o.pos[a] + o.vel[a] * (t + d), low, high).at
    BY DEF MovingState, Obstacles, Axes
  <1>. QED  BY <1>2, <1>3, <1>4, <1>5

\* Where it will be is told exactly by the position and the velocity it has now,
\* on each axis and in both directions, until it passes a border (what a
\* prediction from _moving_obstacle_state takes for granted).
THEOREM ObstacleIsPredictable ==
    ASSUME NEW o \in Obstacles, o.vel # <<0, 0>>, NEW t \in Nat, NEW d \in Nat, NEW a \in Axes,
           \A b \in Axes : /\ Field[b] \in Int \X Int
                           /\ Field[b][1] + o.radius < Field[b][2] - o.radius,
           MovingState(o, t).pos[a] + MovingState(o, t).vel[a] * d
               \in Field[a][1] + o.radius .. Field[a][2] - o.radius
    PROVE  MovingState(o, t + d).pos[a] = MovingState(o, t).pos[a] + MovingState(o, t).vel[a] * d
  <1> DEFINE low == Field[a][1] + o.radius
             high == Field[a][2] - o.radius
             value == o.pos[a] + o.vel[a] * t
             by == o.vel[a] * d
  <1>1. low \in Int /\ high \in Int /\ low < high /\ value \in Int /\ by \in Int /\ o.vel[a] \in Int
    BY DEF Obstacles, Axes
  <1>2. o.pos[a] + o.vel[a] * (t + d) = value + by
    <2>1. o.pos[a] \in Int /\ o.vel[a] \in Int
      BY DEF Obstacles, Axes
    <2>. QED  BY <2>1
  <1>3. /\ MovingState(o, t).pos[a] = Reflect(value, low, high).at
        /\ MovingState(o, t).vel[a] = o.vel[a] * Reflect(value, low, high).dir
    BY DEF MovingState, Obstacles, Axes
  <1>4. MovingState(o, t + d).pos[a] = Reflect(o.pos[a] + o.vel[a] * (t + d), low, high).at
    BY DEF MovingState, Obstacles, Axes
  <1>5. Reflect(value, low, high).dir \in {-1, 1}
    BY <1>1, ReflectStaysInside
  <1>6. MovingState(o, t).vel[a] * d = by * Reflect(value, low, high).dir
    BY <1>1, <1>3, <1>5
  <1> HIDE DEF low, high, value, by
  <1>7. Reflect(value, low, high).at + by * Reflect(value, low, high).dir \in low .. high
    BY <1>3, <1>6 DEF low, high
  <1>8. Reflect(value + by, low, high).at
          = Reflect(value, low, high).at + by * Reflect(value, low, high).dir
    BY <1>1, <1>7, ReflectRunsStraight
  <1>. QED  BY <1>2, <1>3, <1>4, <1>6, <1>8

\* A patrol stays on its route and moves along it no further than its speed
\* allows, turning at both ends (_patrol_state).
THEOREM PatrolNeverJumps ==
    ASSUME NEW marks \in Seq(Int), Len(marks) > 0, marks[Len(marks)] > 0,
           NEW speed \in Nat, NEW t \in Nat, NEW d \in Nat
    PROVE  /\ Along(marks, speed, t).at \in 0 .. marks[Len(marks)]
           /\ Along(marks, speed, t + d).at - Along(marks, speed, t).at <= speed * d
           /\ Along(marks, speed, t).at - Along(marks, speed, t + d).at <= speed * d
  <1> DEFINE total == marks[Len(marks)]
             far == speed * t
             step == speed * d
  <1>1. total \in Int /\ 0 < total /\ far \in Int /\ step \in Nat /\ 0 \in Int /\ t + d \in Nat
    OBVIOUS
  <1>2. \A x \in Nat : Along(marks, speed, x).at = Reflect(speed * x, 0, total).at
    <2> SUFFICES ASSUME NEW x \in Nat
                 PROVE  Along(marks, speed, x).at = Reflect(speed * x, 0, total).at
      OBVIOUS
    <2> DEFINE r == (speed * x) % (2 * total)
    <2>1. speed * x \in Int /\ (speed * x) - 0 = speed * x /\ total - 0 = total /\ 2 * total \in Int /\ 2 * total > 0
      BY <1>1
    <2>2. r \in Int
      BY <2>1, Division
    <2>3. Along(marks, speed, x).at = IF r > total THEN 2 * total - r ELSE r
      BY DEF Along
    <2>4. Reflect(speed * x, 0, total).at = IF r <= total THEN 0 + r ELSE 0 + 2 * total - r
      BY <1>1, <2>1 DEF Reflect
    <2> HIDE DEF r
    <2>. QED  BY <1>1, <2>2, <2>3, <2>4
  <1>3. Along(marks, speed, t).at = Reflect(far, 0, total).at
    BY <1>2
  <1>4. Along(marks, speed, t + d).at = Reflect(far + step, 0, total).at
    <2>1. speed * (t + d) = far + step
      OBVIOUS
    <2>. QED  BY <1>1, <1>2, <2>1
  <1> HIDE DEF far, step, total
  <1>5. Reflect(far, 0, total).at \in 0 .. total
    BY ONLY <1>1, ReflectStaysInside
  <1>6. /\ Reflect(far + step, 0, total).at - Reflect(far, 0, total).at <= step
        /\ Reflect(far, 0, total).at - Reflect(far + step, 0, total).at <= step
    BY ONLY <1>1, ReflectNeverJumps
  <1>7. /\ Along(marks, speed, t).at \in 0 .. total
        /\ Along(marks, speed, t + d).at - Along(marks, speed, t).at <= step
        /\ Along(marks, speed, t).at - Along(marks, speed, t + d).at <= step
    BY ONLY <1>3, <1>4, <1>5, <1>6
  <1>. QED  BY <1>7 DEF total, step

================================================================================
