------------------------------ MODULE RouteProofs ------------------------------
(* Proofs about routes: a robot's two copies of its route, for all points,      *)
(* setups, dead zones and scenes, and what the three planners build, for all    *)
(* fields, obstacles, trips, placements and samples.                            *)
EXTENDS RouteFollowing, RoadmapSearch, SequenceTheorems, FiniteSetTheorems,
        WellFoundedInduction, TLAPS

--------------------------------------------------------------------------------
(* Routes and their ends. *)

\* s is what t ends with.
EndsWith(t, s) ==
    /\ Len(s) <= Len(t)
    /\ \A i \in 1..Len(s) : s[i] = t[Len(t) - Len(s) + i]

LEMMA EndsWithIsSuffix ==
    ASSUME NEW S, NEW s \in Seq(S), NEW t \in Seq(S), EndsWith(t, s)
    PROVE  IsSuffix(s, t)
<1> DEFINE a == Reverse(s)
           b == Reverse(t)
           n == Len(s)
<1>1. n \in Nat /\ Len(t) \in Nat /\ n <= Len(t)
  BY DEF EndsWith
<1>2. /\ a = [i \in 1..n |-> s[(n - i) + 1]] /\ Len(a) = n /\ a \in Seq(S)
      /\ b = [i \in 1..Len(t) |-> t[(Len(t) - i) + 1]] /\ Len(b) = Len(t) /\ b \in Seq(S)
  <2>1. \A i \in 1..n : s[(n - i) + 1] \in S
    BY <1>1
  <2>2. \A i \in 1..Len(t) : t[(Len(t) - i) + 1] \in S
    BY <1>1
  <2> QED
    BY <1>1, <2>1, <2>2, IsASeq DEF Reverse
<1>3. ASSUME NEW i \in 1..n
      PROVE  a[i] = b[i]
  <2>1. (n - i) + 1 \in 1..n /\ Len(t) - n + ((n - i) + 1) = (Len(t) - i) + 1
    BY <1>1
  <2>2. s[(n - i) + 1] = t[(Len(t) - i) + 1]
    BY <2>1 DEF EndsWith
  <2> QED
    BY <1>1, <1>2, <2>2
<1> HIDE DEF a, b
<1>4. SubSeq(a, 1, n) = SubSeq(b, 1, n)
  <2>1. /\ SubSeq(a, 1, n) \in Seq(S) /\ Len(SubSeq(a, 1, n)) = n
        /\ \A i \in 1..n : SubSeq(a, 1, n)[i] = a[i]
    BY <1>1, <1>2, SubSeqProperties
  <2>2. /\ SubSeq(b, 1, n) \in Seq(S) /\ Len(SubSeq(b, 1, n)) = n
        /\ \A i \in 1..n : SubSeq(b, 1, n)[i] = b[i]
    BY <1>1, <1>2, SubSeqProperties
  <2> QED
    BY <1>3, <2>1, <2>2, SeqEqual
<1> QED
  BY <1>1, <1>2, <1>4 DEF IsSuffix, IsPrefix, a, b

LEMMA GoalIsPoint == Goal \in Ends /\ Goal \in Points /\ Ends \subseteq Points /\ Aside \in Points
  BY GateAssumption DEF Goal, Ends, Points

LEMMA JoinedProperties ==
    ASSUME NEW route \in Seq(Points)
    PROVE  LET j == Joined(route, Goal)
           IN  /\ j \in Seq(Points) /\ Len(j) \in Nat \ {0}
               /\ Len(j) = Len(route) \/ Len(j) = Len(route) + 1
               /\ \A i \in 1..Len(route) : j[i] = route[i]
               /\ j[Len(j)] = Goal
               /\ Len(j) = Len(route) <=> (route # <<>> /\ route[Len(route)] = Goal)
<1>1. CASE route # <<>> /\ route[Len(route)] = Goal
  BY <1>1, EmptySeq DEF Joined
<1>2. CASE ~(route # <<>> /\ route[Len(route)] = Goal)
  BY <1>2, AppendProperties, GoalIsPoint DEF Joined
<1> QED
  BY <1>1, <1>2

\* Of one robot: its executor's path is what the gate's route ends with, and
\* less than that when it has passed a waypoint since.
Follows(route, path, passed) ==
    route # <<>> => /\ EndsWith(Joined(route, Goal), path)
                    /\ passed => Len(path) < Len(Joined(route, Goal))

\* One waypoint is taken off for however many were passed.
LEMMA PopKeepsFollowing ==
    ASSUME NEW g \in RouteStates, NEW path \in Seq(Points), NEW passed \in BOOLEAN,
           Follows(g.route, path, passed)
    PROVE  LET r == PopReached(g, passed)
           IN  /\ r \in RouteStates /\ r.last = g.last
               /\ g.route = <<>> => r.route = <<>>
               /\ Follows(r.route, path, FALSE)
<1> DEFINE r == PopReached(g, passed)
           t == Tail(g.route)
<1>1. CASE ~passed \/ g.route = <<>>
  <2>1. r = g
    BY <1>1 DEF PopReached, RouteStates
  <2> QED
    BY <2>1 DEF Follows
<1>2. CASE passed /\ g.route # <<>>
  <2>1. g.route \in Seq(Points)
    BY DEF RouteStates
  <2>2. /\ t \in Seq(Points) /\ Len(g.route) \in Nat \ {0} /\ Len(t) = Len(g.route) - 1
        /\ \A i \in 1..Len(t) : t[i] = g.route[i + 1]
    BY <1>2, <2>1, HeadTailProperties, LenProperties
  <2>3. r = [g EXCEPT !.route = t]
    BY <1>2 DEF PopReached
  <2>4. r \in RouteStates /\ r.last = g.last /\ r.route = t
    BY <2>2, <2>3 DEF RouteStates
  <2>5. ASSUME t # <<>>
        PROVE  EndsWith(Joined(t, Goal), path)
    <3> DEFINE j == Joined(g.route, Goal)
               k == Joined(t, Goal)
    <3>0. Len(t) \in Nat \ {0}
      BY <2>2, <2>5, EmptySeq, LenProperties
    <3> HIDE DEF t
    <3>1. t[Len(t)] = g.route[Len(g.route)]
      <4>1. Len(t) \in 1..Len(t)
        BY <3>0
      <4>2. t[Len(t)] = g.route[Len(t) + 1]
        BY <2>2, <4>1
      <4>3. Len(t) + 1 = Len(g.route)
        BY <2>2
      <4> QED
        BY <4>2, <4>3
    <3>a. /\ Len(j) \in Nat /\ j[Len(j)] = Goal
          /\ Len(j) = Len(g.route) \/ Len(j) = Len(g.route) + 1
          /\ \A i \in 1..Len(g.route) : j[i] = g.route[i]
          /\ Len(j) = Len(g.route) <=> g.route[Len(g.route)] = Goal
      BY <1>2, <2>1, JoinedProperties
    <3>b. /\ Len(k) \in Nat /\ k[Len(k)] = Goal
          /\ Len(k) = Len(t) \/ Len(k) = Len(t) + 1
          /\ \A i \in 1..Len(t) : k[i] = t[i]
          /\ Len(k) = Len(t) <=> t[Len(t)] = Goal
      BY <2>2, <2>5, JoinedProperties
    <3> HIDE DEF j, k
    <3>2. Len(k) = Len(j) - 1
      BY <2>2, <3>1, <3>a, <3>b
    <3>3. \A i \in 1..Len(k) : k[i] = j[i + 1]
      <4> TAKE i \in 1..Len(k)
      <4>1. CASE i \in 1..Len(t)
        <5>1. i + 1 \in 1..Len(g.route)
          BY <2>2, <4>1
        <5> QED
          BY <2>2, <3>a, <3>b, <4>1, <5>1
      <4>2. CASE i \notin 1..Len(t)
        <5>1. i = Len(k) /\ i + 1 = Len(j)
          BY <2>2, <3>2, <3>b, <4>2
        <5> QED
          BY <3>a, <3>b, <5>1
      <4> QED
        BY <4>1, <4>2
    <3>4. Len(j) \in Nat /\ Len(k) \in Nat /\ Len(path) \in Nat
      BY <3>a, <3>b
    <3>5. EndsWith(j, path) /\ Len(path) < Len(j)
      BY <1>2 DEF Follows, j
    <3>6. ASSUME NEW i \in 1..Len(path)
          PROVE  path[i] = k[Len(k) - Len(path) + i]
      <4>1. Len(k) - Len(path) + i \in 1..Len(k)
        BY <3>2, <3>4, <3>5
      <4>2. k[Len(k) - Len(path) + i] = j[Len(k) - Len(path) + i + 1]
        BY <3>3, <4>1
      <4>3. Len(k) - Len(path) + i + 1 = Len(j) - Len(path) + i
        BY <3>2, <3>4
      <4> QED
        BY <3>5, <4>2, <4>3 DEF EndsWith
    <3>7. EndsWith(k, path)
      BY <3>2, <3>4, <3>5, <3>6 DEF EndsWith
    <3> QED
      BY <3>7 DEF k
  <2> QED
    BY <1>2, <2>4, <2>5 DEF Follows
<1> QED
  BY <1>1, <1>2

\* What the executor leaves of its path is shorter, and still its end.
LEMMA DrivingKeepsFollowing ==
    ASSUME NEW route \in Seq(Points), NEW path \in Seq(Points),
           NEW passed, Follows(route, path, passed), NEW k \in 1..Len(path)
    PROVE  LET rest == SubSeq(path, k + 1, Len(path))
           IN  rest \in Seq(Points) /\ Follows(route, rest, TRUE)
<1> DEFINE rest == SubSeq(path, k + 1, Len(path))
           n == Len(path)
<1>1. n \in Nat /\ k \in Nat \ {0} /\ k <= n
  OBVIOUS
<1>2. /\ rest \in Seq(Points) /\ Len(rest) = n - k
      /\ \A i \in 1..n - k : rest[i] = path[k + i]
  <2>1. k + 1 \in 1..n + 1 /\ n \in k..n
    BY <1>1
  <2>2. /\ rest \in Seq(Points) /\ Len(rest) = n - (k + 1) + 1
        /\ \A i \in 1..n - (k + 1) + 1 : rest[i] = path[(k + 1) + i - 1]
    BY <2>1, SubSeqProperties
  <2> QED
    BY <1>1, <2>2
<1> HIDE DEF rest
<1>3. ASSUME route # <<>>
      PROVE  EndsWith(Joined(route, Goal), rest) /\ Len(rest) < Len(Joined(route, Goal))
  <2> DEFINE j == Joined(route, Goal)
  <2>1. Len(j) \in Nat
    BY JoinedProperties
  <2>2. EndsWith(j, path)
    BY <1>3 DEF Follows
  <2> HIDE DEF j
  <2>3. n <= Len(j) /\ \A i \in 1..n : path[i] = j[Len(j) - n + i]
    BY <2>2 DEF EndsWith
  <2>4. ASSUME NEW i \in 1..Len(rest)
        PROVE  rest[i] = j[Len(j) - Len(rest) + i]
    <3>1. k + i \in 1..n /\ rest[i] = path[k + i]
      BY <1>1, <1>2
    <3>2. Len(j) - n + (k + i) = Len(j) - Len(rest) + i
      BY <1>1, <1>2, <2>1
    <3>3. path[k + i] = j[Len(j) - n + (k + i)]
      BY <2>3, <3>1
    <3> QED
      BY <3>1, <3>2, <3>3
  <2> QED
    BY <1>1, <1>2, <2>1, <2>3, <2>4 DEF EndsWith, j
<1> QED
  BY <1>2, <1>3 DEF Follows, rest

--------------------------------------------------------------------------------
(* The planner's answers. *)

LEMMA FoundRoutes ==
    ASSUME NEW end \in Ends, NEW route \in Routes(end)
    PROVE  /\ route \in Seq(Points) /\ route # <<>>
           /\ Joined(route, Goal) # <<Goal>>
<1>1. PICK d \in Detours : route = Append(d, end)
  BY DEF Routes
<1>2. d \in Seq(Points) /\ Len(d) \in {1, 2}
  <2>1. CASE \E m \in Mids : d = <<m>>
    BY <2>1 DEF Points
  <2>2. CASE \E m \in Mids, n \in Mids : d = <<m, n>>
    BY <2>2 DEF Points
  <2> QED
    BY <2>1, <2>2 DEF Detours
<1>3. route \in Seq(Points) /\ Len(route) \in {2, 3}
  BY <1>1, <1>2, GoalIsPoint, AppendProperties
<1>4. Len(Joined(route, Goal)) \in {Len(route), Len(route) + 1}
  BY <1>3, JoinedProperties
<1>5. Len(Joined(route, Goal)) # 1 /\ Len(route) # 0
  <2>1. CASE Len(route) = 2
    BY <1>4, <2>1
  <2>2. CASE Len(route) = 3
    BY <1>4, <2>2
  <2> QED
    BY <1>3, <2>1, <2>2
<1>6. Len(<<Goal>>) = 1 /\ Len(<<>>) = 0
  OBVIOUS
<1> QED
  BY <1>3, <1>5, <1>6

\* The four answers a gated or ungated planner gives, by what they do to its gate.
AnswersDirect(scene, a) ==
    /\ PathFree(scene, Here, scene.end) /\ a.out = Direct /\ a.gate.route = <<>>

AnswersKept(scene, a) ==
    LET r == PopReached(gate, reached /\ ~first)
    IN  /\ ~first /\ Rules.gated /\ ~PathFree(scene, Here, scene.end)
        /\ a.gate.route = r.route /\ a.gate.last \in {r.last, scene.end} /\ r.route # <<>>
        /\ a.out \in Outputs /\ ~a.out.free /\ ~a.out.did
        /\ a.cached \in {cached, NoOutput}
        /\ PathOpen(scene, Here, Head(r.route))
        /\ ~TwoMeasures => PathFree(scene, Here, Head(r.route))
        /\ Graph /\ Rules.full => Legs(Joined(r.route, Goal)) \subseteq scene.free
        /\ ~Graph /\ ~setup.clearance /\ setup.policy = "event" /\ setup.period = 0 =>
              ~TargetMoved(r, scene.end) /\ a.gate.last = r.last

AnswersBuilt(scene, a) ==
    /\ ~PathFree(scene, Here, scene.end)
    /\ a.out \in Outputs /\ ~a.out.free /\ a.out.did
    /\ a.gate.route = a.out.route
    /\ a.cached \in {a.out, NoOutput}
    /\ ~Graph => a.gate.last = scene.end
    /\ a.out.route # <<>> => Joined(a.out.route, Goal) # <<Goal>>

\* An ungated planner over a graph keeps nothing in its gate.
AnswersAnew(a) ==
    /\ Graph /\ ~Rules.gated
    /\ a.out \in Outputs /\ a.out.did /\ ~a.out.free
    /\ a.gate.route = <<>>

\* The robot's two copies of its route, and what the last call's record says.
RouteInv ==
    /\ setup \in Setups
    /\ gate \in RouteStates /\ cached \in Outputs \cup {NoOutput}
    /\ ahead \in Seq(Points) /\ reached \in BOOLEAN /\ first \in BOOLEAN
    /\ first => gate.route = <<>> /\ ahead = <<>> /\ ~reached
    /\ Follows(gate.route, ahead, reached)
    /\ gate.route # <<>> /\ cached # NoOutput => ~cached.free
    /\ ~Graph /\ ~setup.clearance /\ setup.policy = "event" /\ setup.period = 0 /\ gate.route # <<>> =>
          gate.last = seen.builtFor /\ gate.last \in Ends
    /\ KeptRouteIsClear /\ DriftIsBounded

LEMMA SetupFacts ==
    ASSUME RouteInv
    PROVE  /\ setup.planner \in {"voronoi", "prm", "visibility"}
           /\ setup.policy \in {"cycle", "event", "event_route"}
           /\ setup.clearance \in BOOLEAN
           /\ Rules.gated <=> setup.policy # "cycle"
           /\ Rules.full <=> setup.policy = "event_route"
           /\ Rules.period = setup.period
           /\ Forgets => ~Rules.gated
  BY SetupsAssumption DEF RouteInv, Rules, Forgets

LEMMA SceneFacts ==
    ASSUME NEW scene \in Scenes
    PROVE  /\ scene = [free |-> scene.free, open |-> scene.open, end |-> scene.end, inside |-> scene.inside]
           /\ scene.free \subseteq scene.open
           /\ ~TwoMeasures => scene.open = scene.free
           /\ scene.end \in Ends
           /\ Graph => scene.end = Goal
<1>1. PICK end \in EndsSeen : scene \in ScenesTo(end)
  BY DEF Scenes
<1>2. PICK closed \in Closures(end) : scene \in ScenesWith(closed, BetweenLegs(end) \ closed, end)
  BY <1>1 DEF ScenesTo
<1> DEFINE between == BetweenLegs(end) \ closed
<1>3. \/ \E visible \in SUBSET Watched(end), margin \in Margins(closed, end) :
             scene = SceneOf(visible, between, margin, end, "no")
      \/ \E inside \in {"escape", "stuck"} : scene = SceneOf({}, between, {}, end, inside)
  BY <1>2 DEF ScenesWith
<1> HIDE DEF between
<1>4. \E visible, inside, margin :
          /\ scene = SceneOf(visible, between, margin, end, inside)
          /\ margin \in Margins(closed, end) \/ margin = {}
  BY <1>3
<1>5. PICK visible, inside, margin :
          /\ scene = SceneOf(visible, between, margin, end, inside)
          /\ margin \in Margins(closed, end) \/ margin = {}
  BY <1>4
<1>6. ~TwoMeasures => margin = {}
  BY <1>5 DEF Margins
<1>7. /\ scene = [free |-> scene.free, open |-> scene.open, end |-> scene.end, inside |-> scene.inside]
      /\ scene.open = scene.free \cup margin /\ scene.end = end
  BY <1>5 DEF SceneOf
<1> QED
  BY <1>1, <1>6, <1>7, GoalIsPoint DEF EndsSeen

\* The gate and the cache a call begins with.
LEMMA CallFacts ==
    ASSUME RouteInv
    PROVE  LET passed == reached /\ ~first
               r == PopReached(GateAtCall, passed)
           IN  /\ r \in RouteStates
               /\ first \/ Forgets => r.route = <<>>
               /\ ~Forgets => /\ r = PopReached(gate, passed) /\ r.last = gate.last
                              /\ Follows(r.route, ahead, FALSE)
                              /\ gate.route = <<>> => r.route = <<>>
               /\ CacheAtCall \in Outputs \cup {NoOutput}
<1>1. NewRoute \in RouteStates /\ NewRoute.route = <<>> /\ Follows(<<>>, ahead, reached /\ ~first)
  BY GateAssumption DEF NewRoute, RouteStates, Follows
<1>2. Follows(gate.route, ahead, reached /\ ~first) /\ (reached /\ ~first) \in BOOLEAN
  BY DEF RouteInv, Follows
<1>3. CASE Forgets
  <2>1. GateAtCall = NewRoute /\ CacheAtCall = NoOutput
    BY <1>3 DEF GateAtCall, CacheAtCall
  <2>2. ahead \in Seq(Points)
    BY DEF RouteInv
  <2>3. LET r == PopReached(NewRoute, reached /\ ~first)
        IN  r \in RouteStates /\ r.route = <<>>
    BY <1>1, <1>2, <2>2, PopKeepsFollowing
  <2> QED
    BY <1>3, <2>1, <2>3
<1>4. CASE ~Forgets
  <2>1. GateAtCall = gate /\ CacheAtCall = cached
    BY <1>4 DEF GateAtCall, CacheAtCall
  <2> QED
    BY <1>2, <1>4, <2>1, PopKeepsFollowing DEF RouteInv
<1> QED
  BY <1>3, <1>4

\* A commit keeps the types and holds what it was given.
Commits(r, route, end) ==
    LET c == CommitReroute(r, route, end)
    IN  c \in RouteStates /\ c.route = route /\ c.last = end

LEMMA CommitsAre ==
    ASSUME NEW r \in RouteStates, NEW route \in Seq(Points), NEW end \in Ends
    PROVE  Commits(r, route, end)
<1>1. CommitReroute(r, route, end) \in RouteStates
  BY GateAssumption DEF CommitReroute, RouteStates
<1>2. CommitReroute(r, route, end).route = route /\ CommitReroute(r, route, end).last = end
  BY DEF CommitReroute
<1> QED
  BY <1>1, <1>2 DEF Commits

LEMMA NotesAre ==
    ASSUME NEW r \in RouteStates
    PROVE  /\ NoteNoReroute(r) \in RouteStates
           /\ NoteNoReroute(r).route = r.route /\ NoteNoReroute(r).last = r.last
<1>1. r.frames \in 0..FRAME_CAP /\ FRAME_CAP \in Nat
  BY GateAssumption DEF RouteStates
<1>2. (IF r.frames < FRAME_CAP THEN r.frames + 1 ELSE r.frames) \in 0..FRAME_CAP
  BY <1>1
<1> QED
  BY <1>2 DEF NoteNoReroute, RouteStates

LEMMA OutputsAre ==
    ASSUME NEW route \in Seq(Points), NEW free \in BOOLEAN, NEW did \in BOOLEAN,
           NEW escaped \in BOOLEAN
    PROVE  LET o == Output(route, free, did, escaped)
           IN  o \in Outputs /\ o.route = route /\ o.free = free /\ o.did = did
  BY DEF Output, Outputs

LEMMA VoronoiAnswers ==
    ASSUME RouteInv, ~Graph, NEW scene \in Scenes, NEW a \in Answers(scene)
    PROVE  /\ a.gate \in RouteStates /\ a.cached = NoOutput
           /\ AnswersDirect(scene, a) \/ AnswersKept(scene, a) \/ AnswersBuilt(scene, a)
<1> DEFINE passed == reached /\ ~first
           r == PopReached(GateAtCall, passed)
           end == scene.end
<1>1. PICK u \in VoronoiUpdate(GateAtCall, scene, passed, Rules) :
          a = [gate |-> u.gate, cached |-> NoOutput, out |-> u.out]
  BY DEF Answers
<1>2. /\ r \in RouteStates /\ r.route \in Seq(Points) /\ end \in Ends
      /\ first \/ Forgets => r.route = <<>>
      /\ ~Forgets => r = PopReached(gate, passed)
      /\ Forgets <=> ~Rules.gated /\ ~first
      /\ scene.free \subseteq scene.open /\ (~TwoMeasures => scene.open = scene.free)
  BY CallFacts, SceneFacts, SetupFacts DEF RouteStates, Rules, Forgets
<1> HIDE DEF passed, r, end
<1>3. <<>> \in Seq(Points) /\ <<Aside>> \in Seq(Points)
  BY GoalIsPoint
<1>4. \A route \in Seq(Points) :
          /\ CommitReroute(r, route, end) \in RouteStates
          /\ CommitReroute(r, route, end).route = route
          /\ CommitReroute(r, route, end).last = end
  <2> TAKE route \in Seq(Points)
  <2>1. r \in RouteStates /\ end \in Ends /\ route \in Seq(Points)
    BY <1>2
  <2>2. Commits(r, route, end)
    BY <2>1, CommitsAre
  <2> QED
    BY <2>2 DEF Commits
<1>5. CASE PathFree(scene, Here, end)
  <2>1. u = [gate |-> CommitReroute(r, <<>>, end), out |-> Direct]
    BY <1>1, <1>5 DEF VoronoiUpdate, r, passed, end
  <2> QED
    BY <1>1, <1>3, <1>4, <1>5, <2>1 DEF AnswersDirect, end
<1>6. CASE ~PathFree(scene, Here, end) /\ Rules.gated /\ ~NeedReroute(r, scene, Rules)
  <2>1. u = [gate |-> NoteNoReroute(r), out |-> Output(r.route, FALSE, FALSE, FALSE)]
    BY <1>1, <1>6 DEF VoronoiUpdate, r, passed, end
  <2>2. a.gate \in RouteStates /\ a.gate.route = r.route /\ a.gate.last = r.last
    BY <1>1, <1>2, <2>1, NotesAre
  <2>3. a.out \in Outputs /\ ~a.out.free /\ ~a.out.did
    BY <1>1, <1>2, <2>1, OutputsAre
  <2>4. /\ ~TargetMoved(r, end) /\ r.route # <<>>
        /\ PathFree(scene, Here, Head(r.route)) /\ PathOpen(scene, Here, Head(r.route))
    BY <1>2, <1>6 DEF NeedReroute, ActiveBlocked, PathFree, PathOpen, end
  <2>5. ~first /\ r = PopReached(gate, passed)
    BY <1>2, <1>6, <2>4
  <2> QED
    BY <1>1, <1>6, <2>2, <2>3, <2>4, <2>5 DEF AnswersKept, end, passed
<1>7. CASE ~PathFree(scene, Here, end) /\ (Rules.gated => NeedReroute(r, scene, Rules))
  <2>1. PICK o \in VoronoiPlans(r, scene) : u = [gate |-> CommitReroute(r, o.route, end), out |-> o]
    BY <1>1, <1>7 DEF VoronoiUpdate, r, passed, end
  <2>2. CASE Escapes(scene)
    <3>1. o = Output(<<Aside>>, FALSE, TRUE, TRUE)
      BY <2>1, <2>2 DEF VoronoiPlans, end
    <3>2. o \in Outputs /\ o.route = <<Aside>> /\ ~o.free /\ o.did
      BY <1>3, <3>1, OutputsAre
    <3>3. Joined(<<Aside>>, Goal) # <<Goal>>
      BY GateAssumption DEF Joined, Goal
    <3> QED
      BY <1>1, <1>3, <1>4, <1>7, <2>1, <3>2, <3>3 DEF AnswersBuilt, end
  <2>3. CASE ~Escapes(scene) /\ PathOpen(scene, Here, end)
    <3>1. o = Output(<<>>, FALSE, TRUE, FALSE)
      BY <2>1, <2>3 DEF VoronoiPlans, end
    <3>2. o \in Outputs /\ o.route = <<>> /\ ~o.free /\ o.did
      BY <1>3, <3>1, OutputsAre
    <3> QED
      BY <1>1, <1>3, <1>4, <1>7, <2>1, <3>2 DEF AnswersBuilt, end
  <2>4. CASE ~Escapes(scene) /\ ~PathOpen(scene, Here, end) /\ PreviousPathIsValid(r, scene)
    <3>1. o = Output(r.route, FALSE, FALSE, FALSE)
      BY <2>1, <2>4 DEF VoronoiPlans, end
    <3>2. o \in Outputs /\ o.route = r.route /\ ~o.free /\ ~o.did
      BY <1>2, <3>1, OutputsAre
    <3>3. /\ r.route # <<>> /\ PathOpen(scene, Here, Head(r.route)) /\ ~TargetMoved(r, end)
          /\ ~TwoMeasures => PathFree(scene, Here, Head(r.route))
      BY <1>2, <2>4 DEF PreviousPathIsValid, PathOpen, PathFree, end
    <3>4. ~first /\ Rules.gated /\ r = PopReached(gate, passed)
      BY <1>2, <3>3
    <3>5. NeedReroute(r, scene, Rules)
      BY <1>7, <3>4
    <3>6. setup.policy # "event" \/ setup.period # 0 \/ setup.clearance
      <4>1. CASE setup.policy = "event" /\ setup.period = 0 /\ ~setup.clearance
        BY <3>3, <3>5, <4>1, SetupFacts, ~(0 > 0)
           DEF NeedReroute, ActiveBlocked, end, PeriodicDue, TwoMeasures
      <4> QED
        BY <4>1
    <3>7. a.gate \in RouteStates /\ a.gate.route = r.route /\ a.gate.last = end
      BY <1>1, <1>2, <1>4, <2>1, <3>2
    <3> QED
      BY <1>1, <1>7, <2>1, <3>2, <3>3, <3>4, <3>6, <3>7 DEF AnswersKept, end, passed
  <2>5. CASE ~Escapes(scene) /\ ~PathOpen(scene, Here, end) /\ ~PreviousPathIsValid(r, scene)
    <3>1. PICK route \in Found(scene.open, end) : o = Output(route, FALSE, TRUE, FALSE)
      BY <2>1, <2>5 DEF VoronoiPlans, end
    <3>2. route = <<>> \/ route \in Routes(end)
      BY <3>1 DEF Found
    <3>3. route \in Seq(Points) /\ (route # <<>> => Joined(route, Goal) # <<Goal>>)
      BY <1>2, <1>3, <3>2, FoundRoutes
    <3>4. o \in Outputs /\ o.route = route /\ ~o.free /\ o.did
      BY <3>1, <3>3, OutputsAre
    <3> QED
      BY <1>1, <1>4, <1>7, <2>1, <3>3, <3>4 DEF AnswersBuilt, end
  <2> QED
    BY <2>2, <2>4, <2>5, <2>3
<1> QED
  BY <1>5, <1>6, <1>7

LEMMA GatedAnswers ==
    ASSUME RouteInv, Graph, Rules.gated, NEW scene \in Scenes, NEW a \in Answers(scene)
    PROVE  /\ a.gate \in RouteStates /\ a.cached \in Outputs \cup {NoOutput}
           /\ AnswersDirect(scene, a) \/ AnswersKept(scene, a) \/ AnswersBuilt(scene, a)
<1> DEFINE passed == reached /\ ~first
           r == PopReached(gate, passed)
<1>1. /\ a \in GatedPlan(gate, cached, scene, passed, Rules)
      /\ r \in RouteStates /\ r.route \in Seq(Points)
      /\ first => r.route = <<>>
      /\ cached \in Outputs \cup {NoOutput}
      /\ gate.route = <<>> => r.route = <<>>
  <2>1. ~Forgets
    BY SetupFacts
  <2>2. GateAtCall = gate /\ CacheAtCall = cached
    BY <2>1 DEF GateAtCall, CacheAtCall
  <2> QED
    BY <2>1, <2>2, CallFacts DEF Answers, RouteStates
<1>2. /\ scene.end = Goal /\ [scene EXCEPT !.end = Goal] = scene /\ Goal \in Ends
      /\ scene.free \subseteq scene.open /\ ~TwoMeasures
  BY SceneFacts, GoalIsPoint DEF TwoMeasures
<1> HIDE DEF passed, r
<1>3. <<>> \in Seq(Points) /\ <<Aside, Goal>> \in Seq(Points)
  BY GoalIsPoint
<1>4. \A route \in Seq(Points) :
          /\ CommitReroute(r, route, Goal) \in RouteStates
          /\ CommitReroute(r, route, Goal).route = route
  <2> TAKE route \in Seq(Points)
  <2>1. r \in RouteStates /\ Goal \in Ends /\ route \in Seq(Points)
    BY <1>1, <1>2
  <2>2. Commits(r, route, Goal)
    BY <2>1, CommitsAre
  <2> QED
    BY <2>2 DEF Commits
<1>5. CASE PathFree(scene, Here, Goal)
  <2>1. a = Remembered(CommitReroute(r, <<>>, Goal), Direct)
    BY <1>1, <1>2, <1>5 DEF GatedPlan, r, passed
  <2>2. Direct \in Outputs
    BY <1>3, OutputsAre DEF Direct
  <2> QED
    BY <1>2, <1>3, <1>4, <1>5, <2>1, <2>2 DEF AnswersDirect, Remembered
<1>6. CASE ~PathFree(scene, Here, Goal) /\ ~NeedReroute(r, scene, Rules) /\ cached # NoOutput
  <2>1. a = [gate |-> NoteNoReroute(r), cached |-> cached, out |-> [cached EXCEPT !.did = FALSE]]
    BY <1>1, <1>2, <1>6 DEF GatedPlan, r, passed
  <2>2. a.gate \in RouteStates /\ a.gate.route = r.route /\ a.gate.last = r.last
    BY <1>1, <1>2, <1>3, <2>1, NotesAre
  <2>3. /\ ~TargetMoved(r, Goal) /\ r.route # <<>>
        /\ PathFree(scene, Here, Head(r.route)) /\ PathOpen(scene, Here, Head(r.route))
        /\ Rules.full => Legs(Joined(r.route, Goal)) \subseteq scene.free
    BY <1>2, <1>6 DEF NeedReroute, ActiveBlocked, LaterBlocked, PathFree, PathOpen
  <2>4. ~first /\ gate.route # <<>>
    BY <1>1, <2>3
  <2>5. cached \in Outputs /\ ~cached.free
    BY <1>1, <1>6, <2>4 DEF RouteInv
  <2>6. a.out \in Outputs /\ ~a.out.free /\ ~a.out.did
    BY <2>1, <2>5 DEF Outputs
  <2> QED
    BY <1>1, <1>2, <1>6, <2>1, <2>2, <2>3, <2>4, <2>6 DEF AnswersKept, r, passed
<1>7. CASE ~PathFree(scene, Here, Goal) /\ ~(~NeedReroute(r, scene, Rules) /\ cached # NoOutput)
  <2>1. PICK o \in GraphPlans(scene) : a = Remembered(CommitReroute(r, o.route, Goal), o)
    BY <1>1, <1>2, <1>7 DEF GatedPlan, r, passed
  <2>2. /\ o \in Outputs /\ ~o.free /\ o.did
        /\ o.route # <<>> => Joined(o.route, Goal) # <<Goal>>
    <3>1. CASE Escapes(scene)
      <4>1. o = Output(<<Aside, Goal>>, FALSE, TRUE, TRUE)
        BY <2>1, <3>1 DEF GraphPlans, EscapeOutput
      <4>2. Joined(<<Aside, Goal>>, Goal) # <<Goal>>
        BY DEF Joined
      <4> QED
        BY <1>3, <4>1, <4>2, OutputsAre
    <3>2. CASE ~Escapes(scene)
      <4>1. PICK route \in Found(scene.free, Goal) : o = Output(route, FALSE, TRUE, FALSE)
        BY <1>2, <1>7, <2>1, <3>2 DEF GraphPlans
      <4>2. route = <<>> \/ route \in Routes(Goal)
        BY <1>2, <4>1 DEF Found
      <4>3. route \in Seq(Points) /\ (route # <<>> => Joined(route, Goal) # <<Goal>>)
        BY <1>2, <1>3, <4>2, FoundRoutes
      <4> QED
        BY <4>1, <4>3, OutputsAre
    <3> QED
      BY <3>1, <3>2
  <2>3. o.route \in Seq(Points)
    BY <2>2 DEF Outputs
  <2>4. a.gate \in RouteStates /\ a.gate.route = o.route /\ a.cached = o /\ a.out = o
    BY <1>4, <2>1, <2>3 DEF Remembered
  <2> QED
    BY <1>2, <1>7, <2>2, <2>4 DEF AnswersBuilt
<1> QED
  BY <1>5, <1>6, <1>7

LEMMA UngatedAnswers ==
    ASSUME RouteInv, Graph, ~Rules.gated, NEW scene \in Scenes, NEW a \in Answers(scene)
    PROVE  /\ a.gate \in RouteStates /\ a.cached \in Outputs \cup {NoOutput}
           /\ AnswersAnew(a)
<1>1. PICK o \in GraphPlans(scene) : a = [gate |-> GateAtCall, cached |-> CacheAtCall, out |-> o]
  BY DEF Answers
<1>2. GateAtCall \in RouteStates /\ GateAtCall.route = <<>> /\ CacheAtCall \in Outputs \cup {NoOutput}
  <2>1. CASE first
    BY <2>1 DEF RouteInv, GateAtCall, CacheAtCall, Forgets
  <2>2. CASE ~first
    <3>1. Forgets
      BY <2>2, SetupFacts DEF Forgets
    <3> QED
      BY <3>1, GateAssumption DEF GateAtCall, CacheAtCall, NewRoute, RouteStates
  <2> QED
    BY <2>1, <2>2
<1>3. scene.end = Goal /\ [scene EXCEPT !.end = Goal] = scene /\ Goal \in Ends
  BY SceneFacts, GoalIsPoint
<1>4. \A route \in Found(scene.free, Goal) : route \in Seq(Points)
  <2>1. <<>> \in Seq(Points)
    OBVIOUS
  <2>2. \A route \in Routes(Goal) : route \in Seq(Points)
    BY <1>3, FoundRoutes
  <2> QED
    BY <1>3, <2>1, <2>2 DEF Found
<1>5. o \in Outputs /\ o.did /\ ~o.free
  <2>1. PICK route \in Seq(Points), escaped \in BOOLEAN : o = Output(route, FALSE, TRUE, escaped)
    <3>1. <<Aside, Goal>> \in Seq(Points) /\ <<Goal>> \in Seq(Points)
      BY GoalIsPoint
    <3> QED
      BY <1>1, <1>3, <1>4, <3>1 DEF GraphPlans, EscapeOutput
  <2> QED
    BY <2>1, OutputsAre
<1> QED
  BY <1>1, <1>2, <1>5 DEF AnswersAnew

--------------------------------------------------------------------------------
(* What _plan_call makes of an answer. *)

LEMMA NothingIsRead == Kind(NoOutput) = "failed" /\ AheadAfter(NoOutput) = ahead
  BY DEF Kind, FirstKind, LaterKind, AheadAfter

LEMMA Readings ==
    ASSUME NEW out \in Outputs, ahead \in Seq(Points)
    PROVE  /\ PathOf(out) \in Seq(Points) /\ AheadAfter(out) \in Seq(Points)
           /\ Kind(out) = "failed" => AheadAfter(out) = ahead
           /\ out.free => Kind(out) # "failed"
           /\ ~first /\ ~out.free /\ ~out.did => Kind(out) = "check" /\ AheadAfter(out) = ahead
           /\ ~out.free /\ out.did /\ out.route = <<>> => Kind(out) = "failed"
           /\ ~out.free /\ out.did /\ out.route # <<>> /\ PathOf(out) # <<Goal>> =>
                Kind(out) \in Built /\ AheadAfter(out) = PathOf(out)
<1>1. out # NoOutput /\ out.route \in Seq(Points) /\ out.free \in BOOLEAN /\ out.did \in BOOLEAN
  BY NoOutputAssumption DEF Outputs
<1>2. PathOf(out) \in Seq(Points)
  BY <1>1, JoinedProperties DEF PathOf
<1>3. AheadAfter(out) \in Seq(Points) /\ (Kind(out) = "failed" => AheadAfter(out) = ahead)
  BY <1>2 DEF AheadAfter
<1>4. Kind(out) \in Built => AheadAfter(out) = PathOf(out)
  BY DEF AheadAfter, Built
<1>5. Straight \in {"check", "switch_direct"}
  BY DEF Straight
<1>6. CASE first
  <2>1. Kind(out) = IF out.free \/ out.route # <<>> THEN "initial" ELSE "failed"
    BY <1>1, <1>6 DEF Kind, FirstKind
  <2> QED
    BY <1>2, <1>3, <1>4, <1>6, <2>1 DEF Built
<1>7. CASE ~first
  <2>1. Kind(out) = LaterKind(out)
    BY <1>7 DEF Kind
  <2>2. CASE out.free
    BY <1>1, <1>2, <1>3, <1>5, <2>1, <2>2 DEF LaterKind
  <2>3. CASE ~out.free /\ ~out.did
    <3>1. Kind(out) = "check"
      BY <1>1, <2>1, <2>3 DEF LaterKind
    <3>2. AheadAfter(out) = ahead
      BY <3>1 DEF AheadAfter
    <3> QED
      BY <1>2, <1>3, <2>3, <3>1, <3>2
  <2>4. CASE ~out.free /\ out.did /\ out.route = <<>>
    BY <1>1, <1>2, <1>3, <2>1, <2>4 DEF LaterKind
  <2>5. CASE ~out.free /\ out.did /\ out.route # <<>>
    <3>1. PathOf(out) # <<Goal>> => Kind(out) \in {"escape", "rebuild"}
      BY <1>1, <2>1, <2>5 DEF LaterKind
    <3> QED
      BY <1>2, <1>3, <1>4, <2>5, <3>1 DEF Built
  <2> QED
    BY <2>2, <2>3, <2>4, <2>5
<1> QED
  BY <1>6, <1>7

\* What a call leaves behind when scene was seen and a answered, as RouteInv needs it.
Agrees(scene, a) ==
    LET path == AheadAfter(a.out)
        s == SeenAfter(scene, a)
    IN  /\ a.gate \in RouteStates /\ a.cached \in Outputs \cup {NoOutput}
        /\ path \in Seq(Points)
        /\ first /\ Kind(a.out) = "failed" => a.gate.route = <<>> /\ path = <<>>
        /\ Follows(a.gate.route, path, FALSE)
        /\ a.gate.route # <<>> /\ a.cached # NoOutput => ~a.cached.free
        /\ ~Graph /\ ~setup.clearance /\ setup.policy = "event" /\ setup.period = 0 /\ a.gate.route # <<>> =>
              a.gate.last = s.builtFor /\ a.gate.last \in Ends
        /\ (Kind(a.out) = "check" /\ ~s.direct /\ s.synced /\ Rules.gated) =>
              /\ s.leg
              /\ ~TwoMeasures => s.reason # "active_blocked"
              /\ Graph /\ setup.policy = "event_route" => s.reason # "route_blocked"
        /\ (~setup.clearance /\ ~Graph /\ setup.policy = "event" /\ setup.period = 0
             /\ Kind(a.out) = "check" /\ ~s.direct) => s.drift <= DeadZone

LEMMA SeenFacts ==
    ASSUME NEW scene, NEW a
    PROVE  LET s == SeenAfter(scene, a)
           IN  /\ s.direct = PathFree(scene, Here, scene.end)
               /\ s.reason = Reason(scene)
               /\ s.leg = (ahead # <<>> /\ PathOpen(scene, Here, Head(ahead)))
               /\ s.synced = (Joined(a.gate.route, Goal) = ahead)
               /\ s.builtFor = IF Kind(a.out) \in Built THEN scene.end ELSE seen.builtFor
               /\ s.drift = Away(s.builtFor, scene.end)
  BY DEF SeenAfter

\* The planner raised: a waypoint may be gone from the gate, nothing else is.
LEMMA RaisedAgrees ==
    ASSUME RouteInv, NEW scene \in Scenes
    PROVE  Agrees(scene, Raised)
<1> DEFINE r == PopReached(GateAtCall, reached /\ ~first)
<1>1. /\ Raised.out = NoOutput /\ Raised.cached = CacheAtCall
      /\ Raised.gate = IF Graph /\ ~Rules.gated THEN GateAtCall ELSE r
  BY DEF Raised
<1>2. Kind(NoOutput) = "failed" /\ AheadAfter(NoOutput) = ahead /\ "failed" \notin Built
  BY NothingIsRead DEF Built
<1>3. /\ Raised.gate \in RouteStates
      /\ first => Raised.gate.route = <<>>
      /\ Follows(Raised.gate.route, ahead, FALSE)
      /\ Raised.gate.route # <<>> => Raised.cached = cached /\ gate.route # <<>> /\ Raised.gate.last = gate.last
  <2>1. CASE Graph /\ ~Rules.gated
    <3>1. GateAtCall \in RouteStates /\ GateAtCall.route = <<>>
      <4>1. CASE first
        BY <4>1 DEF RouteInv, GateAtCall, Forgets
      <4>2. CASE ~first
        BY <2>1, <4>2, SetupFacts, GateAssumption DEF Forgets, GateAtCall, NewRoute, RouteStates
      <4> QED
        BY <4>1, <4>2
    <3> QED
      BY <1>1, <2>1, <3>1 DEF Follows
  <2>2. CASE ~(Graph /\ ~Rules.gated)
    <3>1. Raised.gate = r
      BY <1>1, <2>2
    <3>2. CASE Forgets
      BY <3>1, <3>2, CallFacts DEF Follows
    <3>3. CASE ~Forgets
      <4>1. CacheAtCall = cached
        BY <3>3 DEF CacheAtCall
      <4>2. /\ r \in RouteStates /\ r.last = gate.last /\ Follows(r.route, ahead, FALSE)
            /\ gate.route = <<>> => r.route = <<>>
            /\ first => r.route = <<>>
        BY <3>3, CallFacts
      <4> QED
        BY <1>1, <3>1, <4>1, <4>2
    <3> QED
      BY <3>2, <3>3
  <2> QED
    BY <2>1, <2>2
<1>4. Raised.cached \in Outputs \cup {NoOutput}
  BY <1>1, CallFacts
<1> HIDE DEF r
<1>5. SeenAfter(scene, Raised).builtFor = seen.builtFor
  BY <1>1, <1>2, SeenFacts
<1> QED
  BY <1>1, <1>2, <1>3, <1>4, <1>5 DEF Agrees, RouteInv

LEMMA DirectAgrees ==
    ASSUME RouteInv, NEW scene \in Scenes, NEW a,
           a.gate \in RouteStates, a.cached \in Outputs \cup {NoOutput}, AnswersDirect(scene, a)
    PROVE  Agrees(scene, a)
<1>1. Direct \in Outputs /\ Direct.free
  BY OutputsAre, EmptySeq DEF Direct
<1>2. AheadAfter(a.out) \in Seq(Points) /\ Kind(a.out) # "failed"
  BY <1>1, Readings DEF AnswersDirect, RouteInv
<1>3. SeenAfter(scene, a).direct /\ a.gate.route = <<>>
  BY SeenFacts DEF AnswersDirect
<1> QED
  BY <1>2, <1>3 DEF Agrees, Follows

LEMMA AnewAgrees ==
    ASSUME RouteInv, NEW scene \in Scenes, NEW a,
           a.gate \in RouteStates, a.cached \in Outputs \cup {NoOutput}, AnswersAnew(a)
    PROVE  Agrees(scene, a)
<1>1. /\ AheadAfter(a.out) \in Seq(Points)
      /\ Kind(a.out) = "failed" => AheadAfter(a.out) = ahead
  BY Readings DEF AnswersAnew, RouteInv
<1> QED
  BY <1>1 DEF Agrees, Follows, AnswersAnew, RouteInv

LEMMA BuiltAgrees ==
    ASSUME RouteInv, NEW scene \in Scenes, NEW a,
           a.gate \in RouteStates, a.cached \in Outputs \cup {NoOutput}, AnswersBuilt(scene, a)
    PROVE  Agrees(scene, a)
<1> DEFINE out == a.out
<1>1. /\ out \in Outputs /\ ~out.free /\ out.did /\ a.gate.route = out.route
      /\ out.route \in Seq(Points) /\ scene.end \in Ends
      /\ out.route # <<>> => PathOf(out) # <<Goal>>
      /\ PathOf(out) = Joined(out.route, Goal)
      /\ a.cached \in {out, NoOutput}
      /\ ~Graph => a.gate.last = scene.end
      /\ ahead \in Seq(Points)
  BY SceneFacts DEF AnswersBuilt, Outputs, PathOf, RouteInv
<1>2. /\ AheadAfter(out) \in Seq(Points)
      /\ Kind(out) = "failed" => AheadAfter(out) = ahead
      /\ out.route = <<>> => Kind(out) = "failed"
      /\ out.route # <<>> => Kind(out) \in Built /\ AheadAfter(out) = PathOf(out)
  BY <1>1, Readings
<1>3. Kind(out) # "check" /\ (Kind(out) = "failed" => out.route = <<>>)
  BY <1>2 DEF Built
<1>4. first /\ Kind(out) = "failed" => a.gate.route = <<>> /\ AheadAfter(out) = <<>>
  BY <1>1, <1>2, <1>3 DEF RouteInv
<1>5. Follows(a.gate.route, AheadAfter(out), FALSE)
  <2>1. CASE out.route = <<>>
    BY <1>1, <2>1 DEF Follows
  <2>2. CASE out.route # <<>>
    <3>1. AheadAfter(out) = Joined(a.gate.route, Goal)
      BY <1>1, <1>2, <2>2
    <3>2. Len(Joined(a.gate.route, Goal)) \in Nat
      BY <1>1, JoinedProperties
    <3> QED
      BY <3>1, <3>2 DEF Follows, EndsWith
  <2> QED
    BY <2>1, <2>2
<1>6. a.gate.route # <<>> => SeenAfter(scene, a).builtFor = scene.end
  BY <1>1, <1>2, SeenFacts
<1> QED
  BY <1>1, <1>2, <1>3, <1>4, <1>5, <1>6 DEF Agrees

LEMMA KeptAgrees ==
    ASSUME RouteInv, NEW scene \in Scenes, NEW a,
           a.gate \in RouteStates, a.cached \in Outputs \cup {NoOutput}, AnswersKept(scene, a)
    PROVE  Agrees(scene, a)
<1> DEFINE r == PopReached(gate, reached /\ ~first)
           s == SeenAfter(scene, a)
<1>1. /\ ~first /\ Rules.gated /\ ~PathFree(scene, Here, scene.end)
      /\ a.gate.route = r.route /\ a.gate.last \in {r.last, scene.end} /\ r.route # <<>>
      /\ a.out \in Outputs /\ ~a.out.free /\ ~a.out.did
      /\ a.cached \in {cached, NoOutput}
      /\ PathOpen(scene, Here, Head(r.route))
      /\ ~TwoMeasures => PathFree(scene, Here, Head(r.route))
      /\ Graph /\ Rules.full => Legs(Joined(r.route, Goal)) \subseteq scene.free
      /\ ~Graph /\ ~setup.clearance /\ setup.policy = "event" /\ setup.period = 0 =>
            ~TargetMoved(r, scene.end) /\ a.gate.last = r.last
  BY DEF AnswersKept
<1>2. Kind(a.out) = "check" /\ AheadAfter(a.out) = ahead /\ "check" \notin Built
  BY <1>1, Readings DEF RouteInv, Built
<1>3. /\ r \in RouteStates /\ r.last = gate.last /\ Follows(r.route, ahead, FALSE)
      /\ gate.route # <<>>
  <2>1. ~Forgets
    BY <1>1, SetupFacts
  <2> QED
    BY <1>1, <2>1, CallFacts
<1>4. /\ s.builtFor = seen.builtFor /\ s.drift = Away(seen.builtFor, scene.end) /\ s.reason = Reason(scene)
      /\ s.leg = (ahead # <<>> /\ PathOpen(scene, Here, Head(ahead)))
  BY <1>2, SeenFacts
<1>5. s.synced = (Joined(r.route, Goal) = ahead)
  BY <1>1, SeenFacts
<1> HIDE DEF r, s
<1>6. ASSUME s.synced
      PROVE  /\ s.leg
             /\ ~TwoMeasures => s.reason # "active_blocked"
             /\ Graph /\ setup.policy = "event_route" => s.reason # "route_blocked"
  <2>1. ahead = Joined(r.route, Goal)
    BY <1>5, <1>6
  <2>2. r.route \in Seq(Points) /\ Len(r.route) \in Nat \ {0}
    BY <1>1, <1>3, LenProperties, EmptySeq DEF RouteStates
  <2>3. Len(ahead) \in Nat \ {0} /\ ahead[1] = r.route[1]
    BY <2>1, <2>2, JoinedProperties
  <2>4. ahead # <<>> /\ Head(ahead) = Head(r.route)
    <3>1. ahead \in Seq(Points) /\ Len(<<>>) = 0
      BY DEF RouteInv
    <3> QED
      BY <1>1, <2>2, <2>3, <3>1
  <2>5. ~TwoMeasures =>
          Reason(scene) = IF Legs(ahead) \subseteq scene.free THEN "other" ELSE "route_blocked"
    BY <1>1, <2>4 DEF Reason
  <2>6. Graph /\ setup.policy = "event_route" => Legs(ahead) \subseteq scene.free
    BY <1>1, <2>1, SetupFacts
  <2>7. Graph => ~TwoMeasures
    BY DEF TwoMeasures
  <2> QED
    BY <1>1, <1>4, <2>4, <2>5, <2>6, <2>7
<1>7. ~Graph /\ ~setup.clearance /\ setup.policy = "event" /\ setup.period = 0 =>
         a.gate.last = s.builtFor /\ a.gate.last \in Ends
  BY <1>1, <1>3, <1>4 DEF RouteInv
<1>8. ASSUME ~Graph, ~setup.clearance, setup.policy = "event", setup.period = 0
      PROVE  s.drift <= DeadZone
  <2>1. r.last = seen.builtFor /\ r.last \in Ends /\ scene.end \in Ends
    BY <1>1, <1>3, <1>4, <1>7, <1>8, SceneFacts
  <2>2. MaxShift \in Nat /\ DeadZone \in Nat /\ r.last # NoEnd
    BY <2>1, GateAssumption DEF Ends
  <2>3. ~(r.last - scene.end > DeadZone) /\ ~(scene.end - r.last > DeadZone)
    BY <1>1, <1>8, <2>2 DEF TargetMoved
  <2> QED
    BY <1>4, <2>1, <2>2, <2>3 DEF Away, Ends
<1>9. a.gate.route # <<>> /\ a.cached # NoOutput => ~a.cached.free
  BY <1>1, <1>3 DEF RouteInv
<1>10. Follows(a.gate.route, AheadAfter(a.out), FALSE) /\ AheadAfter(a.out) \in Seq(Points)
  BY <1>1, <1>2, <1>3 DEF RouteInv
<1> QED
  BY <1>1, <1>2, <1>6, <1>7, <1>8, <1>9, <1>10 DEF Agrees, s

--------------------------------------------------------------------------------
(* The invariant. *)

LEMMA ConsultKeepsRoutes ==
    ASSUME RouteInv, Consult
    PROVE  RouteInv'
<1>0. PICK scene \in Scenes : \E a \in Answers(scene) \cup {Raised} :
          /\ gate' = a.gate /\ cached' = a.cached
          /\ kind' = Kind(a.out)
          /\ ahead' = AheadAfter(a.out)
          /\ first' = (first /\ kind' = "failed")
          /\ seen' = SeenAfter(scene, a)
  BY DEF Consult
<1>1. PICK a \in Answers(scene) \cup {Raised} :
          /\ gate' = a.gate /\ cached' = a.cached
          /\ kind' = Kind(a.out)
          /\ ahead' = AheadAfter(a.out)
          /\ first' = (first /\ kind' = "failed")
          /\ seen' = SeenAfter(scene, a)
  BY <1>0
<1>2. reached' = FALSE /\ setup' = setup
  BY DEF Consult
<1>3. Agrees(scene, a)
  <2>1. CASE a = Raised
    BY <2>1, RaisedAgrees
  <2>2. CASE a \in Answers(scene) /\ ~Graph
    BY <2>2, VoronoiAnswers, DirectAgrees, KeptAgrees, BuiltAgrees
  <2>3. CASE a \in Answers(scene) /\ Graph /\ Rules.gated
    BY <2>3, GatedAnswers, DirectAgrees, KeptAgrees, BuiltAgrees
  <2>4. CASE a \in Answers(scene) /\ Graph /\ ~Rules.gated
    BY <2>4, UngatedAnswers, AnewAgrees
  <2> QED
    BY <2>1, <2>2, <2>3, <2>4
<1>4. (Graph <=> Graph') /\ (Rules.gated <=> Rules'.gated) /\ (TwoMeasures <=> TwoMeasures')
  BY <1>2 DEF Graph, Rules, TwoMeasures
<1>5. /\ setup' \in Setups
      /\ gate' \in RouteStates /\ cached' \in Outputs \cup {NoOutput}
      /\ ahead' \in Seq(Points) /\ reached' \in BOOLEAN /\ first' \in BOOLEAN
  BY <1>1, <1>2, <1>3 DEF Agrees, RouteInv
<1>6. first' => gate'.route = <<>> /\ ahead' = <<>> /\ ~reached'
  BY <1>1, <1>2, <1>3 DEF Agrees
<1>7. /\ Follows(gate'.route, ahead', reached')
      /\ gate'.route # <<>> /\ cached' # NoOutput => ~cached'.free
  BY <1>1, <1>2, <1>3 DEF Agrees
<1>8. ~Graph' /\ ~setup'.clearance /\ setup'.policy = "event" /\ setup'.period = 0 /\ gate'.route # <<>> =>
          gate'.last = seen'.builtFor /\ gate'.last \in Ends
  BY <1>1, <1>2, <1>3, <1>4 DEF Agrees
<1>9. KeptRouteIsClear' /\ DriftIsBounded'
  BY <1>1, <1>2, <1>3, <1>4 DEF Agrees, KeptRouteIsClear, DriftIsBounded, SmallMovesAddUp
<1> QED
  BY <1>5, <1>6, <1>7, <1>8, <1>9 DEF RouteInv, Follows

LEMMA DriveKeepsRoutes ==
    ASSUME RouteInv, Drive
    PROVE  RouteInv'
<1>1. PICK k \in 1..Len(ahead) : ahead' = SubSeq(ahead, k + 1, Len(ahead))
  BY DEF Drive
<1>2. /\ ~first /\ reached' = TRUE /\ kind' = "none" /\ seen' = NothingSeen(seen.builtFor)
      /\ setup' = setup /\ gate' = gate /\ cached' = cached /\ first' = first
  BY DEF Drive
<1>3. gate.route \in Seq(Points)
  BY DEF RouteInv, RouteStates
<1>4. ahead' \in Seq(Points) /\ Follows(gate.route, ahead', TRUE)
  BY <1>1, <1>3, DrivingKeepsFollowing DEF RouteInv
<1>5. seen'.builtFor = seen.builtFor
  BY <1>2 DEF NothingSeen
<1>6. KeptRouteIsClear' /\ DriftIsBounded'
  BY <1>2 DEF KeptRouteIsClear, DriftIsBounded, SmallMovesAddUp
<1>7. Graph <=> Graph'
  BY <1>2 DEF Graph
<1> QED
  BY <1>2, <1>4, <1>5, <1>6, <1>7 DEF RouteInv, Follows

LEMMA RouteInvHolds == Spec => []RouteInv
<1>1. Init => RouteInv
  <2> SUFFICES ASSUME Init PROVE RouteInv
    OBVIOUS
  <2>1. gate \in RouteStates /\ gate.route = <<>>
    BY GateAssumption DEF Init, NewRoute, RouteStates
  <2>2. ahead \in Seq(Points) /\ ahead = <<>>
    BY DEF Init
  <2>3. KeptRouteIsClear /\ DriftIsBounded
    BY DEF Init, KeptRouteIsClear, DriftIsBounded, SmallMovesAddUp
  <2>4. Follows(gate.route, ahead, reached)
    BY <2>1 DEF Follows
  <2> QED
    BY <2>1, <2>2, <2>3, <2>4 DEF Init, RouteInv
<1>2. RouteInv /\ [Next]_vars => RouteInv'
  <2>1. ASSUME RouteInv, UNCHANGED vars
        PROVE  RouteInv'
    BY <2>1 DEF RouteInv, vars, Follows, KeptRouteIsClear, DriftIsBounded, SmallMovesAddUp,
                      Graph, Rules, TwoMeasures
  <2> QED
    BY <2>1, ConsultKeepsRoutes, DriveKeepsRoutes DEF Next
<1> QED
  BY <1>1, <1>2, PTL DEF Spec

\* The gate of a planner is never on another route than its executor: what it
\* holds ends with what the executor has left, through every pop, refusal,
\* escape and exception (commit_reroute, robot_reached_current_waypoint,
\* _plan_call, _advance_waypoint).
THEOREM GateIsNeverAstray == Spec => []GateFollowsExecutor
<1>1. RouteInv => GateFollowsExecutor
  <2> SUFFICES ASSUME RouteInv, gate.route # <<>>
               PROVE  IsSuffix(ahead, Joined(gate.route, Goal))
    BY DEF GateFollowsExecutor
  <2>1. gate.route \in Seq(Points) /\ ahead \in Seq(Points) /\ EndsWith(Joined(gate.route, Goal), ahead)
    BY DEF RouteInv, RouteStates, Follows
  <2>2. Joined(gate.route, Goal) \in Seq(Points)
    BY <2>1, JoinedProperties
  <2> QED
    BY <2>1, <2>2, EndsWithIsSuffix
<1> QED
  BY <1>1, RouteInvHolds, PTL

\* A route a gated planner keeps, where gate and executor agree on it, has an
\* active leg that touches no obstacle; that leg keeps the planning clearance too
\* unless a Voronoi planner with such a clearance kept it, and under event_route a
\* graph planner's route has no blocked leg at all (evaluate_route,
\* _previous_path_is_valid).
THEOREM KeptRoutesAreClear == Spec => []KeptRouteIsClear
<1>1. RouteInv => KeptRouteIsClear
  BY DEF RouteInv
<1> QED
  BY <1>1, RouteInvHolds, PTL

\* Without a planning clearance a kept Voronoi route was built for an endpoint
\* within the dead zone of the present one, however many small moves came between
\* (note_no_reroute leaves last_target_pose alone, and the event policy never
\* commits a reused route).
THEOREM DriftStaysBounded == Spec => []DriftIsBounded
<1>1. RouteInv => DriftIsBounded
  BY DEF RouteInv
<1> QED
  BY <1>1, RouteInvHolds, PTL

--------------------------------------------------------------------------------
(* The planners. Induction over data: least counterexamples. *)

\* The order on the naturals as a relation, for WFMin.
NatOrder == {p \in Nat \X Nat : p[1] < p[2]}

\* Induction over data, first form: a set of naturals has a least element, so a
\* property that fails somewhere fails first somewhere.
LEMMA LeastElement ==
    ASSUME NEW S \in SUBSET Nat, S # {}
    PROVE  \E n \in S : \A m \in S : n <= m
<1>1. IsWellFoundedOn(NatOrder, Nat)
  BY NatLessThanWellFounded, Zenon DEF NatOrder, OpToRel
<1>2. PICK n \in S : \A m \in S : ~(<<m, n>> \in NatOrder)
  BY <1>1, WFMin
<1>3. ASSUME NEW m \in S PROVE n <= m
  <2>1. n \in Nat /\ m \in Nat /\ <<m, n>> \notin NatOrder
    BY <1>2
  <2> QED  BY <2>1 DEF NatOrder
<1> QED  BY <1>3

\* Second form: a set that holds 0 and every successor of its members.
LEMMA SetInduction ==
    ASSUME NEW S, 0 \in S, \A n \in S \cap Nat : n + 1 \in S
    PROVE  \A n \in Nat : n \in S
<1> SUFFICES ASSUME NEW k \in Nat \ S PROVE FALSE
  OBVIOUS
<1>1. PICK n \in Nat \ S : \A m \in Nat \ S : n <= m
  BY LeastElement
<1>2. n - 1 \in Nat \ S
  BY <1>1
<1> QED  BY <1>1, <1>2

\* What \div and % of a positive divisor are.
LEMMA DivMod ==
    ASSUME NEW a \in Int, NEW b \in Nat \ {0}
    PROVE  /\ a \div b \in Int /\ a % b \in 0..(b - 1)
           /\ a = b * (a \div b) + (a % b)
OBVIOUS

\* A multiple is divided without rest.
LEMMA DivBy ==
    ASSUME NEW k \in Int, NEW b \in Nat \ {0}
    PROVE  (k * b) \div b = k
<1> DEFINE a == k * b
           q == a \div b
           r == a % b
<1>1. a \in Int
  OBVIOUS
<1>2. q \in Int /\ r \in 0..(b - 1) /\ a = b * q + r
  BY <1>1, DivMod
<1>3. (k - q) * b = r  BY <1>1, <1>2
<1>4. k - q = 0  BY <1>2, <1>3
<1> QED BY <1>2, <1>4

--------------------------------------------------------------------------------
(* Points and directions: Plane. *)

\* f is the table of Gcd for second arguments up to N.
GcdFcn(f, N) ==
   f = [p \in Int \X (0 .. N) |->
            IF p[2] = 0 THEN Size(p[1]) ELSE f[<<p[2], p[1] % p[2]>>]]

\* The recursion of Gcd has a solution: its second argument falls.
LEMMA GcdExists == \A N \in Nat : \E f : GcdFcn(f, N)
<1> DEFINE S == {N \in Nat : \E f : GcdFcn(f, N)}
<1>1. 0 \in S
  <2> DEFINE f == [p \in Int \X (0 .. 0) |-> Size(p[1])]
  <2>1. GcdFcn(f, 0)  BY DEF GcdFcn
  <2> QED  BY <2>1
<1>2. ASSUME NEW n \in S \cap Nat PROVE n + 1 \in S
  <2>1. PICK f : GcdFcn(f, n)  OBVIOUS
  <2> DEFINE g == [p \in Int \X (0 .. (n + 1)) |->
                     IF p[2] = n + 1 THEN f[<<n + 1, p[1] % (n + 1)>>] ELSE f[p]]
  <2>2. ASSUME NEW m \in Int, NEW k \in 0 .. (n + 1)
        PROVE  g[<<m, k>>] = IF k = 0 THEN Size(m) ELSE g[<<k, m % k>>]
    <3>1. CASE k = 0  BY <3>1, <2>1 DEF GcdFcn
    <3>2. CASE k # 0
      <4>1. m % k \in 0..(k-1)  BY <3>2, DivMod
      <4>2. CASE k = n + 1  BY <4>1, <4>2
      <4>3. CASE k # n + 1  BY <4>1, <4>3, <3>2, <2>1 DEF GcdFcn
      <4> QED  BY <4>2, <4>3
    <3> QED  BY <3>1, <3>2
  <2>3. g = [p \in Int \X (0 .. (n + 1)) |-> g[p]]
    OBVIOUS
  <2> HIDE DEF g
  <2>4. ASSUME NEW p \in Int \X (0 .. (n + 1))
        PROVE  g[p] = IF p[2] = 0 THEN Size(p[1]) ELSE g[<<p[2], p[1] % p[2]>>]
    <3>1. p = <<p[1], p[2]>> /\ p[1] \in Int /\ p[2] \in 0 .. (n + 1)  OBVIOUS
    <3> QED  BY <3>1, <2>2
  <2>5. GcdFcn(g, n + 1)  BY <2>3, <2>4, Zenon DEF GcdFcn
  <2> QED  BY <2>5
<1> HIDE DEF S
<1>3. \A n \in Nat : n \in S  BY <1>1, <1>2, SetInduction
<1> QED  BY <1>3 DEF S

\* g divides a and b.
Divides(g, a, b) == /\ g \in Nat /\ (g = 0 => a = 0 /\ b = 0)
                    /\ \E k, l \in Int : a = k * g /\ b = l * g

\* Gcd is a common divisor, 0 only of zeros.
LEMMA GcdDivides ==
    ASSUME NEW a \in Int, NEW b \in Int
    PROVE  Divides(Gcd(a, b), a, b)
<1> DEFINE N == Size(b)
           f == CHOOSE h : GcdFcn(h, N)
<1>1. N \in Nat  BY DEF Size
<1>2. GcdFcn(f, N)  BY <1>1, GcdExists
<1>3. Gcd(a, b) = f[<<a, N>>]  BY Zenon DEF Gcd, GcdFcn
<1> HIDE DEF f
<1> DEFINE Bad == {n \in 0 .. N : \E m \in Int : ~Divides(f[<<m, n>>], m, n)}
<1>4. ASSUME Bad # {} PROVE FALSE
  <2>1. PICK n \in Bad : \A k \in Bad : n <= k
    <3>1. Bad \in SUBSET Nat  BY <1>1
    <3> HIDE DEF Bad
    <3> QED  BY <1>4, <3>1, LeastElement
  <2>2. PICK m \in Int : ~Divides(f[<<m, n>>], m, n)
    BY <2>1
  <2>3. n \in Nat /\ n \in 0 .. N  BY <1>1
  <2>4. CASE n = 0
    <3>1. f[<<m, n>>] = Size(m)  BY <1>1, <1>2, <2>4 DEF GcdFcn
    <3>2. m = (IF m < 0 THEN -1 ELSE 1) * Size(m) /\ n = 0 * Size(m)
      BY <2>4 DEF Size
    <3>3. Size(m) \in Nat /\ (Size(m) = 0 => m = 0)  BY DEF Size
    <3> QED  BY <2>2, <2>4, <3>1, <3>2, <3>3 DEF Divides
  <2>5. CASE n # 0
    <3> DEFINE r == m % n
               q == m \div n
               g == f[<<n, r>>]
    <3>1. r \in 0 .. (n - 1) /\ q \in Int /\ m = n * q + r
      BY <2>3, <2>5, DivMod
    <3>2. f[<<m, n>>] = g
      BY <1>1, <1>2, <2>3, <2>5 DEF GcdFcn
    <3>3. Divides(g, n, r)
      <4>1. r \in 0 .. N /\ r \notin Bad  BY <1>1, <2>1, <2>3, <3>1
      <4> QED  BY <2>3, <4>1
    <3> HIDE DEF g, r, q
    <3>4. PICK k \in Int, l \in Int : n = k * g /\ r = l * g
      BY <3>3 DEF Divides
    <3>5. g \in Nat /\ g # 0
      BY <3>3, <2>5 DEF Divides
    <3>6. m = (k * q + l) * g
      BY <3>1, <3>4, <3>5
    <3>7. k * q + l \in Int
      BY <3>1
    <3>8. Divides(g, m, n)
      BY <3>4, <3>5, <3>6, <3>7 DEF Divides
    <3> QED  BY <2>2, <3>2, <3>8
  <2> QED  BY <2>4, <2>5
<1>5. Divides(f[<<a, N>>], a, N)
  BY <1>1, <1>4
<1>6. PICK k \in Int, l \in Int : a = k * Gcd(a, b) /\ N = l * Gcd(a, b)
  BY <1>3, <1>5 DEF Divides
<1>7. Gcd(a, b) \in Nat /\ (Gcd(a, b) = 0 => a = 0 /\ b = 0)
  BY <1>3, <1>5 DEF Divides, Size
<1>8. b = (IF b < 0 THEN -l ELSE l) * Gcd(a, b)
  BY <1>6, <1>7 DEF Size
<1> QED  BY <1>6, <1>7, <1>8 DEF Divides

\* A point <<x, y, d>> lies at (x / d, y / d).
Places == Int \X Int \X (Nat \ {0})

\* Reducing a point keeps its denominator positive.
LEMMA ReducedIsPoint ==
    ASSUME NEW p \in Places
    PROVE  Reduced(p) \in Places
<1> DEFINE h == Gcd(p[1], p[2])
           g == Gcd(h, p[3])
<1>1. p[1] \in Int /\ p[2] \in Int /\ p[3] \in Nat \ {0}  BY DEF Places
<1>2. h \in Int
  <2>1. Divides(h, p[1], p[2])  BY <1>1, GcdDivides
  <2> QED  BY <2>1 DEF Divides
<1>3. Divides(g, h, p[3])  BY <1>1, <1>2, GcdDivides
<1> HIDE DEF g, h
<1>4. PICK l \in Int : p[3] = l * g  BY <1>3 DEF Divides
<1>5. g \in Nat \ {0}  BY <1>1, <1>3 DEF Divides
<1>6. l > 0  BY <1>1, <1>4, <1>5
<1>7. p[3] \div g = l  BY <1>4, <1>5, DivBy
<1>8. p[1] \div g \in Int /\ p[2] \div g \in Int  BY <1>1, <1>5, DivMod
<1>9. Reduced(p) = <<p[1] \div g, p[2] \div g, p[3] \div g>>
  BY DEF Reduced, g, h
<1> QED  BY <1>6, <1>7, <1>8, <1>9 DEF Places

\* A direction is the offset of the two points but for a positive factor.
LEMMA DirectionIsOffset ==
    ASSUME NEW p \in Places, NEW q \in Places
    PROVE  \E s \in Nat \ {0}, dx \in Int, dy \in Int :
              /\ Direction(p, q) = <<dx, dy>>
              /\ q[1] * p[3] - p[1] * q[3] = s * dx
              /\ q[2] * p[3] - p[2] * q[3] = s * dy
<1> DEFINE x == q[1] * p[3] - p[1] * q[3]
           y == q[2] * p[3] - p[2] * q[3]
           g == Gcd(x, y)
<1>1. x \in Int /\ y \in Int  BY DEF Places
<1>2. Direction(p, q) = IF g = 0 THEN <<0, 0>> ELSE <<x \div g, y \div g>>
  BY DEF Direction
<1>3. Divides(g, x, y)  BY <1>1, GcdDivides
<1> HIDE DEF x, y, g
<1>4. CASE g = 0
  <2>1. x = 1 * 0 /\ y = 1 * 0  BY <1>3, <1>4 DEF Divides
  <2> QED  BY <1>2, <1>4, <2>1 DEF x, y
<1>5. CASE g # 0
  <2>1. PICK k \in Int, l \in Int : x = k * g /\ y = l * g  BY <1>3 DEF Divides
  <2>2. g \in Nat \ {0}  BY <1>3, <1>5 DEF Divides
  <2>3. x \div g = k /\ y \div g = l  BY <2>1, <2>2, DivBy
  <2>4. x = g * k /\ y = g * l  BY <2>1, <2>2
  <2> QED  BY <1>2, <1>5, <2>2, <2>3, <2>4 DEF x, y
<1> QED  BY <1>4, <1>5

--------------------------------------------------------------------------------
(* Polygons as sequences, and the folds that cut them. *)

\* f is the table of the prefixes of FlattenSeq.
FlatFcn(f, seqs, n) ==
    f = [i \in 1 .. n |-> IF i = 1 THEN seqs[i] ELSE f[i - 1] \o seqs[i]]

\* The recursion of FlattenSeq has a solution.
LEMMA FlatExists ==
    ASSUME NEW seqs
    PROVE  \A n \in Nat : \E f : FlatFcn(f, seqs, n)
<1> DEFINE S == {n \in Nat : \E f : FlatFcn(f, seqs, n)}
<1>1. 0 \in S
  <2> DEFINE f == [i \in 1 .. 0 |-> seqs]
  <2>1. FlatFcn(f, seqs, 0)  BY DEF FlatFcn
  <2> QED  BY <2>1
<1>2. ASSUME NEW n \in S \cap Nat PROVE n + 1 \in S
  <2>1. PICK f : FlatFcn(f, seqs, n)  OBVIOUS
  <2> DEFINE g == [i \in 1 .. (n + 1) |->
                     IF i = n + 1 THEN IF i = 1 THEN seqs[i] ELSE f[i - 1] \o seqs[i]
                     ELSE f[i]]
  <2>2. ASSUME NEW i \in 1 .. (n + 1)
        PROVE  g[i] = IF i = 1 THEN seqs[i] ELSE g[i - 1] \o seqs[i]
    <3>1. CASE i = n + 1  BY <3>1
    <3>2. CASE i # n + 1
      <4>1. i \in 1 .. n /\ i - 1 # n + 1 /\ g[i] = f[i]  BY <3>2
      <4>2. i # 1 => g[i - 1] = f[i - 1]  BY <4>1
      <4>3. f[i] = IF i = 1 THEN seqs[i] ELSE f[i - 1] \o seqs[i]  BY <2>1, <4>1 DEF FlatFcn
      <4> QED  BY <4>1, <4>2, <4>3, Zenon
    <3> QED  BY <3>1, <3>2
  <2>3. g = [i \in 1 .. (n + 1) |-> g[i]]  OBVIOUS
  <2> HIDE DEF g
  <2>4. FlatFcn(g, seqs, n + 1)  BY <2>2, <2>3, Zenon DEF FlatFcn
  <2> QED  BY <2>4
<1> HIDE DEF S
<1>3. \A n \in Nat : n \in S  BY <1>1, <1>2, SetInduction
<1> QED  BY <1>3 DEF S

\* FlattenSeq by its prefixes.
LEMMA FlattenTable ==
    ASSUME NEW S, NEW seqs \in Seq(Seq(S))
    PROVE  \E f \in [0 .. Len(seqs) -> Seq(S)] :
              /\ f[0] = <<>>
              /\ \A i \in 1 .. Len(seqs) : f[i] = f[i - 1] \o seqs[i]
              /\ FlattenSeq(seqs) = f[Len(seqs)]
<1> DEFINE n == Len(seqs)
           g == CHOOSE h : FlatFcn(h, seqs, n)
           f == [i \in 0 .. n |-> IF i = 0 THEN <<>> ELSE g[i]]
<1>1. n \in Nat /\ \A i \in 1 .. n : seqs[i] \in Seq(S)  OBVIOUS
<1>2. FlatFcn(g, seqs, n)  BY <1>1, FlatExists
<1>3. FlattenSeq(seqs) = f[n]
  <2>1. CASE n = 0
    <3>1. seqs = <<>>  BY <2>1
    <3> QED  BY <2>1, <3>1 DEF FlattenSeq
  <2>2. CASE n # 0
    <3>1. FlattenSeq(seqs) = g[n]  BY <2>2, Zenon DEF FlattenSeq, FlatFcn
    <3> HIDE DEF g
    <3> QED  BY <1>1, <2>2, <3>1
  <2> QED  BY <2>1, <2>2
<1>4. ASSUME NEW i \in 1 .. n PROVE g[i] = IF i = 1 THEN seqs[i] ELSE g[i - 1] \o seqs[i]
  BY <1>2 DEF FlatFcn
<1> HIDE DEF g
<1>5. f[0] = <<>>  BY <1>1
<1>6. ASSUME NEW i \in 1 .. n, f[i - 1] \in Seq(S) PROVE f[i] = f[i - 1] \o seqs[i] /\ f[i] \in Seq(S)
  <2>1. i \in Nat /\ i # 0 /\ f[i] = g[i] /\ seqs[i] \in Seq(S)  BY <1>1
  <2>2. CASE i = 1
    <3>1. f[i - 1] = <<>> /\ g[i] = seqs[i]  BY <1>4, <1>5, <2>2
    <3>2. <<>> \o seqs[i] = seqs[i]  BY <2>1
    <3> QED  BY <2>1, <3>1, <3>2
  <2>3. CASE i # 1
    <3>0. i - 1 \in 0 .. n /\ i - 1 # 0  BY <1>1, <2>3
    <3>1. f[i - 1] = g[i - 1] /\ g[i] = g[i - 1] \o seqs[i]  BY <1>4, <2>3, <3>0
    <3>2. f[i - 1] \o seqs[i] \in Seq(S)  BY <1>6, <2>1, ConcatProperties
    <3> QED  BY <2>1, <3>1, <3>2
  <2> QED  BY <2>2, <2>3
<1> DEFINE T == {m \in Nat : m \in 0 .. n => f[m] \in Seq(S)}
<1>7. \A m \in Nat : m \in T
  <2>1. 0 \in T  BY <1>5
  <2>2. ASSUME NEW m \in T \cap Nat PROVE m + 1 \in T
    <3> SUFFICES ASSUME m + 1 \in 0 .. n PROVE f[m + 1] \in Seq(S)  OBVIOUS
    <3>1. m + 1 \in 1 .. n /\ (m + 1) - 1 = m /\ m \in 0 .. n  BY <1>1
    <3>2. f[m] \in Seq(S)  BY <3>1
    <3> HIDE DEF f
    <3> QED  BY <1>6, <3>1, <3>2
  <2> HIDE DEF T
  <2> QED  BY <2>1, <2>2, SetInduction
<1>8. \A i \in 0 .. n : f[i] \in Seq(S)
  <2> TAKE i \in 0 .. n
  <2>1. i \in Nat  BY <1>1
  <2>2. i \in T  BY <1>7, <2>1
  <2> HIDE DEF f
  <2> QED  BY <2>1, <2>2
<1>9. f = [i \in 0 .. n |-> f[i]]  OBVIOUS
<1> HIDE DEF f
<1>10. \A i \in 1 .. n : f[i] = f[i - 1] \o seqs[i]
  <2> TAKE i \in 1 .. n
  <2>1. i - 1 \in 0 .. n  BY <1>1
  <2> QED  BY <1>6, <1>8, <2>1
<1>11. f \in [0 .. n -> Seq(S)]  BY <1>8, <1>9
<1> QED  BY <1>3, <1>5, <1>10, <1>11

\* What is in a flattened sequence is what is in its pieces.
LEMMA FlattenRange ==
    ASSUME NEW S, NEW seqs \in Seq(Seq(S)), NEW x
    PROVE  (\E k \in DOMAIN FlattenSeq(seqs) : FlattenSeq(seqs)[k] = x)
           <=> (\E i \in DOMAIN seqs : \E j \in DOMAIN seqs[i] : seqs[i][j] = x)
<1> DEFINE n == Len(seqs)
<1>1. PICK f \in [0 .. n -> Seq(S)] :
              /\ f[0] = <<>>
              /\ \A i \in 1 .. n : f[i] = f[i - 1] \o seqs[i]
              /\ FlattenSeq(seqs) = f[n]
  BY FlattenTable
<1>2. n \in Nat /\ DOMAIN seqs = 1 .. n /\ \A i \in 1 .. n : seqs[i] \in Seq(S)  OBVIOUS
<1> DEFINE In(s) == \E k \in DOMAIN s : s[k] = x
           T == {m \in Nat : m \in 0 .. n => (In(f[m]) <=> \E i \in 1 .. m : In(seqs[i]))}
<1> HIDE DEF n
<1>3. ASSUME NEW s \in Seq(S), NEW t \in Seq(S) PROVE In(s \o t) <=> In(s) \/ In(t)
  <2>1. /\ s \o t \in Seq(S) /\ Len(s \o t) = Len(s) + Len(t)
        /\ \A i \in 1 .. Len(s) + Len(t) : (s \o t)[i] = IF i <= Len(s) THEN s[i] ELSE t[i - Len(s)]
    BY ConcatProperties
  <2>2. Len(s) \in Nat /\ Len(t) \in Nat /\ DOMAIN s = 1 .. Len(s) /\ DOMAIN t = 1 .. Len(t)
        /\ DOMAIN (s \o t) = 1 .. Len(s) + Len(t)
    BY <2>1
  <2>3. ASSUME NEW k \in DOMAIN (s \o t), (s \o t)[k] = x PROVE In(s) \/ In(t)
    <3>1. CASE k <= Len(s)
      <4>1. k \in DOMAIN s /\ s[k] = x  BY <2>1, <2>2, <2>3, <3>1
      <4> QED  BY <4>1
    <3>2. CASE ~(k <= Len(s))
      <4>1. k - Len(s) \in DOMAIN t /\ t[k - Len(s)] = x  BY <2>1, <2>2, <2>3, <3>2
      <4> QED  BY <4>1
    <3> QED  BY <3>1, <3>2
  <2>4. ASSUME NEW k \in DOMAIN s, s[k] = x PROVE In(s \o t)
    <3>1. k \in DOMAIN (s \o t) /\ (s \o t)[k] = x  BY <2>1, <2>2, <2>4
    <3> QED  BY <3>1
  <2>5. ASSUME NEW k \in DOMAIN t, t[k] = x PROVE In(s \o t)
    <3>1. k + Len(s) \in 1 .. Len(s) + Len(t) /\ ~(k + Len(s) <= Len(s)) /\ (k + Len(s)) - Len(s) = k
      BY <2>2
    <3>2. k + Len(s) \in DOMAIN (s \o t) /\ (s \o t)[k + Len(s)] = x  BY <2>1, <2>2, <2>5, <3>1
    <3> QED  BY <3>2
  <2> QED  BY <2>3, <2>4, <2>5
<1>4. 0 \in T
  <2>1. ~In(f[0])  BY <1>1
  <2> HIDE DEF In
  <2> QED  BY <2>1
<1> HIDE DEF In
<1>5. ASSUME NEW m \in T \cap Nat PROVE m + 1 \in T
  <2> SUFFICES ASSUME m + 1 \in 0 .. n
               PROVE  In(f[m + 1]) <=> \E i \in 1 .. (m + 1) : In(seqs[i])
    OBVIOUS
  <2>1. m + 1 \in 1 .. n /\ (m + 1) - 1 = m /\ m \in 0 .. n  BY <1>2
  <2>2. f[m + 1] = f[m] \o seqs[m + 1] /\ f[m] \in Seq(S) /\ seqs[m + 1] \in Seq(S)
    BY <1>1, <1>2, <2>1
  <2>3. In(f[m + 1]) <=> In(f[m]) \/ In(seqs[m + 1])  BY <1>3, <2>2
  <2>4. In(f[m]) <=> \E i \in 1 .. m : In(seqs[i])  BY <2>1
  <2>5. ASSUME NEW i \in 1 .. (m + 1) PROVE i \in 1 .. m \/ i = m + 1  OBVIOUS
  <2>6. 1 .. m \subseteq 1 .. (m + 1) /\ m + 1 \in 1 .. (m + 1)  OBVIOUS
  <2> QED  BY <2>3, <2>4, <2>5, <2>6
<1> HIDE DEF T
<1>6. \A m \in Nat : m \in T  BY <1>4, <1>5, SetInduction
<1>7. n \in T /\ n \in 0 .. n  BY <1>2, <1>6
<1>8. In(f[n]) <=> \E i \in 1 .. n : In(seqs[i])  BY <1>7 DEF T
<1> QED  BY <1>1, <1>2, <1>8 DEF In

\* Two pieces fit into a flattened sequence.
LEMMA FlattenLength ==
    ASSUME NEW S, NEW seqs \in Seq(Seq(S)), NEW i \in DOMAIN seqs, NEW j \in DOMAIN seqs, i # j
    PROVE  Len(FlattenSeq(seqs)) >= Len(seqs[i]) + Len(seqs[j])
<1> DEFINE n == Len(seqs)
           len(m) == Len(seqs[m])
<1>1. PICK f \in [0 .. n -> Seq(S)] :
              /\ f[0] = <<>>
              /\ \A m \in 1 .. n : f[m] = f[m - 1] \o seqs[m]
              /\ FlattenSeq(seqs) = f[n]
  BY FlattenTable
<1>2. n \in Nat /\ DOMAIN seqs = 1 .. n /\ \A m \in 1 .. n : seqs[m] \in Seq(S) /\ len(m) \in Nat
  OBVIOUS
<1> HIDE DEF n, len
<1> DEFINE Room(m) == /\ i <= m /\ j <= m => Len(f[m]) >= len(i) + len(j)
                      /\ i <= m => Len(f[m]) >= len(i)
                      /\ j <= m => Len(f[m]) >= len(j)
           T == {m \in Nat : m \in 0 .. n => Room(m)}
<1>3. i \in 1 .. n /\ j \in 1 .. n /\ len(i) \in Nat /\ len(j) \in Nat  BY <1>2
<1>4. 0 \in T
  <2>1. ~(i <= 0) /\ ~(j <= 0)  BY <1>2, <1>3
  <2> QED  BY <2>1
<1>5. ASSUME NEW m \in T \cap Nat PROVE m + 1 \in T
  <2> SUFFICES ASSUME m + 1 \in 0 .. n PROVE Room(m + 1)
    OBVIOUS
  <2>1. m + 1 \in 1 .. n /\ (m + 1) - 1 = m /\ m \in 0 .. n  BY <1>2
  <2>2. f[m + 1] = f[m] \o seqs[m + 1] /\ f[m] \in Seq(S) /\ seqs[m + 1] \in Seq(S)
    BY <1>1, <1>2, <2>1
  <2>3. Len(f[m + 1]) = Len(f[m]) + len(m + 1) /\ Len(f[m]) \in Nat /\ len(m + 1) \in Nat
    BY <2>2, ConcatProperties DEF len
  <2>4. Room(m)  BY <2>1
  <2>5. i = m + 1 => len(i) = len(m + 1)  OBVIOUS
  <2>6. j = m + 1 => len(j) = len(m + 1)  OBVIOUS
  <2>7. i \in Int /\ j \in Int /\ m \in Int  BY <1>2, <1>3
  <2>8. (i <= m + 1 => i <= m \/ i = m + 1) /\ (j <= m + 1 => j <= m \/ j = m + 1)
    BY <2>7
  <2> DEFINE old == Len(f[m])
             new == Len(f[m + 1])
             li == len(i)
             lj == len(j)
             ll == len(m + 1)
  <2>9. /\ i <= m /\ j <= m => old >= li + lj
        /\ i <= m => old >= li
        /\ j <= m => old >= lj
    BY <2>4
  <2>10. /\ new = old + ll /\ old \in Nat /\ ll \in Nat /\ li \in Nat /\ lj \in Nat
         /\ (i = m + 1 => li = ll) /\ (j = m + 1 => lj = ll)
    BY <1>3, <2>3, <2>5, <2>6
  <2> HIDE DEF old, new, li, lj, ll
  <2>11. /\ i <= m + 1 /\ j <= m + 1 => new >= li + lj
         /\ i <= m + 1 => new >= li
         /\ j <= m + 1 => new >= lj
    BY <2>7, <2>8, <2>9, <2>10
  <2> QED  BY <2>11 DEF old, new, li, lj, ll
<1> HIDE DEF T
<1>6. \A m \in Nat : m \in T  BY <1>4, <1>5, SetInduction
<1>7. n \in T /\ n \in 0 .. n  BY <1>2, <1>6
<1>8. Room(n)  BY <1>7 DEF T
<1>9. i <= n /\ j <= n  BY <1>2, <1>3
<1> QED  BY <1>1, <1>8, <1>9 DEF len

\* A flattened sequence is as long as it has pieces, when none is empty.
LEMMA FlattenLong ==
    ASSUME NEW S, NEW seqs \in Seq(Seq(S)), \A i \in DOMAIN seqs : Len(seqs[i]) > 0
    PROVE  Len(FlattenSeq(seqs)) >= Len(seqs)
<1> DEFINE n == Len(seqs)
<1>1. PICK f \in [0 .. n -> Seq(S)] :
              /\ f[0] = <<>>
              /\ \A m \in 1 .. n : f[m] = f[m - 1] \o seqs[m]
              /\ FlattenSeq(seqs) = f[n]
  BY FlattenTable
<1>2. n \in Nat /\ DOMAIN seqs = 1 .. n /\ \A m \in 1 .. n : seqs[m] \in Seq(S) /\ Len(seqs[m]) > 0
  OBVIOUS
<1> HIDE DEF n
<1> DEFINE T == {m \in Nat : m \in 0 .. n => Len(f[m]) >= m}
<1>3. 0 \in T  BY <1>1
<1>4. ASSUME NEW m \in T \cap Nat PROVE m + 1 \in T
  <2> SUFFICES ASSUME m + 1 \in 0 .. n PROVE Len(f[m + 1]) >= m + 1
    OBVIOUS
  <2>1. m + 1 \in 1 .. n /\ (m + 1) - 1 = m /\ m \in 0 .. n  BY <1>2
  <2>2. f[m + 1] = f[m] \o seqs[m + 1] /\ f[m] \in Seq(S) /\ seqs[m + 1] \in Seq(S)
    BY <1>1, <1>2, <2>1
  <2>3. /\ Len(f[m + 1]) = Len(f[m]) + Len(seqs[m + 1])
        /\ Len(f[m]) \in Nat /\ Len(seqs[m + 1]) \in Nat /\ Len(seqs[m + 1]) > 0
    BY <1>2, <2>1, <2>2, ConcatProperties
  <2> DEFINE old == Len(f[m])
             by == Len(seqs[m + 1])
             new == Len(f[m + 1])
  <2>4. old >= m /\ new = old + by /\ old \in Nat /\ by \in Nat /\ by > 0  BY <2>1, <2>3
  <2> HIDE DEF old, by, new
  <2>5. new >= m + 1  BY <2>4
  <2> QED  BY <2>5 DEF new
<1> HIDE DEF T
<1>5. \A m \in Nat : m \in T  BY <1>3, <1>4, SetInduction
<1>6. n \in T /\ n \in 0 .. n  BY <1>2, <1>5
<1>7. Len(f[n]) >= n  BY <1>6 DEF T
<1> QED  BY <1>1, <1>7 DEF n

\* Every step of a flattened sequence, also the one from its end to its beginning, is
\* a link: if the steps in a piece are, and the step to the next piece is from
\* everything that may have come last before it.
LEMMA FlattenLinks ==
    ASSUME NEW S, NEW seqs \in Seq(Seq(S)), NEW links, NEW last \in [0 .. Len(seqs) -> SUBSET S],
           last[0] = last[Len(seqs)],
           \A i \in DOMAIN seqs :
              /\ seqs[i] = <<>> => last[i - 1] \subseteq last[i]
              /\ seqs[i] # <<>> => /\ seqs[i][Len(seqs[i])] \in last[i]
                                   /\ \A a \in last[i - 1] : <<a, seqs[i][1]>> \in links
              /\ \A k \in 1 .. Len(seqs[i]) - 1 : <<seqs[i][k], seqs[i][k + 1]>> \in links
    PROVE  \A k \in DOMAIN FlattenSeq(seqs) :
              <<FlattenSeq(seqs)[k],
                FlattenSeq(seqs)[IF k = Len(FlattenSeq(seqs)) THEN 1 ELSE k + 1]>> \in links
<1> DEFINE n == Len(seqs)
<1>1. PICK f \in [0 .. n -> Seq(S)] :
              /\ f[0] = <<>>
              /\ \A i \in 1 .. n : f[i] = f[i - 1] \o seqs[i]
              /\ FlattenSeq(seqs) = f[n]
  BY FlattenTable
<1>2. n \in Nat /\ DOMAIN seqs = 1 .. n /\ \A i \in 1 .. n : seqs[i] \in Seq(S)  OBVIOUS
<1> DEFINE Chain(s) == \A k \in 1 .. Len(s) - 1 : <<s[k], s[k + 1]>> \in links
           Good(s, m) == /\ s = <<>> => last[0] \subseteq last[m]
                         /\ s # <<>> => /\ s[Len(s)] \in last[m]
                                        /\ \A a \in last[0] : <<a, s[1]>> \in links
                         /\ Chain(s)
           T == {m \in Nat : m \in 0 .. n => Good(f[m], m)}
<1>3. \A i \in 1 .. n :
              /\ seqs[i] = <<>> => last[i - 1] \subseteq last[i]
              /\ seqs[i] # <<>> => /\ seqs[i][Len(seqs[i])] \in last[i]
                                   /\ \A a \in last[i - 1] : <<a, seqs[i][1]>> \in links
              /\ Chain(seqs[i])
  BY <1>2
<1>4. last[0] = last[n]  OBVIOUS
<1> HIDE DEF n
<1>5. 0 \in T
  <2>1. Good(<<>>, 0)  OBVIOUS
  <2> HIDE DEF Good
  <2> QED  BY <1>1, <2>1
<1>6. ASSUME NEW m \in T \cap Nat PROVE m + 1 \in T
  <2> SUFFICES ASSUME m + 1 \in 0 .. n PROVE Good(f[m + 1], m + 1)
    OBVIOUS
  <2> DEFINE s == f[m]
             t == seqs[m + 1]
  <2>1. m + 1 \in 1 .. n /\ (m + 1) - 1 = m /\ m \in 0 .. n  BY <1>2
  <2>2. f[m + 1] = s \o t /\ s \in Seq(S) /\ t \in Seq(S)
    BY <1>1, <1>2, <2>1
  <2>3. Good(s, m)  BY <2>1
  <2>4. /\ t = <<>> => last[m] \subseteq last[m + 1]
        /\ t # <<>> => /\ t[Len(t)] \in last[m + 1]
                       /\ \A a \in last[m] : <<a, t[1]>> \in links
        /\ Chain(t)
    BY <1>3, <2>1
  <2> HIDE DEF s, t, T
  <2>5. /\ Len(s \o t) = Len(s) + Len(t)
        /\ \A i \in 1 .. Len(s) + Len(t) : (s \o t)[i] = IF i <= Len(s) THEN s[i] ELSE t[i - Len(s)]
        /\ Len(s) \in Nat /\ Len(t) \in Nat
    BY <2>2, ConcatProperties
  <2>6. CASE t = <<>>
    <3>1. s \o t = s  BY <2>2, <2>6
    <3>2. last[m] \subseteq last[m + 1]  BY <2>4, <2>6
    <3> QED  BY <2>2, <2>3, <3>1, <3>2
  <2>7. CASE t # <<>> /\ s = <<>>
    <3>1. s \o t = t  BY <2>2, <2>7
    <3> QED  BY <2>2, <2>3, <2>4, <2>7, <3>1
  <2>8. CASE t # <<>> /\ s # <<>>
    <3> DEFINE u == s \o t
               l == Len(s)
    <3>1. Len(t) > 0 /\ l > 0  BY <2>2, <2>5, <2>8
    <3>2. u[Len(u)] = t[Len(t)] /\ u[1] = s[1] /\ Len(u) # 0 /\ u # <<>>
      BY <2>5, <3>1
    <3>3. ASSUME NEW k \in 1 .. Len(u) - 1 PROVE <<u[k], u[k + 1]>> \in links
      <4>1. CASE k < l
        <5>1. u[k] = s[k] /\ u[k + 1] = s[k + 1] /\ k \in 1 .. l - 1  BY <2>5, <4>1
        <5> QED  BY <2>3, <5>1
      <4>2. CASE k = l
        <5>1. u[k] = s[l] /\ u[k + 1] = t[1]  BY <2>5, <3>1, <4>2
        <5>2. s[l] \in last[m]  BY <2>3, <2>8
        <5> QED  BY <2>4, <2>8, <5>1, <5>2
      <4>3. CASE k > l
        <5>1. /\ u[k] = t[k - l] /\ u[k + 1] = t[(k - l) + 1]
              /\ k - l \in 1 .. Len(t) - 1
          BY <2>5, <4>3
        <5> QED  BY <2>4, <5>1
      <4>4. k \in Int /\ l \in Int
        <5>1. Len(u) \in Int  BY <2>5
        <5> HIDE DEF u
        <5> QED  BY <2>5, <5>1
      <4>5. k < l \/ k = l \/ k > l
        <5> HIDE DEF l, u
        <5> QED  BY <4>4
      <4> QED  BY <4>1, <4>2, <4>3, <4>5
    <3>4. Chain(u)  BY <3>3
    <3>5. u[Len(u)] \in last[m + 1] /\ \A a \in last[0] : <<a, u[1]>> \in links
      BY <2>3, <2>4, <2>8, <3>2
    <3> HIDE DEF Chain, u
    <3> QED  BY <2>2, <3>2, <3>4, <3>5 DEF u
  <2> QED  BY <2>6, <2>7, <2>8
<1> HIDE DEF T
<1>7. \A m \in Nat : m \in T  BY <1>5, <1>6, SetInduction
<1>8. n \in T /\ n \in 0 .. n  BY <1>2, <1>7
<1>9. Good(f[n], n)  BY <1>8 DEF T
<1> DEFINE flat == f[n]
<1>10. flat \in Seq(S) /\ FlattenSeq(seqs) = flat  BY <1>1, <1>2
<1> HIDE DEF flat
<1>11. ASSUME NEW k \in DOMAIN flat
       PROVE  <<flat[k], flat[IF k = Len(flat) THEN 1 ELSE k + 1]>> \in links
  <2>1. k \in 1 .. Len(flat) /\ Len(flat) \in Nat /\ flat # <<>>  BY <1>10
  <2>2. CASE k = Len(flat)
    <3>1. flat[k] \in last[0]  BY <1>4, <1>9, <2>1, <2>2 DEF flat
    <3> QED  BY <1>9, <2>1, <2>2, <3>1 DEF flat
  <2>3. CASE k # Len(flat)
    <3>1. k \in 1 .. Len(flat) - 1  BY <2>1, <2>3
    <3> QED  BY <1>9, <2>3, <3>1 DEF flat
  <2> QED  BY <2>2, <2>3
<1> QED  BY <1>10, <1>11

\* Flattening sequences over S gives a sequence over S.
LEMMA FlattenSeqType ==
    ASSUME NEW S, NEW seqs \in Seq(Seq(S))
    PROVE  FlattenSeq(seqs) \in Seq(S)
<1>1. PICK f \in [0 .. Len(seqs) -> Seq(S)] : FlattenSeq(seqs) = f[Len(seqs)]
  BY FlattenTable
<1>2. Len(seqs) \in 0 .. Len(seqs)  OBVIOUS
<1> QED  BY <1>1, <1>2

\* The side of a bisector on which a point lies is a whole number.
LEMMA BeyondType ==
    ASSUME NEW s \in Lattice, NEW o \in Lattice, NEW p \in Places
    PROVE  Beyond(s, o, p) \in Int
BY DEF Beyond, Lattice, Places

\* Two points on either side of a bisector meet it in a point.
LEMMA MeetIsPoint ==
    ASSUME NEW s \in Lattice, NEW o \in Lattice, NEW p \in Places, NEW q \in Places,
           \/ Beyond(s, o, p) > 0 /\ Beyond(s, o, q) <= 0
           \/ Beyond(s, o, p) <= 0 /\ Beyond(s, o, q) > 0
    PROVE  Meet(s, o, p, q) \in Places
<1> DEFINE bp == Beyond(s, o, p)
           bq == Beyond(s, o, q)
           k == IF bq > bp THEN 1 ELSE -1
           m == <<k * (p[1] * bq - q[1] * bp), k * (p[2] * bq - q[2] * bp),
                  k * (p[3] * bq - q[3] * bp)>>
<1>1. bp \in Int /\ bq \in Int  BY BeyondType
<1>2. \/ bp > 0 /\ bq <= 0 
      \/ bp <= 0 /\ bq > 0 
  OBVIOUS
<1>3. Meet(s, o, p, q) = Reduced(m)  BY DEF Meet
<1> HIDE DEF bp, bq
<1>4. p[1] \in Int /\ p[2] \in Int /\ p[3] \in Nat \ {0} /\ q[1] \in Int /\ q[2] \in Int /\ q[3] \in Nat \ {0}
   BY DEF Places
<1>5. m[1] \in Int /\ m[2] \in Int /\ m[3] \in Int  BY <1>1, <1>4
<1>6. m[3] > 0
  <2>1. CASE bp > 0 /\ bq <= 0
    <3>1. q[3] * bp > 0 /\ p[3] * bq <= 0  BY <1>1, <1>4, <2>1
    <3>2. k = -1  BY <1>1, <2>1
    <3> QED  BY <1>1, <1>4, <3>1, <3>2
  <2>2. CASE bp <= 0 /\ bq > 0
    <3>1. q[3] * bp <= 0 /\ p[3] * bq > 0  BY <1>1, <1>4, <2>2
    <3>2. k = 1  BY <1>1, <2>2
    <3> QED  BY <1>1, <1>4, <3>1, <3>2
  <2> QED  BY <1>2, <2>1, <2>2
<1>7. m \in Places  BY <1>5, <1>6 DEF Places
<1> QED  BY <1>3, <1>7, ReducedIsPoint

\* Clipping a polygon by a bisector gives a polygon.
LEMMA ClipType ==
    ASSUME NEW s \in Lattice, NEW o \in Lattice, NEW polygon \in Seq(Places)
    PROVE  Clip(polygon, s, o) \in Seq(Places)
<1> DEFINE cur(i) == polygon[i]
           prev(i) == polygon[IF i = 1 THEN Len(polygon) ELSE i - 1]
           cut(i) == <<Meet(s, o, prev(i), cur(i))>>
           Piece(i) == IF Beyond(s, o, cur(i)) <= 0
                       THEN IF Beyond(s, o, prev(i)) > 0 THEN cut(i) \o <<cur(i)>> ELSE <<cur(i)>>
                       ELSE IF Beyond(s, o, prev(i)) <= 0 THEN cut(i) ELSE <<>>
<1>1. Clip(polygon, s, o) = FlattenSeq([i \in DOMAIN polygon |-> Piece(i)])
  BY Zenon DEF Clip
<1>2. ASSUME NEW i \in DOMAIN polygon PROVE Piece(i) \in Seq(Places)
  <2>1. cur(i) \in Places /\ prev(i) \in Places  OBVIOUS
  <2> HIDE DEF cur, prev
  <2>2. Beyond(s, o, cur(i)) \in Int /\ Beyond(s, o, prev(i)) \in Int  BY <2>1, BeyondType
  <2>3. CASE Beyond(s, o, cur(i)) <= 0 /\ Beyond(s, o, prev(i)) > 0
    <3>1. Meet(s, o, prev(i), cur(i)) \in Places  BY <2>1, <2>3, MeetIsPoint
    <3> QED  BY <2>1, <2>3, <3>1
  <2>4. CASE ~(Beyond(s, o, cur(i)) <= 0) /\ Beyond(s, o, prev(i)) <= 0
    <3>1. Meet(s, o, prev(i), cur(i)) \in Places  BY <2>1, <2>2, <2>4, MeetIsPoint
    <3> QED  BY <2>4, <3>1
  <2> QED  BY <2>1, <2>2, <2>3, <2>4
<1> HIDE DEF Piece
<1>3. [i \in DOMAIN polygon |-> Piece(i)] \in Seq(Seq(Places))
  BY <1>2
<1> QED  BY <1>1, <1>3, FlattenSeqType

\* f is the table of the fold that clips by each member of a set in turn.
CutFcn(f, site, others, base, subsets) ==
    f = [s \in subsets |->
           IF s = {} THEN base
           ELSE Clip(f[s \ {CHOOSE x \in s : TRUE}], site, CHOOSE x \in s : TRUE)]

\* The subsets of S with at most n members.
Small(S, n) == {s \in SUBSET S : Cardinality(s) <= n}

\* The recursion of that fold has a solution.
LEMMA CutExists ==
    ASSUME NEW site, NEW others, IsFiniteSet(others), NEW base
    PROVE  \A n \in Nat : \E f : CutFcn(f, site, others, base, Small(others, n))
<1> DEFINE pick(s) == CHOOSE x \in s : TRUE
           S == {n \in Nat : \E f : CutFcn(f, site, others, base, Small(others, n))}
<1>1. 0 \in S
  <2> DEFINE f == [s \in Small(others, 0) |-> base]
  <2>1. \A s \in Small(others, 0) : s = {}
    <3> SUFFICES ASSUME NEW s \in SUBSET others, Cardinality(s) <= 0 PROVE s = {}
      BY DEF Small
    <3>1. IsFiniteSet(s)  BY FS_Subset
    <3>2. Cardinality(s) = 0  BY <3>1, FS_CardinalityType
    <3> QED  BY <3>1, <3>2, FS_EmptySet
  <2>2. \A s \in Small(others, 0) :
           f[s] = IF s = {} THEN base ELSE Clip(f[s \ {pick(s)}], site, pick(s))
    BY <2>1
  <2>3. f = [s \in Small(others, 0) |-> f[s]]  OBVIOUS
  <2> HIDE DEF f
  <2>4. CutFcn(f, site, others, base, Small(others, 0))
    BY <2>2, <2>3, Zenon DEF CutFcn
  <2> QED  BY <2>4
<1>2. ASSUME NEW n \in S \cap Nat PROVE n + 1 \in S
  <2>1. PICK f : CutFcn(f, site, others, base, Small(others, n))  OBVIOUS
  <2> DEFINE D == Small(others, n + 1)
             g == [s \in D |->
                     IF Cardinality(s) = n + 1
                     THEN IF s = {} THEN base ELSE Clip(f[s \ {pick(s)}], site, pick(s))
                     ELSE f[s]]
  <2>2. ASSUME NEW s \in D
        PROVE  g[s] = IF s = {} THEN base ELSE Clip(g[s \ {pick(s)}], site, pick(s))
    <3> DEFINE r == s \ {pick(s)}
    <3>1. s \in SUBSET others /\ IsFiniteSet(s) /\ Cardinality(s) \in Nat /\ Cardinality(s) <= n + 1
      BY FS_Subset, FS_CardinalityType DEF Small
    <3>2. CASE s = {}
      <4>1. Cardinality(s) = 0  BY <3>2, FS_EmptySet
      <4>2. g[s] = f[s]  BY <4>1
      <4>3. s \in Small(others, n)  BY <3>1, <4>1 DEF Small
      <4>4. f[s] = base  BY <2>1, <3>2, <4>3 DEF CutFcn
      <4> QED  BY <3>2, <4>2, <4>4
    <3>3. CASE s # {}
      <4>1. pick(s) \in s  BY <3>3
      <4>2. r \in SUBSET others /\ Cardinality(r) = Cardinality(s) - 1
        BY <3>1, <4>1, FS_RemoveElement
      <4>3. r \in D /\ r \in Small(others, n) /\ Cardinality(r) # n + 1
        BY <3>1, <4>2 DEF Small
      <4>4. g[r] = f[r]  BY <4>3
      <4>5. CASE Cardinality(s) = n + 1
        <5>1. g[s] = Clip(f[r], site, pick(s))  BY <3>3, <4>5
        <5> QED  BY <3>3, <4>4, <5>1
      <4>6. CASE Cardinality(s) # n + 1
        <5>1. s \in Small(others, n)  BY <3>1, <4>6 DEF Small
        <5>2. f[s] = Clip(f[r], site, pick(s))  BY <2>1, <3>3, <5>1, Zenon DEF CutFcn
        <5>3. g[s] = f[s]  BY <4>6
        <5> QED  BY <3>3, <4>4, <5>2, <5>3
      <4> QED  BY <4>5, <4>6
    <3> QED  BY <3>2, <3>3
  <2>3. g = [s \in D |-> g[s]]  OBVIOUS
  <2> HIDE DEF g
  <2>4. CutFcn(g, site, others, base, D)
    BY <2>2, <2>3, Zenon DEF CutFcn
  <2> QED  BY <2>4
<1> HIDE DEF S
<1>3. \A n \in Nat : n \in S  BY <1>1, <1>2, SetInduction
<1> QED  BY <1>3 DEF S

\* What one more clip keeps, for each set of sites what is good after clipping by them,
\* holds after clipping by all the other sites.
LEMMA FoldKeeps ==
    ASSUME NEW site \in Lattice, NEW others \in SUBSET Lattice, IsFiniteSet(others),
           NEW base, NEW Good, base \in Good[{}],
           \A r \in SUBSET others : \A o \in r : \A polygon \in Good[r \ {o}] :
              Clip(polygon, site, o) \in Good[r]
    PROVE  FoldSet(LAMBDA o, polygon : Clip(polygon, site, o), base, others) \in Good[others]
<1> DEFINE f == CHOOSE h : CutFcn(h, site, others, base, SUBSET others)
           n == Cardinality(others)
           pick(s) == CHOOSE x \in s : TRUE
<1>1. n \in Nat /\ SUBSET others = Small(others, n)
  BY FS_CardinalityType, FS_Subset DEF Small
<1>2. \E h : CutFcn(h, site, others, base, SUBSET others)
  <2>1. \A k \in Nat : \E h : CutFcn(h, site, others, base, Small(others, k))
    BY CutExists
  <2> QED  BY <1>1, <2>1
<1>3. CutFcn(f, site, others, base, SUBSET others)
  BY <1>2
<1> HIDE DEF f
<1>4. ASSUME NEW s \in SUBSET others
      PROVE  f[s] = IF s = {} THEN base ELSE Clip(f[s \ {pick(s)}], site, pick(s))
  BY <1>3, Zenon DEF CutFcn
<1> DEFINE Bad == {k \in 0 .. n : \E s \in SUBSET others : Cardinality(s) = k /\ f[s] \notin Good[s]}
<1>5. ASSUME Bad # {} PROVE FALSE
  <2>1. PICK k \in Bad : \A j \in Bad : k <= j
    <3>1. Bad \in SUBSET Nat  BY <1>1
    <3> HIDE DEF Bad
    <3> QED  BY <1>5, <3>1, LeastElement
  <2>2. PICK s \in SUBSET others : Cardinality(s) = k /\ f[s] \notin Good[s]
    BY <2>1
  <2>3. s # {}  BY <2>2, <1>4
  <2> DEFINE r == s \ {pick(s)}
  <2>4. pick(s) \in s /\ pick(s) \in Lattice  BY <2>3
  <2>5. r \in SUBSET others /\ Cardinality(r) = k - 1
    <3>1. IsFiniteSet(s)  BY FS_Subset
    <3>2. Cardinality(r) = Cardinality(s) - 1  BY <2>4, <3>1, FS_RemoveElement, Zenon
    <3> QED  BY <2>2, <3>2
  <2>6. k \in 0 .. n /\ Cardinality(r) \in Nat
    BY <1>1, <2>5, FS_Subset, FS_CardinalityType
  <2>7. k - 1 \in 0 .. n /\ k - 1 \notin Bad
    BY <1>1, <2>1, <2>5, <2>6
  <2>8. f[r] \in Good[r]
    BY <2>5, <2>7
  <2>9. Clip(f[r], site, pick(s)) \in Good[s]
    BY <2>4, <2>8
  <2> HIDE DEF r
  <2> QED  BY <1>4, <2>2, <2>3, <2>9 DEF r
<1>6. f[others] \in Good[others]
  BY <1>1, <1>5
<1>7. FoldSet(LAMBDA o, polygon : Clip(polygon, site, o), base, others) = f[others]
  BY Zenon DEF f, FoldSet, MapThenFoldSet, CutFcn
<1> QED  BY <1>6, <1>7, Zenon

--------------------------------------------------------------------------------
(* The sites of the map. *)

\* The image of a finite set is finite.
LEMMA ImageIsFinite ==
    ASSUME NEW S, IsFiniteSet(S), NEW f
    PROVE  IsFiniteSet({f[x] : x \in S})
<1> DEFINE T == {f[x] : x \in S}
           g == [x \in S |-> f[x]]
<1>1. g \in Surjection(S, T)  BY DEF Surjection
<1> QED  BY <1>1, FS_Surjection

\* Max of a set of integers that is bounded above.
LEMMA LargestOf ==
    ASSUME NEW S, NEW n \in Int, S \subseteq {k \in Int : k <= n}, S # {}
    PROVE  Max(S) \in S /\ \A k \in S : k <= Max(S)
<1> DEFINE T == {n - k : k \in S}
<1>1. T \in SUBSET Nat /\ T # {}  OBVIOUS
<1>2. PICK t \in T : \A u \in T : t <= u
  <2> HIDE DEF T
  <2> QED  BY <1>1, LeastElement
<1>3. PICK k \in S : t = n - k  OBVIOUS
<1>4. \A j \in S : n - j \in T /\ n - j >= n - k  BY <1>2, <1>3
<1>5. \A j \in S : j <= k  BY <1>4
<1>6. \A j \in S : k >= j  BY <1>5
<1> QED  BY <1>6 DEF Max

\* Min of a set of naturals.
LEMMA SmallestOf ==
    ASSUME NEW S, S \subseteq Nat, S # {}
    PROVE  Min(S) \in S
<1>1. PICK k \in S : \A j \in S : k <= j  BY LeastElement
<1> QED  BY <1>1 DEF Min

\* Max of two integers.
LEMMA MaxOfTwo ==
    ASSUME NEW a \in Int, NEW b \in Int
    PROVE  Max({a, b}) \in Int /\ Max({a, b}) >= a /\ Max({a, b}) >= b
<1>1. PICK n \in {a, b} : a <= n /\ b <= n  OBVIOUS
<1>2. {a, b} \subseteq {k \in Int : k <= n} /\ {a, b} # {}  BY <1>1
<1>3. Max({a, b}) \in {a, b} /\ \A k \in {a, b} : k <= Max({a, b})
  BY <1>2, LargestOf
<1> QED  BY <1>3

\* Min of two integers.
LEMMA MinOfTwo ==
    ASSUME NEW a \in Int, NEW b \in Int
    PROVE  Min({a, b}) \in Int
BY DEF Min

\* A finite set of points of the lattice, as sites and obstacles are.
Sites(s) == s \in SUBSET Lattice /\ IsFiniteSet(s)

\* The field has an extent in both axes.
LEMMA FieldIsThere ==
    /\ Width \in Nat \ {0} /\ Height \in Nat \ {0} /\ Corridor \in Int \X Int \X Int \X Int
    /\ Bounds \in Int \X Int \X Int \X Int
BY MapAssumption DEF Width, Height, Corridor, Bounds, Inset

\* A grid of virtual sites lies on the lattice (_grid_by_shape).
LEMMA GridByShapeIs ==
    ASSUME NEW cols \in Int, NEW rows \in Int, cols >= 2, rows >= 2
    PROVE  Sites(GridByShape(cols, rows))
<1> DEFINE D == (0 .. cols - 1) \X (0 .. rows - 1)
           f == [d \in D |-> At(Bounds[1] + ((d[1] * Width) \div (cols - 1)),
                                Bounds[3] + ((d[2] * Height) \div (rows - 1)))]
<1>1. IsFiniteSet(D)
  <2>1. IsFiniteSet(0 .. cols - 1)  BY FS_Interval
  <2>2. IsFiniteSet(0 .. rows - 1)  BY FS_Interval
  <2> QED  BY <2>1, <2>2, FS_Product
<1>2. GridByShape(cols, rows) = {f[d] : d \in D}
  <2> DEFINE at(c, r) == At(Bounds[1] + ((c * Width) \div (cols - 1)),
                            Bounds[3] + ((r * Height) \div (rows - 1)))
  <2>1. GridByShape(cols, rows) = {at(c, r) : c \in 0 .. cols - 1, r \in 0 .. rows - 1}
    BY DEF GridByShape
  <2>2. \A d \in D : f[d] = at(d[1], d[2])
    OBVIOUS
  <2>3. \A c \in 0 .. cols - 1, r \in 0 .. rows - 1 : <<c, r>> \in D
    OBVIOUS
  <2>4. \A d \in D : d[1] \in 0 .. cols - 1 /\ d[2] \in 0 .. rows - 1
    OBVIOUS
  <2>5. \A c \in 0 .. cols - 1, r \in 0 .. rows - 1 : f[<<c, r>>] = at(c, r)
    BY <2>2, <2>3
  <2> HIDE DEF at, f, D
  <2>6. ASSUME NEW e \in GridByShape(cols, rows) PROVE e \in {f[d] : d \in D}
    <3>1. PICK c \in 0 .. cols - 1, r \in 0 .. rows - 1 : e = at(c, r)
      BY <2>1
    <3>2. <<c, r>> \in D /\ e = f[<<c, r>>]
      BY <2>3, <2>5, <3>1
    <3> QED  BY <3>2
  <2>7. \A d \in D : f[d] \in GridByShape(cols, rows)
    BY <2>1, <2>2, <2>4
  <2> QED  BY <2>6, <2>7
<1>3. ASSUME NEW d \in D PROVE f[d] \in Lattice
  <2>1. (d[1] * Width) \div (cols - 1) \in Int
    <3>1. d[1] * Width \in Int /\ cols - 1 \in Nat \ {0}  BY FieldIsThere
    <3> QED  BY <3>1, DivMod
  <2>2. (d[2] * Height) \div (rows - 1) \in Int
    <3>1. d[2] * Height \in Int /\ rows - 1 \in Nat \ {0}  BY FieldIsThere
    <3> QED  BY <3>1, DivMod
  <2> QED  BY <2>1, <2>2, FieldIsThere DEF At, Lattice
<1> HIDE DEF f, D
<1> QED  BY <1>1, <1>2, <1>3, ImageIsFinite DEF Sites

\* Rounding a quotient gives a whole number.
LEMMA RoundType ==
    ASSUME NEW a \in Int, NEW b \in Nat \ {0}
    PROVE  Round(a, b) \in Int
BY DivMod DEF Round

\* So does the grid of a density (_density_grid_shape),
LEMMA DensityGridIs ==
    ASSUME NEW percent \in Int, MAX_DENSITY_NODES >= 8
    PROVE  Sites(DensityGrid(percent))
<1> DEFINE spacing == Max({1, 2 * MIN_CLEARANCE})
           dense == Min({100, Max({10, percent})}) - 10
           most == <<Max({4, Width \div spacing}), Max({2, Height \div spacing})>>
           roots == <<Max({4, FloorRoot(most[1] * MAX_DENSITY_NODES, most[2])}),
                      Max({2, FloorRoot(most[2] * MAX_DENSITY_NODES, most[1])})>>
           scaled == IF most[1] * most[2] <= MAX_DENSITY_NODES THEN most ELSE roots
           cols == Max({4, Round(360 + (scaled[1] - 4) * dense, 90)})
           rows == Max({2, Round(180 + (scaled[2] - 2) * dense, 90)})
<1>1. spacing \in Nat \ {0}
  <2>1. 2 * MIN_CLEARANCE \in Int  BY MapAssumption
  <2> HIDE DEF spacing
  <2>2. spacing \in Int /\ spacing >= 1  BY <2>1, MaxOfTwo DEF spacing
  <2> QED  BY <2>2
<1>2. dense \in Int  
  <2>1. Max({10, percent}) \in Int  BY MaxOfTwo
  <2>2. Min({100, Max({10, percent})}) \in Int  BY <2>1, MinOfTwo
  <2> QED  BY <2>2
<1>3. Width \div spacing \in Int /\ Height \div spacing \in Int
  <2> HIDE DEF spacing
  <2>1. Width \in Int /\ Height \in Int  BY FieldIsThere
  <2> QED  BY <1>1, <2>1, DivMod
<1> HIDE DEF spacing, dense
<1>4. most[1] \in Nat \ {0} /\ most[2] \in Nat \ {0}
  <2>1. /\ Max({4, Width \div spacing}) \in Int /\ Max({4, Width \div spacing}) >= 4
        /\ Max({2, Height \div spacing}) \in Int /\ Max({2, Height \div spacing}) >= 2
    BY <1>3, MaxOfTwo
  <2> QED  BY <2>1
<1> HIDE DEF most
<1>5. ASSUME NEW a \in Nat, NEW b \in Nat PROVE FloorRoot(a, b) \in Int
  <2> DEFINE S == {n \in 0 .. a : n * n * b <= a}
  <2>1. 0 * 0 * b <= a  OBVIOUS
  <2>2. 0 \in S  BY <2>1
  <2>3. S \subseteq {k \in Int : k <= a}  OBVIOUS
  <2>4. S \subseteq Int  OBVIOUS
  <2> HIDE DEF S
  <2>5. Max(S) \in S
    <3>1. a \in Int /\ S # {}  BY <2>2
    <3> QED  BY <2>3, <3>1, LargestOf
  <2>6. FloorRoot(a, b) = Max(S)  BY DEF FloorRoot, S
  <2> QED  BY <2>4, <2>5, <2>6
<1>6. most[1] * MAX_DENSITY_NODES \in Nat /\ most[2] * MAX_DENSITY_NODES \in Nat
  BY <1>4, MapAssumption
<1>7. roots[1] \in Int /\ roots[2] \in Int
  <2> DEFINE x == FloorRoot(most[1] * MAX_DENSITY_NODES, most[2])
             y == FloorRoot(most[2] * MAX_DENSITY_NODES, most[1])
  <2>1. x \in Int /\ y \in Int  BY <1>4, <1>5, <1>6
  <2> HIDE DEF x, y
  <2>2. Max({4, x}) \in Int  BY <2>1, MaxOfTwo
  <2>3. Max({2, y}) \in Int
    <3>1. 2 \in Int  OBVIOUS
    <3> QED  BY <2>1, <3>1, MaxOfTwo, Zenon
  <2> QED  BY <2>2, <2>3 DEF x, y
<1> HIDE DEF roots
<1>8. scaled[1] \in Int /\ scaled[2] \in Int
  BY <1>4, <1>7
<1> HIDE DEF scaled
<1>9. cols \in Int /\ cols >= 4 /\ rows \in Int /\ rows >= 2
  <2>1. 360 + (scaled[1] - 4) * dense \in Int /\ 180 + (scaled[2] - 2) * dense \in Int
    BY <1>2, <1>8
  <2> DEFINE c == 360 + (scaled[1] - 4) * dense
             r == 180 + (scaled[2] - 2) * dense
  <2>2. c \in Int /\ r \in Int  BY <2>1
  <2> HIDE DEF c, r
  <2>3. Round(c, 90) \in Int  BY <2>2, RoundType
  <2>4. Round(r, 90) \in Int  BY <2>2, RoundType
  <2>5. Max({4, Round(c, 90)}) \in Int /\ Max({4, Round(c, 90)}) >= 4  BY <2>3, MaxOfTwo
  <2>6. Max({2, Round(r, 90)}) \in Int /\ Max({2, Round(r, 90)}) >= 2
    <3>1. 2 \in Int  OBVIOUS
    <3> QED  BY <2>4, <3>1, MaxOfTwo, Zenon
  <2> QED  BY <2>5, <2>6 DEF c, r
<1>10. DensityGrid(percent) = GridByShape(cols, rows)
  BY Zenon DEF DensityGrid, cols, rows, scaled, roots, most, dense, spacing
<1> HIDE DEF cols, rows
<1> QED  BY <1>9, <1>10, GridByShapeIs

\* and that of a count (_generate_uniform_sites).
LEMMA GridOfIs ==
    ASSUME NEW count \in Int, count >= 2
    PROVE  Sites(GridOf(count))
<1> DEFINE a == count * Width
           cols == Max({1, CeilRoot(a, Height)})
           rows == (count + cols - 1) \div cols
           at(i) == At(Bounds[1] + (((2 * (i % cols) + 1) * Width) \div (2 * cols)),
                       Bounds[3] + (((2 * (i \div cols) + 1) * Height) \div (2 * rows)))
           D == 0 .. count - 1
           f == [i \in D |-> at(i)]
<1>1. CeilRoot(a, Height) \in Int
  <2>1. a \in Nat \ {0} /\ Height \in Nat \ {0}
    <3>1. Width \in Nat \ {0} /\ Height \in Nat \ {0} /\ count \in Nat \ {0}  BY FieldIsThere
    <3> QED  BY <3>1
  <2> DEFINE S == {n \in 0 .. a : n * n * Height >= a}
  <2> HIDE DEF a
  <2>2. a * a >= a  BY <2>1
  <2>3. a * a * Height >= a * a
    <3> DEFINE b == a * a
    <3>1. b \in Nat  BY <2>1
    <3> HIDE DEF b
    <3>2. b * Height >= b  BY <2>1, <3>1
    <3> QED  BY <3>2 DEF b
  <2>4. a \in S
    <3>1. a * a \in Int /\ a * a * Height \in Int  BY <2>1
    <3> QED  BY <2>1, <2>2, <2>3, <3>1
  <2>5. S \subseteq Nat  BY <2>1
  <2> HIDE DEF S
  <2>6. Min(S) \in S  BY <2>4, <2>5, SmallestOf
  <2>7. CeilRoot(a, Height) = Min(S)  BY DEF CeilRoot, S
  <2>8. \A n \in S : n \in Int  BY <2>5
  <2>9. Min(S) \in Int  BY <2>6, <2>8, Zenon
  <2> QED  BY <2>7, <2>9
<1>2. cols \in Nat \ {0}
  <2> HIDE DEF a
  <2>1. Max({1, CeilRoot(a, Height)}) \in Int /\ Max({1, CeilRoot(a, Height)}) >= 1
    BY <1>1, MaxOfTwo
  <2> QED  BY <2>1
<1> HIDE DEF cols
<1>3. rows \in Nat \ {0}
  <2> DEFINE t == count + cols - 1
             q == t \div cols
  <2>1. t \in Int /\ t >= cols  BY <1>2
  <2> HIDE DEF t
  <2>2. q \in Int /\ t % cols < cols /\ t % cols \in Int /\ t = cols * q + (t % cols)
    BY <1>2, <2>1, DivMod
  <2> HIDE DEF q
  <2>3. q > 0  BY <1>2, <2>1, <2>2
  <2> QED  BY <2>2, <2>3 DEF q, t
<1> HIDE DEF rows
<1>4. IsFiniteSet(D)  BY FS_Interval
<1>5. GridOf(count) = {at(i) : i \in D}
  BY Zenon DEF GridOf, a, cols, rows
<1>6. ASSUME NEW i \in D PROVE at(i) \in Lattice
  <2>1. i \in Int /\ 2 * cols \in Nat \ {0} /\ 2 * rows \in Nat \ {0}  BY <1>2, <1>3
  <2>2. i % cols \in Int /\ i \div cols \in Int  BY <1>2, <2>1, DivMod
  <2> DEFINE x == (2 * (i % cols) + 1) * Width
             y == (2 * (i \div cols) + 1) * Height
  <2>3. x \in Int /\ y \in Int  BY <2>2, FieldIsThere
  <2> HIDE DEF x, y
  <2>4. x \div (2 * cols) \in Int  BY <2>1, <2>3, DivMod
  <2>5. y \div (2 * rows) \in Int  BY <2>1, <2>3, DivMod
  <2> QED  BY <2>4, <2>5, FieldIsThere DEF At, Lattice, x, y
<1> HIDE DEF at, D
<1>7. {at(i) : i \in D} = {f[i] : i \in D}
  OBVIOUS
<1>8. \A i \in D : f[i] \in Lattice  BY <1>6
<1> HIDE DEF f
<1>9. IsFiniteSet({f[i] : i \in D})  BY <1>4, ImageIsFinite
<1>10. {f[i] : i \in D} \in SUBSET Lattice  BY <1>8
<1>11. GridOf(count) = {f[i] : i \in D}  BY <1>5, <1>7
<1> QED  BY <1>9, <1>10, <1>11 DEF Sites

\* Whatever the placement, the virtual sites are finitely many and on the lattice.
LEMMA VirtualSitesAre ==
    ASSUME NEW p \in Placements, NEW s \in VirtualSites(p)
    PROVE  Sites(s)
<1>1. p \in Placement /\ ValidPlacement(p)  BY MapAssumption
<1>2. CASE p.mode = "density"
  <2>1. p.percent \in Int /\ MAX_DENSITY_NODES >= 8 /\ s = DensityGrid(p.percent)
    BY <1>1, <1>2 DEF Placement, ValidPlacement, VirtualSites
  <2> QED  BY <2>1, DensityGridIs
<1>3. CASE p.mode = "spaced"
  <2> DEFINE x == Width \div p.by + 1
             y == Height \div p.by + 1
  <2>1. p.by \in Nat \ {0} /\ s = GridBySpacing(p.by)
    BY <1>1, <1>3 DEF Placement, ValidPlacement, VirtualSites
  <2>2. x \in Int /\ y \in Int
    <3>1. Width \in Int /\ Height \in Int  BY FieldIsThere
    <3> QED  BY <2>1, <3>1, DivMod
  <2> HIDE DEF x, y
  <2>3. 2 \in Int  OBVIOUS
  <2>4. /\ Max({2, x}) \in Int /\ Max({2, x}) >= 2
        /\ Max({2, y}) \in Int /\ Max({2, y}) >= 2
    BY <2>2, <2>3, MaxOfTwo, Zenon
  <2>5. Sites(GridByShape(Max({2, x}), Max({2, y})))  BY <2>4, GridByShapeIs
  <2> QED  BY <2>1, <2>5 DEF GridBySpacing, x, y
<1>4. CASE p.mode \in {"count", "random"}
  <2>1. p.count \in Int /\ p.count >= 2
    BY <1>1, <1>4 DEF Placement, ValidPlacement
  <2>2. Sites(GridOf(p.count))  BY <2>1, GridOfIs
  <2>3. CASE p.mode = "count"
    <3>1. s = GridOf(p.count)  BY <2>3 DEF VirtualSites
    <3> QED  BY <2>2, <3>1
  <2>4. CASE p.mode = "random"
    <3>1. s \in RandomSites(p.count)  BY <2>4 DEF VirtualSites
    <3>2. s = GridOf(p.count) \/ s \in SUBSET SitePool
      BY <3>1 DEF RandomSites, kSubset
    <3> QED  BY <2>2, <3>2, MapAssumption, FS_Subset DEF Sites
  <2> QED  BY <1>4, <2>3, <2>4
<1> QED  BY <1>1, <1>2, <1>3, <1>4 DEF Placement

\* A site's cell is a polygon.
LEMMA CellType ==
    ASSUME NEW sites, Sites(sites), NEW site \in sites
    PROVE  Cell(site, sites) \in Seq(Places)
<1> DEFINE others == sites \ {site}
<1>1. others \in SUBSET Lattice /\ IsFiniteSet(others) /\ site \in Lattice
  BY FS_Subset DEF Sites
<1>2. Corners(Corridor) \in Seq(Places)
  BY FieldIsThere DEF Corners, At, Places
<1> DEFINE Good == [r \in SUBSET others |-> Seq(Places)]
<1>3. Corners(Corridor) \in Good[{}]  BY <1>2
<1>4. ASSUME NEW r \in SUBSET others, NEW o \in r, NEW polygon \in Good[r \ {o}]
      PROVE  Clip(polygon, site, o) \in Good[r]
  BY <1>1, ClipType
<1>5. Good[others] = Seq(Places)  OBVIOUS
<1> HIDE DEF Good, others
<1>6. FoldSet(LAMBDA o, polygon : Clip(polygon, site, o), Corners(Corridor), others) \in Seq(Places)
  BY <1>1, <1>3, <1>4, <1>5, FoldKeeps
<1>7. <<>> \in Seq(Places)  OBVIOUS
<1> QED  BY <1>6, <1>7, Zenon DEF Cell, others

\* The sides of a polygon join points.
LEMMA SidesArePoints ==
    ASSUME NEW polygon \in Seq(Places), NEW e \in Sides(polygon)
    PROVE  e \subseteq Places
<1>1. PICK i \in DOMAIN polygon : e = {polygon[i], polygon[(i % Len(polygon)) + 1]}
  BY DEF Sides
<1>2. i \in 1 .. Len(polygon) /\ Len(polygon) \in Nat \ {0}
  <2>1. DOMAIN polygon = 1 .. Len(polygon) /\ Len(polygon) \in Nat  OBVIOUS
  <2> QED  BY <1>1, <2>1
<1>3. i % Len(polygon) \in 0 .. (Len(polygon) - 1)
  <2>1. i \in Int  BY <1>2
  <2> QED  BY <1>2, <2>1, DivMod
<1>4. (i % Len(polygon)) + 1 \in 1 .. Len(polygon)  BY <1>2, <1>3
<1> QED  BY <1>1, <1>2, <1>4

\* An edge of the map joins points and keeps clear of the obstacles.
LEMMA BordersArePoints ==
    ASSUME NEW sites, Sites(sites), NEW obs,
           NEW e \in NavigationGraph([s \in sites |-> Cell(s, sites)], sites, obs)
    PROVE  e \subseteq Places /\ KeepsClear(e, sites, obs)
<1> DEFINE cells == [s \in sites |-> Cell(s, sites)]
<1>1. \/ e \in Sides(Corners(Corridor))
      \/ \E s \in sites : e \in Sides(cells[s])
  <2>1. e \in (UNION {Sides(cells[s]) : s \in sites}) \cup Sides(Corners(Corridor))
    BY DEF NavigationGraph
  <2> HIDE DEF cells
  <2> DEFINE all == {Sides(cells[s]) : s \in sites}
  <2>2. ASSUME e \in UNION all PROVE \E s \in sites : e \in Sides(cells[s])
    <3>1. PICK b \in all : e \in b  BY <2>2
    <3>2. PICK s \in sites : b = Sides(cells[s])  OBVIOUS
    <3> QED  BY <3>1, <3>2
  <2> HIDE DEF all
  <2>3. e \in (UNION all) \/ e \in Sides(Corners(Corridor))  BY <2>1 DEF all
  <2> QED  BY <2>2, <2>3
<1>2. KeepsClear(e, sites, obs)  BY DEF NavigationGraph
<1>3. CASE e \in Sides(Corners(Corridor))
  <2>1. Corners(Corridor) \in Seq(Places)
    BY FieldIsThere DEF Corners, At, Places
  <2> QED  BY <1>2, <1>3, <2>1, SidesArePoints
<1>4. ASSUME NEW s \in sites, e \in Sides(cells[s]) PROVE e \subseteq Places
  BY <1>4, CellType, SidesArePoints
<1> QED  BY <1>1, <1>2, <1>3, <1>4

--------------------------------------------------------------------------------
(* A segment and its reverse, in exact arithmetic. *)

\* A positive factor may be cancelled.
LEMMA Cancel ==
    ASSUME NEW k \in Nat \ {0}, NEW x \in Int, NEW y \in Int, k * x = k * y
    PROVE  x = y
<1>1. k * (x - y) = 0  OBVIOUS
<1> QED  BY <1>1

\* A positive factor keeps the sign.
LEMMA SignScales ==
    ASSUME NEW k \in Nat \ {0}, NEW x \in Int
    PROVE  /\ k * x <= 0 <=> x <= 0
           /\ k * x >= 0 <=> x >= 0
           /\ k * x \in Int
OBVIOUS

\* a, b: from p and q to the obstacle, u, v: the weights of p and q;
\* d, e: along the segment, from p and from q.
Seen(ax, ay, bx, by, dx, dy, ex, ey, u, v, s, t) ==
    /\ {ax, ay, bx, by, dx, dy, ex, ey} \subseteq Int /\ {u, v, s, t} \subseteq Nat \ {0}
    /\ v * ax - u * bx = s * dx /\ v * ay - u * by = s * dy
    /\ s * dx = -(t * ex) /\ s * dy = -(t * ey)

\* The tests and the cross products of FromSegment in one direction, from those
\* in the other.
LEMMA TurnedAround ==
    ASSUME NEW ax, NEW ay, NEW bx, NEW by, NEW dx, NEW dy, NEW ex, NEW ey,
           NEW u, NEW v, NEW s, NEW t, Seen(ax, ay, bx, by, dx, dy, ex, ey, u, v, s, t)
    PROVE  /\ bx * ex + by * ey <= 0 <=> bx * dx + by * dy >= 0
           /\ ax * ex + ay * ey >= 0 <=> ax * dx + ay * dy <= 0
           /\ ax * dx + ay * dy <= 0 /\ bx * dx + by * dy >= 0 =>
                 /\ dx = 0 /\ dy = 0
                 /\ (u * u) * (bx * bx + by * by) = (v * v) * (ax * ax + ay * ay)
           /\ v * (ax * dy - ay * dx) = u * (bx * dy - by * dx)
           /\ s * (bx * dy - by * dx) = -(t * (bx * ey - by * ex))
           /\ (s * s) * (dx * dx + dy * dy) = (t * t) * (ex * ex + ey * ey)
<1>0. /\ ax \in Int /\ ay \in Int /\ bx \in Int /\ by \in Int
      /\ dx \in Int /\ dy \in Int /\ ex \in Int /\ ey \in Int
      /\ u \in Nat \ {0} /\ v \in Nat \ {0} /\ s \in Nat \ {0} /\ t \in Nat \ {0}
      /\ v * ax - u * bx = s * dx /\ v * ay - u * by = s * dy
      /\ s * dx = -(t * ex) /\ s * dy = -(t * ey)
  BY DEF Seen
<1> USE <1>0
<1> DEFINE DA == ax * dx + ay * dy
           DB == bx * dx + by * dy
           EA == ax * ex + ay * ey
           EB == bx * ex + by * ey
<1>1. DA \in Int /\ DB \in Int /\ EA \in Int /\ EB \in Int  OBVIOUS
<1>2. s * DA = -(t * EA) /\ s * DB = -(t * EB)
  <2>1. s * DA = ax * (s * dx) + ay * (s * dy)  OBVIOUS
  <2>2. s * DB = bx * (s * dx) + by * (s * dy)  OBVIOUS
  <2>3. ax * (s * dx) + ay * (s * dy) = -(t * EA)  OBVIOUS
  <2>4. bx * (s * dx) + by * (s * dy) = -(t * EB)  OBVIOUS
  <2> QED  BY <2>1, <2>2, <2>3, <2>4
<1>3. v * DA - u * DB = s * (dx * dx + dy * dy)
  <2>1. v * DA - u * DB = dx * (v * ax - u * bx) + dy * (v * ay - u * by)  OBVIOUS
  <2>2. dx * (v * ax - u * bx) + dy * (v * ay - u * by) = dx * (s * dx) + dy * (s * dy)
    OBVIOUS
  <2> QED  BY <2>1, <2>2
<1>4. (EB <= 0 <=> DB >= 0) /\ (EA >= 0 <=> DA <= 0)
  <2> HIDE DEF DA, DB, EA, EB
  <2> QED  BY <1>1, <1>2, SignScales
<1>5. ASSUME DA <= 0, DB >= 0
      PROVE  dx = 0 /\ dy = 0 /\ (u * u) * (bx * bx + by * by) = (v * v) * (ax * ax + ay * ay)
  <2>1. v * DA <= 0 /\ u * DB >= 0 /\ v * DA \in Int /\ u * DB \in Int
    <3> HIDE DEF DA, DB
    <3> QED  BY <1>1, <1>5, SignScales
  <2> DEFINE n == dx * dx + dy * dy
  <2>2. n \in Int  OBVIOUS
  <2>3. s * n <= 0
    <3> HIDE DEF DA, DB, n
    <3> QED  BY <1>3, <2>1 DEF n
  <2>4. n <= 0
    <3> HIDE DEF n
    <3> QED  BY <2>2, <2>3, SignScales
  <2>5. dx * dx >= 0 /\ dy * dy >= 0  OBVIOUS
  <2>6. dx * dx = 0 /\ dy * dy = 0  BY <2>4, <2>5
  <2>7. dx = 0 /\ dy = 0  BY <2>6
  <2>8. v * ax = u * bx /\ v * ay = u * by  BY <2>7
  <2>9. (v * v) * (ax * ax + ay * ay) = (v * ax) * (v * ax) + (v * ay) * (v * ay)  OBVIOUS
  <2>10. (u * u) * (bx * bx + by * by) = (u * bx) * (u * bx) + (u * by) * (u * by)  OBVIOUS
  <2> QED  BY <2>7, <2>8, <2>9, <2>10
<1>6. v * (ax * dy - ay * dx) = u * (bx * dy - by * dx)
  <2>1. v * (ax * dy - ay * dx) - u * (bx * dy - by * dx)
        = dy * (v * ax - u * bx) - dx * (v * ay - u * by)  OBVIOUS
  <2>2. dy * (v * ax - u * bx) - dx * (v * ay - u * by) = dy * (s * dx) - dx * (s * dy)  OBVIOUS
  <2>3. dy * (s * dx) - dx * (s * dy) = 0  OBVIOUS
  <2> QED  BY <2>1, <2>2, <2>3
<1>7. s * (bx * dy - by * dx) = -(t * (bx * ey - by * ex))
  <2>1. s * (bx * dy - by * dx) = bx * (s * dy) - by * (s * dx)  OBVIOUS
  <2>2. bx * (s * dy) - by * (s * dx) = -(t * (bx * ey - by * ex))  OBVIOUS
  <2> QED  BY <2>1, <2>2
<1>8. (s * s) * (dx * dx + dy * dy) = (t * t) * (ex * ex + ey * ey)
  <2>1. (s * s) * (dx * dx + dy * dy) = (s * dx) * (s * dx) + (s * dy) * (s * dy)  OBVIOUS
  <2>2. (t * t) * (ex * ex + ey * ey) = (t * ex) * (t * ex) + (t * ey) * (t * ey)  OBVIOUS
  <2> QED  BY <2>1, <2>2
<1> QED  BY <1>4, <1>5, <1>6, <1>7, <1>8

\* What TurnedAround says where the foot of the perpendicular is on the segment:
\* c and g are the cross products, n and m the squared lengths.
Crossed(c, f, g, n, m, u, v, s, t) ==
    /\ {c, f, g, n, m} \subseteq Int /\ {u, v, s, t} \subseteq Nat \ {0}
    /\ v * c = u * f /\ s * f = -(t * g) /\ (s * s) * n = (t * t) * m

\* Then the squared distances are the same fraction.
LEMMA SameFraction ==
    ASSUME NEW c, NEW f, NEW g, NEW n, NEW m, NEW u, NEW v, NEW s, NEW t,
           Crossed(c, f, g, n, m, u, v, s, t)
    PROVE  (n * (u * u)) * (g * g) = (m * (v * v)) * (c * c)
<1>0. /\ c \in Int /\ f \in Int /\ g \in Int /\ n \in Int /\ m \in Int
      /\ u \in Nat \ {0} /\ v \in Nat \ {0} /\ s \in Nat \ {0} /\ t \in Nat \ {0}
      /\ v * c = u * f /\ s * f = -(t * g) /\ (s * s) * n = (t * t) * m
  BY DEF Crossed
<1> USE <1>0
<1>1. (v * v) * (c * c) = (u * u) * (f * f)
  <2>1. (v * v) * (c * c) = (v * c) * (v * c)  OBVIOUS
  <2>2. (u * u) * (f * f) = (u * f) * (u * f)  OBVIOUS
  <2> QED  BY <2>1, <2>2
<1>2. (s * s) * (f * f) = (t * t) * (g * g)
  <2>1. (s * s) * (f * f) = (s * f) * (s * f)  OBVIOUS
  <2>2. (t * t) * (g * g) = (t * g) * (t * g)  OBVIOUS
  <2> QED  BY <2>1, <2>2
<1> DEFINE ss == s * s
           tt == t * t
           ff == f * f
           gg == g * g
           uu == u * u
           vcc == (v * v) * (c * c)
<1>3. /\ ss \in Nat \ {0} /\ tt \in Nat \ {0} /\ ff \in Int /\ gg \in Int /\ uu \in Int
      /\ vcc \in Int
  OBVIOUS
<1>4. ss * n = tt * m /\ ss * ff = tt * gg /\ vcc = uu * ff
  BY <1>1, <1>2
<1>5. m * vcc = (m * (v * v)) * (c * c)  OBVIOUS
<1> HIDE DEF ss, tt, ff, gg, uu, vcc
<1>6. (ss * tt) * (n * gg) = (ss * tt) * (m * ff)
  <2>1. (ss * tt) * (n * gg) = (ss * n) * (tt * gg)  BY <1>3
  <2>2. (ss * tt) * (m * ff) = (tt * m) * (ss * ff)  BY <1>3
  <2> QED  BY <1>4, <2>1, <2>2
<1>7. n * gg = m * ff
  <2>1. ss * tt \in Nat \ {0} /\ n * gg \in Int /\ m * ff \in Int  BY <1>3
  <2> QED  BY <1>6, <2>1, Cancel
<1>8. (n * uu) * gg = m * vcc
  <2>1. (n * uu) * gg = uu * (n * gg)  BY <1>3
  <2>2. m * vcc = uu * (m * ff)  BY <1>3, <1>4
  <2> QED  BY <1>7, <2>1, <2>2
<1> QED  BY <1>5, <1>8 DEF uu, gg

\* x / k and z / l: how far c is, seen along pq and along qp
Measures(c, p, q, x, k) ==
    \A r \in Int : /\ FromSegment(AtMost, c, p, q, r) <=> x <= r * k
                   /\ FromSegment(Below, c, p, q, r) <=> x < r * k
                   /\ FromSegment(AtLeast, c, p, q, r) <=> x >= r * k

\* What FromSegment compares with the radius, in each of its three cases.
LEMMA MeasureIs ==
    ASSUME NEW p \in Places, NEW q \in Places, NEW c \in Lattice,
           NEW dx \in Int, NEW dy \in Int, Direction(p, q) = <<dx, dy>>
    PROVE  LET ax == c[1] * p[3] - p[1]
               ay == c[2] * p[3] - p[2]
               bx == c[1] * q[3] - q[1]
               by == c[2] * q[3] - q[2]
               x == ax * dy - ay * dx
           IN  /\ ax * dx + ay * dy <= 0 =>
                     Measures(c, p, q, ax * ax + ay * ay, p[3] * p[3])
               /\ ~(ax * dx + ay * dy <= 0) /\ bx * dx + by * dy >= 0 =>
                     Measures(c, p, q, bx * bx + by * by, q[3] * q[3])
               /\ ~(ax * dx + ay * dy <= 0) /\ ~(bx * dx + by * dy >= 0) =>
                     Measures(c, p, q, x * x, (dx * dx + dy * dy) * (p[3] * p[3]))
<1> DEFINE u == p[3]
           v == q[3]
           ax == c[1] * p[3] - p[1]
           ay == c[2] * p[3] - p[2]
           bx == c[1] * q[3] - q[1]
           by == c[2] * q[3] - q[2]
           x == ax * dy - ay * dx
           n == dx * dx + dy * dy
<1>1. /\ ax \in Int /\ ay \in Int /\ bx \in Int /\ by \in Int /\ u \in Nat \ {0} /\ v \in Nat \ {0}
      /\ x \in Int /\ n \in Int
  BY DEF Places, Lattice
<1>2. From(p, c) = <<ax, ay>> /\ From(q, c) = <<bx, by>>  BY DEF From
<1> HIDE DEF ax, ay, bx, by, u, v
<1>3. CASE ax * dx + ay * dy <= 0
  <2>1. Dot(From(p, c), Direction(p, q)) <= 0  BY <1>2, <1>3 DEF Dot
  <2>2. Norm2(From(p, c)) = ax * ax + ay * ay  BY <1>2 DEF Norm2, Dot
  <2>3. ASSUME NEW r \in Int
        PROVE  /\ FromSegment(AtMost, c, p, q, r) <=> ax * ax + ay * ay <= r * u * u
               /\ FromSegment(Below, c, p, q, r) <=> ax * ax + ay * ay < r * u * u
               /\ FromSegment(AtLeast, c, p, q, r) <=> ax * ax + ay * ay >= r * u * u
    BY <2>1, <2>2, Zenon DEF FromSegment, Within, AtMost, Below, AtLeast, u
  <2>4. \A r \in Int : r * u * u = r * (u * u)  BY <1>1
  <2> QED  BY <1>3, <2>3, <2>4 DEF Measures, u, v, ax, ay, bx, by
<1>4. CASE ~(ax * dx + ay * dy <= 0) /\ bx * dx + by * dy >= 0
  <2>1. ~(Dot(From(p, c), Direction(p, q)) <= 0) /\ Dot(From(q, c), Direction(p, q)) >= 0
    BY <1>2, <1>4 DEF Dot
  <2>2. Norm2(From(q, c)) = bx * bx + by * by  BY <1>2 DEF Norm2, Dot
  <2>3. ASSUME NEW r \in Int
        PROVE  /\ FromSegment(AtMost, c, p, q, r) <=> bx * bx + by * by <= r * v * v
               /\ FromSegment(Below, c, p, q, r) <=> bx * bx + by * by < r * v * v
               /\ FromSegment(AtLeast, c, p, q, r) <=> bx * bx + by * by >= r * v * v
    BY <2>1, <2>2, Zenon DEF FromSegment, Within, AtMost, Below, AtLeast, v
  <2>4. \A r \in Int : r * v * v = r * (v * v)  BY <1>1
  <2> QED  BY <1>4, <2>3, <2>4 DEF Measures, u, v, ax, ay, bx, by
<1>5. CASE ~(ax * dx + ay * dy <= 0) /\ ~(bx * dx + by * dy >= 0)
  <2>1. ~(Dot(From(p, c), Direction(p, q)) <= 0) /\ ~(Dot(From(q, c), Direction(p, q)) >= 0)
    BY <1>2, <1>5 DEF Dot
  <2>2. Cross(From(p, c), Direction(p, q)) = x  BY <1>2 DEF Cross
  <2>3. Norm2(Direction(p, q)) = n  BY DEF Norm2, Dot
  <2>4. ASSUME NEW r \in Int
        PROVE  /\ FromSegment(AtMost, c, p, q, r) <=> x * x <= r * n * u * u
               /\ FromSegment(Below, c, p, q, r) <=> x * x < r * n * u * u
               /\ FromSegment(AtLeast, c, p, q, r) <=> x * x >= r * n * u * u
    BY <2>1, <2>2, <2>3, Zenon DEF FromSegment, AtMost, Below, AtLeast, u
  <2> HIDE DEF x, n
  <2>5. \A r \in Int : r * n * u * u = r * (n * (u * u))  BY <1>1
  <2>6. Measures(c, p, q, x * x, n * (u * u))
    BY <2>4, <2>5 DEF Measures
  <2> QED  BY <1>5, <2>6 DEF x, n, u, v, ax, ay, bx, by
<1> QED  BY <1>3, <1>4, <1>5 DEF x, n, u, v, ax, ay, bx, by

\* A segment is as far from a point whichever end it is read from: the two
\* measures are equal fractions.
LEMMA DistanceIs ==
    ASSUME NEW p \in Places, NEW q \in Places, NEW c \in Lattice
    PROVE  \E x \in Int, k \in Nat \ {0}, z \in Int, l \in Nat \ {0} :
              /\ Measures(c, p, q, x, k) /\ Measures(c, q, p, z, l) /\ k * z = l * x
<1>1. PICK s \in Nat \ {0}, dx \in Int, dy \in Int :
         /\ Direction(p, q) = <<dx, dy>>
         /\ q[1] * p[3] - p[1] * q[3] = s * dx
         /\ q[2] * p[3] - p[2] * q[3] = s * dy
  BY DirectionIsOffset
<1>2. PICK t \in Nat \ {0}, ex \in Int, ey \in Int :
         /\ Direction(q, p) = <<ex, ey>>
         /\ p[1] * q[3] - q[1] * p[3] = t * ex
         /\ p[2] * q[3] - q[2] * p[3] = t * ey
  BY DirectionIsOffset
<1> DEFINE u == p[3]
           v == q[3]
           ax == c[1] * p[3] - p[1]
           ay == c[2] * p[3] - p[2]
           bx == c[1] * q[3] - q[1]
           by == c[2] * q[3] - q[2]
           x == ax * dy - ay * dx
           y == bx * dy - by * dx
           z == bx * ey - by * ex
           n == dx * dx + dy * dy
           m == ex * ex + ey * ey
           DA == ax * dx + ay * dy
           DB == bx * dx + by * dy
           EA == ax * ex + ay * ey
           EB == bx * ex + by * ey
           na == ax * ax + ay * ay
           nb == bx * bx + by * by
<1>3. /\ ax \in Int /\ ay \in Int /\ bx \in Int /\ by \in Int /\ u \in Nat \ {0} /\ v \in Nat \ {0}
      /\ p[1] \in Int /\ p[2] \in Int /\ q[1] \in Int /\ q[2] \in Int /\ c[1] \in Int /\ c[2] \in Int
  BY DEF Places, Lattice
<1>4. /\ v * ax - u * bx = s * dx /\ v * ay - u * by = s * dy
      /\ s * dx = -(t * ex) /\ s * dy = -(t * ey)
  BY <1>1, <1>2, <1>3
<1>5. /\ DA <= 0 => Measures(c, p, q, na, u * u)
      /\ ~(DA <= 0) /\ DB >= 0 => Measures(c, p, q, nb, v * v)
      /\ ~(DA <= 0) /\ ~(DB >= 0) => Measures(c, p, q, x * x, n * (u * u))
  BY <1>1, MeasureIs, Zenon
<1>6. /\ EB <= 0 => Measures(c, q, p, nb, v * v)
      /\ ~(EB <= 0) /\ EA >= 0 => Measures(c, q, p, na, u * u)
      /\ ~(EB <= 0) /\ ~(EA >= 0) => Measures(c, q, p, z * z, m * (v * v))
  BY <1>2, MeasureIs, Zenon
<1> HIDE DEF u, v, ax, ay, bx, by
<1>7. /\ EB <= 0 <=> DB >= 0
      /\ EA >= 0 <=> DA <= 0
      /\ DA <= 0 /\ DB >= 0 => dx = 0 /\ dy = 0 /\ (u * u) * nb = (v * v) * na
      /\ v * x = u * y
      /\ s * y = -(t * z)
      /\ (s * s) * n = (t * t) * m
  <2>1. Seen(ax, ay, bx, by, dx, dy, ex, ey, u, v, s, t)  BY <1>3, <1>4 DEF Seen
  <2> QED  BY <2>1, TurnedAround
<1>8. /\ x \in Int /\ y \in Int /\ z \in Int /\ n \in Int /\ m \in Int /\ na \in Int /\ nb \in Int
      /\ DA \in Int /\ DB \in Int
      /\ u * u \in Nat \ {0} /\ v * v \in Nat \ {0}
  BY <1>3
<1>9. x * x \in Int /\ z * z \in Int
  BY <1>8
<1>10. ~(DA <= 0) => n * (u * u) \in Nat \ {0} /\ m * (v * v) \in Nat \ {0}
  <2> SUFFICES ASSUME ~(DA <= 0) PROVE n * (u * u) \in Nat \ {0} /\ m * (v * v) \in Nat \ {0}
    OBVIOUS
  <2>1. n # 0
    <3>1. dx * dx >= 0 /\ dy * dy >= 0  OBVIOUS
    <3>2. n = 0 => dx = 0 /\ dy = 0  BY <3>1
    <3>3. dx = 0 /\ dy = 0 => DA = 0  BY <1>3
    <3> QED  BY <3>2, <3>3
  <2>2. n \in Nat \ {0}
    <3>1. dx * dx >= 0 /\ dy * dy >= 0  OBVIOUS
    <3> QED  BY <2>1, <3>1
  <2>3. m \in Nat \ {0}
    <3>1. ex * ex >= 0 /\ ey * ey >= 0  OBVIOUS
    <3>2. m \in Nat  BY <3>1
    <3>3. m # 0
      <4>1. s * s \in Nat \ {0}  OBVIOUS
      <4> HIDE DEF n, m
      <4>2. (s * s) * n > 0  BY <2>2, <4>1
      <4> QED  BY <1>7, <4>2
    <3> QED  BY <3>2, <3>3
  <2> HIDE DEF n, m
  <2> DEFINE uu == u * u
             vv == v * v
  <2>4. uu \in Nat \ {0} /\ vv \in Nat \ {0}  BY <1>8
  <2> HIDE DEF uu, vv
  <2>5. n * uu \in Nat \ {0} /\ m * vv \in Nat \ {0}  BY <2>2, <2>3, <2>4
  <2> QED  BY <2>5 DEF uu, vv
<1>11. CASE DA <= 0 /\ DB >= 0
  <2>1. Measures(c, p, q, na, u * u) /\ Measures(c, q, p, nb, v * v)
    BY <1>5, <1>6, <1>7, <1>11, Zenon
  <2>2. (u * u) * nb = (v * v) * na  BY <1>7, <1>11
  <2> QED  BY <1>8, <2>1, <2>2, Zenon
<1>12. CASE DA <= 0 /\ ~(DB >= 0)
  <2>1. Measures(c, p, q, na, u * u) /\ Measures(c, q, p, na, u * u)
    BY <1>5, <1>6, <1>7, <1>12, Zenon
  <2>2. (u * u) * na = (u * u) * na  OBVIOUS
  <2> QED  BY <1>8, <2>1, <2>2, Zenon
<1>13. CASE ~(DA <= 0) /\ DB >= 0
  <2>1. Measures(c, p, q, nb, v * v) /\ Measures(c, q, p, nb, v * v)
    BY <1>5, <1>6, <1>7, <1>13, Zenon
  <2>2. (v * v) * nb = (v * v) * nb  OBVIOUS
  <2> QED  BY <1>8, <2>1, <2>2, Zenon
<1>14. CASE ~(DA <= 0) /\ ~(DB >= 0)
  <2>1. Measures(c, p, q, x * x, n * (u * u)) /\ Measures(c, q, p, z * z, m * (v * v))
    BY <1>5, <1>6, <1>7, <1>14, Zenon
  <2>2. (n * (u * u)) * (z * z) = (m * (v * v)) * (x * x)
    <3>1. Crossed(x, y, z, n, m, u, v, s, t)
      <4> HIDE DEF x, y, z, n, m
      <4> QED  BY <1>3, <1>7, <1>8 DEF Crossed
    <3> QED  BY <3>1, SameFraction
  <2> QED  BY <1>9, <1>10, <1>14, <2>1, <2>2, Zenon
<1> QED  BY <1>11, <1>12, <1>13, <1>14, Zenon

\* Equal fractions compare alike with a radius.
LEMMA CompareFractions ==
    ASSUME NEW x \in Int, NEW z \in Int, NEW k \in Nat \ {0}, NEW l \in Nat \ {0},
           k * z = l * x, NEW r \in Int
    PROVE  /\ x <= r * k <=> z <= r * l
           /\ x < r * k <=> z < r * l
<1>1. l * (r * k - x) = k * (r * l - z)  OBVIOUS
<1> DEFINE a == r * k - x
           b == r * l - z
<1>2. a \in Int /\ b \in Int  OBVIOUS
<1>3. (x <= r * k <=> a >= 0) /\ (z <= r * l <=> b >= 0) /\ (x < r * k <=> a > 0) /\ (z < r * l <=> b > 0)
  OBVIOUS
<1>4. l * a = k * b  BY <1>1
<1> HIDE DEF a, b
<1>5. (l * a >= 0 <=> a >= 0) /\ (k * b >= 0 <=> b >= 0) /\ (l * a <= 0 <=> a <= 0) /\ (k * b <= 0 <=> b <= 0)
  BY <1>2, SignScales
<1>6. (a >= 0 <=> b >= 0) /\ (a > 0 <=> b > 0)
  BY <1>2, <1>4, <1>5
<1> QED  BY <1>3, <1>6

\* So a check of a segment does not depend on its direction,
LEMMA SegmentTurns ==
    ASSUME NEW p \in Places, NEW q \in Places, NEW c \in Lattice, NEW r \in Int
    PROVE  /\ FromSegment(AtMost, c, p, q, r) <=> FromSegment(AtMost, c, q, p, r)
           /\ FromSegment(Below, c, p, q, r) <=> FromSegment(Below, c, q, p, r)
<1>1. PICK x \in Int, k \in Nat \ {0}, z \in Int, l \in Nat \ {0} :
         /\ Measures(c, p, q, x, k) /\ Measures(c, q, p, z, l) /\ k * z = l * x
  BY DistanceIs
<1>2. (x <= r * k <=> z <= r * l) /\ (x < r * k <=> z < r * l)
  BY <1>1, CompareFractions
<1> QED  BY <1>1, <1>2, Zenon DEF Measures

\* and one that keeps the larger distance is free at the smaller.
LEMMA ClearIsFree ==
    ASSUME NEW p \in Places, NEW q \in Places, NEW c \in Lattice, NEW r \in Int, NEW m \in Int,
           r < m, FromSegment(AtLeast, c, p, q, m)
    PROVE  ~FromSegment(AtMost, c, p, q, r)
<1>1. PICK x \in Int, k \in Nat \ {0}, z \in Int, l \in Nat \ {0} :
         /\ Measures(c, p, q, x, k) /\ Measures(c, q, p, z, l) /\ k * z = l * x
  BY DistanceIs
<1>2. x >= m * k  BY <1>1, Zenon DEF Measures
<1>3. m * k > r * k  OBVIOUS
<1>4. m * k \in Int /\ r * k \in Int  OBVIOUS
<1>5. ~(x <= r * k)  BY <1>2, <1>3, <1>4
<1> QED  BY <1>1, <1>5, Zenon DEF Measures

--------------------------------------------------------------------------------
(* What each planner builds. *)

\* A segment passes the planner's own check, in both directions.
Clear(e) ==
    \A p, q \in e : p # q =>
        CASE planner = "prm" -> IsPathFree(p, q, PADDED2)
          [] planner = "visibility" -> Visible(p, q, {})
          [] planner = "voronoi" -> IsPathFree(p, q, BODY2)

\* The request is one that plan() takes.
RequestOK ==
    /\ planner \in Planners /\ trip \in Trips
    /\ obstacles \subseteq Spots
    /\ planner = "voronoi" => Sites(virtual)

\* The sites, the ends and the planner of a request.
LEMMA Typed ==
    ASSUME RequestOK
    PROVE  /\ Sites(obstacles) /\ Start \in Places /\ Target \in Places
           /\ planner \in {"prm", "visibility", "voronoi"}
<1>1. Sites(obstacles)  BY SearchAssumption, FS_Subset DEF RequestOK, Sites
<1>2. Start \in Lattice /\ Target \in Lattice
  BY SearchAssumption DEF RequestOK, Start, Target
<1>3. planner \in {"prm", "visibility", "voronoi"}  BY SearchAssumption DEF RequestOK
<1> QED  BY <1>1, <1>2, <1>3 DEF Lattice, Places

\* is_path_free holds of a segment and its reverse alike,
LEMMA PathFreeTurns ==
    ASSUME Sites(obstacles), NEW p \in Places, NEW q \in Places, NEW r \in Int, IsPathFree(p, q, r)
    PROVE  IsPathFree(q, p, r)
<1> SUFFICES ASSUME NEW o \in obstacles PROVE ~FromSegment(AtMost, o, q, p, r)
  BY Zenon DEF IsPathFree
<1>1. ~FromSegment(AtMost, o, p, q, r)  BY Zenon DEF IsPathFree
<1>2. o \in Lattice  BY DEF Sites
<1> QED  BY <1>1, <1>2, SegmentTurns, Zenon

\* and _visible too.
LEMMA VisibleTurns ==
    ASSUME Sites(obstacles), NEW p \in Places, NEW q \in Places, Visible(p, q, {})
    PROVE  Visible(q, p, {})
<1> SUFFICES ASSUME NEW o \in obstacles \ {} PROVE ~FromSegment(Below, o, q, p, PADDED2)
  BY Zenon DEF Visible
<1>1. ~FromSegment(Below, o, p, q, PADDED2)  BY Zenon DEF Visible
<1>2. o \in Lattice  BY DEF Sites
<1>3. PADDED2 \in Int  BY SearchAssumption
<1> QED  BY <1>1, <1>2, <1>3, SegmentTurns, Zenon

\* It is enough to check a segment in one direction.
LEMMA OneWayIsClear ==
    ASSUME RequestOK, NEW a \in Places, NEW b \in Places,
           planner = "prm" => IsPathFree(a, b, PADDED2),
           planner = "visibility" => Visible(a, b, {}),
           planner = "voronoi" => IsPathFree(a, b, BODY2)
    PROVE  Clear({a, b})
<1>1. Sites(obstacles) /\ planner \in {"prm", "visibility", "voronoi"}  BY Typed
<1>2. PADDED2 \in Int /\ BODY2 \in Int  BY SearchAssumption
<1>3. planner = "prm" => IsPathFree(b, a, PADDED2)  BY <1>1, <1>2, PathFreeTurns
<1>4. planner = "visibility" => Visible(b, a, {})  BY <1>1, VisibleTurns
<1>5. planner = "voronoi" => IsPathFree(b, a, BODY2)  BY <1>1, <1>2, PathFreeTurns
<1> QED  BY <1>1, <1>3, <1>4, <1>5 DEF Clear

\* The straight segment each planner answers first is clear.
LEMMA DirectIsClear ==
    ASSUME RequestOK, DirectIsFree
    PROVE  Clear({Start, Target})
BY Typed, OneWayIsClear DEF DirectIsFree, SegmentFree, BodyFree

\* So is every edge of the roadmap.
LEMMA RoadmapIsClear ==
    ASSUME RequestOK, planner = "prm", NEW samples \in SUBSET Pool, NEW e \in Roadmap(samples)
    PROVE  Clear(e)
<1> DEFINE free == {p \in samples : ~Inside(p)} \cup {Start, Target}
<1>1. PICK d \in free \X free : SegmentFree(d[1], d[2]) /\ e = {d[1], d[2]}
  BY DEF Roadmap
<1>2. free \subseteq Places
  BY Typed, SearchAssumption DEF Lattice, Places
<1>3. d[1] \in Places /\ d[2] \in Places  BY <1>1, <1>2
<1> QED  BY <1>1, <1>3, OneWayIsClear DEF SegmentFree

\* The chord of two neighbouring waypoints touches their own circle.
LEMMA ChordTouches ==
    ASSUME NEW o \in Lattice, NEW i \in 1 .. 4, NEW j \in 1 .. 4, Size(i - j) \in {1, 3}
    PROVE  ~FromSegment(Below, o, CircleWaypoints(o)[i], CircleWaypoints(o)[j], PADDED2)
<1> DEFINE p == CircleWaypoints(o)[i]
           q == CircleWaypoints(o)[j]
           ax == o[1] - p[1]
           ay == o[2] - p[2]
           bx == o[1] - q[1]
           by == o[2] - q[2]
           R == REACH
<1>1. REACH \in Nat \ {0} /\ REACH * REACH = 2 * PADDED2 /\ PADDED2 \in Int
  BY SearchAssumption
<1>2. /\ p \in Places /\ q \in Places /\ p[3] = 1 /\ q[3] = 1
      /\ \/ ax = 0 /\ bx # 0 /\ by = 0 /\ ay \in {R, -R} /\ bx \in {R, -R}
         \/ ay = 0 /\ by # 0 /\ bx = 0 /\ ax \in {R, -R} /\ by \in {R, -R}
  <2>1. o[1] \in Int /\ o[2] \in Int  BY DEF Lattice
  <2>2. (i \in {1, 3} /\ j \in {2, 4}) \/ (i \in {2, 4} /\ j \in {1, 3})
    BY DEF Size
  <2> DEFINE at == CircleWaypoints(o)
  <2>3. /\ at[1] = <<o[1] + R, o[2], 1>> /\ at[2] = <<o[1], o[2] + R, 1>>
        /\ at[3] = <<o[1] - R, o[2], 1>> /\ at[4] = <<o[1], o[2] - R, 1>>
    BY DEF CircleWaypoints, At
  <2>4. p = at[i] /\ q = at[j]  OBVIOUS
  <2> HIDE DEF at
  <2>5. \A k \in 1 .. 4 : at[k] \in Places /\ at[k][3] = 1
    <3>1. at[1] \in Places /\ at[1][3] = 1  BY <1>1, <2>1, <2>3 DEF Places
    <3>2. at[2] \in Places /\ at[2][3] = 1  BY <1>1, <2>1, <2>3 DEF Places
    <3>3. at[3] \in Places /\ at[3][3] = 1  BY <1>1, <2>1, <2>3 DEF Places
    <3>4. at[4] \in Places /\ at[4][3] = 1  BY <1>1, <2>1, <2>3 DEF Places
    <3> QED  BY <3>1, <3>2, <3>3, <3>4
  <2> HIDE DEF p, q
  <2>6. CASE i \in {1, 3} /\ j \in {2, 4}
    BY <1>1, <2>1, <2>3, <2>4, <2>5, <2>6
  <2>7. CASE i \in {2, 4} /\ j \in {1, 3}
    BY <1>1, <2>1, <2>3, <2>4, <2>5, <2>7
  <2> QED  BY <2>2, <2>6, <2>7
<1> HIDE DEF p, q
<1>3. PICK s \in Nat \ {0}, dx \in Int, dy \in Int :
         /\ Direction(p, q) = <<dx, dy>>
         /\ q[1] * p[3] - p[1] * q[3] = s * dx
         /\ q[2] * p[3] - p[2] * q[3] = s * dy
  BY <1>2, DirectionIsOffset
<1>4. /\ o[1] \in Int /\ o[2] \in Int /\ p[1] \in Int /\ p[2] \in Int /\ q[1] \in Int /\ q[2] \in Int
      /\ ax \in Int /\ ay \in Int /\ bx \in Int /\ by \in Int
  BY <1>2 DEF Lattice, Places
<1>5. s * dx = ax - bx /\ s * dy = ay - by
  BY <1>2, <1>3, <1>4
<1> DEFINE x == ax * dy - ay * dx
           n == dx * dx + dy * dy
<1> HIDE DEF ax, ay, bx, by
<1>6. s * (ax * dx + ay * dy) = REACH * REACH /\ s * (bx * dx + by * dy) = -(REACH * REACH)
  <2>1. s * (ax * dx + ay * dy) = ax * (ax - bx) + ay * (ay - by)  BY <1>4, <1>5
  <2>2. s * (bx * dx + by * dy) = bx * (ax - bx) + by * (ay - by)  BY <1>4, <1>5
  <2> QED  BY <1>1, <1>2, <1>4, <2>1, <2>2
<1>7. ~(ax * dx + ay * dy <= 0) /\ ~(bx * dx + by * dy >= 0)
  <2> DEFINE a == ax * dx + ay * dy
             b == bx * dx + by * dy
  <2>1. a \in Int /\ b \in Int  BY <1>4
  <2> HIDE DEF a, b
  <2>2. REACH * REACH > 0  BY <1>1
  <2>3. s * a > 0 /\ s * b < 0  BY <1>1, <1>6, <2>2 DEF a, b
  <2>4. ~(a <= 0) /\ ~(b >= 0)  BY <2>1, <2>3, SignScales
  <2> QED  BY <2>4 DEF a, b
<1>8. (s * s) * (x * x) = (s * s) * (PADDED2 * n)
  <2>1. s * x = ax * (ay - by) - ay * (ax - bx)  BY <1>4, <1>5
  <2>2. (s * x) * (s * x) = (REACH * REACH) * (REACH * REACH)
    <3>1. s * x = ay * bx - ax * by  BY <1>4, <2>1
    <3>2. s * x = REACH * REACH \/ s * x = -(REACH * REACH)  BY <1>1, <1>2, <1>4, <3>1
    <3> QED  BY <1>1, <3>2
  <2>3. (s * dx) * (s * dx) + (s * dy) * (s * dy) = 2 * (REACH * REACH)
    BY <1>1, <1>2, <1>4, <1>5
  <2>4. (s * s) * n = 2 * (REACH * REACH)  BY <1>4, <2>3
  <2>5. x \in Int /\ n \in Int  BY <1>4
  <2> HIDE DEF x, n
  <2>6. (s * s) * (x * x) = (s * x) * (s * x)  BY <2>5
  <2>7. (s * s) * (PADDED2 * n) = PADDED2 * ((s * s) * n)  BY <1>1, <2>5
  <2>8. PADDED2 * (2 * (REACH * REACH)) = (REACH * REACH) * (REACH * REACH)
    <3>1. PADDED2 * (2 * (REACH * REACH)) = (2 * PADDED2) * (REACH * REACH)  BY <1>1
    <3> QED  BY <1>1, <3>1
  <2> QED  BY <2>2, <2>4, <2>6, <2>7, <2>8
<1>9. x * x = PADDED2 * n
  <2>1. s * s \in Nat \ {0} /\ x * x \in Int /\ PADDED2 * n \in Int  BY <1>1, <1>4
  <2> HIDE DEF x, n
  <2> QED  BY <1>8, <2>1, Cancel
<1>10. Measures(o, p, q, x * x, n * (p[3] * p[3]))
  <2>1. ax = o[1] * p[3] - p[1] /\ ay = o[2] * p[3] - p[2] /\ bx = o[1] * q[3] - q[1] /\ by = o[2] * q[3] - q[2]
    BY <1>2, <1>4 DEF ax, ay, bx, by
  <2> QED  BY <1>2, <1>3, <1>7, <2>1, MeasureIs
<1>11. n * (p[3] * p[3]) = n  BY <1>2, <1>4
<1> HIDE DEF x, n
<1>12. FromSegment(Below, o, p, q, PADDED2) <=> x * x < PADDED2 * n
  BY <1>1, <1>10, <1>11, Zenon DEF Measures
<1>13. ~(x * x < PADDED2 * n)
  <2>1. PADDED2 * n \in Int  BY <1>1, <1>4 DEF n
  <2> QED  BY <1>9, <2>1
<1> QED  BY <1>12, <1>13 DEF p, q

\* The waypoints around an obstacle are points.
LEMMA WaypointsArePoints ==
    ASSUME NEW o \in Lattice, NEW i \in 1 .. 4
    PROVE  CircleWaypoints(o)[i] \in Places
<1> DEFINE at == CircleWaypoints(o)
<1>1. o[1] \in Int /\ o[2] \in Int /\ REACH \in Int  BY SearchAssumption DEF Lattice
<1>2. /\ at[1] = <<o[1] + REACH, o[2], 1>> /\ at[2] = <<o[1], o[2] + REACH, 1>>
      /\ at[3] = <<o[1] - REACH, o[2], 1>> /\ at[4] = <<o[1], o[2] - REACH, 1>>
  BY DEF CircleWaypoints, At
<1> HIDE DEF at
<1>3. at[1] \in Places  BY <1>1, <1>2 DEF Places
<1>4. at[2] \in Places  BY <1>1, <1>2 DEF Places
<1>5. at[3] \in Places  BY <1>1, <1>2 DEF Places
<1>6. at[4] \in Places  BY <1>1, <1>2 DEF Places
<1>7. at[i] \in Places  BY <1>3, <1>4, <1>5, <1>6
<1> QED  BY <1>7 DEF at

\* A vertex of the visibility graph is a point, on its own circle if it has one.
LEMMA VertexIs ==
    ASSUME RequestOK, NEW u \in Vertices
    PROVE  /\ u.at \in Places
           /\ u.of # {} => \E o \in obstacles : /\ u.of = {o} /\ u.i \in 1 .. 4
                                                /\ u.at = CircleWaypoints(o)[u.i]
<1>1. CASE u \in {[at |-> CircleWaypoints(o)[i], of |-> {o}, i |-> i] : o \in obstacles, i \in 1 .. 4}
  <2>1. PICK o \in obstacles, i \in 1 .. 4 : u = [at |-> CircleWaypoints(o)[i], of |-> {o}, i |-> i]
    BY <1>1
  <2>2. o \in Lattice  BY Typed DEF Sites
  <2> QED  BY <2>1, <2>2, WaypointsArePoints
<1>2. CASE u \in {[at |-> p, of |-> {}, i |-> 0] : p \in {Start, Target}}
  BY <1>2, Typed
<1> QED  BY <1>1, <1>2 DEF Vertices

\* The edges of the visibility graph are clear; chords only touch their circle.
LEMMA VisibilityIsClear ==
    ASSUME RequestOK, planner = "visibility", NEW e \in VisibilityEdges
    PROVE  Clear(e)
<1>1. PICK d \in Vertices \X Vertices : MaySee(d[1], d[2]) /\ e = {d[1].at, d[2].at}
  BY DEF VisibilityEdges
<1> DEFINE u == d[1]
           v == d[2]
<1>2. u \in Vertices /\ v \in Vertices /\ MaySee(u, v) /\ e = {u.at, v.at}  BY <1>1
<1> HIDE DEF u, v
<1>3. u.at \in Places /\ v.at \in Places  BY <1>2, VertexIs
<1>4. Visible(u.at, v.at, {})
  <2>1. CASE u.of # {} /\ u.of = v.of
    <3>1. PICK o \in obstacles : u.of = {o} /\ u.i \in 1 .. 4 /\ u.at = CircleWaypoints(o)[u.i]
      BY <1>2, <2>1, VertexIs
    <3>2. PICK w \in obstacles : v.of = {w} /\ v.i \in 1 .. 4 /\ v.at = CircleWaypoints(w)[v.i]
      BY <1>2, <2>1, VertexIs
    <3>3. w = o  BY <2>1, <3>1, <3>2
    <3>4. Size(u.i - v.i) \in {1, 3} /\ Visible(u.at, v.at, {o})
      BY <1>2, <2>1, <3>1 DEF MaySee, Adjacent
    <3>5. o \in Lattice  BY Typed DEF Sites
    <3>6. ~FromSegment(Below, o, u.at, v.at, PADDED2)
      BY <3>1, <3>2, <3>3, <3>4, <3>5, ChordTouches, Zenon
    <3>7. ASSUME NEW x \in obstacles, x # o PROVE ~FromSegment(Below, x, u.at, v.at, PADDED2)
      BY <3>4, <3>7, Zenon DEF Visible
    <3>8. \A x \in obstacles : ~FromSegment(Below, x, u.at, v.at, PADDED2)
      BY <3>6, <3>7, Zenon
    <3> QED  BY <3>8, Zenon DEF Visible
  <2>2. CASE ~(u.of # {} /\ u.of = v.of)
    BY <1>2, <2>2 DEF MaySee
  <2> QED  BY <2>1, <2>2
<1> QED  BY <1>2, <1>3, <1>4, OneWayIsClear

\* The edges of the Voronoi map are clear: the map keeps more than the gate asks.
LEMMA BorderIsClear ==
    ASSUME RequestOK, planner = "voronoi", NEW e \in Generated(virtual, obstacles).edges
    PROVE  Clear(e) /\ e \subseteq Places
<1> DEFINE sites == virtual \cup obstacles
<1>1. Sites(obstacles) /\ Sites(virtual)  BY Typed DEF RequestOK
<1>2. Sites(sites)  BY <1>1, FS_Union DEF Sites
<1>3. e \in NavigationGraph([s \in sites |-> Cell(s, sites)], sites, obstacles)
  BY DEF Generated
<1> HIDE DEF sites
<1>4. e \subseteq Places /\ KeepsClear(e, sites, obstacles)
  BY <1>2, <1>3, BordersArePoints
<1>5. BODY2 \in Int /\ MAP2 \in Int /\ BODY2 < MAP2  BY SearchAssumption, MapAssumption
<1>6. ASSUME NEW p \in e, NEW q \in e, p # q, NEW o \in obstacles
      PROVE  ~FromSegment(AtMost, o, p, q, BODY2)
  <2>1. FromSegment(AtLeast, o, p, q, MAP2)  BY <1>4, <1>6, Zenon DEF KeepsClear
  <2>2. p \in Places /\ q \in Places /\ o \in Lattice  BY <1>1, <1>4 DEF Sites
  <2> QED  BY <1>5, <2>1, <2>2, ClearIsFree, Zenon
<1>7. \A p, q \in e : p # q => IsPathFree(p, q, BODY2)
  BY <1>6, Zenon DEF IsPathFree
<1>8. Clear(e)
  BY <1>7 DEF Clear
<1> QED  BY <1>4, <1>8

\* So are the connections of start and target.
LEMMA ConnectionIsClear ==
    ASSUME RequestOK, planner = "voronoi", NEW p \in Places, NEW nodes \in SUBSET Places,
           NEW e \in Connected(p, nodes)
    PROVE  Clear(e)
<1> DEFINE free  == {n \in nodes : BodyFree(p, n)}
           close == {n \in free : Within(AtMost, p, n, CONNECTION_RADIUS2)}
           near  == IF close # {} THEN Nearest(p, close, CONNECTIONS) ELSE Nearest(p, free, 1)
<1>1. Connected(p, nodes) = {{p, n} : n \in near}
  BY Zenon DEF Connected
<1>2. close \subseteq free /\ near \subseteq close \cup free
  <2>1. \A X : \A k : Nearest(p, X, k) \subseteq X  BY DEF Nearest
  <2>2. close \subseteq free  OBVIOUS
  <2> HIDE DEF close, free
  <2> QED  BY <2>1, <2>2
<1>3. near \subseteq free  BY <1>2
<1>4. PICK n \in near : e = {p, n}
  <2> HIDE DEF near
  <2> QED  BY <1>1
<1>5. n \in Places /\ BodyFree(p, n)
  <2> HIDE DEF near
  <2>1. n \in free  BY <1>3
  <2> QED  BY <2>1
<1> QED  BY <1>4, <1>5, OneWayIsClear DEF BodyFree

\* The spliced map is clear.
LEMMA SplicedIsClear ==
    ASSUME RequestOK, planner = "voronoi", NEW e \in Spliced(Generated(virtual, obstacles).edges)
    PROVE  Clear(e)
<1> DEFINE edges == Generated(virtual, obstacles).edges
<1>1. \A d \in edges : Clear(d) /\ d \subseteq Places  BY BorderIsClear
<1>2. e \in Spliced(edges)  OBVIOUS
<1> HIDE DEF edges
<1>3. UNION edges \in SUBSET Places  BY <1>1
<1>4. Start \in Places /\ Target \in Places  BY Typed
<1>5. e \in edges \/ e \in Connected(Start, UNION edges) \/ e \in Connected(Target, UNION edges)
  BY <1>2 DEF Spliced
<1> QED  BY <1>1, <1>3, <1>4, <1>5, ConnectionIsClear

--------------------------------------------------------------------------------
(* Lines, turns and polygons: what a polygon encloses. *)

\* The value at a point of a linear form in its three coordinates: where it is 0
\* is a line, and a half-plane is where it is at most 0.
Value(h, p) == h[1] * p[1] + h[2] * p[2] + h[3] * p[3]
Lines == Int \X Int \X Int

\* Positive where q is on the left of the way from v to w, 0 on its line.
Turn(v, w, q) == v[1] * (w[2] * q[3] - w[3] * q[2]) - v[2] * (w[1] * q[3] - w[3] * q[1])
                 + v[3] * (w[1] * q[2] - w[2] * q[1])

\* Values are whole numbers,
LEMMA ValueType ==
    ASSUME NEW h \in Lines, NEW p \in Places
    PROVE  Value(h, p) \in Int
BY DEF Value, Lines, Places

\* and so are turns.
LEMMA TurnType ==
    ASSUME NEW v \in Places, NEW w \in Places, NEW q \in Places
    PROVE  Turn(v, w, q) \in Int
BY DEF Turn, Places

\* Read from its other end a way has its left where it had its right.
LEMMA TurnTurns ==
    ASSUME NEW v \in Places, NEW w \in Places, NEW q \in Places
    PROVE  Turn(v, v, q) = 0 /\ Turn(v, w, q) = -Turn(w, v, q)
BY DEF Turn, Places

\* Four points of the plane are linearly dependent.
LEMMA FourPoints ==
    ASSUME NEW h \in Lines, NEW u \in Places, NEW v \in Places, NEW w \in Places, NEW q \in Places
    PROVE  Value(h, u) * Turn(v, w, q) + Value(h, w) * Turn(u, v, q)
           = Value(h, v) * Turn(u, w, q) + Value(h, q) * Turn(u, v, w)
BY DEF Value, Turn, Lines, Places

\* Two lines and three points.
LEMMA TwoLines ==
    ASSUME NEW f \in Lines, NEW g \in Lines, NEW u \in Places, NEW v \in Places, NEW w \in Places
    PROVE  u[3] * (Value(f, v) * Value(g, w) - Value(f, w) * Value(g, v))
           - v[3] * (Value(f, u) * Value(g, w) - Value(f, w) * Value(g, u))
           + w[3] * (Value(f, u) * Value(g, v) - Value(f, v) * Value(g, u))
           = (f[1] * g[2] - f[2] * g[1]) * Turn(u, v, w)
BY DEF Value, Turn, Lines, Places

\* The line through q along an axis: its value is q's distance from p on that axis.
Across(q, axis) == IF axis = 1 THEN <<q[3], 0, -q[1]>> ELSE <<0, q[3], -q[2]>>

\* The index after i, around the polygon.
After(i, polygon) == (i % Len(polygon)) + 1

\* q is on the outer side of no side, and the corners are not all on one side of it
\* on an axis.
Enclosed(q, polygon) ==
    /\ \A i \in DOMAIN polygon : Turn(polygon[i], polygon[After(i, polygon)], q) >= 0
    /\ \A axis \in {1, 2} : \E i, j \in DOMAIN polygon :
          Value(Across(q, axis), polygon[i]) >= 0 /\ Value(Across(q, axis), polygon[j]) <= 0

\* It is a line, and q is on it.
LEMMA AcrossIsLine ==
    ASSUME NEW q \in Places, NEW axis \in {1, 2}
    PROVE  Across(q, axis) \in Lines /\ Value(Across(q, axis), q) = 0
<1>1. q[1] \in Int /\ q[2] \in Int /\ q[3] \in Int  BY DEF Places
<1>2. CASE axis = 1
  <2>1. Across(q, axis) = <<q[3], 0, -q[1]>>  BY <1>2 DEF Across
  <2> QED  BY <1>1, <2>1 DEF Lines, Value
<1>3. CASE axis = 2
  <2>1. Across(q, axis) = <<0, q[3], -q[2]>>  BY <1>3 DEF Across
  <2> QED  BY <1>1, <2>1 DEF Lines, Value
<1> QED  BY <1>2, <1>3

\* Its values.
LEMMA AcrossIs ==
    ASSUME NEW q \in Places, NEW v \in Places
    PROVE  /\ Value(Across(q, 1), v) = q[3] * v[1] - v[3] * q[1]
           /\ Value(Across(q, 2), v) = q[3] * v[2] - v[3] * q[2]
BY DEF Value, Across, Places

\* Two names of one point.
LEMMA SamePoint ==
    ASSUME NEW g \in Lines, NEW q \in Places, NEW v \in Places,
           q[3] * v[1] = v[3] * q[1], q[3] * v[2] = v[3] * q[2]
    PROVE  q[3] * Value(g, v) = v[3] * Value(g, q)
<1>1. /\ g[1] \in Int /\ g[2] \in Int /\ g[3] \in Int /\ v[1] \in Int /\ v[2] \in Int /\ v[3] \in Int
      /\ q[1] \in Int /\ q[2] \in Int /\ q[3] \in Int
  BY DEF Lines, Places
<1>2. q[3] * Value(g, v) = g[1] * (q[3] * v[1]) + g[2] * (q[3] * v[2]) + g[3] * (q[3] * v[3])
  BY <1>1 DEF Value
<1>3. v[3] * Value(g, q) = g[1] * (v[3] * q[1]) + g[2] * (v[3] * q[2]) + g[3] * (q[3] * v[3])
  BY <1>1 DEF Value
<1> QED  BY <1>2, <1>3

\* Seen from q all of the u, v, w are in the open half-plane where G is positive:
\* then "to the left of" is transitive.
LEMMA TurnsAddUp ==
    ASSUME NEW g \in Lines, NEW u \in Places, NEW v \in Places, NEW w \in Places, NEW q \in Places,
           Value(g, q) = 0, Value(g, u) > 0, Value(g, v) > 0, Value(g, w) > 0,
           Turn(u, v, q) >= 0, Turn(v, w, q) >= 0
    PROVE  Turn(u, w, q) >= 0
<1> DEFINE a == Value(g, u)
           b == Value(g, v)
           c == Value(g, w)
           x == Turn(v, w, q)
           y == Turn(u, v, q)
           z == Turn(u, w, q)
           t == Turn(u, v, w)
<1>1. a \in Int /\ b \in Int /\ c \in Int /\ x \in Int /\ y \in Int /\ z \in Int /\ t \in Int
  BY ValueType, TurnType
<1>2. a * x + c * y = b * z + Value(g, q) * t  BY FourPoints
<1>3. a > 0 /\ b > 0 /\ c > 0 /\ x >= 0 /\ y >= 0  OBVIOUS
<1> HIDE DEF a, b, c, x, y, z, t
<1>4. Value(g, q) * t = 0  BY <1>1
<1>5. a * x >= 0 /\ c * y >= 0  BY <1>1, <1>3
<1>6. b * z >= 0  BY <1>1, <1>2, <1>4, <1>5
<1>7. z >= 0  BY <1>1, <1>3, <1>6
<1> QED  BY <1>7 DEF z

\* Points on one ray from q are on the same side of a line through q.
LEMMA OneRay ==
    ASSUME NEW g \in Lines, NEW e \in Lines, NEW u \in Places, NEW v \in Places, NEW q \in Places,
           Value(g, q) = 0, Value(e, q) = 0, Value(g, u) > 0, Value(g, v) > 0, Turn(u, v, q) = 0
    PROVE  /\ Value(e, u) >= 0 <=> Value(e, v) >= 0
           /\ Value(e, u) <= 0 <=> Value(e, v) <= 0
<1> DEFINE a == Value(g, u)
           b == Value(g, v)
           x == Value(e, u)
           y == Value(e, v)
<1>1. a \in Int /\ b \in Int /\ x \in Int /\ y \in Int /\ q[3] \in Nat \ {0}
  BY ValueType DEF Places
<1>2. q[3] * (x * b - y * a) = 0
  <2>1. /\ u[3] \in Int /\ v[3] \in Int /\ e[1] * g[2] - e[2] * g[1] \in Int
    BY DEF Places, Lines
  <2> QED  BY <1>1, <2>1, TwoLines
<1>3. a > 0 /\ b > 0  OBVIOUS
<1> HIDE DEF a, b, x, y
<1>4. x * b = y * a
  <2>1. q[3] * (x * b - y * a) = q[3] * 0 /\ x * b - y * a \in Int  BY <1>1, <1>2
  <2>2. x * b - y * a = 0  BY <1>1, <2>1, Cancel
  <2> QED  BY <1>1, <2>2
<1>5. b * x = a * y /\ a \in Nat \ {0} /\ b \in Nat \ {0}  BY <1>1, <1>3, <1>4
<1>6. /\ b * x <= 0 <=> x <= 0
      /\ b * x >= 0 <=> x >= 0
      /\ a * y <= 0 <=> y <= 0
      /\ a * y >= 0 <=> y >= 0
  BY <1>1, <1>5, SignScales
<1>7. /\ x >= 0 <=> y >= 0
      /\ x <= 0 <=> y <= 0
  BY <1>5, <1>6
<1> QED  BY <1>7 DEF x, y

\* The index after i.
LEMMA AfterIs ==
    ASSUME NEW polygon \in Seq(Places), NEW i \in DOMAIN polygon
    PROVE  After(i, polygon) = IF i = Len(polygon) THEN 1 ELSE i + 1
<1> DEFINE n == Len(polygon)
<1>1. n \in Nat /\ i \in 1 .. n  OBVIOUS
<1>2. CASE i = n
  <2>1. n % n = 0
    <3> HIDE DEF n
    <3> QED  BY <1>1, <1>2
  <2> QED  BY <1>2, <2>1 DEF After
<1>3. CASE i # n
  <2>1. i % n = i
    <3> HIDE DEF n
    <3> QED  BY <1>1, <1>3
  <2> QED  BY <1>3, <2>1 DEF After
<1> QED  BY <1>2, <1>3

\* A half-plane that holds all corners of a polygon holds the points within: from a
\* point beyond it, all corners would lie on one ray.
LEMMA NoLineBetween ==
    ASSUME NEW polygon \in Seq(Places), NEW q \in Places, Enclosed(q, polygon),
           NEW g \in Lines, Value(g, q) = 0
    PROVE  \E i \in DOMAIN polygon : Value(g, polygon[i]) <= 0
<1> SUFFICES ASSUME \A i \in DOMAIN polygon : Value(g, polygon[i]) > 0
             PROVE  FALSE
  <2>1. ASSUME NEW i \in DOMAIN polygon, ~(Value(g, polygon[i]) <= 0) PROVE Value(g, polygon[i]) > 0
    <3>1. Value(g, polygon[i]) \in Int  BY ValueType
    <3> QED  BY <2>1, <3>1
  <2> QED  BY <2>1
<1> DEFINE n == Len(polygon)
           p(i) == polygon[i]
<1>1. n \in Nat \ {0} /\ DOMAIN polygon = 1 .. n
  BY DEF Enclosed
<1>2. \A i \in 1 .. n : p(i) \in Places /\ Value(g, p(i)) > 0
  BY <1>1
<1>3. ASSUME NEW i \in 1 .. n
      PROVE  Turn(p(i), p(IF i = n THEN 1 ELSE i + 1), q) >= 0
  <2>1. After(i, polygon) = IF i = n THEN 1 ELSE i + 1  BY AfterIs
  <2> QED  BY <1>1, <2>1 DEF Enclosed
<1> HIDE DEF n, p
<1>4. ASSUME NEW i \in 1 .. n PROVE Turn(p(1), p(i), q) >= 0
  <2> DEFINE S == {m \in Nat : m + 1 \in 1 .. n => Turn(p(1), p(m + 1), q) >= 0}
  <2>1. 0 \in S
    <3>1. p(1) \in Places  BY <1>1, <1>2
    <3>2. Turn(p(1), p(1), q) = 0  BY <3>1, TurnTurns
    <3> QED  BY <3>2
  <2>2. ASSUME NEW m \in S \cap Nat PROVE m + 1 \in S
    <3> SUFFICES ASSUME m + 2 \in 1 .. n PROVE Turn(p(1), p(m + 2), q) >= 0
      OBVIOUS
    <3>1. m + 1 \in 1 .. n /\ m + 1 # n /\ 1 \in 1 .. n  BY <1>1
    <3>2. Turn(p(1), p(m + 1), q) >= 0  BY <3>1
    <3>3. Turn(p(m + 1), p(m + 2), q) >= 0  BY <1>3, <3>1
    <3> QED  BY <1>2, <3>1, <3>2, <3>3, TurnsAddUp
  <2> HIDE DEF S
  <2>3. \A m \in Nat : m \in S  BY <2>1, <2>2, SetInduction
  <2>4. i - 1 \in S /\ (i - 1) + 1 = i  BY <1>1, <2>3
  <2> QED  BY <2>4 DEF S
<1>5. ASSUME NEW i \in 1 .. n PROVE Turn(p(i), p(1), q) >= 0
  <2> DEFINE S == {m \in Nat : n - m \in 1 .. n => Turn(p(n - m), p(1), q) >= 0}
  <2>1. 0 \in S
    <3>1. Turn(p(n), p(1), q) >= 0  BY <1>1, <1>3
    <3> QED  BY <1>1, <3>1
  <2>2. ASSUME NEW m \in S \cap Nat PROVE m + 1 \in S
    <3> SUFFICES ASSUME n - (m + 1) \in 1 .. n PROVE Turn(p(n - (m + 1)), p(1), q) >= 0
      OBVIOUS
    <3>1. /\ n - m \in 1 .. n /\ n - (m + 1) # n /\ 1 \in 1 .. n
          /\ (n - (m + 1)) + 1 = n - m
      BY <1>1
    <3>2. Turn(p(n - m), p(1), q) >= 0  BY <3>1
    <3>3. Turn(p(n - (m + 1)), p(n - m), q) >= 0  BY <1>3, <3>1
    <3> QED  BY <1>2, <3>1, <3>2, <3>3, TurnsAddUp
  <2> HIDE DEF S
  <2>3. \A m \in Nat : m \in S  BY <2>1, <2>2, SetInduction
  <2>4. n - i \in S /\ n - (n - i) = i  BY <1>1, <2>3
  <2> QED  BY <2>4 DEF S
<1>6. ASSUME NEW i \in 1 .. n PROVE Turn(p(1), p(i), q) = 0
  <2>1. p(1) \in Places /\ p(i) \in Places  BY <1>1, <1>2
  <2>2. Turn(p(1), p(i), q) = -Turn(p(i), p(1), q)  BY <2>1, TurnTurns
  <2>3. Turn(p(1), p(i), q) \in Int /\ Turn(p(i), p(1), q) \in Int  BY <2>1, TurnType
  <2>4. Turn(p(1), p(i), q) >= 0 /\ Turn(p(i), p(1), q) >= 0  BY <1>4, <1>5
  <2> QED  BY <2>2, <2>3, <2>4
<1>7. ASSUME NEW axis \in {1, 2} PROVE Value(Across(q, axis), p(1)) = 0
  <2> DEFINE e == Across(q, axis)
  <2>1. e \in Lines /\ Value(e, q) = 0
    BY AcrossIsLine
  <2>2. \A i \in 1 .. n : /\ Value(e, p(1)) >= 0 <=> Value(e, p(i)) >= 0
                          /\ Value(e, p(1)) <= 0 <=> Value(e, p(i)) <= 0
    <3> HIDE DEF e
    <3> QED  BY <1>1, <1>2, <1>6, <2>1, OneRay
  <2>3. PICK i \in 1 .. n, j \in 1 .. n : Value(e, p(i)) >= 0 /\ Value(e, p(j)) <= 0
    BY <1>1 DEF Enclosed, p, n
  <2>4. Value(e, p(1)) >= 0 /\ Value(e, p(1)) <= 0  BY <2>2, <2>3
  <2>5. Value(e, p(1)) \in Int
    <3> HIDE DEF e
    <3> QED  BY <1>1, <1>2, <2>1, ValueType
  <2> QED  BY <2>4, <2>5
<1>8. p(1) \in Places  BY <1>1, <1>2
<1>9. q[3] * Value(g, p(1)) = p(1)[3] * Value(g, q)
  <2> DEFINE r == p(1)
  <2>1. r \in Places /\ Value(Across(q, 1), r) = 0 /\ Value(Across(q, 2), r) = 0
    BY <1>7, <1>8
  <2> HIDE DEF r
  <2>2. q[3] * r[1] - r[3] * q[1] = 0 /\ q[3] * r[2] - r[3] * q[2] = 0
    BY <2>1, AcrossIs
  <2>3. /\ r[1] \in Int /\ r[2] \in Int /\ r[3] \in Int
        /\ q[1] \in Int /\ q[2] \in Int /\ q[3] \in Int
    BY <2>1 DEF Places
  <2>4. /\ q[3] * r[1] \in Int /\ q[3] * r[2] \in Int
        /\ r[3] * q[1] \in Int /\ r[3] * q[2] \in Int
    BY <2>3
  <2>5. ASSUME NEW x \in Int, NEW y \in Int, x - y = 0 PROVE x = y
    BY <2>5
  <2>6. q[3] * r[1] = r[3] * q[1] /\ q[3] * r[2] = r[3] * q[2]
    BY <2>2, <2>4, <2>5, Zenon
  <2> QED  BY <2>1, <2>6, SamePoint DEF r
<1>10. Value(g, p(1)) \in Int /\ Value(g, p(1)) > 0 /\ q[3] \in Nat \ {0} /\ p(1)[3] \in Int
  BY <1>1, <1>2, <1>8, ValueType DEF Places
<1>11. q[3] * Value(g, p(1)) = 0  BY <1>9, <1>10
<1> QED  BY <1>10, <1>11

\* c lies between a and b, with the given weights.
Mixes(c, g, a, k, b, l) == \A i \in 1 .. 3 : g * c[i] = k * a[i] + l * b[i]

\* A linear form of what lies between,
LEMMA MixedValue ==
    ASSUME NEW a \in Places, NEW b \in Places, NEW c \in Places,
           NEW g \in Int, NEW k \in Int, NEW l \in Int, Mixes(c, g, a, k, b, l), NEW h \in Lines
    PROVE  g * Value(h, c) = k * Value(h, a) + l * Value(h, b)
<1>1. /\ a[1] \in Int /\ a[2] \in Int /\ a[3] \in Int /\ b[1] \in Int /\ b[2] \in Int /\ b[3] \in Int
      /\ c[1] \in Int /\ c[2] \in Int /\ c[3] \in Int /\ h[1] \in Int /\ h[2] \in Int /\ h[3] \in Int
  BY DEF Places, Lines
<1>2. g * c[1] = k * a[1] + l * b[1] /\ g * c[2] = k * a[2] + l * b[2] /\ g * c[3] = k * a[3] + l * b[3]
  BY DEF Mixes
<1>3. g * Value(h, c) = h[1] * (g * c[1]) + h[2] * (g * c[2]) + h[3] * (g * c[3])
  BY <1>1 DEF Value
<1>4. k * Value(h, a) + l * Value(h, b)
      = h[1] * (k * a[1] + l * b[1]) + h[2] * (k * a[2] + l * b[2]) + h[3] * (k * a[3] + l * b[3])
  BY <1>1 DEF Value
<1> QED  BY <1>2, <1>3, <1>4, Zenon

\* and a turn.
LEMMA MixedTurn ==
    ASSUME NEW a \in Places, NEW b \in Places, NEW c \in Places,
           NEW g \in Int, NEW k \in Int, NEW l \in Int, Mixes(c, g, a, k, b, l),
           NEW v \in Places, NEW w \in Places
    PROVE  g * Turn(c, v, w) = k * Turn(a, v, w) + l * Turn(b, v, w)
<1> DEFINE h == <<v[2] * w[3] - v[3] * w[2], v[3] * w[1] - v[1] * w[3], v[1] * w[2] - v[2] * w[1]>>
<1>1. h \in Lines  BY DEF Lines, Places
<1>2. ASSUME NEW u \in Places PROVE Turn(u, v, w) = Value(h, u)
  BY DEF Turn, Value, Places
<1> HIDE DEF h
<1> QED  BY <1>1, <1>2, MixedValue

\* A turn may begin at any of its three points.
LEMMA TurnGoesRound ==
    ASSUME NEW u \in Places, NEW v \in Places, NEW w \in Places
    PROVE  Turn(u, v, w) = Turn(v, w, u)
BY DEF Turn, Places

\* The points of the plane in all the half-planes of the given lines.
Region(lines) == {q \in Places : \A h \in lines : Value(h, q) <= 0}

\* What lies between two points of a region is in it.
LEMMA MixedInRegion ==
    ASSUME NEW lines \in SUBSET Lines, NEW a \in Region(lines), NEW b \in Region(lines), NEW c \in Places,
           NEW g \in Nat \ {0}, NEW k \in Nat, NEW l \in Nat, Mixes(c, g, a, k, b, l)
    PROVE  c \in Region(lines)
<1> SUFFICES ASSUME NEW h \in lines PROVE Value(h, c) <= 0
  BY DEF Region
<1>1. h \in Lines /\ a \in Places /\ b \in Places /\ Value(h, a) <= 0 /\ Value(h, b) <= 0
  BY DEF Region
<1> DEFINE x == Value(h, a)
           y == Value(h, b)
           z == Value(h, c)
<1>2. x \in Int /\ y \in Int /\ z \in Int  BY <1>1, ValueType
<1>3. g * z = k * x + l * y  BY <1>1, MixedValue
<1>4. x <= 0 /\ y <= 0  BY <1>1
<1> HIDE DEF x, y, z
<1>5. k * x <= 0 /\ l * y <= 0  BY <1>2, <1>4
<1>6. g * z <= 0  BY <1>2, <1>3, <1>5
<1>7. z <= 0  BY <1>2, <1>6, SignScales
<1> QED  BY <1>7 DEF z

\* x is where the way from a to b crosses the line h, with both ends on it or on
\* different sides.
Cuts(x, h, a, b) ==
    \E g \in Nat \ {0} : Mixes(x, g, a, Size(Value(h, b)), b, Size(Value(h, a)))

Leaves(h, a, b) == Value(h, a) <= 0 /\ Value(h, b) > 0
Enters(h, a, b) == Value(h, a) > 0 /\ Value(h, b) <= 0

\* What is used of a cut: it is on the line and between the ends.
LEMMA CutIs ==
    ASSUME NEW h \in Lines, NEW a \in Places, NEW b \in Places, NEW x \in Places, Cuts(x, h, a, b),
           Leaves(h, a, b) \/ Enters(h, a, b)
    PROVE  /\ Value(h, x) = 0
           /\ \A lines \in SUBSET Lines : a \in Region(lines) /\ b \in Region(lines) => x \in Region(lines)
           /\ \A q \in Places : Turn(a, b, q) >= 0 => Turn(a, x, q) >= 0 /\ Turn(x, b, q) >= 0
<1> DEFINE k == Size(Value(h, b))
           l == Size(Value(h, a))
<1>1. PICK g \in Nat \ {0} : Mixes(x, g, a, k, b, l)  BY DEF Cuts
<1>2. Value(h, a) \in Int /\ Value(h, b) \in Int  BY ValueType
<1>3. k \in Nat /\ l \in Nat  BY <1>2 DEF Size
<1>4. k * Value(h, a) + l * Value(h, b) = 0
  BY <1>2 DEF Leaves, Enters, Size
<1> HIDE DEF k, l
<1>5. Value(h, x) = 0
  <2>1. g * Value(h, x) = 0  BY <1>1, <1>3, <1>4, MixedValue
  <2>2. Value(h, x) \in Int  BY ValueType
  <2> QED  BY <2>1, <2>2, SignScales
<1>6. ASSUME NEW lines \in SUBSET Lines, a \in Region(lines), b \in Region(lines)
      PROVE  x \in Region(lines)
  BY <1>1, <1>3, <1>6, MixedInRegion
<1>7. ASSUME NEW q \in Places, Turn(a, b, q) >= 0
      PROVE  Turn(a, x, q) >= 0 /\ Turn(x, b, q) >= 0
  <2> DEFINE t == Turn(a, b, q)
             y == Turn(a, x, q)
             z == Turn(x, b, q)
  <2>1. t \in Int /\ y \in Int /\ z \in Int  BY TurnType
  <2>2. g * z = k * t
    <3>1. g * z = k * t + l * Turn(b, b, q)  BY <1>1, <1>3, MixedTurn
    <3>2. Turn(b, b, q) = 0  BY TurnTurns
    <3> HIDE DEF t, y, z
    <3> QED  BY <1>3, <2>1, <3>1, <3>2
  <2>3. g * y = l * t
    <3>1. g * Turn(x, q, a) = k * Turn(a, q, a) + l * Turn(b, q, a)
      BY <1>1, <1>3, MixedTurn
    <3>2. y = Turn(x, q, a) /\ t = Turn(b, q, a) /\ Turn(a, q, a) = Turn(a, a, q)
      BY TurnGoesRound
    <3>3. Turn(a, a, q) = 0  BY TurnTurns
    <3> HIDE DEF t, y, z
    <3> QED  BY <1>3, <2>1, <3>1, <3>2, <3>3
  <2>4. t >= 0  BY <1>7
  <2> HIDE DEF t, y, z
  <2>5. k * t >= 0 /\ l * t >= 0  BY <1>3, <2>1, <2>4
  <2>6. g * z >= 0 /\ g * y >= 0  BY <2>2, <2>3, <2>5
  <2>7. z >= 0 /\ y >= 0  BY <2>1, <2>6, SignScales
  <2> QED  BY <2>7 DEF y, z
<1> QED  BY <1>5, <1>6, <1>7

\* From the cut where the polygon leaves a half-plane to any point of the line that
\* its last side has on the left, the half-plane is on the left.
LEMMA CutTurns ==
    ASSUME NEW h \in Lines, NEW a \in Places, NEW b \in Places, NEW x \in Places, Cuts(x, h, a, b),
           Leaves(h, a, b), NEW y \in Places, Value(h, y) = 0, Turn(a, b, y) >= 0,
           NEW q \in Places, Value(h, q) <= 0
    PROVE  Turn(x, y, q) >= 0
<1> DEFINE ha == Value(h, a)
           hb == Value(h, b)
           hq == Value(h, q)
           t == Turn(a, b, y)
<1>1. ha \in Int /\ hb \in Int /\ hq \in Int /\ t \in Int  BY ValueType, TurnType
<1>2. ha <= 0 /\ hb > 0 /\ hq <= 0 /\ t >= 0 /\ Size(hb) = hb /\ Size(ha) = -ha
  BY <1>1 DEF Leaves, Size
<1>3. PICK g \in Nat \ {0} : Mixes(x, g, a, hb, b, -ha)  BY <1>2 DEF Cuts
<1>4. -ha \in Int  BY <1>1
<1>5. g * Turn(x, y, q) = hb * Turn(a, y, q) + (-ha) * Turn(b, y, q)
  BY <1>1, <1>3, <1>4, MixedTurn
<1>6. ha * Turn(b, y, q) + 0 * Turn(a, b, q) = hb * Turn(a, y, q) + hq * t
  BY FourPoints
<1>7. /\ Turn(b, y, q) \in Int /\ Turn(a, b, q) \in Int /\ Turn(a, y, q) \in Int /\ Turn(x, y, q) \in Int
  BY TurnType
<1> HIDE DEF ha, hb, hq, t
<1>8. g * Turn(x, y, q) = -(hq * t)
  BY <1>1, <1>5, <1>6, <1>7
<1>9. hq * t <= 0  BY <1>1, <1>2
<1>10. g * Turn(x, y, q) >= 0 /\ hq * t \in Int  BY <1>1, <1>8, <1>9
<1> QED  BY <1>7, <1>10, SignScales

\* Of what lies on the line and on the left of the side that leaves and of the side
\* that enters, nothing is further out than both cuts.
LEMMA CutsReach ==
    ASSUME NEW h \in Lines, NEW a \in Places, NEW b \in Places, NEW x \in Places, Cuts(x, h, a, b),
           Leaves(h, a, b),
           NEW c \in Places, NEW d \in Places, NEW y \in Places, Cuts(y, h, c, d), Enters(h, c, d),
           NEW z \in Places, Value(h, z) = 0, Turn(a, b, z) >= 0, Turn(c, d, z) >= 0,
           NEW e \in Lines, Value(e, z) <= 0
    PROVE  Value(e, x) <= 0 \/ Value(e, y) <= 0
<1> SUFFICES ASSUME Value(e, x) > 0, Value(e, y) > 0 PROVE FALSE
  <2>1. Value(e, x) \in Int /\ Value(e, y) \in Int  BY ValueType
  <2> QED  BY <2>1
<1> DEFINE K == h[1] * e[2] - h[2] * e[1]
           ez == Value(e, z)
           ex == Value(e, x)
           ey == Value(e, y)
<1>1. /\ K \in Int /\ ez \in Int /\ ex \in Int /\ ey \in Int
      /\ x[3] \in Nat \ {0} /\ y[3] \in Nat \ {0} /\ z[3] \in Nat \ {0}
      /\ a[3] \in Int /\ b[3] \in Int /\ c[3] \in Int /\ d[3] \in Int
  BY ValueType DEF Lines, Places
<1>2. ez <= 0 /\ ex > 0 /\ ey > 0  OBVIOUS
<1>3. \E g \in Nat \ {0} : g * (x[3] * ez - z[3] * ex) = K * Turn(a, b, z)
  <2> DEFINE ha == Value(h, a)
             hb == Value(h, b)
             ea == Value(e, a)
             eb == Value(e, b)
  <2>1. ha \in Int /\ hb \in Int /\ ea \in Int /\ eb \in Int  BY ValueType
  <2>2. Size(hb) = hb /\ Size(ha) = -ha /\ -ha \in Int  BY <2>1 DEF Leaves, Size
  <2>3. PICK g \in Nat \ {0} : Mixes(x, g, a, hb, b, -ha)  BY <2>2 DEF Cuts
  <2>4. g * ex = hb * ea + (-ha) * eb  BY <2>1, <2>2, <2>3, MixedValue
  <2>5. g * x[3] = hb * a[3] + (-ha) * b[3]  BY <2>3 DEF Mixes
  <2>6. a[3] * (hb * ez - 0 * eb) - b[3] * (ha * ez - 0 * ea) + z[3] * (ha * eb - hb * ea)
        = K * Turn(a, b, z)
    BY TwoLines
  <2> HIDE DEF K, ez, ex, ey, ha, hb, ea, eb
  <2>7. a[3] * (hb * ez - 0 * eb) - b[3] * (ha * ez - 0 * ea) + z[3] * (ha * eb - hb * ea)
        = ez * (hb * a[3] + (-ha) * b[3]) - z[3] * (hb * ea + (-ha) * eb)
    BY <1>1, <2>1
  <2>8. g * (x[3] * ez - z[3] * ex) = ez * (g * x[3]) - z[3] * (g * ex)
    BY <1>1
  <2> QED  BY <2>4, <2>5, <2>6, <2>7, <2>8
<1>4. \E g \in Nat \ {0} : g * (z[3] * ey - y[3] * ez) = K * Turn(c, d, z)
  <2> DEFINE hc == Value(h, c)
             hd == Value(h, d)
             ec == Value(e, c)
             ed == Value(e, d)
  <2>1. hc \in Int /\ hd \in Int /\ ec \in Int /\ ed \in Int  BY ValueType
  <2>2. Size(hd) = -hd /\ Size(hc) = hc /\ -hd \in Int  BY <2>1 DEF Enters, Size
  <2>3. PICK g \in Nat \ {0} : Mixes(y, g, c, -hd, d, hc)  BY <2>2 DEF Cuts
  <2>4. g * ey = (-hd) * ec + hc * ed  BY <2>1, <2>2, <2>3, MixedValue
  <2>5. g * y[3] = (-hd) * c[3] + hc * d[3]  BY <2>3 DEF Mixes
  <2>6. c[3] * (hd * ez - 0 * ed) - d[3] * (hc * ez - 0 * ec) + z[3] * (hc * ed - hd * ec)
        = K * Turn(c, d, z)
    BY TwoLines
  <2> HIDE DEF K, ez, ex, ey, hc, hd, ec, ed
  <2>7. c[3] * (hd * ez - 0 * ed) - d[3] * (hc * ez - 0 * ec) + z[3] * (hc * ed - hd * ec)
        = z[3] * ((-hd) * ec + hc * ed) - ez * ((-hd) * c[3] + hc * d[3])
    BY <1>1, <2>1
  <2>8. g * (z[3] * ey - y[3] * ez) = z[3] * (g * ey) - ez * (g * y[3])
    BY <1>1
  <2> QED  BY <2>4, <2>5, <2>6, <2>7, <2>8
<1> DEFINE t == Turn(a, b, z)
           u == Turn(c, d, z)
<1>5. t \in Int /\ u \in Int /\ t >= 0 /\ u >= 0  BY TurnType
<1> HIDE DEF K, ez, ex, ey, t, u
<1>6. K * t < 0
  <2>1. PICK g \in Nat \ {0} : g * (x[3] * ez - z[3] * ex) = K * t  BY <1>3 DEF t
  <2>2. x[3] * ez <= 0 /\ z[3] * ex > 0  BY <1>1, <1>2
  <2>3. x[3] * ez - z[3] * ex \in Int /\ x[3] * ez - z[3] * ex < 0  BY <1>1, <2>2
  <2>4. ~(g * (x[3] * ez - z[3] * ex) >= 0)  BY <2>3, SignScales
  <2>5. K * t \in Int  BY <1>1, <1>5
  <2> QED  BY <2>1, <2>4, <2>5
<1>7. K * u > 0
  <2>1. PICK g \in Nat \ {0} : g * (z[3] * ey - y[3] * ez) = K * u  BY <1>4 DEF u
  <2>2. y[3] * ez <= 0 /\ z[3] * ey > 0  BY <1>1, <1>2
  <2>3. z[3] * ey - y[3] * ez \in Int /\ z[3] * ey - y[3] * ez > 0  BY <1>1, <2>2
  <2>4. ~(g * (z[3] * ey - y[3] * ez) <= 0)  BY <2>3, SignScales
  <2>5. K * u \in Int  BY <1>1, <1>5
  <2> QED  BY <2>1, <2>4, <2>5
<1>8. K < 0  BY <1>1, <1>5, <1>6
<1>9. K > 0  BY <1>1, <1>5, <1>7
<1> QED  BY <1>1, <1>8, <1>9

\* A set of indices that holds with each the next one around holds all.
LEMMA AllAround ==
    ASSUME NEW n \in Nat, NEW A, NEW a \in 1 .. n, a \in A,
           \A i \in 1 .. n : (IF i = 1 THEN n ELSE i - 1) \in A => i \in A
    PROVE  1 .. n \subseteq A
<1>1. ASSUME NEW b \in 1 .. n, b \in A PROVE n \in A
  <2> DEFINE S == {m \in Nat : b + m \in 1 .. n => b + m \in A}
  <2>1. 0 \in S  BY <1>1
  <2>2. ASSUME NEW m \in S \cap Nat PROVE m + 1 \in S
    <3> SUFFICES ASSUME b + (m + 1) \in 1 .. n PROVE b + (m + 1) \in A  OBVIOUS
    <3>1. b + m \in 1 .. n /\ b + (m + 1) # 1 /\ (b + (m + 1)) - 1 = b + m  OBVIOUS
    <3>2. b + m \in A  BY <3>1
    <3> QED  BY <3>1, <3>2
  <2> HIDE DEF S
  <2>3. \A m \in Nat : m \in S  BY <2>1, <2>2, SetInduction
  <2>4. n - b \in S /\ b + (n - b) = n /\ n \in 1 .. n  BY <2>3
  <2> QED  BY <2>4 DEF S
<1>2. n \in A /\ 1 \in 1 .. n  BY <1>1
<1>3. 1 \in A  BY <1>2
<1> DEFINE S == {m \in Nat : 1 + m \in 1 .. n => 1 + m \in A}
<1>4. 0 \in S  BY <1>3
<1>5. ASSUME NEW m \in S \cap Nat PROVE m + 1 \in S
  <2> SUFFICES ASSUME 1 + (m + 1) \in 1 .. n PROVE 1 + (m + 1) \in A  OBVIOUS
  <2>1. 1 + m \in 1 .. n /\ 1 + (m + 1) # 1 /\ (1 + (m + 1)) - 1 = 1 + m  OBVIOUS
  <2>2. 1 + m \in A  BY <2>1
  <2> QED  BY <2>1, <2>2
<1> HIDE DEF S
<1>6. \A m \in Nat : m \in S  BY <1>4, <1>5, SetInduction
<1>7. ASSUME NEW i \in 1 .. n PROVE i \in A
  <2>1. i - 1 \in S /\ 1 + (i - 1) = i  BY <1>6
  <2> QED  BY <2>1 DEF S
<1> QED  BY <1>7

\* Which polygon is the region of the lines: its corners are in all half-planes, and
\* it holds every point that is.
Encloses(polygon, lines) ==
    /\ polygon \in Seq(Places)
    /\ \A i \in DOMAIN polygon : polygon[i] \in Region(lines)
    /\ \A q \in Region(lines) : Enclosed(q, polygon)
    /\ polygon = <<>> \/ Len(polygon) >= 3

\* The corner before the i-th, around the polygon.
Before(i, polygon) == polygon[IF i = 1 THEN Len(polygon) ELSE i - 1]

\* The corner before i is the one that i comes after.
LEMMA BeforeIs ==
    ASSUME NEW polygon \in Seq(Places), NEW i \in DOMAIN polygon
    PROVE  \E j \in DOMAIN polygon : polygon[j] = Before(i, polygon) /\ After(j, polygon) = i
                                     /\ j = IF i = 1 THEN Len(polygon) ELSE i - 1
<1> DEFINE n == Len(polygon)
           j == IF i = 1 THEN n ELSE i - 1
<1>1. n \in Nat /\ i \in 1 .. n /\ DOMAIN polygon = 1 .. n  OBVIOUS
<1>2. j \in DOMAIN polygon  BY <1>1
<1>3. After(j, polygon) = IF j = n THEN 1 ELSE j + 1  BY <1>2, AfterIs
<1>4. After(j, polygon) = i
  <2> HIDE DEF n
  <2> QED  BY <1>1, <1>3
<1>5. polygon[j] = Before(i, polygon)  BY DEF Before
<1> QED  BY <1>2, <1>4, <1>5

\* A region is on the left of every side of a polygon that encloses it.
LEMMA SideTurns ==
    ASSUME NEW lines \in SUBSET Lines, NEW polygon, Encloses(polygon, lines),
           NEW i \in DOMAIN polygon
    PROVE  /\ polygon[i] \in Region(lines) /\ Before(i, polygon) \in Region(lines)
           /\ \A q \in Region(lines) : Turn(Before(i, polygon), polygon[i], q) >= 0
<1>1. polygon \in Seq(Places)  BY DEF Encloses
<1>2. PICK j \in DOMAIN polygon : polygon[j] = Before(i, polygon) /\ After(j, polygon) = i
  BY <1>1, BeforeIs
<1> QED  BY <1>2 DEF Encloses, Enclosed

\* A border with corners on both sides of a line crosses it there and back.
LEMMA CrossesBothWays ==
    ASSUME NEW polygon \in Seq(Places), NEW h \in Lines,
           NEW a \in DOMAIN polygon, Value(h, polygon[a]) <= 0,
           NEW b \in DOMAIN polygon, Value(h, polygon[b]) > 0
    PROVE  /\ \E i \in DOMAIN polygon : Leaves(h, Before(i, polygon), polygon[i])
           /\ \E i \in DOMAIN polygon : Enters(h, Before(i, polygon), polygon[i])
<1> DEFINE n == Len(polygon)
           In == {i \in 1 .. n : Value(h, polygon[i]) <= 0}
           Out == {i \in 1 .. n : Value(h, polygon[i]) > 0}
           pre(i) == IF i = 1 THEN n ELSE i - 1
<1>1. n \in Nat /\ DOMAIN polygon = 1 .. n /\ a \in 1 .. n /\ b \in 1 .. n  OBVIOUS
<1>2. ASSUME NEW i \in 1 .. n
      PROVE  Value(h, polygon[i]) \in Int /\ Before(i, polygon) = polygon[pre(i)] /\ pre(i) \in 1 .. n
  <2>1. pre(i) \in 1 .. n  BY <1>1
  <2>2. Value(h, polygon[i]) \in Int  BY <1>1, ValueType
  <2> QED  BY <2>1, <2>2 DEF Before
<1>3. \A i \in 1 .. n : (i \in In <=> Value(h, polygon[i]) <= 0) /\ (i \in Out <=> Value(h, polygon[i]) > 0)
                         /\ (i \in In <=> i \notin Out)
  <2> TAKE i \in 1 .. n
  <2>1. Value(h, polygon[i]) \in Int  BY <1>2
  <2> QED  BY <2>1
<1>4. a \in In /\ b \in Out  BY <1>1
<1>5. ASSUME \A i \in DOMAIN polygon : ~Leaves(h, Before(i, polygon), polygon[i]) PROVE FALSE
  <2>1. \A i \in 1 .. n : pre(i) \in In => i \in In
    <3> TAKE i \in 1 .. n
    <3>1. pre(i) \in 1 .. n /\ Before(i, polygon) = polygon[pre(i)]  BY <1>2
    <3>2. ~Leaves(h, polygon[pre(i)], polygon[i])  BY <1>1, <1>5, <3>1
    <3> HIDE DEF In, Out, pre
    <3> QED  BY <1>3, <3>1, <3>2 DEF Leaves
  <2> HIDE DEF In, Out, n
  <2>2. 1 .. n \subseteq In  BY <1>1, <1>4, <2>1, AllAround
  <2> QED  BY <1>1, <1>3, <1>4, <2>2
<1>6. ASSUME \A i \in DOMAIN polygon : ~Enters(h, Before(i, polygon), polygon[i]) PROVE FALSE
  <2>1. \A i \in 1 .. n : pre(i) \in Out => i \in Out
    <3> TAKE i \in 1 .. n
    <3>1. pre(i) \in 1 .. n /\ Before(i, polygon) = polygon[pre(i)]  BY <1>2
    <3>2. ~Enters(h, polygon[pre(i)], polygon[i])  BY <1>1, <1>6, <3>1
    <3> HIDE DEF In, Out, pre
    <3> QED  BY <1>3, <3>1, <3>2 DEF Enters
  <2> HIDE DEF In, Out, n
  <2>2. 1 .. n \subseteq Out  BY <1>1, <1>4, <2>1, AllAround
  <2> QED  BY <1>1, <1>3, <1>4, <2>2
<1> QED  BY <1>5, <1>6

\* When a point that a polygon holds is on the inner side of a line, so is some corner:
\* else the parallel through the point would have all corners on one side.
LEMMA SomeCornerInside ==
    ASSUME NEW polygon \in Seq(Places), NEW q \in Places, Enclosed(q, polygon),
           NEW h \in Lines, Value(h, q) <= 0
    PROVE  \E i \in DOMAIN polygon : /\ Value(h, polygon[i]) <= 0
                                     /\ Value(h, q) < 0 => Value(h, polygon[i]) < 0
<1> DEFINE c == Value(h, q)
           g == <<q[3] * h[1], q[3] * h[2], q[3] * h[3] - c>>
<1>0. c \in Int /\ c <= 0 /\ q[1] \in Int /\ q[2] \in Int /\ q[3] \in Nat \ {0}
      /\ h[1] \in Int /\ h[2] \in Int /\ h[3] \in Int
  BY ValueType DEF Places, Lines
<1> DEFINE q1 == q[1]
           q2 == q[2]
           q3 == q[3]
<1> HIDE DEF c
<1>1. g \in Lines  BY <1>0 DEF Lines
<1>2. ASSUME NEW p \in Places PROVE Value(g, p) = q3 * Value(h, p) - c * p[3]
  <2>1. p[1] \in Int /\ p[2] \in Int /\ p[3] \in Int  BY DEF Places
  <2>2. Value(g, p) = (q3 * h[1]) * p[1] + (q3 * h[2]) * p[2] + (q3 * h[3] - c) * p[3]  BY DEF Value
  <2>3. Value(h, p) = h[1] * p[1] + h[2] * p[2] + h[3] * p[3]  BY DEF Value
  <2> HIDE DEF g
  <2>5. q3 \in Int /\ h[1] \in Int /\ h[2] \in Int /\ h[3] \in Int  BY <1>0
  <2> HIDE DEF g, q3
  <2> DEFINE a == h[1]
             b == h[2]
             d == h[3]
             x == p[1]
             y == p[2]
             z == p[3]
             k == q3
  <2>4. a \in Int /\ b \in Int /\ d \in Int /\ x \in Int /\ y \in Int /\ z \in Int /\ k \in Int
    BY <2>1, <2>5
  <2>6. (k * a) * x + (k * b) * y + (k * d - c) * z = k * (a * x + b * y + d * z) - c * z
    <3> HIDE DEF a, b, d, x, y, z, k
    <3> QED  BY <1>0, <2>4
  <2>7. (q3 * h[1]) * p[1] + (q3 * h[2]) * p[2] + (q3 * h[3] - c) * p[3]
        = q3 * (h[1] * p[1] + h[2] * p[2] + h[3] * p[3]) - c * p[3]
    BY <2>6
  <2> QED  BY <2>2, <2>3, <2>7
<1> HIDE DEF g
<1>3. Value(g, q) = 0
  <2>1. Value(g, q) = q3 * c - c * q3  BY <1>2 DEF c
  <2> QED  BY <1>0, <2>1
<1>4. PICK i \in DOMAIN polygon : Value(g, polygon[i]) <= 0
  BY <1>1, <1>3, NoLineBetween
<1>5. polygon[i] \in Places  OBVIOUS
<1> DEFINE x == Value(h, polygon[i])
           w == polygon[i][3]
<1>6. x \in Int /\ w \in Nat \ {0}  BY <1>5, ValueType DEF Places
<1>7. q3 * x - c * w <= 0  BY <1>2, <1>4, <1>5
<1> HIDE DEF x, w, q3
<1>8. q3 \in Nat \ {0}  BY <1>0 DEF q3
<1>9. c * w <= 0 /\ c * w \in Int /\ q3 * x \in Int  BY <1>0, <1>6, <1>8
<1>10. q3 * x <= 0  BY <1>7, <1>9
<1>11. x <= 0  BY <1>6, <1>8, <1>10, SignScales
<1>12. ASSUME c < 0 PROVE x < 0
  <2>1. c * w < 0  BY <1>0, <1>6, <1>12
  <2>2. q3 * x < 0  BY <1>7, <1>9, <2>1
  <2>3. ~(q3 * x >= 0)  BY <1>9, <2>2
  <2>4. ~(x >= 0)  BY <1>6, <1>8, <2>3, SignScales
  <2> QED  BY <1>6, <2>4
<1> QED  BY <1>11, <1>12 DEF x, c

--------------------------------------------------------------------------------
(* Clipping by a bisector: _clip_to_nearer_half_plane. *)

\* The bisector of two sites as a line.
Bisector(s, o) == <<2 * (o[1] - s[1]), 2 * (o[2] - s[2]),
                    -(o[1] * o[1] + o[2] * o[2] - s[1] * s[1] - s[2] * s[2])>>

\* A point's value on it is what Clip compares.
LEMMA BisectorIs ==
    ASSUME NEW s \in Lattice, NEW o \in Lattice
    PROVE  /\ Bisector(s, o) \in Lines
           /\ \A p \in Places : Value(Bisector(s, o), p) = Beyond(s, o, p)
BY DEF Bisector, Lines, Lattice, Places, Value, Beyond

\* Reducing a point leaves it where it is.
LEMMA ReducedIsSame ==
    ASSUME NEW p \in Places
    PROVE  \E g \in Nat \ {0} : \A i \in 1 .. 3 : p[i] = g * Reduced(p)[i]
<1> DEFINE h == Gcd(p[1], p[2])
           g == Gcd(h, p[3])
<1>1. p[1] \in Int /\ p[2] \in Int /\ p[3] \in Nat \ {0}  BY DEF Places
<1>2. Divides(h, p[1], p[2])  BY <1>1, GcdDivides
<1>3. h \in Int  BY <1>2 DEF Divides
<1>4. Divides(g, h, p[3])  BY <1>1, <1>3, GcdDivides
<1>5. Reduced(p) = <<p[1] \div g, p[2] \div g, p[3] \div g>>
  BY DEF Reduced, g, h
<1> HIDE DEF g, h
<1>6. PICK k \in Int, l \in Int : p[1] = k * h /\ p[2] = l * h  BY <1>2 DEF Divides
<1>7. PICK m \in Int, n \in Int : h = m * g /\ p[3] = n * g  BY <1>4 DEF Divides
<1>8. g \in Nat \ {0}  BY <1>1, <1>4 DEF Divides
<1>9. p[1] = (k * m) * g /\ p[2] = (l * m) * g /\ k * m \in Int /\ l * m \in Int
  BY <1>6, <1>7, <1>8
<1>10. p[1] \div g = k * m /\ p[2] \div g = l * m /\ p[3] \div g = n
  BY <1>7, <1>8, <1>9, DivBy
<1>11. p[1] = g * Reduced(p)[1] /\ p[2] = g * Reduced(p)[2] /\ p[3] = g * Reduced(p)[3]
  BY <1>5, <1>7, <1>8, <1>9, <1>10
<1> QED  BY <1>8, <1>11

\* A cut of the code is a cut.
LEMMA MeetCuts ==
    ASSUME NEW s \in Lattice, NEW o \in Lattice, NEW a \in Places, NEW b \in Places,
           Leaves(Bisector(s, o), a, b) \/ Enters(Bisector(s, o), a, b)
    PROVE  Meet(s, o, a, b) \in Places /\ Cuts(Meet(s, o, a, b), Bisector(s, o), a, b)
<1> DEFINE x == Beyond(s, o, a)
           y == Beyond(s, o, b)
           k == IF y > x THEN 1 ELSE -1
           m == <<k * (a[1] * y - b[1] * x), k * (a[2] * y - b[2] * x), k * (a[3] * y - b[3] * x)>>
<1>1. x \in Int /\ y \in Int /\ Value(Bisector(s, o), a) = x /\ Value(Bisector(s, o), b) = y
  BY BeyondType, BisectorIs
<1>2. (x <= 0 /\ y > 0) \/ (x > 0 /\ y <= 0)  BY <1>1 DEF Leaves, Enters
<1>3. Meet(s, o, a, b) \in Places  BY <1>2, MeetIsPoint
<1>4. Meet(s, o, a, b) = Reduced(m)  BY DEF Meet
<1> HIDE DEF x, y
<1>5. /\ a[1] \in Int /\ a[2] \in Int /\ a[3] \in Nat \ {0}
      /\ b[1] \in Int /\ b[2] \in Int /\ b[3] \in Nat \ {0}
  BY DEF Places
<1>6. \A i \in 1 .. 3 : m[i] = Size(y) * a[i] + Size(x) * b[i]
  <2>1. CASE x <= 0 /\ y > 0
    <3>1. k = 1 /\ Size(y) = y /\ Size(x) = -x  BY <1>1, <2>1 DEF Size
    <3> QED  BY <1>1, <1>5, <3>1
  <2>2. CASE x > 0 /\ y <= 0
    <3>1. k = -1 /\ Size(y) = -y /\ Size(x) = x  BY <1>1, <2>2 DEF Size
    <3> QED  BY <1>1, <1>5, <3>1
  <2> QED  BY <1>2, <2>1, <2>2
<1>7. m \in Places
  <2>1. /\ m[1] = k * (a[1] * y - b[1] * x) /\ m[2] = k * (a[2] * y - b[2] * x)
        /\ m[3] = k * (a[3] * y - b[3] * x) /\ m = <<m[1], m[2], m[3]>>
    OBVIOUS
  <2>2. m[1] \in Int /\ m[2] \in Int /\ m[3] \in Int  BY <1>1, <1>5, <2>1
  <2>3. m[3] = Size(y) * a[3] + Size(x) * b[3]  BY <1>6
  <2>4. Size(y) >= 0 /\ Size(x) >= 0 /\ Size(y) \in Int /\ Size(x) \in Int /\ (Size(y) > 0 \/ Size(x) > 0)
    BY <1>1, <1>2 DEF Size
  <2> HIDE DEF m
  <2> DEFINE sx == Size(x)
             sy == Size(y)
  <2>5. /\ sy >= 0 /\ sx >= 0 /\ sy \in Int /\ sx \in Int /\ (sy > 0 \/ sx > 0)
        /\ m[3] = sy * a[3] + sx * b[3]
    BY <2>3, <2>4
  <2> HIDE DEF sx, sy
  <2>6. sy * a[3] >= 0 /\ sx * b[3] >= 0 /\ (sy > 0 => sy * a[3] > 0) /\ (sx > 0 => sx * b[3] > 0)
    BY <1>5, <2>5
  <2>7. sy * a[3] \in Int /\ sx * b[3] \in Int  BY <1>5, <2>5
  <2>8. m[3] > 0  BY <2>5, <2>6, <2>7
  <2> QED  BY <2>1, <2>2, <2>8 DEF Places
<1>8. PICK g \in Nat \ {0} : \A i \in 1 .. 3 : m[i] = g * Reduced(m)[i]
  BY <1>7, ReducedIsSame
<1>9. Mixes(Meet(s, o, a, b), g, a, Size(y), b, Size(x))
  BY <1>4, <1>6, <1>8, Zenon DEF Mixes
<1> QED  BY <1>1, <1>3, <1>9 DEF Cuts

\* Two corners that may follow each other once a polygon is clipped: the ends of a
\* side, of what is left of one, or the cuts where the border leaves and enters.
Follow(a, b, polygon, h) ==
    \/ \E i \in DOMAIN polygon : LET c == Before(i, polygon)
                                     d == polygon[i]
                                 IN  \/ a = c /\ b = d
                                     \/ Leaves(h, c, d) /\ a = c /\ Cuts(b, h, c, d)
                                     \/ Enters(h, c, d) /\ Cuts(a, h, c, d) /\ b = d
    \/ \E i, j \in DOMAIN polygon :
          /\ Leaves(h, Before(i, polygon), polygon[i]) /\ Cuts(a, h, Before(i, polygon), polygon[i])
          /\ Enters(h, Before(j, polygon), polygon[j]) /\ Cuts(b, h, Before(j, polygon), polygon[j])

\* A corner after a cut.
LEMMA TwoJoined ==
    ASSUME NEW x, NEW y
    PROVE  <<x>> \o <<y>> = <<x, y>>
<1> DEFINE s == <<x>>
           t == <<y>>
           u == s \o t
<1>1. s \in Seq({x, y}) /\ t \in Seq({x, y}) /\ Len(s) = 1 /\ Len(t) = 1 /\ s[1] = x /\ t[1] = y
  OBVIOUS
<1> HIDE DEF s, t
<1>2. /\ u \in Seq({x, y}) /\ Len(u) = Len(s) + Len(t)
      /\ \A i \in 1 .. Len(s) + Len(t) : u[i] = IF i <= Len(s) THEN s[i] ELSE t[i - Len(s)]
  BY <1>1, ConcatProperties
<1> HIDE DEF u
<1>3. Len(u) = 2 /\ u[1] = x /\ u[2] = y  BY <1>1, <1>2
<1>4. u = <<x, y>>
  <2> DEFINE v == <<x, y>>
  <2>1. v \in Seq({x, y}) /\ Len(v) = 2 /\ v[1] = x /\ v[2] = y  OBVIOUS
  <2> HIDE DEF v
  <2>2. u = v  BY <1>2, <1>3, <2>1, SeqEqual
  <2> QED  BY <2>2 DEF v
<1> QED  BY <1>4 DEF u, s, t

\* The corners of a clipped polygon, their order and their number.
LEMMA ClippedCorners ==
    ASSUME NEW s \in Lattice, NEW o \in Lattice, NEW polygon \in Seq(Places)
    PROVE  LET h == Bisector(s, o)
               new == Clip(polygon, s, o)
               side(i) == Before(i, polygon)
           IN  /\ new \in Seq(Places)
               /\ \A k \in DOMAIN new : Follow(new[k], new[IF k = Len(new) THEN 1 ELSE k + 1], polygon, h)
               /\ \A k \in DOMAIN new : \E i \in DOMAIN polygon :
                     \/ Value(h, polygon[i]) <= 0 /\ new[k] = polygon[i]
                     \/ /\ Leaves(h, side(i), polygon[i]) \/ Enters(h, side(i), polygon[i])
                        /\ Cuts(new[k], h, side(i), polygon[i])
               /\ \A i \in DOMAIN polygon :
                     /\ Value(h, polygon[i]) <= 0 => \E k \in DOMAIN new : new[k] = polygon[i]
                     /\ Leaves(h, side(i), polygon[i]) \/ Enters(h, side(i), polygon[i]) =>
                           \E k \in DOMAIN new : Cuts(new[k], h, side(i), polygon[i])
               /\ \A i, j \in DOMAIN polygon :
                     Leaves(h, side(i), polygon[i]) /\ Enters(h, side(j), polygon[j]) => Len(new) >= 3
               /\ (\A i \in DOMAIN polygon : Value(h, polygon[i]) <= 0) => Len(new) >= Len(polygon)
<1> DEFINE h == Bisector(s, o)
           n == Len(polygon)
           cur(i) == polygon[i]
           prev(i) == Before(i, polygon)
           cut(i) == Meet(s, o, prev(i), cur(i))
           Piece(i) == IF Value(h, cur(i)) <= 0
                       THEN IF Value(h, prev(i)) > 0 THEN <<cut(i), cur(i)>> ELSE <<cur(i)>>
                       ELSE IF Value(h, prev(i)) <= 0 THEN <<cut(i)>> ELSE <<>>
           seqs == [i \in 1 .. n |-> Piece(i)]
           new == FlattenSeq(seqs)
<1>1. n \in Nat /\ DOMAIN polygon = 1 .. n  OBVIOUS
<1>2. ASSUME NEW i \in 1 .. n PROVE cur(i) \in Places /\ prev(i) \in Places
  BY <1>1 DEF Before
<1>3. Clip(polygon, s, o) = new
  <2> DEFINE raw(i) == polygon[IF i = 1 THEN Len(polygon) ELSE i - 1]
             mid(i) == <<Meet(s, o, raw(i), cur(i))>>
             Part(i) == IF Beyond(s, o, cur(i)) <= 0
                        THEN IF Beyond(s, o, raw(i)) > 0 THEN mid(i) \o <<cur(i)>> ELSE <<cur(i)>>
                        ELSE IF Beyond(s, o, raw(i)) <= 0 THEN mid(i) ELSE <<>>
  <2>1. Clip(polygon, s, o) = FlattenSeq([i \in DOMAIN polygon |-> Part(i)])
    BY Zenon DEF Clip
  <2>2. ASSUME NEW i \in 1 .. n PROVE Part(i) = Piece(i)
    <3>1. raw(i) = prev(i)  BY DEF Before
    <3>2. Beyond(s, o, cur(i)) = Value(h, cur(i)) /\ Beyond(s, o, prev(i)) = Value(h, prev(i))
      BY <1>2, BisectorIs
    <3> HIDE DEF cut, cur, prev, h
    <3>3. <<cut(i)>> \o <<cur(i)>> = <<cut(i), cur(i)>>  BY TwoJoined, Zenon
    <3> QED  BY <3>1, <3>2, <3>3 DEF cut
  <2> HIDE DEF Part, Piece
  <2>3. [i \in DOMAIN polygon |-> Part(i)] = seqs  BY <1>1, <2>2
  <2> QED  BY <2>1, <2>3
<1>4. h \in Lines  BY BisectorIs
<1>5. ASSUME NEW i \in 1 .. n PROVE Value(h, cur(i)) \in Int /\ Value(h, prev(i)) \in Int
  BY <1>2, <1>4, ValueType
<1>6. ASSUME NEW i \in 1 .. n, Leaves(h, prev(i), cur(i)) \/ Enters(h, prev(i), cur(i))
      PROVE  cut(i) \in Places /\ Cuts(cut(i), h, prev(i), cur(i))
  BY <1>2, <1>6, MeetCuts
<1> HIDE DEF h, cur, prev, cut, n
\* The four cases of a corner.
<1>7. ASSUME NEW i \in 1 .. n
      PROVE  \/ Enters(h, prev(i), cur(i)) /\ Piece(i) = <<cut(i), cur(i)>>
             \/ Leaves(h, prev(i), cur(i)) /\ Piece(i) = <<cut(i)>>
             \/ /\ Value(h, prev(i)) <= 0 /\ Value(h, cur(i)) <= 0 /\ Piece(i) = <<cur(i)>>
             \/ /\ Value(h, prev(i)) > 0 /\ Value(h, cur(i)) > 0 /\ Piece(i) = <<>>
  BY <1>5 DEF Leaves, Enters
<1>8. ASSUME NEW i \in 1 .. n PROVE Piece(i) \in Seq(Places)
  <2> HIDE DEF Piece
  <2>1. cur(i) \in Places  BY <1>2
  <2>2. CASE Enters(h, prev(i), cur(i)) /\ Piece(i) = <<cut(i), cur(i)>>
    <3>1. cut(i) \in Places  BY <1>6, <2>2
    <3> QED  BY <2>1, <2>2, <3>1
  <2>3. CASE Leaves(h, prev(i), cur(i)) /\ Piece(i) = <<cut(i)>>
    <3>1. cut(i) \in Places  BY <1>6, <2>3
    <3> QED  BY <2>3, <3>1
  <2>4. CASE Piece(i) = <<cur(i)>>
    BY <2>1, <2>4
  <2>5. CASE Piece(i) = <<>>
    BY <2>5
  <2> QED  BY <1>7, <2>2, <2>3, <2>4, <2>5
<1> HIDE DEF Piece
<1>9. seqs \in Seq(Seq(Places)) /\ Len(seqs) = n /\ DOMAIN seqs = 1 .. n
      /\ \A i \in 1 .. n : seqs[i] = Piece(i)
  BY <1>1, <1>8
<1> HIDE DEF seqs
<1>10. new \in Seq(Places)  BY <1>9, FlattenSeqType
<1>11. ASSUME NEW k \in DOMAIN new
       PROVE  Follow(new[k], new[IF k = Len(new) THEN 1 ELSE k + 1], polygon, h)
  <2> DEFINE links == {l \in Places \X Places : Follow(l[1], l[2], polygon, h)}
             exits == {x \in Places : \E i \in 1 .. n : Leaves(h, prev(i), cur(i)) /\ x = cut(i)}
             at(i) == IF i = 0 THEN n ELSE i
             last == [i \in 0 .. n |-> IF Value(h, cur(at(i))) <= 0 THEN {cur(at(i))} ELSE exits]
  <2>1. n # 0
    <3>1. n = 0 => seqs = <<>>  BY <1>9
    <3>2. n = 0 => new = <<>>  BY <3>1 DEF FlattenSeq
    <3> QED  BY <3>2
  <2>2. ASSUME NEW i \in 0 .. n PROVE at(i) \in 1 .. n
    BY <1>1, <2>1
  <2>3. last \in [0 .. n -> SUBSET Places]
    BY <1>2, <2>2
  <2>4. last[0] = last[n]  BY <1>1, <2>1
  <2>5. ASSUME NEW i \in 1 .. n
        PROVE  /\ last[i - 1] = IF Value(h, prev(i)) <= 0 THEN {prev(i)} ELSE exits
               /\ last[i] = IF Value(h, cur(i)) <= 0 THEN {cur(i)} ELSE exits
    <3>1. i - 1 \in 0 .. n /\ i \in 0 .. n  BY <1>1
    <3>2. at(i) = i /\ at(i - 1) = (IF i = 1 THEN n ELSE i - 1)  BY <1>1
    <3>3. prev(i) = polygon[IF i = 1 THEN n ELSE i - 1]  BY DEF prev, n, Before
    <3>4. prev(i) = cur(at(i - 1)) /\ at(i) = i
      <4> HIDE DEF at
      <4> QED  BY <3>2, <3>3 DEF cur
    <3> HIDE DEF at, exits
    <3> QED  BY <3>1, <3>4
  <2>6. ASSUME NEW a \in Places, NEW b \in Places, NEW i \in 1 .. n,
               \/ a = prev(i) /\ b = cur(i)
               \/ Leaves(h, prev(i), cur(i)) /\ a = prev(i) /\ Cuts(b, h, prev(i), cur(i))
               \/ Enters(h, prev(i), cur(i)) /\ Cuts(a, h, prev(i), cur(i)) /\ b = cur(i)
        PROVE  <<a, b>> \in links
    <3>1. Follow(a, b, polygon, h)  BY <1>1, <2>6 DEF Follow, prev, cur
    <3> QED  BY <3>1
  <2>7. ASSUME NEW a \in exits, NEW i \in 1 .. n, Enters(h, prev(i), cur(i))
        PROVE  <<a, cut(i)>> \in links
    <3>1. PICK j \in 1 .. n : Leaves(h, prev(j), cur(j)) /\ a = cut(j)  OBVIOUS
    <3>2. cut(i) \in Places /\ Cuts(cut(i), h, prev(i), cur(i)) /\ Cuts(a, h, prev(j), cur(j))
      BY <1>6, <2>7, <3>1
    <3>3. Follow(a, cut(i), polygon, h)  BY <1>1, <2>7, <3>1, <3>2 DEF Follow, prev, cur
    <3> QED  BY <3>2, <3>3
  <2>8. ASSUME NEW i \in 1 .. n, Leaves(h, prev(i), cur(i)) PROVE cut(i) \in exits
    BY <1>6, <2>8
  <2> HIDE DEF links, exits, last
  <2>9. ASSUME NEW i \in 1 .. n
        PROVE  /\ seqs[i] = <<>> => last[i - 1] \subseteq last[i]
               /\ seqs[i] # <<>> => /\ seqs[i][Len(seqs[i])] \in last[i]
                                    /\ \A a \in last[i - 1] : <<a, seqs[i][1]>> \in links
               /\ \A m \in 1 .. Len(seqs[i]) - 1 : <<seqs[i][m], seqs[i][m + 1]>> \in links
    <3> DEFINE p == seqs[i]
    <3>1. p = Piece(i)  BY <1>9
    <3>2. cur(i) \in Places /\ prev(i) \in Places /\ Value(h, cur(i)) \in Int /\ Value(h, prev(i)) \in Int
      BY <1>2, <1>5
    <3> HIDE DEF p
    <3>3. CASE Enters(h, prev(i), cur(i)) /\ Piece(i) = <<cut(i), cur(i)>>
      <4>1. cut(i) \in Places /\ Cuts(cut(i), h, prev(i), cur(i))  BY <1>6, <3>3
      <4>2. p # <<>> /\ Len(p) = 2 /\ p[1] = cut(i) /\ p[2] = cur(i)  BY <3>1, <3>3
      <4>3. last[i - 1] = exits /\ last[i] = {cur(i)}
        <5>1. ~(Value(h, prev(i)) <= 0) /\ Value(h, cur(i)) <= 0  BY <3>2, <3>3 DEF Enters
        <5> QED  BY <2>5, <5>1
      <4>4. <<cut(i), cur(i)>> \in links  BY <2>6, <3>2, <3>3, <4>1
      <4>5. \A a \in exits : <<a, cut(i)>> \in links  BY <2>7, <3>3
      <4>6. 1 .. Len(p) - 1 = {1}  BY <4>2
      <4>7. \A m \in 1 .. Len(p) - 1 : <<p[m], p[m + 1]>> \in links  BY <4>2, <4>4, <4>6
      <4> QED  BY <4>2, <4>3, <4>5, <4>7 DEF p
    <3>4. CASE Leaves(h, prev(i), cur(i)) /\ Piece(i) = <<cut(i)>>
      <4>1. cut(i) \in Places /\ Cuts(cut(i), h, prev(i), cur(i))  BY <1>6, <3>4
      <4>2. p # <<>> /\ Len(p) = 1 /\ p[1] = cut(i)  BY <3>1, <3>4
      <4>3. last[i - 1] = {prev(i)} /\ last[i] = exits
        <5>1. Value(h, prev(i)) <= 0 /\ ~(Value(h, cur(i)) <= 0)  BY <3>2, <3>4 DEF Leaves
        <5> QED  BY <2>5, <5>1
      <4>4. <<prev(i), cut(i)>> \in links  BY <2>6, <3>2, <3>4, <4>1
      <4>5. cut(i) \in exits  BY <2>8, <3>4
      <4>6. 1 .. Len(p) - 1 = {}  BY <4>2
      <4> QED  BY <4>2, <4>3, <4>4, <4>5, <4>6 DEF p
    <3>5. CASE Value(h, prev(i)) <= 0 /\ Value(h, cur(i)) <= 0 /\ Piece(i) = <<cur(i)>>
      <4>2. p # <<>> /\ Len(p) = 1 /\ p[1] = cur(i)  BY <3>1, <3>5
      <4>3. last[i - 1] = {prev(i)} /\ last[i] = {cur(i)}  BY <2>5, <3>5
      <4>4. <<prev(i), cur(i)>> \in links  BY <2>6, <3>2
      <4>6. 1 .. Len(p) - 1 = {}  BY <4>2
      <4> QED  BY <4>2, <4>3, <4>4, <4>6 DEF p
    <3>6. CASE Value(h, prev(i)) > 0 /\ Value(h, cur(i)) > 0 /\ Piece(i) = <<>>
      <4>1. last[i - 1] = exits /\ last[i] = exits
        <5>1. ~(Value(h, prev(i)) <= 0) /\ ~(Value(h, cur(i)) <= 0)  BY <3>2, <3>6
        <5> QED  BY <2>5, <5>1
      <4>2. p = <<>> /\ Len(p) = 0  BY <3>1, <3>6
      <4>3. 1 .. Len(p) - 1 = {}  BY <4>2
      <4> QED  BY <4>1, <4>2, <4>3 DEF p
    <3> QED  BY <1>7, <3>3, <3>4, <3>5, <3>6
  <2>10. <<new[k], new[IF k = Len(new) THEN 1 ELSE k + 1]>> \in links
    BY <1>9, <2>3, <2>4, <2>9, FlattenLinks
  <2> DEFINE b == new[IF k = Len(new) THEN 1 ELSE k + 1]
  <2>11. <<new[k], b>> \in links  BY <2>10
  <2> HIDE DEF b
  <2>12. Follow(new[k], b, polygon, h)  BY <2>11 DEF links
  <2> QED  BY <2>12 DEF b
<1>12. ASSUME NEW x
       PROVE  (\E k \in DOMAIN new : new[k] = x)
              <=> \E i \in 1 .. n : \E j \in DOMAIN seqs[i] : seqs[i][j] = x
  <2>1. (\E k \in DOMAIN FlattenSeq(seqs) : FlattenSeq(seqs)[k] = x)
        <=> (\E i \in DOMAIN seqs : \E j \in DOMAIN seqs[i] : seqs[i][j] = x)
    <3>1. seqs \in Seq(Seq(Places))  BY <1>9
    <3> DEFINE flat == FlattenSeq(seqs)
               Left(y) == \E k \in DOMAIN flat : flat[k] = y
               Right(y) == \E i \in DOMAIN seqs : \E j \in DOMAIN seqs[i] : seqs[i][j] = y
    <3>2. \A y : Left(y) <=> Right(y)  BY <3>1, FlattenRange
    <3> QED  BY <3>2
  <2> QED  BY <1>9, <2>1
<1> HIDE DEF new
<1>13. ASSUME NEW k \in DOMAIN new
       PROVE  \E i \in 1 .. n :
                 \/ Value(h, cur(i)) <= 0 /\ new[k] = cur(i)
                 \/ /\ Leaves(h, prev(i), cur(i)) \/ Enters(h, prev(i), cur(i))
                    /\ Cuts(new[k], h, prev(i), cur(i))
  <2> DEFINE x == new[k]
  <2>1. PICK i \in 1 .. n : \E j \in DOMAIN seqs[i] : seqs[i][j] = x
    BY <1>12
  <2> HIDE DEF x
  <2>2. PICK j \in DOMAIN Piece(i) : Piece(i)[j] = x  BY <1>9, <2>1
  <2>3. CASE Enters(h, prev(i), cur(i)) /\ Piece(i) = <<cut(i), cur(i)>>
    <3>1. x = cut(i) \/ x = cur(i)  BY <2>2, <2>3
    <3> QED  BY <1>6, <2>3, <3>1 DEF x, Enters
  <2>4. CASE Leaves(h, prev(i), cur(i)) /\ Piece(i) = <<cut(i)>>
    <3>1. x = cut(i)  BY <2>2, <2>4
    <3> QED  BY <1>6, <2>4, <3>1 DEF x
  <2>5. CASE Value(h, prev(i)) <= 0 /\ Value(h, cur(i)) <= 0 /\ Piece(i) = <<cur(i)>>
    <3>1. x = cur(i)  BY <2>2, <2>5
    <3> QED  BY <2>5, <3>1 DEF x
  <2>6. CASE Piece(i) = <<>>
    BY <2>2, <2>6
  <2> QED  BY <1>7, <2>3, <2>4, <2>5, <2>6
<1>14. ASSUME NEW i \in 1 .. n
       PROVE  /\ Value(h, cur(i)) <= 0 => \E k \in DOMAIN new : new[k] = cur(i)
              /\ Leaves(h, prev(i), cur(i)) \/ Enters(h, prev(i), cur(i)) =>
                    \E k \in DOMAIN new : Cuts(new[k], h, prev(i), cur(i))
  <2>1. ASSUME NEW x, NEW j \in DOMAIN Piece(i), Piece(i)[j] = x
        PROVE  \E k \in DOMAIN new : new[k] = x
    BY <1>9, <1>12, <2>1
  <2>2. CASE Enters(h, prev(i), cur(i)) /\ Piece(i) = <<cut(i), cur(i)>>
    <3>1. 1 \in DOMAIN Piece(i) /\ Piece(i)[1] = cut(i) /\ 2 \in DOMAIN Piece(i) /\ Piece(i)[2] = cur(i)
      BY <2>2
    <3>2. (\E k \in DOMAIN new : new[k] = cut(i)) /\ (\E k \in DOMAIN new : new[k] = cur(i))
      BY <2>1, <3>1
    <3> QED  BY <1>6, <2>2, <3>2
  <2>3. CASE Leaves(h, prev(i), cur(i)) /\ Piece(i) = <<cut(i)>>
    <3>1. 1 \in DOMAIN Piece(i) /\ Piece(i)[1] = cut(i)  BY <2>3
    <3>2. \E k \in DOMAIN new : new[k] = cut(i)  BY <2>1, <3>1
    <3>3. ~(Value(h, cur(i)) <= 0)  BY <1>5, <2>3 DEF Leaves
    <3> QED  BY <1>6, <2>3, <3>2, <3>3
  <2>4. CASE Value(h, prev(i)) <= 0 /\ Value(h, cur(i)) <= 0 /\ Piece(i) = <<cur(i)>>
    <3>1. 1 \in DOMAIN Piece(i) /\ Piece(i)[1] = cur(i)  BY <2>4
    <3>2. \E k \in DOMAIN new : new[k] = cur(i)  BY <2>1, <3>1
    <3>3. ~Leaves(h, prev(i), cur(i)) /\ ~Enters(h, prev(i), cur(i))  BY <1>5, <2>4 DEF Leaves, Enters
    <3> QED  BY <3>2, <3>3
  <2>5. CASE Value(h, prev(i)) > 0 /\ Value(h, cur(i)) > 0
    <3>1. ~Leaves(h, prev(i), cur(i)) /\ ~Enters(h, prev(i), cur(i)) /\ ~(Value(h, cur(i)) <= 0)
      BY <1>5, <2>5 DEF Leaves, Enters
    <3> QED  BY <3>1
  <2> QED  BY <1>7, <2>2, <2>3, <2>4, <2>5
<1>15. ASSUME NEW i \in 1 .. n, NEW j \in 1 .. n,
              Leaves(h, prev(i), cur(i)), Enters(h, prev(j), cur(j))
       PROVE  Len(new) >= 3
  <2>1. Piece(i) = <<cut(i)>>
    BY <1>5, <1>7, <1>15 DEF Leaves, Enters
  <2>2. Piece(j) = <<cut(j), cur(j)>>
    BY <1>5, <1>7, <1>15 DEF Leaves, Enters
  <2>3. Len(seqs[i]) = 1 /\ Len(seqs[j]) = 2  BY <1>9, <2>1, <2>2
  <2>4. i # j
    <3>1. ASSUME i = j PROVE FALSE
      <4>1. Len(seqs[i]) = 2  BY <2>3, <3>1
      <4> QED  BY <2>3, <4>1
    <3> QED  BY <3>1
  <2>5. Len(new) >= Len(seqs[i]) + Len(seqs[j])  BY <1>9, <2>4, FlattenLength DEF new
  <2>6. Len(new) \in Nat  BY <1>10
  <2> QED  BY <2>3, <2>5, <2>6
<1>16. ASSUME \A i \in 1 .. n : Value(h, cur(i)) <= 0
       PROVE  Len(new) >= n
  <2>1. ASSUME NEW i \in 1 .. n PROVE Len(seqs[i]) > 0
    <3>1. CASE Piece(i) = <<cut(i), cur(i)>>
      <4>1. seqs[i] = <<cut(i), cur(i)>>  BY <1>9, <3>1
      <4>2. Len(seqs[i]) = 2  BY <4>1
      <4> QED  BY <4>2
    <3>2. CASE Piece(i) = <<cur(i)>>
      <4>1. seqs[i] = <<cur(i)>>  BY <1>9, <3>2
      <4>2. Len(seqs[i]) = 1  BY <4>1
      <4> QED  BY <4>2
    <3>3. ~(Value(h, cur(i)) > 0)  BY <1>5, <1>16
    <3> QED  BY <1>7, <3>1, <3>2, <3>3 DEF Leaves
  <2> QED  BY <1>9, <2>1, FlattenLong DEF new
<1>17. (\A i \in DOMAIN polygon : Value(h, polygon[i]) <= 0) => Len(new) >= Len(polygon)
  BY <1>1, <1>16 DEF cur, n
<1>18. \A k \in DOMAIN new : Follow(new[k], new[IF k = Len(new) THEN 1 ELSE k + 1], polygon, h)
  BY <1>11
<1>19. \A k \in DOMAIN new : \E i \in DOMAIN polygon :
                     \/ Value(h, polygon[i]) <= 0 /\ new[k] = polygon[i]
                     \/ /\ Leaves(h, prev(i), polygon[i]) \/ Enters(h, prev(i), polygon[i])
                        /\ Cuts(new[k], h, prev(i), polygon[i])
  BY <1>1, <1>13 DEF cur
<1>20. \A i \in DOMAIN polygon :
                     /\ Value(h, polygon[i]) <= 0 => \E k \in DOMAIN new : new[k] = polygon[i]
                     /\ Leaves(h, prev(i), polygon[i]) \/ Enters(h, prev(i), polygon[i]) =>
                           \E k \in DOMAIN new : Cuts(new[k], h, prev(i), polygon[i])
  BY <1>1, <1>14 DEF cur
<1>21. \A i, j \in DOMAIN polygon :
                     Leaves(h, prev(i), polygon[i]) /\ Enters(h, prev(j), polygon[j]) => Len(new) >= 3
  BY <1>1, <1>15 DEF cur
<1> QED  BY <1>3, <1>10, <1>18, <1>19, <1>20, <1>21, <1>17, Zenon DEF h, prev

\* One more line.
LEMMA RegionGrows ==
    ASSUME NEW lines, NEW h, NEW q
    PROVE  q \in Region(lines \cup {h}) <=> q \in Region(lines) /\ Value(h, q) <= 0
BY DEF Region

\* The half-plane on the other side.
LEMMA OtherSide ==
    ASSUME NEW h \in Lines
    PROVE  \E f \in Lines : \A p \in Places : Value(f, p) = -Value(h, p)
<1> DEFINE a == h[1]
           b == h[2]
           c == h[3]
           f == <<-a, -b, -c>>
<1>1. a \in Int /\ b \in Int /\ c \in Int  BY DEF Lines
<1>2. ASSUME NEW p \in Places PROVE Value(f, p) = -Value(h, p)
  <2>1. p[1] \in Int /\ p[2] \in Int /\ p[3] \in Int  BY DEF Places
  <2>2. Value(f, p) = (-a) * p[1] + (-b) * p[2] + (-c) * p[3]  BY DEF Value
  <2>3. Value(h, p) = a * p[1] + b * p[2] + c * p[3]  BY DEF Value
  <2> HIDE DEF a, b, c, f
  <2> QED  BY <1>1, <2>1, <2>2, <2>3
<1>3. f \in Lines  BY <1>1 DEF Lines
<1> QED  BY <1>2, <1>3

\* However a line through a point of the region left is turned, a clipped polygon has
\* a corner on its inner side: an old one, or a cut.
LEMMA ClipReaches ==
    ASSUME NEW lines \in SUBSET Lines, NEW polygon, Encloses(polygon, lines),
           NEW s \in Lattice, NEW o \in Lattice, NEW q \in Region(lines \cup {Bisector(s, o)}),
           NEW e \in Lines, Value(e, q) = 0
    PROVE  \E k \in DOMAIN Clip(polygon, s, o) : Value(e, Clip(polygon, s, o)[k]) <= 0
<1> DEFINE h == Bisector(s, o)
           new == Clip(polygon, s, o)
           cur(i) == polygon[i]
           prev(i) == Before(i, polygon)
<1>1. h \in Lines  BY BisectorIs
<1>2. q \in Region(lines) /\ Value(h, q) <= 0 /\ q \in Places  BY RegionGrows DEF Region
<1>3. polygon \in Seq(Places)  BY DEF Encloses
<1>4. /\ new \in Seq(Places)
      /\ \A i \in DOMAIN polygon :
            /\ Value(h, cur(i)) <= 0 => \E k \in DOMAIN new : new[k] = cur(i)
            /\ Leaves(h, prev(i), cur(i)) \/ Enters(h, prev(i), cur(i)) =>
                  \E k \in DOMAIN new : Cuts(new[k], h, prev(i), cur(i))
  BY <1>3, ClippedCorners
<1> HIDE DEF h, new
<1>5. Enclosed(q, polygon)  BY <1>2 DEF Encloses
<1>6. PICK v \in DOMAIN polygon : Value(e, cur(v)) <= 0
  BY <1>2, <1>3, <1>5, NoLineBetween
<1>7. CASE Value(h, cur(v)) <= 0
  BY <1>4, <1>6, <1>7 DEF new
<1>8. CASE ~(Value(h, cur(v)) <= 0)
  <2> DEFINE hv == Value(h, cur(v))
             hq == Value(h, q)
             p == cur(v)
             z == <<(-hq) * p[1] + hv * q[1], (-hq) * p[2] + hv * q[2], (-hq) * p[3] + hv * q[3]>>
  <2>1. p \in Places /\ p \in Region(lines)  BY <1>3 DEF Encloses
  <2>2. hv \in Int /\ hq \in Int /\ hv > 0 /\ hq <= 0
    BY <1>1, <1>2, <1>8, <2>1, ValueType
  <2> HIDE DEF p
  <2>3. z \in Places /\ Mixes(z, 1, p, -hq, q, hv)
    <3> HIDE DEF hv, hq
    <3>1. /\ p[1] \in Int /\ p[2] \in Int /\ p[3] \in Nat \ {0}
          /\ q[1] \in Int /\ q[2] \in Int /\ q[3] \in Nat \ {0}
      BY <1>2, <2>1 DEF Places
    <3>2. /\ z[1] = (-hq) * p[1] + hv * q[1] /\ z[2] = (-hq) * p[2] + hv * q[2]
          /\ z[3] = (-hq) * p[3] + hv * q[3] /\ z = <<z[1], z[2], z[3]>>
      OBVIOUS
    <3> HIDE DEF z
    <3>3. z[1] \in Int /\ z[2] \in Int /\ z[3] \in Int  BY <2>2, <3>1, <3>2
    <3>4. (-hq) * p[3] >= 0 /\ hv * q[3] > 0 /\ (-hq) * p[3] \in Int /\ hv * q[3] \in Int
      BY <2>2, <3>1
    <3>5. z[3] > 0  BY <3>2, <3>4
    <3>6. z \in Places  BY <3>2, <3>3, <3>5 DEF Places
    <3>7. 1 * z[1] = z[1] /\ 1 * z[2] = z[2] /\ 1 * z[3] = z[3]  BY <3>3
    <3>8. \A i \in 1 .. 3 : 1 * z[i] = (-hq) * p[i] + hv * q[i]
      <4> TAKE i \in 1 .. 3
      <4>1. i = 1 \/ i = 2 \/ i = 3  OBVIOUS
      <4> QED  BY <3>2, <3>7, <4>1
    <3> QED  BY <3>6, <3>8 DEF Mixes
  <2> HIDE DEF z
  <2>4. z \in Region(lines)
    BY <1>2, <2>1, <2>2, <2>3, MixedInRegion
  <2>5. Value(h, z) = 0
    <3>1. 1 * Value(h, z) = (-hq) * Value(h, p) + hv * Value(h, q)
      BY <1>1, <1>2, <2>1, <2>2, <2>3, MixedValue
    <3>2. Value(h, z) \in Int  BY <1>1, <2>3, ValueType
    <3>3. 1 * Value(h, z) = (-hq) * hv + hv * hq  BY <3>1 DEF p
    <3> HIDE DEF hv, hq
    <3> QED  BY <2>2, <3>2, <3>3
  <2>6. Value(e, z) <= 0
    <3>1. 1 * Value(e, z) = (-hq) * Value(e, p) + hv * Value(e, q)
      BY <1>2, <2>1, <2>2, <2>3, MixedValue
    <3>2. Value(e, z) \in Int /\ Value(e, p) \in Int  BY <2>1, <2>3, ValueType
    <3>3. Value(e, p) <= 0  BY <1>6 DEF p
    <3> DEFINE x == Value(e, z)
               y == Value(e, p)
    <3>4. 1 * x = (-hq) * y + hv * 0  BY <3>1
    <3> HIDE DEF hv, hq, x, y
    <3>5. x \in Int /\ y \in Int /\ y <= 0  BY <3>2, <3>3 DEF x, y
    <3>6. (-hq) * y <= 0 /\ (-hq) * y \in Int  BY <2>2, <3>5
    <3>7. x <= 0  BY <2>2, <3>4, <3>5, <3>6
    <3> QED  BY <3>7 DEF x
  <2>7. \E a \in DOMAIN polygon : Value(h, polygon[a]) <= 0
    BY <1>1, <1>2, <1>3, <1>5, SomeCornerInside
  <2>8. Value(h, polygon[v]) > 0  BY <2>2
  <2>9. PICK i \in DOMAIN polygon, j \in DOMAIN polygon :
           Leaves(h, prev(i), cur(i)) /\ Enters(h, prev(j), cur(j))
    BY <1>1, <1>3, <2>7, <2>8, CrossesBothWays
  <2>10. PICK k \in DOMAIN new, l \in DOMAIN new :
           Cuts(new[k], h, prev(i), cur(i)) /\ Cuts(new[l], h, prev(j), cur(j))
    BY <1>4, <2>9
  <2>11. /\ cur(i) \in Places /\ prev(i) \in Places /\ cur(j) \in Places /\ prev(j) \in Places
         /\ Turn(prev(i), cur(i), z) >= 0 /\ Turn(prev(j), cur(j), z) >= 0
    <3>1. \A m \in DOMAIN polygon : cur(m) \in Region(lines) /\ prev(m) \in Region(lines)
                                   /\ Turn(prev(m), cur(m), z) >= 0
      BY <2>4, SideTurns
    <3> QED  BY <3>1 DEF Region
  <2>12. new[k] \in Places /\ new[l] \in Places  BY <1>4
  <2> HIDE DEF prev, cur
  <2>13. Value(e, new[k]) <= 0 \/ Value(e, new[l]) <= 0
    BY <1>1, <2>3, <2>5, <2>6, <2>9, <2>10, <2>11, <2>12, CutsReach
  <2> QED  BY <2>13 DEF new
<1> QED  BY <1>7, <1>8 DEF new

\* Clipping by one more bisector gives the polygon that encloses what is left
\* (_clip_to_nearer_half_plane).
LEMMA ClipKeeps ==
    ASSUME NEW lines \in SUBSET Lines, NEW polygon, Encloses(polygon, lines),
           NEW s \in Lattice, NEW o \in Lattice
    PROVE  Encloses(Clip(polygon, s, o), lines \cup {Bisector(s, o)})
<1> DEFINE h == Bisector(s, o)
           new == Clip(polygon, s, o)
           cur(i) == polygon[i]
           prev(i) == Before(i, polygon)
           more == lines \cup {h}
<1>1. h \in Lines  BY BisectorIs
<1>2. polygon \in Seq(Places) /\ (polygon = <<>> \/ Len(polygon) >= 3)  BY DEF Encloses
<1>3. /\ new \in Seq(Places)
      /\ \A k \in DOMAIN new : Follow(new[k], new[IF k = Len(new) THEN 1 ELSE k + 1], polygon, h)
      /\ \A k \in DOMAIN new : \E i \in DOMAIN polygon :
                     \/ Value(h, cur(i)) <= 0 /\ new[k] = cur(i)
                     \/ /\ Leaves(h, prev(i), cur(i)) \/ Enters(h, prev(i), cur(i))
                        /\ Cuts(new[k], h, prev(i), cur(i))
      /\ \A i, j \in DOMAIN polygon :
                     Leaves(h, prev(i), cur(i)) /\ Enters(h, prev(j), cur(j)) => Len(new) >= 3
      /\ (\A i \in DOMAIN polygon : Value(h, cur(i)) <= 0) => Len(new) >= Len(polygon)
  BY <1>2, ClippedCorners
<1>4. \A i \in DOMAIN polygon :
         /\ cur(i) \in Region(lines) /\ prev(i) \in Region(lines)
         /\ cur(i) \in Places /\ prev(i) \in Places
         /\ \A q \in Region(lines) : Turn(prev(i), cur(i), q) >= 0
  <2> TAKE i \in DOMAIN polygon
  <2>1. /\ cur(i) \in Region(lines) /\ prev(i) \in Region(lines)
        /\ \A q \in Region(lines) : Turn(prev(i), cur(i), q) >= 0
    BY SideTurns
  <2> QED  BY <2>1 DEF Region
<1>5. ASSUME NEW x \in Places, NEW i \in DOMAIN polygon,
             Leaves(h, prev(i), cur(i)) \/ Enters(h, prev(i), cur(i)), Cuts(x, h, prev(i), cur(i))
      PROVE  /\ Value(h, x) = 0 /\ x \in Region(lines) /\ x \in Region(more)
             /\ \A q \in Region(lines) : Turn(prev(i), x, q) >= 0 /\ Turn(x, cur(i), q) >= 0
  <2>1. /\ Value(h, x) = 0
        /\ \A ls \in SUBSET Lines : prev(i) \in Region(ls) /\ cur(i) \in Region(ls) => x \in Region(ls)
        /\ \A q \in Places : Turn(prev(i), cur(i), q) >= 0 =>
                                Turn(prev(i), x, q) >= 0 /\ Turn(x, cur(i), q) >= 0
    <3> HIDE DEF h, prev, cur
    <3> QED  BY <1>1, <1>4, <1>5, CutIs
  <2>2. x \in Region(lines)  BY <1>4, <2>1
  <2>3. x \in Region(more)  BY <2>1, <2>2, RegionGrows
  <2>4. \A q \in Region(lines) : q \in Places  BY DEF Region
  <2> QED  BY <1>4, <2>1, <2>2, <2>3, <2>4
<1> HIDE DEF prev, cur
<1>6. ASSUME NEW k \in DOMAIN new PROVE new[k] \in Region(more)
  <2>1. PICK i \in DOMAIN polygon :
                     \/ Value(h, cur(i)) <= 0 /\ new[k] = cur(i)
                     \/ /\ Leaves(h, prev(i), cur(i)) \/ Enters(h, prev(i), cur(i))
                        /\ Cuts(new[k], h, prev(i), cur(i))
    BY <1>3
  <2>2. new[k] \in Places  BY <1>3
  <2> HIDE DEF h, new
  <2>3. CASE Value(h, cur(i)) <= 0 /\ new[k] = cur(i)
    BY <1>4, <2>3, RegionGrows DEF more
  <2> QED  BY <1>5, <2>1, <2>2, <2>3
<1>7. ASSUME NEW q \in Region(more), NEW k \in DOMAIN new
      PROVE  Turn(new[k], new[After(k, new)], q) >= 0
  <2> DEFINE a == new[k]
             b == new[After(k, new)]
  <2>1. q \in Region(lines) /\ Value(h, q) <= 0 /\ q \in Places  BY <1>7, RegionGrows DEF Region
  <2>2. After(k, new) = IF k = Len(new) THEN 1 ELSE k + 1
    <3> HIDE DEF new
    <3> QED  BY <1>3, AfterIs
  <2>3. After(k, new) \in DOMAIN new
    <3> HIDE DEF new
    <3> QED  BY <1>3, <2>2
  <2>4. a \in Places /\ b \in Places  BY <1>3, <2>3
  <2>5. Follow(a, b, polygon, h)  BY <1>3, <2>2
  <2> HIDE DEF a, b, h, new, more
  <2>6. ASSUME NEW i \in DOMAIN polygon, a = prev(i), b = cur(i) PROVE Turn(a, b, q) >= 0
    BY <1>4, <2>1, <2>6
  <2>7. ASSUME NEW i \in DOMAIN polygon, Leaves(h, prev(i), cur(i)), a = prev(i), Cuts(b, h, prev(i), cur(i))
        PROVE  Turn(a, b, q) >= 0
    BY <1>5, <2>1, <2>4, <2>7
  <2>8. ASSUME NEW i \in DOMAIN polygon, Enters(h, prev(i), cur(i)), Cuts(a, h, prev(i), cur(i)), b = cur(i)
        PROVE  Turn(a, b, q) >= 0
    BY <1>5, <2>1, <2>4, <2>8
  <2>9. ASSUME NEW i \in DOMAIN polygon, NEW j \in DOMAIN polygon,
               Leaves(h, prev(i), cur(i)), Cuts(a, h, prev(i), cur(i)),
               Enters(h, prev(j), cur(j)), Cuts(b, h, prev(j), cur(j))
        PROVE  Turn(a, b, q) >= 0
    <3>1. Value(h, b) = 0 /\ b \in Region(lines)  BY <1>5, <2>4, <2>9
    <3>2. Turn(prev(i), cur(i), b) >= 0 /\ prev(i) \in Places /\ cur(i) \in Places
      BY <1>4, <3>1
    <3> QED  BY <1>1, <2>1, <2>4, <2>9, <3>1, <3>2, CutTurns
  <2>10. \/ \E i \in DOMAIN polygon :
              \/ a = prev(i) /\ b = cur(i)
              \/ Leaves(h, prev(i), cur(i)) /\ a = prev(i) /\ Cuts(b, h, prev(i), cur(i))
              \/ Enters(h, prev(i), cur(i)) /\ Cuts(a, h, prev(i), cur(i)) /\ b = cur(i)
         \/ \E i, j \in DOMAIN polygon :
              /\ Leaves(h, prev(i), cur(i)) /\ Cuts(a, h, prev(i), cur(i))
              /\ Enters(h, prev(j), cur(j)) /\ Cuts(b, h, prev(j), cur(j))
    BY <2>5 DEF Follow, prev, cur
  <2>11. Turn(a, b, q) >= 0  BY <2>6, <2>7, <2>8, <2>9, <2>10
  <2> QED  BY <2>11 DEF a, b
<1>8. ASSUME NEW q \in Region(more), NEW axis \in {1, 2}
      PROVE  \E i, j \in DOMAIN new :
                Value(Across(q, axis), new[i]) >= 0 /\ Value(Across(q, axis), new[j]) <= 0
  <2> DEFINE e == Across(q, axis)
  <2>0. q \in Places  BY <1>8 DEF Region
  <2>1. e \in Lines /\ Value(e, q) = 0  BY <2>0, AcrossIsLine
  <2> HIDE DEF e
  <2>2. PICK f \in Lines : \A p \in Places : Value(f, p) = -Value(e, p)
    BY <2>1, OtherSide
  <2>3. Value(f, q) = 0  BY <2>0, <2>1, <2>2
  <2>4. PICK j \in DOMAIN new : Value(e, new[j]) <= 0  BY <1>8, <2>1, ClipReaches
  <2>5. PICK i \in DOMAIN new : Value(f, new[i]) <= 0  BY <1>8, <2>2, <2>3, ClipReaches
  <2>6. Value(e, new[i]) >= 0
    <3>1. new[i] \in Places  BY <1>3
    <3>2. Value(f, new[i]) = -Value(e, new[i]) /\ Value(e, new[i]) \in Int  BY <2>1, <2>2, <3>1, ValueType
    <3> QED  BY <2>5, <3>2
  <2> QED  BY <2>4, <2>6 DEF e
<1>9. new = <<>> \/ Len(new) >= 3
  <2>0. ASSUME NEW i \in DOMAIN polygon PROVE Value(h, polygon[i]) \in Int
    <3> HIDE DEF h
    <3>1. polygon[i] \in Places  BY <1>2
    <3> QED  BY <1>1, <3>1, ValueType
  <2>1. CASE \A i \in DOMAIN polygon : Value(h, polygon[i]) <= 0
    <3>1. Len(new) >= Len(polygon)  BY <1>3, <2>1 DEF cur
    <3> HIDE DEF new
    <3>2. CASE polygon = <<>>
      <4>1. DOMAIN new = {}  BY <1>3, <3>2
      <4> QED  BY <1>3, <4>1
    <3>3. CASE Len(polygon) >= 3
      <4>1. Len(new) \in Nat /\ Len(polygon) \in Nat  BY <1>2, <1>3
      <4> QED  BY <3>1, <3>3, <4>1
    <3> QED  BY <1>2, <3>2, <3>3
  <2>2. CASE \A i \in DOMAIN polygon : Value(h, polygon[i]) > 0
    <3>1. \A i \in DOMAIN polygon : Value(h, polygon[i]) > 0 /\ Value(h, prev(i)) > 0
                                   /\ ~(Value(h, polygon[i]) <= 0) /\ ~(Value(h, prev(i)) <= 0)
      <4> TAKE i \in DOMAIN polygon
      <4>1. PICK j \in DOMAIN polygon : polygon[j] = prev(i)  BY <1>2, BeforeIs DEF prev
      <4>2. Value(h, polygon[i]) > 0 /\ Value(h, prev(i)) > 0  BY <2>2, <4>1
      <4>3. Value(h, polygon[i]) \in Int /\ Value(h, prev(i)) \in Int  BY <2>0, <4>1
      <4> QED  BY <4>2, <4>3
    <3> HIDE DEF new, h
    <3>2. DOMAIN new = {}  BY <1>3, <3>1 DEF cur, Leaves, Enters
    <3> QED  BY <1>3, <3>2
  <2>3. ASSUME NEW a \in DOMAIN polygon, Value(h, polygon[a]) <= 0,
               NEW b \in DOMAIN polygon, Value(h, polygon[b]) > 0
        PROVE  Len(new) >= 3
    <3> HIDE DEF h
    <3>1. /\ \E i \in DOMAIN polygon : Leaves(h, Before(i, polygon), polygon[i])
          /\ \E i \in DOMAIN polygon : Enters(h, Before(i, polygon), polygon[i])
      BY <1>1, <1>2, <2>3, CrossesBothWays
    <3> HIDE DEF new
    <3> QED  BY <1>3, <3>1 DEF cur, prev
  <2> HIDE DEF h, new
  <2> QED  BY <2>0, <2>1, <2>2, <2>3
<1>10. \A q \in Region(more) : Enclosed(q, new)
  BY <1>7, <1>8 DEF Enclosed
<1> HIDE DEF new, more, h
<1>11. Encloses(new, more)  BY <1>3, <1>6, <1>9, <1>10 DEF Encloses
<1> QED  BY <1>11 DEF new, more, h

--------------------------------------------------------------------------------
(* The cells of the Voronoi map: _build_cells. *)

\* The sides of the corridor as lines.
BoxLines == {<<1, 0, -Corridor[2]>>, <<-1, 0, Corridor[1]>>,
             <<0, 1, -Corridor[4]>>, <<0, -1, Corridor[3]>>}

\* The corridor is the region of its sides (clipped_bounds).
LEMMA BoxEncloses ==
    ASSUME Corridor[1] <= Corridor[2], Corridor[3] <= Corridor[4]
    PROVE  BoxLines \subseteq Lines /\ Encloses(Corners(Corridor), BoxLines)
<1> DEFINE a == Corridor[1]
           b == Corridor[2]
           c == Corridor[3]
           d == Corridor[4]
           box == <<<<a, c, 1>>, <<b, c, 1>>, <<b, d, 1>>, <<a, d, 1>>>>
<1>1. a \in Int /\ b \in Int /\ c \in Int /\ d \in Int /\ a <= b /\ c <= d  BY FieldIsThere
<1>2. Corners(Corridor) = box  BY DEF Corners, At
<1>3. BoxLines = {<<1, 0, -b>>, <<-1, 0, a>>, <<0, 1, -d>>, <<0, -1, c>>}  BY DEF BoxLines
<1> HIDE DEF a, b, c, d
<1>4. BoxLines \subseteq Lines
  BY <1>1, <1>3 DEF Lines
<1>5. \A q \in Places : q \in Region(BoxLines) <=>
         /\ q[1] - b * q[3] <= 0 /\ a * q[3] - q[1] <= 0
         /\ q[2] - d * q[3] <= 0 /\ c * q[3] - q[2] <= 0
  <2> TAKE q \in Places
  <2>0. q[1] \in Int /\ q[2] \in Int /\ q[3] \in Int  BY DEF Places
  <2>1. Value(<<1, 0, -b>>, q) = q[1] - b * q[3]  BY <1>1, <2>0 DEF Value
  <2>2. Value(<<-1, 0, a>>, q) = a * q[3] - q[1]  BY <1>1, <2>0 DEF Value
  <2>3. Value(<<0, 1, -d>>, q) = q[2] - d * q[3]  BY <1>1, <2>0 DEF Value
  <2>4. Value(<<0, -1, c>>, q) = c * q[3] - q[2]  BY <1>1, <2>0 DEF Value
  <2>5. q \in Region(BoxLines) <=>
           /\ Value(<<1, 0, -b>>, q) <= 0 /\ Value(<<-1, 0, a>>, q) <= 0
           /\ Value(<<0, 1, -d>>, q) <= 0 /\ Value(<<0, -1, c>>, q) <= 0
    BY <1>3, Zenon DEF Region
  <2> QED  BY <2>1, <2>2, <2>3, <2>4, <2>5, Zenon
<1>6. /\ box \in Seq(Places) /\ Len(box) = 4 /\ DOMAIN box = {1, 2, 3, 4}
      /\ box[1] = <<a, c, 1>> /\ box[2] = <<b, c, 1>> /\ box[3] = <<b, d, 1>> /\ box[4] = <<a, d, 1>>
  BY <1>1 DEF Places
<1> HIDE DEF box
<1>7. ASSUME NEW i \in DOMAIN box PROVE box[i] \in Region(BoxLines)
  <2>1. ASSUME NEW x \in {a, b}, NEW y \in {c, d} PROVE <<x, y, 1>> \in Region(BoxLines)
    <3> DEFINE q == <<x, y, 1>>
    <3>1. q \in Places /\ q[1] = x /\ q[2] = y /\ q[3] = 1 /\ x \in Int /\ y \in Int
      BY <1>1 DEF Places
    <3> HIDE DEF q
    <3>2. /\ q[1] - b * q[3] <= 0 /\ a * q[3] - q[1] <= 0
          /\ q[2] - d * q[3] <= 0 /\ c * q[3] - q[2] <= 0
      BY <1>1, <3>1
    <3>3. q \in Region(BoxLines)  BY <1>5, <3>1, <3>2
    <3> QED  BY <3>3 DEF q
  <2> QED  BY <1>6, <2>1
<1>8. ASSUME NEW q \in Region(BoxLines) PROVE Enclosed(q, box)
  <2>1. /\ q \in Places /\ q[1] \in Int /\ q[2] \in Int /\ q[3] \in Nat \ {0}
        /\ q[1] - b * q[3] <= 0 /\ a * q[3] - q[1] <= 0
        /\ q[2] - d * q[3] <= 0 /\ c * q[3] - q[2] <= 0
    <3>1. q \in Places  BY DEF Region
    <3> QED  BY <1>5, <3>1 DEF Places
  <2> DEFINE x == q[1]
             y == q[2]
             w == q[3]
  <2>2. After(1, box) = 2 /\ After(2, box) = 3 /\ After(3, box) = 4 /\ After(4, box) = 1
    <3>1. box \in Seq(Places) /\ Len(box) = 4 /\ 1 \in DOMAIN box /\ 2 \in DOMAIN box
          /\ 3 \in DOMAIN box /\ 4 \in DOMAIN box
      BY <1>6
    <3>2. \A i \in DOMAIN box : After(i, box) = IF i = 4 THEN 1 ELSE i + 1  BY <3>1, AfterIs
    <3> QED  BY <3>1, <3>2
  <2>3. /\ Turn(box[1], box[2], q) = (b - a) * (y - c * w)
        /\ Turn(box[2], box[3], q) = (d - c) * (b * w - x)
        /\ Turn(box[3], box[4], q) = (b - a) * (d * w - y)
        /\ Turn(box[4], box[1], q) = (d - c) * (x - a * w)
    <3>1. /\ Turn(box[1], box[2], q) = a * (c * w - 1 * y) - c * (b * w - 1 * x) + 1 * (b * y - c * x)
          /\ Turn(box[2], box[3], q) = b * (d * w - 1 * y) - c * (b * w - 1 * x) + 1 * (b * y - d * x)
          /\ Turn(box[3], box[4], q) = b * (d * w - 1 * y) - d * (a * w - 1 * x) + 1 * (a * y - d * x)
          /\ Turn(box[4], box[1], q) = a * (c * w - 1 * y) - d * (a * w - 1 * x) + 1 * (a * y - c * x)
      BY <1>6 DEF Turn
    <3>2. x \in Int /\ y \in Int /\ w \in Int  BY <2>1
    <3> HIDE DEF x, y, w
    <3>3. /\ a * (c * w - 1 * y) - c * (b * w - 1 * x) + 1 * (b * y - c * x) = (b - a) * (y - c * w)
          /\ b * (d * w - 1 * y) - c * (b * w - 1 * x) + 1 * (b * y - d * x) = (d - c) * (b * w - x)
          /\ b * (d * w - 1 * y) - d * (a * w - 1 * x) + 1 * (a * y - d * x) = (b - a) * (d * w - y)
          /\ a * (c * w - 1 * y) - d * (a * w - 1 * x) + 1 * (a * y - c * x) = (d - c) * (x - a * w)
      BY <1>1, <3>2
    <3> QED  BY <3>1, <3>3, Zenon
  <2>4. /\ Turn(box[1], box[2], q) >= 0 /\ Turn(box[2], box[3], q) >= 0
        /\ Turn(box[3], box[4], q) >= 0 /\ Turn(box[4], box[1], q) >= 0
    <3>1. /\ b - a >= 0 /\ d - c >= 0 /\ y - c * w >= 0 /\ b * w - x >= 0 /\ d * w - y >= 0 /\ x - a * w >= 0
          /\ b - a \in Int /\ d - c \in Int /\ y - c * w \in Int /\ b * w - x \in Int
          /\ d * w - y \in Int /\ x - a * w \in Int
      BY <1>1, <2>1
    <3>2. \A m, n \in Int : m >= 0 /\ n >= 0 => m * n >= 0  OBVIOUS
    <3> HIDE DEF x, y, w
    <3>3. /\ (b - a) * (y - c * w) >= 0 /\ (d - c) * (b * w - x) >= 0
          /\ (b - a) * (d * w - y) >= 0 /\ (d - c) * (x - a * w) >= 0
      BY <3>1, <3>2, Zenon
    <3> QED  BY <2>3, <3>3, Zenon
  <2>5. /\ Value(Across(q, 1), box[1]) <= 0 /\ Value(Across(q, 1), box[2]) >= 0
        /\ Value(Across(q, 2), box[2]) <= 0 /\ Value(Across(q, 2), box[3]) >= 0
    <3>1. box[1] \in Places /\ box[2] \in Places /\ box[3] \in Places  BY <1>1, <1>6 DEF Places
    <3>2. /\ Value(Across(q, 1), box[1]) = w * a - 1 * x /\ Value(Across(q, 1), box[2]) = w * b - 1 * x
          /\ Value(Across(q, 2), box[2]) = w * c - 1 * y /\ Value(Across(q, 2), box[3]) = w * d - 1 * y
      BY <1>6, <2>1, <3>1, AcrossIs
    <3>3. w * a - 1 * x <= 0 /\ w * b - 1 * x >= 0 /\ w * c - 1 * y <= 0 /\ w * d - 1 * y >= 0
      BY <1>1, <2>1
    <3> QED  BY <3>2, <3>3, Zenon
  <2>6. \A i \in DOMAIN box : Turn(box[i], box[After(i, box)], q) >= 0
    BY <1>6, <2>2, <2>4
  <2>7. \A axis \in {1, 2} : \E i, j \in DOMAIN box :
           Value(Across(q, axis), box[i]) >= 0 /\ Value(Across(q, axis), box[j]) <= 0
    BY <1>6, <2>5
  <2> QED  BY <2>6, <2>7 DEF Enclosed
<1>9. Encloses(box, BoxLines)  BY <1>6, <1>7, <1>8 DEF Encloses
<1> QED  BY <1>2, <1>4, <1>9

\* The sides of the corridor and the bisectors of a site and each of the others.
CellLines(s, others) == BoxLines \cup {Bisector(s, o) : o \in others}

\* A cell is the region of its lines.
LEMMA CellEncloses ==
    ASSUME NEW sites, Sites(sites), NEW s \in sites,
           Corridor[1] <= Corridor[2], Corridor[3] <= Corridor[4]
    PROVE  Encloses(Cell(s, sites), CellLines(s, sites \ {s}))
<1> DEFINE others == sites \ {s}
           base == Corners(Corridor)
           Good == [r \in SUBSET others |-> {polygon \in Seq(Places) : Encloses(polygon, CellLines(s, r))}]
           whole == FoldSet(LAMBDA o, polygon : Clip(polygon, s, o), base, others)
<1>1. others \in SUBSET Lattice /\ IsFiniteSet(others) /\ s \in Lattice
  BY FS_Subset DEF Sites
<1>2. base \in Good[{}]
  <2>1. CellLines(s, {}) = BoxLines  BY DEF CellLines
  <2>2. Encloses(base, CellLines(s, {}))  BY <2>1, BoxEncloses
  <2> QED  BY <2>2 DEF Encloses
<1>3. ASSUME NEW r \in SUBSET others, NEW o \in r, NEW polygon \in Good[r \ {o}]
      PROVE  Clip(polygon, s, o) \in Good[r]
  <2>1. Encloses(polygon, CellLines(s, r \ {o}))  OBVIOUS
  <2>2. o \in Lattice  BY <1>1
  <2>3. CellLines(s, r \ {o}) \in SUBSET Lines
    <3>1. BoxLines \subseteq Lines  BY BoxEncloses
    <3>2. \A x \in others : Bisector(s, x) \in Lines  BY <1>1, BisectorIs
    <3> QED  BY <3>1, <3>2 DEF CellLines
  <2>4. CellLines(s, r \ {o}) \cup {Bisector(s, o)} = CellLines(s, r)
    BY Zenon DEF CellLines
  <2>5. Encloses(Clip(polygon, s, o), CellLines(s, r \ {o}) \cup {Bisector(s, o)})
    BY <1>1, <2>1, <2>2, <2>3, ClipKeeps
  <2>6. Encloses(Clip(polygon, s, o), CellLines(s, r))  BY <2>4, <2>5
  <2>7. Clip(polygon, s, o) \in Seq(Places)  BY <2>6 DEF Encloses
  <2> QED  BY <2>6, <2>7
<1>4. whole \in Good[others]
  <2> HIDE DEF Good, others, base
  <2> QED  BY <1>1, <1>2, <1>3, FoldKeeps
<1>5. Encloses(whole, CellLines(s, others))  BY <1>4
<1>6. whole \in Seq(Places) /\ (whole = <<>> \/ Len(whole) >= 3)
  <2> HIDE DEF whole
  <2> QED  BY <1>5 DEF Encloses
<1>7. Cell(s, sites) = IF Len(whole) < 3 THEN <<>> ELSE whole  BY Zenon DEF Cell
<1> HIDE DEF whole
<1>8. Cell(s, sites) = whole
  <2>1. Len(whole) \in Nat  BY <1>6
  <2> QED  BY <1>6, <1>7, <2>1
<1> QED  BY <1>5, <1>8

\* The points within a polygon that encloses a region are those of the region.
LEMMA WithinIsRegion ==
    ASSUME NEW lines \in SUBSET Lines, NEW polygon, Encloses(polygon, lines), NEW q \in Places
    PROVE  Enclosed(q, polygon) <=> q \in Region(lines)
<1> SUFFICES ASSUME Enclosed(q, polygon), NEW h \in lines, ~(Value(h, q) <= 0) PROVE FALSE
  BY DEF Encloses, Region
<1>1. h \in Lines /\ Value(h, q) \in Int  BY ValueType
<1>2. PICK f \in Lines : \A p \in Places : Value(f, p) = -Value(h, p)
  BY <1>1, OtherSide
<1>3. Value(f, q) < 0 /\ Value(f, q) <= 0  BY <1>1, <1>2
<1>4. polygon \in Seq(Places)  BY DEF Encloses
<1>5. PICK i \in DOMAIN polygon : Value(f, polygon[i]) < 0
  BY <1>2, <1>3, <1>4, SomeCornerInside
<1>6. polygon[i] \in Places /\ Value(h, polygon[i]) <= 0  BY <1>4 DEF Encloses, Region
<1>7. Value(f, polygon[i]) = -Value(h, polygon[i]) /\ Value(h, polygon[i]) \in Int
  BY <1>1, <1>2, <1>6, ValueType
<1> QED  BY <1>5, <1>6, <1>7

\* One corner and the side that follows it, as InCell looks at them.
LEMMA CornerSeen ==
    ASSUME NEW p \in Lattice, NEW v \in Places, NEW w \in Places
    PROVE  /\ Cross(From(v, p), Direction(v, w)) <= 0 <=> Turn(v, w, p) >= 0
           /\ \A axis \in {1, 2} :
                 /\ From(v, p)[axis] <= 0 <=> Value(Across(p, axis), v) >= 0
                 /\ From(v, p)[axis] >= 0 <=> Value(Across(p, axis), v) <= 0
<1>0. /\ p[1] \in Int /\ p[2] \in Int /\ p[3] = 1 /\ p \in Places
      /\ v[1] \in Int /\ v[2] \in Int /\ v[3] \in Nat \ {0}
      /\ w[1] \in Int /\ w[2] \in Int /\ w[3] \in Nat \ {0}
  BY DEF Lattice, Places
<1> DEFINE ax == p[1] * v[3] - v[1]
           ay == p[2] * v[3] - v[2]
           t == Turn(v, w, p)
<1>1. From(v, p) = <<ax, ay>>  BY DEF From
<1>2. PICK s \in Nat \ {0}, dx \in Int, dy \in Int :
         /\ Direction(v, w) = <<dx, dy>>
         /\ w[1] * v[3] - v[1] * w[3] = s * dx
         /\ w[2] * v[3] - v[2] * w[3] = s * dy
  BY DirectionIsOffset
<1> DEFINE c == ax * dy - ay * dx
<1>3. Cross(From(v, p), Direction(v, w)) = c  BY <1>1, <1>2 DEF Cross
<1>4. ax \in Int /\ ay \in Int /\ t \in Int  BY <1>0, TurnType
<1>5. s * c = -(v[3] * t)
  <2>1. s * c = ax * (s * dy) - ay * (s * dx)
    <3> HIDE DEF ax, ay
    <3> QED  BY <1>2, <1>4
  <2>2. s * c = ax * (w[2] * v[3] - v[2] * w[3]) - ay * (w[1] * v[3] - v[1] * w[3])
    BY <1>2, <2>1, Zenon
  <2>3. ax * (w[2] * v[3] - v[2] * w[3]) - ay * (w[1] * v[3] - v[1] * w[3]) = -(v[3] * t)
    <3> DEFINE v1 == v[1]
               v2 == v[2]
               v3 == v[3]
               w1 == w[1]
               w2 == w[2]
               w3 == w[3]
               x == p[1]
               y == p[2]
    <3>1. t = v1 * (w2 * 1 - w3 * y) - v2 * (w1 * 1 - w3 * x) + v3 * (w1 * y - w2 * x)
      BY <1>0 DEF Turn
    <3>2. v1 \in Int /\ v2 \in Int /\ v3 \in Int /\ w1 \in Int /\ w2 \in Int /\ w3 \in Int
          /\ x \in Int /\ y \in Int
      BY <1>0
    <3>3. (x * v3 - v1) * (w2 * v3 - v2 * w3) - (y * v3 - v2) * (w1 * v3 - v1 * w3)
          = -(v3 * (v1 * (w2 * 1 - w3 * y) - v2 * (w1 * 1 - w3 * x) + v3 * (w1 * y - w2 * x)))
      <4> HIDE DEF v1, v2, v3, w1, w2, w3, x, y
      <4> QED  BY <3>2
    <3> HIDE DEF t
    <3> QED  BY <3>1, <3>3
  <2> QED  BY <2>2, <2>3
<1>6. c <= 0 <=> t >= 0
  <2>1. c \in Int
    <3> HIDE DEF ax, ay
    <3> QED  BY <1>2, <1>4
  <2> DEFINE k == v[3]
  <2>2. k \in Nat \ {0} /\ s * c = -(k * t)  BY <1>0, <1>5
  <2> HIDE DEF c, t, k
  <2>3. /\ s * c <= 0 <=> c <= 0
        /\ k * t >= 0 <=> t >= 0
        /\ s * c \in Int /\ k * t \in Int
    BY <1>4, <2>1, <2>2, SignScales
  <2> QED  BY <2>2, <2>3
<1>7. /\ Value(Across(p, 1), v) = -ax
      /\ Value(Across(p, 2), v) = -ay
  <2>1. /\ Value(Across(p, 1), v) = p[3] * v[1] - v[3] * p[1]
        /\ Value(Across(p, 2), v) = p[3] * v[2] - v[3] * p[2]
    BY <1>0, AcrossIs
  <2>2. /\ Value(Across(p, 1), v) = 1 * v[1] - v[3] * p[1]
        /\ Value(Across(p, 2), v) = 1 * v[2] - v[3] * p[2]
    BY <1>0, <2>1
  <2>3. 1 * v[1] - v[3] * p[1] = -ax /\ 1 * v[2] - v[3] * p[2] = -ay  BY <1>0
  <2> QED  BY <2>2, <2>3, Zenon
<1>8. ASSUME NEW axis \in {1, 2}
      PROVE  /\ From(v, p)[axis] <= 0 <=> Value(Across(p, axis), v) >= 0
             /\ From(v, p)[axis] >= 0 <=> Value(Across(p, axis), v) <= 0
  <2> HIDE DEF ax, ay
  <2>1. CASE axis = 1
    <3>1. From(v, p)[axis] = ax /\ Value(Across(p, axis), v) = -ax  BY <1>1, <1>7, <2>1
    <3> QED  BY <1>4, <3>1
  <2>2. CASE axis = 2
    <3>1. From(v, p)[axis] = ay /\ Value(Across(p, axis), v) = -ay  BY <1>1, <1>7, <2>2
    <3> QED  BY <1>4, <3>1
  <2> QED  BY <2>1, <2>2
<1> QED  BY <1>3, <1>6, <1>8

\* InCell is to be within.
LEMMA InCellIs ==
    ASSUME NEW p \in Lattice, NEW cell \in Seq(Places)
    PROVE  InCell(p, cell) <=> Enclosed(p, cell)
<1> DEFINE Corner(i) == From(cell[i], p)
<1>1. \A i \in DOMAIN cell :
         /\ Cross(Corner(i), Direction(cell[i], cell[(i % Len(cell)) + 1])) <= 0
            <=> Turn(cell[i], cell[After(i, cell)], p) >= 0
         /\ \A axis \in {1, 2} :
               /\ Corner(i)[axis] <= 0 <=> Value(Across(p, axis), cell[i]) >= 0
               /\ Corner(i)[axis] >= 0 <=> Value(Across(p, axis), cell[i]) <= 0
  <2> TAKE i \in DOMAIN cell
  <2>1. After(i, cell) = (i % Len(cell)) + 1  BY DEF After
  <2>2. After(i, cell) \in DOMAIN cell  BY AfterIs
  <2>3. cell[i] \in Places /\ cell[After(i, cell)] \in Places  BY <2>2
  <2>4. /\ Cross(Corner(i), Direction(cell[i], cell[After(i, cell)])) <= 0
           <=> Turn(cell[i], cell[After(i, cell)], p) >= 0
        /\ \A axis \in {1, 2} :
               /\ Corner(i)[axis] <= 0 <=> Value(Across(p, axis), cell[i]) >= 0
               /\ Corner(i)[axis] >= 0 <=> Value(Across(p, axis), cell[i]) <= 0
    BY <2>3, CornerSeen
  <2> QED  BY <2>1, <2>4, Zenon
<1>2. InCell(p, cell) <=>
        /\ \A i \in DOMAIN cell :
               Cross(Corner(i), Direction(cell[i], cell[(i % Len(cell)) + 1])) <= 0
        /\ \A axis \in {1, 2} : \E i, j \in DOMAIN cell : Corner(i)[axis] <= 0 /\ Corner(j)[axis] >= 0
  BY Zenon DEF InCell
<1> HIDE DEF Corner
<1>3. (\A i \in DOMAIN cell :
               Cross(Corner(i), Direction(cell[i], cell[(i % Len(cell)) + 1])) <= 0)
      <=> (\A i \in DOMAIN cell : Turn(cell[i], cell[After(i, cell)], p) >= 0)
  BY <1>1, Zenon
<1>4. (\A axis \in {1, 2} : \E i, j \in DOMAIN cell : Corner(i)[axis] <= 0 /\ Corner(j)[axis] >= 0)
      <=> (\A axis \in {1, 2} : \E i, j \in DOMAIN cell :
               Value(Across(p, axis), cell[i]) >= 0 /\ Value(Across(p, axis), cell[j]) <= 0)
  <2>1. ASSUME NEW axis \in {1, 2}
        PROVE  (\E i, j \in DOMAIN cell : Corner(i)[axis] <= 0 /\ Corner(j)[axis] >= 0)
               <=> (\E i, j \in DOMAIN cell :
                       Value(Across(p, axis), cell[i]) >= 0 /\ Value(Across(p, axis), cell[j]) <= 0)
    BY <1>1, Zenon
  <2> QED  BY <2>1, Zenon
<1> QED  BY <1>2, <1>3, <1>4, Zenon DEF Enclosed

\* Which of two sites is nearer is which side of their bisector one is on.
LEMMA NearerIsBeyond ==
    ASSUME NEW p \in Lattice, NEW s \in Lattice, NEW o \in Lattice
    PROVE  /\ Nearer(p, o, s) <=> Beyond(s, o, p) > 0
           /\ ~Nearer(p, s, s)
<1> DEFINE x == p[1]
           y == p[2]
           a == s[1]
           b == s[2]
           c == o[1]
           d == o[2]
<1>1. /\ x \in Int /\ y \in Int /\ a \in Int /\ b \in Int /\ c \in Int /\ d \in Int
      /\ p[3] = 1 /\ s[3] = 1 /\ o[3] = 1
  BY DEF Lattice
<1>2. From(s, p) = <<x * 1 - a, y * 1 - b>> /\ From(o, p) = <<x * 1 - c, y * 1 - d>>
  BY <1>1 DEF From
<1>3. /\ Norm2(From(s, p)) = (x * 1 - a) * (x * 1 - a) + (y * 1 - b) * (y * 1 - b)
      /\ Norm2(From(o, p)) = (x * 1 - c) * (x * 1 - c) + (y * 1 - d) * (y * 1 - d)
  BY <1>2 DEF Norm2, Dot
<1> DEFINE n == Norm2(From(s, p))
           m == Norm2(From(o, p))
<1>4. Beyond(s, o, p) = 2 * (c - a) * x + 2 * (d - b) * y - (c * c + d * d - a * a - b * b) * 1
  BY <1>1 DEF Beyond
<1>5. Nearer(p, o, s) <=> m * 1 * 1 < n * 1 * 1
  BY <1>1 DEF Nearer
<1>6. Nearer(p, s, s) <=> n * 1 * 1 < n * 1 * 1
  BY <1>1 DEF Nearer
<1>7. n \in Int /\ m \in Int /\ Beyond(s, o, p) = n - m
  <2> HIDE DEF x, y, a, b, c, d
  <2>1. /\ 2 * (c - a) * x + 2 * (d - b) * y - (c * c + d * d - a * a - b * b) * 1
        = ((x * 1 - a) * (x * 1 - a) + (y * 1 - b) * (y * 1 - b))
          - ((x * 1 - c) * (x * 1 - c) + (y * 1 - d) * (y * 1 - d))
    <3>1. \A u, v, w \in Int : (u * 1 - v) * (u * 1 - v) - (u * 1 - w) * (u * 1 - w)
                               = 2 * (w - v) * u - (w * w - v * v)
      OBVIOUS
    <3>2. (x * 1 - a) * (x * 1 - a) - (x * 1 - c) * (x * 1 - c) = 2 * (c - a) * x - (c * c - a * a)
      BY <1>1, <3>1
    <3>3. (y * 1 - b) * (y * 1 - b) - (y * 1 - d) * (y * 1 - d) = 2 * (d - b) * y - (d * d - b * b)
      BY <1>1, <3>1, Zenon
    <3> DEFINE k == (x * 1 - a) * (x * 1 - a)
               l == (x * 1 - c) * (x * 1 - c)
               m2 == (y * 1 - b) * (y * 1 - b)
               n2 == (y * 1 - d) * (y * 1 - d)
               u == 2 * (c - a) * x
               v == 2 * (d - b) * y
               aa == a * a
               bb == b * b
               cc == c * c
               dd == d * d
    <3>4. /\ k \in Int /\ l \in Int /\ m2 \in Int /\ n2 \in Int /\ u \in Int /\ v \in Int
          /\ aa \in Int /\ bb \in Int /\ cc \in Int /\ dd \in Int
          /\ k - l = u - (cc - aa) /\ m2 - n2 = v - (dd - bb)
      BY <1>1, <3>2, <3>3
    <3> HIDE DEF k, l, m2, n2, u, v, aa, bb, cc, dd
    <3>5. u + v - (cc + dd - aa - bb) * 1 = (k + m2) - (l + n2)  BY <3>4
    <3> QED  BY <3>5 DEF k, l, m2, n2, u, v, aa, bb, cc, dd
  <2>2. n \in Int /\ m \in Int  BY <1>1, <1>3
  <2>3. Beyond(s, o, p) = n - m  BY <1>3, <1>4, <2>1, Zenon
  <2> QED  BY <2>2, <2>3
<1> HIDE DEF n, m
<1> QED  BY <1>5, <1>6, <1>7

\* A point of the corridor is in the region of a cell's lines when no other site is
\* nearer to it.
LEMMA RegionIsNearest ==
    ASSUME NEW sites, Sites(sites), NEW s \in sites,
           NEW x \in Corridor[1] .. Corridor[2], NEW y \in Corridor[3] .. Corridor[4]
    PROVE  At(x, y) \in Region(CellLines(s, sites \ {s})) <=> ~\E o \in sites : Nearer(At(x, y), o, s)
<1> DEFINE p == At(x, y)
           others == sites \ {s}
<1>1. p \in Lattice /\ p \in Places /\ p[1] = x /\ p[2] = y /\ p[3] = 1 /\ x \in Int /\ y \in Int
      /\ Corridor[1] \in Int /\ Corridor[2] \in Int /\ Corridor[3] \in Int /\ Corridor[4] \in Int
      /\ Corridor[1] <= x /\ x <= Corridor[2] /\ Corridor[3] <= y /\ y <= Corridor[4]
  BY FieldIsThere DEF At, Lattice, Places
<1> HIDE DEF p
<1>2. \A o \in sites : o \in Lattice  BY DEF Sites
<1>3. ASSUME NEW h \in BoxLines PROVE Value(h, p) <= 0
  <2>1. CASE h = <<1, 0, -Corridor[2]>>
    <3>1. Value(h, p) = 1 * x + 0 * y + (-Corridor[2]) * 1  BY <1>1, <2>1 DEF Value
    <3> QED  BY <1>1, <3>1
  <2>2. CASE h = <<-1, 0, Corridor[1]>>
    <3>1. Value(h, p) = (-1) * x + 0 * y + Corridor[1] * 1  BY <1>1, <2>2 DEF Value
    <3> QED  BY <1>1, <3>1
  <2>3. CASE h = <<0, 1, -Corridor[4]>>
    <3>1. Value(h, p) = 0 * x + 1 * y + (-Corridor[4]) * 1  BY <1>1, <2>3 DEF Value
    <3> QED  BY <1>1, <3>1
  <2>4. CASE h = <<0, -1, Corridor[3]>>
    <3>1. Value(h, p) = 0 * x + (-1) * y + Corridor[3] * 1  BY <1>1, <2>4 DEF Value
    <3> QED  BY <1>1, <3>1
  <2> QED  BY <2>1, <2>2, <2>3, <2>4 DEF BoxLines
<1>4. p \in Region(CellLines(s, others)) <=> \A o \in others : Value(Bisector(s, o), p) <= 0
  BY <1>1, <1>3, Zenon DEF Region, CellLines
<1>5. ASSUME NEW o \in sites
      PROVE  /\ Value(Bisector(s, o), p) <= 0 <=> ~Nearer(p, o, s)
             /\ ~Nearer(p, s, s)
  <2>1. s \in Lattice /\ o \in Lattice  BY <1>2
  <2>2. Value(Bisector(s, o), p) = Beyond(s, o, p)  BY <1>1, <2>1, BisectorIs
  <2>3. Beyond(s, o, p) \in Int  BY <1>1, <2>1, BeyondType
  <2>4. (Nearer(p, o, s) <=> Beyond(s, o, p) > 0) /\ ~Nearer(p, s, s)
    BY <1>1, <2>1, NearerIsBeyond
  <2> QED  BY <2>2, <2>3, <2>4
<1> QED  BY <1>4, <1>5 DEF p

\* The cell of a site holds the points of the corridor that no other site is nearer to.
LEMMA CellIsNearest ==
    ASSUME NEW sites, Sites(sites), NEW s \in sites,
           NEW x \in Corridor[1] .. Corridor[2], NEW y \in Corridor[3] .. Corridor[4]
    PROVE  InCell(At(x, y), Cell(s, sites)) <=> ~\E o \in sites : Nearer(At(x, y), o, s)
<1>1. At(x, y) \in Lattice /\ At(x, y) \in Places
      /\ Corridor[1] <= Corridor[2] /\ Corridor[3] <= Corridor[4]
  BY FieldIsThere DEF At, Lattice, Places
<1>2. Encloses(Cell(s, sites), CellLines(s, sites \ {s}))
  BY <1>1, CellEncloses
<1>3. CellLines(s, sites \ {s}) \in SUBSET Lines
  <2>1. BoxLines \subseteq Lines  BY <1>1, BoxEncloses
  <2>2. \A o \in sites : Bisector(s, o) \in Lines  BY BisectorIs DEF Sites
  <2> QED  BY <2>1, <2>2 DEF CellLines
<1>4. Cell(s, sites) \in Seq(Places)  BY <1>2 DEF Encloses
<1>5. InCell(At(x, y), Cell(s, sites)) <=> Enclosed(At(x, y), Cell(s, sites))
  BY <1>1, <1>4, InCellIs
<1>6. Enclosed(At(x, y), Cell(s, sites)) <=> At(x, y) \in Region(CellLines(s, sites \ {s}))
  BY <1>1, <1>2, <1>3, WithinIsRegion
<1>7. At(x, y) \in Region(CellLines(s, sites \ {s})) <=> ~\E o \in sites : Nearer(At(x, y), o, s)
  BY RegionIsNearest
<1> QED  BY <1>5, <1>6, <1>7

\* The sites of the map are finitely many points of the lattice.
LEMMA SitesOfRequest ==
    ASSUME RequestOK, planner = "voronoi"
    PROVE  Sites(virtual \cup obstacles)
<1>1. Sites(virtual) /\ Sites(obstacles)  BY Typed DEF RequestOK
<1> QED  BY <1>1, FS_Union DEF Sites

\* The sites of a request have their cells.
LEMMA CellsOfRequest == RequestOK => CellsAreNearest
<1> DEFINE map == Generated(virtual, obstacles)
           points == {At(x, y) : x \in Corridor[1] .. Corridor[2], y \in Corridor[3] .. Corridor[4]}
           sites == virtual \cup obstacles
<1> SUFFICES ASSUME RequestOK, planner = "voronoi", NEW s \in map.sites, NEW p \in points
             PROVE  InCell(p, map.cells[s]) <=> ~\E o \in map.sites : Nearer(p, o, s)
  BY DEF CellsAreNearest
<1>1. Sites(sites)  BY SitesOfRequest
<1>2. map.sites = sites /\ map.cells = [t \in sites |-> Cell(t, sites)]
  BY DEF Generated
<1>3. PICK x \in Corridor[1] .. Corridor[2], y \in Corridor[3] .. Corridor[4] : p = At(x, y)
  OBVIOUS
<1> HIDE DEF map, sites
<1>4. s \in sites /\ map.cells[s] = Cell(s, sites)  BY <1>2
<1>5. InCell(At(x, y), Cell(s, sites)) <=> ~\E o \in sites : Nearer(At(x, y), o, s)
  BY <1>1, <1>4, CellIsNearest
<1> QED  BY <1>2, <1>3, <1>4, <1>5

--------------------------------------------------------------------------------
(* The planning call. *)

\* The inductive invariant: a request that plan() takes, and segments that pass.
SearchInv == RequestOK /\ RouteKeepsClear

\* An answer of clear segments keeps the invariant.
LEMMA EndsKeeps ==
    ASSUME RequestOK, NEW s, NEW l, EndsAs(s, l), \A e \in l : Clear(e)
    PROVE  SearchInv'
<1>1. UNCHANGED request /\ legs' = l  BY DEF EndsAs
<1>2. RequestOK'  BY <1>1 DEF RequestOK, request
<1>3. \A e \in l : Clear(e)'
  BY <1>1 DEF Clear, IsPathFree, Visible, request
<1>4. \A e \in legs' : Clear(e)'
  BY <1>1, <1>3
<1>5. RouteKeepsClear'
  BY <1>4 DEF RouteKeepsClear, Clear
<1> QED  BY <1>2, <1>5 DEF SearchInv

\* So does the search, whose route is within its graph's component.
LEMMA AnswerKeeps ==
    ASSUME RequestOK, NEW edges, NEW otherwise, \A e \in edges : Clear(e), Answer(edges, otherwise)
    PROVE  SearchInv'
<1> DEFINE component == Reached({Start}, edges)
<1>1. \/ EndsAs("found", {e \in edges : e \subseteq component})
      \/ EndsAs(otherwise, {})
  BY DEF Answer
<1> HIDE DEF component
<1> QED  BY <1>1, EndsKeeps

\* Every step of a planning call keeps the invariant.
LEMMA StepsKeepClear == SearchInv /\ [SearchNext]_searchVars => SearchInv'
<1> SUFFICES ASSUME SearchInv, [SearchNext]_searchVars PROVE SearchInv'
  OBVIOUS
<1>0. RequestOK  BY DEF SearchInv
<1>1. CASE Escape  BY <1>0, <1>1, EndsKeeps DEF Escape
<1>2. CASE Refuse  BY <1>0, <1>2, EndsKeeps DEF Refuse
<1>3. CASE GoDirect
  <2>1. DirectIsFree /\ EndsAs("direct", {{Start, Target}})  BY <1>3 DEF GoDirect
  <2> QED  BY <1>0, <2>1, DirectIsClear, EndsKeeps
<1>4. CASE Attempt
  <2>1. PICK samples \in SUBSET Pool :
           Answer(Roadmap(samples), IF attempt' = MAX_RESAMPLE_ATTEMPTS THEN "failed" ELSE "open")
    BY <1>4 DEF Attempt
  <2>2. planner = "prm"  BY <1>4 DEF Attempt
  <2> QED  BY <1>0, <2>1, <2>2, RoadmapIsClear, AnswerKeeps
<1>5. CASE SearchVisibility
  BY <1>0, <1>5, VisibilityIsClear, AnswerKeeps DEF SearchVisibility
<1>6. CASE SearchVoronoi
  <2>1. planner = "voronoi"  BY <1>6 DEF SearchVoronoi
  <2>2. \/ Answer(Spliced(Generated(virtual, obstacles).edges), "failed")
        \/ EndsAs("failed", {})
    BY <1>6 DEF SearchVoronoi
  <2> QED  BY <1>0, <2>1, <2>2, SplicedIsClear, AnswerKeeps, EndsKeeps
<1>7. CASE UNCHANGED searchVars
  BY <1>7 DEF searchVars, SearchInv, RequestOK, RouteKeepsClear, IsPathFree, Visible
<1> QED  BY <1>1, <1>2, <1>3, <1>4, <1>5, <1>6, <1>7 DEF SearchNext

\* It holds of a call that begins.
LEMMA SearchStarts == SearchInit => SearchInv
<1> SUFFICES ASSUME SearchInit PROVE SearchInv
  OBVIOUS
<1>1. legs = {} /\ planner \in Planners /\ trip \in Trips /\ obstacles \subseteq Spots
  BY DEF SearchInit
<1>2. ASSUME planner = "voronoi" PROVE Sites(virtual)
  <2>1. virtual \in UNION {VirtualSites(p) : p \in Placements}  BY <1>2 DEF SearchInit
  <2>2. PICK p \in Placements : virtual \in VirtualSites(p)  BY <2>1
  <2> QED  BY <2>2, VirtualSitesAre
<1> QED  BY <1>1, <1>2 DEF SearchInv, RequestOK, RouteKeepsClear

\* Every segment a route may use passes the check the reroute gate makes of it on
\* the same scene (plan and is_path_free): for every field, obstacle, trip, placement
\* and sample, in exact arithmetic, and read from either end.
THEOREM RoutesKeepClear == SearchSpec => []RouteKeepsClear
<1>1. SearchInv => RouteKeepsClear  BY DEF SearchInv
<1> QED  BY <1>1, SearchStarts, StepsKeepClear, PTL DEF SearchSpec

\* The cells of the map are the Voronoi cells of its sites: a point of the corridor is
\* in the cell of exactly the sites that no other site is nearer to (_build_cells), for
\* every field, placement and scene.
THEOREM CellsAreVoronoi == SearchSpec => []CellsAreNearest
<1>1. SearchInv => CellsAreNearest  BY CellsOfRequest DEF SearchInv
<1> QED  BY <1>1, SearchStarts, StepsKeepClear, PTL DEF SearchSpec
================================================================================
