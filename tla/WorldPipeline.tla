----------------------------- MODULE WorldPipeline -----------------------------
(* From camera packets to the planning scene inside the console:                *)
(* ResearchRuntime.ingest_vision_packet (ui/runtime.py) drives                  *)
(* VisionWorldPipeline.ingest (world/pipeline.py), which assembles a frame,     *)
(* publishes a snapshot, updates the WorldMap (world/map/world_map.py) with its *)
(* ball tracker, and rebuilds the planning scene at most once per interval.     *)
(*                                                                              *)
(* Times count publishing cycles back from the present: 0 is now, and a new     *)
(* cycle makes everything one older. Ages saturate at OLD, so that behaviours   *)
(* have no end. Positions of the ball are on a line, in units of the tracker's  *)
(* base tolerance (150 mm), and a cycle is the time in which its tolerance      *)
(* grows by one unit (at 7 m/s: 21 ms). The frame and version numbers, which    *)
(* the pipeline only passes on, and the robots' velocities are left out.        *)
EXTENDS FrameAssembly, Sequences, SequencesExt

CONSTANTS
    Robots,
    Sight,         \* [camera -> [robot -> confidence]], 0 where it is not seen
    FIELD_HALF,    \* the ball is in the field up to this distance
    OLD,           \* the age at which ages saturate
    SCENE_INTERVAL,  \* scene_recompute_interval_s, in cycles
    FEEDS            \* [cams, expected, lost, balls, toggles]

Cameras == DOMAIN Sight

ASSUME PipelineBounds ==
    /\ FIELD_HALF \in Nat \ {0} /\ SCENE_INTERVAL \in Nat \ {0}
    \* no track that is fast enough to be lost is within tolerance at this age
    /\ OLD \in Nat /\ OLD > SCENE_INTERVAL /\ OLD > 3 * (1 + 2 * FIELD_HALF)
    /\ Sight \in [Cameras -> [Robots -> Nat]]
    /\ \A c, e \in Cameras, r \in Robots :
            c # e /\ Sight[c][r] > 0 => Sight[c][r] # Sight[e][r]
    \* balls are only shown where a packet is a frame
    /\ \A s \in FEEDS : s.balls = {<<>>} \/ s.expected = 1

VARIABLES
    feed,      \* the publishing cameras, the losses allowed, the balls shown
    upcoming,  \* the cameras that have not published in this cycle
    shown,     \* the ball candidates of this cycle
    partial,   \* assembler.frame
    current,   \* store.current: when it came, and the robots it shows
    ball,      \* the WorldMap's ball track
    scene,     \* latest_scene: when it was built, from what, and for which mode
    rebuilt,   \* _last_scene_recompute_at and _last_scene_predict_motion
    predict    \* predict_motion

environment == <<feed, upcoming, shown>>
pipelineVars == <<environment, partial, current, ball, scene, rebuilt, predict>>

Times == -OLD..0
Nothing == [at |-> -OLD, robots |-> {}, mode |-> FALSE, none |-> TRUE]
NoTrack == [tracked |-> FALSE, x |-> 0, at |-> -OLD, moved |-> 0, during |-> 1,
            visible |-> FALSE, reason |-> "none"]

\* Type invariant of the pipeline and of the packets on their way.
PipelineTypeOK ==
    /\ partial = NoFrame \/ /\ DOMAIN partial.parts \subseteq Cameras
                            /\ Cardinality(DOMAIN partial.parts) < feed.expected
    /\ current.at \in Times /\ current.robots \subseteq Robots
    /\ ball.x \in -FIELD_HALF..FIELD_HALF /\ ball.at \in Times
    /\ ball.moved \in -2 * FIELD_HALF..2 * FIELD_HALF /\ ball.during \in 1..OLD
    /\ ball.visible => ball.tracked /\ ball.reason = "none"
    /\ scene.at \in Times /\ scene.robots \subseteq Robots
    /\ rebuilt.at \in Times

PipelineInit ==
    /\ feed \in FEEDS
    /\ upcoming = <<>> /\ shown = <<>>
    /\ partial = NoFrame
    /\ current = Nothing /\ scene = Nothing /\ rebuilt = Nothing
    /\ ball = NoTrack
    /\ predict = FALSE

--------------------------------------------------------------------------------
(* The ball tracker: WorldMap._update_ball_candidates.                          *)

Confident(b) == b.conf > 0                       \* BALL_MIN_CONFIDENCE
InField(b) == b.x \in -FIELD_HALF..FIELD_HALF

Distance(a, b) == IF a >= b THEN a - b ELSE b - a

\* How far b lies from where the track is predicted after dt, and the tolerance
\* then, both multiplied by the time over which the velocity was measured.
PredictionError(b, dt) ==
    Distance(b.x * ball.during, ball.x * ball.during + ball.moved * dt)

Tolerance(dt) == (1 + dt) * ball.during

\* max() over the candidates: the first of the most confident, and of these the
\* closest to the prediction when there is one.
Best(bs, dt) ==
    LET better(b, a) == \/ b.conf > a.conf
                        \/ /\ b.conf = a.conf /\ dt # 0
                           /\ PredictionError(b, dt) < PredictionError(a, dt)
    IN  FoldLeft(LAMBDA a, b : IF better(b, a) THEN b ELSE a, bs[1], bs)

\* A fault: a rejected ball counts as an observation of the track.
RejectedRenews(reason) == [ball EXCEPT !.visible = FALSE, !.reason = reason, !.at = 0]

Rejected(reason) == [ball EXCEPT !.visible = FALSE, !.reason = reason]

Accepted(b, at, dt) ==
    [tracked |-> TRUE, x |-> b.x, at |-> at, visible |-> TRUE, reason |-> "none",
     moved |-> IF dt = 0 THEN 0 ELSE b.x - ball.x,
     during |-> IF dt = 0 THEN 1 ELSE dt]

\* A frame captured at `at` shows the candidates bs. A track that this frame is
\* not newer than takes any ball in the field and starts again without velocity.
Tracked(bs, at) ==
    LET confident == SelectSeq(bs, Confident)
        inField == SelectSeq(confident, InField)
        dt == IF ball.tracked /\ ball.at < at THEN at - ball.at ELSE 0
        plausible == IF dt = 0 THEN inField
                     ELSE SelectSeq(inField,
                            LAMBDA b : PredictionError(b, dt) <= Tolerance(dt))
    IN  CASE bs = <<>> -> [ball EXCEPT !.visible = FALSE]
          [] bs # <<>> /\ confident = <<>> -> Rejected("low_confidence")
          [] confident # <<>> /\ inField = <<>> -> Rejected("out_of_bounds")
          [] inField # <<>> /\ plausible = <<>> -> Rejected("trajectory_error")
          [] plausible # <<>> -> Accepted(Best(plausible, dt), at, dt)

--------------------------------------------------------------------------------
(* The pipeline. *)

\* Team.merge: the robots some camera of the frame has seen, from which
\* world_snapshot_from_frame takes its two teams. (What a robot's pose is depends
\* on the more confident camera.) mode is that of the scene then asked for.
RobotsIn(f) == {r \in Robots : \E c \in DOMAIN f.parts : Sight[c][r] > 0}

SnapshotOf(f) == [at |-> 0, robots |-> RobotsIn(f), mode |-> predict, none |-> FALSE]

\* ingest_vision_packet: whether this packet, should it complete a frame, is to
\* rebuild the scene.
ComputeScene ==
    \/ rebuilt = Nothing
    \/ rebuilt.mode # predict
    \/ -rebuilt.at >= SCENE_INTERVAL

\* A fault: a packet that completes no frame uses up the interval.
IngestedAlways(f, compute) ==
    LET seen == [at |-> 0, robots |-> IF f = NoFrame THEN {} ELSE RobotsIn(f),
                 mode |-> predict, none |-> FALSE]
    IN  /\ rebuilt' = IF compute THEN [seen EXCEPT !.robots = {}] ELSE rebuilt
        /\ IF f = NoFrame THEN UNCHANGED <<current, ball, scene>>
           ELSE /\ current' = seen
                /\ ball' = Tracked(shown, Captured(f))
                /\ scene' = IF compute \/ scene = Nothing THEN seen ELSE scene

\* A packet that completes no frame leaves the snapshot, the map, the scene and
\* the time of the last rebuilding as they were.
Ingested(f, compute) ==
    IF f = NoFrame THEN UNCHANGED <<current, ball, scene, rebuilt>>
    ELSE LET seen == SnapshotOf(f)
         IN  /\ current' = seen
             /\ ball' = Tracked(shown, Captured(f))
             /\ scene' = IF compute \/ scene = Nothing THEN seen ELSE scene
             /\ rebuilt' = IF compute THEN [seen EXCEPT !.robots = {}] ELSE rebuilt

Ingest ==
    /\ upcoming # <<>>
    /\ upcoming' = Tail(upcoming)
    /\ LET d == [cam |-> Head(upcoming), num |-> 0, at |-> 0]
           pushed == Push(partial, d, feed.expected)
       IN  /\ partial' = pushed.held
           /\ Ingested(pushed.out, ComputeScene)
    /\ UNCHANGED <<feed, shown, predict>>

\* A camera's packet is lost on its way.
Lose ==
    /\ upcoming # <<>> /\ feed.lost > 0
    /\ upcoming' = Tail(upcoming)
    /\ feed' = [feed EXCEPT !.lost = @ - 1]
    /\ UNCHANGED <<shown, partial, current, ball, scene, rebuilt, predict>>

Older(t) == IF t = -OLD THEN t ELSE t - 1

\* The next publishing cycle, in which the cameras show other balls.
NextCycle ==
    /\ upcoming = <<>>
    /\ upcoming' = feed.cams
    /\ shown' \in feed.balls
    /\ partial' = IF partial = NoFrame THEN NoFrame
                  ELSE [partial EXCEPT !.parts = [c \in DOMAIN @ |-> Older(@[c])]]
    /\ current' = [current EXCEPT !.at = Older(@)]
    /\ ball' = [ball EXCEPT !.at = Older(@)]
    /\ scene' = [scene EXCEPT !.at = Older(@)]
    /\ rebuilt' = [rebuilt EXCEPT !.at = Older(@)]
    /\ UNCHANGED <<feed, predict>>

\* The user switches the prediction of motion.
TogglePrediction ==
    /\ feed.toggles > 0
    /\ feed' = [feed EXCEPT !.toggles = @ - 1]
    /\ predict' = ~predict
    /\ UNCHANGED <<upcoming, shown, partial, current, ball, scene, rebuilt>>

PipelineNext == Ingest \/ Lose \/ NextCycle \/ TogglePrediction

\* The cameras keep publishing and the console keeps reading.
PipelineSpec ==
    PipelineInit /\ [][PipelineNext]_pipelineVars /\ WF_pipelineVars(Ingest) /\ WF_pipelineVars(NextCycle)

--------------------------------------------------------------------------------
(* What the pipeline promises. *)

\* Rebuilding the scene is put off, never put aside: when a snapshot is published
\* the scene that planners and renderer read is less than an interval old, and it
\* was built for the mode the snapshot came in. Only the packet that completes a
\* frame may use up the interval.
SceneKeepsUp ==
    ~current.none => /\ ~scene.none
                     /\ current.at - scene.at < SCENE_INTERVAL
                     /\ scene.mode = current.mode

FastTrack == Distance(ball.moved, 0) >= ball.during

\* A ball that lies still in every frame is found again, unless the velocity of
\* the track is at least the rate at which the tolerance grows: then the
\* prediction, which no field and no rejection bounds, runs away from it.
StillBallIsFound ==
    \A x \in -FIELD_HALF..FIELD_HALF :
        <>[](shown = <<[x |-> x, conf |-> 1]>>) => []<>(ball.visible \/ FastTrack)
================================================================================
