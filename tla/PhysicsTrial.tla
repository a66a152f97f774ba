------------------------------ MODULE PhysicsTrial ------------------------------
(* One native physics trial (grsim_physics.py): a private grSim process that runs *)
(* on its own clock and publishes one detection per camera and tick, the socket   *)
(* between, the FrameAssembler, and simulate_physics, which checks and places the *)
(* scenario, follows the frames and decides whether the trial passed.             *)
(*                                                                                *)
(* The engine is external: in every tick it chooses a scene, any detection may be *)
(* lost or damaged on its way, and the process may exit. A scene says what the    *)
(* runner can tell of the poses: the robots rest on their targets, are on their   *)
(* way, touch each other or an obstacle, or one of them is not seen. The engine's *)
(* own history of scenes travels with each detection for the properties; the      *)
(* runner never looks at it.                                                      *)
EXTENDS Integers, Sequences, SequencesExt

CONSTANTS
    Requests,       \* the trials asked for: [dt, trial, seed, complete, objects]
    MAX_DT,         \* the longest physics step
    ROBOT_RADIUS, FIELD,    \* the robot model, and the field's half length
    Cams,           \* the cameras
    SETTLE,         \* ticks the robots must rest on their targets (0.25 s)
    PLACE_SETTLE,   \* ticks the placed robots must stand still (0.25 s)
    MAX_SIM,        \* ticks a trial may take (max_simulation_s)
    MAX_TICKS,      \* bound: ticks of the engine
    WIRE,           \* detections the receiver buffers
    FAULTS,         \* bound: detections lost or damaged
    NoObs           \* no observation yet

ASSUME TrialBounds ==
    /\ IsFiniteSet(Cams) /\ Cams # {}
    /\ SETTLE \in Nat \ {0} /\ PLACE_SETTLE \in Nat \ {0} /\ MAX_SIM \in Nat \ {0}
    /\ MAX_TICKS \in Nat /\ WIRE \in Nat /\ FAULTS \in Nat

VARIABLES
    engine,     \* the process: alive, its tick, the placement received, its scene,
                \* and its history: the last contact and since when robots rest at home
    wire,       \* detections in the receiver's buffer
    faults,     \* losses and damages so far
    asm,        \* FrameAssembler: frame, last_emitted, the cameras in parts, incomplete
    request,    \* the trial asked for
    failed,     \* the planner found no path for a robot
    phase,      \* where simulate_physics is
    previous,   \* the observation before the current one
    current,    \* the current observation
    settled,    \* settled_since, or 0
    first,      \* the frame of the first iteration
    counts,     \* ticks, missed_frames, contact episodes, the assembler's baseline
    touching,   \* active contacts
    verdict     \* the result: status, completed and physics_validation_passed

trialVars == <<engine, wire, faults, asm, request, failed, phase, previous, current, settled, first, counts,
          touching, verdict>>
trial == <<previous, current, settled, first, counts, touching, verdict>>

Scenes == {"home", "away", "contact", "unseen"}
Observations == [frame : 1..MAX_TICKS, scene : Scenes \cup {"reset"},
                 contactAt : 0..MAX_TICKS, homeSince : 0..MAX_TICKS]

ASSUME NoObsAssumption == NoObs \notin Observations

NoVerdict == [status |-> "none", completed |-> FALSE, passed |-> FALSE, timed_out |-> FALSE,
              ticks |-> 0, missed |-> 0, contacts |-> 0]

\* What simulate_physics and validate_scenario refuse. An object is a robot or
\* an obstacle: its team and number, its radius, and how far out it is.
ValidRequest(r) ==
    /\ r.dt <= MAX_DT /\ r.trial >= 1 /\ r.seed >= 0
    /\ r.complete
    /\ \A i, j \in DOMAIN r.objects : i # j => r.objects[i].key # r.objects[j].key
    /\ \A o \in ToSet(r.objects) : /\ o.key[2] \in 0 .. 15
                                  /\ o.radius = ROBOT_RADIUS
                                  /\ o.at <= FIELD - ROBOT_RADIUS

\* Type invariant of the engine, the socket and the runner.
TrialTypeOK ==
    /\ engine \in [alive : BOOLEAN, tick : 0..MAX_TICKS, placed : BOOLEAN,
                   scene : Scenes \cup {"reset"},
                   contactAt : 0..MAX_TICKS, homeSince : 0..MAX_TICKS]
    /\ Len(wire) <= WIRE /\ faults \in 0..FAULTS
    /\ asm.parts \subseteq Cams /\ asm.parts # Cams
    /\ phase \in {"asked", "starting", "initial", "placing", "running", "done", "refused"}
    /\ request \in Requests
    /\ failed \in BOOLEAN /\ touching \in BOOLEAN
    /\ {previous, current} \subseteq Observations \cup {NoObs}
    /\ settled \in 0..MAX_TICKS /\ first \in 0..MAX_TICKS
    /\ counts.missed \in 0..MAX_TICKS /\ counts.contacts \in 0..MAX_TICKS
    /\ verdict.status \in {"none", "physics_error", "planning_failed", "completed", "timed_out"}
    /\ (phase = "done") <=> (verdict.status # "none")

TrialInit ==
    /\ engine = [alive |-> FALSE, tick |-> 0, placed |-> FALSE, scene |-> "reset",
                 contactAt |-> 0, homeSince |-> 0]
    /\ wire = <<>> /\ faults = 0
    /\ asm = [frame |-> 0, emitted |-> 0, parts |-> {}, incomplete |-> 0]
    /\ request \in Requests /\ failed = FALSE
    /\ phase = "asked"
    /\ previous = NoObs /\ current = NoObs /\ settled = 0 /\ first = 0
    /\ counts = [ticks |-> 0, missed |-> 0, contacts |-> 0, baseline |-> 0]
    /\ touching = FALSE
    /\ verdict = NoVerdict

--------------------------------------------------------------------------------
(* grSim and the network. *)

\* The observation of the next tick, if it shows scene.
Shown(scene) ==
    LET tick == engine.tick + 1
    IN  [frame |-> tick, scene |-> scene,
         contactAt |-> IF scene = "contact" THEN tick ELSE engine.contactAt,
         homeSince |-> IF scene # "home" THEN 0
                       ELSE IF engine.homeSince = 0 THEN tick ELSE engine.homeSince]

\* One detection of every camera, in any order.
Detections(cams, obs) == SetToSeq({[cam |-> c, obs |-> obs] : c \in cams})

\* The engine takes a step. It has received the placement at some time after it
\* was sent, or never does.
EngineTick ==
    /\ engine.alive /\ engine.tick < MAX_TICKS
    /\ \E placed \in {engine.placed, phase # "initial"} :
         \E scene \in IF placed THEN Scenes ELSE {"reset"} :
           /\ engine' = [alive |-> TRUE, tick |-> engine.tick + 1, placed |-> placed, scene |-> scene,
                         contactAt |-> Shown(scene).contactAt, homeSince |-> Shown(scene).homeSince]
           /\ \E lost \in {l \in SUBSET Cams : faults + Cardinality(l) <= FAULTS} :
                /\ Len(wire) + Cardinality(Cams \ lost) <= WIRE
                /\ faults' = faults + Cardinality(lost)
                /\ wire' = wire \o Detections(Cams \ lost, Shown(scene))
    /\ UNCHANGED <<asm, request, failed, phase, trial>>

EngineExits ==
    /\ engine.alive
    /\ engine' = [engine EXCEPT !.alive = FALSE]
    /\ UNCHANGED <<wire, faults, asm, request, failed, phase, trial>>

--------------------------------------------------------------------------------
(* FrameAssembler.push. *)

Ignored(d) == d.obs.frame <= asm.emitted \/ d.obs.frame < asm.frame

Pushed(d) ==
    LET new == d.obs.frame # asm.frame
        parts == (IF new THEN {} ELSE asm.parts) \cup {d.cam}
        whole == parts = Cams
    IN  [frame |-> d.obs.frame,
         emitted |-> IF whole THEN d.obs.frame ELSE asm.emitted,
         parts |-> IF whole THEN {} ELSE parts,
         incomplete |-> asm.incomplete + (IF new /\ asm.parts # {} THEN 1 ELSE 0)]

Emits(d) == ~Ignored(d) /\ Pushed(d).emitted = d.obs.frame

--------------------------------------------------------------------------------
(* simulate_physics. *)

Seen(obs) == obs.scene \notin {"reset", "unseen"}

\* The request is checked and every robot planned for, before anything starts.
Ask ==
    /\ phase = "asked"
    /\ IF ValidRequest(request) THEN phase' = "starting" /\ failed' \in BOOLEAN
       ELSE phase' = "refused" /\ UNCHANGED failed
    /\ UNCHANGED <<engine, wire, faults, asm, request, trial>>

\* GrSimSession.__enter__: the checked binary is started on ports of its own.
StartEngine ==
    /\ phase = "starting"
    /\ phase' = "initial" /\ engine' = [engine EXCEPT !.alive = TRUE]
    /\ UNCHANGED <<wire, faults, asm, request, failed, trial>>

\* It is missing, is not the recorded build, or has no display: what was
\* opened is closed, and the error leaves simulate_physics without a result.
StartEngineFails ==
    /\ phase = "starting"
    /\ phase' = "refused"
    /\ UNCHANGED <<engine, wire, faults, asm, request, failed, trial>>

\* The result, from the error and what was measured.
Verdict(error, completed, measured) ==
    [status |-> IF error THEN "physics_error" ELSE IF failed THEN "planning_failed"
                ELSE IF completed THEN "completed" ELSE "timed_out",
     completed |-> completed /\ ~error,
     passed |-> completed /\ ~error /\ measured.missed = 0 /\ measured.contacts = 0,
     timed_out |-> ~error /\ ~failed /\ ~completed,
     ticks |-> measured.ticks, missed |-> measured.missed, contacts |-> measured.contacts]

\* An error ends the trial: zeros are sent and the session is closed.
Fails ==
    /\ phase' = "done"
    /\ verdict' = Verdict(TRUE, FALSE, counts)
    /\ engine' = [engine EXCEPT !.alive = FALSE]
    /\ UNCHANGED <<request, failed, previous, current, settled, first, counts, touching>>

\* A fault: frames between two observations are not missed.
GapUncounted(prev, obs) == 0

\* The frames between two observations.
Gap(prev, obs) == obs.frame - prev.frame - 1

\* Every robot has arrived and was slow since the last observation.
Rested(prev, obs) ==
    ~failed /\ prev # NoObs /\ prev.scene = "home" /\ obs.scene = "home"

\* The incomplete frames of the assembler when the measuring began.
Baseline(prev, incomplete) == IF prev = NoObs THEN incomplete ELSE counts.baseline

\* One pass of the measuring loop over the observation obs, read after prev;
\* prev is NoObs in the first pass, which sees the placed scene.
Iterate(prev, obs, incomplete) ==
    LET gap == IF prev = NoObs THEN 0 ELSE Gap(prev, obs)
        contact == obs.scene = "contact"
        contacts == counts.contacts + (IF contact /\ ~touching THEN 1 ELSE 0)
        since == IF ~Rested(prev, obs) THEN 0 ELSE IF settled = 0 THEN obs.frame ELSE settled
        start == IF prev = NoObs THEN obs.frame ELSE first
        baseline == Baseline(prev, incomplete)
        completed == since # 0 /\ obs.frame - since >= SETTLE
        ends == completed \/ failed \/ obs.frame - start >= MAX_SIM
        missed == Max({counts.missed + gap}
                      \cup IF ends THEN {incomplete - baseline} ELSE {})
    IN  /\ previous' = prev /\ current' = obs
        /\ settled' = since /\ first' = start /\ touching' = contact
        /\ counts' = [ticks |-> counts.ticks + (IF prev = NoObs THEN 0 ELSE 1), missed |-> missed,
                     contacts |-> contacts, baseline |-> baseline]
        /\ IF ends THEN /\ phase' = "done"
                        /\ verdict' = Verdict(FALSE, completed, counts')
                        /\ engine' = [engine EXCEPT !.alive = FALSE]
           ELSE phase' = "running" /\ UNCHANGED <<verdict, engine>>
        /\ UNCHANGED <<request, failed>>

\* place(): the first frame starts it, then the robots must stand where they
\* were put for PLACE_SETTLE ticks.
Place(obs, incomplete) ==
    LET still == current # NoObs /\ Seen(obs) /\ obs.scene = current.scene
        since == IF ~still THEN 0 ELSE IF settled = 0 THEN obs.frame ELSE settled
    IN  IF still /\ obs.frame - since >= PLACE_SETTLE
        THEN Iterate(NoObs, obs, incomplete)
        ELSE /\ phase' = "placing" /\ current' = obs /\ settled' = since
             /\ UNCHANGED <<engine, request, failed, previous, first, counts, touching, verdict>>

\* The current observation is followed by obs.
Advance(obs, incomplete) ==
    CASE phase = "initial" ->
           /\ phase' = "placing" /\ current' = obs
           /\ UNCHANGED <<engine, request, failed, previous, settled, first, counts, touching, verdict>>
      [] phase = "placing" -> Place(obs, incomplete)
      [] phase = "running" ->
           IF Seen(obs) THEN Iterate(current, obs, incomplete) ELSE Fails

\* Inside the session.
Reading == phase \in {"initial", "placing", "running"}

\* read(): one datagram is taken from the receiver and pushed.
Read ==
    /\ Reading /\ engine.alive /\ wire # <<>>
    /\ wire' = Tail(wire)
    /\ LET d == Head(wire)
       IN  IF Ignored(d) THEN UNCHANGED <<engine, asm, request, failed, phase, trial>>
           ELSE /\ asm' = Pushed(d)
                /\ IF Emits(d) THEN Advance(d.obs, asm'.incomplete)
                   ELSE UNCHANGED <<engine, request, failed, phase, trial>>
    /\ UNCHANGED faults

\* A datagram that cannot be decoded, or whose pose is not finite.
ReadDamaged ==
    /\ Reading /\ engine.alive /\ wire # <<>> /\ faults < FAULTS
    /\ faults' = faults + 1
    /\ wire' = Tail(wire)
    /\ Fails /\ UNCHANGED asm

\* A fault: only the measuring loop waits with a deadline.
ReadTimeoutLate ==
    /\ phase = "running" /\ engine.alive /\ wire = <<>>
    /\ Fails /\ UNCHANGED <<wire, faults, asm>>

\* No complete frame within the deadline of read().
ReadTimeout ==
    /\ Reading /\ engine.alive /\ wire = <<>>
    /\ Fails /\ UNCHANGED <<wire, faults, asm>>

\* read() finds the process gone.
ReadExited ==
    /\ Reading /\ ~engine.alive
    /\ Fails /\ UNCHANGED <<wire, faults, asm>>

\* The deadline of place() or the watchdog of the measuring loop.
Deadline ==
    /\ phase \in {"placing", "running"}
    /\ Fails /\ UNCHANGED <<wire, faults, asm>>

Runner == Ask \/ StartEngine \/ StartEngineFails \/ Read \/ ReadDamaged \/ ReadTimeout \/ ReadExited \/ Deadline

Finished == phase \in {"done", "refused"} /\ UNCHANGED trialVars

TrialNext == EngineTick \/ EngineExits \/ Runner \/ Finished

\* The runner is a sequential program that blocks no longer than its deadlines.
\* Nothing is assumed of the engine.
TrialSpec == TrialInit /\ [][TrialNext]_trialVars /\ WF_trialVars(Runner)

--------------------------------------------------------------------------------
(* Properties. *)

\* A trial that passed was seen whole: in no tick since the first, observed or
\* not, did the engine have a contact, and the robots have rested on their
\* targets in every tick of the settling time (simulate_physics, passed).
PassedMeansClean ==
    verdict.passed =>
        /\ current.contactAt < first
        /\ current.homeSince # 0 /\ current.frame - current.homeSince >= SETTLE

\* Every trial ends, however the engine stalls, exits or loses its frames, and
\* then the engine is gone (GrSimSession.read, place, close).
TrialEnds == <>(phase \in {"done", "refused"} /\ ~engine.alive)
================================================================================
