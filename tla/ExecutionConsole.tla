--------------------------- MODULE ExecutionConsole ---------------------------
(***************************************************************************)
(* The execution page of ui/execution/page.py with the controller and the  *)
(* runtime it drives: every slot of the page that changes state, the three *)
(* timers, the vision-backed confirmation, the motion feedback test, and   *)
(* the account kept of each run.                                           *)
(*                                                                         *)
(* Slots run one at a time on the Qt thread, so a slot is one action.      *)
(* Inside a slot any datagram may fail to be sent and the recorder may     *)
(* fail to be written: both raise, and a raise sends the slot to _fail,    *)
(* which is the emergency stop.                                            *)
(*                                                                         *)
(* The other actors are the command dispatcher's threads.  A worker copies *)
(* the table of commands in one step and sends the copy in later ones, so  *)
(* an old command may leave after the one that replaced it; a worker that  *)
(* stop() gave up waiting for goes on sending.  A copy taken in the middle *)
(* of a slot, which would mix the commands of two slots, is left to        *)
(* CommandDispatcher, which has the threads' own steps.                    *)
(***************************************************************************)
EXTENDS ExecutionController, ResearchRuntime

CONSTANTS
    Patrols,      \* the obstacles of the scenario that are driven on a patrol
    TestRobot,    \* yellow robot 0, the one the motion feedback test turns
    StableNeeded, \* stable_snapshots_required
    MaxRuns       \* bound: runs started in a behaviour

ASSUME ConsoleAssumption ==
    /\ StableNeeded \in Nat \ {0}
    /\ MaxRuns \in Nat \ {0}
    /\ Patrols \cap (Robots \cup {TestRobot}) = {}

Keys == Robots \cup Patrols \cup {TestRobot}

Runs == 1..MaxRuns

VARIABLES
    rt,          \* runtime: the execution record of ResearchRuntime
    installed,   \* runtime: the planner in _planner, NoOwner at first
    dispatching, \* runtime: the dispatcher's thread is running
    cache,       \* dispatcher: what the worker repeats for each robot
    wire,        \* the last command of each robot to have left the process
    held,        \* dispatcher: what its worker has copied and not sent
    orphan,      \* dispatcher: a worker that stop() gave up on, if one lives
    verifier,    \* page: ScenarioApplyVerifier, or the absence of one
    ticking,     \* page: execution_timer is active
    stepping,    \* page: _stepping
    testing,     \* page: a motion test's key is set and its timers are active
    fresh,       \* page: a snapshot came within the last half second
    shown,       \* page: what _refresh_ui last enabled the buttons for
    log,         \* page: run_id, recorder and the result rows of each run
    closed       \* the window is closed

workers == <<held, orphan>>
runtimeVars == <<rt, installed, dispatching, cache, wire, workers>>
pageVars == <<verifier, ticking, stepping, testing, fresh, shown, log>>
vars == <<ctl, runtimeVars, pageVars, closed>>

NoVerifier == [on |-> FALSE, stable |-> 0, late |-> FALSE]
NewVerifier == [on |-> TRUE, stable |-> 0, late |-> FALSE]

NoCommands == [k \in Keys |-> "none"]

Caches == [Keys -> {"none", "zero", "move"}]

\* A wire is "lost" when the robot may be moving, a zero was due to it and
\* the zero could not be sent, and "stray" when the motion came from a worker
\* that stop() gave up on.
Wires == [Keys -> {"zero", "move", "lost", "stray"}]

\* Bound: at most one worker that was given up on lives at a time.
Orphans == [on : BOOLEAN, held : Caches]

NoOrphan == [on |-> FALSE, held |-> NoCommands]

Verifiers == [on : BOOLEAN, stable : 0..StableNeeded, late : BOOLEAN]

ButtonStates == [state : States, stepping : BOOLEAN]

Logs == [id : {0} \cup Runs,        \* run_id, 0 when empty
         started : {0} \cup Runs,   \* the last run id handed out
         open : BOOLEAN,            \* a recorder is open
         rows : [Runs -> 0..2],     \* result rows; 2 is "two or more"
         faulty : SUBSET Runs]      \* runs whose recorder raised

\* Type invariant of the page, its runtime, dispatcher, wires and account.
TypeOK ==
    /\ ctl \in Controllers
    /\ rt \in Runtimes
    /\ installed \in Planners \cup {NoOwner}
    /\ dispatching \in BOOLEAN
    /\ cache \in Caches
    /\ wire \in Wires
    /\ held \in Caches
    /\ orphan \in Orphans
    /\ verifier \in Verifiers
    /\ ticking \in BOOLEAN
    /\ stepping \in BOOLEAN
    /\ testing \in BOOLEAN
    /\ fresh \in BOOLEAN
    /\ shown \in ButtonStates
    /\ log \in Logs
    /\ closed \in BOOLEAN

Init ==
    /\ ctl = NewController
    /\ rt = IdleRuntime
    /\ installed = NoOwner
    /\ dispatching = FALSE
    /\ cache = NoCommands
    /\ wire = [k \in Keys |-> "zero"]
    /\ held = NoCommands
    /\ orphan = NoOrphan
    /\ verifier = NoVerifier
    /\ ticking = FALSE
    /\ stepping = FALSE
    /\ testing = FALSE
    /\ fresh = FALSE
    /\ shown = [state |-> "NO_SCENARIO", stepping |-> FALSE]
    /\ log = [id |-> 0, started |-> 0, open |-> FALSE,
              rows |-> [i \in Runs |-> 0], faulty |-> {}]
    /\ closed = FALSE

-----------------------------------------------------------------------------
(***************************************************************************)
(* Accounts of a run.                                                      *)
(***************************************************************************)

\* recorder.finish or recorder.close raises: the run id and the recorder stay.
FinalizeRaises(l, writable) == l.id # 0 /\ l.open /\ ~writable

WithRow(l) ==
    [l EXCEPT !.rows[l.id] = IF @ = 0 THEN 1 ELSE 2]

\* Fault: the run id survives, so the next stop counts the run once more.
FinalizedKeepingId(l, owner, writable) ==
    IF l.id # 0 /\ owner # NoOwner
    THEN [WithRow(l) EXCEPT !.open = FALSE]
    ELSE l

\* _finalize_run: rows first, then the recorder, then the run id.
Finalized(l, owner, writable) ==
    IF l.id = 0 THEN l
    ELSE LET counted == IF owner = NoOwner THEN l ELSE WithRow(l)
         IN  IF FinalizeRaises(l, writable)
             THEN [counted EXCEPT !.faulty = @ \cup {l.id}]
             ELSE [counted EXCEPT !.id = 0, !.open = FALSE]

\* A recorder that could not be made leaves the previous one in place.
NewRun(l, recorded) ==
    [l EXCEPT !.started = @ + 1, !.id = l.started + 1, !.open = @ \/ recorded]

-----------------------------------------------------------------------------
(***************************************************************************)
(* Stopping.                                                               *)
(***************************************************************************)

\* emergency_stop sends a zero to the robots with a path and to those of the
\* loaded scenario; the obstacles of the scenario are not among them.
StopKeys == IF rt.active \/ ctl.input # NoInput THEN Robots ELSE {}

Zeroed(w, keys, lost) ==
    [k \in Keys |-> IF k \notin keys THEN w[k]
                    ELSE IF k \in lost /\ w[k] # "zero" THEN "lost" ELSE "zero"]

\* What _refresh_ui enables the buttons for; a step matters in PAUSED only.
Buttons(c, steps) ==
    [state |-> c.state, stepping |-> c.state = "PAUSED" /\ steps]

\* The worker sends some of what it holds.
Sent(w, sent) == [k \in Keys |-> IF k \in sent THEN held[k] ELSE w[k]]

Without(commands, sent) ==
    [k \in Keys |-> IF k \in sent THEN "none" ELSE commands[k]]

Unsent == {k \in Keys : held[k] # "none"}

\* The dispatcher's stop: the worker is joined, which lets it finish what it
\* holds, or given up on with the rest of it.
StopDispatcher(sent) ==
    /\ dispatching' = FALSE
    /\ cache' = NoCommands
    /\ held' = NoCommands
    /\ \/ UNCHANGED orphan
       \/ /\ dispatching /\ ~orphan.on
          /\ orphan' = [on |-> TRUE, held |-> Without(held, sent)]

\* Fault: the zeroes go out first, the dispatcher is stopped after them.
StopRuntimeZeroesFirst(w, keys, lost) ==
    /\ \E sent \in SUBSET Unsent :
          /\ wire' = Sent(Zeroed(w, keys, lost), sent)
          /\ StopDispatcher(sent)
    /\ rt' = IdleRuntime

\* The runtime's emergency_stop from wires w: the dispatcher first, then a
\* zero per robot, where a failure is noted and the next robot tried.
StopRuntime(w, keys, lost) ==
    /\ \E sent \in SUBSET Unsent :
          /\ wire' = Zeroed(Sent(w, sent), keys, lost)
          /\ StopDispatcher(sent)
    /\ rt' = IdleRuntime

\* Fault: the worker is left running with the commands of the run.
EmergencyStopDispatching(c, l, w, error, lost, writable) ==
    /\ ctl' = Stop(c, error \/ lost \cap StopKeys # {})
    /\ wire' = Zeroed(w, StopKeys, lost)
    /\ rt' = IdleRuntime
    /\ UNCHANGED <<dispatching, cache, workers>>
    /\ ticking' = FALSE
    /\ log' = Finalized(l, c.owner, writable)
    /\ IF FinalizeRaises(l, writable) THEN UNCHANGED shown ELSE shown' = Buttons(ctl', stepping)

\* The page's emergency_stop from controller c, accounts l and wires w: the
\* runtime, then the controller, then the accounts.
EmergencyStop(c, l, w, error, lost, writable) ==
    /\ ctl' = Stop(c, error \/ lost \cap StopKeys # {})
    /\ StopRuntime(w, StopKeys, lost)
    /\ ticking' = FALSE
    /\ log' = Finalized(l, c.owner, writable)
    /\ IF FinalizeRaises(l, writable) THEN UNCHANGED shown ELSE shown' = Buttons(ctl', stepping)

\* The accounts may be unwritable only where there is something to write.
Writability(l) == IF FinalizeRaises(l, FALSE) THEN BOOLEAN ELSE {TRUE}

\* _fail, with whatever happens to go wrong on the way.  A slot that called
\* the runtime's emergency_stop itself passes the wires that left: the worker
\* it stopped then sends its last here, where this stop's zeroes follow too.
Fail(c, l, w) ==
    \E lost \in SUBSET Robots, writable \in Writability(l) :
        EmergencyStop(c, l, w, TRUE, lost, writable)

\* The emergency button and a failed vision thread share the slot's body.
EmergencyButton ==
    /\ ~closed
    /\ \E lost \in SUBSET Robots, writable \in Writability(log) :
           EmergencyStop(ctl, log, wire, FALSE, lost, writable)
    /\ UNCHANGED <<installed, verifier, stepping, testing, fresh, closed>>

VisionThreadFails ==
    /\ ~closed
    /\ ctl.state \in Busy
    /\ Fail(ctl, log, wire)
    /\ UNCHANGED <<installed, verifier, stepping, testing, fresh, closed>>

-----------------------------------------------------------------------------
(***************************************************************************)
(* Loading, and the planner tab, which plans on the same runtime.          *)
(***************************************************************************)

\* _load_scenario plans with every planner in turn and leaves the last one
\* installed; without a single executable path the controller is not told.
LoadScenario ==
    /\ ~closed
    /\ shown.state \in {"NO_SCENARIO", "SCENARIO_LOADED", "READY"}
    /\ installed' \in Planners
    /\ \/ UNCHANGED <<ctl, shown>>
       \/ /\ CanReplaceInput(ctl)
          /\ \E planners \in Inputs \ {{}} : ctl' = Load(ctl, planners)
          /\ shown' = Buttons(ctl', stepping)
    /\ UNCHANGED <<rt, dispatching, cache, wire, workers, verifier, ticking, stepping,
                   testing, fresh, log, closed>>

UnloadScenario ==
    /\ ~closed
    /\ shown.state \in {"SCENARIO_LOADED", "READY", "COMPLETED", "STOPPED", "ERROR"}
    /\ CanReplaceInput(ctl)
    /\ ctl' = Unload(ctl)
    /\ verifier' = NoVerifier
    /\ shown' = Buttons(ctl', stepping)
    /\ UNCHANGED <<runtimeVars, ticking, stepping, testing, fresh, log, closed>>

\* ScenarioPlannerPage._plan through PlannerPreviewBuilder.build.
PlannerTabPlan ==
    /\ ~closed
    /\ installed' \in Planners
    /\ UNCHANGED <<ctl, rt, dispatching, cache, wire, workers, pageVars, closed>>

-----------------------------------------------------------------------------
(***************************************************************************)
(* Applying the scenario and confirming it from vision.                    *)
(***************************************************************************)

\* The replacement packet either leaves or raises; begin_apply raises when
\* the button outlived the state it was enabled for.
ApplyClicked ==
    /\ ~closed
    /\ shown.state = "SCENARIO_LOADED"
    /\ ctl.input # NoInput
    /\ \/ /\ CanBeginApply(ctl)
          /\ verifier' = NewVerifier
          /\ ctl' = BeginApply(ctl)
          /\ shown' = Buttons(ctl', stepping)
          /\ UNCHANGED <<rt, dispatching, cache, wire, workers, ticking, log>>
       \/ /\ CanBeginApply(ctl)
          /\ verifier' = NewVerifier
          /\ Fail(BeginApply(ctl), log, wire)
       \/ /\ ~CanBeginApply(ctl)
          /\ UNCHANGED verifier
          /\ Fail(ctl, log, wire)
    /\ UNCHANGED <<installed, stepping, testing, fresh, closed>>

\* A verifier's two seconds run out.
VerifierExpires ==
    /\ ~closed
    /\ verifier.on /\ ~verifier.late
    /\ verifier' = [verifier EXCEPT !.late = TRUE]
    /\ UNCHANGED <<ctl, runtimeVars, ticking, stepping, testing, fresh,
                   shown, log, closed>>

\* observe: one more consecutive match, or back to none.
Observed(v, match) ==
    [v EXCEPT !.stable = IF ~match THEN 0
                         ELSE IF @ < StableNeeded THEN @ + 1 ELSE @]

\* process_snapshot while a confirmation is pending: a ready report is acted
\* on before the timeout is looked at.
ConfirmingSnapshot ==
    /\ ~closed
    /\ ctl.state \in Confirming
    /\ verifier.on
    /\ fresh' = TRUE
    /\ \E match \in BOOLEAN :
          LET v == Observed(verifier, match) IN
          \/ /\ v.stable >= StableNeeded
             /\ ctl' = ConfirmApply(ctl)
             /\ verifier' = NoVerifier
             /\ shown' = Buttons(ctl', stepping)
             /\ UNCHANGED <<rt, dispatching, cache, wire, workers, ticking, log>>
          \/ /\ v.stable < StableNeeded
             /\ ~v.late
             /\ verifier' = v
             /\ UNCHANGED <<ctl, rt, dispatching, cache, wire, workers, ticking, shown, log>>
          \/ /\ v.stable < StableNeeded
             /\ v.late
             /\ verifier' = v
             /\ Fail(ctl, log, wire)
    /\ UNCHANGED <<installed, stepping, testing, closed>>

\* process_snapshot while running: every few frames the installed planner is
\* asked again, and the robots it reroutes start on a new polyline.
RunningSnapshot ==
    /\ ~closed
    /\ ctl.state = "RUNNING"
    /\ fresh' = TRUE
    /\ \E rerouted \in SUBSET Robots, lens \in [Robots -> 2..MaxPoints] :
          rt' = Replanned(rt, rerouted, lens)
    /\ UNCHANGED <<ctl, installed, dispatching, cache, wire, workers, verifier, ticking,
                   stepping, testing, shown, log, closed>>

IdleSnapshot ==
    /\ ~closed
    /\ ctl.state \notin Confirming \cup {"RUNNING"}
    /\ fresh' = TRUE
    /\ UNCHANGED <<ctl, runtimeVars, verifier, ticking, stepping, testing,
                   shown, log, closed>>

\* Half a second without a snapshot.
VisionGoesStale ==
    /\ ~closed
    /\ fresh
    /\ fresh' = FALSE
    /\ UNCHANGED <<ctl, runtimeVars, verifier, ticking, stepping, testing,
                   shown, log, closed>>

\* Fault: a paused run is not watched.
StaleWhileRunningOnly == ctl.state = "RUNNING" /\ ~fresh

StaleWhileExecuting == ctl.state \in Executing /\ ~fresh

\* Fault: a confirmation is not watched.
WatchdogOnRunsOnly ==
    /\ ~closed
    /\ StaleWhileExecuting
    /\ Fail(ctl, log, wire)
    /\ UNCHANGED <<installed, verifier, stepping, testing, fresh, closed>>

WatchdogTick ==
    /\ ~closed
    /\ \/ ctl.state \in Confirming /\ verifier.on /\ verifier.late
       \/ StaleWhileExecuting
    /\ Fail(ctl, log, wire)
    /\ UNCHANGED <<installed, verifier, stepping, testing, fresh, closed>>

-----------------------------------------------------------------------------
(***************************************************************************)
(* Running.                                                                *)
(***************************************************************************)

\* The controller is asked first; then the owner's planner is installed.
ClaimOwnership(p) ==
    /\ CanRun(ctl, p)
    /\ ctl' = Run(ctl, p)
    /\ installed' = p

\* READY leaves the choice of the planner to the user.
RunClicked ==
    /\ ~closed
    /\ log.started < MaxRuns
    /\ shown.state = "READY"
    /\ \E p \in Planners : ClaimOwnership(p)
    /\ \E lens \in PathLengths, failures \in SUBSET Robots :
          /\ \A r \in failures : lens[r] = 1
          /\ rt' = StartExecution(lens, failures)
    /\ dispatching' = TRUE
    /\ ticking' = TRUE
    /\ log' = NewRun(log, TRUE)
    /\ shown' = Buttons(ctl', stepping)
    /\ UNCHANGED <<cache, wire, workers, verifier, stepping, testing, fresh, closed>>

\* _run raises after the claim: the planner cannot be made, the recorder's
\* folder cannot be, or the first records cannot be written.
RunRaises ==
    /\ ~closed
    /\ log.started < MaxRuns
    /\ shown.state = "READY"
    /\ \E p \in Planners :
          /\ CanRun(ctl, p)
          /\ \/ /\ installed' \in {installed, p}
                /\ Fail(Run(ctl, p), log, wire)
             \/ /\ installed' = p
                /\ \E recorded \in BOOLEAN : Fail(Run(ctl, p), NewRun(log, recorded), wire)
    /\ UNCHANGED <<verifier, stepping, testing, fresh, closed>>

\* The button outlived the state it was enabled for: run raises at once.
RunRefused ==
    /\ ~closed
    /\ shown.state = "READY" \/ shown = [state |-> "PAUSED", stepping |-> FALSE]
    /\ ctl.state \notin {"READY", "PAUSED"}
    /\ Fail(ctl, log, wire)
    /\ UNCHANGED <<installed, verifier, stepping, testing, fresh, closed>>

\* Fault: the zeroes of a pause are sent but not published.
PauseUnpublished ==
    /\ ~closed
    /\ shown.state = "RUNNING"
    /\ rt.active /\ CanPause(ctl)
    /\ rt' = PauseExecution(rt)
    /\ wire' = Zeroed(wire, Robots, {})
    /\ ctl' = Pause(ctl)
    /\ shown' = Buttons(ctl', stepping)
    /\ UNCHANGED <<dispatching, cache, workers, ticking, log>>
    /\ UNCHANGED <<installed, verifier, stepping, testing, fresh, closed>>

\* The zeroes of a pause go out through publish, which caches before it
\* sends; one that cannot be sent raises.
PauseClicked ==
    /\ ~closed
    /\ shown.state = "RUNNING"
    /\ \/ /\ rt.active /\ CanPause(ctl)
          /\ rt' = PauseExecution(rt)
          /\ cache' = [k \in Keys |-> IF k \in Robots THEN "zero" ELSE cache[k]]
          /\ wire' = Zeroed(wire, Robots, {})
          /\ ctl' = Pause(ctl)
          /\ shown' = Buttons(ctl', stepping)
          /\ UNCHANGED <<dispatching, workers, ticking, log>>
       \/ Fail(ctl, log, wire)
    /\ UNCHANGED <<installed, verifier, stepping, testing, fresh, closed>>

ContinueClicked ==
    /\ ~closed
    /\ shown = [state |-> "PAUSED", stepping |-> FALSE]
    /\ rt.active /\ CanContinueRun(ctl)
    /\ rt' = ContinueExecution(rt)
    /\ ctl' = ContinueRun(ctl)
    /\ stepping' = FALSE
    /\ ticking' = TRUE
    /\ shown' = Buttons(ctl', stepping')
    /\ UNCHANGED <<installed, dispatching, cache, wire, workers, verifier, testing, fresh,
                   log, closed>>

StepClicked ==
    /\ ~closed
    /\ shown = [state |-> "PAUSED", stepping |-> FALSE]
    /\ \/ /\ CanStepExecution(rt)
          /\ rt' = StepExecution(rt)
          /\ stepping' = TRUE
          /\ ticking' = TRUE
          /\ shown' = Buttons(ctl, stepping')
          /\ UNCHANGED <<ctl, dispatching, cache, wire, workers, log>>
       \/ /\ ~CanStepExecution(rt)
          /\ Fail(ctl, log, wire)
          /\ UNCHANGED stepping
    /\ UNCHANGED <<installed, verifier, testing, fresh, closed>>

-----------------------------------------------------------------------------
(***************************************************************************)
(* The control tick, every 50 ms while execution_timer is active.          *)
(***************************************************************************)

TickDue == /\ ~closed
           /\ ticking
           /\ ctl.state = "RUNNING" \/ (ctl.state = "PAUSED" /\ stepping)

\* What a tick publishes: a waypoint command or a zero for each robot, and a
\* waypoint command for each patrolling obstacle in view.
TickCommands(base, driven, patrolling) ==
    [k \in Keys |-> IF k \in driven \cup patrolling THEN "move"
                    ELSE IF k \in Robots THEN "zero"
                    ELSE base[k]]

\* The run goes on: at most the step of a paused run is over.
ExecutionTick ==
    /\ TickDue
    /\ ~rt.paused
    /\ \E seen \in SUBSET Robots, patrolling \in SUBSET Patrols :
       \E n \in TickIndices(rt, seen) :
          /\ ~AllArrived(rt, seen, n)
          /\ rt' = Ticked(rt, seen, n)
          /\ cache' = TickCommands(cache, Driven(rt, seen, n), patrolling)
          /\ wire' = TickCommands(wire, Driven(rt, seen, n), patrolling)
    /\ stepping' = (stepping /\ ~rt'.done)
    /\ shown' = Buttons(ctl, stepping')
    /\ UNCHANGED <<ctl, installed, dispatching, workers, verifier, ticking, testing, fresh,
                   log, closed>>

\* The run is over: the runtime's emergency stop, whose errors are dropped,
\* then the controller, then the accounts; a recorder that raises there sends
\* the slot to _fail, which stops and accounts for the run once more.
CompletingTick ==
    /\ TickDue
    /\ ~rt.paused
    /\ \E seen \in SUBSET Robots, patrolling \in SUBSET Patrols,
          writable \in Writability(log) :
       \E n \in TickIndices(rt, seen) :
          /\ AllArrived(rt, seen, n)
          /\ stepping' = (stepping /\ ~Ticked(rt, seen, n).done)
          /\ LET w == TickCommands(wire, {}, patrolling)
                 done == Complete(ctl)
                 counted == Finalized(log, ctl.owner, writable)
             IN \/ /\ ~FinalizeRaises(log, writable)
                   /\ ctl' = done
                   /\ \E lost \in SUBSET Robots : StopRuntime(w, Robots, lost)
                   /\ ticking' = FALSE
                   /\ log' = counted
                   /\ shown' = Buttons(ctl', stepping')
                \/ /\ FinalizeRaises(log, writable)
                   /\ Fail(done, counted, w)
    /\ UNCHANGED <<installed, verifier, testing, fresh, closed>>

\* A command of the tick cannot be sent, after some robots had theirs.
TickRaises ==
    /\ TickDue
    /\ ~rt.paused
    /\ \E moved \in SUBSET (Robots \cup Patrols) :
          Fail(ctl, log, [k \in Keys |-> IF k \in moved THEN "move" ELSE wire[k]])
    /\ UNCHANGED <<installed, verifier, stepping, testing, fresh, closed>>

\* A paused runtime that is not stepping returns from the tick at once.
HeldTick ==
    /\ TickDue
    /\ rt.paused
    /\ stepping' = (stepping /\ ~rt.done)
    /\ shown' = Buttons(ctl, stepping')
    /\ UNCHANGED <<ctl, runtimeVars, verifier, ticking, testing, fresh, log, closed>>

-----------------------------------------------------------------------------
(***************************************************************************)
(* The dispatcher's threads.                                               *)
(***************************************************************************)

\* A worker wakes up and copies the table, under the lock.
WorkerCopies ==
    /\ dispatching
    /\ held = NoCommands /\ cache # NoCommands
    /\ held' = cache
    /\ UNCHANGED <<ctl, rt, installed, dispatching, cache, wire, orphan, pageVars, closed>>

\* It sends what it copied, robot by robot and outside the lock, whatever was
\* published since; a send that raises is skipped.
WorkerSends ==
    /\ \E k \in Unsent :
          /\ wire' \in {wire, [wire EXCEPT ![k] = held[k]]}
          /\ held' = [held EXCEPT ![k] = "none"]
    /\ UNCHANGED <<ctl, rt, installed, dispatching, cache, orphan, pageVars, closed>>

\* A worker that stop() gave up on does the same.
OrphanSends ==
    /\ \E k \in {j \in Keys : orphan.held[j] # "none"} :
          /\ \/ UNCHANGED wire
             \/ wire' = [wire EXCEPT ![k] = IF orphan.held[k] = "move" THEN "stray" ELSE "zero"]
          /\ orphan' = [orphan EXCEPT !.held[k] = "none"]
    /\ UNCHANGED <<ctl, rt, installed, dispatching, cache, held, pageVars, closed>>

\* The stop event makes it leave, unless a new start cleared the event first:
\* then it repeats the commands of the new run beside the run's own worker.
OrphanWakes ==
    /\ orphan.on /\ orphan.held = NoCommands
    /\ orphan' = IF dispatching THEN [on |-> TRUE, held |-> cache] ELSE NoOrphan
    /\ UNCHANGED <<ctl, rt, installed, dispatching, cache, wire, held, pageVars, closed>>

\* A command older than command_ttl_s is repeated as a zero.
CommandExpires ==
    /\ dispatching
    /\ \E k \in Keys :
          /\ cache[k] = "move"
          /\ cache' = [cache EXCEPT ![k] = "zero"]
    /\ UNCHANGED <<ctl, rt, installed, dispatching, wire, workers, pageVars, closed>>

-----------------------------------------------------------------------------
(***************************************************************************)
(* Reset: stop, release, then apply the scenario again.                    *)
(***************************************************************************)

ResetEnabled ==
    /\ ~closed
    /\ shown.state \in {"READY", "RUNNING", "PAUSED", "COMPLETED", "STOPPED", "ERROR"}
    /\ ctl.input # NoInput

ResetClicked ==
    /\ ResetEnabled
    /\ \E lost \in SUBSET Robots, writable \in Writability(log) :
          LET stopped == Stop(ctl, lost # {})
              counted == Finalized(log, ctl.owner, writable)
              w == Zeroed(wire, Robots, lost)
          IN \/ /\ FinalizeRaises(log, writable)
                /\ Fail(stopped, counted, w)
                /\ UNCHANGED verifier
             \/ /\ ~FinalizeRaises(log, writable)
                /\ ctl' = BeginReset(stopped)
                /\ StopRuntime(wire, Robots, lost)
                /\ ticking' = FALSE
                /\ log' = counted
                /\ verifier' = NewVerifier
                /\ shown' = Buttons(ctl', stepping)
             \/ /\ ~FinalizeRaises(log, writable)
                /\ Fail(BeginReset(stopped), counted, w)
                /\ verifier' = NewVerifier
    /\ UNCHANGED <<installed, stepping, testing, fresh, closed>>

-----------------------------------------------------------------------------
(***************************************************************************)
(* The motion feedback test: a rotation streamed straight to the sender,   *)
(* not through the dispatcher, until its own five seconds are over.        *)
(***************************************************************************)

\* stop_robot publishes while the dispatcher runs and sends otherwise.
StopTestRobot(sent) ==
    /\ cache' = IF dispatching THEN [cache EXCEPT ![TestRobot] = "zero"] ELSE cache
    /\ wire' = Zeroed(wire, {TestRobot}, IF sent THEN {} ELSE {TestRobot})

\* The command is sent, or it raises, a stop is tried and the test is over.
SendTestCommand ==
    \/ /\ wire' = [wire EXCEPT ![TestRobot] = "move"]
       /\ testing' = TRUE
       /\ UNCHANGED cache
    \/ /\ \E sent \in BOOLEAN : StopTestRobot(sent)
       /\ testing' = FALSE

MotionTestClicked ==
    /\ ~closed
    /\ shown.state \in {"NO_SCENARIO", "SCENARIO_LOADED", "READY"}
    /\ ctl.state \in {"NO_SCENARIO", "SCENARIO_LOADED", "READY"}
    /\ SendTestCommand
    /\ UNCHANGED <<ctl, rt, installed, dispatching, workers, verifier, ticking, stepping,
                   fresh, shown, log, closed>>

MotionTestTick ==
    /\ ~closed
    /\ testing
    /\ SendTestCommand
    /\ UNCHANGED <<ctl, rt, installed, dispatching, workers, verifier, ticking, stepping,
                   fresh, shown, log, closed>>

MotionTestEnds ==
    /\ ~closed
    /\ testing
    /\ \E sent \in BOOLEAN : StopTestRobot(sent)
    /\ testing' = FALSE
    /\ UNCHANGED <<ctl, rt, installed, dispatching, workers, verifier, ticking, stepping,
                   fresh, shown, log, closed>>

-----------------------------------------------------------------------------
\* closeEvent: the page's shutdown, which stops a motion test and, in the
\* states where commands or a confirmation may be pending, everything else;
\* then the runtime's own stop, which finds nothing left to do.
Close ==
    /\ ~closed
    /\ closed' = TRUE
    /\ \E sent \in BOOLEAN, lost \in SUBSET Robots, writable \in Writability(log) :
          LET w == IF testing
                   THEN Zeroed(wire, {TestRobot}, IF sent THEN {} ELSE {TestRobot})
                   ELSE wire
          IN IF ctl.state \in Busy \cup {"READY"}
             THEN EmergencyStop(ctl, log, w, TRUE, lost, writable)
             ELSE wire' = w /\ UNCHANGED <<ctl, rt, dispatching, cache, workers, ticking, log, shown>>
    /\ testing' = FALSE
    /\ UNCHANGED <<installed, verifier, stepping, fresh>>

-----------------------------------------------------------------------------
UserStep ==
    \/ EmergencyButton \/ LoadScenario \/ UnloadScenario \/ PlannerTabPlan
    \/ ApplyClicked \/ RunClicked \/ RunRaises \/ RunRefused
    \/ PauseClicked \/ ContinueClicked \/ StepClicked \/ ResetClicked
    \/ MotionTestClicked \/ Close

TimerStep ==
    \/ WatchdogTick \/ VerifierExpires \/ VisionGoesStale
    \/ ExecutionTick \/ CompletingTick \/ TickRaises \/ HeldTick
    \/ MotionTestTick \/ MotionTestEnds

VisionStep ==
    \/ ConfirmingSnapshot \/ RunningSnapshot \/ IdleSnapshot \/ VisionThreadFails

WorkerStep ==
    WorkerCopies \/ WorkerSends \/ OrphanSends \/ OrphanWakes \/ CommandExpires

Next == UserStep \/ TimerStep \/ VisionStep \/ WorkerStep

Spec == Init /\ [][Next]_vars

-----------------------------------------------------------------------------
(***************************************************************************)
(* Properties.                                                             *)
(***************************************************************************)

\* The runtime's flags and the dispatcher follow the controller through every
\* slot and every failure inside one: paths, a worker and what it repeats exist
\* exactly while a run is on, a running run is neither paused nor stepping,
\* and a paused one is held or in a step, unfinished, that the page ticks.
RuntimeFollowsController ==
    /\ ctl.state = "RUNNING" =>
         rt.active /\ ~rt.paused /\ ~rt.step /\ dispatching /\ ticking
    /\ ctl.state = "PAUSED" =>
         /\ rt.active /\ dispatching
         /\ rt.paused <=> ~rt.step
         /\ rt.step => ~rt.done /\ stepping /\ ticking
    /\ ctl.state \notin Executing =>
         /\ ~rt.active /\ ~dispatching /\ ~ticking
         /\ cache = NoCommands /\ held = NoCommands

\* Exactly one planner may own velocity output: OwnershipConsistent holds of
\* the controller as the page drives it, failed slots included.
OwnershipHeld == OwnershipConsistent(ctl) /\ ErrorShownInErrorOnly(ctl)

\* A robot of the scenario was last told to move only in a running run, in a
\* step of a paused one, by a motion test that is still turning it, or by the
\* worker's copy of a command that the table has already replaced by a zero,
\* which the worker repeats next.  What may be left otherwise is a robot whose
\* zero could not be sent, or one that a worker given up on has moved.
MotionNeedsOwner ==
    \A r \in Robots \cup {TestRobot} :
        wire[r] = "move" => \/ ctl.state = "RUNNING"
                            \/ rt.step
                            \/ r = TestRobot /\ testing
                            \/ dispatching /\ cache[r] = "zero"

\* STOPPED promises more than ERROR: with a scenario loaded every robot of it
\* was sent its zero and no joined worker's old motion left after that, so a
\* lost zero always surfaces as ERROR.  Only a worker that the stop gave up on
\* can have moved a robot since.  (COMPLETED does not promise it: the errors
\* of that stop are dropped.)
StoppedIsStill ==
    ctl.state = "STOPPED" /\ ctl.input # NoInput =>
        \A r \in Robots \ {TestRobot} : wire[r] \in {"zero", "stray"}

\* A run that is over has one row in each result table, neither none nor two,
\* however it ended; only a recorder that raised may break the count.
OneRowPerRun ==
    \A i \in 1..log.started :
        i # log.id /\ i \notin log.faulty => log.rows[i] = 1

\* The page implements VelocityOwnership: an owner is claimed from READY only
\* and changes only through a release, in whatever order the slots run.
Phase(state) ==
    CASE state = "READY" -> "armed"
      [] state = "RUNNING" -> "driving"
      [] state = "PAUSED" -> "holding"
      [] state \in {"COMPLETED", "STOPPED", "ERROR"} -> "latched"
      [] OTHER -> "idle"

Ownership == INSTANCE VelocityOwnership WITH owner <- ctl.owner,
                                             phase <- Phase(ctl.state)

\* Ownership is armed, claimed, held, resumed, latched and released as
\* VelocityOwnership allows, through every slot and failure (controller.py).
ImplementsOwnership == Ownership!Spec

-----------------------------------------------------------------------------
(***************************************************************************)
(* Fairness: the Qt event loop keeps serving its timers, and time passes.  *)
(* Nothing is assumed of the user, the vision stream or the robots.        *)
(***************************************************************************)
Fairness == WF_vars(VerifierExpires) /\ WF_vars(WatchdogTick)

FairSpec == Spec /\ Fairness

\* A confirmation always ends: confirmed, failed, stopped or closed.
ConfirmationEnds == ctl.state \in Confirming ~> (ctl.state \notin Confirming \/ closed)

\* A run whose vision is lost for good does not stay a run.
StaleRunEnds ==
    (ctl.state \in Executing /\ ~fresh) ~> (ctl.state \notin Executing \/ fresh \/ closed)

=============================================================================
