# research-sdk: TLA+ models and proofs

research-sdk plans paths for small-size-league robots and drives them: in grSim
and in a built-in simulator from a Qt console, and in headless batches that
compare planners and replanning policies. The models below cover both halves:
the console, where a mistake moves a robot, and the headless and physics runs,
where a mistake ends up in a result table.

Source paths are relative to `src/src/research_sdk/` unless they begin with
another directory of the repository.

## 1. Inventory

| Component | State it keeps | Operations | Talks to |
|---|---|---|---|
| Execution controller, `ui/execution/controller.py` | state (10 values), input and selection locks, velocity owner, error | load, unload, begin/confirm/fail apply, run, pause, continue, complete, stop, begin reset | called by the page only |
| Apply verifier, `ui/execution/apply_verifier.py` | start time, consecutive matching snapshots | observe, timed_out | made by the page at apply and reset |
| Execution page, `ui/execution/page.py` | controller, verifier, `_stepping`, run id, recorder, result rows, motion test, button states, three timers | one slot for each button, timer and snapshot | controller, runtime, recorder |
| Runtime, `ui/runtime.py` | planner, active paths, waypoint indices, pause and step flags, patrols, sender, dispatcher | plan, start, pause, continue, step, tick, replan, emergency stop, ingest | dispatcher, planners, world pipeline |
| Command dispatcher, `network/command_dispatcher.py` | table of latest commands, stop event, thread | start, publish, stop, worker loop | sender socket, from two threads |
| Session, `ui/session.py` | previews, recorder file | build a preview, record, finish, close | installs planners in the runtime |
| Planner tab and scenarios, `ui/app.py`, `ui/scenarios.py` | scenario, selections, tool, preview with its metrics, times | canvas clicks and keys, tools, inspector lists, plan, save, load, export | runtime, session |
| Simulator control and server, `ui/sim_control.py`, `sim/manager.py`, `sim/__main__.py`, `sim/server.py` | child process, ready event, reader threads, output tail, `_running` | start, stop, read, watchdog, run, drain, publish | pipe, signals and UDP |
| Simulator physics, `sim/engine.py` | poses, speeds, last command times, ball | apply packet, step | server |
| Reroute gate and waypoint manager, `planners/reroute.py`, `planners/Dijkstra/waypoint_manager.py` | route state and last output of each robot, frame counter | evaluate, commit, note, advance | planners, headless loop |
| Planners, `planners/PRM`, `planners/VisibilityGraph`, `planners/Dijkstra`, `world/map/voronoi` | graphs, caches | plan, reset | scene, gate |
| Headless episode, `headless.py` | position, route and counters of each robot, virtual clock, metrics | control cycle, motion, contacts, result | planners, scene |
| Headless batch, `headless.py` | jobs, rows, files of a folder | check a request, run jobs, summarise, write | episodes, file system |
| grSim trial, `grsim_physics.py` | engine process, socket, frame assembler, settling window | validate, start, place, follow, judge, close | grSim process, UDP |
| World pipeline, `world/pipeline.py`, `snapshot.py`, `map/world_map.py`, `scene.py` | partial frame, versions, ball track, cached scene with its age and mode | ingest, publish, track, rebuild scene | runtime, planners |
| Vision frames and process workers, `vision/`, `process_workers/`, `world/model.py` | partial frame, frame list (deque and dictionary), running event, error count, queue | setup, step, assemble, push, ingest, shut down | sockets, queues between processes |
| Scenario generator, `scenario_generator.py` | none: a function of a seed | random, perturb | scripts and batches |
| World queries, network, recording, configuration, rendering, analysis scripts | sockets, files, widgets | I/O and arithmetic | everything |

How they interact. The console is one process. Its Qt thread executes every slot
of the page and of the planner tab one after the other; a vision thread's
packets arrive as queued signals; while a run is on the dispatcher's worker
repeats commands; the reader thread of the simulator control watches the output
of a child process. The page calls the controller for permission and the runtime
for effect, in an order that differs from slot to slot. The planner tab and the
page share one runtime. The two worker processes of the older vision path meet
in a bounded queue. A headless batch is a pool of processes that each run
episodes on a virtual clock; a physics trial follows a grSim process that keeps
its own clock.

What is hard here:

- a slot calls several components and may raise between any two calls; `_fail`
  then stops everything from whatever was reached;
- buttons are enabled by the last `_refresh_ui`, not by the present state;
- a stop races the dispatcher's worker, and datagrams get lost;
- state that one run, one route or one simulator child leaves behind is found by
  the next;
- one route is kept in three places that three pieces of code advance;
- camera packets are lost, repeated and renumbered, and frames are cut from them
  by a rule that sees one packet at a time;
- a child process may be signalled before it listens, and may die at any moment;
- bookkeeping of an episode is spread over a loop of four hundred lines and must
  agree at the end with what was counted on the way;
- a batch may fail or be killed between any two files.

`hazards` in `PROJECT.json` lists these one by one, at the line where they bite,
with the properties that would notice.

## 2. Modules

| Module | What it models | Composition |
|---|---|---|
| `ExecutionController` | `controller.py`: a record, and one operator with its guard for each method; a specification of the controller alone | |
| `ResearchRuntime` | the execution half of `runtime.py`, on a record | |
| `ExecutionConsole` | `page.py` with the verifier, the account of a run, the motion test, the dispatcher's workers, previews and the close event; one action for each slot | extends the two above; implements `VelocityOwnership` |
| `VelocityOwnership` | what the page promises about ownership: arm, claim, hold, resume, latch, release | abstract |
| `CommandDispatcher` | `command_dispatcher.py` thread by thread, with the runtime's emergency stop as a caller | the detail behind the worker steps of `ExecutionConsole` |
| `RerouteGate` | `reroute.py`, `VoronoiWaypointManager.update`, `_gated_plan` of the other two planners, as operators on the gate's memory | |
| `RouteFollowing` | a robot between gate and executor (`_plan_call`, `_advance_waypoint`) while obstacles move | extends `RerouteGate` |
| `HeadlessEpisode` | `simulate`: control cycles, limits, contacts, clearances, result | takes the kinds of answers `RouteFollowing` explains |
| `HeadlessBatch` | `main`, `run_experiments`, the summaries and writers | takes an episode as one job |
| `ObstacleMotion` | where a moving obstacle is: `_reflect`, patrols | pure functions |
| `Plane`, `VoronoiMap`, `RoadmapSearch` | exact geometry; the Voronoi map; one planning call of each planner | each extends the one before |
| `FrameAssembly` | `Frame` and `VisionFrameAssembler` | shared by the next two |
| `VisionWorkers` | the vision process, the queue, the world-model process with its frame list | extends `FrameAssembly` |
| `WorldPipeline` | the console's path from packet to snapshot, ball track and scene | extends `FrameAssembly` |
| `SimServer` | the simulator's loop, command ages, who moves and is pushed; a specification of the loop alone | |
| `SimulatorLink` | console, its reader threads, child processes, pipes, signals, port | extends `SimServer` |
| `PhysicsTrial` | a grSim trial from request to verdict | |
| `ScenarioEditor` | the planner tab's events on a scenario and its preview | |
| `ScenarioGenerator` | which scenarios the two generators may return | a relation |
| `*Proofs` | theorems: `RouteProofs` on `RouteFollowing` and `RoadmapSearch`, `VisionProofs` on `VisionWorkers` and `WorldPipeline`, `SimulatorProofs` on `SimulatorLink` and `PhysicsTrial`, `HeadlessEpisodeProofs` on `ObstacleMotion` too, `ScenarioProofs` on `ScenarioEditor` and `ScenarioGenerator`, the others on the module of their name | extend the modules they are about |
| `MC*` | instances for TLC | |

Definitions that begin with a comment `Fault:` or `Bug:` are in no specification. Each is
a plausible mistake in the definition it follows, kept to show that a property
would notice it.

### Console

`ctl` is `ExecutionController`, `rt` the runtime's execution fields, `installed`
its `_planner`, `dispatching` and `cache` the dispatcher, `wire` the last command
that left for each robot, `held` what the worker has copied and not yet sent,
`orphan` a worker that a stop gave up on, `verifier`, `ticking`, `stepping`, `testing`, `canvas`
and `log` fields of the page, `fresh` whether the last snapshot is younger than
the half second of the watchdog, `shown` the state the buttons were last enabled
for.

- A slot is one action with everything it calls: `ResetClicked` stops, accounts,
  releases and applies again. A slot that may raise has a disjunct for each place
  where it matters, ending in `Fail`, which is `_fail`: the emergency stop with a
  message. Inside it any subset of the zeroes may be lost and the recorder may
  raise.
- `shown` makes stale buttons real: `_finalize_run` raising inside
  `emergency_stop` skips `_refresh_ui`, and the user can click a button of the
  previous state.
- A path is its number of points; a tick moves the indices as far as the robots'
  positions, a choice, allow. Which robots a snapshot contains and whether it
  matches the scenario are choices too.
- The dispatcher's worker copies the table in one step and sends the copy in
  later ones, with slots in between, so an old motion may leave after its zero.
  A stop either waits for the copy to be sent or gives up after 0.1 s; the worker
  is then `orphan`, sends what it has, and lives on if the next start clears the
  event before it looks. A wire is `stray` when such a worker moved it last and
  `lost` when a zero was due and could not be sent.

### Dispatcher

The console thread is `caller`; a worker is `waiting` in the event's wait,
`woken` after it, or `sending` its copy of the table. Storing and sending are two
steps of `publish`; setting the event, joining and sending the zeroes are steps
of a stop. `join` may time out, and the worker is then `abandoned`: it goes on if
`start` clears the event before it looks. Commands carry a number, so that an
older one can be told from the latest.

### Routes and planners

In `RouteFollowing` `gate` is `ReroutePathState`, `cached` the planner's last
output, `ahead` the executor's path, `reached` whether a waypoint was passed
since the last call. Geometry enters as the set of legs that are free at this
call, the endpoint the planner settles for, and whether the robot stands inside
a zone. There are two sets of free legs: the gate measures with the planning
clearance (`scene.free`), the Voronoi planner's own checks of a reused route and of
the direct path without (`scene.open`, a superset; the two are one set where the
clearance is zero, and for the graph planners). The manager's escape, its exceptions and its periodic frames are in the
actions.

`RoadmapSearch` is one call each: build a graph, search, answer. Points are
homogeneous integers, so cell corners and chords are exact. `networkx` is
external and used only for "finds a path if there is one"; the answer is kept
as the set of segments a route may use, so that a property of all of them holds
of whichever path is shortest. Random samples and random sites are choices.

### Headless episode, batch, motion of obstacles

`HeadlessEpisode` has the loop's own variables: the clock `now`, the next control
instant, the streak without a route, open routes and the reasons they were
closed for, contacts at an instant and swept, and the final record. A planner's
answer is a choice of kind and of slowness; distances are "arrived", "touching",
"near".

`HeadlessBatch` takes a request through the checks of the command line, the look
at the folder, the jobs in any order of completion, and the files one by one.
A job may raise, a write may fail, a call may be killed between two steps.
`Overlap` says whether a second call may begin before the first has ended.

`ObstacleMotion` has no state: a position is a function of the time.

### Simulator and grSim

In `SimulatorLink` every step at which the console's thread can wait, and every
step of the child at which a signal can come, is its own action: `Spawn`, bind,
the ready line, the entry into the loop that sets `_running`, end of input,
SIGTERM, SIGKILL. `readers` are the children whose output a thread of the console
reads, `lines` those of them whose ready line is in the pipe: printing it and
setting the event are two steps of two processes, and a stop need not wait for the
second. `Mine`, the living children of this console, is empty after it crashed;
what becomes of its children then is the question of `ClosedChildEnds`.

`SimServer` is the loop of that child, with physics steps due per wall tick, a cap
on steps a cycle, and command ages taken at the start of the cycle. Places and
directions are left out and speeds are kept, in steps of full acceleration rounded
up: driving, turning, the ball's. A contact is therefore a choice over the speeds
it can leave. Robots that run into each other share the speed along the line
between them and keep what they have across it, so one may leave faster than both
came; together they have no more energy (`Separated`). A robot at a wall loses
speed. The ball is kicked by robots whose command is fresh, or pushed, and then
gains at most one and a half times the speed of each robot that pushes it
(`BallAtMost`). `PhysicsTrial` lets the engine tick on its own while the runner reads
what the socket kept; each detection carries the engine's history for the
properties to look at, and the runner never does.

### Vision

`FrameAssembly` names what a camera saw by its capture time, so that a frame is a
function from cameras to times. `VisionWorkers` numbers detections per camera
and lets the source restart at zero; steps of a worker may fail, at seconds the
model's clock counts. `WorldPipeline` counts ages back from the present, so that
its behaviours have no end, and puts the ball on a line in units of the tracker's
tolerance.

### Planner tab

One action for each event of `ScenarioPlannerPage` and its canvas. An identity,
a spot and a layout (the planner an obstacle belongs to, or all) are what the
handlers tell apart; texts, radii and drawing are left out.

### Scenario generator

A result is any scenario that the generator's rejections let through; which of
them a seed draws is left out.

## 3. Runs

| Run | Instance | Shows |
|---|---|---|
| `console` | 1 robot and the motion test's, 1 planner, paths of up to 3 points, 1 stable snapshot, 2 runs | page, controller, runtime and wires agree after every slot and failure; no robot is told to move by nobody; one row for each run; confirmations and stale runs end; `VelocityOwnership` is implemented |
| `dispatcher` | 2 robots, 2 workers, 3 commands | how many workers live, how late a send may be, what a stop guarantees; lost sends are repeated, silence brings rest |
| `planning` | a robot: 1 intermediate point, moves of up to 2, dead zone 1; Voronoi and PRM under cycle, event and event_route, Voronoi under event with a planning clearance, visibility graph under event with a period of 2. Or a call: field of 14 by 8, up to 3 obstacles of 5 spots, 5 trips, 5 placements of sites | gate and executor stay on one route; a kept route may be kept; drift adds up; what a planner builds its own gate accepts; cells are Voronoi cells |
| `headless_episode` | 2 robots, 1 pair of bodies, step 2, period 3, end at 9; policies event with a limit, once without | the ledger of routes, the limit without a route, and the final record agree; every episode ends |
| `vision_workers` | 2 cameras; 2 losses and a restart, or 8 failures of the socket | no detection is used twice; deque and dictionary agree; a worker gives up on bursts only; a shutdown ends both |
| `world_pipeline` | 2 cameras with 2 or 4 expected and losses, or 1 camera and every ball | the throttled scene keeps up; a resting ball is found again |
| `simulator_link` | 2 processes, 1 crash of a console, 1 robot | no child is left behind, a start is this child's unless a reader was given up on, a stop returns |
| `sim_server` | 2 robots, 1 step a cycle with up to 2 due, timeout 1, speeds up to 2 | what nobody commands comes to rest |
| `physics_trial` | 2 cameras, 7 engine ticks, a trial of 3, a socket of 4, 2 lost or damaged detections; one sound request and seven that each break a rule | a passed verdict is a clean trial; every trial ends with its engine gone |
| `headless_batch` | 2 calls one after the other on a folder, 13 kinds of request, 1 fault | rows compare like with like, on both backends; a manifest vouches for its folder; finished folders never change |
| `scenario_editor` | 2 identities, 2 spots, 2 planners, 1 file that has a layout for each planner | one role for each identity; the preview that is exported is of the scenario as it is |
| `event_route_reuse` | the robot of `planning` | violation, section 4 |

Each property of a passing run has a mutant in `PROJECT.json`: a change in the
modelled code that the run then catches. `TypeOK` is checked by TLC for the
console. The definitions of the same name in `RouteFollowing`, `HeadlessEpisode`,
`VisionWorkers`, `SimulatorLink` (with `ServerTypeOK`) and `CommandDispatcher`,
`PipelineTypeOK` and `TrialTypeOK` hold on the same instances (as the only
invariant of a config); they are not kept in the configs, except that the
dispatcher's is proved.

### Bounds, and why they suffice

- `console`. One robot of the scenario and yellow 0 of the motion test, which is not
  in it: most properties of the page are about one robot or about the account of
  runs. Three points a path: a start, a point between and a target, so that a
  step ends short of the target or together with the run. Two runs: the second
  starts from every state the first can leave, a worker of the first among it. One
  planner is enough for what is checked here. The code asks for three stable
  snapshots; the run asks for one, so that a mismatch in between has nothing to
  reset. There are no patrols in it. A stop that fails for one robot of the
  scenario and not for another is in the proofs only, which are for any robots.
- `dispatcher`. Two workers are one abandoned and one current; three commands let
  the console publish, stop and publish again. Safety is proved for any number.
- `planning`. What a planning call answers is a choice to the robot, so that the
  two need not run together and a behaviour is of one or the other. A route by the
  one intermediate point to an endpoint short of the target has three legs, one
  active and two ahead. Moves of 1 lie within the dead zone and two of them
  beyond it. At most one leg between the points is closed at a time, and at most one
  is nearer to an obstacle than the planning clearance; `FRAME_CAP` 3 is more than
  the period. Obstacles block a trip, leave a gap or overlap in their zones; a
  start lies in no zone, in one, or in two that push against each other, and a
  target in one. Placements are the lowest and the highest density, a spacing,
  a count and random sites; the ones the code refuses are kept out by an
  assumption. Two samples an attempt and two attempts let the second succeed
  where the first failed.
- `headless_episode`. A period that is no multiple of the step makes control
  instants fall between steps and catch up; the limit 4 is two checks. Nine ticks
  let a route be lost, found, and lost until the limit.
- `vision_workers`. A queue of one place is full after one frame; a history of
  two frames and four numbers make numbers return after a restart; the error
  window of four seconds and four errors let a burst lie across two windows.
- `world_pipeline`. Ages saturate at 10, above every age the code compares.
- `simulator_link`. Two processes: an old child beside a new one. One crash at a
  time, since a second adds nothing a first has not left. The robot in it only
  keeps the child's loop busy.
- `sim_server`. Two robots, so that one can push the other; a cap of one step a
  cycle with two due, so that the loop falls behind and commands expire between
  steps that were due before. `FASTEST` 2 caps what contacts can give, where
  rounding would let it grow; it is above the speed a robot can be told to drive,
  so that a robot can be faster than it was told and slow down again.
- `physics_trial`. A socket of 4 detections is two ticks of backlog, more than
  the settling time of 1 tick. Two faults: a lost detection and a damaged one.
- `headless_batch`. Two calls on one folder: one that leaves something and one
  that finds it. `Overlap = FALSE`: see section 4 for TRUE.
- `scenario_editor`. Two identities and two spots let a body be converted, moved
  onto another and replaced; a file of earlier days brings several layouts.

Deadlock is checked where the system goes on for ever: `dispatcher`,
`simulator_link`, `sim_server`, `physics_trial`, `world_pipeline`, `scenario_editor`. The others
may stop (a closed window, an ended episode, batch or shutdown, an answered
planning call, a robot at its target).

### Fairness

- `ExecutionConsole`: weak fairness of the verifier's clock and of the watchdog
  timer, Qt timers of a running event loop that no slot of the model blocks.
  Nothing is assumed of the user, of vision, or of the robots.
- `CommandDispatcher`: weak fairness of each thread and of the passing of time
  for a command; strong fairness of a successful send of a worker to a robot,
  that is, the network does not lose all its datagrams. The console is free
  never to call again.
- `HeadlessEpisode`: weak fairness of the loop. Nothing else moves its clock.
- `PhysicsTrial`: weak fairness of the runner only, whose reads have timeouts.
  The engine may stall for ever.
- `SimulatorLink`: weak fairness of the steps of a start and of a stop that
  has been asked for, of the reader threads, of the child's steps, and of the loop's
  ticks, cycles and physics steps. Clicks, crashes and packets are free.
- `SimServer` alone: weak fairness of ticks, cycles and physics steps. Packets are
  free to come or not.
- `VisionWorkers`: weak fairness of each worker's step and of its exit.
- `WorldPipeline`: weak fairness of the packets' arrival and of new cycles.

## 4. Disagreements found

With a run: under `event_route` the Voronoi gate asks for a new route because a
later leg is blocked, and `VoronoiDijkstraPlanner.plan` first asks
`_previous_path_is_valid`, which looks at the first leg only, and returns the
old route (`planners/Dijkstra/voronoi_dijkstra.py:164`, `:273`). `headless.py:19-20`
says that a blocked segment anywhere on the remaining route counts as an event.
`event_route_reuse` shows it.

Five more are stated as properties of the models, without a run: TLC finds each
violated when it takes the place of the properties in the config named.

- `SmallMovesAddUp` (`MCRouteFollowingReuse.cfg`). With a planning clearance the
  gate calls the active leg blocked, `_previous_path_is_valid` finds it free
  without the clearance (`planners/Dijkstra/voronoi_dijkstra.py:287`), and the old
  route is committed again with the present endpoint as the one that drift is
  measured from (`planners/Dijkstra/waypoint_manager.py:250`).
  `planners/reroute.py:180-184` says why that must not happen: small moves would
  reset the baseline and mask a real drift.
- `DirectPathIsTaken` (`MCRouteFollowingReuse.cfg`). A direct path that is free but
  nearer than the clearance is refused by the gate and taken by the planner
  (`voronoi_dijkstra.py:152`); the manager does not read `used_direct_path`, and
  the call counts as failed. `voronoi_dijkstra.py:114-115` calls taking it "exactly
  the right thing to do".
- `StartWaitsForItsLine` (`MCSimulatorLink.cfg`). `stop()` joins a reader for one
  second and then forgets it (`sim/manager.py:99-101`), while all readers set the
  one event: a reader delayed before its ready line lets a later `start()` return
  for a child that has bound nothing. `sim/manager.py:39`: "Launch and wait for
  the ready line".
- `ClosedChildEnds` (`MCSimulatorLink.cfg`, a temporal property). `run()` sets
  `_running` when it begins (`sim/server.py:117`), so that the stop at the end of
  input is lost when it comes before; a console that crashes then leaves its child
  behind, on the command port. `sim/__main__.py:55`: "so a crashed UI never leaves
  the sim behind".
- `EachRunHasOneOutcome` (`MCHeadlessBatch.cfg`). `simulate_physics` builds its
  result without an outcome (`grsim_physics.py:653`), and `summarize_outcomes`
  counts a grSim run as valid but neither completed nor incomplete.
  `docs/headless.md:245`: "Each run gets one outcome".

The following were met while translating and are visible in the models.

Console:

- `execute_tick` returns True when all robots finish a step on one tick, and the
  page takes that for the end of the run (`ui/runtime.py:670` against
  `docs/grsim_execution_ui_spec.md:83`, `:100`).
- An emergency stop inside a step leaves `_stepping` set; the next run, once
  paused, offers neither Continue nor Step (`ui/execution/page.py:1045`, `:1095`).
- The planner tab installs its planner in the runtime of a run in progress
  (`ui/session.py:287`).
- The motion test looks at the state when it starts and streams for five seconds,
  run or no run (`ui/execution/page.py:1171`).
- A stop sends no zero to patrolling obstacles (`ui/runtime.py:693`).
- The dispatcher's worker may send its copy of a command after the zero that
  replaced it; the test that asserts the opposite passes on timing
  (`network/command_dispatcher.py:79`, `tests/test_command_dispatcher.py:65`).

Planner tab:

- The times beside Plan stay after Load, Add New and Load From grSim
  (`ui/app.py:1038-1046`).
- The target tool stays disabled when a robot is selected on the canvas, and
  enabled after an obstacle's row; a click on the row that is current selects
  nothing.
- Two scenario names with the same safe name overwrite each other's file; a
  conversion between robot and obstacle drops layouts and patrol.

Headless:

- Two calls on one folder that overlap write into each other's results: the look
  at the folder (`headless.py:2450`) is long before the first write. With
  `Overlap = TRUE`, `PreviousResultsKept` is violated.
- One job that raises discards the whole batch and leaves a folder that is no
  longer empty.
- A repeated `--predict-ms` or `--replan-ms` runs an arm twice under one label;
  `--clearance-mm` multiplies the arms of a result set; a result set with the
  grSim backend ignores its arms (`headless.py:1415-1417`, `docs/headless.md:199`);
  escapes count as "initial" in the one-shot table; two loose scenarios of one
  name overwrite each other's copy.
- Swept clearances and the constant-velocity prediction assume straight motion
  between two instants (`headless.py:830`, `:458`); a reflected obstacle or a
  turned patrol does not move so.

Planners and others:

- PRM and the visibility graph search among the scene's obstacles without
  ignoring the robot itself, which their gate does
  (`planners/PRM/prm_dijkstra.py:428`). The Voronoi map ignores the planning
  clearance, and looks at the goal's zone only after the search.
- The ports of a physics trial are released before the engine binds them
  (`grsim_physics.py:279-281`).
- A `GeneratorConfig` bounds only the sum of robots of both teams, so blue
  identities may exceed 15; an edge margin beyond half the field lets samples
  fall outside; names that are anagrams of each other share a stream of
  perturbations; a perturbed start for which no clear place is found stays where
  it was, even if an obstacle stands there now (`scenario_generator.py:45`).

## 5. What is proved

TLAPS checks the following for all values of the constants, from the named
`ASSUME`s only. A safety property is proved from an inductive invariant that
implies it, an action property by a step from a state that satisfies one. TLC
evaluates the assumptions on the instances of the runs, so that they are not
empty.

### Controller and console (`ExecutionConsoleProofs`)

Assumed: at least two points a path, positive counts of snapshots and runs,
patrols distinct from robots, the two "none" values outside their sets.

- `ControllerConsistent`: the owner is present exactly where the state requires
  one, the input is locked while an execution or a confirmation is on, an error
  message is shown in ERROR only. Inductive as it stands, a conjunction of named
  parts.
- `TypeCorrect`: typing of the console; a step needs that indices stay within a
  path and counters within their bounds.
- `PageKeepsOwnership`: the controller's invariant over the page, where methods
  are called in sequences inside a slot that may fail between them. One lemma
  for each method, applied along the sequence.
- `PageImplementsOwnership`: each step of the page is a step or a stutter of
  `VelocityOwnership` under `owner <- ctl.owner, phase <- Phase(ctl.state)`. The
  ownership invariant is what excludes a second claim.
- `RuntimeFollows`: the controller's state determines the runtime's flags, the
  worker, its cache and the tick timer. Inductive together with typing and
  ownership: a `PAUSED` page is held or stepping, and only a step that is not
  finished keeps the timer's flag.
- `MotionIsOwned`: what a wire carries is not enough, since the worker sends again
  what the table held when it copied. `MotionInv` says in addition that only a
  running or stepping robot of the scenario has motion in the table, and that
  a copy the worker still holds has a motion only in such a state or where the
  table has a zero in its place already. The stale motion that may leave then is
  the one the property names: the table holds its zero, which is what the worker
  repeats next.
- `StoppedRobotsAreStill`: a stop reaches the robots of the runtime's paths, and
  that these are the robots of the scenario comes from `RuntimeFollows`. It also
  rests on the order in `emergency_stop`: the worker is joined, with all of its
  copy sent or given up on, before the zeroes leave. What remains is a worker that
  the join timed out on, whose motion the model marks (`stray`).
- `RunsAreCountedOnce`: `AccountInv` relates the row counters of all runs to the
  run id: each earlier run has one row or a recorder that raised, the open one
  has none, and outside the executing states nothing is open.

### Dispatcher (`CommandDispatcherProofs`)

For any number of robots, threads and commands: `DispatcherTypes`,
`SingleWorker`, `LateOnce`, `StopHolds`. `LateOnce` needs a strengthening: the
table holds for a robot the last command issued to it or nothing, and a worker
that has been late with a robot has nothing older left for it in its copy.
`StopHolds` follows from `SingleWorker`: with no thread and none abandoned, no
worker is left to send.

### Routes (`RouteProofs`)

For all waypoints, setups and dead zones. Assumed: points beside the endpoints
are none of them and none stands where another stands for, and "no output" is no
output, which only gives the names of the model distinct meanings.

- `GateIsNeverAstray`, `KeptRoutesAreClear`, `DriftStaysBounded`, all from
  `RouteInv`: the executor's path is what the gate's route ends with, and less
  than all of it when a waypoint was passed since the last call (`Follows`);
  before the first route both are empty; while the gate holds a route, the output
  that a graph planner remembers is not the straight leg; under the event policy
  without periodic frames the Voronoi gate remembers the endpoint its route was
  built for. The last two
  properties are about the last call, so they are conjuncts of the invariant. An
  answer is direct, kept or built, and one lemma for each planner shows that its
  answers are of these three kinds. Without a planning clearance the gate refuses
  exactly what the planner's own check refuses; with one, a kept leg is free of
  obstacles but may be nearer than the clearance, and the last property is not
  claimed.

### Planners (also `RouteProofs`)

For every field, trip, set of obstacles, placement of sites and set of samples.
Assumed: obstacles, trips and samples are on the model's lattice, of the first
finitely many; the planning circle is smaller than the padded one and than the
map's clearance; the waypoints of a circle are on the square around it
(`REACH * REACH = 2 * PADDED2`).

- `RoutesKeepClear`: every segment that a route may use passes the check that
  the reroute gate makes of it on the same scene. A planner checks a segment once,
  from one end, against its own radius and with its own comparison; the gate asks
  for both directions. The proof has three parts.
  - The call: `SearchInv` is the property and that the request is one that `plan`
    takes; each answer (`DirectIsClear`, `RoadmapIsClear`, `VisibilityIsClear`,
    `SplicedIsClear`) consists of clear segments.
  - Geometry: the distance to a segment, computed in three cases by
    `distance_2_segment`, does not depend on the end it is taken from
    (`SegmentTurns`). The case between the ends is a fraction over the squared
    length; it is scaled and compared in `MeasureIs`, `DistanceIs` and
    `CompareFractions`, in integers. A chord between two waypoints of one circle
    touches it and no more (`ChordTouches`).
  - Data: corners of cells are points with a positive third coordinate, however
    many half-planes cut them. That is an induction over a greatest common
    divisor, over the flattening of a sequence and over a fold of clips, each done
    by a least counterexample (`LeastElement`), and needs that all the grids of
    virtual sites are finite sets of lattice points.

  `RouteFollowing` takes it for granted that a route just built is free. This
  theorem is the reason, but for a chord of the visibility graph, which may touch
  its circle and is called blocked in exact arithmetic.
- `CellsAreVoronoi`: `_build_cells` cuts the corridor by one bisector after the
  other, with corners that fall on a border, cells that vanish and sites that
  coincide in every combination; what is left is exactly the part of the corridor
  that no other site is nearer to.
  - The invariant of the cutting is `Encloses(polygon, lines)`: every corner is in
    all the half-planes so far, every point of them is on the left of each side
    and between corners on both axes, and the polygon is empty or has three
    corners. Corners inside alone would allow a polygon too small; that it holds
    the region is what a corner lost by a clip would break.
  - `ClippedCorners` says which corners `Clip` produces and which follow which,
    around the end of the flattened sequence too (`FlattenLinks`, an induction
    over its pieces). `ClipKeeps` is then one step of the cutting: sides are old
    ones, parts of old ones, or run from a cut where the border leaves to one where
    it enters (`CutTurns`); on neither axis is anything left further out than all
    new corners (`ClipReaches`, from `CutsReach`).
  - `WithinIsRegion` is the other direction: nothing but the region is held. It
    rests on `NoLineBetween`: from a point beyond a half-plane that holds all
    corners, to be on the left of every side would put all corners on one ray.
    Both are identities between determinants (`FourPoints`, `TwoLines`) and signs,
    in integers, so they hold of points with fractional coordinates too; the
    invariant asks for those of the lattice.
  - `FoldKeeps` carries a step over the fold of the clips, in whatever order they
    are taken; `CornerSeen` and `NearerIsBeyond` say that the tests of the
    invariant are the ones about lines.

### Headless episode (`HeadlessEpisodeProofs`)

For any robots, pairs, steps, periods, limits and lengths. Assumed: finitely many
robots and pairs, positive step, period and end.

- `RoutesAreAccountedFor`: `LedgerInv` balances the opened routes twice: with
  those closed and still open, and, apart from replaced ones, with the robots
  that ever had a route. Its steps need `LoopInv`, the fields of a robot that fit
  together (a waiting robot has no route, a failed one a reason). A control cycle
  moves sums over all robots at once; they are cardinalities of disjoint sets.
- `ResultIsTrue`: from `EndInv`, with `ContactInv`: what is touched at an instant
  was counted by the step that led there or by the look at the start, so that no
  collision is counted without a contact.
- `LimitIsHeld`: `ClockInv` says that control instants are on the grid of the
  period, that the next one is never more than a period away, and that a robot's
  streak began at an instant of the grid. Then two checks on either side of the
  limit are one period apart, by arithmetic of multiples (`WholePeriods`,
  `PeriodsBeforeLimit`).

### Motion of obstacles (also `HeadlessEpisodeProofs`)

For any velocity, route, border and time, in integers:

- `ObstacleStaysOnField`: all of a moving body stays on the field. The argument
  is that the fold of `_reflect` lands in its interval whatever the number of
  reflections (`ReflectStaysInside`).
- `ObstacleNeverJumps`, `PatrolNeverJumps`: between two times a body goes no
  further than its speed allows, reflections and turns included. The fold is
  a distance to the nearest multiple of twice the span, and that is Lipschitz:
  the two remainders differ by the difference of the coordinates or by that and
  a whole turn.
- `ReflectRunsStraight`: up to the border and on it, a coordinate moves in the
  direction that is reported, whichever of the two it is. A remainder moves with
  its number as long as it stays one (`RemainderMoves`), and the folded half runs
  backwards.
- `ObstacleIsPredictable`: so a moving obstacle is after any time exactly where its
  position and velocity put it, as long as that is inside its border. This is what
  a planner that predicts takes for granted.

### Headless batch (`HeadlessBatchProofs`)

For any scenarios, requests, folders and numbers of calls and faults. Assumed of
a request: what the options of the command line give, one value or more of each.

- `ManifestsAreTrue`, `FinishedFoldersStay`, under `~Overlap`: section 4 has the
  case with two calls at once, for which both fail. `FolderInv` follows a call
  through its files: those written so far are its own, the folder held none
  before, the manifest is the last. A folder with a manifest then belongs to a
  call that has ended.
- `TablesAreMatched`: from `ResultInv`, that a running call has results of jobs
  of its request only, and of all when it writes; on grSim none of them is
  classed, and the property claims one outcome for each run of the built-in model only. The rows of an arm count the
  scenarios of its label: the jobs of two groups of a label are in a one-to-one
  correspondence that keeps what is counted.

### Simulator (`SimulatorProofs`)

For any number of processes and of crashes of the console; the only assumption is
that no process is called none. `NothingIsLeftBehind` and `StartsAreBound` are
parts of `LinkInv`: the living child that a console reads is the process it
holds, there is none when it joins the reader, and a ready line in the pipe, an
event that is set and a bound child each go back to the process of the last start
or to a line that was unread when it began. The server's loop is any step that
leaves the link alone.

### Physics trial (also `SimulatorProofs`)

For any cameras, length of the trial, settling time, size of the socket, number
of ticks and of faults. Assumed: a finite set of cameras, positive times, and
that "no observation" is no observation.

- `PassedTrialsAreClean`: the runner sees some of the ticks and must speak about
  all. `HistoryInv` says that there is a sequence of one observation for every
  tick of the engine, each following from the one before, in which everything in
  the socket and all that the runner has read is found; it is an existential
  inside the invariant, so that the model needs no variable for it. `CleanSoFar`
  then says what a run without a gap and without a contact knows: none since the
  first frame, and the robots have rested since the frame from which they count
  as settled. A gap in the frames is counted before a contact can hide in it.

### Vision (`VisionProofs`)

For all cameras, losses, restarts and faults, and any size of history, queue and
window. Assumed: the list of cameras names each once, which is a cycle of the
source.

- `FrameListAgrees`: `StoreInv`, deque and dictionary are copies of each other
  and the map is of the last. Inductive as it stands.
- `DetectionsAreNew`: `OrderInv` orders what is under way: the socket holds ever
  later detections of a camera, later than what the assembler saw of it, and a
  camera that is still to publish has been seen in earlier cycles only.
- `OnlyBurstsEndWorkers`: `BurstInv` relates the worker's counter, which knows
  the first failure of its burst and their number, to the ages of all failures in
  the window: the counter's are the latest ones, and before them lie at most
  `MAX_ERRORS - 2`.

### World pipeline (also `VisionProofs`)

For any cameras, robots, feeds, balls and interval.

- `ScenesKeepUp`: `SceneInv` says that the time and mode of the last rebuilding
  are those of the scene and that there is a scene as soon as there is a snapshot.
  The pipeline decides on the former and planners read the latter. Ages count back
  from the present and saturate; that they are equal survives both.

### Planner tab (`ScenarioProofs`)

For all identities, spots, planners and patrol lengths. Assumed: the folder holds
scenarios in which no identity plays two parts, and a snapshot is a list of
obstacles. Consoles before this one saved the files: the theorem below says that
what they saved is such a scenario, and that nothing else is saved.

- `NoIdentityTwice`: `EditorInv` holds the same of the scenario being edited and
  of every file, the selections inside the lists that an edit replaces in or
  deletes from, and, for every path that is or can be drawn, that it was not
  planned around its own robot. What `set_robot` and `set_obstacle` drop is a
  recursive function; that the rest keeps its elements and their order
  (`KeptFacts`) is proved through a least counterexample, since the induction
  rules of the library take an operator.
- `PreviewsAreCurrent`: inductive but for one conjunct, that a preview is a
  record: Clear changes its paths and must leave what it is of.

### Scenario generator (also `ScenarioProofs`)

A relation, in integers:

- `KeysFitTeams`: every body has an identity of its own that its team allows, if
  there are at most 16 robots; section 4 has the case with more.
- `StreamsDiffer`: two scenarios of a set have different seeds, for indices
  below the factor of the seed.
- `BodiesStartApart`: no two bodies start closer than the separation, although
  each is compared with the earlier ones only.
- `JitterStaysNear`: the clamp never carries a jittered position outside its
  step or the field.

`ObstacleMotion` and `ScenarioGenerator` keep no state and have no run: there is
nothing to explore, and what TLC could check of them on small numbers the
theorems say for all. The factors 1 000 003 and 7919 are constants with the
theorem's bound in their place.

## 6. What is only model-checked

- The liveness properties, which need fairness and `ENABLED` and so are out of the
  prover's reach: `ConfirmationEnds`, `StaleRunEnds`, `LostSendIsRepeated`,
  `SilenceStops`, `EpisodeEnds`, `ShutdownCompletes`, `StillBallIsFound`,
  `StopEnds`, `SilentRobotsRest`, `TrialEnds`. Every invariant and every other
  property of a passing run has a theorem.
- `LaterBlockedIsAnEvent`, of the run that expects a violation, and the five
  properties of section 4.
- That the worker of `ExecutionConsole` abstracts the threads of
  `CommandDispatcher` is neither checked nor proved. It copies the table between
  two slots only; a copy in the middle of a slot, which mixes the commands of two,
  and the end of a join in the middle of a send are in `CommandDispatcher`.

## 7. Limits, and what is not modelled

- Every loss and every exception of a slot is modelled where it changes what the
  properties read. Exceptions of drawing or table code are not.
- `_get_sender` rebuilds the sender without a lock on two threads; the models
  have one sender that works or raises.
- An emergency stop after an unload reaches no robot and shows STOPPED;
  `StoppedIsStill` is stated for a loaded scenario.
- Geometry is exact where it is modelled (`Plane`) and a choice elsewhere. What
  rounding does to a chord that touches a circle is outside.
- Which of the possible routes is shortest, risk weights, percentiles, velocity
  laws, filtering of balls and robots are arithmetic without control and left
  out.
- `TypeOK` of the modules listed in section 3 is not part of a run.
- Not modelled at all: packet layouts and sockets (`network/`, but for the call
  that listens), recording files, configuration, rendering and the render
  worker, `world/shapes.py`, `world/map/observer.py`, and the scripts under
  `src/scripts/`. They have no state that another component's correctness
  depends on, or only draw, parse or write. `PROJECT.json` gives the reason for
  each. The live canvas, the configuration page and the retries of the vision
  monitor in `ui/app.py` are not modelled either.

## 8. Plan

- State that `CommandDispatcher`'s threads implement the worker of
  `ExecutionConsole`: its copies, its sends and what a stop waits for.
- A model of the runtime's cached sender (`_get_sender`) with its two threads, which
  would cover the first hazard without a property.
- Coordinates are exact; an error bound for `distance_2_segment` under rounding
  would say how far the floating-point gate may differ.
