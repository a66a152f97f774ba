--------------------------- MODULE ScenarioEditor ---------------------------
(* The Scenario Planner tab: the scenario being edited, the canvas with its   *)
(* tools and selections, the two inspector lists, the preview of the last     *)
(* plan with its times, and the scenario files (ui/app.py ScenarioPlannerPage *)
(* and ScenarioPlannerCanvas, ui/scenarios.py, and PlannerPreviewBuilder of   *)
(* ui/session.py).  Qt delivers one event at a time, so each handler is one   *)
(* action.                                                                    *)
(*                                                                            *)
(* A robot's or obstacle's identity (team and number) is one identifier, a    *)
(* position one of a few spots, a click is on a spot or on the middle of a    *)
(* drawn path, and a patrol is the number of its waypoints.  Names, texts,    *)
(* radii, the ball and drawing are left out, and so are the path of the file, *)
(* which nothing reads, and the live scene that predict_motion plans around.  *)
EXTENDS Integers, FiniteSets, SequencesExt

CONSTANTS
    Ids,            \* identities of robots and obstacles
    Spots,          \* the positions that are clicked and stored
    Planners,       \* labels of the planner selector
    Files,          \* names of scenario files
    FirstFiles,     \* the files the folder holds when the console starts
    Snapshots,      \* obstacle sequences that grSim snapshots give
    MAX_PATROL,     \* bound: waypoints of one patrol
    NoScenario, NoTarget, NoPreview

Robots == [id : Ids, start : Spots, target : Spots \cup {NoTarget}]
Obstacles == [id : Ids, keys : Planners \cup {"all"}, pos : Spots, patrol : 0 .. MAX_PATROL]
Scenarios == [robots : Seq(Robots), obstacles : Seq(Obstacles)]

(* no identity is two robots, or a robot and an obstacle *)
OneRole(s) ==
    /\ \A i, j \in DOMAIN s.robots : s.robots[i].id = s.robots[j].id => i = j
    /\ \A i \in DOMAIN s.robots, j \in DOMAIN s.obstacles : s.robots[i].id # s.obstacles[j].id

(* The folder holds what earlier consoles saved, which nothing checks again. *)
ASSUME EditorAssumption ==
    /\ MAX_PATROL \in Nat /\ IsFiniteSet(Ids)
    /\ NoTarget \notin Spots /\ Planners # {}
    /\ NoScenario \notin Scenarios
    /\ Snapshots \subseteq Seq(Obstacles)
    /\ \A f \in DOMAIN FirstFiles : FirstFiles[f] \in Scenarios /\ OneRole(FirstFiles[f])

VARIABLES
    scenario,       \* page.scenario, which canvas.scenario is
    files,          \* the files of the store's folder
    mode,           \* canvas.mode
    chosen,         \* canvas.selected_robot and selected_obstacle (0: None)
    rows,           \* current row of the robot list and of the obstacle list
    targetTool,     \* whether the Target position button is enabled
    planner,        \* label in the planner selector
    runtimePlanner, \* the planner that is set in the shared runtime
    preview,        \* page.previews and page.metrics: of one planner or of none
    shown,          \* canvas.preview: the paths drawn
    times           \* whether the Map and Plan labels show times

scene == <<scenario, files>>
vars == <<scene, mode, chosen, rows, targetTool, planner, runtimePlanner, preview, shown, times>>

Modes == {"obstacles", "starting_pos", "target_pos", "patrol"}
Nothing == [robot |-> 0, obstacle |-> 0]
OnlyRobot(i) == [robot |-> i, obstacle |-> 0]
OnlyObstacle(i) == [robot |-> 0, obstacle |-> i]

Robot(id, start, target) == [id |-> id, start |-> start, target |-> target]
Obstacle(id, keys, pos) == [id |-> id, keys |-> keys, pos |-> pos, patrol |-> 0]
Scenario(robots, obstacles) == [robots |-> robots, obstacles |-> obstacles]
Without(s, i) == RemoveAt(s, i)
(* what is left of a list without one identity, in its order *)
Kept(s, id) ==
    LET kept[n \in 0 .. Len(s)] ==
            IF n = 0 THEN <<>> ELSE IF s[n].id = id THEN kept[n - 1] ELSE Append(kept[n - 1], s[n])
    IN  kept[Len(s)]

(* Bug: only the clicked layout's obstacle becomes the robot *)
SetRobotKeepsLayouts(s, r) ==
    LET at == SelectInSeq(s.robots, LAMBDA c : c.id = r.id) IN
    Scenario(IF at = 0 THEN Append(s.robots, r) ELSE [s.robots EXCEPT ![at] = r], s.obstacles)
(* set_robot: an identity is one robot and no obstacle of any layout *)
SetRobot(s, r) ==
    LET at == SelectInSeq(s.robots, LAMBDA c : c.id = r.id) IN
    Scenario(IF at = 0 THEN Append(s.robots, r) ELSE [s.robots EXCEPT ![at] = r],
             Kept(s.obstacles, r.id))
(* set_obstacle: one obstacle of an identity in one layout, and no robot *)
SetObstacle(s, o) ==
    LET at == SelectInSeq(s.obstacles, LAMBDA c : c.id = o.id /\ c.keys = o.keys) IN
    Scenario(Kept(s.robots, o.id),
             IF at = 0 THEN Append(s.obstacles, o) ELSE [s.obstacles EXCEPT ![at] = o])
(* validation_errors: every robot has its target *)
Complete(s) == \A i \in DOMAIN s.robots : s.robots[i].target # NoTarget

Init ==
    /\ scenario = NoScenario /\ files = FirstFiles
    /\ mode = "starting_pos" /\ chosen = Nothing /\ rows = Nothing /\ targetTool = TRUE
    /\ planner \in Planners /\ runtimePlanner = NoPreview
    /\ preview = NoPreview /\ shown = <<>> /\ times = FALSE

----------------------------------------------------------------------------
(* _refresh_inspectors fills both lists again, signals blocked *)
Refilled(c) == rows' = c
(* _refresh_controls: the target tool follows the selected robot, and a tool  *)
(* without one falls back to the starting position                            *)
Controls(s, c) ==
    LET has == c.robot # 0 /\ c.robot <= Len(s.robots) IN
    /\ targetTool' = has
    /\ mode' = IF ~has /\ mode = "target_pos" THEN "starting_pos" ELSE mode

(* Bug: an edit clears the canvas and the times only *)
EditedKeepsMetrics(s, c) ==
    /\ scenario' = s /\ chosen' = c /\ Refilled(c) /\ Controls(s, c)
    /\ shown' = <<>> /\ times' = FALSE
    /\ UNCHANGED <<files, planner, runtimePlanner, preview>>
(* _commit_edit and the _scenario_edited it signals *)
Edited(s, c) ==
    /\ scenario' = s /\ chosen' = c /\ Refilled(c) /\ Controls(s, c)
    /\ preview' = NoPreview /\ shown' = <<>> /\ times' = FALSE
    /\ UNCHANGED <<files, planner, runtimePlanner>>
(* selection_changed alone *)
Selected(c) ==
    /\ chosen' = c /\ Refilled(c)
    /\ UNCHANGED <<scene, mode, targetTool, planner, runtimePlanner, preview, shown, times>>

(* _install_scenario: the times stay as they are *)
Install(s) ==
    /\ scenario' = s /\ chosen' = Nothing /\ Refilled(Nothing) /\ Controls(s, Nothing)
    /\ preview' = NoPreview /\ shown' = <<>>
    /\ UNCHANGED <<files, planner, runtimePlanner, times>>
LoadFromGrSim == \E o \in Snapshots : Install(Scenario(<<>>, o))
AddNew == Install(Scenario(<<>>, <<>>))
Load(f) == f \in DOMAIN files /\ Install(files[f])
(* the name that was typed decides the file, and one that is there is written over *)
Save(f) ==
    /\ scenario # NoScenario /\ Complete(scenario)
    /\ files' = [g \in DOMAIN files \cup {f} |-> IF g = f THEN scenario ELSE files[g]]
    /\ UNCHANGED <<scenario, mode, chosen, rows, targetTool, planner, runtimePlanner, preview,
                   shown, times>>
Delete(f) ==
    /\ f \in DOMAIN files
    /\ files' = [g \in DOMAIN files \ {f} |-> files[g]]
    /\ UNCHANGED <<scenario, mode, chosen, rows, targetTool, planner, runtimePlanner, preview,
                   shown, times>>

----------------------------------------------------------------------------
(* _select_tool; without a robot the target tool only refreshes the controls  *)
SelectTool(t) ==
    /\ t = "target_pos" => targetTool
    /\ IF t = "target_pos" /\ chosen.robot = 0
       THEN /\ targetTool' = FALSE
            /\ mode' = IF mode = "target_pos" THEN "starting_pos" ELSE mode
       ELSE mode' = t /\ UNCHANGED targetTool
    /\ UNCHANGED <<scene, chosen, rows, planner, runtimePlanner, preview, shown, times>>

RobotAt(p) == SelectInSeq(scenario.robots, LAMBDA r : r.start = p)
ObstacleAt(p) == SelectInSeq(scenario.obstacles, LAMBDA o : o.pos = p)
Drawn == {i \in DOMAIN shown : ~shown[i].failed}
(* the robot of the first drawn path that starts or ends at p *)
PathAt(p) == LET i == SelectInSeq(shown, LAMBDA w : ~w.failed /\ p \in {w.start, w.target}) IN
             IF i = 0 THEN 0 ELSE SelectInSeq(scenario.robots, LAMBDA r : r.id = shown[i].id)

ClickPath(i) ==
    /\ scenario # NoScenario /\ i \in Drawn
    /\ \E k \in DOMAIN scenario.robots : scenario.robots[k].id = shown[i].id /\ Selected(OnlyRobot(k))
ClickPathEnd(p) == scenario # NoScenario /\ PathAt(p) # 0 /\ Selected(OnlyRobot(PathAt(p)))

OnField(p, m) == scenario # NoScenario /\ mode = m /\ PathAt(p) = 0
(* the obstacle tool: a robot becomes an obstacle of every planner, another   *)
(* obstacle is selected, and the selected one moves to an empty spot          *)
ConvertToObstacle(p) ==
    /\ OnField(p, "obstacles") /\ RobotAt(p) # 0
    /\ LET r == scenario.robots[RobotAt(p)]
           s == SetObstacle([scenario EXCEPT !.robots = Without(@, RobotAt(p))],
                            Obstacle(r.id, "all", r.start))
       IN Edited(s, OnlyObstacle(SelectInSeq(s.obstacles, LAMBDA o : o.id = r.id)))
SelectObstacle(p) ==
    /\ \/ OnField(p, "obstacles") /\ RobotAt(p) = 0
       \/ OnField(p, "patrol")
    /\ ObstacleAt(p) # 0 /\ Selected(OnlyObstacle(ObstacleAt(p)))
MoveObstacle(p) ==
    /\ OnField(p, "obstacles") /\ RobotAt(p) = 0 /\ ObstacleAt(p) = 0 /\ chosen.obstacle # 0
    /\ Edited([scenario EXCEPT !.obstacles[chosen.obstacle].pos = p], chosen)

(* the starting position tool: an obstacle becomes a robot without a target,  *)
(* another robot is selected, and the selected one moves to an empty spot     *)
ConvertToRobot(p) ==
    /\ OnField(p, "starting_pos") /\ ObstacleAt(p) # 0
    /\ LET o == scenario.obstacles[ObstacleAt(p)]
           s == SetRobot([scenario EXCEPT !.obstacles = Without(@, ObstacleAt(p))],
                         Robot(o.id, o.pos, NoTarget))
       IN Edited(s, OnlyRobot(SelectInSeq(s.robots, LAMBDA r : r.id = o.id)))
SelectRobot(p) ==
    /\ OnField(p, "starting_pos") /\ ObstacleAt(p) = 0 /\ RobotAt(p) # 0
    /\ Selected(OnlyRobot(RobotAt(p)))
MoveRobot(p) ==
    /\ OnField(p, "starting_pos") /\ ObstacleAt(p) = 0 /\ RobotAt(p) = 0 /\ chosen.robot # 0
    /\ Edited([scenario EXCEPT !.robots[chosen.robot].start = p], chosen)

SetTarget(p) ==
    /\ OnField(p, "target_pos") /\ chosen.robot # 0
    /\ Edited([scenario EXCEPT !.robots[chosen.robot].target = p], chosen)
AddWaypoint(p) ==
    /\ OnField(p, "patrol") /\ ObstacleAt(p) = 0 /\ chosen.obstacle # 0
    /\ scenario.obstacles[chosen.obstacle].patrol < MAX_PATROL
    /\ Edited([scenario EXCEPT !.obstacles[chosen.obstacle].patrol = @ + 1], chosen)

(* the delete key takes the selected obstacle, or else the selected robot *)
DeleteKey ==
    /\ scenario # NoScenario
    /\ \/ /\ chosen.obstacle # 0
          /\ Edited([scenario EXCEPT !.obstacles = Without(@, chosen.obstacle)],
                    OnlyRobot(chosen.robot))
       \/ /\ chosen.obstacle = 0 /\ chosen.robot # 0
          /\ Edited([scenario EXCEPT !.robots = Without(@, chosen.robot)], Nothing)

(* A list signals a row only when it was not its current row *)
RobotRow(i) ==
    /\ scenario # NoScenario /\ i \in DOMAIN scenario.robots /\ rows.robot # i
    /\ rows' = [rows EXCEPT !.robot = i] /\ chosen' = OnlyRobot(i) /\ Controls(scenario, OnlyRobot(i))
    /\ UNCHANGED <<scene, planner, runtimePlanner, preview, shown, times>>
ObstacleRow(i) ==
    /\ scenario # NoScenario /\ i \in DOMAIN scenario.obstacles /\ rows.obstacle # i
    /\ rows' = [rows EXCEPT !.obstacle = i] /\ chosen' = OnlyObstacle(i)
    /\ UNCHANGED <<scene, mode, targetTool, planner, runtimePlanner, preview, shown, times>>

----------------------------------------------------------------------------
(* _planner_changed: what is drawn and what the times say follow the label *)
Display(p, label) ==
    LET mine == p # NoPreview /\ p.label = label IN
    /\ shown' = IF mine THEN p.paths ELSE <<>>
    /\ times' = mine
(* _obstacles_for_robot: the obstacles of the planner's layout and every      *)
(* other robot at its start                                                   *)
Around(s, label, i) ==
    {<<o.id, o.pos>> : o \in {o \in ToSet(s.obstacles) : o.keys \in {"all", label}}}
    \cup {<<r.id, r.start>> : r \in ToSet(s.robots) \ {s.robots[i]}}
(* plan: a robot that no route is found for keeps its place and is marked     *)
Planned(s, label, failed) ==
    [i \in DOMAIN s.robots |-> [id |-> s.robots[i].id, start |-> s.robots[i].start,
                                target |-> s.robots[i].target, failed |-> i \in failed,
                                around |-> Around(s, label, i)]]
SetPlanner(label) == runtimePlanner' = label
(* PlannerPreviewBuilder.build: the planner is set, the robots are planned    *)
(* for and the metrics started                                                *)
Built(s, label) ==
    /\ SetPlanner(label)
    /\ \E failed \in SUBSET DOMAIN s.robots :
          preview' = [label |-> label, of |-> s, paths |-> Planned(s, label, failed)]
Plan ==
    /\ scenario # NoScenario /\ scenario.robots # <<>> /\ Complete(scenario)
    /\ Built(scenario, planner) /\ Display(preview', planner)
    /\ UNCHANGED <<scene, mode, chosen, rows, targetTool, planner>>
(* Clear erases the geometry and keeps the times *)
ClearPreview ==
    /\ preview' = IF preview = NoPreview THEN NoPreview ELSE [preview EXCEPT !.paths = <<>>]
    /\ shown' = <<>>
    /\ UNCHANGED <<scene, mode, chosen, rows, targetTool, planner, runtimePlanner, times>>
PlannerChanged ==
    /\ \E label \in Planners \ {planner} : planner' = label /\ Display(preview, label)
    /\ UNCHANGED <<scene, mode, chosen, rows, targetTool, runtimePlanner, preview>>

Click(p) ==
    \/ ClickPathEnd(p) \/ ConvertToObstacle(p) \/ SelectObstacle(p) \/ MoveObstacle(p)
    \/ ConvertToRobot(p) \/ SelectRobot(p) \/ MoveRobot(p) \/ SetTarget(p) \/ AddWaypoint(p)
Next ==
    \/ LoadFromGrSim \/ AddNew \/ Plan \/ ClearPreview \/ PlannerChanged \/ DeleteKey
    \/ \E f \in Files : Load(f) \/ Save(f) \/ Delete(f)
    \/ \E t \in Modes : SelectTool(t)
    \/ \E p \in Spots : Click(p)
    \/ \E i \in DOMAIN shown : ClickPath(i)
    \/ \E i \in 1..(2 * Cardinality(Ids)) : RobotRow(i) \/ ObstacleRow(i)
Spec == Init /\ [][Next]_vars

----------------------------------------------------------------------------
(* An identity is never both a robot that is planned for and an obstacle of   *)
(* any layout, and never two robots; so no robot is planned around its own    *)
(* body, which it could not leave.  The two conversions drop every layout of  *)
(* the identity, not only the one that was clicked (scenarios.py set_robot,   *)
(* set_obstacle; runtime.py _obstacles_for_robot).                            *)
OneRoleEach ==
    /\ scenario # NoScenario =>
          LET robots == {scenario.robots[i].id : i \in DOMAIN scenario.robots}
              others == {scenario.obstacles[i].id : i \in DOMAIN scenario.obstacles}
          IN robots \cap others = {} /\ Cardinality(robots) = Len(scenario.robots)
    /\ \A i \in DOMAIN shown : \A b \in shown[i].around : b[1] # shown[i].id

(* The stored preview with its metrics, which Export result A writes, and the *)
(* paths on the canvas are of the scenario as it is now, whatever was edited, *)
(* loaded, cleared or switched since (app.py _commit_edit, _scenario_edited). *)
PreviewIsCurrent ==
    /\ preview # NoPreview => preview.of = scenario
    /\ shown # <<>> => preview # NoPreview /\ shown = preview.paths /\ planner = preview.label

=============================================================================
