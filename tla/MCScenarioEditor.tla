-------------------------- MODULE MCScenarioEditor --------------------------
EXTENDS ScenarioEditor, TLC

CONSTANTS y0, b1, left, right, f1, voronoi, prm

(* a course of the time when each planner had its own obstacles *)
MCFirstFiles == f1 :> Scenario(<<Robot(y0, left, right)>>,
                               <<Obstacle(b1, prm, right), Obstacle(b1, voronoi, left)>>)
MCSnapshots == {<<Obstacle(y0, "all", left), Obstacle(b1, "all", right)>>}
=============================================================================
