---------------------------- MODULE RoadmapSearch ----------------------------
(***************************************************************************)
(* One planning call of each planner, from the request to its answer:      *)
(* plan() of planners/PRM/prm_dijkstra.py, of                              *)
(* planners/VisibilityGraph/visibility_graph.py and of                     *)
(* VoronoiDijkstraPlanner. All three build a graph of free segments and    *)
(* leave the search to networkx.dijkstra_path (external), of which only    *)
(* this is used: it finds a path inside the graph if there is one. The     *)
(* answer is therefore kept as the set of segments its route may use.      *)
(*                                                                         *)
(* Lengths are squared: BODY2 of obstacle + robot radius, what the gate    *)
(* checks for Voronoi; PADDED2 of the same + clearance_mm, what PRM and    *)
(* the visibility graph plan and are checked with.                         *)
(***************************************************************************)
EXTENDS VoronoiMap

CONSTANTS Planners, Spots, Trips,       \* obstacle positions, <<start, goal>>
          MAX_OBSTACLES,
          BODY2, PADDED2,
          REACH,          \* vertex_radius of a visibility polygon, with REACH^2 = 2 * PADDED2
          Pool,           \* where PRM's samples may fall
          NUM_SAMPLES, K_NEIGHBOURS, MAX_RESAMPLE_ATTEMPTS,
          CONNECTIONS, CONNECTION_RADIUS2,
          GOAL_HALF       \* GOAL_HALF_WIDTH_MM

ASSUME SearchAssumption ==
    /\ Planners \subseteq {"prm", "visibility", "voronoi"}
    /\ Spots \subseteq Lattice /\ IsFiniteSet(Spots) /\ Pool \subseteq Lattice
    /\ Trips \subseteq Lattice \X Lattice
    /\ {BODY2, PADDED2} \subseteq Int /\ REACH \in Nat /\ BODY2 >= 0
    /\ BODY2 < PADDED2 /\ BODY2 < MAP2 /\ REACH * REACH = 2 * PADDED2
    /\ CONNECTIONS > 0 /\ K_NEIGHBOURS > 0 /\ MAX_RESAMPLE_ATTEMPTS > 0

VARIABLES planner, obstacles, trip,     \* the request
          virtual,                      \* the virtual sites of the planner's map
          attempt,                      \* PRM's resampling attempts so far
          status,                       \* "open", or how the call ended
          legs                          \* the segments the route may use

request == <<planner, obstacles, trip, virtual>>
searchVars == <<planner, obstacles, trip, virtual, attempt, status, legs>>

Start == trip[1]
Target == trip[2]

-----------------------------------------------------------------------------
AtMost(a, b) == a <= b
Below(a, b) == a < b

\* PlanningScene.is_path_free at a given squared radius.
IsPathFree(p, q, r2) == \A o \in obstacles : ~FromSegment(AtMost, o, p, q, r2)

\* The same of _ObstaclePathMap, as VoronoiDijkstraPlanner calls it: no clearance.
BodyFree(p, q) == IsPathFree(p, q, BODY2)

\* _segment_free of PRM, and _visible, which lets a segment touch the circle.
SegmentFree(p, q) == IsPathFree(p, q, PADDED2)

Visible(p, q, over) == \A o \in obstacles \ over : ~FromSegment(Below, o, p, q, PADDED2)

\* The zones an obstacle has for each planner, and those that hold a point.
ZONE2 == IF planner = "voronoi" THEN BODY2 ELSE PADDED2
ZonesOf(p) == {o \in obstacles : Within(AtMost, o, p, ZONE2)}

\* _point_in_any_obstacle.
Inside(p) == ZonesOf(p) # {}

\* escape_waypoint: away from the zones that hold the start, unless they
\* push against each other.
MayEscape == ZonesOf(Start) # {}
MayStay == Cardinality(ZonesOf(Start)) # 1

Refuses == planner \in {"prm", "visibility"} /\ (Inside(Start) \/ Inside(Target))

DirectIsFree == CASE planner = "prm" -> SegmentFree(Start, Target)
                  [] planner = "visibility" -> Visible(Start, Target, {})
                  [] planner = "voronoi" -> BodyFree(Start, Target)

-----------------------------------------------------------------------------
(* PRM: random milestones, each linked to its nearest neighbours (to all of *)
(* those equally near, of which the code takes the first).                 *)

Nearest(p, others, k) ==
    {q \in others \ {p} : Cardinality({o \in others \ {p} : Nearer(p, o, q)}) < k}

Neighbours(p, free) == Nearest(p, free, K_NEIGHBOURS)

Roadmap(samples) ==
    LET free == {p \in samples : ~Inside(p)} \cup {Start, Target}
    IN  {{e[1], e[2]} : e \in {e \in free \X free : /\ e[2] \in Neighbours(e[1], free)
                                                     /\ SegmentFree(e[1], e[2])}}

-----------------------------------------------------------------------------
(* The visibility graph, with four waypoints around each obstacle. The     *)
(* chord of two neighbouring waypoints touches their own circle.           *)

\* Fault: waypoints sit on the circle itself instead of around it.
CircleWaypointsOn(o) == <<At(o[1] + 1, o[2] + 1), At(o[1] - 1, o[2] + 1),
                          At(o[1] - 1, o[2] - 1), At(o[1] + 1, o[2] - 1)>>

CircleWaypoints(o) == <<At(o[1] + REACH, o[2]), At(o[1], o[2] + REACH),
                        At(o[1] - REACH, o[2]), At(o[1], o[2] - REACH)>>

Vertices == {[at |-> CircleWaypoints(o)[i], of |-> {o}, i |-> i] : o \in obstacles, i \in 1 .. 4}
            \cup {[at |-> p, of |-> {}, i |-> 0] : p \in {Start, Target}}

Adjacent(u, v) == Size(u.i - v.i) \in {1, 3}

MaySee(u, v) ==
    IF u.of # {} /\ u.of = v.of THEN Adjacent(u, v) /\ Visible(u.at, v.at, u.of)
    ELSE Visible(u.at, v.at, {})

VisibilityEdges == {{e[1].at, e[2].at} : e \in {e \in Vertices \X Vertices :
                                                  e[1].at # e[2].at /\ MaySee(e[1], e[2])}}

-----------------------------------------------------------------------------
(* Voronoi: start and target spliced into the map.                         *)

\* _connect_temporary_node: the nearest free nodes within the radius, or the
\* nearest one beyond it.
Connected(p, nodes) ==
    LET free  == {n \in nodes : BodyFree(p, n)}
        close == {n \in free : Within(AtMost, p, n, CONNECTION_RADIUS2)}
    IN  {{p, n} : n \in IF close # {} THEN Nearest(p, close, CONNECTIONS) ELSE Nearest(p, free, 1)}

\* A route that meets an end line in the goal mouth is thrown away after the
\* search. The map's nodes are inside the field: only a trip can end there.
InGoalMouth(p) == /\ p[1] \in {Field[1], Field[2]}
                  /\ Size(2 * p[2] - Field[3] - Field[4]) <= 2 * GOAL_HALF

Spliced(edges) == edges \cup Connected(Start, UNION edges) \cup Connected(Target, UNION edges)

-----------------------------------------------------------------------------
SearchInit ==
    /\ planner \in Planners
    /\ obstacles \in {o \in SUBSET Spots : Cardinality(o) \in 1 .. MAX_OBSTACLES}
    /\ trip \in Trips
    /\ virtual \in IF planner # "voronoi" THEN {{}} ELSE UNION {VirtualSites(p) : p \in Placements}
    /\ attempt = 0 /\ status = "open" /\ legs = {}

EndsAs(s, l) == status' = s /\ legs' = l /\ UNCHANGED request

Opening == status = "open" /\ attempt = 0

Escape == Opening /\ MayEscape /\ EndsAs("escaped", {}) /\ UNCHANGED attempt

\* "start or goal lies inside an inflated obstacle".
Refuse == Opening /\ MayStay /\ Refuses /\ EndsAs("refused", {}) /\ UNCHANGED attempt

GoDirect == /\ Opening /\ MayStay /\ ~Refuses /\ DirectIsFree
            /\ EndsAs("direct", {{Start, Target}}) /\ UNCHANGED attempt

\* dijkstra_path, or NetworkXNoPath.
Answer(edges, otherwise) ==
    LET component == Reached({Start}, edges)
    IN  IF Target \in component THEN EndsAs("found", {e \in edges : e \subseteq component})
        ELSE EndsAs(otherwise, {})

Searching == status = "open" /\ MayStay /\ ~Refuses /\ ~DirectIsFree

Attempt ==
    /\ Searching /\ planner = "prm"
    /\ attempt < MAX_RESAMPLE_ATTEMPTS
    /\ attempt' = attempt + 1
    /\ \E samples \in SUBSET Pool :
          /\ Cardinality(samples) = NUM_SAMPLES
          /\ Answer(Roadmap(samples), IF attempt' = MAX_RESAMPLE_ATTEMPTS THEN "failed" ELSE "open")

SearchVisibility ==
    /\ Searching /\ planner = "visibility"
    /\ Answer(VisibilityEdges, "failed") /\ UNCHANGED attempt

SearchVoronoi ==
    /\ Searching /\ planner = "voronoi"
    /\ \/ ~InGoalMouth(Start) /\ ~InGoalMouth(Target)
          /\ Answer(Spliced(Generated(virtual, obstacles).edges), "failed")
       \/ (InGoalMouth(Start) \/ InGoalMouth(Target)) /\ EndsAs("failed", {})
    /\ UNCHANGED attempt

SearchNext == Escape \/ Refuse \/ GoDirect \/ Attempt \/ SearchVisibility \/ SearchVoronoi

SearchSpec == SearchInit /\ [][SearchNext]_searchVars

-----------------------------------------------------------------------------
(* What is required.                                                       *)

\* Every segment a route may use passes the check that the reroute gate
\* makes of it on the same scene (is_path_free): what a planner builds, its
\* own gate does not call blocked. The visibility graph's chords touch the
\* circle, which the gate's <= counts as blocked but for rounding.
RouteKeepsClear ==
    \A e \in legs : \A p, q \in e : p # q =>
        CASE planner = "prm" -> IsPathFree(p, q, PADDED2)
          [] planner = "visibility" -> Visible(p, q, {})
          [] planner = "voronoi" -> IsPathFree(p, q, BODY2)

\* A point is in a cell if it is on no side's outer side; the extent matters
\* where a cell has shrunk to a line on the corridor's edge.
InCell(p, cell) ==
    LET Corner(i) == From(cell[i], p)
    IN  /\ \A i \in DOMAIN cell :
               Cross(Corner(i), Direction(cell[i], cell[(i % Len(cell)) + 1])) <= 0
        /\ \A axis \in {1, 2} : \E i, j \in DOMAIN cell : Corner(i)[axis] <= 0 /\ Corner(j)[axis] >= 0

\* The map's cells are the Voronoi cells of its sites: a point of the
\* corridor lies in the cell of exactly the sites nearest to it (_build_cells).
CellsAreNearest ==
    planner = "voronoi" =>
        LET map == Generated(virtual, obstacles)
            points == {At(x, y) : x \in Corridor[1] .. Corridor[2], y \in Corridor[3] .. Corridor[4]}
        IN  \A s \in map.sites : \A p \in points :
                InCell(p, map.cells[s]) <=> ~\E o \in map.sites : Nearer(p, o, s)
=============================================================================
