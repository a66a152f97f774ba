----------------------------- MODULE VoronoiMap -----------------------------
(***************************************************************************)
(* world/map/voronoi/voronoi_generator.py: a field cut into the cells of   *)
(* the virtual sites and the obstacles, and the cell borders that keep     *)
(* their clearance as the edges of a navigation graph.                     *)
(***************************************************************************)
EXTENDS Plane

CONSTANTS Field,              \* <<x_min, x_max, y_min, y_max>>
          BOUNDARY,           \* boundary_inset_mm
          MIN_CLEARANCE,      \* min_clearance_mm
          MAX_DENSITY_NODES,
          Placements,         \* the placements asked for, records as VirtualSites reads them
          SitePool,           \* where random sites may fall
          MAP2                \* square of obstacle radius + min_clearance_mm

Bounds == Inset(Field, BOUNDARY)
Corridor == Inset(Bounds, MIN_CLEARANCE)      \* clipped_bounds
Width == Bounds[2] - Bounds[1]
Height == Bounds[4] - Bounds[3]

\* The refusals of generate_bounded_voronoi_map and of the placements.
ValidPlacement(p) ==
    CASE p.mode = "density" -> MAX_DENSITY_NODES >= 8
      [] p.mode = "spaced"  -> p.by > 0
      [] p.mode \in {"count", "random"} -> p.count >= 2

\* Sites, obstacles and the field are on a lattice of the model's unit.
Lattice == Int \X Int \X {1}

Placement == [mode : {"density"}, percent : Int] \cup [mode : {"spaced"}, by : Int]
             \cup [mode : {"count", "random"}, count : Int]

ASSUME MapAssumption ==
    /\ Field \in Int \X Int \X Int \X Int /\ {BOUNDARY, MIN_CLEARANCE, MAX_DENSITY_NODES, MAP2} \subseteq Int
    /\ Placements \subseteq Placement /\ SitePool \subseteq Lattice /\ IsFiniteSet(SitePool)
    /\ BOUNDARY >= 0 /\ MIN_CLEARANCE >= 0 /\ Width > 0 /\ Height > 0
    /\ MAP2 >= MIN_CLEARANCE * MIN_CLEARANCE
    /\ \A p \in Placements : ValidPlacement(p)

-----------------------------------------------------------------------------
(* _generate_virtual_sites. Sites are lattice points: the placements must   *)
(* divide the field evenly.                                                 *)

\* floor(sqrt(a / b)), ceil(sqrt(a / b)) and round(a / b), ties to even.
FloorRoot(a, b) == Max({n \in 0 .. a : n * n * b <= a})
CeilRoot(a, b) == Min({n \in 0 .. a : n * n * b >= a})
Round(a, b) == LET over == 2 * (a % b) - b
                   down == a \div b
               IN  IF over > 0 \/ (over = 0 /\ down % 2 = 1) THEN down + 1 ELSE down

\* _grid_sites_by_shape: from border to border.
GridByShape(cols, rows) ==
    {At(Bounds[1] + (col * Width) \div (cols - 1), Bounds[3] + (row * Height) \div (rows - 1)) :
     col \in 0 .. cols - 1, row \in 0 .. rows - 1}

\* _grid_sites_by_spacing.
GridBySpacing(by) == GridByShape(Max({2, Width \div by + 1}), Max({2, Height \div by + 1}))

\* _density_grid_sites: between 4 by 2 sites and as many as keep their
\* distance, or as MAX_DENSITY_NODES allows.
DensityGrid(percent) ==
    LET spacing == Max({1, 2 * MIN_CLEARANCE})
        dense == Min({100, Max({10, percent})}) - 10
        most == <<Max({4, Width \div spacing}), Max({2, Height \div spacing})>>
        scaled == IF most[1] * most[2] <= MAX_DENSITY_NODES THEN most
                  ELSE <<Max({4, FloorRoot(most[1] * MAX_DENSITY_NODES, most[2])}),
                         Max({2, FloorRoot(most[2] * MAX_DENSITY_NODES, most[1])})>>
    IN  GridByShape(Max({4, Round(360 + (scaled[1] - 4) * dense, 90)}),
                    Max({2, Round(180 + (scaled[2] - 2) * dense, 90)}))

\* _grid_sites: the first `count' centres, row by row, of a grid of that many.
GridOf(count) ==
    LET cols == Max({1, CeilRoot(count * Width, Height)})
        rows == (count + cols - 1) \div cols
    IN  {At(Bounds[1] + ((2 * (i % cols) + 1) * Width) \div (2 * cols),
            Bounds[3] + ((2 * (i \div cols) + 1) * Height) \div (2 * rows)) : i \in 0 .. count - 1}

\* Random sites that keep their distance, or the grid when the attempts run out.
RandomSites(count) ==
    LET spacing == Max({1, 2 * MIN_CLEARANCE})
    IN  {GridOf(count)} \cup
        {sites \in kSubset(count, SitePool) : \A p, q \in sites :
            p # q => Norm2(From(p, q)) >= spacing * spacing}

\* The sets of sites a placement may give.
VirtualSites(p) ==
    CASE p.mode = "density" -> {DensityGrid(p.percent)}
      [] p.mode = "spaced"  -> {GridBySpacing(p.by)}
      [] p.mode = "count"   -> {GridOf(p.count)}
      [] p.mode = "random"  -> RandomSites(p.count)

-----------------------------------------------------------------------------
(* _clip_to_nearer_half_plane. Beyond(s, o, p) is positive where p is      *)
(* nearer to o than to s.                                                  *)

Beyond(s, o, p) == 2 * (o[1] - s[1]) * p[1] + 2 * (o[2] - s[2]) * p[2]
                   - (o[1] * o[1] + o[2] * o[2] - s[1] * s[1] - s[2] * s[2]) * p[3]

Meet(s, o, p, q) ==
    LET bp == Beyond(s, o, p)
        bq == Beyond(s, o, q)
        k  == IF bq > bp THEN 1 ELSE -1
    IN  Reduced(<<k * (p[1] * bq - q[1] * bp), k * (p[2] * bq - q[2] * bp),
                  k * (p[3] * bq - q[3] * bp)>>)

\* Fault: where the border leaves the half plane the polygon is not closed.
ClipOpen(polygon, s, o) ==
    LET Piece(i) ==
          LET cur  == polygon[i]
              prev == polygon[IF i = 1 THEN Len(polygon) ELSE i - 1]
          IN  IF Beyond(s, o, cur) > 0 THEN <<>>
              ELSE IF Beyond(s, o, prev) > 0 THEN <<Meet(s, o, prev, cur), cur>> ELSE <<cur>>
    IN  FlattenSeq([i \in DOMAIN polygon |-> Piece(i)])

Clip(polygon, s, o) ==
    LET Piece(i) ==
          LET cur  == polygon[i]
              prev == polygon[IF i = 1 THEN Len(polygon) ELSE i - 1]
              cut  == <<Meet(s, o, prev, cur)>>
          IN  IF Beyond(s, o, cur) <= 0
              THEN IF Beyond(s, o, prev) > 0 THEN cut \o <<cur>> ELSE <<cur>>
              ELSE IF Beyond(s, o, prev) <= 0 THEN cut ELSE <<>>
    IN  FlattenSeq([i \in DOMAIN polygon |-> Piece(i)])

\* _build_cells for one site; _dedupe_polygon drops repeated corners.
Cell(site, sites) ==
    LET whole == FoldSet(LAMBDA o, polygon : Clip(polygon, site, o), Corners(Corridor), sites \ {site})
    IN  IF Len(whole) < 3 THEN <<>> ELSE whole

-----------------------------------------------------------------------------
(* _build_navigation_graph. Cells are cut to the corridor already, which   *)
(* leaves _clip_segment_to_inset_bounds nothing to cut.                    *)

AtLeast(a, b) == a >= b
KeepsClear(e, sites, obstacles) ==
    \A p, q \in e : p # q =>
        /\ \A s \in sites : FromSegment(AtLeast, s, p, q, MIN_CLEARANCE * MIN_CLEARANCE)
        /\ \A o \in obstacles : FromSegment(AtLeast, o, p, q, MAP2)
        /\ InBox(p, Corridor) /\ InBox(q, Corridor)

\* include_perimeter_edges is on in every call: the corridor's four sides.
NavigationGraph(cells, sites, obstacles) ==
    LET borders == (UNION {Sides(cells[s]) : s \in sites}) \cup Sides(Corners(Corridor))
    IN  {e \in borders : Cardinality(e) = 2 /\ KeepsClear(e, sites, obstacles)}

\* generate_bounded_voronoi_map, once the virtual sites are placed.
Generated(virtual, obstacles) ==
    LET sites == virtual \cup obstacles
        cells == [s \in sites |-> Cell(s, sites)]
    IN  [sites |-> sites, cells |-> cells, edges |-> NavigationGraph(cells, sites, obstacles)]
=============================================================================
