-------------------------------- MODULE Plane --------------------------------
(***************************************************************************)
(* The field as the planners compute with it, in exact arithmetic: points  *)
(* in homogeneous integer coordinates <<x, y, w>>, w > 0, and distances by *)
(* their squares. What the code does in floating point (and a tolerance of *)
(* EPSILON) is done here without rounding.                                 *)
(***************************************************************************)
EXTENDS Integers, Sequences, FiniteSets, SequencesExt

At(x, y) == <<x, y, 1>>

Size(a) == IF a < 0 THEN -a ELSE a

Gcd(a, b) ==
    LET gcd[p \in Int \X (0 .. Size(b))] ==
            IF p[2] = 0 THEN Size(p[1]) ELSE gcd[<<p[2], p[1] % p[2]>>]
    IN  gcd[<<a, Size(b)>>]

Reduced(p) == LET g == Gcd(Gcd(p[1], p[2]), p[3])
              IN  <<p[1] \div g, p[2] \div g, p[3] \div g>>

Dot(u, v) == u[1] * v[1] + u[2] * v[2]
Cross(u, v) == u[1] * v[2] - u[2] * v[1]

\* q - p up to a positive factor, and w * (q - p) for a lattice point q.
Direction(p, q) == LET dx == q[1] * p[3] - p[1] * q[3]
                       dy == q[2] * p[3] - p[2] * q[3]
                       g  == Gcd(dx, dy)
                   IN  IF g = 0 THEN <<0, 0>> ELSE <<dx \div g, dy \div g>>
From(p, q) == <<q[1] * p[3] - p[1], q[2] * p[3] - p[2]>>

Norm2(u) == Dot(u, u)

\* The squared distance of lattice point c from p, and from the segment pq,
\* is in the given relation to r2. distance_2_segment's three cases.
Within(rel(_, _), c, p, r2) == rel(Norm2(From(p, c)), r2 * p[3] * p[3])

FromSegment(rel(_, _), c, p, q, r2) ==
    LET d == Direction(p, q)
    IN  IF Dot(From(p, c), d) <= 0 THEN Within(rel, c, p, r2)
        ELSE IF Dot(From(q, c), d) >= 0 THEN Within(rel, c, q, r2)
        ELSE rel(Cross(From(p, c), d) * Cross(From(p, c), d), r2 * Norm2(d) * p[3] * p[3])

\* a is nearer to lattice point c than b is.
Nearer(c, a, b) == Norm2(From(a, c)) * b[3] * b[3] < Norm2(From(b, c)) * a[3] * a[3]

InBox(p, box) == /\ box[1] * p[3] <= p[1] /\ p[1] <= box[2] * p[3]
                 /\ box[3] * p[3] <= p[2] /\ p[2] <= box[4] * p[3]
Inset(box, by) == <<box[1] + by, box[2] - by, box[3] + by, box[4] - by>>
Corners(box) == <<At(box[1], box[3]), At(box[2], box[3]), At(box[2], box[4]), At(box[1], box[4])>>

\* Sides of a closed polygon, and what can be reached along a set of edges.
Sides(polygon) == {{polygon[i], polygon[(i % Len(polygon)) + 1]} : i \in DOMAIN polygon}

Reached(from, edges) ==
    LET reached[found \in SUBSET (from \cup UNION edges)] ==
            LET next == found \cup UNION {e \in edges : e \cap found # {}}
            IN  IF next = found THEN found ELSE reached[next]
    IN  reached[from]
=============================================================================
