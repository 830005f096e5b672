------------------------------- MODULE Geometry -------------------------------
(***************************************************************************)
(* internal/geofence/geometry.go: a zone's polygon, its bounding box and   *)
(* the test whether it contains a point.  Coordinates are Bits-bit         *)
(* integers (32 in the code) and products are taken in 2 * Bits bits (64), *)
(* where they wrap.                                                        *)
(***************************************************************************)
EXTENDS Integers, Sequences, FiniteSets, FiniteSetsExt

CONSTANTS
    Bits,           \* width of a coordinate
    VertexCoord,    \* coordinates of the vertices
    PointCoord,     \* coordinates of the points asked for
    MaxVertices     \* bound: vertices of a zone

Coordinate == -(2 ^ (Bits - 1)) .. 2 ^ (Bits - 1) - 1

ASSUME GeometryAssumption ==
    /\ Bits \in Nat \ {0, 1}
    /\ VertexCoord \subseteq Coordinate /\ PointCoord \subseteq Coordinate
    /\ MaxVertices \in Nat

Points(coord) == [x : coord, y : coord]

VARIABLES
    Vertices, bbox,     \* the Zone
    p, inside           \* the last point asked for, and the answer

vars == <<Vertices, bbox, p, inside>>
-----------------------------------------------------------------------------
\* The int64 product.
Mul(a, b) == ((a * b + 2 ^ (2 * Bits - 1)) % 2 ^ (2 * Bits)) - 2 ^ (2 * Bits - 1)

\* Mutants: the sense of the edge is not looked at; only edges that run up count.
CrossesUnsigned(q, vi, vj) ==
    /\ (vi.y > q.y) # (vj.y > q.y)
    /\ Mul(q.x - vi.x, vj.y - vi.y) < Mul(vj.x - vi.x, q.y - vi.y)
CrossesUpwards(q, vi, vj) ==
    /\ vi.y <= q.y /\ vj.y > q.y
    /\ Mul(q.x - vi.x, vj.y - vi.y) < Mul(vj.x - vi.x, q.y - vi.y)

\* The ray to the right of q meets the edge from vj to vi.
Crosses(q, vi, vj) ==
    /\ (vi.y > q.y) # (vj.y > q.y)
    /\ (Mul(q.x - vi.x, vj.y - vi.y) < Mul(vj.x - vi.x, q.y - vi.y)) = (vj.y > vi.y)

\* Edge i comes from the vertex before vertex i.
PointInPolygon(q, vertices) ==
    LET n == Len(vertices)
        Edge(i) == Crosses(q, vertices[i], vertices[IF i = 1 THEN n ELSE i - 1])
        insideAfter[i \in 0..n] == IF i = 0 THEN FALSE ELSE insideAfter[i - 1] # Edge(i)
    IN  n >= 3 /\ insideAfter[n]

\* Mutant: the first vertex is left out.
BoxWithoutFirst(vertices) ==
    LET xs == {vertices[i].x : i \in 2..Len(vertices)}
        ys == {vertices[i].y : i \in 2..Len(vertices)}
    IN  [minX |-> Min(xs), maxX |-> Max(xs), minY |-> Min(ys), maxY |-> Max(ys)]

boundingBox(vertices) ==
    LET xs == {vertices[i].x : i \in DOMAIN vertices}
        ys == {vertices[i].y : i \in DOMAIN vertices}
    IN  [minX |-> Min(xs), maxX |-> Max(xs), minY |-> Min(ys), maxY |-> Max(ys)]

InBox(q) == q.x \in bbox.minX..bbox.maxX /\ q.y \in bbox.minY..bbox.maxY

Contains(q) == InBox(q) /\ PointInPolygon(q, Vertices)
-----------------------------------------------------------------------------
\* NewZone took the vertices, and the first of them was asked for.
Init ==
    /\ Vertices \in UNION {[1..n -> Points(VertexCoord)] : n \in 3..MaxVertices}
    /\ bbox = boundingBox(Vertices)
    /\ p = Vertices[1]
    /\ inside = Contains(p)

Ask(q) ==
    /\ p' = q
    /\ inside' = Contains(q)
    /\ UNCHANGED <<Vertices, bbox>>

Next == \E q \in Points(PointCoord) : Ask(q)

Spec == Init /\ [][Next]_vars
-----------------------------------------------------------------------------
(***************************************************************************)
(* What a polygon contains, without rays and without wrapping: cut it into *)
(* the triangles that its first vertex spans with its edges; a point lies  *)
(* inside when it lies in an odd number of them.                           *)
(***************************************************************************)
Turn(a, b, c) == (b.x - a.x) * (c.y - a.y) - (b.y - a.y) * (c.x - a.x)

OnSegment(q, a, b) ==
    /\ Turn(a, b, q) = 0
    /\ q.x \in Min({a.x, b.x})..Max({a.x, b.x})
    /\ q.y \in Min({a.y, b.y})..Max({a.y, b.y})

InTriangle(q, a, b, c) ==
    \/ Turn(a, b, q) > 0 /\ Turn(b, c, q) > 0 /\ Turn(c, a, q) > 0
    \/ Turn(a, b, q) < 0 /\ Turn(b, c, q) < 0 /\ Turn(c, a, q) < 0

EvenOdd(q, v) ==
    Cardinality({k \in 2..Len(v) - 1 : InTriangle(q, v[1], v[k], v[k + 1])}) % 2 = 1

OnBoundary(q, v) ==
    \E k \in DOMAIN v : OnSegment(q, v[k], v[IF k = Len(v) THEN 1 ELSE k + 1])

OnCut(q, v) == \E k \in DOMAIN v : OnSegment(q, v[1], v[k])

Backwards(v) == [k \in DOMAIN v |-> v[Len(v) + 1 - k]]

\* No product wraps.
ProductsFit ==
    LET Difference == {c - d : c, d \in VertexCoord \cup PointCoord}
    IN  \A a, b \in Difference : Mul(a, b) = a * b

\* Off its boundary, a zone contains what the even-odd rule says, for polygons
\* of any shape, points level with a vertex included (geometry.go:73-114).
ContainsIsEvenOdd ==
    ~ OnBoundary(p, Vertices) /\ ~ OnCut(p, Vertices) => inside = EvenOdd(p, Vertices)

\* The order in which a zone's vertices are listed, clockwise or not, makes no
\* difference off the boundary, and the first of them none anywhere
\* (geometry.go:30-38).
OrientationAgnostic ==
    /\ ~ OnBoundary(p, Vertices) => PointInPolygon(p, Backwards(Vertices)) = inside
    /\ PointInPolygon(p, Append(Tail(Vertices), Head(Vertices))) = inside

\* The bounding box never changes the answer, on the boundary neither
\* (geometry.go:73-81, 116-136).
PrefilterHarmless == inside = PointInPolygon(p, Vertices)
=============================================================================
