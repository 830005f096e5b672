------------------------------ MODULE MCGeometry ------------------------------
\* Vertices on a 3 by 3 grid that spans the range in which no product wraps
\* (a quarter of the type's on either side of 0), points on a finer grid.
EXTENDS Geometry

MCVertexCoord == {-4, 0, 4}
MCPointCoord == {-4, -2, -1, 0, 2, 4}

ASSUME ProductsFit
=============================================================================
