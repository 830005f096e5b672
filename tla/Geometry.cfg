SPECIFICATION Spec
CONSTANTS
  Bits = 4
  VertexCoord <- MCVertexCoord
  PointCoord <- MCPointCoord
  MaxVertices = 4
INVARIANTS ContainsIsEvenOdd OrientationAgnostic PrefilterHarmless
