---------------------------- MODULE GeometryProofs ----------------------------
(***************************************************************************)
(* Theorems about Geometry, for every polygon and every point whose        *)
(* coordinates keep the 64-bit products from wrapping (ProductsFit).  In   *)
(* coordinates relative to the point, an edge is met or not by the sign of *)
(* one cross product; the loop's answer is what any list of its turns ends *)
(* with (LoopIs), so that each theorem names such a list: all FALSE above, *)
(* below and to the right of the box, a shifted or a mirrored one for the  *)
(* vertices in another order, and for the even-odd rule the crossings of   *)
(* the cut from the first vertex with the triangles counted so far.        *)
(***************************************************************************)
EXTENDS Geometry, ListingProofs, TLAPS

\* Vertices and points asked for.
Coord == VertexCoord \cup PointCoord

Above(q, v) == v.y > q.y

LEMMA CoordInt == Coord \subseteq Int
BY GeometryAssumption DEF Coord, Coordinate

\* Cross products, about a point and with the ends swapped.
LEMMA Expand ==
  ASSUME NEW ax \in Int, NEW ay \in Int, NEW bx \in Int, NEW by \in Int,
         NEW qx \in Int, NEW qy \in Int
  PROVE  /\ (bx - ax) * (qy - ay) - (by - ay) * (qx - ax)
              = (ax - qx) * (by - qy) - (ay - qy) * (bx - qx)
         /\ (ax - qx) * (by - qy) - (ay - qy) * (bx - qx)
              = -((bx - qx) * (ay - qy) - (by - qy) * (ax - qx))
  OBVIOUS

\* Any two dimensional vectors a, b, c: (b x c) a + (c x a) b + (a x b) c = 0.
LEMMA Around ==
  ASSUME NEW ax \in Int, NEW ay \in Int, NEW bx \in Int, NEW by \in Int,
         NEW cx \in Int, NEW cy \in Int
  PROVE  (bx * cy - by * cx) * ay + (cx * ay - cy * ax) * by + (ax * by - ay * bx) * cy = 0
  OBVIOUS

\* Products of the coordinates relative to q.
LEMMA TurnAt ==
  ASSUME NEW q \in Points(Int), NEW a \in Points(Int), NEW b \in Points(Int)
  PROVE  /\ Turn(a, b, q) = (a.x - q.x) * (b.y - q.y) - (a.y - q.y) * (b.x - q.x)
         /\ Turn(a, b, q) \in Int
         /\ Turn(b, a, q) = -Turn(a, b, q)
<1>1. /\ q.x \in Int /\ q.y \in Int /\ a.x \in Int /\ a.y \in Int /\ b.x \in Int /\ b.y \in Int
  BY DEF Points
<1>2. /\ Turn(a, b, q) = (b.x - a.x) * (q.y - a.y) - (b.y - a.y) * (q.x - a.x)
      /\ Turn(b, a, q) = (a.x - b.x) * (q.y - b.y) - (a.y - b.y) * (q.x - b.x)
  BY DEF Turn
<1>3. /\ Turn(a, b, q) = (a.x - q.x) * (b.y - q.y) - (a.y - q.y) * (b.x - q.x)
      /\ Turn(b, a, q) = (b.x - q.x) * (a.y - q.y) - (b.y - q.y) * (a.x - q.x)
      /\ (a.x - q.x) * (b.y - q.y) - (a.y - q.y) * (b.x - q.x)
           = -((b.x - q.x) * (a.y - q.y) - (b.y - q.y) * (a.x - q.x))
      /\ (a.x - q.x) * (b.y - q.y) - (a.y - q.y) * (b.x - q.x) \in Int
  BY <1>1, <1>2, Expand
<1>4. \A c, d \in Int : c = -d => d = -c
  OBVIOUS
<1>5. (b.x - q.x) * (a.y - q.y) - (b.y - q.y) * (a.x - q.x) \in Int
  BY <1>1
<1> QED BY <1>3, <1>4, <1>5, Zenon

LEMMA CrossesIs ==
  ASSUME ProductsFit, NEW q \in Points(Coord), NEW a \in Points(Coord), NEW b \in Points(Coord)
  PROVE  Crosses(q, a, b)
           = ((Above(q, a) # Above(q, b)) /\ ((Turn(a, b, q) > 0) = Above(q, b)))
<1>1. /\ q.x \in Coord /\ q.y \in Coord /\ a.x \in Coord /\ a.y \in Coord
      /\ b.x \in Coord /\ b.y \in Coord
  BY DEF Points
<1>2. /\ q.x \in Int /\ q.y \in Int /\ a.x \in Int /\ a.y \in Int /\ b.x \in Int /\ b.y \in Int
  BY <1>1, CoordInt
<1>3. \A c, d, e, f \in Coord : Mul(c - d, e - f) = (c - d) * (e - f)
  <2> DEFINE Difference == {c - d : c, d \in Coord}
  <2>1. \A c, d \in Difference : Mul(c, d) = c * d
    BY DEF ProductsFit, Coord
  <2>2. \A c, d \in Coord : c - d \in Difference
    OBVIOUS
  <2> HIDE DEF Difference
  <2> QED BY <2>1, <2>2
<1>4. /\ Mul(q.x - a.x, b.y - a.y) = (q.x - a.x) * (b.y - a.y)
      /\ Mul(b.x - a.x, q.y - a.y) = (b.x - a.x) * (q.y - a.y)
  BY <1>1, <1>3
<1>5. (Mul(q.x - a.x, b.y - a.y) < Mul(b.x - a.x, q.y - a.y)) = (Turn(a, b, q) > 0)
  BY <1>2, <1>4 DEF Turn
<1>6. Above(q, a) # Above(q, b) => (b.y > a.y) = Above(q, b)
  BY <1>2 DEF Above
<1> QED BY <1>5, <1>6 DEF Crosses, Above

\* The least and the greatest of two numbers.
LEMMA MinMaxOfTwo ==
  ASSUME NEW a \in Int, NEW b \in Int, NEW z \in Int
  PROVE  z \in Min({a, b})..Max({a, b}) <=> (a <= z /\ z <= b) \/ (b <= z /\ z <= a)
<1>1. Min({a, b}) = IF a <= b THEN a ELSE b
  BY DEF Min
<1>2. Max({a, b}) = IF a <= b THEN b ELSE a
  BY DEF Max
<1> QED BY <1>1, <1>2

\* A point at the height of an edge on no side of it is on it.
LEMMA OffSegment ==
  ASSUME NEW q \in Points(Int), NEW a \in Points(Int), NEW b \in Points(Int),
         Above(q, a) # Above(q, b), Turn(a, b, q) = 0
  PROVE  OnSegment(q, a, b)
<1>1. /\ q.x \in Int /\ q.y \in Int /\ a.x \in Int /\ a.y \in Int /\ b.x \in Int /\ b.y \in Int
  BY DEF Points
<1>2. q.y \in Min({a.y, b.y})..Max({a.y, b.y})
  BY <1>1, MinMaxOfTwo DEF Above
<1> DEFINE ax == a.x - q.x  ay == a.y - q.y  bx == b.x - q.x  by == b.y - q.y
<1>3. ax \in Int /\ ay \in Int /\ bx \in Int /\ by \in Int
  BY <1>1
<1>4. ax * by - ay * bx = 0
  BY TurnAt
<1>5. (ay > 0 /\ by <= 0) \/ (ay <= 0 /\ by > 0)
  BY <1>1 DEF Above
<1>6. (ax <= 0 /\ bx >= 0) \/ (bx <= 0 /\ ax >= 0)
  <2> HIDE DEF ax, ay, bx, by
  <2> QED BY <1>3, <1>4, <1>5
<1>7. q.x \in Min({a.x, b.x})..Max({a.x, b.x})
  <2>1. (a.x <= q.x /\ q.x <= b.x) \/ (b.x <= q.x /\ q.x <= a.x)
    BY <1>1, <1>6
  <2> QED BY <1>1, <2>1, MinMaxOfTwo
<1> QED BY <1>2, <1>7 DEF OnSegment

LEMMA PointsAreInt == \A v \in Points(Coord) : v \in Points(Int)
BY CoordInt DEF Points

\* Off the edge, its direction makes no difference.
LEMMA CrossesBackwards ==
  ASSUME ProductsFit, NEW q \in Points(Coord), NEW a \in Points(Coord), NEW b \in Points(Coord),
         ~ OnSegment(q, a, b)
  PROVE  Crosses(q, a, b) = Crosses(q, b, a)
<1>1. q \in Points(Int) /\ a \in Points(Int) /\ b \in Points(Int)
  BY PointsAreInt
<1>2. Turn(a, b, q) \in Int /\ Turn(b, a, q) = -Turn(a, b, q)
  BY <1>1, TurnAt
<1>3. Above(q, a) # Above(q, b) => Turn(a, b, q) # 0
  BY <1>1, OffSegment
<1>4. Above(q, a) \in BOOLEAN /\ Above(q, b) \in BOOLEAN
  BY DEF Above
<1> QED BY <1>2, <1>3, <1>4, CrossesIs

\* An edge to the left of q is not met; one to the right is, when it is at its height.
LEMMA EdgeBeside ==
  ASSUME ProductsFit, NEW q \in Points(Coord), NEW a \in Points(Coord), NEW b \in Points(Coord)
  PROVE  /\ a.x < q.x /\ b.x < q.x => ~ Crosses(q, a, b)
         /\ a.x > q.x /\ b.x > q.x => Crosses(q, a, b) = (Above(q, a) # Above(q, b))
<1>1. q \in Points(Int) /\ a \in Points(Int) /\ b \in Points(Int)
  BY PointsAreInt
<1>2. /\ q.x \in Int /\ q.y \in Int /\ a.x \in Int /\ a.y \in Int /\ b.x \in Int /\ b.y \in Int
  BY <1>1 DEF Points
<1> DEFINE ax == a.x - q.x  ay == a.y - q.y  bx == b.x - q.x  by == b.y - q.y
<1>3. ax \in Int /\ ay \in Int /\ bx \in Int /\ by \in Int
  BY <1>2
<1>4. Turn(a, b, q) = ax * by - ay * bx
  BY <1>1, TurnAt
<1>5. Above(q, a) = (ay > 0) /\ Above(q, b) = (by > 0)
  BY <1>2 DEF Above
<1>6. (a.x < q.x) = (ax < 0) /\ (b.x < q.x) = (bx < 0) /\ (a.x > q.x) = (ax > 0) /\ (b.x > q.x) = (bx > 0)
  BY <1>2
<1> HIDE DEF ax, ay, bx, by
<1>7. ax < 0 /\ bx < 0 => /\ (ay > 0 /\ by <= 0 => ax * by - ay * bx > 0)
                         /\ (ay <= 0 /\ by > 0 => ax * by - ay * bx < 0)
  BY <1>3
<1>8. ax > 0 /\ bx > 0 => /\ (ay > 0 /\ by <= 0 => ax * by - ay * bx < 0)
                         /\ (ay <= 0 /\ by > 0 => ax * by - ay * bx > 0)
  BY <1>3
<1>9. ay > 0 <=> ~ (ay <= 0)
  BY <1>3
<1>10. by > 0 <=> ~ (by <= 0)
  BY <1>3
<1> DEFINE t == ax * by - ay * bx
<1>11. t \in Int
  BY <1>3
<1>12. CASE ax < 0 /\ bx < 0
  <2>1. ~ (ax > 0)
    BY <1>3, <1>12
  <2>2. Crosses(q, a, b) = (((ay > 0) # (by > 0)) /\ ((t > 0) = (by > 0)))
    BY <1>4, <1>5, CrossesIs
  <2>3. (ay > 0) # (by > 0) => (t > 0) # (by > 0)
    BY <1>3, <1>7, <1>11, <1>12
  <2> QED BY <1>6, <1>12, <2>1, <2>2, <2>3
<1>13. CASE ax > 0 /\ bx > 0
  <2>1. ~ (ax < 0)
    BY <1>3, <1>13
  <2>2. Crosses(q, a, b) = (((ay > 0) # (by > 0)) /\ ((t > 0) = (by > 0)))
    BY <1>4, <1>5, CrossesIs
  <2>3. (ay > 0) # (by > 0) => (t > 0) = (by > 0)
    BY <1>3, <1>8, <1>11, <1>13
  <2> QED BY <1>5, <1>6, <1>13, <2>1, <2>2, <2>3
<1> QED BY <1>6, <1>12, <1>13

\* Three numbers of one sign that weigh the heights of a triangle's corners.
LEMMA ZeroSum ==
  ASSUME NEW r \in Int, NEW s \in Int, NEW t \in Int,
         NEW ay \in Int, NEW by \in Int, NEW cy \in Int,
         r * ay + s * by + t * cy = 0
  PROVE  /\ ay > 0 /\ by <= 0 /\ cy <= 0 /\ s > 0 /\ t > 0 => r > 0 \/ (r = 0 /\ by = 0 /\ cy = 0)
         /\ ay > 0 /\ by <= 0 /\ cy <= 0 /\ s < 0 /\ t < 0 => r < 0 \/ (r = 0 /\ by = 0 /\ cy = 0)
         /\ ay <= 0 /\ by > 0 /\ cy > 0 /\ s > 0 /\ t > 0 => r > 0
         /\ ay <= 0 /\ by > 0 /\ cy > 0 /\ s < 0 /\ t < 0 => r < 0
         /\ ay > 0 /\ by > 0 /\ cy > 0 => ~ (r > 0 /\ s > 0 /\ t > 0) /\ ~ (r < 0 /\ s < 0 /\ t < 0)
         /\ ay <= 0 /\ by <= 0 /\ cy <= 0 /\ ((r > 0 /\ s > 0 /\ t > 0) \/ (r < 0 /\ s < 0 /\ t < 0))
              => ay = 0 /\ by = 0 /\ cy = 0
  OBVIOUS

\* The corners around q, by their heights relative to it.
LEMMA Weighed ==
  ASSUME NEW q \in Points(Int), NEW a \in Points(Int), NEW b \in Points(Int), NEW c \in Points(Int)
  PROVE  /\ Turn(b, c, q) * (a.y - q.y) + Turn(c, a, q) * (b.y - q.y) + Turn(a, b, q) * (c.y - q.y) = 0
         /\ a.y - q.y \in Int /\ b.y - q.y \in Int /\ c.y - q.y \in Int
         /\ Above(q, a) = (a.y - q.y > 0) /\ (~ Above(q, a)) = (a.y - q.y <= 0)
         /\ Above(q, b) = (b.y - q.y > 0) /\ (~ Above(q, b)) = (b.y - q.y <= 0)
         /\ Above(q, c) = (c.y - q.y > 0) /\ (~ Above(q, c)) = (c.y - q.y <= 0)
<1>1. /\ q.x \in Int /\ q.y \in Int /\ a.x \in Int /\ a.y \in Int /\ b.x \in Int /\ b.y \in Int
      /\ c.x \in Int /\ c.y \in Int
  BY DEF Points
<1>2. /\ Turn(b, c, q) = (b.x - q.x) * (c.y - q.y) - (b.y - q.y) * (c.x - q.x)
      /\ Turn(c, a, q) = (c.x - q.x) * (a.y - q.y) - (c.y - q.y) * (a.x - q.x)
      /\ Turn(a, b, q) = (a.x - q.x) * (b.y - q.y) - (a.y - q.y) * (b.x - q.x)
  BY TurnAt
<1>3. Turn(b, c, q) * (a.y - q.y) + Turn(c, a, q) * (b.y - q.y) + Turn(a, b, q) * (c.y - q.y) = 0
  BY <1>1, <1>2, Around
<1>4. \A v \in Int : (v > q.y) = (v - q.y > 0) /\ (~ (v > q.y)) = (v - q.y <= 0)
  BY <1>1
<1> QED BY <1>1, <1>3, <1>4 DEF Above

\* A triangle none of whose corners is on its own side of q's height.
LEMMA LevelTriangle ==
  ASSUME NEW q \in Points(Int), NEW a \in Points(Int), NEW b \in Points(Int), NEW c \in Points(Int),
         Above(q, a) = Above(q, b), Above(q, b) = Above(q, c)
  PROVE  ~ InTriangle(q, a, b, c)
<1> DEFINE r == Turn(b, c, q)  s == Turn(c, a, q)  t == Turn(a, b, q)
           ay == a.y - q.y  by == b.y - q.y  cy == c.y - q.y
<1>1. r \in Int /\ s \in Int /\ t \in Int
  BY TurnAt
<1>2. /\ ay \in Int /\ by \in Int /\ cy \in Int
      /\ r * ay + s * by + t * cy = 0
      /\ (ay > 0 /\ by > 0 /\ cy > 0) \/ (ay <= 0 /\ by <= 0 /\ cy <= 0)
  BY Weighed
<1> DEFINE ax == a.x - q.x  bx == b.x - q.x
<1>3. t = ax * by - ay * bx /\ ax \in Int /\ bx \in Int
  <2>1. t = ax * by - ay * bx
    BY TurnAt
  <2>2. ax \in Int /\ bx \in Int
    BY DEF Points
  <2> QED BY <2>1, <2>2
<1>4. InTriangle(q, a, b, c) <=> ((t > 0 /\ r > 0 /\ s > 0) \/ (t < 0 /\ r < 0 /\ s < 0))
  BY Zenon DEF InTriangle
<1> HIDE DEF r, s, t, ax, ay, bx, by, cy
<1>5. ay = 0 /\ by = 0 => t = 0
  BY <1>3
<1>6. ~ (ay = 0 /\ by = 0 /\ cy = 0) => ~ InTriangle(q, a, b, c)
  <2>1. CASE ay > 0 /\ by > 0 /\ cy > 0
    <3>1. ~ (r > 0 /\ s > 0 /\ t > 0) /\ ~ (r < 0 /\ s < 0 /\ t < 0)
      BY <1>1, <1>2, <2>1, ZeroSum
    <3> QED BY <1>4, <3>1, Zenon
  <2>2. CASE ay <= 0 /\ by <= 0 /\ cy <= 0
    <3>1. ((r > 0 /\ s > 0 /\ t > 0) \/ (r < 0 /\ s < 0 /\ t < 0)) => ay = 0 /\ by = 0 /\ cy = 0
      BY <1>1, <1>2, <2>2, ZeroSum
    <3> QED BY <1>4, <3>1, Zenon
  <2> QED BY <1>2, <2>1, <2>2
<1>7. ay = 0 /\ by = 0 => ~ InTriangle(q, a, b, c)
  BY <1>4, <1>5
<1> QED BY <1>6, <1>7

\* One with a lone corner a.
LEMMA LoneCorner ==
  ASSUME ProductsFit, NEW q \in Points(Coord), NEW a \in Points(Coord), NEW b \in Points(Coord),
         NEW c \in Points(Coord),
         ~ OnSegment(q, a, b), ~ OnSegment(q, b, c), ~ OnSegment(q, c, a),
         Above(q, a) # Above(q, b), Above(q, b) = Above(q, c)
  PROVE  InTriangle(q, a, b, c) = ((Crosses(q, a, b) # Crosses(q, b, c)) # Crosses(q, c, a))
<1> DEFINE r == Turn(b, c, q)  s == Turn(c, a, q)  t == Turn(a, b, q)
           ax == a.x - q.x  bx == b.x - q.x  cx == c.x - q.x
           ay == a.y - q.y  by == b.y - q.y  cy == c.y - q.y
<1>1. q \in Points(Int) /\ a \in Points(Int) /\ b \in Points(Int) /\ c \in Points(Int)
  BY PointsAreInt
<1>2. r \in Int /\ s \in Int /\ t \in Int
  BY <1>1, TurnAt
<1>3. s # 0 /\ t # 0
  BY <1>1, OffSegment
<1>4. /\ ay \in Int /\ by \in Int /\ cy \in Int
      /\ r * ay + s * by + t * cy = 0
      /\ (ay > 0 /\ by <= 0 /\ cy <= 0) \/ (ay <= 0 /\ by > 0 /\ cy > 0)
      /\ Above(q, a) = (ay > 0) /\ Above(q, b) = (by > 0) /\ Above(q, c) = (cy > 0)
  BY <1>1, Weighed
<1>5. /\ Crosses(q, b, c) = FALSE
      /\ Crosses(q, a, b) <=> (t > 0 <=> by > 0)
      /\ Crosses(q, c, a) <=> (s > 0 <=> ay > 0)
  <2>1. Crosses(q, b, c) = ((Above(q, b) # Above(q, c)) /\ ((r > 0) = Above(q, c)))
    BY CrossesIs
  <2>2. Crosses(q, a, b) = ((Above(q, a) # Above(q, b)) /\ ((t > 0) = Above(q, b)))
    BY CrossesIs
  <2>3. Crosses(q, c, a) = ((Above(q, c) # Above(q, a)) /\ ((s > 0) = Above(q, a)))
    BY CrossesIs
  <2>4. (Above(q, a) <=> ay > 0) /\ (Above(q, b) <=> by > 0)
    BY <1>4
  <2>5. Above(q, a) \in BOOLEAN /\ Above(q, b) \in BOOLEAN /\ Above(q, c) \in BOOLEAN
    BY DEF Above
  <2>6. (t > 0) \in BOOLEAN /\ (s > 0) \in BOOLEAN
    OBVIOUS
  <2> HIDE DEF r, s, t, ay, by, cy
  <2>7. Crosses(q, a, b) <=> (t > 0 <=> Above(q, b))
    BY <2>2, <2>5, <2>6
  <2>8. Crosses(q, c, a) <=> (s > 0 <=> Above(q, a))
    BY <2>3, <2>5, <2>6
  <2>9. Crosses(q, b, c) = FALSE
    BY <2>1, <2>5
  <2> QED BY <2>4, <2>7, <2>8, <2>9, Zenon
<1>6. InTriangle(q, a, b, c) <=> ((t > 0 /\ r > 0 /\ s > 0) \/ (t < 0 /\ r < 0 /\ s < 0))
  BY Zenon DEF InTriangle
<1>7. ((Crosses(q, a, b) # Crosses(q, b, c)) # Crosses(q, c, a)) = ((s > 0) = (t > 0))
  <2>1. (ay > 0) # (by > 0)
    BY <1>4
  <2> HIDE DEF r, s, t, ay, by
  <2>4. ~ Crosses(q, b, c) /\ Crosses(q, b, c) \in BOOLEAN
    BY <1>5, Zenon
  <2>5. Crosses(q, a, b) \in BOOLEAN /\ Crosses(q, c, a) \in BOOLEAN
    BY DEF Crosses
  <2>2. CASE ay > 0 /\ ~ (by > 0)
    <3>1. Crosses(q, a, b) <=> ~ (t > 0)
      BY <1>5, <2>2, Zenon
    <3>2. Crosses(q, c, a) <=> s > 0
      BY <1>5, <2>2, Zenon
    <3> QED BY <2>4, <2>5, <3>1, <3>2
  <2>3. CASE ~ (ay > 0) /\ by > 0
    <3>1. Crosses(q, a, b) <=> t > 0
      BY <1>5, <2>3, Zenon
    <3>2. Crosses(q, c, a) <=> ~ (s > 0)
      BY <1>5, <2>3, Zenon
    <3> QED BY <2>4, <2>5, <3>1, <3>2
  <2> QED BY <2>1, <2>2, <2>3
\* Level with b and c, q would be between them.
<1>8. ((t > 0 /\ s > 0) \/ (t < 0 /\ s < 0)) => ~ (r = 0 /\ by = 0 /\ cy = 0)
  <2> SUFFICES ASSUME (t > 0 /\ s > 0) \/ (t < 0 /\ s < 0), r = 0, by = 0, cy = 0 PROVE FALSE
    OBVIOUS
  <2>1. ax \in Int /\ bx \in Int /\ cx \in Int
    BY <1>1 DEF Points
  <2>2. t = ax * by - ay * bx /\ s = cx * ay - cy * ax
    BY <1>1, TurnAt
  <2>3. ay > 0
    BY <1>4
  <2>4. (bx < 0 /\ cx > 0) \/ (bx > 0 /\ cx < 0)
    <3> HIDE DEF r, s, t, ax, bx, cx, ay, by, cy
    <3>1. t = -(ay * bx) /\ s = cx * ay
      BY <1>4, <2>1, <2>2
    <3> QED BY <1>4, <2>1, <2>3, <3>1
  <2>5. q.x \in Int /\ q.y \in Int /\ b.x \in Int /\ b.y \in Int /\ c.x \in Int /\ c.y \in Int
    BY <1>1 DEF Points
  <2>6. (b.x <= q.x /\ q.x <= c.x) \/ (c.x <= q.x /\ q.x <= b.x)
    BY <2>4, <2>5
  <2>7. b.y = q.y /\ c.y = q.y
    BY <2>5
  <2>8. q.x \in Min({b.x, c.x})..Max({b.x, c.x}) /\ q.y \in Min({b.y, c.y})..Max({b.y, c.y})
    <3>1. q.x \in Min({b.x, c.x})..Max({b.x, c.x})
      BY <2>5, <2>6, MinMaxOfTwo
    <3>2. (b.y <= q.y /\ q.y <= c.y)
      BY <2>5, <2>7
    <3>3. q.y \in Min({b.y, c.y})..Max({b.y, c.y})
      BY <2>5, <3>2, MinMaxOfTwo
    <3> QED BY <3>1, <3>3
  <2> QED BY <2>8 DEF OnSegment
<1> HIDE DEF r, s, t, ay, by, cy
<1>9. t > 0 /\ s > 0 => r > 0
  BY <1>2, <1>4, <1>8, ZeroSum
<1>10. t < 0 /\ s < 0 => r < 0
  BY <1>2, <1>4, <1>8, ZeroSum
<1>11. InTriangle(q, a, b, c) \in BOOLEAN
  BY DEF InTriangle
<1> QED BY <1>2, <1>3, <1>6, <1>7, <1>9, <1>10, <1>11

\* Off its sides, a triangle contains what the ray to the right leaves once.
LEMMA TriangleIsRayCast ==
  ASSUME ProductsFit, NEW q \in Points(Coord), NEW a \in Points(Coord), NEW b \in Points(Coord),
         NEW c \in Points(Coord),
         ~ OnSegment(q, a, b), ~ OnSegment(q, b, c), ~ OnSegment(q, c, a)
  PROVE  InTriangle(q, a, b, c) = ((Crosses(q, a, b) # Crosses(q, b, c)) # Crosses(q, c, a))
<1>1. /\ Above(q, a) \in BOOLEAN /\ Above(q, b) \in BOOLEAN /\ Above(q, c) \in BOOLEAN
  BY DEF Above
<1>2. /\ InTriangle(q, a, b, c) = InTriangle(q, b, c, a)
      /\ InTriangle(q, a, b, c) = InTriangle(q, c, a, b)
      /\ InTriangle(q, a, b, c) \in BOOLEAN
  BY DEF InTriangle
<1>3. Crosses(q, a, b) \in BOOLEAN /\ Crosses(q, b, c) \in BOOLEAN /\ Crosses(q, c, a) \in BOOLEAN
  BY DEF Crosses
<1>4. CASE Above(q, a) = Above(q, b) /\ Above(q, b) = Above(q, c)
  <2>1. ~ InTriangle(q, a, b, c)
    BY <1>4, LevelTriangle, PointsAreInt
  <2>2. ~ Crosses(q, a, b) /\ ~ Crosses(q, b, c) /\ ~ Crosses(q, c, a)
    BY <1>4, CrossesIs
  <2> QED BY <1>2, <1>3, <2>1, <2>2
<1>5. CASE Above(q, a) # Above(q, b) /\ Above(q, b) = Above(q, c)
  BY <1>5, LoneCorner
<1>6. CASE Above(q, b) # Above(q, c) /\ Above(q, c) = Above(q, a)
  <2>1. InTriangle(q, b, c, a) = ((Crosses(q, b, c) # Crosses(q, c, a)) # Crosses(q, a, b))
    BY <1>6, LoneCorner
  <2> QED BY <1>2, <1>3, <2>1
<1>7. CASE Above(q, c) # Above(q, a) /\ Above(q, a) = Above(q, b)
  <2>1. InTriangle(q, c, a, b) = ((Crosses(q, c, a) # Crosses(q, a, b)) # Crosses(q, b, c))
    BY <1>7, LoneCorner
  <2> QED BY <1>2, <1>3, <2>1
<1> QED BY <1>1, <1>4, <1>5, <1>6, <1>7
-----------------------------------------------------------------------------
\* inside, turn by turn of the loop.
Loop(n, met, after) ==
    /\ after \in [0..n -> BOOLEAN]
    /\ after[0] = FALSE
    /\ \A i \in 1..n : after[i] = (after[i - 1] # met[i])

\* A list of n elements is a sequence of length n.
LEMMA Listed ==
  ASSUME NEW n \in Nat, NEW S, NEW s \in [1..n -> S]
  PROVE  s \in Seq(S) /\ Len(s) = n /\ DOMAIN s = 1..n
  OBVIOUS

LEMMA LoopExists ==
  ASSUME NEW n \in Nat, NEW met \in [1..n -> BOOLEAN]
  PROVE  \E after \in [0..n -> BOOLEAN] : Loop(n, met, after)
<1> DEFINE Reached == {m \in 0..n : \E f \in [0..m -> BOOLEAN] : Loop(m, met, f)}
<1>2. 0 \in Reached
  <2> DEFINE f == [i \in 0..0 |-> FALSE]
  <2>1. f \in [0..0 -> BOOLEAN] /\ f[0] = FALSE /\ 1..0 = {}
    OBVIOUS
  <2> HIDE DEF f
  <2>2. Loop(0, met, f)
    BY <2>1 DEF Loop
  <2>3. 0 \in 0..n
    OBVIOUS
  <2> QED BY <2>1, <2>2, <2>3
<1>3. ASSUME NEW k \in 0..n - 1, k \in Reached PROVE k + 1 \in Reached
  <2>1. PICK f \in [0..k -> BOOLEAN] : Loop(k, met, f)
    BY <1>3
  <2> DEFINE g == [i \in 0..k + 1 |-> IF i = k + 1 THEN f[k] # met[k + 1] ELSE f[i]]
  <2>2. g \in [0..k + 1 -> BOOLEAN]
    <3>1. \A i \in 0..k + 1 : i # k + 1 => i \in 0..k
      OBVIOUS
    <3>2. \A i \in 0..k + 1 : (IF i = k + 1 THEN f[k] # met[k + 1] ELSE f[i]) \in BOOLEAN
      BY <3>1, <2>1
    <3> QED BY <3>2
  <2>3. g[0] = FALSE /\ \A i \in 1..k + 1 : g[i] = (g[i - 1] # met[i])
    BY <2>1 DEF Loop
  <2> HIDE DEF g
  <2>4. Loop(k + 1, met, g)
    BY <2>2, <2>3 DEF Loop
  <2> QED BY <2>2, <2>4
<1>4. n \in Reached
  <2> HIDE DEF Reached
  <2>1. \A k \in 0..n : k \in Reached
    BY <1>2, <1>3, Turns
  <2> QED BY <2>1
<1> QED BY <1>4

\* The edges that the ray meets.
Met(n, q, v) == [i \in 1..n |-> Crosses(q, v[i], v[IF i = 1 THEN n ELSE i - 1])]

LEMMA MetIsBoolean ==
  ASSUME NEW n \in Nat, NEW q, NEW v PROVE Met(n, q, v) \in [1..n -> BOOLEAN]
BY DEF Met, Crosses

\* The loop ends with what any such list ends with.
LEMMA LoopIs ==
  ASSUME NEW n \in Nat, n >= 3, NEW q, NEW v \in [1..n -> Points(Coord)],
         NEW after \in [0..n -> BOOLEAN], Loop(n, Met(n, q, v), after)
  PROVE  PointInPolygon(q, v) = after[n]
<1> DEFINE Edge(i) == Crosses(q, v[i], v[IF i = 1 THEN n ELSE i - 1])
           Body(f) == [i \in 0..n |-> IF i = 0 THEN FALSE ELSE f[i - 1] # Edge(i)]
           f == CHOOSE g : g = Body(g)
           Agree == {i \in 0..n : f[i] = after[i]}
<1>1. Len(v) = n
  BY Listed
<1>2. PointInPolygon(q, v) = (n >= 3 /\ f[n])
  BY <1>1 DEF PointInPolygon
<1>0. \A i \in 1..n : Edge(i) \in BOOLEAN /\ Met(n, q, v)[i] = Edge(i)
  BY DEF Met, Crosses
<1> HIDE DEF Edge
<1>3. after = Body(after)
  <2>1. \A i \in 0..n : i # 0 => i \in 1..n
    OBVIOUS
  <2>2. \A i \in 0..n : after[i] = IF i = 0 THEN FALSE ELSE after[i - 1] # Edge(i)
    BY <1>0, <2>1 DEF Loop
  <2> QED BY <2>2
<1>4. f = Body(f)
  <2> HIDE DEF Body
  <2> QED BY <1>3
<1> HIDE DEF f
<1>5. f[0] = FALSE /\ \A i \in 1..n : f[i] = (f[i - 1] # Edge(i))
  <2>1. 0 \in 0..n /\ \A i \in 1..n : i \in 0..n /\ i # 0
    OBVIOUS
  <2>2. \A i \in 0..n : f[i] = IF i = 0 THEN FALSE ELSE f[i - 1] # Edge(i)
    BY <1>4
  <2> QED BY <2>1, <2>2
<1>6. 0 \in Agree
  <2>1. 0 \in 0..n /\ after[0] = FALSE
    BY DEF Loop
  <2> QED BY <2>1, <1>5
<1>7. ASSUME NEW k \in 0..n - 1, k \in Agree PROVE k + 1 \in Agree
  <2>1. k + 1 \in 1..n /\ (k + 1) - 1 = k /\ k + 1 \in 0..n
    OBVIOUS
  <2>2. f[k + 1] = (f[k] # Edge(k + 1))
    BY <1>5, <2>1
  <2>3. after[k + 1] = (after[k] # Edge(k + 1))
    BY <2>1, <1>0 DEF Loop
  <2> QED BY <1>7, <2>1, <2>2, <2>3
<1>8. n \in Agree
  <2> HIDE DEF Agree
  <2>1. \A k \in 0..n : k \in Agree
    BY <1>6, <1>7, Turns
  <2> QED BY <2>1
<1>9. f[n] = after[n] /\ after[n] \in BOOLEAN
  BY <1>8
<1> QED BY <1>2, <1>9
-----------------------------------------------------------------------------
\* A list of numbers has a least and a greatest.
LEMMA ListExtremes ==
  ASSUME NEW n \in Nat, n # 0, NEW s \in [1..n -> Int]
  PROVE  /\ \E i \in 1..n : \A j \in 1..n : s[i] <= s[j]
         /\ \E i \in 1..n : \A j \in 1..n : s[i] >= s[j]
<1> DEFINE Reached == {k \in 0..n - 1 : /\ \E i \in 1..k + 1 : \A j \in 1..k + 1 : s[i] <= s[j]
                                        /\ \E i \in 1..k + 1 : \A j \in 1..k + 1 : s[i] >= s[j]}
<1>1. 0 \in Reached
  <2>1. 0 \in 0..n - 1 /\ 1..0 + 1 = {1} /\ s[1] \in Int
    OBVIOUS
  <2> QED BY <2>1
<1>2. ASSUME NEW k \in 0..(n - 1) - 1, k \in Reached PROVE k + 1 \in Reached
  <2>1. PICK i \in 1..k + 1 : \A j \in 1..k + 1 : s[i] <= s[j]
    BY <1>2
  <2>2. PICK h \in 1..k + 1 : \A j \in 1..k + 1 : s[h] >= s[j]
    BY <1>2
  <2>3. /\ k + 1 \in 0..n - 1 /\ k + 2 \in 1..(k + 1) + 1
        /\ \A j \in 1..(k + 1) + 1 : j \in 1..k + 1 \/ j = k + 2
        /\ \A j \in 1..k + 1 : j \in 1..(k + 1) + 1
        /\ \A j \in 1..(k + 1) + 1 : s[j] \in Int
    OBVIOUS
  <2>4. \E m \in 1..(k + 1) + 1 : \A j \in 1..(k + 1) + 1 : s[m] <= s[j]
    <3>1. CASE s[i] <= s[k + 2]
      BY <2>1, <2>3, <3>1
    <3>2. CASE s[k + 2] <= s[i]
      BY <2>1, <2>3, <3>2
    <3> QED BY <2>3, <3>1, <3>2
  <2>5. \E m \in 1..(k + 1) + 1 : \A j \in 1..(k + 1) + 1 : s[m] >= s[j]
    <3>1. CASE s[h] >= s[k + 2]
      BY <2>2, <2>3, <3>1
    <3>2. CASE s[k + 2] >= s[h]
      BY <2>2, <2>3, <3>2
    <3> QED BY <2>3, <3>1, <3>2
  <2> QED BY <2>3, <2>4, <2>5
<1>3. n - 1 \in Reached
  <2> HIDE DEF Reached
  <2>1. n - 1 \in Nat
    OBVIOUS
  <2>2. \A k \in 0..n - 1 : k \in Reached
    BY <1>1, <1>2, <2>1, Turns
  <2> QED BY <2>1, <2>2
<1> QED BY <1>3

LEMMA ExtremesOfList ==
  ASSUME NEW n \in Nat, n # 0, NEW s \in [1..n -> Int]
  PROVE  LET S == {s[i] : i \in 1..n}
         IN  /\ Min(S) \in Int /\ Max(S) \in Int
             /\ \A i \in 1..n : Min(S) <= s[i] /\ s[i] <= Max(S)
<1> DEFINE S == {s[i] : i \in 1..n}
<1>1. S \subseteq Int /\ \A i \in 1..n : s[i] \in S
  OBVIOUS
<1>2. (\E x \in S : \A y \in S : x <= y) /\ (\E x \in S : \A y \in S : x >= y)
  <2>1. PICK i \in 1..n : \A j \in 1..n : s[i] <= s[j]
    BY ListExtremes
  <2>2. PICK k \in 1..n : \A j \in 1..n : s[k] >= s[j]
    BY ListExtremes
  <2>3. \A y \in S : s[i] <= y /\ s[k] >= y
    BY <2>1, <2>2
  <2> HIDE DEF S
  <2> QED BY <1>1, <2>3
<1> HIDE DEF S
<1>3. Min(S) \in S /\ \A y \in S : Min(S) <= y
  BY <1>2 DEF Min
<1>4. Max(S) \in S /\ \A y \in S : Max(S) >= y
  BY <1>2 DEF Max
<1> QED BY <1>1, <1>3, <1>4 DEF S
-----------------------------------------------------------------------------
\* A polygon of n corners.
Polygon(n, v) == n \in Nat /\ n >= 3 /\ v \in [1..n -> Points(Coord)]

LEMMA BoxBounds ==
  ASSUME NEW n, NEW v, Polygon(n, v)
  PROVE  LET box == boundingBox(v) IN
         /\ box.minX \in Int /\ box.maxX \in Int /\ box.minY \in Int /\ box.maxY \in Int
         /\ \A i \in 1..n : /\ box.minX <= v[i].x /\ v[i].x <= box.maxX
                            /\ box.minY <= v[i].y /\ v[i].y <= box.maxY
<1> USE DEF Polygon
<1> DEFINE xs == [i \in 1..n |-> v[i].x]
           ys == [i \in 1..n |-> v[i].y]
<1>1. xs \in [1..n -> Int] /\ ys \in [1..n -> Int]
  <2>1. \A i \in 1..n : v[i] \in Points(Int)
    BY PointsAreInt
  <2> QED BY <2>1 DEF Points
<1>2. DOMAIN v = 1..n
  OBVIOUS
<1>3. {v[i].x : i \in DOMAIN v} = {xs[i] : i \in 1..n} /\ {v[i].y : i \in DOMAIN v} = {ys[i] : i \in 1..n}
  BY <1>2
<1>4. /\ boundingBox(v).minX = Min({xs[i] : i \in 1..n}) /\ boundingBox(v).maxX = Max({xs[i] : i \in 1..n})
      /\ boundingBox(v).minY = Min({ys[i] : i \in 1..n}) /\ boundingBox(v).maxY = Max({ys[i] : i \in 1..n})
  BY <1>3 DEF boundingBox
<1>5. \A i \in 1..n : xs[i] = v[i].x /\ ys[i] = v[i].y
  OBVIOUS
<1> HIDE DEF xs, ys
<1>6. n # 0
  OBVIOUS
<1>7. /\ Min({xs[i] : i \in 1..n}) \in Int /\ Max({xs[i] : i \in 1..n}) \in Int
      /\ \A i \in 1..n : Min({xs[j] : j \in 1..n}) <= xs[i] /\ xs[i] <= Max({xs[j] : j \in 1..n})
  BY <1>1, <1>6, ExtremesOfList
<1>8. /\ Min({ys[i] : i \in 1..n}) \in Int /\ Max({ys[i] : i \in 1..n}) \in Int
      /\ \A i \in 1..n : Min({ys[j] : j \in 1..n}) <= ys[i] /\ ys[i] <= Max({ys[j] : j \in 1..n})
  BY <1>1, <1>6, ExtremesOfList
<1> QED BY <1>4, <1>5, <1>7, <1>8

\* Outside the box of a polygon the ray meets none of its edges, or each at its height.
LEMMA OutsideBox ==
  ASSUME ProductsFit, NEW n, NEW v, Polygon(n, v), NEW q \in Points(Coord),
         LET box == boundingBox(v) IN
         ~ (q.x \in box.minX..box.maxX /\ q.y \in box.minY..box.maxY)
  PROVE  ~ PointInPolygon(q, v)
<1> USE DEF Polygon
<1> DEFINE box == boundingBox(v)
           met == Met(n, q, v)
           prev(i) == IF i = 1 THEN n ELSE i - 1
<1>1. /\ box.minX \in Int /\ box.maxX \in Int /\ box.minY \in Int /\ box.maxY \in Int
      /\ \A i \in 1..n : /\ box.minX <= v[i].x /\ v[i].x <= box.maxX
                         /\ box.minY <= v[i].y /\ v[i].y <= box.maxY
  BY BoxBounds
<1>2. q.x \in Int /\ q.y \in Int /\ \A i \in 1..n : v[i].x \in Int /\ v[i].y \in Int /\ v[i] \in Points(Coord)
  BY PointsAreInt DEF Points
<1>3. \A i \in 1..n : met[i] = Crosses(q, v[i], v[prev(i)]) /\ prev(i) \in 1..n
  BY DEF Met
<1>4. met \in [1..n -> BOOLEAN]
  BY MetIsBoolean
<1> HIDE DEF met, box
<1>5. CASE \A i \in 1..n : ~ met[i]
  <2> DEFINE after == [i \in 0..n |-> FALSE]
  <2>1. after \in [0..n -> BOOLEAN] /\ after[0] = FALSE /\ \A i \in 1..n : after[i] = (after[i - 1] # met[i])
    <3>1. \A i \in 1..n : i \in 0..n /\ i - 1 \in 0..n
      OBVIOUS
    <3>2. \A i \in 1..n : met[i] = FALSE
      BY <1>4, <1>5
    <3>3. after \in [0..n -> BOOLEAN] /\ \A i \in 0..n : after[i] = FALSE
      OBVIOUS
    <3>4. 0 \in 0..n
      OBVIOUS
    <3> HIDE DEF after
    <3> QED BY <3>1, <3>2, <3>3, <3>4
  <2>2. after[n] = FALSE
    OBVIOUS
  <2> HIDE DEF after
  <2>3. Loop(n, met, after)
    BY <2>1 DEF Loop
  <2>4. PointInPolygon(q, v) = after[n]
    BY <2>1, <2>3, LoopIs DEF met
  <2> QED BY <2>2, <2>4
<1>6. CASE \A i \in 1..n : met[i] = (Above(q, v[i]) # Above(q, v[prev(i)]))
  <2> DEFINE after == [i \in 0..n |-> IF i = 0 THEN FALSE ELSE Above(q, v[i]) # Above(q, v[n])]
  <2>0. \A i \in 1..n : Above(q, v[i]) \in BOOLEAN
    BY DEF Above
  <2>1. after \in [0..n -> BOOLEAN] /\ after[0] = FALSE /\ after[n] = FALSE
    <3>1. \A i \in 0..n : i # 0 => i \in 1..n
      OBVIOUS
    <3>2. \A i \in 0..n : (IF i = 0 THEN FALSE ELSE Above(q, v[i]) # Above(q, v[n])) \in BOOLEAN
      BY <2>0, <3>1
    <3>3. 0 \in 0..n /\ n \in 0..n /\ n # 0
      OBVIOUS
    <3> QED BY <3>2, <3>3
  <2>2. \A i \in 1..n : after[i] = (after[i - 1] # met[i])
    <3> TAKE i \in 1..n
    <3>1. CASE i = 1
      <4>1. met[1] = (Above(q, v[1]) # Above(q, v[n])) /\ 1 \in 1..n
        BY <1>6
      <4>2. after[1] = (Above(q, v[1]) # Above(q, v[n])) /\ after[0] = FALSE /\ 1 - 1 = 0
        OBVIOUS
      <4>3. met[1] \in BOOLEAN
        BY <1>4
      <4> HIDE DEF after
      <4> QED BY <3>1, <4>1, <4>2, <4>3
    <3>2. CASE i # 1
      <4>1. i - 1 \in 1..n /\ prev(i) = i - 1 /\ i \in 0..n /\ i - 1 \in 0..n /\ i - 1 # 0 /\ i # 0
        BY <3>2
      <4>2. met[i] = (Above(q, v[i]) # Above(q, v[i - 1]))
        BY <1>6, <4>1
      <4>3. /\ after[i] = (Above(q, v[i]) # Above(q, v[n]))
            /\ after[i - 1] = (Above(q, v[i - 1]) # Above(q, v[n]))
        BY <4>1
      <4> QED BY <2>0, <4>1, <4>2, <4>3
    <3> QED BY <3>1, <3>2
  <2> HIDE DEF after
  <2>3. Loop(n, met, after)
    BY <2>1, <2>2 DEF Loop
  <2> QED BY <2>1, <2>3, LoopIs DEF met
<1>7. CASE q.y < box.minY \/ q.y > box.maxY
  <2>1. \A i, j \in 1..n : Above(q, v[i]) = Above(q, v[j])
    BY <1>1, <1>2, <1>7 DEF Above
  <2>2. \A i \in 1..n : ~ met[i]
    BY <1>2, <1>3, <2>1, CrossesIs
  <2> QED BY <1>5, <2>2
<1>8. CASE q.x > box.maxX
  <2>1. \A i \in 1..n : v[i].x < q.x
    BY <1>1, <1>2, <1>8
  <2>2. \A i \in 1..n : ~ met[i]
    BY <1>2, <1>3, <2>1, EdgeBeside
  <2> QED BY <1>5, <2>2
<1>9. CASE q.x < box.minX
  <2>1. \A i \in 1..n : v[i].x > q.x
    BY <1>1, <1>2, <1>9
  <2>2. \A i \in 1..n : met[i] = (Above(q, v[i]) # Above(q, v[prev(i)]))
    BY <1>2, <1>3, <2>1, EdgeBeside
  <2> QED BY <1>6, <2>2
<1>10. ~ (q.x \in box.minX..box.maxX /\ q.y \in box.minY..box.maxY)
  BY DEF box
<1> QED BY <1>1, <1>2, <1>7, <1>8, <1>9, <1>10
-----------------------------------------------------------------------------
\* Starting one vertex later.
LEMMA TurnedPolygon ==
  ASSUME NEW n, NEW v, Polygon(n, v), NEW q
  PROVE  PointInPolygon(q, Append(Tail(v), Head(v))) = PointInPolygon(q, v)
<1> USE DEF Polygon
<1> DEFINE w == Append(Tail(v), Head(v))
           met == Met(n, q, v)
           metW == Met(n, q, w)
<1>1. /\ w \in [1..n -> Points(Coord)]
      /\ \A i \in 1..n - 1 : w[i] = v[i + 1]
      /\ w[n] = v[1]
  <2>1. v \in Seq(Points(Coord)) /\ Len(v) = n
    BY Listed
  <2>2. Tail(v) \in Seq(Points(Coord)) /\ Len(Tail(v)) = n - 1 /\ \A i \in 1..n - 1 : Tail(v)[i] = v[i + 1]
    BY <2>1
  <2>3. Head(v) = v[1] /\ v[1] \in Points(Coord)
    BY <2>1
  <2> DEFINE t == Tail(v)  h == Head(v)
  <2> HIDE DEF t, h
  <2>4. t \in Seq(Points(Coord)) /\ Len(t) = n - 1 /\ h \in Points(Coord)
    BY <2>2, <2>3 DEF t, h
  <2>5. Append(t, h) \in [1..n -> Points(Coord)]
    <3>1. Append(t, h) \in Seq(Points(Coord)) /\ Len(Append(t, h)) = n
      BY <2>4
    <3> DEFINE u == Append(t, h)
    <3> HIDE DEF u
    <3>2. u \in Seq(Points(Coord)) /\ Len(u) = n
      BY <3>1 DEF u
    <3>3. u \in [1..n -> Points(Coord)]
      BY <3>2
    <3> QED BY <3>3 DEF u
  <2>6. \A i \in 1..n - 1 : Append(t, h)[i] = t[i]
    BY <2>4
  <2>7. Append(t, h)[n] = h
    BY <2>4
  <2> QED BY <2>2, <2>3, <2>5, <2>6, <2>7 DEF t, h
<1> HIDE DEF w
<1>2. met \in [1..n -> BOOLEAN] /\ metW \in [1..n -> BOOLEAN]
  BY MetIsBoolean
<1>3. (\A i \in 1..n - 1 : metW[i] = met[i + 1]) /\ metW[n] = met[1]
  <2>1. \A i \in 1..n - 1 : metW[i] = met[i + 1]
    <3> TAKE i \in 1..n - 1
    <3>1. i \in 1..n /\ i + 1 \in 1..n /\ i + 1 # 1 /\ (i + 1) - 1 = i /\ w[i] = v[i + 1]
      BY <1>1
    <3>2. met[i + 1] = Crosses(q, v[i + 1], v[i])
      BY <3>1 DEF Met
    <3>3. metW[i] = Crosses(q, w[i], w[IF i = 1 THEN n ELSE i - 1])
      BY <3>1 DEF Met
    <3>4. w[IF i = 1 THEN n ELSE i - 1] = v[i]
      <4>1. i # 1 => i - 1 \in 1..n - 1 /\ (i - 1) + 1 = i
        OBVIOUS
      <4> QED BY <4>1, <1>1
    <3> QED BY <3>1, <3>2, <3>3, <3>4
  <2>2. metW[n] = met[1]
    <3>1. n \in 1..n /\ n # 1 /\ n - 1 \in 1..n - 1 /\ (n - 1) + 1 = n /\ 1 \in 1..n
      OBVIOUS
    <3>2. metW[n] = Crosses(q, w[n], w[n - 1]) /\ met[1] = Crosses(q, v[1], v[n])
      BY <3>1 DEF Met
    <3>3. w[n - 1] = v[n]
      BY <3>1, <1>1
    <3> QED BY <1>1, <3>2, <3>3
  <2> QED BY <2>1, <2>2
<1>4. PICK after \in [0..n -> BOOLEAN] : Loop(n, met, after)
  BY <1>2, LoopExists
<1>5. PointInPolygon(q, v) = after[n]
  BY <1>4, LoopIs
<1> DEFINE afterW == [i \in 0..n |-> IF i = n THEN after[n] ELSE after[i + 1] # met[1]]
<1>6. after[0] = FALSE /\ \A i \in 1..n : after[i] = (after[i - 1] # met[i])
  BY <1>4 DEF Loop
<1> HIDE DEF met, metW
<1>7. Loop(n, metW, afterW) /\ afterW \in [0..n -> BOOLEAN] /\ afterW[n] = after[n]
  <2>1. afterW \in [0..n -> BOOLEAN]
    <3>1. \A i \in 0..n : i # n => i + 1 \in 0..n
      OBVIOUS
    <3>2. \A i \in 0..n : (IF i = n THEN after[n] ELSE after[i + 1] # met[1]) \in BOOLEAN
      BY <3>1
    <3> QED BY <3>2
  <2>2. afterW[n] = after[n] /\ \A i \in 0..n - 1 : afterW[i] = (after[i + 1] # met[1])
    <3>1. n \in 0..n /\ \A i \in 0..n - 1 : i \in 0..n /\ i # n
      OBVIOUS
    <3> QED BY <3>1
  <2>3. afterW[0] = FALSE
    <3>1. 0 \in 0..n - 1 /\ 1 \in 1..n /\ 0 + 1 = 1 /\ 1 - 1 = 0
      OBVIOUS
    <3>2. after[1] = (after[0] # met[1]) /\ after[0] = FALSE /\ met[1] \in BOOLEAN
      BY <1>2, <1>6, <3>1
    <3> QED BY <2>2, <3>1, <3>2
  <2>4. ASSUME NEW i \in 1..n PROVE afterW[i] = (afterW[i - 1] # metW[i])
    <3>0. i - 1 \in 0..n - 1 /\ (i - 1) + 1 = i /\ i \in 0..n
      OBVIOUS
    <3>1. afterW[i - 1] = (after[i] # met[1])
      BY <2>2, <3>0
    <3>2. CASE i = n
      <4>1. afterW[i] = after[n] /\ metW[i] = met[1]
        BY <1>3, <2>2, <3>2
      <4>2. met[1] \in BOOLEAN /\ after[n] \in BOOLEAN
        BY <1>2
      <4> QED BY <3>1, <3>2, <4>1, <4>2
    <3>3. CASE i # n
      <4>1. i \in 0..n - 1 /\ i \in 1..n - 1 /\ i + 1 \in 1..n /\ (i + 1) - 1 = i
        BY <3>3
      <4>2. afterW[i] = (after[i + 1] # met[1]) /\ metW[i] = met[i + 1]
        BY <1>3, <2>2, <4>1
      <4>3. after[i + 1] = (after[i] # met[i + 1])
        BY <1>6, <4>1
      <4>4. met[1] \in BOOLEAN /\ after[i] \in BOOLEAN /\ met[i + 1] \in BOOLEAN
        BY <1>2, <4>1, <3>0
      <4> QED BY <3>1, <4>2, <4>3, <4>4
    <3> QED BY <3>2, <3>3
  <2> HIDE DEF afterW
  <2> QED BY <2>1, <2>2, <2>3, <2>4 DEF Loop
<1> HIDE DEF afterW
<1>8. PointInPolygon(q, w) = afterW[n]
  <2>1. Loop(n, Met(n, q, w), afterW)
    BY <1>7 DEF metW
  <2>2. n \in Nat /\ n >= 3
    OBVIOUS
  <2> HIDE DEF Polygon
  <2> QED BY <1>1, <1>7, <2>1, <2>2, LoopIs
<1> QED BY <1>5, <1>7, <1>8 DEF w
-----------------------------------------------------------------------------
\* The vertices in the other direction, off the boundary.
LEMMA BackwardsPolygon ==
  ASSUME ProductsFit, NEW n, NEW v, Polygon(n, v), NEW q \in Points(Coord), ~ OnBoundary(q, v)
  PROVE  PointInPolygon(q, Backwards(v)) = PointInPolygon(q, v)
<1> USE DEF Polygon
<1> DEFINE w == Backwards(v)
           met == Met(n, q, v)
           metW == Met(n, q, w)
<1>1. Len(v) = n /\ DOMAIN v = 1..n
  BY Listed
<1>2. w \in [1..n -> Points(Coord)] /\ \A i \in 1..n : w[i] = v[n + 1 - i] /\ n + 1 - i \in 1..n
  <2>1. w = [k \in 1..n |-> v[n + 1 - k]]
    BY <1>1 DEF Backwards
  <2>2. \A i \in 1..n : n + 1 - i \in 1..n
    OBVIOUS
  <2> HIDE DEF w
  <2> QED BY <2>1, <2>2
<1> HIDE DEF w
<1>3. /\ \A k \in 1..n - 1 : Crosses(q, v[k], v[k + 1]) = Crosses(q, v[k + 1], v[k])
      /\ Crosses(q, v[n], v[1]) = Crosses(q, v[1], v[n])
  <2>1. \A k \in 1..n : ~ OnSegment(q, v[k], v[IF k = n THEN 1 ELSE k + 1])
    BY <1>1 DEF OnBoundary
  <2>2. ASSUME NEW k \in 1..n - 1 PROVE Crosses(q, v[k], v[k + 1]) = Crosses(q, v[k + 1], v[k])
    <3>1. k \in 1..n /\ k # n /\ k + 1 \in 1..n
      OBVIOUS
    <3>2. ~ OnSegment(q, v[k], v[k + 1])
      BY <2>1, <3>1
    <3> QED BY <3>1, <3>2, CrossesBackwards
  <2>3. n \in 1..n /\ 1 \in 1..n
    OBVIOUS
  <2>4. ~ OnSegment(q, v[n], v[1])
    BY <2>1, <2>3
  <2> QED BY <2>2, <2>3, <2>4, CrossesBackwards
<1>4. met \in [1..n -> BOOLEAN] /\ metW \in [1..n -> BOOLEAN]
  BY MetIsBoolean
<1>5. metW[1] = met[1] /\ \A i \in 2..n : metW[i] = met[n + 2 - i]
  <2>1. metW[1] = met[1]
    <3>1. 1 \in 1..n /\ n \in 1..n /\ n + 1 - 1 = n /\ n + 1 - n = 1
      OBVIOUS
    <3>2. metW[1] = Crosses(q, w[1], w[n]) /\ met[1] = Crosses(q, v[1], v[n])
      BY <3>1 DEF Met
    <3>3. w[1] = v[n] /\ w[n] = v[1]
      BY <1>2, <3>1
    <3> QED BY <1>3, <3>2, <3>3
  <2>2. ASSUME NEW i \in 2..n PROVE metW[i] = met[n + 2 - i]
    <3> DEFINE k == n + 1 - i
    <3>1. /\ i \in 1..n /\ i # 1 /\ i - 1 \in 1..n /\ n + 1 - (i - 1) = k + 1
          /\ k \in 1..n - 1 /\ k + 1 \in 1..n /\ k + 1 # 1 /\ (k + 1) - 1 = k /\ n + 2 - i = k + 1
      OBVIOUS
    <3>2. metW[i] = Crosses(q, w[i], w[i - 1])
      BY <3>1 DEF Met
    <3>3. w[i] = v[k] /\ w[i - 1] = v[k + 1]
      BY <1>2, <3>1
    <3> HIDE DEF k
    <3>4. met[k + 1] = Crosses(q, v[k + 1], v[k])
      BY <3>1 DEF Met
    <3> QED BY <1>3, <3>1, <3>2, <3>3, <3>4
  <2> QED BY <2>1, <2>2
<1>6. PICK after \in [0..n -> BOOLEAN] : Loop(n, met, after)
  BY <1>4, LoopExists
<1>7. PointInPolygon(q, v) = after[n]
  BY <1>6, LoopIs
<1>8. after[0] = FALSE /\ \A i \in 1..n : after[i] = (after[i - 1] # met[i])
  BY <1>6 DEF Loop
<1> DEFINE afterW == [i \in 0..n |-> IF i = 0 THEN FALSE ELSE (met[1] # after[n]) # after[n + 1 - i]]
<1> HIDE DEF met, metW
<1>9. Loop(n, metW, afterW) /\ afterW \in [0..n -> BOOLEAN] /\ afterW[n] = after[n]
  <2>0. /\ met[1] \in BOOLEAN /\ after[n] \in BOOLEAN
        /\ \A i \in 1..n : after[n + 1 - i] \in BOOLEAN /\ met[i] \in BOOLEAN
    <3>1. 1 \in 1..n /\ n \in 0..n /\ \A i \in 1..n : n + 1 - i \in 0..n
      OBVIOUS
    <3> QED BY <1>4, <3>1
  <2>1. afterW \in [0..n -> BOOLEAN]
    <3>1. \A i \in 0..n : i # 0 => i \in 1..n
      OBVIOUS
    <3>2. \A i \in 0..n : (IF i = 0 THEN FALSE ELSE (met[1] # after[n]) # after[n + 1 - i]) \in BOOLEAN
      BY <2>0, <3>1
    <3> QED BY <3>2
  <2>2. afterW[0] = FALSE /\ \A i \in 1..n : afterW[i] = ((met[1] # after[n]) # after[n + 1 - i])
    <3>1. 0 \in 0..n /\ \A i \in 1..n : i \in 0..n /\ i # 0
      OBVIOUS
    <3> QED BY <3>1
  <2> HIDE DEF afterW
  <2>3. after[1] = met[1]
    <3>1. 1 \in 1..n /\ 1 - 1 = 0
      OBVIOUS
    <3> QED BY <1>8, <2>0, <3>1
  <2>4. afterW[n] = after[n]
    <3>1. n \in 1..n /\ n + 1 - n = 1
      OBVIOUS
    <3>2. afterW[n] = ((met[1] # after[n]) # after[1])
      BY <2>2, <3>1
    <3> QED BY <2>0, <2>3, <3>2
  <2>5. ASSUME NEW i \in 1..n PROVE afterW[i] = (afterW[i - 1] # metW[i])
    <3>1. CASE i = 1
      <4>1. 1 \in 1..n /\ n + 1 - 1 = n /\ 1 - 1 = 0
        OBVIOUS
      <4>2. afterW[1] = ((met[1] # after[n]) # after[n]) /\ afterW[0] = FALSE
        BY <2>2, <4>1
      <4>3. afterW[1] = (afterW[0] # metW[1])
        BY <1>5, <2>0, <4>2
      <4> QED BY <3>1, <4>1, <4>3
    <3>2. CASE i # 1
      <4> DEFINE k == n + 1 - i
      <4>1. /\ i \in 2..n /\ i - 1 \in 1..n /\ n + 1 - (i - 1) = k + 1 /\ k + 1 \in 1..n
            /\ (k + 1) - 1 = k /\ n + 2 - i = k + 1
        BY <3>2
      <4>2. afterW[i] = ((met[1] # after[n]) # after[k])
        BY <2>2
      <4>3. afterW[i - 1] = ((met[1] # after[n]) # after[k + 1])
        BY <2>2, <4>1
      <4>4. metW[i] = met[k + 1]
        BY <1>5, <4>1
      <4>5. after[k] \in BOOLEAN
        BY <2>0
      <4> HIDE DEF k
      <4>6. after[k + 1] = (after[k] # met[k + 1])
        BY <1>8, <4>1
      <4>7. met[k + 1] \in BOOLEAN
        BY <2>0, <4>1
      <4> QED BY <2>0, <4>2, <4>3, <4>4, <4>5, <4>6, <4>7
    <3> QED BY <3>1, <3>2
  <2> QED BY <2>1, <2>2, <2>4, <2>5 DEF Loop
<1> HIDE DEF afterW
<1>10. PointInPolygon(q, w) = afterW[n]
  <2>1. Loop(n, Met(n, q, w), afterW)
    BY <1>9 DEF metW
  <2>2. n \in Nat /\ n >= 3
    OBVIOUS
  <2> HIDE DEF Polygon
  <2> QED BY <1>2, <1>9, <2>1, <2>2, LoopIs
<1> QED BY <1>7, <1>9, <1>10 DEF w
-----------------------------------------------------------------------------
LEMMA OnSegmentBackwards ==
  ASSUME NEW q \in Points(Int), NEW a \in Points(Int), NEW b \in Points(Int), OnSegment(q, b, a)
  PROVE  OnSegment(q, a, b)
<1>1. Turn(a, b, q) = 0
  BY TurnAt DEF OnSegment
<1>2. {a.x, b.x} = {b.x, a.x} /\ {a.y, b.y} = {b.y, a.y}
  OBVIOUS
<1> QED BY <1>1, <1>2 DEF OnSegment
-----------------------------------------------------------------------------
\* Off the boundary and the cuts, the ray cast counts triangles.
LEMMA RayCastIsEvenOdd ==
  ASSUME ProductsFit, NEW n, NEW v, Polygon(n, v), NEW q \in Points(Coord),
         ~ OnBoundary(q, v), ~ OnCut(q, v)
  PROVE  PointInPolygon(q, v) = EvenOdd(q, v)
<1> USE DEF Polygon
<1> DEFINE met == Met(n, q, v)
           In(k) == InTriangle(q, v[1], v[k], v[k + 1])
           Cut(k) == Crosses(q, v[1], v[k])
           Counted(m) == {k \in 2..m - 1 : In(k)}
           odd(m) == Cardinality(Counted(m)) % 2 = 1
           after == [i \in 0..n |-> IF i = 0 THEN FALSE
                                    ELSE IF i = 1 THEN met[1] ELSE (met[1] # Cut(i)) # odd(i)]
<1>1. Len(v) = n /\ DOMAIN v = 1..n
  BY Listed
<1>2. met \in [1..n -> BOOLEAN]
  BY MetIsBoolean
<1>3. met[1] = Cut(n) /\ \A k \in 2..n : met[k] = Crosses(q, v[k], v[k - 1])
  <2>1. n \in 1..n /\ 1 \in 1..n /\ \A k \in 2..n : k \in 1..n /\ k # 1
    OBVIOUS
  <2> QED BY <2>1 DEF Met
<1>4. /\ \A k \in 2..n : ~ OnSegment(q, v[1], v[k])
      /\ \A k \in 1..n - 1 : ~ OnSegment(q, v[k], v[k + 1])
  <2>1. \A k \in 2..n : k \in 1..n
    OBVIOUS
  <2>2. \A k \in 1..n - 1 : k \in 1..n /\ k # n
    OBVIOUS
  <2> QED BY <1>1, <2>1, <2>2 DEF OnBoundary, OnCut
<1>5. met[2] = Cut(2)
  <2>1. met[2] = Crosses(q, v[2], v[1])
    BY <1>3
  <2>2. 1 \in 1..n /\ 2 \in 1..n /\ 2 \in 2..n
    OBVIOUS
  <2> QED BY <1>4, <2>1, <2>2, CrossesBackwards
<1>6. ASSUME NEW k \in 2..n - 1
      PROVE  In(k) = ((Cut(k) # met[k + 1]) # Cut(k + 1))
  <2>1. /\ 1 \in 1..n /\ k \in 1..n /\ k + 1 \in 1..n
        /\ k \in 2..n /\ k + 1 \in 2..n /\ k \in 1..n - 1 /\ (k + 1) - 1 = k
    OBVIOUS
  <2>2. v[1] \in Points(Coord) /\ v[k] \in Points(Coord) /\ v[k + 1] \in Points(Coord)
    BY <2>1
  <2>3. ~ OnSegment(q, v[1], v[k]) /\ ~ OnSegment(q, v[k], v[k + 1]) /\ ~ OnSegment(q, v[1], v[k + 1])
    BY <1>4, <2>1
  <2>4. ~ OnSegment(q, v[k + 1], v[1])
    BY <2>2, <2>3, OnSegmentBackwards, PointsAreInt
  <2>5. In(k) = ((Crosses(q, v[1], v[k]) # Crosses(q, v[k], v[k + 1])) # Crosses(q, v[k + 1], v[1]))
    BY <2>2, <2>3, <2>4, TriangleIsRayCast
  <2>6. Crosses(q, v[k + 1], v[1]) = Crosses(q, v[1], v[k + 1])
    BY <2>2, <2>3, CrossesBackwards
  <2>7. Crosses(q, v[k], v[k + 1]) = met[k + 1]
    BY <1>3, <2>1, <2>2, <2>3, CrossesBackwards
  <2> QED BY <2>5, <2>6, <2>7
<1>7. \A k \in 1..n : Cut(k) \in BOOLEAN /\ In(k) \in BOOLEAN /\ met[k] \in BOOLEAN
  BY <1>2 DEF Crosses, InTriangle
<1>8. odd(2) = FALSE
  <2>1. Counted(2) = {}
    OBVIOUS
  <2> QED BY <2>1, FS_EmptySet
<1>9. ASSUME NEW k \in 2..n - 1 PROVE odd(k + 1) = (odd(k) # In(k))
  <2>1. Counted(k) \in SUBSET (1..n) /\ k \notin Counted(k)
    OBVIOUS
  <2>2. IsFiniteSet(Counted(k)) /\ Cardinality(Counted(k)) \in Nat
    BY <2>1, FiniteIndices, FS_CardinalityType
  <2>3. \A j \in 2..(k + 1) - 1 : j \in 2..k - 1 \/ j = k
    OBVIOUS
  <2>4. \A j \in 2..k - 1 : j \in 2..(k + 1) - 1
    OBVIOUS
  <2>5. k \in 2..(k + 1) - 1
    OBVIOUS
  <2>6. CASE In(k)
    <3>1. Counted(k + 1) = Counted(k) \cup {k}
      BY <2>3, <2>4, <2>5, <2>6
    <3>2. Cardinality(Counted(k + 1)) = Cardinality(Counted(k)) + 1
      BY <2>1, <2>2, <3>1, FS_AddElement
    <3> DEFINE c == Cardinality(Counted(k))
    <3>3. c \in Nat /\ ((c + 1) % 2 = 1) = (~ (c % 2 = 1))
      BY <2>2
    <3> QED BY <2>6, <3>2, <3>3
  <2>7. CASE ~ In(k)
    <3>1. Counted(k + 1) = Counted(k)
      BY <2>3, <2>4, <2>5, <2>7
    <3>2. k \in 1..n /\ odd(k) \in BOOLEAN /\ odd(k + 1) = odd(k)
      <4>1. odd(k + 1) = odd(k)
        <5> HIDE DEF Counted
        <5> QED BY <3>1
      <4> QED BY <4>1
    <3>3. In(k) = FALSE
      BY <1>7, <2>7, <3>2
    <3> HIDE DEF odd, In
    <3> QED BY <3>2, <3>3
  <2> QED BY <2>6, <2>7
<1>10. EvenOdd(q, v) = odd(n)
  BY <1>1 DEF EvenOdd
<1>11. \A m \in 2..n : odd(m) \in BOOLEAN
  OBVIOUS
<1> HIDE DEF met, Cut, In, odd
<1>12. /\ after \in [0..n -> BOOLEAN]
       /\ after[0] = FALSE /\ after[1] = met[1]
       /\ \A i \in 2..n : after[i] = ((met[1] # Cut(i)) # odd(i))
  <2>1. \A i \in 0..n : i = 0 \/ i = 1 \/ (i \in 2..n /\ i \in 1..n /\ i # 0 /\ i # 1)
    OBVIOUS
  <2>2. 0 \in 0..n /\ 1 \in 0..n /\ 1 \in 1..n /\ \A i \in 2..n : i \in 0..n /\ i # 0 /\ i # 1
    OBVIOUS
  <2>3. \A i \in 0..n : (IF i = 0 THEN FALSE
                         ELSE IF i = 1 THEN met[1] ELSE (met[1] # Cut(i)) # odd(i)) \in BOOLEAN
    BY <1>7, <1>11, <2>1, <2>2
  <2>4. after \in [0..n -> BOOLEAN]
    BY <2>3
  <2> QED BY <2>2, <2>4
<1> HIDE DEF after
<1>13. ASSUME NEW i \in 1..n PROVE after[i] = (after[i - 1] # met[i])
  <2>1. CASE i = 1
    <3>1. 1 \in 1..n /\ 1 - 1 = 0
      OBVIOUS
    <3> QED BY <1>7, <1>12, <2>1, <3>1
  <2>2. CASE i = 2
    <3>1. 1 \in 1..n /\ 2 \in 1..n /\ 2 \in 2..n /\ 2 - 1 = 1
      OBVIOUS
    <3>2. after[2] = ((met[1] # Cut(2)) # FALSE) /\ after[1] = met[1]
      BY <1>8, <1>12, <3>1
    <3>3. after[2] = (after[1] # met[2])
      BY <1>5, <1>7, <3>1, <3>2
    <3> QED BY <2>2, <3>1, <3>3
  <2>3. CASE i # 1 /\ i # 2
    <3> DEFINE k == i - 1
    <3>1. /\ k \in 2..n - 1 /\ k \in 2..n /\ k + 1 \in 2..n
          /\ k \in 1..n /\ k + 1 \in 1..n /\ 1 \in 1..n /\ k + 1 = i
      BY <2>3
    <3> HIDE DEF k
    <3>2. after[k] = ((met[1] # Cut(k)) # odd(k))
      BY <1>12, <3>1
    <3>3. after[k + 1] = ((met[1] # Cut(k + 1)) # odd(k + 1))
      BY <1>12, <3>1
    <3>4. odd(k + 1) = (odd(k) # In(k)) /\ In(k) = ((Cut(k) # met[k + 1]) # Cut(k + 1))
      BY <1>6, <1>9, <3>1
    <3>5. /\ met[1] \in BOOLEAN /\ Cut(k) \in BOOLEAN /\ Cut(k + 1) \in BOOLEAN /\ odd(k) \in BOOLEAN
          /\ met[k + 1] \in BOOLEAN
      BY <1>7, <1>11, <3>1
    <3>6. after[k + 1] = (after[k] # met[k + 1])
      BY <3>2, <3>3, <3>4, <3>5
    <3> QED BY <3>1, <3>6 DEF k
  <2> QED BY <2>1, <2>2, <2>3
<1>14. Loop(n, Met(n, q, v), after)
  BY <1>12, <1>13 DEF Loop, met
<1>15. PointInPolygon(q, v) = after[n]
  <2>1. n \in Nat /\ n >= 3 /\ v \in [1..n -> Points(Coord)]
    OBVIOUS
  <2> HIDE DEF Polygon
  <2> QED BY <1>12, <1>14, <2>1, LoopIs
<1>16. after[n] = odd(n)
  <2>1. n \in 2..n /\ 1 \in 1..n
    OBVIOUS
  <2>2. after[n] = ((met[1] # Cut(n)) # odd(n))
    BY <1>12, <2>1
  <2> QED BY <1>3, <1>11, <2>1, <2>2
<1> QED BY <1>10, <1>15, <1>16
-----------------------------------------------------------------------------
\* What a zone and the answers keep to.
GeometryInv ==
    /\ \E n \in 3..MaxVertices : Vertices \in [1..n -> Points(VertexCoord)]
    /\ bbox = boundingBox(Vertices)
    /\ p \in Points(Coord)
    /\ inside = Contains(p)

\* Every answer is Contains of the zone that NewZone built (geometry.go:50-81).
THEOREM GeometryInvariant == Spec => []GeometryInv
<1>1. Init => GeometryInv
  <2> SUFFICES ASSUME Init PROVE GeometryInv
    OBVIOUS
  <2>1. PICK n \in 3..MaxVertices : Vertices \in [1..n -> Points(VertexCoord)]
    BY DEF Init
  <2>2. 1 \in 1..n
    OBVIOUS
  <2>3. p \in Points(Coord)
    BY <2>1, <2>2 DEF Init, Points, Coord
  <2> QED BY <2>1, <2>3 DEF Init, GeometryInv
<1>2. GeometryInv /\ [Next]_vars => GeometryInv'
  <2> SUFFICES ASSUME GeometryInv, [Next]_vars PROVE GeometryInv'
    OBVIOUS
  <2>1. ASSUME NEW q \in Points(PointCoord), Ask(q) PROVE GeometryInv'
    <3>1. q \in Points(Coord)
      BY DEF Points, Coord
    <3>2. Contains(p)' = Contains(q)
      BY <2>1 DEF Ask, Contains, InBox
    <3> QED BY <2>1, <3>1, <3>2 DEF Ask, GeometryInv
  <2>2. CASE UNCHANGED vars
    BY <2>2 DEF vars, GeometryInv, Contains, InBox
  <2> QED BY <2>1, <2>2 DEF Next
<1> QED BY <1>1, <1>2, PTL DEF Spec

LEMMA ZoneIsPolygon ==
  ASSUME GeometryInv PROVE \E n : Polygon(n, Vertices)
<1>1. PICK n \in 3..MaxVertices : Vertices \in [1..n -> Points(VertexCoord)]
  BY DEF GeometryInv
<1>2. \A v \in Points(VertexCoord) : v \in Points(Coord)
  BY DEF Points, Coord
<1>3. Polygon(n, Vertices)
  BY <1>1, <1>2 DEF Polygon
<1> QED BY <1>3

LEMMA Prefilter == ASSUME ProductsFit, GeometryInv PROVE PrefilterHarmless
<1>1. PICK n : Polygon(n, Vertices)
  BY ZoneIsPolygon
<1>2. ~ InBox(p) => ~ PointInPolygon(p, Vertices)
  BY <1>1, OutsideBox DEF GeometryInv, InBox
<1>3. inside = (InBox(p) /\ PointInPolygon(p, Vertices))
  BY DEF GeometryInv, Contains
<1>4. PointInPolygon(p, Vertices) \in BOOLEAN
  <2>1. Met(n, p, Vertices) \in [1..n -> BOOLEAN]
    BY <1>1, MetIsBoolean DEF Polygon
  <2>2. PICK after \in [0..n -> BOOLEAN] : Loop(n, Met(n, p, Vertices), after)
    BY <1>1, <2>1, LoopExists DEF Polygon
  <2>3. n \in Nat /\ n >= 3 /\ Vertices \in [1..n -> Points(Coord)]
    BY <1>1 DEF Polygon
  <2>4. PointInPolygon(p, Vertices) = after[n] /\ n \in 0..n
    BY <2>2, <2>3, LoopIs
  <2> QED BY <2>4
<1> QED BY <1>2, <1>3, <1>4 DEF PrefilterHarmless

\* The bounding box never changes the answer (geometry.go:73-81, 116-136).
THEOREM PrefilterNeverDecides ==
  ASSUME ProductsFit PROVE Spec => []PrefilterHarmless
<1>1. GeometryInv => PrefilterHarmless
  BY Prefilter
<1> QED BY <1>1, GeometryInvariant, PTL

\* Neither the direction nor the first vertex of the list matters (geometry.go:30-38).
THEOREM OrderNeverDecides ==
  ASSUME ProductsFit PROVE Spec => []OrientationAgnostic
<1>1. GeometryInv => OrientationAgnostic
  <2> SUFFICES ASSUME GeometryInv PROVE OrientationAgnostic
    OBVIOUS
  <2>1. PICK n : Polygon(n, Vertices)
    BY ZoneIsPolygon
  <2>2. inside = PointInPolygon(p, Vertices)
    BY Prefilter DEF PrefilterHarmless
  <2>3. p \in Points(Coord)
    BY DEF GeometryInv
  <2>4. PointInPolygon(p, Append(Tail(Vertices), Head(Vertices))) = inside
    BY <2>1, <2>2, TurnedPolygon
  <2>5. ~ OnBoundary(p, Vertices) => PointInPolygon(p, Backwards(Vertices)) = inside
    BY <2>1, <2>2, <2>3, BackwardsPolygon
  <2> QED BY <2>4, <2>5 DEF OrientationAgnostic
<1> QED BY <1>1, GeometryInvariant, PTL

\* Off the boundary and the cuts, a zone contains a point exactly when an odd
\* number of the triangles of its first vertex does (geometry.go:73-114).
THEOREM ContainmentIsEvenOdd ==
  ASSUME ProductsFit PROVE Spec => []ContainsIsEvenOdd
<1>1. GeometryInv => ContainsIsEvenOdd
  <2> SUFFICES ASSUME GeometryInv PROVE ContainsIsEvenOdd
    OBVIOUS
  <2>1. PICK n : Polygon(n, Vertices)
    BY ZoneIsPolygon
  <2>2. inside = PointInPolygon(p, Vertices)
    BY Prefilter DEF PrefilterHarmless
  <2>3. p \in Points(Coord)
    BY DEF GeometryInv
  <2>4. ~ OnBoundary(p, Vertices) /\ ~ OnCut(p, Vertices)
          => PointInPolygon(p, Vertices) = EvenOdd(p, Vertices)
    BY <2>1, <2>3, RayCastIsEvenOdd
  <2> QED BY <2>2, <2>4 DEF ContainsIsEvenOdd
<1> QED BY <1>1, GeometryInvariant, PTL
=============================================================================
