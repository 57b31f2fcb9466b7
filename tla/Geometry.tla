------------------------------ MODULE Geometry ------------------------------
(***************************************************************************)
(* The predicates and distances of src/vec2.c, src/vec3.c, src/poly2.c and *)
(* the inline functions of vec2.h and vec3.h they call; the matrices,      *)
(* transformations and quaternions of mat3.h, mat4.h, src/mat4.c, quat.h,  *)
(* with the inline functions of vec4.h under them.  Coordinates are        *)
(* integers and every intermediate result is exact: a point that division  *)
(* gave is <<W, k>>, the vector W over the natural number k, and a number  *)
(* <<n, k>>.  borIsZero and borEq, which allow for rounding, are equality. *)
(* Normalising a vector that is not zero changes no sign and no projection *)
(* and is left out.                                                        *)
(***************************************************************************)
EXTENDS Integers, SequencesExt

CONSTANTS
  Figures,   \* what the functions are called with: tuples of points
  None

VARIABLES store, result    \* the figure, and <<function, its answer>>

vars == <<store, result>>

-----------------------------------------------------------------------------
(* Vectors.                                                                *)

Sub(u, v) == [i \in DOMAIN u |-> u[i] - v[i]] \o <<>>
Add(u, v) == [i \in DOMAIN u |-> u[i] + v[i]] \o <<>>
Scale(k, u) == [i \in DOMAIN u |-> k * u[i]] \o <<>>
AddConst(u, k) == [i \in DOMAIN u |-> u[i] + k] \o <<>>
MulComp(u, v) == [i \in DOMAIN u |-> u[i] * v[i]] \o <<>>
Dot2(u, v) == u[1] * v[1] + u[2] * v[2]
Dot3(u, v) == Dot2(u, v) + u[3] * v[3]
Dot4(u, v) == Dot3(u, v) + u[4] * v[4]
Dot(u, v) ==
  CASE Len(u) = 2 -> Dot2(u, v) [] Len(u) = 3 -> Dot3(u, v) [] Len(u) = 4 -> Dot4(u, v)
Len2(u) == Dot(u, u)
Cross(u, v) == <<u[2] * v[3] - u[3] * v[2], u[3] * v[1] - u[1] * v[3], u[1] * v[2] - u[2] * v[1]>>
Zero3 == <<0, 0, 0>>

Abs(n) == IF n < 0 THEN -n ELSE n
Between01(n, k) == IF k > 0 THEN 0 <= n /\ n <= k ELSE k <= n /\ n <= 0

-----------------------------------------------------------------------------
(* Distances in space.  Each is <<distance^2, witness>>.                   *)

Dist2From(P, W, k) == <<Len2(Sub(Scale(k, P), W)), k * k>>

\* A bug the checks must find: the far end is not a limit.
PointSegmentUnclamped(P, x0, b) ==
  LET d == Sub(b, x0)
      m == Len2(d)
      t == -Dot(Sub(x0, P), d)
      W == Add(Scale(m, x0), Scale(t, d))
  IN IF t <= 0 THEN <<Dist2From(P, x0, 1), <<x0, 1>>>>
     ELSE <<Dist2From(P, W, m), <<W, m>>>>

\* __borVec3PointSegmentDist2: t / m is where P projects between x0 and b.
PointSegmentDist2(P, x0, b) ==
  LET d == Sub(b, x0)
      m == Len2(d)
      t == -Dot(Sub(x0, P), d)
      W == Add(Scale(m, x0), Scale(t, d))
  IN CASE t <= 0 -> <<Dist2From(P, x0, 1), <<x0, 1>>>>
       [] t >= m -> <<Dist2From(P, b, 1), <<b, 1>>>>
       [] OTHER -> <<Dist2From(P, W, m), <<W, m>>>>

Nearer(x, y) == IF y[1][1] * x[1][2] < x[1][1] * y[1][2] THEN y ELSE x

\* The minimum over the plane, s / k and t / k along the two edges at x0, or over the edges.
PointTriDist2(P, x0, B, C) ==
  LET d1 == Sub(B, x0)
      d2 == Sub(C, x0)
      a == Sub(x0, P)
      v == Len2(d1)
      w == Len2(d2)
      r == Dot(d1, d2)
      p == Dot(a, d1)
      q == Dot(a, d2)
      det == w * v - r * r
      s == q * r - w * p
      t == -(s * r) - q * det
      k == det * w
      W == Add(Scale(k, x0), Add(Scale(s * w, d1), Scale(t, d2)))
  IN IF s >= 0 /\ s <= det /\ t >= 0 /\ t <= k /\ t + s * w <= k
     THEN <<Dist2From(P, W, k), <<W, k>>>>
     ELSE Nearer(Nearer(PointSegmentDist2(P, x0, B), PointSegmentDist2(P, x0, C)),
                 PointSegmentDist2(P, B, C))

\* n / k brought into 0 .. 1.
Clamp(n, k) ==
  CASE n * k < 0 -> <<0, 1>>
    [] ~Between01(n, k) -> <<1, 1>>
    [] OTHER -> IF k < 0 THEN <<-n, -k>> ELSE <<n, k>>

\* borVec3SegmentSegmentDist2.  The length of the second segment, e, is taken
\* of the first one, and (b*f) - (c*e) / denom lacks parentheses, so that the
\* numerator here is b * f * denom - c * e.
SegmentSegmentDist2(A, B, C, D) ==
  LET d1 == Sub(B, A)
      d2 == Sub(D, C)
      r == Sub(A, C)
      a == Len2(d1)
      e == Len2(d1)
      f == Dot(d2, r)
      c == Dot(d1, r)
      b == Dot(d1, d2)
      denom == a * e - b * b
      s0 == IF denom = 0 THEN <<0, 1>> ELSE Clamp(b * f * denom - c * e, denom)
      t0 == b * s0[1] + f * s0[2]             \* over s0[2]
      st == CASE t0 < 0 -> <<Clamp(-c, a), <<0, 1>>>>
              [] t0 > e * s0[2] -> <<Clamp(b - c, a), <<1, 1>>>>
              [] OTHER -> <<s0, <<t0, e * s0[2]>>>>
      s == st[1]
      t == st[2]
      k == s[2] * t[2]
      W1 == Add(Scale(k, A), Scale(s[1] * t[2], d1))
      W2 == Add(Scale(k, C), Scale(t[1] * s[2], d2))
  IN IF a = 0 THEN <<Len2(r), 1, <<A, 1>>, <<C, 1>>>>
     ELSE <<Len2(Sub(W1, W2)), k * k, <<W1, k>>, <<W2, k>>>>

\* What zero divided by zero is, and everything computed from it.
NaN == <<>>

\* borVec3ProjToPlane2 divides by the square length of the normal unseen.
ProjToPlane2(p, x, normal) ==
  LET k == Len2(normal)
      W == Add(Scale(k, p), Scale(Dot(Sub(x, p), normal), normal))
  IN IF normal = Zero3 THEN NaN ELSE <<Dist2From(p, W, k), <<W, k>>>>

\* borVec3ProjToPlane: the plane through u, v and w.  None on the error return,
\* which is missed when a side is no vector: a side shorter than 1 is divided
\* by its length first, and a normal that is no number passes for one that is
\* not zero.
ProjToPlane(p, u, v, w) ==
  LET normal == Cross(Sub(u, v), Sub(w, v))
  IN CASE v \in {u, w} -> NaN
       [] v \notin {u, w} /\ normal = Zero3 -> None
       [] OTHER -> ProjToPlane2(p, v, normal)

\* borVec3PointInTri, by barycentric coordinates of the projection.
PointInTri(p, a, b, c) ==
  LET v0 == Sub(c, a)
      v1 == Sub(b, a)
      v2 == Sub(p, a)
      denom == Len2(v0) * Len2(v1) - Dot(v0, v1) * Dot(v0, v1)
      u == Len2(v1) * Dot(v0, v2) - Dot(v0, v1) * Dot(v1, v2)
      v == Len2(v0) * Dot(v1, v2) - Dot(v0, v1) * Dot(v0, v2)
  IN denom # 0 /\ u >= 0 /\ v >= 0 /\ u + v <= denom

-----------------------------------------------------------------------------
(* Two triangles in space.                                                 *)

Rotated(T, k) == [i \in 1 .. 3 |-> T[((i + k - 1) % 3) + 1]]
Flipped(T) == <<T[1], T[3], T[2]>>
Normal(T) == Cross(Sub(T[2], T[1]), Sub(T[3], T[1]))
AllOneSide(s) == s[1] * s[2] > 0 /\ s[1] * s[3] > 0

\* The plane to which a triangle with normal n projects with the largest area.
Projected(n, p) ==
  CASE Abs(n[1]) > Abs(n[3]) /\ Abs(n[1]) >= Abs(n[2]) -> <<p[3], p[2]>>
    [] Abs(n[2]) > Abs(n[3]) /\ Abs(n[2]) >= Abs(n[1]) -> <<p[1], p[3]>>
    [] OTHER -> <<p[1], p[2]>>

\* The nested conditions of borVec3TriTriOverlap and of __overlapCheck make the
\* same choice: the corner with the other two behind the plane comes first, and
\* the other triangle is turned over when that corner is below the plane.
Apex(s) ==
  LET p == s[1]  q == s[2]  r == s[3]
  IN CASE p = 0 /\ q = 0 -> [first |-> 2, flip |-> r < 0]
       [] p = 0 /\ q < 0 -> IF r >= 0 THEN [first |-> 1, flip |-> TRUE] ELSE [first |-> 0, flip |-> FALSE]
       [] p = 0 /\ q > 0 -> IF r > 0 THEN [first |-> 0, flip |-> TRUE] ELSE [first |-> 1, flip |-> FALSE]
       [] p > 0 /\ q > 0 -> [first |-> 2, flip |-> TRUE]
       [] p > 0 /\ q <= 0 -> IF r > 0 THEN [first |-> 1, flip |-> TRUE] ELSE [first |-> 0, flip |-> FALSE]
       [] p < 0 /\ q < 0 -> [first |-> 2, flip |-> FALSE]
       [] p < 0 /\ q >= 0 -> IF r < 0 THEN [first |-> 1, flip |-> FALSE] ELSE [first |-> 0, flip |-> TRUE]

\* __overlapMinMax: the intervals on the line where the planes meet have a common point.
OverlapMinMax(S, T) ==
  /\ Dot(Sub(T[2], S[2]), Cross(Sub(T[1], S[2]), Sub(S[1], S[2]))) <= 0
  /\ Dot(Sub(T[3], S[1]), Cross(Sub(T[1], S[1]), Sub(S[3], S[1]))) <= 0

OverlapCheck(S, T, s) ==
  LET a == Apex(s)
  IN OverlapMinMax(IF a.flip THEN Flipped(S) ELSE S, Rotated(T, a.first))

-----------------------------------------------------------------------------
(* The plane.                                                              *)

Area2(a, b, c) == a[1] * b[2] - a[2] * b[1] + a[2] * c[1] - a[1] * c[2] + b[1] * c[2] - b[2] * c[1]
Collinear(a, b, c) == Area2(b, c, a) = 0
OnLeft(v, p1, p2) == Area2(p1, p2, v) > 0

\* A bug the checks must find: a point on the line of b and c is taken to be between them.
LiesOnLine(a, b, c) == a = b \/ a = c \/ Collinear(a, b, c)

LiesOn(a, b, c) ==
  \/ a = b \/ a = c
  \/ /\ Collinear(a, b, c)
     /\ LET i == IF b[1] # c[1] THEN 1 ELSE 2
        IN (b[i] < a[i] /\ c[i] > a[i]) \/ (b[i] > a[i] /\ c[i] < a[i])

IntersectProp(a, b, c, d) ==
  Area2(a, b, c) * Area2(a, b, d) < 0 /\ Area2(c, d, a) * Area2(c, d, b) < 0

Intersect(a, b, c, d) ==
  \/ IntersectProp(a, b, c, d)
  \/ LiesOn(a, c, d) \/ LiesOn(b, c, d) \/ LiesOn(c, a, b) \/ LiesOn(d, a, b)

PlanePointInTri(P, T) ==
  LET count == Cardinality({i \in 1 .. 3 : OnLeft(P, T[i], T[(i % 3) + 1])})
  IN count = 3 \/ count = 0

\* borVec2TriTriOverlap: some sides meet, or the first corner of one is in the other.
PlaneTriTriOverlap(S, T) ==
  \/ \E i, j \in 1 .. 3 : Intersect(S[i], S[(i % 3) + 1], T[j], T[(j % 3) + 1])
  \/ PlanePointInTri(S[1], T) \/ PlanePointInTri(T[1], S)

\* __overlapCoplanar.
OverlapCoplanar(S, T, n) ==
  PlaneTriTriOverlap(<<Projected(n, S[2]), Projected(n, S[1]), Projected(n, S[3])>>,
                     <<Projected(n, T[2]), Projected(n, T[1]), Projected(n, T[3])>>)

TriTriOverlap(S, T) ==
  LET n2 == Cross(Sub(T[1], T[3]), Sub(T[2], T[3]))
      n1 == Normal(S)
      s1 == [i \in 1 .. 3 |-> Dot(Sub(S[i], T[3]), n2)]
      s2 == [i \in 1 .. 3 |-> Dot(Sub(T[i], S[3]), n1)]
      a == Apex(s1)
  IN /\ ~AllOneSide(s1)
     /\ ~AllOneSide(s2)
     /\ IF \A i \in 1 .. 3 : s1[i] = 0 THEN OverlapCoplanar(S, T, n1)
        ELSE IF a.flip THEN OverlapCheck(Rotated(S, a.first), Flipped(T), Flipped(s2))
        ELSE OverlapCheck(Rotated(S, a.first), T, s2)

\* borVec2IntersectPoint: the point <<W, k>>, None when it returns -1.
IntersectPoint(a, b, c, d) ==
  LET u == Sub(b, a)
      v == Sub(d, c)
      w == Sub(a, c)
      factor == v[2] * u[1] - v[1] * u[2]
      ua == v[1] * w[2] - v[2] * w[1]
      ub == u[1] * w[2] - u[2] * w[1]
  IN IF factor = 0 \/ ~Between01(ua, factor) \/ ~Between01(ub, factor) THEN None
     ELSE IF factor < 0 THEN <<Sub(Scale(-factor, a), Scale(ua, u)), -factor>>
     ELSE <<Add(Scale(factor, a), Scale(ua, u)), factor>>

\* borVec2ProjectionPointOntoSegment.  A segment along an axis divides by the
\* one coordinate it has, which is the same quotient.
ProjectionPointOntoSegment(a, b, c) ==
  LET u == Sub(b, a)
      k == Dot(u, Sub(c, a))
      m == Len2(u)
  IN IF a = b \/ k < 0 \/ k > m THEN None ELSE <<Add(Scale(m, a), Scale(k, u)), m>>

\* borVec2InCircle, for a, b and c in counterclockwise order.
InCircle(a, b, c, d) ==
  LET ad == Sub(a, d)
      bd == Sub(b, d)
      cd == Sub(c, d)
      det == ad[1] * bd[2] * Len2(cd) + ad[2] * Len2(bd) * cd[1] + Len2(ad) * bd[1] * cd[2]
             - Len2(ad) * bd[2] * cd[1] - Len2(bd) * cd[2] * ad[1] - Len2(cd) * ad[2] * bd[1]
  IN det > 0

InCone(v, p1, c, p2) ==
  IF Area2(p1, c, p2) < 0 THEN Area2(c, v, p2) < 0 \/ Area2(v, c, p1) < 0
  ELSE Area2(c, v, p1) > 0 /\ Area2(v, c, p2) > 0

\* borVec2AngleSameDir: no turn, half a turn, or the sense of the turn from b to a.
AngleSameDir(a, b) ==
  LET origin == <<0, 0>>
  IN IF Collinear(origin, a, b)
     THEN IF LiesOn(a, origin, b) \/ LiesOn(b, origin, a) THEN "none" ELSE "half"
     ELSE IF Area2(b, origin, a) < 0 THEN "left" ELSE "right"

\* liesIn: strictly inside the polygon with corners abcd.
LiesIn(quad, x) == \A i \in 1 .. 4 : Area2(quad[i], quad[(i % 4) + 1], x) > 0

SamePoint(p, q) == Scale(q[2], p[1]) = Scale(p[2], q[1])

\* intersections: the points where xy crosses the sides in order, at most two different ones.
Intersections(quad, x, y) ==
  LET RECURSIVE From(_, _)
      From(i, found) ==
        IF i > 4 \/ Len(found) = 2 THEN found
        ELSE LET p == IntersectPoint(quad[i], quad[(i % 4) + 1], x, y)
             IN From(i + 1, IF p = None THEN found
                            ELSE IF found # <<>> /\ SamePoint(found[1], p) THEN found
                            ELSE Append(found, p))
  IN From(1, <<>>)

\* borVec2SegmentInRect: <<s1, s2>>, or None.
SegmentInRect(quad, x, y) ==
  LET found == Intersections(quad, x, y)
      in(p) == LiesIn(quad, p)
  IN CASE in(x) /\ in(y) -> <<<<x, 1>>, <<y, 1>>>>
       [] ~(in(x) /\ in(y)) /\ Len(found) = 2 -> found
       [] Len(found) = 1 /\ in(x) /\ ~in(y) -> Append(found, <<x, 1>>)
       [] Len(found) = 1 /\ in(y) /\ ~in(x) -> Append(found, <<y, 1>>)
       [] OTHER -> None

\* __borVec2BoxBoxOverlap on the corners: no side has all of the other box strictly outside.
BoxBoxOverlap(c1, c2) ==
  LET outside(c, d, i) ==
        LET e == Sub(c[(i % 4) + 1], c[i])
        IN \A j \in 1 .. 4 : Dot(<<e[2], -e[1]>>, Sub(d[j], c[(i % 4) + 1])) > 0
  IN \A i \in 1 .. 4 : ~outside(c1, c2, i) /\ ~outside(c2, c1, i)

\* A bug the checks must find: a corner at the height of v counts twice.
PointInBothEnds(poly, v) ==
  LET y == v[2]
      prev(i) == IF i = 1 THEN Len(poly) ELSE i - 1
      crossed(i) ==
        LET p == poly[i]
            q == poly[prev(i)]
            vy == q[2] - p[2]
            at == y * (q[1] - p[1]) + p[1] * vy - p[2] * q[1] + p[2] * p[1]
        IN /\ (p[2] <= y /\ q[2] >= y) \/ (q[2] <= y /\ p[2] >= y)
           /\ IF vy > 0 THEN at < v[1] * vy ELSE at > v[1] * vy
  IN Cardinality({i \in DOMAIN poly : crossed(i)}) % 2 = 1

\* borPoly2PointIn.  A side from p to the corner q before it keeps
\* multiple = (q.x - p.x) / vy and constant = p.x - p.y * q.x / vy + p.y * p.x / vy.
PointIn(poly, v) ==
  LET y == v[2]
      prev(i) == IF i = 1 THEN Len(poly) ELSE i - 1
      crossed(i) ==
        LET p == poly[i]
            q == poly[prev(i)]
            vy == q[2] - p[2]
            at == y * (q[1] - p[1]) + p[1] * vy - p[2] * q[1] + p[2] * p[1]
        IN /\ (p[2] < y /\ q[2] >= y) \/ (q[2] < y /\ p[2] >= y)
           /\ IF vy > 0 THEN at < v[1] * vy ELSE at > v[1] * vy
  IN Cardinality({i \in DOMAIN poly : crossed(i)}) % 2 = 1

-----------------------------------------------------------------------------
(* Where two triangles meet (Moller's algorithm).                          *)

\* isect2 for the edge from corner i to j: where the edge meets the other plane,
\* the point W / k, and its place n / k on the axis.
LineEnd(T, d, axis, i, j) ==
  LET k == d[i] - d[j]
      sign == IF k < 0 THEN -1 ELSE 1
  IN [n |-> sign * (T[i][axis] * k + (T[j][axis] - T[i][axis]) * d[i]),
      k |-> Abs(k),
      W |-> Scale(sign, Add(Scale(k, T[i]), Scale(d[i], Sub(T[j], T[i]))))]

Below(e, f) == e.n * f.k < f.n * e.k

\* compute_intervals_isectline and SORT2: the interval of a triangle, from its
\* corner that is alone on its side; None for coplanar triangles.
IntervalOnLine(T, d, axis) ==
  LET ends(i, j, l) == <<LineEnd(T, d, axis, i, j), LineEnd(T, d, axis, i, l)>>
      sorted(e) == IF Below(e[2], e[1]) THEN <<e[2], e[1]>> ELSE e
  IN CASE d[1] * d[2] > 0 -> sorted(ends(3, 1, 2))
       [] d[1] * d[2] <= 0 /\ d[1] * d[3] > 0 -> sorted(ends(2, 1, 3))
       [] d[1] * d[2] <= 0 /\ d[1] * d[3] <= 0 /\ (d[2] * d[3] > 0 \/ d[1] # 0) -> sorted(ends(1, 2, 3))
       [] d[1] = 0 /\ d[2] * d[3] <= 0 /\ d[2] # 0 -> sorted(ends(2, 1, 3))
       [] d[1] = 0 /\ d[2] = 0 /\ d[3] # 0 -> sorted(ends(3, 1, 2))
       [] OTHER -> None

\* EDGE_EDGE_TEST in the plane of the axes ax[1] and ax[2].
EdgeEdgeTest(V0, V1, U0, U1, ax) ==
  LET at(p) == <<p[ax[1]], p[ax[2]]>>
      A == Sub(at(V1), at(V0))
      B == Sub(at(U0), at(U1))
      C == Sub(at(V0), at(U0))
      f == A[2] * B[1] - A[1] * B[2]
      d == B[2] * C[1] - B[1] * C[2]
      e == A[1] * C[2] - A[2] * C[1]
  IN f # 0 /\ Between01(d, f) /\ Between01(e, f)

\* POINT_IN_TRI: strictly inside, for either orientation.
StrictlyInTri(V0, U, ax) ==
  LET at(p) == <<p[ax[1]], p[ax[2]]>>
      d(i) == LET p == at(U[i])
                  q == at(U[(i % 3) + 1])
              IN (q[2] - p[2]) * (at(V0)[1] - p[1]) - (q[1] - p[1]) * (at(V0)[2] - p[2])
  IN d(1) * d(2) > 0 /\ d(1) * d(3) > 0

\* coplanar_tri_tri.
CoplanarTriTri(N, V, U) ==
  LET ax == CASE Abs(N[1]) > Abs(N[2]) /\ Abs(N[1]) > Abs(N[3]) -> <<2, 3>>
              [] Abs(N[1]) > Abs(N[2]) /\ Abs(N[1]) <= Abs(N[3]) -> <<1, 2>>
              [] Abs(N[1]) <= Abs(N[2]) /\ Abs(N[3]) > Abs(N[2]) -> <<1, 2>>
              [] OTHER -> <<1, 3>>
  IN \/ \E i, j \in 1 .. 3 : EdgeEdgeTest(V[i], V[(i % 3) + 1], U[j], U[(j % 3) + 1], ax)
     \/ StrictlyInTri(V[1], U, ax)
     \/ StrictlyInTri(U[1], V, ax)

\* borVec3TriTriIntersect: <<its value, the two points when the value is 1>>.
TriTriIntersect(V, U) ==
  LET N1 == Normal(V)
      N2 == Normal(U)
      du == [i \in 1 .. 3 |-> Dot(N1, U[i]) - Dot(N1, V[1])]
      dv == [i \in 1 .. 3 |-> Dot(N2, V[i]) - Dot(N2, U[1])]
      D == Cross(N1, N2)
      axis == CASE Abs(D[2]) > Abs(D[1]) /\ Abs(D[3]) <= Abs(D[2]) -> 2
                [] Abs(D[3]) > Abs(D[1]) /\ Abs(D[3]) > Abs(D[2]) -> 3
                [] OTHER -> 1
      i1 == IntervalOnLine(V, dv, axis)
      i2 == IntervalOnLine(U, du, axis)
      lower == IF Below(i2[1], i1[1]) THEN i1[1] ELSE i2[1]
      upper == IF Below(i1[2], i2[2]) THEN i1[2] ELSE i2[2]
  IN CASE AllOneSide(du) \/ AllOneSide(dv) -> <<0>>
       [] ~AllOneSide(du) /\ ~AllOneSide(dv) /\ i1 = None -> IF CoplanarTriTri(N1, V, U) THEN <<2>> ELSE <<0>>
       [] OTHER -> IF Below(i1[2], i2[1]) \/ Below(i2[2], i1[1]) THEN <<0>>
                   ELSE <<1, <<lower.W, lower.k>>, <<upper.W, upper.k>>>>

-----------------------------------------------------------------------------
Init == store \in Figures /\ result = None

Space == Len(store[1]) = 3
Answer(name, answer) == result' = <<name, answer>> /\ UNCHANGED store

\* The last three or four points of a figure of the plane are a polygon.
From4 == SubSeq(store, 4, Len(store))
From5 == SubSeq(store, 5, Len(store))
First3 == SubSeq(store, 1, 3)
First4 == SubSeq(store, 1, 4)

PointSegmentCall ==
  /\ result = None /\ Space /\ Len(store) = 3 /\ store[2] # store[3]
  /\ Answer("PointSegmentDist2", PointSegmentDist2(store[1], store[2], store[3]))

PointTriCall ==
  /\ result = None /\ Space /\ Len(store) = 4
  /\ Normal(Tail(store)) # Zero3
  /\ \/ Answer("PointTriDist2", PointTriDist2(store[1], store[2], store[3], store[4]))
     \/ Answer("PointInTri", PointInTri(store[1], store[2], store[3], store[4]))

ProjToPlaneCall ==
  /\ result = None /\ Space
  /\ \/ /\ Len(store) = 4
        /\ Answer("ProjToPlane", ProjToPlane(store[1], store[2], store[3], store[4]))
     \/ /\ Len(store) = 3
        /\ Answer("ProjToPlane2", ProjToPlane2(store[1], store[2], store[3]))

TwoSegmentsCall ==
  /\ result = None /\ Space /\ Len(store) = 4
  /\ store[1] # store[2] /\ store[3] # store[4]
  /\ Answer("SegmentSegmentDist2", SegmentSegmentDist2(store[1], store[2], store[3], store[4]))

TwoTrianglesCall ==
  /\ result = None /\ Space /\ Len(store) = 6
  /\ Normal(First3) # Zero3 /\ Normal(From4) # Zero3
  /\ \/ Answer("TriTriOverlap", TriTriOverlap(First3, From4))
     \/ Answer("TriTriIntersect", TriTriIntersect(First3, From4))

PlanePointsCall ==
  /\ result = None /\ ~Space /\ Len(store) = 3
  /\ \/ Answer("LiesOn", LiesOn(store[1], store[2], store[3]))
     \/ Answer("ProjectionPointOntoSegment", ProjectionPointOntoSegment(store[1], store[2], store[3]))
     \/ /\ <<0, 0>> \notin {store[1], store[2]}
        /\ Answer("AngleSameDir", AngleSameDir(store[1], store[2]))

PlaneSegmentsCall ==
  /\ result = None /\ ~Space /\ Len(store) = 4
  /\ \/ Answer("Intersect", Intersect(store[1], store[2], store[3], store[4]))
     \/ Answer("IntersectPoint", IntersectPoint(store[1], store[2], store[3], store[4]))
     \/ /\ Area2(store[1], store[2], store[3]) > 0
        /\ Answer("InCircle", InCircle(store[1], store[2], store[3], store[4]))
     \/ /\ store[3] \notin {store[1], store[2], store[4]}
        /\ Answer("InCone", InCone(store[1], store[2], store[3], store[4]))

PlaneTrianglesCall ==
  /\ result = None /\ ~Space /\ Len(store) = 6
  /\ Area2(store[1], store[2], store[3]) # 0 /\ Area2(store[4], store[5], store[6]) # 0
  /\ Answer("PlaneTriTriOverlap", PlaneTriTriOverlap(First3, From4))

\* The corners of a convex polygon with four sides, counterclockwise.
Convex4(quad) == \A i \in 1 .. 4 : Area2(quad[i], quad[(i % 4) + 1], quad[((i + 1) % 4) + 1]) > 0
Box(quad) == Convex4(quad) /\ Add(quad[1], quad[3]) = Add(quad[2], quad[4])
             /\ Dot(Sub(quad[2], quad[1]), Sub(quad[4], quad[1])) = 0

PlaneQuadCall ==
  /\ result = None /\ ~Space /\ Len(store) = 6 /\ Convex4(First4)
  /\ store[5] # store[6]
  /\ Answer("SegmentInRect", SegmentInRect(First4, store[5], store[6]))

PolygonCall ==
  /\ result = None /\ ~Space /\ Len(store) = 5
  /\ Answer("PointIn", PointIn(Tail(store), store[1]))

BoxesCall ==
  /\ result = None /\ ~Space /\ Len(store) = 8 /\ Box(First4) /\ Box(From5)
  /\ Answer("BoxBoxOverlap", BoxBoxOverlap(First4, From5))

Next ==
  \/ PointSegmentCall \/ PointTriCall \/ ProjToPlaneCall \/ TwoTrianglesCall
  \/ PlanePointsCall \/ PlaneSegmentsCall \/ PlaneTrianglesCall \/ PlaneQuadCall
  \/ PolygonCall \/ BoxesCall

Spec == Init /\ [][Next]_vars

\* The distance of two segments is checked on its own.
SegmentSpec == Init /\ [][TwoSegmentsCall]_vars

-----------------------------------------------------------------------------
(* Matrices, of mat3.h and mat4.h: tuples of rows.  A memory gives those   *)
(* that the caller has by their names; a function writes its destination   *)
(* one entry after the other, which may be one of the factors.             *)

Upto(n) == [i \in 1 .. n |-> i]
Col(m, c) == [r \in DOMAIN m |-> m[r][c]] \o <<>>
Matrix(n, at(_, _)) == [i \in 1 .. n |-> [j \in 1 .. n |-> at(i, j)] \o <<>>] \o <<>>

\* Entry at(i, j) of d gets val(m, w, i, j): m is the memory when line i
\* begins, at which time a vector may be copied, w the one when j is computed.
Lines(mem, d, at(_, _), val(_, _, _, _)) ==
  LET n == Upto(Len(mem[d]))
      Entry(m, w, i, j) == [w EXCEPT ![d][at(i, j)[1]][at(i, j)[2]] = val(m, w, i, j)]
  IN FoldLeft(LAMBDA m, i : FoldLeft(LAMBDA w, j : Entry(m, w, i, j), m, n), mem, n)
ByRow(i, j) == <<i, j>>
ByCol(i, j) == <<j, i>>

\* The functions that work on one row after the other.
Rows(mem, d, row(_, _)) == FoldLeft(LAMBDA m, i : [m EXCEPT ![d][i] = row(m, i)], mem, Upto(Len(mem[d])))

Add2(mem, d, a, b) == Rows(mem, d, LAMBDA m, i : Add(m[a][i], m[b][i]))
Sub2(mem, d, a, b) == Rows(mem, d, LAMBDA m, i : Sub(m[a][i], m[b][i]))
\* borVec3MulComp2 and borVec4MulComp2: a row of the first factor is copied to
\* its place and multiplied there by the row of the second, as it is then.
MulComp2(mem, d, a, b) ==
  LET Copied(m, i) == [m EXCEPT ![d][i] = m[a][i]]
  IN Rows(mem, d, LAMBDA m, i : MulComp(m[a][i], Copied(m, i)[b][i]))
Scale2(mem, d, a, k) == Rows(mem, d, LAMBDA m, i : Scale(k, m[a][i]))
AddConst2(mem, d, a, k) == Rows(mem, d, LAMBDA m, i : AddConst(m[a][i], k))
SubConst2(mem, d, a, k) == Rows(mem, d, LAMBDA m, i : AddConst(m[a][i], -k))

Mul(mem, a, b) == Lines(mem, a, ByRow, LAMBDA m, w, i, j : Dot(Col(w[b], j), m[a][i]))
MulLeft(mem, a, b) == Lines(mem, a, ByCol, LAMBDA m, w, i, j : Dot(w[b][j], Col(m[a], i)))
MulLeftTrans(mem, a, b) == Lines(mem, a, ByCol, LAMBDA m, w, i, j : Dot(Col(w[b], j), Col(m[a], i)))
MulTrans2(mem, d, a, b) == Lines(mem, d, ByCol, LAMBDA m, w, i, j : Dot(Col(w[a], j), Col(m[b], i)))
MulColVecs2(mem, d, a, cols) == Lines(mem, d, ByRow, LAMBDA m, w, i, j : Dot(w[a][i], cols[j]))
MulLeftRowVecs2(mem, d, a, rows) == Lines(mem, d, ByRow, LAMBDA m, w, i, j : Dot(Col(w[a], j), rows[i]))

\* A bug the checks must find: the column is read while it is written.
Mul2Uncopied(mem, d, a, b) == Lines(mem, d, ByCol, LAMBDA m, w, i, j : Dot(w[a][j], Col(w[b], i)))
Mul2(mem, d, a, b) == Lines(mem, d, ByCol, LAMBDA m, w, i, j : Dot(w[a][j], Col(m[b], i)))

Transposed(m) == Matrix(Len(m), LAMBDA i, j : m[j][i])
Trans(mem, a) == [mem EXCEPT ![a] = Transposed(@)]
Trans2(mem, d, a) == Lines(mem, d, ByRow, LAMBDA m, w, i, j : Col(m[a], i)[j])

MulVec(m, v) == [r \in DOMAIN m |-> Dot(m[r], v)] \o <<>>
MulVecTrans(m, v) == [c \in DOMAIN m |-> Dot(Col(m, c), v)] \o <<>>

\* The signed products, by the columns from which they take a row's factor.
Signed(m, terms) ==
  FoldLeft(LAMBDA sum, t : sum + FoldLeft(LAMBDA p, r : p * m[r][t[2][r]], t[1], Upto(Len(m))), 0, terms)
Det3(m) == Signed(m,
  << <<1, <<1, 2, 3>>>>, <<1, <<2, 3, 1>>>>, <<1, <<3, 1, 2>>>>,
     <<-1, <<1, 3, 2>>>>, <<-1, <<2, 1, 3>>>>, <<-1, <<3, 2, 1>>>> >>)
Det4(m) == Signed(m,
  << <<1, <<1, 2, 3, 4>>>>, <<-1, <<1, 2, 4, 3>>>>, <<1, <<1, 3, 4, 2>>>>, <<-1, <<1, 3, 2, 4>>>>,
     <<1, <<1, 4, 2, 3>>>>, <<-1, <<1, 4, 3, 2>>>>, <<-1, <<2, 3, 4, 1>>>>, <<1, <<2, 3, 1, 4>>>>,
     <<-1, <<2, 4, 1, 3>>>>, <<1, <<2, 4, 3, 1>>>>, <<-1, <<2, 1, 3, 4>>>>, <<1, <<2, 1, 4, 3>>>>,
     <<1, <<3, 4, 1, 2>>>>, <<-1, <<3, 4, 2, 1>>>>, <<1, <<3, 1, 2, 4>>>>, <<-1, <<3, 1, 4, 2>>>>,
     <<1, <<3, 2, 4, 1>>>>, <<-1, <<3, 2, 1, 4>>>>, <<-1, <<4, 1, 2, 3>>>>, <<1, <<4, 1, 3, 2>>>>,
     <<-1, <<4, 2, 3, 1>>>>, <<1, <<4, 2, 1, 3>>>>, <<-1, <<4, 3, 1, 2>>>>, <<1, <<4, 3, 2, 1>>>> >>)
Det(m) == IF Len(m) = 3 THEN Det3(m) ELSE Det4(m)

\* The rest of the matrix without row i and column j.
Subdet(m, i, j) ==
  LET left(k) == CHOOSE s \in {<<x, y, z>> : x, y, z \in 1 .. 4} :
                   s[1] < s[2] /\ s[2] < s[3] /\ k \notin {s[1], s[2], s[3]}
  IN Det3(Matrix(3, LAMBDA r, c : m[left(i)[r]][left(j)[c]]))

\* Inv2: <<memory, determinant>>, the entries being over the determinant, which
\* is None on the error return.
After(i) == (i % 3) + 1
Inv3(mem, d, a) == Lines(mem, d, ByRow, LAMBDA m, w, i, j :
  LET at(x, y) == w[a][x][y]
  IN at(After(j), After(i)) * at(After(After(j)), After(After(i)))
     - at(After(j), After(After(i))) * at(After(After(j)), After(i)))
Inv4(mem, d, a) == Lines(mem, d, ByCol, LAMBDA m, w, i, j : (1 - ((i + j) % 2) * 2) * Subdet(w[a], i, j))
Inv2(mem, d, a) ==
  LET det == Det(mem[a])
  IN IF det = 0 THEN <<mem, None>>
     ELSE <<IF Len(mem[a]) = 3 THEN Inv3(mem, d, a) ELSE Inv4(mem, d, a), det>>

\* borMat3Inv and borMat4Inv: of a copy.
Inv(mem, a) ==
  LET done == Inv2([mem EXCEPT !.copy = mem[a]], a, "copy") IN <<[done[1] EXCEPT !.copy = mem.copy], done[2]>>

-----------------------------------------------------------------------------
(* Transformations of the plane and of space.  An angle is <<c, s, k>>,    *)
(* its cosine being c / k and its sine s / k; a matrix that gives the same *)
(* transformation whatever it is multiplied by is kept in whole numbers.   *)

Unit(n) == Matrix(n, LAMBDA i, j : IF i = j THEN 1 ELSE 0)
SetScale(n, s) == [i \in 1 .. n |-> IF i = n THEN Unit(n)[n] ELSE Scale(s, Unit(n)[i])] \o <<>>
SetTranslate(v) ==
  LET n == Len(v) + 1 IN Matrix(n, LAMBDA i, j : IF j = n /\ i < n THEN v[i] ELSE Unit(n)[i][j])

\* borMat3SetRot, times k.
SetRot(angle) ==
  LET c == angle[1]  s == angle[2]  k == angle[3] IN <<<<c, -s, 0>>, <<s, c, 0>>, <<0, 0, k>>>>

\* borMat3SetRot3D: about x, then y, then z, times all the k.
SetRot3D(x, y, z) ==
  LET cx == x[1]  sx == x[2]  kx == x[3]
      cy == y[1]  sy == y[2]  ky == y[3]
      cz == z[1]  sz == z[2]  kz == z[3]
  IN <<<<kx * cy * cz, -(cx * ky * sz) + sx * sy * cz, sx * ky * sz + cx * sy * cz>>,
       <<kx * cy * sz, cx * ky * cz + sx * sy * sz, -(sx * ky * cz) + cx * sy * sz>>,
       <<-(kx * sy * kz), sx * cy * kz, cx * cy * kz>>>>

\* borMat4SetRot, times k times the square length of the axis, len being its
\* length.  The entry in the third row and first column has k1xy for k1xz.
SetRotAxis(angle, axis, len) ==
  LET k2 == angle[1] * len * len
      k1(i, j) == (angle[3] - angle[1]) * axis[i] * axis[j]
      k3(i) == angle[2] * len * axis[i]
  IN <<<<k1(1, 1) + k2, k1(1, 2) - k3(3), k1(1, 3) + k3(2), 0>>,
       <<k1(1, 2) + k3(3), k1(2, 2) + k2, k1(2, 3) - k3(1), 0>>,
       <<k1(1, 2) - k3(2), k1(2, 3) + k3(1), k1(3, 3) + k2, 0>>,
       <<0, 0, 0, angle[3] * len * len>>>>

\* A bug the checks must find: the new transformation comes first.
ComposeRight(A, B) == Mul([A |-> A, B |-> B], "A", "B").A

\* borMat3Compose and borMat4Compose: A = B . A.
Compose(A, B) == MulLeft([A |-> A, B |-> B], "A", "B").A

\* borMat3MulVec2 and borMat4MulVec3: the last coordinate divides the others.
Applied(m, v) ==
  LET w == MulVec(m, Append(v, 1)) IN <<SubSeq(w, 1, Len(v)), w[Len(w)]>>

-----------------------------------------------------------------------------
(* Quaternions <<x, y, z, w>>, and <<q, k>> for one that is over k.        *)

\* borQuatMul2, and borQuatMul, which copies the first factor for it.
QuatMul2(a, b) ==
  <<a[4] * b[1] + a[1] * b[4] + a[2] * b[3] - a[3] * b[2],
    a[4] * b[2] + a[2] * b[4] - a[1] * b[3] + a[3] * b[1],
    a[4] * b[3] + a[3] * b[4] + a[1] * b[2] - a[2] * b[1],
    a[4] * b[4] - a[1] * b[1] - a[2] * b[2] - a[3] * b[3]>>

Invert(q) == IF Len2(q) = 0 THEN None ELSE <<<<-q[1], -q[2], -q[3], q[4]>>, Len2(q)>>

\* A bug the checks must find: the turn in the plane of x and y goes backwards.
RotVecBack(v, q) ==
  LET x == q[1]  y == q[2]  z == q[3]  w == q[4]
  IN <<(w * w + x * x - y * y - z * z) * v[1] + 2 * ((x * y + w * z) * v[2] + (x * z + w * y) * v[3]),
       (w * w - x * x + y * y - z * z) * v[2] + 2 * ((x * y - w * z) * v[1] + (y * z - w * x) * v[3]),
       (w * w - x * x - y * y + z * z) * v[3] + 2 * ((x * z - w * y) * v[1] + (y * z + w * x) * v[2])>>

RotVec(v, q) ==
  LET x == q[1]  y == q[2]  z == q[3]  w == q[4]
  IN <<(w * w + x * x - y * y - z * z) * v[1] + 2 * ((x * y - w * z) * v[2] + (x * z + w * y) * v[3]),
       (w * w - x * x + y * y - z * z) * v[2] + 2 * ((x * y + w * z) * v[1] + (y * z - w * x) * v[3]),
       (w * w - x * x - y * y + z * z) * v[3] + 2 * ((x * z - w * y) * v[1] + (y * z + w * x) * v[2])>>

\* The quaternion of half the angle that is asked for, about an axis of length len.
SetAngleAxis(half, axis, len) ==
  IF len = 0 THEN <<<<0, 0, 0, 1>>, 1>>
  ELSE <<Append(Scale(half[2], axis), half[1] * len), half[3] * len>>

\* borQuatToMat3 of q / k, times k * k.
ToMat3(q, k) ==
  LET x == q[1]  y == q[2]  z == q[3]  w == q[4]
      u(i) == k * k - 2 * (Len2(<<x, y, z>>) - q[i] * q[i])
  IN <<<<u(1), 2 * (x * y - z * w), 2 * (x * z + y * w)>>,
       <<2 * (x * y + z * w), u(2), 2 * (y * z - x * w)>>,
       <<2 * (x * z - y * w), 2 * (y * z + x * w), u(3)>>>>

-----------------------------------------------------------------------------
(* Calls: on two matrices, on quaternions, on angles and an axis, and the  *)
(* transformation that the moves made so far build up.                     *)

About(kind) == result = None /\ store.kind = kind

\* d holds something else before the call.
Memory == [a |-> store.a, b |-> store.b, copy |-> store.b,
           d |-> Matrix(Len(store.a), LAMBDA i, j : i + 5 * j)]
Wrote(name, d, mem) == Answer(name, [dest |-> d, mem |-> mem])
Inverted(name, d, done) == Answer(name, [dest |-> d, mem |-> done[1], det |-> done[2]])

\* The functions without a 2 in their name have the first factor as destination.
SumsCall == About("matrices") /\ \E d \in {"a", "b", "d"} :
  \/ Wrote("Add", d, Add2(Memory, d, "a", "b"))
  \/ Wrote("Sub", d, Sub2(Memory, d, "a", "b"))
  \/ Wrote("MulComp", d, MulComp2(Memory, d, "a", "b"))
  \/ Wrote("Scale", d, Scale2(Memory, d, "a", -2))
  \/ Wrote("AddConst", d, AddConst2(Memory, d, "a", 3))
  \/ Wrote("SubConst", d, SubConst2(Memory, d, "a", 3))

ProductsCall == About("matrices") /\
  \/ Wrote("Mul", "a", Mul(Memory, "a", "b"))
  \/ Wrote("MulLeft", "a", MulLeft(Memory, "a", "b"))
  \/ \E d \in {"a", "b", "d"} : Wrote("Mul2", d, Mul2(Memory, d, "a", "b"))
  \/ Answer("MulVec", MulVec(store.a, Col(store.b, 1)))

TransposedCall == About("matrices") /\
  \/ Wrote("Trans", "a", Trans(Memory, "a"))
  \/ \E d \in {"a", "d"} : Wrote("Trans2", d, Trans2(Memory, d, "a"))

\* Over the argument itself there is Inv.
InverseCall == About("matrices") /\
  \/ \E d \in {"b", "d"} : Inverted("Inv2", d, Inv2(Memory, d, "a"))
  \/ Inverted("Inv", "a", Inv(Memory, "a"))

\* What mat3.h has and mat4.h has not.
Products3Call == About("matrices") /\ Len(store.a) = 3 /\
  \/ Wrote("MulLeftTrans", "a", MulLeftTrans(Memory, "a", "b"))
  \/ \E d \in {"a", "b", "d"} : Wrote("MulTrans2", d, MulTrans2(Memory, d, "a", "b"))
  \/ Wrote("MulColVecs2", "d", MulColVecs2(Memory, "d", "a", Transposed(store.b)))
  \/ Wrote("MulLeftRowVecs2", "d", MulLeftRowVecs2(Memory, "d", "a", store.b))
  \/ Answer("MulVecTrans", MulVecTrans(store.a, Col(store.b, 1)))

QuaternionsCall == About("quaternions") /\
  \/ Answer("QuatMul", QuatMul2(store.p, store.q))
  \/ Answer("Invert", Invert(store.p))
  \/ Answer("RotVec", RotVec(store.v, store.p))
  \/ \E k \in 1 .. 9 : k * k = Len2(store.p) /\ Answer("ToMat3", ToMat3(store.p, k))

TurnsCall == About("turns") /\
  \/ Answer("SetAngleAxis", SetAngleAxis(store.x, store.axis, store.len))
  \/ Answer("SetRot3D", SetRot3D(store.x, store.y, store.z))

MoveMatrix(move) ==
  CASE move[1] = "scale" -> SetScale(Len(store.m), move[2])
    [] move[1] = "translate" -> SetTranslate(move[2])
    [] move[1] = "rot" -> SetRot(move[2])
    [] move[1] = "axis" -> SetRotAxis(move[2], move[3], move[4])

\* borMat3TrScale, borMat3Translate, borMat3Rot and those of mat4.h.
MoveCall == About("motion") /\ Len(store.made) < store.bound
  /\ \E move \in store.moves :
       store' = [store EXCEPT !.m = Compose(@, MoveMatrix(move)), !.made = Append(@, move)]
  /\ UNCHANGED result

TransformNext ==
  \/ SumsCall \/ ProductsCall \/ TransposedCall \/ InverseCall \/ Products3Call
  \/ QuaternionsCall \/ TurnsCall \/ MoveCall

-----------------------------------------------------------------------------
(* What the answers mean, without an algorithm.                            *)

\* Closed convex figures have no common point exactly when they lie on
\* different sides of a plane, which has one of finitely many normals.
Separated(S, T, axes) ==
  \E n \in axes : \/ \A p \in S, q \in T : Dot(n, p) < Dot(n, q)
                  \/ \A p \in S, q \in T : Dot(n, p) > Dot(n, q)

Edges(S) == {Sub(p, q) : p, q \in S}
SpaceAxes(S, T, nS, nT) ==
  {nS, nT} \cup {Cross(e, f) : e \in Edges(S), f \in Edges(T)}
  \cup {Cross(nS, e) : e \in Edges(S)} \cup {Cross(nT, e) : e \in Edges(T)}
PlaneAxes(S, T) == LET e == Edges(S \cup T) IN e \cup {<<-v[2], v[1]>> : v \in e}

TrianglesMeet(S, T) ==
  LET s == {S[1], S[2], S[3]}
      t == {T[1], T[2], T[3]}
  IN ~Separated(s, t, SpaceAxes(s, t, Normal(S), Normal(T)))
PlaneFiguresMeet(s, t) == ~Separated(s, t, PlaneAxes(s, t))

OnTriangle(w, T) ==
  LET at(i) == Sub(w[1], Scale(w[2], T[i]))
  IN /\ Dot(Normal(T), at(1)) = 0
     /\ \A i \in 1 .. 3 : Dot(Normal(T), Cross(Sub(T[(i % 3) + 1], T[i]), at(i))) >= 0
OnSegment(w, a, b) ==
  LET d == Sub(b, a)
      at == Sub(w[1], Scale(w[2], a))
  IN /\ \A i, j \in DOMAIN d : at[i] * d[j] = at[j] * d[i]
     /\ 0 <= Dot(at, d) /\ Dot(at, d) <= w[2] * Len2(d)

\* w is the point nearest to P of the convex figure with these corners: no corner is ahead of w.
NoneNearer(P, w, corners) ==
  \A v \in corners : Dot(Sub(Scale(w[2], P), w[1]), Sub(Scale(w[2], v), w[1])) <= 0

SignOf(n) == IF n > 0 THEN 1 ELSE IF n < 0 THEN -1 ELSE 0
PlaneCross(u, v) == u[1] * v[2] - u[2] * v[1]

\* The centre of the circle through a, b and c, from a, over 2 * Area2(a, b, c).
InsideCircle(a, b, c, d) ==
  LET u == Sub(b, a)
      v == Sub(c, a)
      k == 2 * PlaneCross(u, v)
      o == <<v[2] * Len2(u) - u[2] * Len2(v), u[1] * Len2(v) - v[1] * Len2(u)>>
  IN Len2(Sub(Scale(k, Sub(d, a)), o)) < Len2(o)

\* On a ray of the cone, where neither the cone nor its complement is.
OnRay(v, p1, c, p2) ==
  \E p \in {p1, p2} : Collinear(v, c, p) /\ Dot(Sub(v, c), Sub(p, c)) >= 0
SameRay(p1, c, p2) == Collinear(p1, c, p2) /\ Dot(Sub(p1, c), Sub(p2, c)) > 0

-----------------------------------------------------------------------------
Given(name) == result # None /\ result[1] = name
answer == result[2]

\* The answer of a projection is the foot of the perpendicular.
Foot(normal, onPlane) ==
  /\ \A x \in onPlane : Dot(normal, Sub(answer[2][1], Scale(answer[2][2], x))) = 0
  /\ Cross(normal, Sub(answer[2][1], Scale(answer[2][2], store[1]))) = Zero3

\* Distances are taken to the point of the figure that is nearest, the point
\* is on the figure, and a projection is the foot of the perpendicular, with
\* the error return when three points of which the middle one is none of the
\* others lie on a line; borVec3PointInTri answers for a point of the plane of
\* the triangle whether it lies on it (for any other point it answers for the
\* foot of the perpendicular).
NearestPoints ==
  /\ Given("PointSegmentDist2") =>
       /\ OnSegment(answer[2], store[2], store[3])
       /\ NoneNearer(store[1], answer[2], {store[2], store[3]})
  /\ Given("PointTriDist2") =>
       /\ OnTriangle(answer[2], Tail(store))
       /\ NoneNearer(store[1], answer[2], {store[i] : i \in 2 .. 4})
  /\ Given("ProjToPlane") /\ answer \notin {None, NaN} => Foot(Normal(Tail(store)), {store[i] : i \in 2 .. 4})
  /\ Given("ProjToPlane2") /\ answer # NaN => Foot(store[3], {store[2]})
  /\ Given("ProjToPlane") /\ store[3] \notin {store[2], store[4]} =>
       (answer = None) = (Normal(Tail(store)) = Zero3)
  /\ Given("PointInTri") /\ Dot(Normal(Tail(store)), Sub(store[1], store[2])) = 0 =>
       answer = OnTriangle(<<store[1], 1>>, Tail(store))
  /\ Given("ProjectionPointOntoSegment") =>
       IF answer = None
       THEN store[1] = store[2] \/ \E i \in 1 .. 2 : Dot(Sub(store[3], store[i]), Sub(store[3 - i], store[i])) < 0
       ELSE OnSegment(answer, store[1], store[2]) /\ NoneNearer(store[3], answer, {store[1], store[2]})

\* Figures are found to meet exactly when no plane separates them, and the
\* points reported to be common are on both.
MeetingsFound ==
  /\ Given("TriTriOverlap") => answer = TrianglesMeet(First3, From4)
  /\ Given("TriTriIntersect") =>
       /\ (answer[1] # 0) = TrianglesMeet(First3, From4)
       /\ answer[1] = 1 => \A i \in 2 .. 3 : OnTriangle(answer[i], First3) /\ OnTriangle(answer[i], From4)
  /\ Given("LiesOn") => answer = PlaneFiguresMeet({store[1]}, {store[2], store[3]})
  /\ Given("Intersect") => answer = PlaneFiguresMeet({store[1], store[2]}, {store[3], store[4]})
  /\ Given("IntersectPoint") =>
       IF answer # None
       THEN OnSegment(answer, store[1], store[2]) /\ OnSegment(answer, store[3], store[4])
       ELSE \/ PlaneCross(Sub(store[1], store[2]), Sub(store[3], store[4])) = 0
            \/ ~PlaneFiguresMeet({store[1], store[2]}, {store[3], store[4]})
  /\ Given("PlaneTriTriOverlap") =>
       answer = PlaneFiguresMeet({store[i] : i \in 1 .. 3}, {store[i] : i \in 4 .. 6})
  /\ Given("BoxBoxOverlap") =>
       answer = PlaneFiguresMeet({store[i] : i \in 1 .. 4}, {store[i] : i \in 5 .. 8})

\* A circle, a cone, a turn and a polygon have the points inside that they should.
InsideIsInside ==
  /\ Given("InCircle") => answer = InsideCircle(store[1], store[2], store[3], store[4])
  /\ Given("InCone") =>
       LET v == store[1]  p1 == store[2]  c == store[3]  p2 == store[4]
       IN ~SameRay(p1, c, p2) =>
            IF OnRay(v, p1, c, p2) THEN ~answer ELSE answer # InCone(v, p2, c, p1)
  /\ Given("AngleSameDir") =>
       answer = CASE PlaneCross(store[2], store[1]) > 0 -> "left"
                  [] PlaneCross(store[2], store[1]) < 0 -> "right"
                  [] OTHER -> IF Dot(store[1], store[2]) > 0 THEN "none" ELSE "half"
  /\ Given("PointIn") =>
       LET v == store[1]
           quad == Tail(store)
       IN \* the two triangles that a diagonal cuts the polygon into share no point and leave out none
          /\ answer = (PointIn(<<quad[1], quad[2], quad[3]>>, v) # PointIn(<<quad[1], quad[3], quad[4]>>, v))
          /\ Convex4(quad) => /\ LiesIn(quad, v) => answer
                              /\ answer => PlaneFiguresMeet({v}, {quad[i] : i \in 1 .. 4})
  /\ Given("SegmentInRect") =>
       LET quad == First4
           x == store[5]
           y == store[6]
       IN IF answer = None
          THEN \* no point between x and y is strictly inside
               ~LiesIn(quad, x) /\ ~LiesIn(quad, y)
               /\ ~LiesIn([i \in 1 .. 4 |-> Scale(2, quad[i])], Add(x, y))
          ELSE \A i \in 1 .. 2 :
                 /\ OnSegment(answer[i], x, y)
                 /\ \A j \in 1 .. 4 : Area2(Scale(answer[i][2], quad[j]), Scale(answer[i][2], quad[(j % 4) + 1]), answer[i][1]) >= 0

\* boruvka/vec3.h says of borVec3SegmentSegmentDist2 that it "returns distance^2
\* of two segments ab and cd" and that the witnesses are the closest points.
SegmentsNearest ==
  Given("SegmentSegmentDist2") =>
    LET w == answer[3]
        z == answer[4]
        k == w[2] * z[2]
        gap == Sub(Scale(w[2], z[1]), Scale(z[2], w[1]))
    IN /\ OnSegment(w, store[1], store[2]) /\ OnSegment(z, store[3], store[4])
       /\ \A v \in {store[1], store[2]} : Dot(gap, Sub(Scale(w[2], v), w[1])) <= 0
       /\ \A v \in {store[3], store[4]} : Dot(gap, Sub(Scale(z[2], v), z[1])) >= 0
-----------------------------------------------------------------------------
(* What the transformations mean.                                          *)

Product(m, n) == Matrix(Len(m), LAMBDA i, j : Dot(m[i], Col(n, j)))

\* The determinant, by row i.
Expansion(m, i) ==
  IF Len(m) = 3 THEN Dot(m[i], Cross(m[After(i)], m[After(After(i))]))
  ELSE FoldLeft(LAMBDA sum, j : sum + (-1)^(i + j) * m[i][j] * Subdet(m, i, j), 0, Upto(4))

\* v turned by the angle about the axis, times k times the square length of
\* the axis: the part along the axis stays.
Turned(v, angle, axis, len) ==
  Add(Scale(angle[1] * len * len, v),
      Add(Scale(angle[2] * len, Cross(axis, v)), Scale((angle[3] - angle[1]) * Dot(axis, v), axis)))
Twice(half) ==
  <<half[1] * half[1] - half[2] * half[2], 2 * half[1] * half[2], half[3] * half[3]>>

\* Where a move takes the point W / k.
Moved(p, move) ==
  LET W == p[1]
      k == p[2]
      angle == move[2]
  IN CASE move[1] = "scale" -> <<Scale(move[2], W), k>>
       [] move[1] = "translate" -> <<Add(W, Scale(k, move[2])), k>>
       [] move[1] = "rot" -> <<<<angle[1] * W[1] - angle[2] * W[2], angle[2] * W[1] + angle[1] * W[2]>>, k * angle[3]>>
       [] move[1] = "axis" -> <<Turned(W, angle, move[3], move[4]), k * angle[3] * move[4] * move[4]>>

\* About other axes the wrong entry of borMat4SetRot is another number.
EntryRight(move) ==
  move[1] = "axis" => move[3][1] * move[3][2] = move[3][1] * move[3][3]

\* What the call is to write, from the matrices as they were.
Claim ==
  LET a == store.a
      b == store.b
      Entries(at(_, _)) == Matrix(Len(a), LAMBDA i, j : at(a[i][j], b[i][j]))
  IN CASE result[1] = "Add" -> Entries(LAMBDA x, y : x + y)
       [] result[1] = "Sub" -> Entries(LAMBDA x, y : x - y)
       [] result[1] = "MulComp" -> Entries(LAMBDA x, y : x * y)
       [] result[1] = "Scale" -> Entries(LAMBDA x, y : -2 * x)
       [] result[1] = "AddConst" -> Entries(LAMBDA x, y : x + 3)
       [] result[1] = "SubConst" -> Entries(LAMBDA x, y : x - 3)
       [] result[1] \in {"Mul", "Mul2", "MulColVecs2"} -> Product(a, b)
       [] result[1] \in {"MulLeft", "MulLeftRowVecs2"} -> Product(b, a)
       [] result[1] = "MulLeftTrans" -> Product(Transposed(b), a)
       [] result[1] = "MulTrans2" -> Product(Transposed(a), b)
       [] result[1] \in {"Trans", "Trans2"} -> Matrix(Len(a), LAMBDA i, j : a[j][i])
       [] OTHER -> None

\* A function with a destination of its own may write over its second factor,
\* except borMat*MulComp2, which then gives the squares of the first, but over
\* its first argument only if it reads each entry just once.
Allowed ==
  /\ answer.dest = "a" => result[1] \notin {"Mul2", "MulTrans2", "Trans2"}
  /\ answer.dest = "b" => result[1] # "MulComp"

MatricesRight ==
  LET a == store.a
      now == answer.mem[answer.dest]
  IN /\ \A x \in {"a", "b"} \ {answer.dest} : answer.mem[x] = Memory[x]
     /\ Claim # None /\ Allowed => now = Claim
     /\ Given("MulComp") /\ answer.dest = "b" => now = Matrix(Len(a), LAMBDA i, j : a[i][j] * a[i][j])
     /\ result[1] \in {"Mul", "MulLeft"} => Det(now) = Det(a) * Det(store.b)
     /\ result[1] \in {"Inv", "Inv2"} =>
          IF answer.det = None
          THEN answer.mem = Memory /\ \A i \in DOMAIN a : Expansion(a, i) = 0
          ELSE \A m \in {Product(a, now), Product(now, a)} :
                 m = Matrix(Len(a), LAMBDA i, j : IF i = j THEN answer.det ELSE 0)

QuaternionsRight ==
  LET p == store.p
      v == store.v
      conjugate == <<-p[1], -p[2], -p[3], p[4]>>
  IN /\ Given("QuatMul") => RotVec(v, answer) = RotVec(RotVec(v, store.q), p)
     /\ Given("Invert") /\ answer # None => QuatMul2(p, answer[1]) = <<0, 0, 0, answer[2]>>
     /\ Given("Invert") /\ answer = None => \A i \in 1 .. 4 : p[i] = 0
     /\ Given("RotVec") => Append(answer, 0) = QuatMul2(QuatMul2(p, Append(v, 0)), conjugate)
     /\ Given("ToMat3") => MulVec(answer, v) = RotVec(v, p)

TurnsRight ==
  LET v == store.v
      About1(w, angle, i) == Turned(w, angle, Unit(3)[i], 1)
  IN /\ Given("SetAngleAxis") =>
          IF store.len = 0 THEN RotVec(v, answer[1]) = v
          ELSE LET full == Twice(store.x)
               IN RotVec(v, answer[1]) = Turned(v, full, store.axis, store.len)
     /\ Given("SetRot3D") =>
          MulVec(answer, v) = About1(About1(About1(v, store.x, 1), store.y, 2), store.z, 3)

MotionRight ==
  LET n == Len(store.m) - 1
      corners == {[i \in 1 .. n |-> 0] \o <<>>} \cup {SubSeq(Unit(n)[i], 1, n) : i \in 1 .. n}
  IN (\A i \in DOMAIN store.made : EntryRight(store.made[i])) =>
       \A v \in corners :
         LET is == Applied(store.m, v)
             due == FoldLeft(Moved, <<v, 1>>, store.made)
         IN Scale(due[2], is[1]) = Scale(is[2], due[1])

\* A matrix function writes what it says, wherever it may write, and leaves the
\* other matrices alone; quaternions compose and turn vectors as rotations do;
\* and a transformation takes points where its moves, in order, take them.
TransformsRight ==
  /\ store.kind = "matrices" /\ result # None =>
       CASE result[1] = "MulVec" -> answer = Col(Product(store.a, store.b), 1)
         [] result[1] = "MulVecTrans" -> answer = Col(Product(Transposed(store.a), store.b), 1)
         [] OTHER -> MatricesRight
  /\ store.kind = "quaternions" => QuaternionsRight
  /\ store.kind = "turns" => TurnsRight
  /\ store.kind = "motion" => MotionRight
=============================================================================
