------------------------------- MODULE CHull3 -------------------------------
(***************************************************************************)
(* The incremental convex hull of chull3.c, built on the mesh of mesh3.c   *)
(* with the predicates of vec3.h.  Points are whole numbers and every      *)
(* orientation is exact.  A hull is a mesh with the position of every      *)
(* vertex, the corners of every face in their order, and the marks that    *)
(* borCHull3Add leaves on edges and vertices while it works; what is       *)
(* appended to a list of the mesh has the highest number of it, so the     *)
(* order of a list is that of the numbers.                                 *)
(***************************************************************************)
EXTENDS Integers, Sequences, FiniteSets, SequencesExt

CONSTANTS
  Clouds,    \* the sets of points a hull is made of
  Nodes, Edges, Faces,   \* the numbers that vertices, edges and faces may have
  None

VARIABLES store, result    \* the hull, and the last point that was added

vars == <<store, result>>

Mesh == INSTANCE Mesh3 WITH Ends <- {}, Sides <- {}
Space == INSTANCE Geometry WITH Figures <- {}

-----------------------------------------------------------------------------

EmptyHull(cloud) ==
  [coplanar |-> TRUE, hung |-> FALSE, cloud |-> cloud, given |-> {},
   pos |-> [v \in Nodes |-> None], count |-> [v \in Nodes |-> 0],
   corner |-> [f \in Faces |-> None],
   border |-> <<>>, once |-> {}, swap |-> {}, wrong |-> <<>>] @@ Mesh!EmptyMesh

Fresh(S) == Max(S \cup {0}) + 1

Listed(S) == [k \in 1 .. Cardinality(S) |-> CHOOSE x \in S : Cardinality({y \in S : y < x}) = k - 1]

VertNew(h, p) ==
  LET v == Fresh(h.nodes) IN [Mesh!AddNode(h, v) EXCEPT !.pos[v] = p, !.count[v] = 0]

VertDel(h, v) == [Mesh!TakeNode(h, v) EXCEPT !.pos[v] = None, !.count[v] = 0]

EdgeNew(h, v, w) == Mesh!AddMeshEdge(h, Fresh(h.edges), v, w)

\* A face that the mesh refuses is lost.
FaceNew(h, es, corners) ==
  LET f == Fresh(h.faces)
  IN IF \E i \in 1 .. 3 : Mesh!FacesLen(h, es[i]) = 2 THEN h
     ELSE [Mesh!AddFace(h, f, es) EXCEPT !.corner[f] = corners]

Volume6(a, b, c, d) ==
  Space!Dot(Space!Sub(a, d), Space!Cross(Space!Sub(b, d), Space!Sub(c, d)))

Corner(h, f, i) == h.pos[h.corner[f][i]]
Orient3d(h, p, f) == Volume6(Corner(h, f, 1), Corner(h, f, 2), Corner(h, f, 3), p)
IsVisible(h, p, f) == Orient3d(h, p, f) > 0
TriArea2(a, b, c) == Space!Len2(Space!Cross(Space!Sub(a, b), Space!Sub(c, b)))

OtherVertex(h, e, v) == IF h.n[e][1] = v THEN h.n[e][2] ELSE h.n[e][1]

\* The edge goes from its first vertex to its second as the corners do.
Along(ends, c) == ends \in {<<c[1], c[2]>>, <<c[2], c[3]>>, <<c[3], c[1]>>}

-----------------------------------------------------------------------------
(* While all points lie in one plane.                                      *)

IsCoplanarWithHull(h, p) ==
  h.nodesLen < 3 \/ \A f \in h.faces : Orient3d(h, p, f) = 0

LiesOnCoplanar(h, p) ==
  /\ h.nodesLen >= 3
  /\ \A f \in h.faces : Space!PointInTri(p, Corner(h, f, 1), Corner(h, f, 2), Corner(h, f, 3))

RECURSIVE AddCoplanarGrow(_, _, _, _, _)

\* From the new vertex v the patch grows along its border, over one edge after
\* the other that can be seen; without a border to follow the loop never ends.
AddCoplanarGrow(h, v, e, top, inv) ==
  LET w == OtherVertex(h, e, v)
      rim == {d \in h.edges \ {e} : w \in {h.n[d][1], h.n[d][2]} /\ Mesh!FacesLen(h, d) = 1}
      d == Min(rim)
      x == OtherVertex(h, d, w)
      g == EdgeNew(h, v, x)
      last == Max(g.edges)
  IN IF rim = {} THEN [h EXCEPT !.hung = TRUE]
     ELSE IF Volume6(h.pos[v], h.pos[w], h.pos[x], top) <= 0 THEN h
     ELSE AddCoplanarGrow(FaceNew(g, <<e, d, last>>, IF inv THEN <<v, x, w>> ELSE <<v, w, x>>),
                          v, last, top, inv)

\* Of three points on a line the two that are farthest apart stay.
AddCoplanar3(h, p) ==
  LET v1 == Min(h.nodes)
      v2 == Max(h.nodes)
      a == h.pos[v1]
      b == h.pos[v2]
      dist(x, y) == Space!Len2(Space!Sub(x, y))
      g == VertNew(h, p)
      v == Max(g.nodes)
      k == EdgeNew(EdgeNew(EdgeNew(g, v1, v2), v, v1), v, v2)
  IN IF TriArea2(p, a, b) # 0 THEN FaceNew(k, Listed(k.edges), <<v, v1, v2>>)
     ELSE IF dist(p, a) > dist(p, b)
          THEN IF dist(p, a) > dist(a, b) THEN VertNew(VertDel(h, v2), p) ELSE h
     ELSE IF dist(p, b) > dist(a, b) THEN VertNew(VertDel(h, v1), p) ELSE h

\* The border edge that is nearest to the point and, of equally near ones, spans
\* the largest triangle with it.
NearestEdge(h, p) ==
  LET rim == {e \in h.edges : Mesh!FacesLen(h, e) = 1}
      ends(e) == <<h.pos[h.n[e][1]], h.pos[h.n[e][2]]>>
      far(e) == Space!PointSegmentDist2(p, ends(e)[1], ends(e)[2])[1]
      area(e) == TriArea2(p, ends(e)[1], ends(e)[2])
      less(d, e) == far(d)[1] * far(e)[2] < far(e)[1] * far(d)[2]
      before(d, e) == less(d, e) \/ (~less(e, d) /\ (area(d) > area(e) \/ (area(d) = area(e) /\ d < e)))
  IN CHOOSE e \in rim : \A d \in rim \ {e} : before(e, d)

\* The new vertex v makes a triangle with edge e0; its other edges are e2 - 1 and
\* e2, and the patch grows over both of them.
GrowFrom(k, v, e0, e2, inv) ==
  LET v0 == k.n[e0][1]
      v1 == k.n[e0][2]
      up == Space!Cross(Space!Sub(k.pos[v0], k.pos[v]), Space!Sub(k.pos[v1], k.pos[v]))
      full == FaceNew(k, <<e0, e2 - 1, e2>>, IF inv THEN <<v, v0, v1>> ELSE <<v, v1, v0>>)
      other(one) == IF one.hung THEN one ELSE AddCoplanarGrow(one, v, e2, Space!Sub(k.pos[v], up), ~inv)
  IN other(AddCoplanarGrow(full, v, e2 - 1, Space!Add(k.pos[v], up), inv))

JoinTo(h, p, e0) ==
  LET v0 == h.n[e0][1]
      v1 == h.n[e0][2]
      inv == ~Along(<<v0, v1>>, h.corner[h.f[e0][1]])
      joined(g, v) == EdgeNew(EdgeNew(g, v, v0), v, v1)
      grown(k, v) == GrowFrom(k, v, e0, Max(k.edges), inv)
      added(g, v) == grown(joined(g, v), v)
  IN IF TriArea2(p, h.pos[v0], h.pos[v1]) = 0 THEN h ELSE added(VertNew(h, p), Fresh(h.nodes))
AddCoplanar4(h, p) == JoinTo(h, p, NearestEdge(h, p))

AddCoplanar(h, p) ==
  CASE h.nodesLen < 2 -> VertNew(h, p)
    [] h.nodesLen = 2 -> AddCoplanar3(h, p)
    [] OTHER -> AddCoplanar4(h, p)

-----------------------------------------------------------------------------
(* The cone from the new point to the border that it sees.                 *)

CommonOrNew(h, v, w) == IF Mesh!CommonEdges(h, v, w) = {} THEN EdgeNew(h, v, w) ELSE h

RECURSIVE ConeOver(_, _)

ConeOver(h, v) ==
  IF h.border = <<>> THEN h
  ELSE LET e == Head(h.border)
           a == h.n[e][1]
           b == h.n[e][2]
           g == CommonOrNew(CommonOrNew(h, v, a), v, b)
           side(w) == Min(Mesh!CommonEdges(g, v, w))
           corners == IF e \in h.swap THEN <<v, b, a>> ELSE <<v, a, b>>
           k == FaceNew(g, <<e, side(a), side(b)>>, corners)
       IN ConeOver([k EXCEPT !.border = Tail(@), !.once = @ \ {e}, !.swap = @ \ {e},
                             !.count[a] = 0, !.count[b] = 0], v)

MakeCone(h, p) == LET g == VertNew(h, p) IN ConeOver(g, Max(g.nodes))

\* A bug the checks must find: the faces stay as they are.
NotReoriented(h, p) == h

\* The faces of the patch turn their backs on the point, all or none.
Reoriented(h, p) ==
  IF \E f \in h.faces : IsVisible(h, p, f)
  THEN [h EXCEPT !.corner = [f \in Faces |-> IF f \in h.faces THEN <<@[f][1], @[f][3], @[f][2]>> ELSE @[f]]]
  ELSE h

FirstNonCoplanar(h, p) ==
  LET g == Reoriented(h, p)
      all == FlattenSeq([k \in 1 .. Cardinality(g.faces) |-> g.e[Listed(g.faces)[k]]])
      rim == SelectSeq(all, LAMBDA e : Mesh!FacesLen(g, e) = 1)
      swapped == {e \in Range(rim) : Along(g.n[e], g.corner[g.f[e][1]])}
  IN [MakeCone([g EXCEPT !.border = rim, !.swap = swapped], p) EXCEPT !.coplanar = FALSE]

-----------------------------------------------------------------------------
(* The border of what the point sees: the faces are taken away one by one, *)
(* and edges and vertices that are left alone go with them.                *)

MarkEdge(h, e, c) ==
  IF e \in h.once THEN h
  ELSE LET a == h.n[e][1]
           b == h.n[e][2]
       IN [h EXCEPT !.once = @ \cup {e}, !.border = Append(@, e),
                    !.swap = IF Along(<<b, a>>, c) THEN @ \cup {e} ELSE @ \ {e},
                    !.count[a] = @ + 1, !.count[b] = @ + 1,
                    !.wrong = @ \o SelectSeq(<<a, b>>, LAMBDA v : h.count[v] + 1 = 3)]

TakeAlone(h, v) == IF h.atLen[v] = 0 THEN VertDel(h, v) ELSE h

DropEdge(h, e) ==
  IF Mesh!FacesLen(h, e) # 0 THEN h
  ELSE LET a == h.n[e][1]
           b == h.n[e][2]
           g == [Mesh!RemoveMeshEdge(h, e) EXCEPT
                   !.border = SelectSeq(@, LAMBDA d : d # e), !.once = @ \ {e}, !.swap = @ \ {e},
                   !.count[a] = @ - 1, !.count[b] = @ - 1,
                   !.wrong = SelectSeq(@, LAMBDA v : ~(v \in {a, b} /\ h.count[v] - 1 = 2))]
       IN TakeAlone(TakeAlone(g, a), b)

UpdateBorderEdges(h, f) ==
  LET es == h.e[f]
      c == h.corner[f]
      g == MarkEdge(MarkEdge(MarkEdge(h, es[1], c), es[2], c), es[3], c)
      k == [Mesh!RemoveFace(g, f) EXCEPT !.corner[f] = None]
  IN DropEdge(DropEdge(DropEdge(k, es[1]), es[2]), es[3])

\* Where the walk around v over its edges and their two faces first meets f.
Met(h, v, f) ==
  Min({2 * x[1] + x[2] : x \in {x \in {l[1] : l \in h.at[v]} \X (1 .. 2) : h.f[x[1]][x[2]] = f}})

\* A vertex with more than two border edges loses the face that the point sees
\* best, the first of equal ones.  (Only rounding leads here.)
BestFace(h, p, v) ==
  LET fs == {f \in h.faces : v \in Range(h.corner[f])}
      better(f, d) == LET x == Orient3d(h, p, f)  y == Orient3d(h, p, d)
                      IN x > y \/ (x = y /\ Met(h, v, f) < Met(h, v, d))
  IN CHOOSE f \in fs : \A d \in fs \ {f} : better(f, d)

RECURSIVE TakeFaces(_, _), CorrectBorderEdges(_, _)

TakeFaces(h, fs) == IF fs = <<>> THEN h ELSE TakeFaces(UpdateBorderEdges(h, Head(fs)), Tail(fs))

CorrectBorderEdges(h, p) ==
  IF h.wrong = <<>> THEN h
  ELSE CorrectBorderEdges(UpdateBorderEdges(h, BestFace(h, p, Head(h.wrong))), p)

\* A point that is a vertex already takes nothing away.
FindBorderEdges(h, p) ==
  LET seen == {f \in h.faces : IsVisible(h, p, f)}
      known == \E f \in h.faces \ seen : \E i \in 1 .. 3 : Corner(h, f, i) = p
  IN CorrectBorderEdges(TakeFaces(h, IF known THEN <<>> ELSE Listed(seen)), p)

-----------------------------------------------------------------------------

AddPoint(h, p) ==
  CASE h.coplanar /\ IsCoplanarWithHull(h, p) -> IF LiesOnCoplanar(h, p) THEN h ELSE AddCoplanar(h, p)
    [] h.coplanar /\ ~IsCoplanarWithHull(h, p) -> FirstNonCoplanar(h, p)
    [] OTHER -> LET g == FindBorderEdges(h, p) IN IF g.border = <<>> THEN g ELSE MakeCone(g, p)

Init == \E cloud \in Clouds : store = EmptyHull(cloud) /\ result = None

Add(p) ==
  /\ store.closing = "open" /\ ~store.hung
  /\ store' = [AddPoint(store, p) EXCEPT !.given = @ \cup {p}]
  /\ result' = p

Del ==
  /\ store.closing = "open" /\ ~store.hung
  /\ store' = [EmptyHull(store.cloud) EXCEPT !.closing = "freed"]
  /\ result' = None

Next == Del \/ \E p \in store.cloud : Add(p)

Spec == Init /\ [][Next]_vars

-----------------------------------------------------------------------------
(* What a hull is.                                                         *)

Points(h) == {h.pos[v] : v \in h.nodes}
Turns(h, e) == Cardinality({f \in h.faces : Along(h.n[e], h.corner[f])})
Back(e) == <<e[2], e[1]>>

\* The faces go around, so that neighbours run along their common edge in
\* opposite directions, and their corners are the ends of their edges.
Oriented(h) ==
  /\ \A f \in h.faces :
       Range(h.corner[f]) = UNION {{h.n[h.e[f][i]][1], h.n[h.e[f][i]][2]} : i \in 1 .. 3}
  /\ \A e \in h.edges :
       LET fs == {h.f[e][1], h.f[e][2]} \ {None}
       IN \A f, g \in fs : f # g => Along(h.n[e], h.corner[f]) # Along(h.n[e], h.corner[g])

Between(p, a, b) ==
  /\ TriArea2(p, a, b) = 0
  /\ Space!Dot(Space!Sub(a, p), Space!Sub(b, p)) <= 0

NormalOf(h, f) == Space!Cross(Space!Sub(Corner(h, f, 2), Corner(h, f, 1)), Space!Sub(Corner(h, f, 3), Corner(h, f, 1)))

\* In a plane: a disk of triangles that turn the same way, and no point beyond
\* an edge of its border.
FlatHull(h) ==
  /\ Oriented(h)
  /\ h.nodesLen + h.facesLen = h.edgesLen + 1
  /\ \A f, g \in h.faces : Space!Dot(NormalOf(h, f), NormalOf(h, g)) > 0
  /\ \A e \in {e \in h.edges : Mesh!FacesLen(h, e) = 1} :
       LET f == h.f[e][1]
           ends == IF Along(h.n[e], h.corner[f]) THEN h.n[e] ELSE Back(h.n[e])
           a == h.pos[ends[1]]
           b == h.pos[ends[2]]
       IN \A p \in h.given :
            Space!Dot(Space!Cross(Space!Sub(b, a), Space!Sub(p, a)), NormalOf(h, f)) >= 0

\* In space: a closed surface without a hole, no point in front of a face.
SolidHull(h) ==
  /\ Oriented(h)
  /\ \A e \in h.edges : Mesh!FacesLen(h, e) = 2
  /\ h.nodesLen + h.facesLen = h.edgesLen + 2
  /\ \A f \in h.faces : NormalOf(h, f) # Space!Zero3 /\ \A p \in h.given : ~IsVisible(h, p, f)

\* After every borCHull3Add the mesh is the convex hull of the points so far.
HullRight ==
  store.closing = "open" =>
    /\ ~store.hung
    /\ Points(store) \subseteq store.given
    /\ store.border = <<>> /\ store.wrong = <<>> /\ store.once = {}
    /\ \A v \in store.nodes : store.count[v] = 0
    /\ CASE ~store.coplanar -> SolidHull(store)
         [] store.coplanar /\ store.faces # {} -> FlatHull(store)
         [] OTHER -> \A p \in store.given : \E a, b \in Points(store) : Between(p, a, b)
=============================================================================
