-------------------------- MODULE NearestNeighbours --------------------------
(***************************************************************************)
(* The nearest-neighbour structures behind boruvka/nn.h: the vp-tree       *)
(* (vptree.c, and vptree-hamming.c for strings of bits), the growing       *)
(* uniform grid (gug.c) and the list (nn-linear.c, nearest-linear.c).      *)
(* A point is a tuple of integers, or a set of bits for the Hamming        *)
(* distance; the vp-tree measures points of a line, so that distances are  *)
(* whole numbers, and holds twice a radius, which may end in a half.       *)
(* The grid's edge is a root of a fraction: comparisons with it are made   *)
(* between powers.                                                         *)
(***************************************************************************)
EXTENDS Integers, Sequences, FiniteSets, SequencesExt

CONSTANTS
  Els,          \* the elements, 1 .. n
  LinePoints, BitPoints, PlanePoints,
  Queries,      \* how many neighbours are asked for
  Maxsize, Samplesize,
  Corners,      \* the box of the grid: <<lowest corner, sizes>>
  NumCells,     \* its fixed number of cells, or 0
  MaxDens,      \* elements per cell as <<numerator, denominator>>
  ExpandRate,
  Far,          \* above every distance
  None

VARIABLES store, result

vars == <<store, result>>

Magnitude(n) == IF n < 0 THEN -n ELSE n

\* hammingDist.
HammingDist(p, q) == Cardinality((p \ q) \cup (q \ p))
\* Euclidean, squared.
Dist2(p, q) == FoldLeft(+, 0, [i \in DOMAIN p |-> (p[i] - q[i]) * (p[i] - q[i])])

Dist(kind, p, q) ==
  CASE kind = "hamming" -> HammingDist(p, q)
    [] kind = "vptree" -> Magnitude(p[1] - q[1])
    [] OTHER -> Dist2(p, q)

PointsOf(kind) ==
  CASE kind = "hamming" -> BitPoints [] kind = "vptree" -> LinePoints [] OTHER -> PlanePoints

-----------------------------------------------------------------------------
(* The best so far: [els, dist], nearest first, at most num of them.       *)

NearestAdd(near, num, e, d) ==
  LET keep == IF Len(near.els) < num THEN Len(near.els) ELSE num - 1
      pos == 1 + Cardinality({i \in 1 .. keep : near.dist[i] <= d})
  IN [els |-> InsertAt(SubSeq(near.els, 1, keep), pos, e),
      dist |-> InsertAt(SubSeq(near.dist, 1, keep), pos, d)]

\* nearestCheck of the grid and the loop body of the lists.
NearestCheck(near, num, e, d) ==
  IF Len(near.els) < num \/ d < near.dist[num] THEN NearestAdd(near, num, e, d) ELSE near

Nobody == [els |-> <<>>, dist |-> <<>>]

-----------------------------------------------------------------------------
(* VP-tree: a leaf [els] or a node [vp, r2, left, right].                  *)

IsLeaf(n) == "els" \in DOMAIN n
Leaf(els) == [els |-> els]
NodeOf(vp, r2, left, right) == [vp |-> vp, r2 |-> r2, left |-> left, right |-> right]

RECURSIVE ElsOf(_)
ElsOf(n) ==
  CASE n = None -> {}
    [] n # None -> IF IsLeaf(n) THEN {n.els[i] : i \in DOMAIN n.els} ELSE ElsOf(n.left) \cup ElsOf(n.right)

\* Twice the median of the sorted distances; the Hamming tree keeps a whole radius.
Median2(kind, dist) ==
  LET n == Len(dist)
      m2 == IF n % 2 = 1 THEN 2 * dist[n \div 2 + 1] ELSE dist[n \div 2 + 1] + dist[n \div 2]
  IN IF kind = "hamming" THEN 2 * (m2 \div 2) ELSE m2

\* That of data to candidate c, and four times the variance as a fraction.
RadiusVar(kind, at, c, data) ==
  LET others == SelectSeq(data, LAMBDA e : e # c)
      around(dist, r2) ==
        [r2 |-> r2, var |-> <<FoldLeft(+, 0, [i \in DOMAIN dist |-> (2 * dist[i] - r2)^2]), Len(dist)>>]
      of(dist) == around(dist, Median2(kind, dist))
  IN IF others = <<>> THEN [r2 |-> 0, var |-> <<0, 1>>]
     ELSE of(SortSeq([i \in DOMAIN others |-> Dist(kind, at[c], at[others[i]])] \o <<>>, <))

\* The first candidate of the greatest variance.
Better(x, y) == x.var[1] * y.var[2] > y.var[1] * x.var[2]
BestOf(rv) ==
  CHOOSE i \in DOMAIN rv : \A j \in DOMAIN rv : ~Better(rv[j], rv[i]) /\ (j < i => Better(rv[i], rv[j]))

BestVP(kind, at, candidates, data) ==
  LET pick(rv, best) == [vp |-> at[candidates[best]], r2 |-> rv[best].r2]
      among(rv) == pick(rv, BestOf(rv))
  IN among([i \in DOMAIN candidates |-> RadiusVar(kind, at, candidates[i], data)] \o <<>>)

\* The nearer ones are swapped to the front; a median is never above all, so
\* the loop that would lower the radius runs once.
Reorganize(kind, at, b, els) ==
  LET nearer(e) == 2 * Dist(kind, b.vp, at[e]) < b.r2
      swap(s, i) ==
        IF nearer(s.els[i])
        THEN [els |-> [s.els EXCEPT ![i] = s.els[s.cur + 1], ![s.cur + 1] = s.els[i]], cur |-> s.cur + 1]
        ELSE s
  IN FoldLeft(swap, [els |-> els, cur |-> 0], [i \in DOMAIN els |-> i])

\* nodeAddSplit: where no radius parts the elements the leaf stays as it was.
Parted(b, s, leaf) ==
  IF s.cur \in {0, Len(s.els)} THEN leaf
  ELSE NodeOf(b.vp, b.r2, Leaf(SubSeq(s.els, 1, s.cur)), Leaf(SubSeq(s.els, s.cur + 1, Len(s.els))))
SplitBy(kind, at, b, els, leaf) == Parted(b, Reorganize(kind, at, b, els), leaf)
NodeAddSplit(kind, at, leaf, e) ==
  LET els == <<e>> \o leaf.els IN SplitBy(kind, at, BestVP(kind, at, els, els), els, leaf)

GoesLeft(kind, n, p) == 2 * Dist(kind, n.vp, p) < n.r2

\* nodeFindLeaf and what borVPTreeAdd does with the leaf.
RECURSIVE AddBelow(_, _, _, _)
AddBelow(kind, at, n, e) ==
  IF IsLeaf(n)
  THEN IF Len(n.els) < Maxsize THEN Leaf(Append(n.els, e)) ELSE NodeAddSplit(kind, at, n, e)
  ELSE IF GoesLeft(kind, n, at[e]) THEN [n EXCEPT !.left = AddBelow(kind, at, n.left, e)]
       ELSE [n EXCEPT !.right = AddBelow(kind, at, n.right, e)]

VPTreeAdd(kind, at, n, e) == IF n = None THEN Leaf(<<e>>) ELSE AddBelow(kind, at, n, e)

\* borVPTreeRemove: the brother of a leaf that empties takes its parent's place.
RECURSIVE VPTreeRemove(_, _)
VPTreeRemove(n, e) ==
  IF IsLeaf(n) THEN LET els == SelectSeq(n.els, LAMBDA x : x # e) IN IF els = <<>> THEN None ELSE Leaf(els)
  ELSE IF e \in ElsOf(n.left)
       THEN LET left == VPTreeRemove(n.left, e) IN IF left = None THEN n.right ELSE [n EXCEPT !.left = left]
       ELSE LET right == VPTreeRemove(n.right, e) IN IF right = None THEN n.left ELSE [n EXCEPT !.right = right]

Radius(near, num) == IF Len(near.els) < num THEN Far ELSE near.dist[num]

\* A bug the checks must find: the right side is looked at only when all of the circle can reach it.
SidesToSearchShort(kind, n, p, num, near) ==
  LET d == Dist(kind, p, n.vp)
  IN [left |-> 2 * d < n.r2 + 2 * Radius(near, num), right |-> 2 * d >= n.r2]

\* Which sides can hold something nearer than the num found.
SidesToSearch(kind, n, p, num, near) ==
  LET d == Dist(kind, p, n.vp)
  IN [left |-> 2 * d < n.r2 + 2 * Radius(near, num), right |-> 2 * d >= n.r2 - 2 * Radius(near, num)]

RECURSIVE VPNearest(_, _, _, _, _, _)
VPNearest(kind, at, n, p, num, near) ==
  LET tried(acc, e) ==
        IF Dist(kind, p, at[e]) < Radius(acc, num) THEN NearestAdd(acc, num, e, Dist(kind, p, at[e])) ELSE acc
      left(acc) == IF SidesToSearch(kind, n, p, num, acc).left
                   THEN VPNearest(kind, at, n.left, p, num, acc) ELSE acc
      right(acc) == IF SidesToSearch(kind, n, p, num, acc).right
                    THEN VPNearest(kind, at, n.right, p, num, acc) ELSE acc
      inOrder(acc, side) == IF side = "left" THEN left(acc) ELSE right(acc)
      order == IF GoesLeft(kind, n, p) THEN <<"left", "right">> ELSE <<"right", "left">>
  IN IF IsLeaf(n) THEN FoldLeft(tried, near, n.els) ELSE FoldLeft(inOrder, near, order)

\* buildNode: every tree that some random samples give.
Samples(els) == IF Samplesize < Len(els) THEN [1 .. Samplesize -> {els[i] : i \in DOMAIN els}] ELSE {els}
RECURSIVE Builds(_, _, _), BuildsBelow(_, _, _, _)
Builds(kind, at, els) ==
  IF Len(els) <= Maxsize THEN {Leaf(els)}
  ELSE UNION {BuildsBelow(kind, at, b, Reorganize(kind, at, b, els)) :
                b \in {BestVP(kind, at, ps, ds) : ps \in Samples(els), ds \in Samples(els)}}
BuildsBelow(kind, at, b, s) ==
  IF s.cur \in {0, Len(s.els)} THEN {Leaf(s.els)}
  ELSE {NodeOf(b.vp, b.r2, l, r) :
          l \in Builds(kind, at, SubSeq(s.els, 1, s.cur)), r \in Builds(kind, at, SubSeq(s.els, s.cur + 1, Len(s.els)))}

-----------------------------------------------------------------------------
(* Grid: cells is a function from positions to lists; edge^d = Volume / num. *)

D == Len(Corners[1])
Volume == FoldLeft(LAMBDA a, b : a * b, 1, Corners[2])

\* The greatest k with k^D <= n.
Root(n) == CHOOSE k \in 0 .. n : k^D <= n /\ (k + 1)^D > n

\* Cells from 0 along axis i up to distance x.
CellsTo(x, num) == Root((x^D * num) \div Volume)

Positions(dim) == {q \in [1 .. D -> 0 .. FoldLeft(LAMBDA a, b : IF a > b THEN a ELSE b, 0, dim)] :
                     \A i \in 1 .. D : q[i] < dim[i]}

CellsAlloc(num) ==
  LET dim == [i \in 1 .. D |-> CellsTo(Corners[2][i], num) + 1] \o <<>>
      len == FoldLeft(LAMBDA a, b : a * b, 1, dim)
  IN [num |-> num, dim |-> dim, len |-> len, num_els |-> 0,
      cells |-> [q \in Positions(dim) |-> <<>>],
      next_expand |-> IF NumCells > 0 THEN Far ELSE (len * MaxDens[1]) \div MaxDens[2]]

\* __borGUGCoordsToID: what is outside the box belongs to a cell on its border.
CellOf(g, p) ==
  [i \in 1 .. D |->
     LET x == p[i] - Corners[1][i]
         f == IF x < 0 THEN 0 ELSE CellsTo(x, g.num)
     IN IF f < g.dim[i] THEN f ELSE g.dim[i] - 1] \o <<>>

\* __borGUGIDToPos.
RECURSIVE IDToPos(_, _)
IDToPos(id, dim) == IF dim = <<>> THEN <<>> ELSE <<id % dim[1]>> \o IDToPos(id \div dim[1], Tail(dim))

RECURSIVE GUGAdd(_, _, _)
\* __borGUGExpand: the elements move one by one, each through borGUGAdd,
\* which may expand the new cells before all have come.
GUGExpand(at, g) ==
  LET newlen == g.len * ExpandRate
      moved == FlattenSeq([k \in 1 .. g.len |-> g.cells[IDToPos(k - 1, g.dim)]])
  IN FoldLeft(LAMBDA acc, e : GUGAdd(at, acc, e), CellsAlloc(IF newlen = g.len THEN 2 * newlen ELSE newlen), moved)

GUGAdd(at, g, e) ==
  LET h == [g EXCEPT !.cells[CellOf(g, at[e])] = Append(@, e), !.num_els = @ + 1]
  IN IF h.num_els >= h.next_expand THEN GUGExpand(at, h) ELSE h

CellHolding(g, e) == CHOOSE q \in DOMAIN g.cells : \E i \in DOMAIN g.cells[q] : g.cells[q][i] = e
GUGRemove(g, e) ==
  [g EXCEPT !.cells[CellHolding(g, e)] = SelectSeq(@, LAMBDA x : x # e), !.num_els = @ - 1]
\* borGUGUpdate: at holds the new point.
GUGUpdate(at, g, e) ==
  IF CellOf(g, at[e]) = CellHolding(g, e) THEN g ELSE GUGAdd(at, GUGRemove(g, e), e)

Span(from, to) == [k \in 1 .. (IF to < from THEN 0 ELSE to - from + 1) |-> from + k - 1]
Clipped(g, i, from, to) == Span(IF from < 0 THEN 0 ELSE from, IF to < g.dim[i] THEN to ELSE g.dim[i] - 1)
Inside(g, i, x) == x >= 0 /\ x < g.dim[i]

\* nearestInRadius2: the cells of the ring, columns first.
Ring2(g, c, radius) ==
  LET rows == Clipped(g, 2, c[2] - radius, c[2] + radius)
      columns == Clipped(g, 1, c[1] - radius + 1, c[1] + radius - 1)
      column(x) == IF Inside(g, 1, x) THEN [k \in DOMAIN rows |-> <<x, rows[k]>>] ELSE <<>>
      row(y) == IF Inside(g, 2, y) THEN [k \in DOMAIN columns |-> <<columns[k], y>>] ELSE <<>>
  IN column(c[1] - radius) \o column(c[1] + radius) \o row(c[2] - radius) \o row(c[2] + radius)

\* nearestInRadius: axis fix is at the ring, the ones before it inside, the others up to it.
RingN(g, c, radius) ==
  LET wall(fix, x) ==
        LET range(i) ==
              CASE i = fix -> <<x>>
                [] i < fix -> Clipped(g, i, c[i] - radius + 1, c[i] + radius - 1)
                [] OTHER -> Clipped(g, i, c[i] - radius, c[i] + radius)
            extend(acc, i) ==
              FlattenSeq([k \in DOMAIN acc |-> [m \in DOMAIN range(i) |-> Append(acc[k], range(i)[m])]])
        IN IF Inside(g, fix, x) THEN FoldLeft(extend, <<<<>>>>, [i \in 1 .. D |-> i]) ELSE <<>>
  IN FlattenSeq([i \in 1 .. D |-> wall(i, c[i] - radius) \o wall(i, c[i] + radius)])

NearestInCells(at, g, cells, p, num, near) ==
  FoldLeft(LAMBDA acc, e : NearestCheck(acc, num, e, Dist2(p, at[e])), near,
           FlattenSeq([k \in DOMAIN cells |-> g.cells[cells[k]]]))

\* dist < (rings * edge)^2; initBorder takes the position in the cell for the
\* cell itself, so that the border begins at zero.
BeforeBorder(g, d2, rings) == d2^D * g.num^2 < rings^(2 * D) * Volume^2

RECURSIVE Rings(_, _, _, _, _, _, _, _)
Rings(at, g, c, p, num, approx, radius, near) ==
  LET ring == IF D = 2 THEN Ring2(g, c, radius) ELSE RingN(g, c, radius)
  IN IF (Len(near.els) = num /\ (approx \/ BeforeBorder(g, near.dist[num], radius - 1))) \/ ring = <<>>
     THEN near
     ELSE Rings(at, g, c, p, num, approx, radius + 1, NearestInCells(at, g, ring, p, num, near))

GUGNearest(at, g, p, num, approx) ==
  IF g.num_els = 0 THEN Nobody
  ELSE LET c == CellOf(g, p)
       IN Rings(at, g, c, p, num, approx, 1, NearestInCells(at, g, <<c>>, p, num, Nobody))

-----------------------------------------------------------------------------
(* List.                                                                   *)

LinearNearest(at, list, p, num) ==
  IF num = 0 THEN Nobody
  ELSE FoldLeft(LAMBDA acc, e : NearestCheck(acc, num, e, Dist2(p, at[e])), Nobody, list)

-----------------------------------------------------------------------------
(* Calls through nn.h, and the ones of the Hamming tree.                   *)

Kinds == {"vptree", "hamming", "gug", "linear"}

Empty(kind) ==
  CASE kind = "gug" -> CellsAlloc(IF NumCells > 0 THEN NumCells ELSE 1)
    [] kind = "linear" -> <<>>
    [] OTHER -> None

Held(s) ==
  CASE s.kind = "gug" -> UNION {ToSet(s.in.cells[q]) : q \in DOMAIN s.in.cells}
    [] s.kind = "linear" -> ToSet(s.in)
    [] OTHER -> ElsOf(s.in)

Init ==
  /\ store \in {[kind |-> kind, at |-> [e \in Els |-> None], in |-> Empty(kind)] : kind \in Kinds}
  /\ result = None

Added(kind, at, in, e) ==
  CASE kind = "gug" -> GUGAdd(at, in, e)
    [] kind = "linear" -> Append(in, e)
    [] OTHER -> VPTreeAdd(kind, at, in, e)

Removed(kind, in, e) ==
  CASE kind = "gug" -> GUGRemove(in, e)
    [] kind = "linear" -> SelectSeq(in, LAMBDA x : x # e)
    [] OTHER -> VPTreeRemove(in, e)

Updated(kind, at, in, e) ==
  CASE kind = "gug" -> GUGUpdate(at, in, e)
    [] kind = "linear" -> in
    [] OTHER -> VPTreeAdd(kind, at, VPTreeRemove(in, e), e)

\* Elements are alike: the next one is the first that is outside.
AddTo(kinds) ==
  /\ result = None /\ store.kind \in kinds
  /\ \E e \in Els, p \in PointsOf(store.kind) :
       /\ store.at[e] = None /\ \A f \in Els : f < e => store.at[f] # None
       /\ LET at == [store.at EXCEPT ![e] = p]
          IN store' = [store EXCEPT !.at = at, !.in = Added(store.kind, at, store.in, e)]
  /\ UNCHANGED result

RemoveFrom(kinds) ==
  /\ result = None /\ store.kind \in kinds
  /\ \E e \in Held(store) :
       store' = [store EXCEPT !.at[e] = None, !.in = Removed(store.kind, store.in, e)]
  /\ UNCHANGED result

\* The caller has moved the point.
UpdateIn(kinds) ==
  /\ result = None /\ store.kind \in kinds
  /\ \E e \in Held(store), p \in PointsOf(store.kind) :
       LET at == [store.at EXCEPT ![e] = p]
       IN store' = [store EXCEPT !.at = at, !.in = Updated(store.kind, at, store.in, e)]
  /\ UNCHANGED result

FrontEnd == {"gug", "vptree", "linear"}
borNNAdd == AddTo(FrontEnd)
borNNRemove == RemoveFrom(FrontEnd)
borNNUpdate == UpdateIn(FrontEnd)
borVPTreeHammingAdd == AddTo({"hamming"})
borVPTreeHammingRemove == RemoveFrom({"hamming"})
borVPTreeHammingUpdate == UpdateIn({"hamming"})

\* The element leaves its cell even if it stays in it.
borGUGUpdateForce ==
  /\ result = None /\ store.kind = "gug"
  /\ \E e \in Held(store), p \in PlanePoints :
       LET at == [store.at EXCEPT ![e] = p]
       IN store' = [store EXCEPT !.at = at, !.in = GUGAdd(at, GUGRemove(@, e), e)]
  /\ UNCHANGED result

Answer(kind, at, in, p, num, approx) ==
  CASE kind = "gug" -> GUGNearest(at, in, p, num, approx)
    [] kind = "linear" -> LinearNearest(at, in, p, num)
    [] OTHER -> VPNearest(kind, at, in, p, num, Nobody)

\* A tree without a root must not be searched.
NearestIn(kinds, approx) ==
  /\ result = None /\ store.in # None /\ store.kind \in kinds
  /\ \E p \in PointsOf(store.kind), num \in Queries :
       result' = [p |-> p, num |-> num, approx |-> approx,
                  near |-> Answer(store.kind, store.at, store.in, p, num, approx)]
  /\ UNCHANGED store
borNNNearest == NearestIn(FrontEnd, FALSE)
borGUGNearestApprox == NearestIn({"gug"}, TRUE)
borVPTreeHammingNearest == NearestIn({"hamming"}, FALSE)
\* The same search without a structure, over a list of the caller's.
borNearestLinear == NearestIn({"linear"}, FALSE)

borVPTreeBuild ==
  /\ result = None /\ store.kind = "vptree" /\ \A e \in Els : store.at[e] = None
  /\ \E at \in [Els -> LinePoints] : \E tree \in Builds("vptree", at, SetToSortSeq(Els, <)) :
       store' = [store EXCEPT !.at = at, !.in = tree]
  /\ UNCHANGED result

Next ==
  \/ borNNAdd \/ borNNRemove \/ borNNUpdate \/ borNNNearest
  \/ borVPTreeHammingAdd \/ borVPTreeHammingRemove \/ borVPTreeHammingUpdate \/ borVPTreeHammingNearest
  \/ borGUGUpdateForce \/ borGUGNearestApprox \/ borVPTreeBuild \/ borNearestLinear
Spec == Init /\ [][Next]_vars

-----------------------------------------------------------------------------

\* A search finds as many as there are, nearest first, and leaves out none
\* that is nearer than the last: whatever the tree or the grid has been
\* through, no side or ring it skipped held a nearer one.  The approximate
\* search of the grid promises only the number and the order.
NearestRight ==
  result # None =>
    LET n == result.near
        d(e) == Dist(store.kind, result.p, store.at[e])
        held == Held(store)
    IN /\ ToSet(n.els) \subseteq held /\ Cardinality(ToSet(n.els)) = Len(n.els)
       /\ Len(n.els) = (IF Cardinality(held) < result.num THEN Cardinality(held) ELSE result.num)
       /\ \A i \in DOMAIN n.els : n.dist[i] = d(n.els[i]) /\ (i > 1 => n.dist[i - 1] <= n.dist[i])
       /\ result.approx \/ \A e \in held \ ToSet(n.els) : n.els # <<>> => d(e) >= n.dist[Len(n.dist)]

\* vptree.h:150 "Adds element to the vp-tree": what was added and not removed is there.
EveryElementKept == Held(store) = {e \in Els : store.at[e] # None}
=============================================================================
