---------------------------- MODULE MCAlgorithms ----------------------------
(***************************************************************************)
(* The heaps, and the algorithms over values, for TLC in one run.          *)
(* scenario says which of them a behaviour is about; each has a shape of   *)
(* its own for store.  The algorithms answer one call for every input.     *)
(***************************************************************************)
EXTENDS Integers, SequencesExt

CONSTANTS Nodes, Root, NoKey, OrEqual, Keys, None, BucketSize, UIntBits, IntMax

VARIABLES scenario, store, result

algorithmVars == <<scenario, store, result>>

-----------------------------------------------------------------------------
(* Five implementations of one promise; only that of _adaq.c takes         *)
(* negative keys.                                                          *)

AnyKeys == Keys \cup {-1}

Pairing == INSTANCE PairHeap WITH heap <- store
Fib == INSTANCE Fibo WITH heap <- store
Ada == INSTANCE AdaptiveQueues WITH heap <- store, OrEqual <- TRUE, Keys <- AnyKeys
Adaptive == INSTANCE AdaptiveQueues WITH heap <- store, OrEqual <- TRUE

ASSUME Pairing!RootIsNoNode /\ Ada!BucketSizeOK

-----------------------------------------------------------------------------
(* All arrays of up to five elements and three keys and of up to eight and *)
(* two, and longer ones that rise and fall in runs of several lengths.     *)

Elements(keys) == [i \in DOMAIN keys |-> <<keys[i], i, IF keys[i] < 0 THEN 1 ELSE 0>>]
Arrays ==
  {Elements(keys) : keys \in UNION {[1 .. n -> -1 .. 1] : n \in 0 .. 5}
                             \cup UNION {[1 .. n -> 0 .. 1] : n \in 7 .. 8}
                             \cup {[i \in 1 .. n |-> (i * m) % q] : n \in {10, 13, 17}, m \in 1 .. 10, q \in {3, 5, 7, 11}}}

Sorts == INSTANCE Sorting WITH
  Inputs <- Arrays, Digits <- 5, Base <- 2, From <- -1, To <- 1, QSmall <- 4, QLarge <- 8,
  MThreshold <- 4, MWins <- 2, MinMerge <- 4, MinGallop <- 2, TmpLength <- 2

-----------------------------------------------------------------------------
(* Points, segments, triangles, polygons and boxes on a small grid.        *)

Grid(n) == {<<x, y>> : x, y \in 0 .. n}
Lattice(n) == {<<x, y, z>> : x, y, z \in 0 .. n}
Triangles == {<< <<0, 0, 0>>, <<2, 0, 0>>, <<0, 2, 0>> >>, << <<0, 0, 0>>, <<2, 1, 0>>, <<1, 1, 2>> >>}
Corners5 == {<<0, 0>>, <<1, 0>>, <<2, 1>>, <<1, 2>>, <<0, 2>>}

Plane == INSTANCE Geometry WITH Figures <- {}
Boxes ==
  {q \in {<<a, b, c, Plane!Sub(Plane!Add(a, c), b)>> : a, b, c \in Grid(2)} : Plane!Box(q)}

SpaceFigures ==
  {<<p, a, b>> : p \in Lattice(2), a \in {<<0, 0, 0>>, <<1, 1, 0>>}, b \in Lattice(2)}
  \cup {<<p>> \o t : p \in Lattice(2), t \in {<<a, b, c>> : a \in {<<0, 0, 0>>, <<1, 0, 1>>}, b \in Lattice(2), c \in Lattice(1)}}
  \cup {t \o <<a, b, c>> : t \in Triangles, a \in Lattice(2), b \in Lattice(1), c \in {<<0, 1, 2>>, <<1, 1, 0>>, <<2, 0, 1>>}}
PlaneFigures ==
  {<<a, b, c>> : a, b, c \in Grid(2)}
  \cup {<<a, b, c, d>> : a, b, c, d \in Grid(2)}
  \cup {<<a, b, c, d, e, f>> : a, b, c \in Corners5, d \in Grid(2), e \in Corners5, f \in {<<0, 1>>, <<1, 1>>, <<2, 2>>}}
  \cup {<<a, b, c, d, e>> : a, b \in Grid(1), c, d \in Grid(2), e \in Corners5 \cup {<<1, 1>>}}
  \cup {<<a, b, c, d, x, y>> : a \in {<<0, 0>>, <<0, 1>>}, b \in {<<2, 0>>, <<3, 1>>}, c \in {<<3, 3>>}, d \in {<<1, 3>>, <<0, 2>>},
                               x \in {<<i, j>> : i, j \in {-1, 1, 2, 4}}, y \in {<<i, j>> : i, j \in {-1, 0, 2, 3}}}
  \cup {s \o t : s, t \in Boxes}

Shapes == INSTANCE Geometry WITH Figures <- SpaceFigures \cup PlaneFigures
Segments == INSTANCE Geometry WITH
  Figures <- {<<a, b, c, d>> : a, c, d \in Lattice(1), b \in Lattice(2)}

-----------------------------------------------------------------------------
(* Matrices, some of them singular, quaternions, angles, axes of a whole   *)
(* length or none, and sequences of up to three moves.                     *)

Matrices3 == {<<<<x, y, 0>>, <<1, z, w>>, <<-1, 2, x>>>> : x, y, z, w \in {-1, 0, 2}}
Matrices4 == {<<<<x, y, 0, 1>>, <<1, z, w, 0>>, <<-1, 2, x, y>>, <<0, w, 1, 3>>>> : x, y, z, w \in {-1, 0, 1}}
Right == <<0, 1, 1>>   \* a quarter of a turn
Sharp == <<3, 4, 5>>
Transforms ==
  {[kind |-> "matrices", a |-> a, b |-> b] : a \in Matrices3, b \in {<<<<1, 2, 0>>, <<0, -1, 3>>, <<2, 0, 1>>>>}}
  \cup {[kind |-> "matrices", a |-> a, b |-> b] : a \in Matrices4, b \in {<<<<1, 2, 0, 1>>, <<0, -1, 3, 0>>, <<2, 0, 1, 1>>, <<1, 1, 0, -2>>>>}}
  \cup {[kind |-> "quaternions", p |-> p, q |-> q, v |-> <<1, -2, 3>>] : p \in [1 .. 4 -> -1 .. 2], q \in {<<1, 2, 0, -1>>, <<0, 1, 3, 2>>}}
  \cup {[kind |-> "turns", x |-> x, y |-> y, z |-> z, axis |-> n[1], len |-> n[2], v |-> <<1, -2, 3>>] :
          x, y, z \in {Right, Sharp}, n \in {<<<<0, 0, 0>>, 0>>, <<<<0, 0, 1>>, 1>>, <<<<1, 2, 2>>, 3>>, <<<<3, 0, 4>>, 5>>}}
  \cup {[kind |-> "motion", m |-> Plane!Unit(3), made |-> <<>>, bound |-> 3,
           moves |-> {<<"scale", 2>>, <<"translate", <<1, -3>>>>, <<"rot", Right>>, <<"rot", Sharp>>}],
         [kind |-> "motion", m |-> Plane!Unit(4), made |-> <<>>, bound |-> 3,
           moves |-> {<<"scale", 2>>, <<"translate", <<1, -3, 2>>>>, <<"axis", Right, <<1, 2, 2>>, 3>>,
                      <<"axis", Sharp, <<0, 0, 1>>, 1>>, <<"axis", Right, <<2, 1, 2>>, 3>>}]}

Motions == INSTANCE Geometry WITH Figures <- Transforms

-----------------------------------------------------------------------------
(* Four bits of significand: 17 has to be rounded, and differences of 1    *)
(* and 18 lose what decides between nearly dependent points.               *)

Wide == {0, 1, 2, 16, 18, 20}
Ends2 == {<<x, y>> : x, y \in {1, 18}}
Ends3 == {<<x, y, z>> : x, y, z \in {1, 18}}
NearFigures ==
  {<<a, b, c>> : a, b, c \in {<<x, y>> : x, y \in {0, 1, 15, 18}}}
  \cup {<<a, b, c, d>> : a, b, c \in Ends2, d \in {<<x, y>> : x \in {0, 1, 2}, y \in Wide}}
  \cup {<<a, b, c, d>> : a \in {<<1, 1, 18>>}, b, c \in Ends3, d \in {<<1, y, z>> : y \in {0, 1, 2}, z \in Wide}}
  \cup {<<a, b, c, d, e>> : a \in {<<1, 1, 18>>}, b \in {<<18, 18, 18>>}, c, d \in Ends3, e \in {<<1, 18, z>> : z \in {0, 2, 16, 20}}}

\* Rounding to nearest, and to even in the middle, as the processor does.
SignificandBits == 4
Unit(m) == 2^(CHOOSE k \in 1 .. 30 : m \div 2^k \in 2^(SignificandBits - 1) .. 2^SignificandBits - 1)
Nearest(n, u) ==
  LET up == 2 * (n % u) > u \/ (2 * (n % u) = u /\ (n \div u) % 2 = 1)
  IN (IF up THEN n \div u + 1 ELSE n \div u) * u
Rounded(n) ==
  IF n \in -(2^SignificandBits) .. 2^SignificandBits THEN n
  ELSE Nearest(n, Unit(IF n < 0 THEN -n ELSE n))

Signs == INSTANCE Predicates WITH Figures <- NearFigures, Bits <- SignificandBits, Fl <- Rounded

-----------------------------------------------------------------------------
(* A tetrahedron with a point inside and one beyond; a square with a point *)
(* above its centre; corners of a cube and its centre; a triangle with     *)
(* points on two of its sides.                                             *)

Square == {<<0, 0, 0>>, <<2, 0, 0>>, <<0, 2, 0>>, <<2, 2, 0>>}
Clouds ==
  {{<<0, 0, 0>>, <<1, 0, 0>>, <<0, 1, 0>>, <<0, 0, 1>>, <<2, 3, 5>>, <<1, 1, 1>>},
   Square \cup {<<1, 1, 2>>}, (Square \ {<<0, 0, 0>>}) \cup {<<0, 2, 2>>, <<1, 1, 1>>},
   {<<0, 0, 0>>, <<1, 0, 0>>, <<2, 0, 0>>, <<0, 2, 0>>, <<0, 1, 0>>}}

Hulls == INSTANCE CHull3 WITH Clouds <- Clouds, Nodes <- 1 .. 9, Edges <- 1 .. 36, Faces <- 1 .. 24

\* A square and a point inside it.
Patches == INSTANCE CHull3 WITH
  Clouds <- {{<<0, 0, 0>>, <<4, 0, 0>>, <<4, 4, 0>>, <<0, 4, 0>>, <<2, 1, 0>>}},
  Nodes <- 1 .. 9, Edges <- 1 .. 36, Faces <- 1 .. 24

-----------------------------------------------------------------------------
Heaps == {"pairheap", "fibo", "bucketheap", "adaq", "apq"}

AlgorithmsInit ==
  /\ scenario \in Heaps \cup {"sort", "shape", "transform", "sign", "hull"}
  /\ CASE scenario = "pairheap" -> Pairing!Init
       [] scenario = "fibo" -> Fib!Init
       [] scenario = "bucketheap" -> Adaptive!BucketHeapInit
       [] scenario = "adaq" -> Ada!AdaQInit
       [] scenario = "apq" -> Adaptive!ApqInit
       [] scenario = "sort" -> Sorts!Init
       [] scenario = "shape" -> Shapes!Init
       [] scenario = "transform" -> Motions!Init
       [] scenario = "sign" -> Signs!Init
       [] scenario = "hull" -> Hulls!Init

PairHeapPart == scenario = "pairheap" /\ Pairing!Next /\ UNCHANGED scenario
FiboPart == scenario = "fibo" /\ Fib!Next /\ UNCHANGED scenario
BucketHeapPart == scenario = "bucketheap" /\ Adaptive!BucketHeapNext /\ UNCHANGED scenario
AdaQPart == scenario = "adaq" /\ Ada!AdaQNext /\ UNCHANGED scenario
ApqPart == scenario = "apq" /\ Adaptive!ApqNext /\ UNCHANGED scenario
SortPart == scenario = "sort" /\ Sorts!Next /\ UNCHANGED scenario
ShapePart == scenario = "shape" /\ Shapes!Next /\ UNCHANGED scenario
TransformPart == scenario = "transform" /\ Motions!TransformNext /\ UNCHANGED scenario
SignPart == scenario = "sign" /\ Signs!Next /\ UNCHANGED scenario
HullPart == scenario = "hull" /\ Hulls!Next /\ UNCHANGED scenario

AlgorithmsNext ==
  \/ PairHeapPart \/ FiboPart \/ BucketHeapPart \/ AdaQPart \/ ApqPart
  \/ SortPart \/ ShapePart \/ TransformPart \/ SignPart \/ HullPart

AlgorithmsSpec == AlgorithmsInit /\ [][AlgorithmsNext]_algorithmVars

\* A heap is what its next call takes it for: trees in which no child
\* undercuts its parent and every queued node hangs once, min at a least node,
\* lowest_key not above a key in use, elements at the place they remember.
HeapsWellFormed ==
  CASE scenario = "pairheap" -> Pairing!WellFormed(store)
    [] scenario = "fibo" -> Fib!WellFormed(store)
    [] scenario = "bucketheap" -> Adaptive!WellFormedBucketHeap(store)
    [] scenario = "adaq" -> Ada!WellFormedAdaQ(store)
    [] scenario = "apq" -> Adaptive!WellFormedApq(store)
    [] OTHER -> TRUE

KeyOf(n) ==
  CASE scenario = "bucketheap" -> Adaptive!BucketHeapKeyOf(store, n)
    [] scenario = "adaq" -> Ada!KeyOf(store, n)
    [] scenario \in {"pairheap", "fibo", "apq"} -> store.key[n]
    [] OTHER -> NoKey

\* All heaps are priority queues: min and extract answer with a node of the
\* least key, whatever was added, changed and removed before, and across the
\* switch of the adaptive queues from buckets to a heap (KeysHaveBuckets is
\* about what their headers say of that switch).  A Fibonacci heap that has
\* left its cons array promises nothing: it takes no further step.
Promise == INSTANCE KeyedNodes WITH
  keyOf <- [n \in Nodes |-> KeyOf(n)], Keys <- AnyKeys,
  result <- IF scenario \in Heaps THEN result ELSE None
ImplementsPriorityQueue == Promise!Spec

\* Every sort leaves its array in order with all its elements, and those of
\* equal keys as they were where the algorithm is a stable one.
SortsRight == scenario = "sort" => Sorts!SortsRight

\* Closest points are on their figures and no other point is closer, feet of
\* perpendiculars are in their planes; triangles, segments and boxes are said
\* to meet just when they do; and the circle, the cone and the polygon hold the
\* points that they should.
ShapesRight ==
  scenario = "shape" => Shapes!NearestPoints /\ Shapes!MeetingsFound /\ Shapes!InsideIsInside

\* Matrix functions write what they say, also over a factor where that is
\* allowed, and the product by components over its second factor the squares of
\* the first; quaternions turn vectors as rotations do; and a transformation that
\* was composed of moves takes points where these, one after the other, do.
TransformsRight == scenario = "transform" => Motions!TransformsRight

\* The robust predicates answer with the sign of the true determinant.
SignsRight == scenario = "sign" => Signs!SignsRight

\* After every borCHull3Add the mesh is the convex hull of all points so far.
HullRight == scenario = "hull" => Hulls!HullRight

Symmetry == Permutations(Nodes)

-----------------------------------------------------------------------------
\* The distance of two segments alone.
SegmentPart == scenario = "segments" /\ Segments!TwoSegmentsCall /\ UNCHANGED scenario
SegmentSpec == scenario = "segments" /\ Segments!Init /\ [][SegmentPart]_algorithmVars

\* boruvka/vec3.h says of borVec3SegmentSegmentDist2 that it "returns distance^2
\* of two segments ab and cd" and that the witnesses are the closest points.
SegmentsNearest == Segments!SegmentsNearest

-----------------------------------------------------------------------------
\* A hull that is a patch in a plane.
PatchPart == scenario = "patch" /\ Patches!Next /\ UNCHANGED scenario
PatchSpec == scenario = "patch" /\ Patches!Init /\ [][PatchPart]_algorithmVars

\* boruvka/chull3.h calls the mesh "Mesh representing convex hull", whatever
\* borCHull3Add was called with.
MeshIsHull == Patches!HullRight
=============================================================================
