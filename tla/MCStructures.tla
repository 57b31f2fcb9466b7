---------------------------- MODULE MCStructures ----------------------------
(***************************************************************************)
(* The containers, the graphs, the nearest-neighbour structures, the       *)
(* messages and the linear programs for TLC, in one run.  scenario says    *)
(* which of them a behaviour is about; each has a shape of its own for     *)
(* store.                                                                  *)
(***************************************************************************)
EXTENDS Integers, Sequences, FiniteSets

CONSTANTS MaxKey, Elements, MaxKept, NoKey, None, Header, InitialSize, Primes, Names,
          IntBits, RealMax, Lengths, Labels, SegCap, Junk

VARIABLES scenario, store, result

structureVars == <<scenario, store, result>>

\* Trees: each node has its key, and two nodes have the same one.  The keys go
\* to the ends of what the red-black tree of ints can compare.
Nodes == 0..(MaxKey + 1)
MaxInt == 2^(IntBits - 3) - 1
KeyOf(n) == ((2 * MaxInt + 1) * (n % (MaxKey + 1))) \div MaxKey - MaxInt - 1
Items == {<<n, KeyOf(n)>> : n \in Nodes}
Keys == {KeyOf(n) : n \in Nodes}

\* Multimap and hash table: nodes share keys, and one may come with two.
MultiKeys == 0..2
MultiNodes == 0..4
MultiItems == {<<n, n % 3>> : n \in MultiNodes} \cup {<<0, 1>>}
KeyNodes == 101..104
SetValues == 0..2
HashValues == 0..4

Fifos == INSTANCE Fifo WITH fifo <- store, delivered <- result
Lifos == INSTANCE Lifo WITH MaxLen <- MaxKept
Trees == INSTANCE RBTree
Splays == INSTANCE SplayTree WITH Keys <- 0..9, Items <- {<<n, n % 5>> : n \in 0..5}
Multimaps == INSTANCE MultiMapInt WITH Nodes <- MultiNodes, Keys <- MultiKeys, Items <- MultiItems
Hashes == INSTANCE HTable WITH Keys <- MultiKeys, Items <- MultiItems
HashSets == INSTANCE HTable WITH Keys <- HashValues, Items <- {}
Lists == INSTANCE CircularList WITH Heads <- {201, 202}, Listed <- 0..3
Sets == INSTANCE SetArr WITH Values <- SetValues

\* The net has a pair of nodes with two edges, an edge that is tried at two
\* places and a loop; the mesh two triangles with a common edge, and a face more.
NetEnds == {<<11, 1, 2>>, <<12, 2, 3>>, <<12, 2, 1>>, <<13, 3, 3>>}
MeshEnds == {<<11, 1, 2>>, <<12, 2, 3>>, <<13, 3, 1>>, <<14, 2, 4>>, <<15, 4, 3>>}
MeshSides == {<<f>> \o s : f \in 21..23, s \in {<<11, 12, 13>>, <<15, 12, 14>>}}

Nets == INSTANCE Mesh3 WITH
  Nodes <- 1..3, Edges <- 11..13, Ends <- NetEnds, Faces <- {}, Sides <- {}
Meshes == INSTANCE Mesh3 WITH
  Nodes <- 1..4, Edges <- 11..15, Ends <- MeshEnds, Faces <- 21..23, Sides <- MeshSides

ASSUME Nets!NetConstantsOK /\ Meshes!MeshConstantsOK

Digraphs == INSTANCE Digraph WITH MaxNodes <- 3, MaxEdges <- 2

\* All graphs of four nodes, and all of three for the search from one node.
ArcsOf(S) == {a \in S \X S : a[1] # a[2]}
SccRuns == ((SUBSET ArcsOf(0..3)) \X {-1}) \cup ((SUBSET ArcsOf(0..2)) \X {1})
Sccs == INSTANCE Tarjan WITH Size <- 4, Searches <- SccRuns

\* All graphs of four nodes that lack the arcs into the first and out of the last.
DijNodes == 0..3
DijArcs == {<<0, 1>>, <<0, 2>>, <<0, 3>>, <<1, 2>>, <<1, 3>>, <<2, 1>>, <<2, 3>>}
Searches == INSTANCE Dij WITH
  Nodes <- DijNodes, Root <- None, Start <- 0, End <- 3, Null <- None, Arcs <- DijArcs

ASSUME Searches!Heap!RootIsNoNode

\* Elements on a line, as strings of three bits, and in a grid over a plane and
\* over a line, which grows and has points outside of its box.
LinePoints == {<<0>>, <<1>>, <<3>>}
BitPoints == {{}, {1}, {1, 2, 3}}
PlanePoints == {<<2, 0>>, <<3, 1>>, <<4, 1>>, <<13, 9>>}
Queries == {1, 2}
Maxsize == 2
Samplesize == 2
NumCells == 0
MaxDens == <<1, 9>>
ExpandRate == 2
Far == 1000

Near == INSTANCE NearestNeighbours WITH Els <- 1..4, Corners <- << <<0, 0>>, <<12, 12>> >>
NearFew == INSTANCE NearestNeighbours WITH Els <- 1..3, Corners <- << <<0, 0>>, <<12, 12>> >>
NearOnLine == INSTANCE NearestNeighbours WITH
  Els <- 1..3, PlanePoints <- {<<0>>, <<3>>, <<5>>, <<9>>}, Corners <- << <<0>>, <<6>> >>

\* Messages: one of plain fields, one with a submessage and an array of messages.
Field(kind, default, schema) == [kind |-> kind, default |-> default, schema |-> schema]
FlatSchema == <<Field("float", <<0, 0, 0>>, <<>>), Field("int", -1, <<>>), Field("doublearr", 0, <<>>)>>
NestedSchema ==
  <<Field("msg", 0, <<Field("double", <<1, 1, 0>>, <<>>), Field("int", 0, <<>>)>>),
    Field("msgarr", 0, <<Field("int", 0, <<>>)>>)>>
ValuesOf(kind) == IF kind = "int" THEN {-1, 3} ELSE {<<0, 0, 0>>, <<1, 5, -2>>}

Flat == INSTANCE MsgSchema WITH
  Schema <- FlatSchema, Values <- ValuesOf, MaxSize <- 2, ExpBits <- 4, SigBits <- 3
Nested == INSTANCE MsgSchema WITH
  Schema <- NestedSchema, Values <- ValuesOf, MaxSize <- 2, ExpBits <- 4, SigBits <- 3

Grown == INSTANCE Arrays WITH
  Values <- {<<0, 1>>, <<1, 0>>}, MaxSize <- 4, PerSegment <- 2,
  MinChunk <- 1, PointSize <- 2, PageSize <- 8, MemHeader <- 3, Align <- 4

\* Programs of up to three rows and two columns.
Programs == INSTANCE LP WITH MaxRows <- 3, MaxCols <- 2, MaxCalls <- 3

Containers == {"arrays", "lists", "fifo", "lifo", "rbtree", "splaytree", "multimap", "htable", "hashset", "setarr"}
GraphKinds == {"net", "mesh", "digraph", "scc", "dij"}

\* Scenarios whose actions never name a result.
Silent == {"lists", "lifo", "rbtree", "splaytree", "setarr", "digraph", "scc", "dij"}

StructuresInit ==
  /\ scenario \in Containers \cup GraphKinds \cup {"near", "nearfew", "nearline", "flat", "nested", "lp"}
  /\ scenario \in Silent => result = None
  /\ CASE scenario = "fifo" -> Fifos!Init
       [] scenario = "lifo" -> Lifos!Init
       [] scenario = "rbtree" -> Trees!Init
       [] scenario = "splaytree" -> Splays!Init
       [] scenario = "multimap" -> Multimaps!Init
       [] scenario = "htable" -> Hashes!Init
       [] scenario = "hashset" -> HashSets!SetInit
       [] scenario = "setarr" -> Sets!Init
       [] scenario = "arrays" -> Grown!Init
       [] scenario = "lists" -> Lists!Init
       [] scenario = "net" -> Nets!Init
       [] scenario = "mesh" -> Meshes!MeshInit
       [] scenario = "digraph" -> Digraphs!Init
       [] scenario = "scc" -> Sccs!Init
       [] scenario = "dij" -> Searches!Init
       [] scenario = "near" -> Near!Init /\ store.kind \in {"vptree", "hamming"}
       [] scenario = "nearfew" -> NearFew!Init /\ store.kind \in {"gug", "linear"}
       [] scenario = "nearline" -> NearOnLine!Init /\ store.kind = "gug"
       [] scenario = "flat" -> Flat!Init
       [] scenario = "nested" -> Nested!Init
       [] scenario = "lp" -> Programs!Init

FifoPart == scenario = "fifo" /\ Fifos!Next /\ UNCHANGED scenario
LifoPart == scenario = "lifo" /\ Lifos!Next /\ UNCHANGED <<scenario, result>>
TreePart == scenario = "rbtree" /\ Trees!Next /\ UNCHANGED <<scenario, result>>
SplayPart == scenario = "splaytree" /\ Splays!Next /\ UNCHANGED <<scenario, result>>
MultimapPart == scenario = "multimap" /\ Multimaps!Next /\ UNCHANGED scenario
HashPart == scenario = "htable" /\ Hashes!Next /\ UNCHANGED scenario
HashSetPart == scenario = "hashset" /\ HashSets!SetNext /\ UNCHANGED scenario
SetPart == scenario = "setarr" /\ Sets!Next /\ UNCHANGED <<scenario, result>>
ArraysPart == scenario = "arrays" /\ Grown!Next /\ UNCHANGED scenario
ListsPart == scenario = "lists" /\ Lists!Next /\ UNCHANGED <<scenario, result>>
NetPart == scenario = "net" /\ Nets!Next /\ UNCHANGED scenario
MeshPart == scenario = "mesh" /\ Meshes!MeshNext /\ UNCHANGED scenario
DigraphPart == scenario = "digraph" /\ Digraphs!Next /\ UNCHANGED <<scenario, result>>
SccPart == scenario = "scc" /\ Sccs!Next /\ UNCHANGED <<scenario, result>>
DijPart == scenario = "dij" /\ Searches!Next /\ UNCHANGED <<scenario, result>>
NearPart == scenario = "near" /\ Near!Next /\ UNCHANGED scenario
NearFewPart == scenario = "nearfew" /\ NearFew!Next /\ UNCHANGED scenario
NearOnLinePart == scenario = "nearline" /\ NearOnLine!Next /\ UNCHANGED scenario
FlatPart == scenario = "flat" /\ Flat!Next /\ UNCHANGED scenario
NestedPart == scenario = "nested" /\ Nested!Next /\ UNCHANGED scenario
ProgramPart == scenario = "lp" /\ Programs!Next /\ UNCHANGED scenario

StructuresNext ==
  \/ FifoPart \/ LifoPart \/ TreePart \/ SplayPart
  \/ MultimapPart \/ HashPart \/ HashSetPart \/ SetPart \/ ArraysPart \/ ListsPart
  \/ NetPart \/ MeshPart \/ DigraphPart \/ SccPart \/ DijPart
  \/ NearPart \/ NearFewPart \/ NearOnLinePart \/ FlatPart \/ NestedPart \/ ProgramPart

\* A search and a deletion are loops of one thread, which goes on with them.
Fairness ==
  /\ WF_structureVars(scenario = "net" /\ Nets!Close /\ UNCHANGED scenario)
  /\ WF_structureVars(scenario = "mesh" /\ Meshes!CloseMesh /\ UNCHANGED scenario)
  /\ WF_structureVars(SccPart) /\ WF_structureVars(DijPart)

StructuresSpec == StructuresInit /\ [][StructuresNext]_structureVars /\ Fairness

\* A structure is what its next call takes it for: offsets and tops inside
\* their segments, search trees (the red-black ones balanced, with links up and
\* down that agree), key-nodes in the tree just as long as they head a list,
\* elements counted and in the bucket of their key, arrays sorted, with room
\* for what is in them and no element that was never written; nodes, edges
\* and faces agree on who touches whom, counters and lists included; in Tarjan's
\* search marks, lowlinks and stack fit the visited part of the graph; in
\* Dijkstra's search the heap has the open nodes under their distances; CPLEX
\* is asked for integers when there are some.
StoreWellFormed ==
  CASE scenario = "fifo" -> Fifos!WellFormed(store)
    [] scenario = "lifo" -> Lifos!WellFormed(store)
    [] scenario = "rbtree" -> Trees!WellFormed(store)
    [] scenario = "splaytree" -> Splays!WellFormed(store)
    [] scenario = "multimap" -> Multimaps!WellFormed(store)
    [] scenario = "htable" -> Hashes!WellFormed(store)
    [] scenario = "hashset" -> HashSets!WellFormedSet(store)
    [] scenario = "setarr" -> Sets!WellFormed(store)
    [] scenario = "arrays" -> Grown!WellFormed(store)
    [] scenario = "lists" -> Lists!WellFormed(store)
    [] scenario = "net" -> Nets!WellFormedNet(store)
    [] scenario = "mesh" -> Meshes!WellFormedMesh(store)
    [] scenario = "digraph" -> Digraphs!WellFormed(store)
    [] scenario = "scc" -> Sccs!WellFormed(store)
    [] scenario = "dij" -> Searches!WellFormedSearch(store)
    [] scenario = "lp" -> Programs!WellFormed(store)
    [] OTHER -> TRUE

\* The calls that look find what is there: find, nearest, next, previous, least
\* and greatest of the trees, after the splay that a search makes, the subset
\* and intersection walks over two and three sorted arrays, the iterator over the
\* chunks of a point cloud, forth and back, common edges and
\* the vertices of faces; induced graphs and depth-first search, the strongly
\* connected components with the edges between them, and shortest paths are
\* what they are by definition.
LooksRight ==
  CASE scenario = "rbtree" -> Trees!QueriesAnswer(store)
    [] scenario = "splaytree" -> Splays!QueriesAnswer(store)
    [] scenario = "setarr" -> Sets!QueriesAnswer(store)
    [] scenario = "arrays" -> Grown!WalksRight(store)
    [] scenario = "net" -> Nets!FindsCommonEdges(store)
    [] scenario = "mesh" -> Meshes!FindsCommonEdges(store) /\ Meshes!FindsVertices(store)
    [] scenario = "digraph" -> Digraphs!AnswersRight(store)
    [] scenario = "scc" -> Sccs!AnswersRight(store)
    [] scenario = "dij" -> Searches!AnswersRight(store)
    [] scenario = "lp" -> Programs!AnswersRight(store)
    [] OTHER -> TRUE

\* What the structures promise, and what a store stands for.
NodesOf(k) ==
  CASE scenario = "multimap" -> Multimaps!Under(store, k)
    [] scenario = "htable" -> Hashes!Under(store, k)

Standing ==
  CASE scenario = "lifo" -> Lifos!Contents(store)
    [] scenario \in {"multimap", "htable"} -> [k \in MultiKeys |-> NodesOf(k)]
    [] scenario = "hashset" -> store.el
    [] scenario = "lists" -> [h \in {201, 202} |-> Lists!Items(store, h)]
    [] scenario = "setarr" -> [a \in Names |-> {store[a][i] : i \in DOMAIN store[a]}]
    [] scenario = "net" -> Nets!NetContents(store)
    [] scenario = "mesh" -> Meshes!MeshContents(store)
    [] scenario = "scc" -> store.comps
    [] scenario = "dij" -> [n \in {n \in DijNodes : store.state[n] = "closed"} |-> store.dist[n]]

Line == INSTANCE Queue WITH Capacity <- MaxKept, inside <- Fifos!Contents(store), delivered <- result
Ordered == INSTANCE KeyedNodes WITH keyOf <- store.key, Keys <- Keys \cup 0..9
Abstract == INSTANCE Collections WITH
  Nodes <- MultiNodes, Keys <- MultiKeys, inside <- Standing,
  Elements <- Elements \cup 0..3,    \* of the LIFO and of the lists
  Values <- HashValues    \* which include SetValues

Promised ==
  CASE scenario = "fifo" -> Line!ClearingNext
    [] scenario = "lifo" -> Abstract!StackNext
    [] scenario \in {"rbtree", "splaytree"} -> Ordered!MapNext
    [] scenario \in {"multimap", "htable"} -> Abstract!MultiMapNext
    [] scenario = "hashset" -> Abstract!InternerNext
    [] scenario = "setarr" -> Abstract!SetsNext
    [] scenario = "arrays" -> Grown!Promised
    [] scenario = "lists" -> Abstract!ListsNext
    [] scenario \in {"net", "mesh"} -> Abstract!ComplexNext
    [] scenario = "scc" -> Abstract!ComponentsNext(0..3, store.arcs)
    [] scenario = "dij" -> Abstract!PathsNext([n \in DijNodes |-> Searches!Distance(store.graph, n)], RealMax)
    [] scenario = "lp" -> Programs!Promised
    [] OTHER -> TRUE

View ==
  CASE scenario \in {"rbtree", "splaytree"} -> store.key
    [] scenario \in {"scc", "dij"} -> Standing
    [] scenario \in {"multimap", "htable", "hashset", "net", "mesh"} -> <<Standing, result>>
    [] scenario \in {"fifo", "lifo", "setarr", "lists", "arrays", "lp"} -> <<store, result>>
    [] OTHER -> scenario

\* Every call does to the contents what its structure promises and answers
\* accordingly, whatever was called before.  Nothing leaves a net or a mesh that
\* something else rests on, and no call is refused without that reason;
\* components come complete and after those they lead to; nodes are closed in
\* the order of their true distance; a linear program is what the calls made it,
\* whichever solver keeps it.
ImplementsPromise == [][Promised]_View

Looping ==
  CASE scenario \in {"net", "mesh"} -> store.closing \notin {"open", "freed"}
    [] scenario = "scc" -> ~Sccs!Done(store)
    [] scenario = "dij" -> store.outcome = "running"
    [] OTHER -> FALSE

\* Searches come to an end, and so does the deletion of a net or a mesh, which
\* ignores that the removal of an element may be refused.
LoopsEnd == Looping ~> ~Looping

\* A search returns the nearest of the elements that are kept, nearest first,
\* however the tree was split and merged and the grid grew before.
NearestRight ==
  /\ scenario = "near" => Near!NearestRight
  /\ scenario = "nearfew" => NearFew!NearestRight
  /\ scenario = "nearline" => NearOnLine!NearestRight

\* A message that is encoded and decoded has the fields it had.
RoundTrip ==
  /\ scenario = "flat" => Flat!RoundTrip
  /\ scenario = "nested" => Nested!RoundTrip

-----------------------------------------------------------------------------
\* The vp-tree alone.
TreeSpec ==
  /\ scenario = "near" /\ Near!Init /\ store.kind = "vptree"
  /\ [][NearPart]_structureVars

\* boruvka/vptree.h says of borVPTreeAdd that it "adds element to the vp-tree":
\* what was added and not removed is in a leaf.
EveryElementKept == Near!EveryElementKept
=============================================================================
