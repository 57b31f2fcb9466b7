------------------------------- MODULE Mesh3 -------------------------------
(***************************************************************************)
(* The network of net.c and the mesh of mesh3.c.  A network has nodes and  *)
(* edges that know each other; a mesh, whose code repeats that of net.c    *)
(* for its vertices and edges, has also faces of three edges each and at   *)
(* most two faces on an edge.                                              *)
(*                                                                         *)
(* An edge hangs in the list of each of its ends by a link of its own,     *)
(* <<e, 1>> and <<e, 2>>; a list is the set of its links, for the order in *)
(* which they were appended tells nothing but which of two parallel edges  *)
(* borNetNodeCommonEdge meets first.                                       *)
(***************************************************************************)
EXTENDS Integers, FiniteSets

CONSTANTS
  Nodes, Edges, Faces, None,
  Ends,    \* the calls of borNetAddEdge that are tried: <<e, start, end>>
  Sides    \* the calls of borMesh3AddFace that are tried: <<f, e1, e2, e3>>

VARIABLES store, result    \* result: the element that was the last call's, and the answer

vars == <<store, result>>

NetConstantsOK ==
  /\ IsFiniteSet(Nodes) /\ IsFiniteSet(Edges) /\ None \notin Nodes \cup Edges
  /\ Ends \subseteq Edges \X Nodes \X Nodes

MeshConstantsOK ==
  /\ NetConstantsOK
  /\ IsFiniteSet(Faces) /\ None \notin Faces
  /\ Sides \subseteq Faces \X Edges \X Edges \X Edges


EmptyNet ==
  [nodes |-> {}, nodesLen |-> 0, edges |-> {}, edgesLen |-> 0,
   at |-> [v \in Nodes |-> {}], atLen |-> [v \in Nodes |-> 0],
   n |-> [e \in Edges |-> <<None, None>>], closing |-> "open"]

AddNode(g, v) ==
  [g EXCEPT !.nodes = @ \cup {v}, !.nodesLen = @ + 1, !.at[v] = {}, !.atLen[v] = 0]

TakeNode(g, v) == [g EXCEPT !.nodes = @ \ {v}, !.nodesLen = @ - 1]

AddEdge(g, e, v, w) ==
  LET h == [g EXCEPT !.n[e] = <<v, w>>, !.at[v] = @ \cup {<<e, 1>>}, !.atLen[v] = @ + 1]
  IN [h EXCEPT !.at[w] = @ \cup {<<e, 2>>}, !.atLen[w] = @ + 1,
               !.edges = @ \cup {e}, !.edgesLen = @ + 1]

\* A bug the checks must find: the counter of one end only is lowered.
RemoveEdgeOneEnd(g, e) ==
  [g EXCEPT !.at = [v \in Nodes |-> @[v] \ {<<e, 1>>, <<e, 2>>}],
            !.atLen[g.n[e][1]] = @ - 1,
            !.edges = @ \ {e}, !.edgesLen = @ - 1]

\* The links leave the lists they are in, the counters are those of the ends.
RemoveEdge(g, e) ==
  LET h == [g EXCEPT !.at = [v \in Nodes |-> @[v] \ {<<e, 1>>, <<e, 2>>}],
                     !.atLen[g.n[e][1]] = @ - 1]
  IN [h EXCEPT !.atLen[g.n[e][2]] = @ - 1,
               !.edges = @ \ {e}, !.edgesLen = @ - 1]

\* borNetNodeCommonEdge walks along the shorter list: the edges it may return.
CommonEdges(g, v, w) ==
  LET from == IF g.atLen[w] < g.atLen[v] THEN w ELSE v
      other == IF from = v THEN w ELSE v
  IN {l[1] : l \in {l \in g.at[from] : other \in {g.n[l[1]][1], g.n[l[1]][2]}}}

-----------------------------------------------------------------------------

Init == store = EmptyNet /\ result = <<None, None>>

AddNodeCall(v) ==
  /\ store.closing = "open" /\ v \notin store.nodes
  /\ store' = AddNode(store, v)
  /\ result' = <<v, 0>>

\* A node that still has edges is refused.
RemoveNodeCall(v) ==
  /\ store.closing = "open" /\ v \in store.nodes
  /\ IF store.at[v] # {}
     THEN UNCHANGED store /\ result' = <<v, -1>>
     ELSE store' = TakeNode(store, v) /\ result' = <<v, 0>>

AddEdgeCall(e, v, w) ==
  /\ store.closing = "open"
  /\ e \notin store.edges /\ {v, w} \subseteq store.nodes
  /\ store' = AddEdge(store, e, v, w)
  /\ result' = <<e, 0>>

RemoveEdgeCall(e) ==
  /\ store.closing = "open" /\ e \in store.edges
  /\ store' = RemoveEdge(store, e)
  /\ result' = <<e, 0>>

\* borNetDel2 takes all edges, then all nodes.
DelCall ==
  /\ store.closing = "open"
  /\ store' = [store EXCEPT !.closing = "edges"]
  /\ result' = <<None, None>>

CloseEdge(e) ==
  /\ store.closing = "edges" /\ e \in store.edges
  /\ store' = RemoveEdge(store, e)
  /\ UNCHANGED result

EdgesClosed ==
  /\ store.closing = "edges" /\ store.edges = {}
  /\ store' = [store EXCEPT !.closing = "nodes"]
  /\ UNCHANGED result

\* The result of borNetRemoveNode is ignored: a node that is refused is tried again.
CloseNode(v) ==
  /\ store.closing = "nodes" /\ v \in store.nodes
  /\ store.at[v] = {}
  /\ store' = TakeNode(store, v)
  /\ UNCHANGED result

NodesClosed ==
  /\ store.closing = "nodes" /\ store.nodes = {}
  /\ store' = [store EXCEPT !.closing = "freed"]
  /\ UNCHANGED result

Close == EdgesClosed \/ NodesClosed \/ (\E e \in Edges : CloseEdge(e)) \/ (\E v \in Nodes : CloseNode(v))

Next ==
  \/ \E v \in Nodes : AddNodeCall(v) \/ RemoveNodeCall(v)
  \/ \E x \in Ends : AddEdgeCall(x[1], x[2], x[3])
  \/ \E e \in Edges : RemoveEdgeCall(e)
  \/ DelCall \/ Close

NetSpec == Init /\ [][Next]_vars

EndsOf(g, e) == {g.n[e][1], g.n[e][2]}

\* Nodes and edges agree on who touches whom, each link is in one list, and the
\* counters say how long the lists are.
WellFormedNet(g) ==
  /\ g.nodesLen = Cardinality(g.nodes) /\ g.edgesLen = Cardinality(g.edges)
  /\ \A v \in g.nodes :
       /\ {l[1] : l \in g.at[v]} = {e \in g.edges : v \in EndsOf(g, e)}
       /\ g.atLen[v] = Cardinality(g.at[v])
  /\ \A e \in g.edges, k \in 1..2 : Cardinality({v \in g.nodes : <<e, k>> \in g.at[v]}) = 1
  /\ g.closing = "freed" => g.nodes = {} /\ g.edges = {}

\* The walk over the shorter list finds the edges between two nodes.
FindsCommonEdges(g) ==
  \A v, w \in g.nodes :
    v # w => CommonEdges(g, v, w) = {e \in g.edges : EndsOf(g, e) = {v, w}}

\* What a network stands for: nodes, and edges between nodes.
Joined(g) == [e \in g.edges |-> EndsOf(g, e)]
NetContents(g) == [nodes |-> g.nodes, ends |-> Joined(g), sides |-> <<>>]

-----------------------------------------------------------------------------
(* The mesh.                                                               *)

EmptyMesh ==
  [nodes |-> {}, nodesLen |-> 0, edges |-> {}, edgesLen |-> 0,
   at |-> [v \in Nodes |-> {}], atLen |-> [v \in Nodes |-> 0],
   n |-> [e \in Edges |-> <<None, None>>], closing |-> "open",
   faces |-> {}, facesLen |-> 0,
   f |-> [e \in Edges |-> <<None, None>>],
   e |-> [x \in Faces |-> <<None, None, None>>]]

FacesLen(m, e) == Cardinality({k \in 1..2 : m.f[e][k] # None})

AddMeshEdge(m, e, v, w) == [AddEdge(m, e, v, w) EXCEPT !.f[e] = <<None, None>>]

\* On success the edge forgets its ends.
RemoveMeshEdge(m, e) == [RemoveEdge(m, e) EXCEPT !.n[e] = <<None, None>>]

\* The face takes the first free place of the edge.
Attach(m, e, x) ==
  IF m.f[e][1] = None THEN [m EXCEPT !.f[e][1] = x] ELSE [m EXCEPT !.f[e][2] = x]

AddFace(m, x, es) ==
  LET h == Attach(Attach(Attach(m, es[1], x), es[2], x), es[3], x)
  IN [h EXCEPT !.e[x] = es, !.faces = @ \cup {x}, !.facesLen = @ + 1]

\* A bug the checks must find: the second face does not move up.
DetachFirst(m, e, x) ==
  [m EXCEPT !.f[e] = IF @[1] = x THEN <<None, None>> ELSE <<@[1], None>>]

\* The other face moves to the first place.
Detach(m, e, x) ==
  [m EXCEPT !.f[e] = IF @[1] = x THEN <<@[2], None>> ELSE <<@[1], None>>]

RemoveFace(m, x) ==
  LET es == m.e[x]
      h == Detach(Detach(Detach(m, es[1], x), es[2], x), es[3], x)
  IN [h EXCEPT !.e[x] = <<None, None, None>>, !.faces = @ \ {x}, !.facesLen = @ - 1]

\* borMesh3FaceVertices: the ends of the first edge and the other end of the second.
FaceVertices(m, x) ==
  LET a == m.n[m.e[x][1]]
      b == m.n[m.e[x][2]]
  IN <<a[1], a[2], IF b[1] \in {a[1], a[2]} THEN b[2] ELSE b[1]>>

-----------------------------------------------------------------------------

MeshInit == store = EmptyMesh /\ result = <<None, None>>

AddMeshEdgeCall(e, v, w) ==
  /\ store.closing = "open"
  /\ e \notin store.edges /\ {v, w} \subseteq store.nodes
  /\ store' = AddMeshEdge(store, e, v, w)
  /\ result' = <<e, 0>>

\* An edge that still has a face is refused.
RemoveMeshEdgeCall(e) ==
  /\ store.closing = "open" /\ e \in store.edges
  /\ IF store.f[e] # <<None, None>>
     THEN UNCHANGED store /\ result' = <<e, -1>>
     ELSE store' = RemoveMeshEdge(store, e) /\ result' = <<e, 0>>

\* borMesh3EdgeSwapVertices: the links stay where they are.
SwapCall(e) ==
  /\ store.closing = "open" /\ e \in store.edges
  /\ store' = [store EXCEPT !.n[e] = <<@[2], @[1]>>]
  /\ result' = <<None, None>>

\* The edges of a face, in any order, join three nodes.
Triangle(m, es) ==
  \E a, b, c \in m.nodes :
    /\ a # b /\ b # c /\ c # a
    /\ EndsOf(m, es[1]) = {a, b} /\ EndsOf(m, es[2]) = {b, c} /\ EndsOf(m, es[3]) = {c, a}

\* The code looks for the common vertex where both edges begin, where both end,
\* and where the first ends and the second begins.
EdgeTriCheckCommon(m, d, e) ==
  LET a == m.n[d]
      b == m.n[e]
  IN \/ a[1] = b[1] /\ a[2] # b[2]
     \/ a[1] # b[1] /\ a[2] = b[2]
     \/ a[1] # b[1] /\ a[2] = b[1] /\ a[2] # b[2] /\ a[1] # b[2]

\* A caller may ask first whether the edges suit.
EdgeTriCheck(m, es) ==
  /\ EdgeTriCheckCommon(m, es[1], es[2])
  /\ EdgeTriCheckCommon(m, es[1], es[3])
  /\ EdgeTriCheckCommon(m, es[2], es[3])

\* A face is refused when one of its edges has two faces.
AddFaceCall(x, es) ==
  /\ store.closing = "open" /\ x \notin store.faces
  /\ {es[1], es[2], es[3]} \subseteq store.edges /\ Triangle(store, es)
  /\ IF \E i \in 1..3 : FacesLen(store, es[i]) = 2
     THEN UNCHANGED store /\ result' = <<x, -1>>
     ELSE store' = AddFace(store, x, es) /\ result' = <<x, 0>>

RemoveFaceCall(x) ==
  /\ store.closing = "open" /\ x \in store.faces
  /\ store' = RemoveFace(store, x)
  /\ result' = <<x, 0>>

\* A bug the checks must find: the deletion begins with the edges.
DelEdgesFirst ==
  /\ store.closing = "open"
  /\ store' = [store EXCEPT !.closing = "edges"]
  /\ result' = <<None, None>>

\* borMesh3Del2 takes all faces, then all edges, then all vertices.
DelMeshCall ==
  /\ store.closing = "open"
  /\ store' = [store EXCEPT !.closing = "faces"]
  /\ result' = <<None, None>>

CloseFace(x) ==
  /\ store.closing = "faces" /\ x \in store.faces
  /\ store' = RemoveFace(store, x)
  /\ UNCHANGED result

FacesClosed ==
  /\ store.closing = "faces" /\ store.faces = {}
  /\ store' = [store EXCEPT !.closing = "edges"]
  /\ UNCHANGED result

\* The result of borMesh3RemoveEdge is ignored: an edge that is refused is tried again.
CloseMeshEdge(e) ==
  /\ store.closing = "edges" /\ e \in store.edges
  /\ store.f[e] = <<None, None>>
  /\ store' = RemoveMeshEdge(store, e)
  /\ UNCHANGED result

CloseMesh ==
  \/ FacesClosed \/ EdgesClosed \/ NodesClosed
  \/ \E x \in Faces : CloseFace(x)
  \/ \E e \in Edges : CloseMeshEdge(e)
  \/ \E v \in Nodes : CloseNode(v)

MeshNext ==
  \/ \E v \in Nodes : AddNodeCall(v) \/ RemoveNodeCall(v)
  \/ \E x \in Ends : AddMeshEdgeCall(x[1], x[2], x[3])
  \/ \E e \in Edges : RemoveMeshEdgeCall(e) \/ SwapCall(e)
  \/ \E x \in Sides : AddFaceCall(x[1], <<x[2], x[3], x[4]>>)
  \/ \E x \in Faces : RemoveFaceCall(x)
  \/ DelMeshCall \/ CloseMesh

MeshSpec == MeshInit /\ [][MeshNext]_vars

SidesOf(m, x) == {m.e[x][i] : i \in 1..3}

\* The network is well-formed, edges and faces agree on who bounds whom, and the
\* faces of an edge fill its places from the first.
WellFormedMesh(m) ==
  /\ WellFormedNet(m)
  /\ m.facesLen = Cardinality(m.faces)
  /\ m.closing = "freed" => m.faces = {}
  /\ \A x \in m.faces : SidesOf(m, x) \subseteq m.edges
  /\ \A e \in m.edges :
       /\ {m.f[e][k] : k \in 1..2} \ {None} = {x \in m.faces : e \in SidesOf(m, x)}
       /\ m.f[e][2] # None => m.f[e][1] \notin {None, m.f[e][2]}

\* The vertices of a face are the ends of its edges.
FindsVertices(m) ==
  \A x \in m.faces :
    {FaceVertices(m, x)[i] : i \in 1..3} = UNION {EndsOf(m, e) : e \in SidesOf(m, x)}

\* What a mesh stands for: a network, and faces bounded by its edges.
Bounded(m) == [x \in m.faces |-> SidesOf(m, x)]
MeshContents(m) == [nodes |-> m.nodes, ends |-> Joined(m), sides |-> Bounded(m)]
=============================================================================
