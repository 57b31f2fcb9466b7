----------------------------- MODULE MeshProofs -----------------------------
(***************************************************************************)
(* Proofs about the networks of net.c and the meshes of mesh3.c: for every *)
(* number of nodes, edges and faces and every sequence of calls, lists,    *)
(* counters, ends and sides agree with each other, and a call does to      *)
(* nodes, edges and faces what it promises.                                *)
(***************************************************************************)
EXTENDS Mesh3, FiniteSetTheorems, TLAPS

-----------------------------------------------------------------------------
(* What always holds of a network.  A mesh is one, with more fields.       *)

NetFields == {"nodes", "nodesLen", "edges", "edgesLen", "at", "atLen", "n", "closing"}

NetTyped(g) ==
  /\ NetFields \subseteq DOMAIN g
  /\ g.nodes \subseteq Nodes /\ g.edges \subseteq Edges
  /\ g.at \in [Nodes -> SUBSET (Edges \X {1, 2})]
  /\ g.atLen \in [Nodes -> Int]
  /\ g.n \in [Edges -> (Nodes \cup {None}) \X (Nodes \cup {None})]

\* The links of e are in the lists of its ends i and j, and in no other list.
LinkedAt(g, e, i, j) ==
  \A v \in Nodes : /\ <<e, 1>> \in g.at[v] <=> v = g.n[e][i]
                   /\ <<e, 2>> \in g.at[v] <=> v = g.n[e][j]

\* borMesh3EdgeSwapVertices swaps the ends and leaves the links where they are.
Linked(g) ==
  /\ \A e \in g.edges : /\ g.n[e][1] \in g.nodes /\ g.n[e][2] \in g.nodes
                        /\ LinkedAt(g, e, 1, 2) \/ LinkedAt(g, e, 2, 1)
  /\ \A e \in Edges \ g.edges, v \in Nodes : <<e, 1>> \notin g.at[v] /\ <<e, 2>> \notin g.at[v]

Counted(g) ==
  /\ g.nodesLen = Cardinality(g.nodes) /\ g.edgesLen = Cardinality(g.edges)
  /\ \A v \in Nodes : g.atLen[v] = Cardinality(g.at[v])

NetOK(g) == NetTyped(g) /\ Linked(g) /\ Counted(g)

-----------------------------------------------------------------------------
(* What the operations make of the fields.                                 *)

\* Adding an edge puts one link into the list of each end, two into that of a loop.
LEMMA AddEdgeMakes ==
  ASSUME NEW g, NetTyped(g), NEW e \in Edges, NEW v \in Nodes, NEW w \in Nodes,
         NEW h, h = AddEdge(g, e, v, w)
  PROVE  /\ DOMAIN h = DOMAIN g
         /\ \A x \in DOMAIN g \ {"n", "at", "atLen", "edges", "edgesLen"} : h[x] = g[x]
         /\ h.edges = g.edges \cup {e} /\ h.edgesLen = g.edgesLen + 1
         /\ h.n = [g.n EXCEPT ![e] = <<v, w>>]
         /\ h.at \in [Nodes -> SUBSET (Edges \X {1, 2})] /\ h.atLen \in [Nodes -> Int]
         /\ \A u \in Nodes :
              /\ h.at[u] = g.at[u] \cup (IF u = v THEN {<<e, 1>>} ELSE {}) \cup (IF u = w THEN {<<e, 2>>} ELSE {})
              /\ h.atLen[u] = g.atLen[u] + (IF u = v THEN 1 ELSE 0) + (IF u = w THEN 1 ELSE 0)
<1> DEFINE m == [g EXCEPT !.n[e] = <<v, w>>, !.at[v] = @ \cup {<<e, 1>>}, !.atLen[v] = @ + 1]
<1>1. /\ DOMAIN m = DOMAIN g
      /\ \A x \in DOMAIN g \ {"n", "at", "atLen"} : m[x] = g[x]
      /\ m.n = [g.n EXCEPT ![e] = <<v, w>>]
      /\ m.at = [g.at EXCEPT ![v] = @ \cup {<<e, 1>>}]
      /\ m.atLen = [g.atLen EXCEPT ![v] = @ + 1]
  BY DEF NetTyped, NetFields
<1>2. h = [m EXCEPT !.at[w] = @ \cup {<<e, 2>>}, !.atLen[w] = @ + 1,
                    !.edges = @ \cup {e}, !.edgesLen = @ + 1]
  BY DEF AddEdge
<1> HIDE DEF m
<1>3. /\ DOMAIN h = DOMAIN g
      /\ \A x \in DOMAIN g \ {"n", "at", "atLen", "edges", "edgesLen"} : h[x] = g[x]
      /\ h.n = m.n
      /\ h.at = [m.at EXCEPT ![w] = @ \cup {<<e, 2>>}]
      /\ h.atLen = [m.atLen EXCEPT ![w] = @ + 1]
      /\ h.edges = g.edges \cup {e} /\ h.edgesLen = g.edgesLen + 1
  BY <1>1, <1>2, ZenonT(30) DEF NetTyped, NetFields
<1> QED
  BY <1>1, <1>3 DEF NetTyped

\* A node comes with an empty list.
LEMMA AddNodeMakes ==
  ASSUME NEW g, NetTyped(g), NEW v \in Nodes, NEW h, h = AddNode(g, v)
  PROVE  /\ DOMAIN h = DOMAIN g
         /\ \A x \in DOMAIN g \ {"nodes", "nodesLen", "at", "atLen"} : h[x] = g[x]
         /\ h.nodes = g.nodes \cup {v} /\ h.nodesLen = g.nodesLen + 1
         /\ h.at = [g.at EXCEPT ![v] = {}] /\ h.atLen = [g.atLen EXCEPT ![v] = 0]
BY DEF AddNode, NetTyped, NetFields

\* A node that leaves forgets nothing: its list and counter stay as they are.
LEMMA TakeNodeMakes ==
  ASSUME NEW g, NetTyped(g), NEW v \in Nodes, NEW h, h = TakeNode(g, v)
  PROVE  /\ DOMAIN h = DOMAIN g
         /\ \A x \in DOMAIN g \ {"nodes", "nodesLen"} : h[x] = g[x]
         /\ h.nodes = g.nodes \ {v} /\ h.nodesLen = g.nodesLen - 1
BY DEF TakeNode, NetTyped, NetFields

\* Removing an edge takes its links out of every list, and one for each end off
\* the counters.
LEMMA RemoveEdgeMakes ==
  ASSUME NEW g, NetTyped(g), NEW e \in Edges, NEW v \in Nodes, NEW w \in Nodes,
         v = g.n[e][1], w = g.n[e][2], NEW h, h = RemoveEdge(g, e)
  PROVE  /\ DOMAIN h = DOMAIN g
         /\ \A x \in DOMAIN g \ {"at", "atLen", "edges", "edgesLen"} : h[x] = g[x]
         /\ h.edges = g.edges \ {e} /\ h.edgesLen = g.edgesLen - 1
         /\ h.at \in [Nodes -> SUBSET (Edges \X {1, 2})] /\ h.atLen \in [Nodes -> Int]
         /\ \A u \in Nodes :
              /\ h.at[u] = g.at[u] \ {<<e, 1>>, <<e, 2>>}
              /\ h.atLen[u] = g.atLen[u] - (IF u = v THEN 1 ELSE 0) - (IF u = w THEN 1 ELSE 0)
<1> DEFINE at == [u \in Nodes |-> g.at[u] \ {<<e, 1>>, <<e, 2>>}]
           m == [g EXCEPT !.at = at, !.atLen[v] = @ - 1]
<1>1. /\ DOMAIN m = DOMAIN g
      /\ \A x \in DOMAIN g \ {"at", "atLen"} : m[x] = g[x]
      /\ m.at = at
      /\ m.atLen = [g.atLen EXCEPT ![v] = @ - 1]
  <2> HIDE DEF at
  <2> QED  BY DEF NetTyped, NetFields
<1>2. h = [m EXCEPT !.atLen[w] = @ - 1, !.edges = @ \ {e}, !.edgesLen = @ - 1]
  BY DEF RemoveEdge
<1> HIDE DEF m
<1>3. /\ DOMAIN h = DOMAIN g
      /\ \A x \in DOMAIN g \ {"at", "atLen", "edges", "edgesLen"} : h[x] = g[x]
      /\ h.at = m.at
      /\ h.atLen = [m.atLen EXCEPT ![w] = @ - 1]
      /\ h.edges = g.edges \ {e} /\ h.edgesLen = g.edgesLen - 1
  <2> HIDE DEF at
  <2>1. /\ DOMAIN h = DOMAIN m
        /\ \A x \in DOMAIN m \ {"atLen", "edges", "edgesLen"} : h[x] = m[x]
        /\ h.atLen = [m.atLen EXCEPT ![w] = @ - 1]
        /\ h.edges = m.edges \ {e} /\ h.edgesLen = m.edgesLen - 1
    BY <1>1, <1>2 DEF NetTyped, NetFields
  <2> QED  BY <1>1, <2>1 DEF NetTyped, NetFields
<1> QED
  BY <1>1, <1>3, SMTT(30) DEF NetTyped

-----------------------------------------------------------------------------
(* Each operation keeps what always holds.                                 *)

\* Nodes, edges and lists are finite, so that they can be counted.
LEMMA FiniteParts ==
  ASSUME NetConstantsOK, NEW g, NetTyped(g)
  PROVE  /\ IsFiniteSet(g.nodes) /\ IsFiniteSet(g.edges)
         /\ \A v \in Nodes : IsFiniteSet(g.at[v])
<1>1. IsFiniteSet(g.nodes) /\ IsFiniteSet(g.edges)
  BY FS_Subset DEF NetConstantsOK, NetTyped
<1>2. IsFiniteSet(Edges \X {1, 2})
  <2>1. IsFiniteSet({1, 2})
    <3>1. IsFiniteSet({1} \cup {2})
      BY FS_Singleton, FS_AddElement
    <3> QED  BY ONLY <3>1, {1, 2} = {1} \cup {2}
  <2> QED  BY <2>1, FS_Product DEF NetConstantsOK
<1>3. \A v \in Nodes : IsFiniteSet(g.at[v])
  BY <1>2, FS_Subset DEF NetTyped
<1> QED
  BY <1>1, <1>3

\* No edge ends at the new node, for edges have both ends in the network.
LEMMA AddNodeKeeps ==
  ASSUME NetConstantsOK, NEW g, NetOK(g), NEW v \in Nodes \ g.nodes, NEW h, h = AddNode(g, v)
  PROVE  NetOK(h)
<1>1. /\ DOMAIN h = DOMAIN g
      /\ \A x \in DOMAIN g \ {"nodes", "nodesLen", "at", "atLen"} : h[x] = g[x]
      /\ h.nodes = g.nodes \cup {v} /\ h.nodesLen = g.nodesLen + 1
      /\ h.at = [g.at EXCEPT ![v] = {}] /\ h.atLen = [g.atLen EXCEPT ![v] = 0]
  BY AddNodeMakes DEF NetOK
<1>2. h.edges = g.edges /\ h.edgesLen = g.edgesLen /\ h.n = g.n
  BY <1>1 DEF NetOK, NetTyped, NetFields
<1>3. NetTyped(h)
  BY <1>1, <1>2 DEF NetOK, NetTyped
<1>4. g.at[v] = {}
  <2>1. \A e \in Edges : <<e, 1>> \notin g.at[v] /\ <<e, 2>> \notin g.at[v]
    BY DEF NetOK, Linked, LinkedAt
  <2>2. g.at[v] \subseteq Edges \X {1, 2}
    BY DEF NetOK, NetTyped
  <2>3. ASSUME NEW l \in g.at[v]  PROVE FALSE
    <3>1. l \in Edges \X {1, 2}
      BY <2>2
    <3>2. PICK e \in Edges, k \in {1, 2} : l = <<e, k>>
      BY ONLY <3>1
    <3> QED  BY <2>1, <3>2
  <2> QED  BY <2>3
<1>5. h.at = g.at
  <2>1. g.at \in [Nodes -> SUBSET (Edges \X {1, 2})]
    BY DEF NetOK, NetTyped
  <2> QED  BY ONLY <1>1, <1>4, <2>1, v \in Nodes, ZenonT(30)
<1>6. Linked(h)
  <2>1. \A e \in g.edges : /\ g.n[e][1] \in h.nodes /\ g.n[e][2] \in h.nodes
                           /\ LinkedAt(g, e, 1, 2) \/ LinkedAt(g, e, 2, 1)
    BY <1>1 DEF NetOK, Linked
  <2> QED  BY <1>2, <1>5, <2>1 DEF NetOK, Linked, LinkedAt
<1>7. Counted(h)
  <2>1. h.nodesLen = Cardinality(h.nodes)
    BY <1>1, FiniteParts, FS_AddElement DEF NetOK, Counted
  <2>2. \A u \in Nodes : h.atLen[u] = Cardinality(h.at[u])
    BY <1>1, <1>4, <1>5, FS_EmptySet DEF NetOK, Counted, NetTyped
  <2> QED  BY <1>2, <2>1, <2>2 DEF NetOK, Counted
<1> QED
  BY <1>3, <1>6, <1>7 DEF NetOK

\* An empty list means that no edge ends at the node, so that none is left hanging.
LEMMA TakeNodeKeeps ==
  ASSUME NetConstantsOK, NEW g, NetOK(g), NEW v \in g.nodes, g.at[v] = {}, NEW h, h = TakeNode(g, v)
  PROVE  NetOK(h)
<1>1. /\ DOMAIN h = DOMAIN g
      /\ \A x \in DOMAIN g \ {"nodes", "nodesLen"} : h[x] = g[x]
      /\ h.nodes = g.nodes \ {v} /\ h.nodesLen = g.nodesLen - 1
  BY TakeNodeMakes DEF NetOK, NetTyped
<1>2. h.edges = g.edges /\ h.edgesLen = g.edgesLen /\ h.n = g.n /\ h.at = g.at /\ h.atLen = g.atLen
  BY <1>1 DEF NetOK, NetTyped, NetFields
<1>3. NetTyped(h)
  BY <1>1, <1>2 DEF NetOK, NetTyped
<1>4. \A e \in g.edges : g.n[e][1] # v /\ g.n[e][2] # v
  BY DEF NetOK, NetTyped, Linked, LinkedAt
<1>5. Linked(h)
  BY <1>1, <1>2, <1>4 DEF NetOK, Linked, LinkedAt
<1>6. Counted(h)
  BY <1>1, <1>2, FiniteParts, FS_RemoveElement DEF NetOK, Counted
<1> QED
  BY <1>3, <1>5, <1>6 DEF NetOK

\* The links of the new edge are in no list yet, so that the counters rise as the
\* lists grow, by two for a loop.
LEMMA AddEdgeKeeps ==
  ASSUME NetConstantsOK, NEW g, NetOK(g), NEW e \in Edges \ g.edges,
         NEW v \in g.nodes, NEW w \in g.nodes, NEW h, h = AddEdge(g, e, v, w)
  PROVE  NetOK(h)
<1>1. /\ DOMAIN h = DOMAIN g
      /\ \A x \in DOMAIN g \ {"n", "at", "atLen", "edges", "edgesLen"} : h[x] = g[x]
      /\ h.edges = g.edges \cup {e} /\ h.edgesLen = g.edgesLen + 1
      /\ h.n = [g.n EXCEPT ![e] = <<v, w>>]
      /\ h.at \in [Nodes -> SUBSET (Edges \X {1, 2})] /\ h.atLen \in [Nodes -> Int]
      /\ \A u \in Nodes :
           /\ h.at[u] = g.at[u] \cup (IF u = v THEN {<<e, 1>>} ELSE {}) \cup (IF u = w THEN {<<e, 2>>} ELSE {})
           /\ h.atLen[u] = g.atLen[u] + (IF u = v THEN 1 ELSE 0) + (IF u = w THEN 1 ELSE 0)
  BY AddEdgeMakes DEF NetOK, NetTyped
<1>2. h.nodes = g.nodes /\ h.nodesLen = g.nodesLen
  BY <1>1 DEF NetOK, NetTyped, NetFields
<1>3. NetTyped(h)
  BY <1>1, <1>2 DEF NetOK, NetTyped
<1>4. \A u \in Nodes : <<e, 1>> \notin g.at[u] /\ <<e, 2>> \notin g.at[u]
  BY DEF NetOK, Linked
<1>5. \A d \in Edges \ {e}, k \in {1, 2}, u \in Nodes : h.n[d] = g.n[d] /\ (<<d, k>> \in h.at[u] <=> <<d, k>> \in g.at[u])
  BY <1>1 DEF NetOK, NetTyped
<1>6. Linked(h)
  <2>1. h.n[e][1] = v /\ h.n[e][2] = w
    BY <1>1 DEF NetOK, NetTyped
  <2>2. LinkedAt(h, e, 1, 2)
    BY <1>1, <1>4, <2>1 DEF LinkedAt
  <2>3. ASSUME NEW d \in g.edges
        PROVE  /\ h.n[d][1] \in h.nodes /\ h.n[d][2] \in h.nodes
               /\ LinkedAt(h, d, 1, 2) \/ LinkedAt(h, d, 2, 1)
    <3>1. d \in Edges \ {e}
      BY DEF NetOK, NetTyped
    <3>2. /\ g.n[d][1] \in g.nodes /\ g.n[d][2] \in g.nodes
          /\ LinkedAt(g, d, 1, 2) \/ LinkedAt(g, d, 2, 1)
      BY DEF NetOK, Linked
    <3>3. LinkedAt(g, d, 1, 2) => LinkedAt(h, d, 1, 2)
      BY <1>5, <3>1 DEF LinkedAt
    <3>4. LinkedAt(g, d, 2, 1) => LinkedAt(h, d, 2, 1)
      BY <1>5, <3>1 DEF LinkedAt
    <3> QED  BY <1>2, <1>5, <3>1, <3>2, <3>3, <3>4, v \in Nodes DEF NetOK, NetTyped
  <2>4. ASSUME NEW d \in Edges \ h.edges, NEW u \in Nodes
        PROVE  <<d, 1>> \notin h.at[u] /\ <<d, 2>> \notin h.at[u]
    BY <1>1, <1>5 DEF NetOK, Linked
  <2> QED  BY <1>1, <1>2, <2>1, <2>2, <2>3, <2>4 DEF Linked
<1>7. Counted(h)
  <2>1. h.edgesLen = Cardinality(h.edges)
    <3>1. IsFiniteSet(g.edges) /\ g.edgesLen = Cardinality(g.edges)
      BY FiniteParts DEF NetOK, Counted
    <3> QED  BY ONLY <1>1, <3>1, e \notin g.edges, FS_AddElement, ZenonT(30)
  <2>2. ASSUME NEW u \in Nodes
        PROVE  h.atLen[u] = Cardinality(h.at[u])
    <3> DEFINE S == g.at[u] \cup (IF u = v THEN {<<e, 1>>} ELSE {})
    <3>1. IsFiniteSet(g.at[u]) /\ g.atLen[u] = Cardinality(g.at[u])
      BY FiniteParts DEF NetOK, Counted
    <3>2. IsFiniteSet(S) /\ Cardinality(S) = Cardinality(g.at[u]) + (IF u = v THEN 1 ELSE 0)
      <4>1. CASE u = v
        BY <1>4, <3>1, <4>1, FS_AddElement
      <4>2. CASE u # v
        BY <3>1, <4>2, FS_CardinalityType
      <4> QED  BY <4>1, <4>2
    <3>3. <<e, 2>> \notin S
      BY <1>4
    <3> HIDE DEF S
    <3>4. Cardinality(S \cup (IF u = w THEN {<<e, 2>>} ELSE {})) = Cardinality(S) + (IF u = w THEN 1 ELSE 0)
      <4>1. CASE u = w
        BY <3>2, <3>3, <4>1, FS_AddElement
      <4>2. CASE u # w
        BY <3>2, <4>2, FS_CardinalityType
      <4> QED  BY <4>1, <4>2
    <3>5. h.at[u] = S \cup (IF u = w THEN {<<e, 2>>} ELSE {})
      BY <1>1 DEF S
    <3> QED  BY <1>1, <3>1, <3>2, <3>4, <3>5, FS_CardinalityType
  <2> QED  BY <1>2, <2>1, <2>2 DEF NetOK, Counted
<1> QED
  BY <1>3, <1>6, <1>7 DEF NetOK

\* A finite set without one of its members has one less.
LEMMA OneLess ==
  ASSUME NEW S, IsFiniteSet(S), NEW x
  PROVE  /\ IsFiniteSet(S \ {x})
         /\ Cardinality(S) \in Nat /\ Cardinality(S \ {x}) \in Nat
         /\ Cardinality(S \ {x}) = Cardinality(S) - (IF x \in S THEN 1 ELSE 0)
<1>1. IsFiniteSet(S \ {x}) /\ Cardinality(S \ {x}) = IF x \in S THEN Cardinality(S) - 1 ELSE Cardinality(S)
  BY FS_RemoveElement
<1>2. Cardinality(S) \in Nat /\ Cardinality(S \ {x}) \in Nat
  BY <1>1, FS_CardinalityType
<1> QED
  BY ONLY <1>1, <1>2

\* The lists that lose a link are those of the ends, whose counters are lowered.
LEMMA RemoveEdgeKeeps ==
  ASSUME NetConstantsOK, NEW g, NetOK(g), NEW e \in g.edges, NEW h, h = RemoveEdge(g, e)
  PROVE  NetOK(h)
<1> DEFINE v == g.n[e][1]
           w == g.n[e][2]
<1>0. e \in Edges /\ v \in g.nodes /\ w \in g.nodes /\ v \in Nodes /\ w \in Nodes
  BY DEF NetOK, NetTyped, Linked
<1>1. /\ DOMAIN h = DOMAIN g
      /\ \A x \in DOMAIN g \ {"at", "atLen", "edges", "edgesLen"} : h[x] = g[x]
      /\ h.edges = g.edges \ {e} /\ h.edgesLen = g.edgesLen - 1
      /\ h.at \in [Nodes -> SUBSET (Edges \X {1, 2})] /\ h.atLen \in [Nodes -> Int]
      /\ \A u \in Nodes :
           /\ h.at[u] = g.at[u] \ {<<e, 1>>, <<e, 2>>}
           /\ h.atLen[u] = g.atLen[u] - (IF u = v THEN 1 ELSE 0) - (IF u = w THEN 1 ELSE 0)
  BY <1>0, RemoveEdgeMakes DEF NetOK
<1> HIDE DEF v, w
<1>2. h.nodes = g.nodes /\ h.nodesLen = g.nodesLen /\ h.n = g.n
  BY <1>1 DEF NetOK, NetTyped, NetFields
<1>3. NetTyped(h)
  BY <1>1, <1>2 DEF NetOK, NetTyped
<1>4. \A d \in Edges \ {e}, k \in {1, 2}, u \in Nodes : <<d, k>> \in h.at[u] <=> <<d, k>> \in g.at[u]
  BY <1>1
<1>5. Linked(h)
  <2>1. ASSUME NEW d \in h.edges
        PROVE  /\ h.n[d][1] \in h.nodes /\ h.n[d][2] \in h.nodes
               /\ LinkedAt(h, d, 1, 2) \/ LinkedAt(h, d, 2, 1)
    <3>1. d \in g.edges /\ d \in Edges \ {e}
      BY <1>1 DEF NetOK, NetTyped
    <3>2. /\ g.n[d][1] \in g.nodes /\ g.n[d][2] \in g.nodes
          /\ LinkedAt(g, d, 1, 2) \/ LinkedAt(g, d, 2, 1)
      BY <3>1 DEF NetOK, Linked
    <3>3. LinkedAt(g, d, 1, 2) => LinkedAt(h, d, 1, 2)
      BY <1>2, <1>4, <3>1 DEF LinkedAt
    <3>4. LinkedAt(g, d, 2, 1) => LinkedAt(h, d, 2, 1)
      BY <1>2, <1>4, <3>1 DEF LinkedAt
    <3> QED  BY <1>2, <3>2, <3>3, <3>4
  <2>2. ASSUME NEW d \in Edges \ h.edges, NEW u \in Nodes
        PROVE  <<d, 1>> \notin h.at[u] /\ <<d, 2>> \notin h.at[u]
    <3>1. CASE d = e
      BY <1>1, <3>1
    <3>2. CASE d # e
      <4>1. d \in Edges \ g.edges
        BY <1>1, <3>2
      <4>2. <<d, 1>> \notin g.at[u] /\ <<d, 2>> \notin g.at[u]
        BY <4>1 DEF NetOK, Linked
      <4> QED  BY <1>1, <4>2
    <3> QED  BY <3>1, <3>2
  <2> QED  BY <2>1, <2>2 DEF Linked
<1>6. Counted(h)
  <2>1. h.edgesLen = Cardinality(h.edges)
    <3>1. IsFiniteSet(g.edges) /\ g.edgesLen = Cardinality(g.edges)
      BY FiniteParts DEF NetOK, Counted
    <3> QED  BY ONLY <1>1, <3>1, FS_RemoveElement, e \in g.edges
  <2>2. ASSUME NEW u \in Nodes
        PROVE  h.atLen[u] = Cardinality(h.at[u])
    <3> DEFINE S == g.at[u]
               T == S \ {<<e, 1>>}
               one == IF <<e, 1>> \in S THEN 1 ELSE 0
               two == IF <<e, 2>> \in S THEN 1 ELSE 0
    <3>1. IsFiniteSet(S) /\ Cardinality(S) \in Nat /\ g.atLen[u] = Cardinality(S)
      BY FiniteParts, FS_CardinalityType DEF NetOK, Counted
    <3>2. IsFiniteSet(T) /\ Cardinality(T) = Cardinality(S) - one
      BY <3>1, OneLess
    <3>3. Cardinality(T \ {<<e, 2>>}) = Cardinality(T) - two
      <4>1. <<e, 2>> \in T <=> <<e, 2>> \in S
        OBVIOUS
      <4> HIDE DEF T
      <4> QED  BY <3>2, <4>1, OneLess
    <3>4. h.at[u] = T \ {<<e, 2>>}
      BY <1>1
    <3>5. one + two = (IF u = v THEN 1 ELSE 0) + (IF u = w THEN 1 ELSE 0)
      <4>1. LinkedAt(g, e, 1, 2) \/ LinkedAt(g, e, 2, 1)
        BY DEF NetOK, Linked
      <4>2. \/ (<<e, 1>> \in S <=> u = v) /\ (<<e, 2>> \in S <=> u = w)
            \/ (<<e, 1>> \in S <=> u = w) /\ (<<e, 2>> \in S <=> u = v)
        BY <4>1 DEF LinkedAt, v, w
      <4> QED  BY ONLY <4>2
    <3> HIDE DEF T
    <3> QED  BY <1>1, <3>1, <3>2, <3>3, <3>4, <3>5
  <2> QED  BY <1>2, <2>1, <2>2 DEF NetOK, Counted
<1> QED
  BY <1>3, <1>5, <1>6 DEF NetOK

\* The fields of a mesh that a network does not have are no part of this, nor
\* is the progress of a deletion.
LEMMA SameNet ==
  ASSUME NEW g, NetOK(g), NEW h, NetFields \subseteq DOMAIN h,
         \A x \in NetFields \ {"closing"} : h[x] = g[x]
  PROVE  NetOK(h)
<1>1. /\ h.nodes = g.nodes /\ h.nodesLen = g.nodesLen /\ h.edges = g.edges /\ h.edgesLen = g.edgesLen
      /\ h.at = g.at /\ h.atLen = g.atLen /\ h.n = g.n
  BY DEF NetFields
<1> QED
  BY <1>1 DEF NetOK, NetTyped, Linked, LinkedAt, Counted

\* So are the ends that an edge outside of the network remembers.
LEMMA ForgetEnds ==
  ASSUME NEW g, NetOK(g), NEW e \in Edges \ g.edges, NEW h, NetFields \subseteq DOMAIN h,
         \A x \in NetFields \ {"closing", "n"} : h[x] = g[x],
         h.n = [g.n EXCEPT ![e] = <<None, None>>]
  PROVE  NetOK(h)
<1>1. /\ h.nodes = g.nodes /\ h.nodesLen = g.nodesLen /\ h.edges = g.edges /\ h.edgesLen = g.edgesLen
      /\ h.at = g.at /\ h.atLen = g.atLen
  BY DEF NetFields
<1>2. \A d \in g.edges : h.n[d] = g.n[d]
  BY DEF NetOK, NetTyped
<1>3. NetTyped(h)
  BY <1>1 DEF NetOK, NetTyped
<1>4. \A d \in g.edges : LinkedAt(g, d, 1, 2) \/ LinkedAt(g, d, 2, 1) => LinkedAt(h, d, 1, 2) \/ LinkedAt(h, d, 2, 1)
  BY <1>1, <1>2 DEF LinkedAt
<1>5. Linked(h)
  BY <1>1, <1>2, <1>4 DEF NetOK, Linked
<1> QED
  BY <1>1, <1>3, <1>5 DEF NetOK, Counted

\* Ends that are swapped leave the links in the lists of the same two nodes.
LEMMA SwapEnds ==
  ASSUME NEW g, NetOK(g), NEW e \in g.edges, NEW h, NetFields \subseteq DOMAIN h,
         \A x \in NetFields \ {"n"} : h[x] = g[x],
         h.n = [g.n EXCEPT ![e] = <<@[2], @[1]>>]
  PROVE  NetOK(h)
<1>1. /\ h.nodes = g.nodes /\ h.nodesLen = g.nodesLen /\ h.edges = g.edges /\ h.edgesLen = g.edgesLen
      /\ h.at = g.at /\ h.atLen = g.atLen
  BY DEF NetFields
<1>2. /\ e \in Edges /\ \A d \in Edges \ {e} : h.n[d] = g.n[d]
      /\ h.n[e] = <<g.n[e][2], g.n[e][1]>>
  BY DEF NetOK, NetTyped
<1>3. NetTyped(h)
  BY <1>1, <1>2 DEF NetOK, NetTyped
<1>4. ASSUME NEW d \in h.edges
      PROVE  /\ h.n[d][1] \in h.nodes /\ h.n[d][2] \in h.nodes
             /\ LinkedAt(h, d, 1, 2) \/ LinkedAt(h, d, 2, 1)
  <2>1. /\ d \in Edges /\ g.n[d][1] \in g.nodes /\ g.n[d][2] \in g.nodes
        /\ LinkedAt(g, d, 1, 2) \/ LinkedAt(g, d, 2, 1)
    BY <1>1 DEF NetOK, NetTyped, Linked
  <2>2. CASE d # e
    BY <1>1, <1>2, <2>1, <2>2 DEF LinkedAt
  <2>3. CASE d = e
    <3>1. h.n[d][1] = g.n[d][2] /\ h.n[d][2] = g.n[d][1]
      BY <1>2, <2>3
    <3>2. LinkedAt(g, d, 1, 2) => LinkedAt(h, d, 2, 1)
      BY <1>1, <3>1 DEF LinkedAt
    <3>3. LinkedAt(g, d, 2, 1) => LinkedAt(h, d, 1, 2)
      BY <1>1, <3>1 DEF LinkedAt
    <3> QED  BY <1>1, <2>1, <3>1, <3>2, <3>3
  <2> QED  BY <2>2, <2>3
<1>5. Linked(h)
  BY <1>1, <1>4 DEF NetOK, Linked
<1> QED
  BY <1>1, <1>3, <1>5 DEF NetOK, Counted

-----------------------------------------------------------------------------
(* From this follow the properties.                                        *)

\* The list of a node has a link of just the edges that end there.
LEMMA ListOf ==
  ASSUME NEW g, NetOK(g), NEW v \in Nodes
  PROVE  /\ \A l \in g.at[v] : l[1] \in g.edges /\ v \in EndsOf(g, l[1])
         /\ \A e \in g.edges : v \in EndsOf(g, e) => \E l \in g.at[v] : l[1] = e
<1>1. ASSUME NEW l \in g.at[v]
      PROVE  l[1] \in g.edges /\ v \in EndsOf(g, l[1])
  <2>1. l \in Edges \X {1, 2}
    BY DEF NetOK, NetTyped
  <2>2. PICK e \in Edges, k \in {1, 2} : l = <<e, k>>
    BY ONLY <2>1
  <2>3. e \in g.edges
    BY <2>2 DEF NetOK, Linked
  <2>4. LinkedAt(g, e, 1, 2) \/ LinkedAt(g, e, 2, 1)
    BY <2>3 DEF NetOK, Linked
  <2>5. v = g.n[e][1] \/ v = g.n[e][2]
    BY <2>2, <2>4 DEF LinkedAt
  <2> QED  BY <2>2, <2>3, <2>5 DEF EndsOf
<1>2. ASSUME NEW e \in g.edges, v \in EndsOf(g, e)
      PROVE  \E l \in g.at[v] : l[1] = e
  <2>1. LinkedAt(g, e, 1, 2) \/ LinkedAt(g, e, 2, 1)
    BY DEF NetOK, Linked
  <2>2. <<e, 1>> \in g.at[v] \/ <<e, 2>> \in g.at[v]
    BY <1>2, <2>1 DEF LinkedAt, EndsOf
  <2>3. <<e, 1>>[1] = e /\ <<e, 2>>[1] = e
    OBVIOUS
  <2> QED  BY <2>2, <2>3
<1> QED
  BY <1>1, <1>2

\* Nodes and edges agree on who touches whom.
LEMMA Agrees ==
  ASSUME NetConstantsOK, NEW g, NetOK(g), g.closing = "freed" => g.nodes = {} /\ g.edges = {}
  PROVE  WellFormedNet(g)
<1>1. g.nodesLen = Cardinality(g.nodes) /\ g.edgesLen = Cardinality(g.edges)
  BY DEF NetOK, Counted
<1>2. ASSUME NEW v \in g.nodes
      PROVE  /\ {l[1] : l \in g.at[v]} = {e \in g.edges : v \in EndsOf(g, e)}
             /\ g.atLen[v] = Cardinality(g.at[v])
  <2>1. v \in Nodes
    BY DEF NetOK, NetTyped
  <2>2. {l[1] : l \in g.at[v]} = {e \in g.edges : v \in EndsOf(g, e)}
    BY <2>1, ListOf
  <2> QED  BY <2>1, <2>2 DEF NetOK, Counted
<1>3. ASSUME NEW e \in g.edges, NEW k \in 1..2
      PROVE  Cardinality({v \in g.nodes : <<e, k>> \in g.at[v]}) = 1
  <2>1. /\ g.n[e][1] \in g.nodes /\ g.n[e][2] \in g.nodes /\ g.nodes \subseteq Nodes
        /\ LinkedAt(g, e, 1, 2) \/ LinkedAt(g, e, 2, 1)
    BY DEF NetOK, NetTyped, Linked
  <2>2. k = 1 \/ k = 2
    OBVIOUS
  <2>3. \E u \in g.nodes : \A v \in g.nodes : <<e, k>> \in g.at[v] <=> v = u
    BY <2>1, <2>2 DEF LinkedAt
  <2>4. PICK u \in g.nodes : \A v \in g.nodes : <<e, k>> \in g.at[v] <=> v = u
    BY <2>3
  <2>5. {v \in g.nodes : <<e, k>> \in g.at[v]} = {u}
    BY <2>4
  <2> QED  BY <2>5, FS_Singleton
<1> QED
  BY <1>1, <1>2, <1>3 DEF WellFormedNet

\* Whichever list is the shorter, the walk meets each edge between the two nodes.
LEMMA WalkFinds ==
  ASSUME NEW g, NetOK(g)
  PROVE  FindsCommonEdges(g)
<1> SUFFICES ASSUME NEW v \in g.nodes, NEW w \in g.nodes, v # w
             PROVE  CommonEdges(g, v, w) = {e \in g.edges : EndsOf(g, e) = {v, w}}
  BY DEF FindsCommonEdges
<1>1. v \in Nodes /\ w \in Nodes
  BY DEF NetOK, NetTyped
<1>2. ASSUME NEW from \in {v, w}, NEW other \in {v, w}, from # other
      PROVE  {l[1] : l \in {l \in g.at[from] : other \in {g.n[l[1]][1], g.n[l[1]][2]}}}
               = {e \in g.edges : EndsOf(g, e) = {v, w}}
  <2>1. \A l \in g.at[from] : l[1] \in g.edges /\ from \in EndsOf(g, l[1])
    BY <1>1, ListOf
  <2>2. \A e \in g.edges : from \in EndsOf(g, e) => \E l \in g.at[from] : l[1] = e
    BY <1>1, ListOf
  <2>3. \A e \in g.edges : from \in EndsOf(g, e) /\ other \in EndsOf(g, e) <=> EndsOf(g, e) = {v, w}
    BY <1>2 DEF EndsOf
  <2> QED  BY <2>1, <2>2, <2>3 DEF EndsOf
<1> QED
  BY <1>2 DEF CommonEdges

-----------------------------------------------------------------------------
(* Networks.                                                               *)

\* borNetDel2 takes the edges first.
ClosingOK(g) ==
  /\ g.closing \in {"open", "edges", "nodes", "freed"}
  /\ g.closing \in {"nodes", "freed"} => g.edges = {}
  /\ g.closing = "freed" => g.nodes = {}

NetInv == NetOK(store) /\ ClosingOK(store)

\* The empty network is right.
LEMMA NetBegins == ASSUME NetConstantsOK, Init  PROVE NetInv
<1>1. store = EmptyNet
  BY DEF Init
<1>2. NetTyped(store)
  BY <1>1 DEF NetTyped, NetFields, EmptyNet
<1>3. Linked(store)
  BY <1>1 DEF Linked, EmptyNet
<1>4. Counted(store)
  BY <1>1, FS_EmptySet DEF Counted, EmptyNet
<1>5. ClosingOK(store)
  BY <1>1 DEF ClosingOK, EmptyNet
<1> QED
  BY <1>2, <1>3, <1>4, <1>5 DEF NetInv, NetOK

\* What stays when an operation does not touch it.
LEMMA RestStays ==
  ASSUME NEW g, NetOK(g)
  PROVE  /\ \A v \in Nodes : AddNode(g, v).closing = g.closing /\ AddNode(g, v).edges = g.edges
         /\ \A v \in Nodes : TakeNode(g, v).closing = g.closing /\ TakeNode(g, v).edges = g.edges
         /\ \A e \in Edges, v, w \in Nodes : AddEdge(g, e, v, w).closing = g.closing
         /\ \A e \in g.edges : /\ RemoveEdge(g, e).closing = g.closing
                               /\ RemoveEdge(g, e).nodes = g.nodes
                               /\ RemoveEdge(g, e).edges = g.edges \ {e}
<1>1. {"closing", "edges", "nodes"} \subseteq DOMAIN g
  BY DEF NetOK, NetTyped, NetFields
<1>2. ASSUME NEW v \in Nodes
      PROVE  AddNode(g, v).closing = g.closing /\ AddNode(g, v).edges = g.edges
  BY <1>1 DEF AddNode
<1>3. ASSUME NEW v \in Nodes
      PROVE  TakeNode(g, v).closing = g.closing /\ TakeNode(g, v).edges = g.edges
  BY <1>1, TakeNodeMakes DEF NetOK
<1>4. ASSUME NEW e \in Edges, NEW v \in Nodes, NEW w \in Nodes
      PROVE  AddEdge(g, e, v, w).closing = g.closing
  BY <1>1 DEF AddEdge
<1>5. ASSUME NEW e \in g.edges
      PROVE  /\ RemoveEdge(g, e).closing = g.closing /\ RemoveEdge(g, e).nodes = g.nodes
             /\ RemoveEdge(g, e).edges = g.edges \ {e}
  <2>1. e \in Edges /\ g.n[e][1] \in Nodes /\ g.n[e][2] \in Nodes
    BY DEF NetOK, NetTyped, Linked
  <2> QED  BY <1>1, <2>1, RemoveEdgeMakes DEF NetOK
<1> QED
  BY <1>2, <1>3, <1>4, <1>5

\* Every call, and every step of a deletion, leaves the network right.
LEMMA NetStep == ASSUME NetConstantsOK, NetInv, [Next]_vars  PROVE NetInv'
<1> USE DEF NetInv
<1>1. ASSUME NEW v \in Nodes, AddNodeCall(v)  PROVE NetInv'
  <2>1. NetOK(AddNode(store, v))
    BY <1>1, AddNodeKeeps DEF AddNodeCall
  <2> QED  BY <1>1, <2>1, RestStays DEF AddNodeCall, ClosingOK
<1>2. ASSUME NEW v \in Nodes, RemoveNodeCall(v)  PROVE NetInv'
  <2>1. CASE store.at[v] # {}
    BY <1>2, <2>1 DEF RemoveNodeCall
  <2>2. CASE store.at[v] = {}
    <3>1. NetOK(TakeNode(store, v))
      BY <1>2, <2>2, TakeNodeKeeps DEF RemoveNodeCall
    <3> QED  BY <1>2, <2>2, <3>1, RestStays DEF RemoveNodeCall, ClosingOK
  <2> QED  BY <2>1, <2>2
<1>3. ASSUME NEW x \in Ends, AddEdgeCall(x[1], x[2], x[3])  PROVE NetInv'
  <2>1. x[1] \in Edges /\ x[2] \in Nodes /\ x[3] \in Nodes
    BY DEF NetConstantsOK
  <2>2. NetOK(AddEdge(store, x[1], x[2], x[3]))
    BY <1>3, <2>1, AddEdgeKeeps DEF AddEdgeCall
  <2> QED  BY <1>3, <2>1, <2>2, RestStays DEF AddEdgeCall, ClosingOK
<1>4. ASSUME NEW e \in Edges, RemoveEdgeCall(e) \/ CloseEdge(e)  PROVE NetInv'
  <2>1. e \in store.edges /\ store' = RemoveEdge(store, e)
    BY <1>4 DEF RemoveEdgeCall, CloseEdge
  <2>2. NetOK(store')
    BY <2>1, RemoveEdgeKeeps
  <2> QED  BY <2>1, <2>2, RestStays DEF ClosingOK
<1>5. ASSUME NEW v \in Nodes, CloseNode(v)  PROVE NetInv'
  <2>1. NetOK(TakeNode(store, v))
    BY <1>5, TakeNodeKeeps DEF CloseNode
  <2> QED  BY <1>5, <2>1, RestStays DEF CloseNode, ClosingOK
<1>6. ASSUME DelCall \/ EdgesClosed \/ NodesClosed  PROVE NetInv'
  <2>1. /\ NetFields \subseteq DOMAIN store'
        /\ \A x \in NetFields \ {"closing"} : store'[x] = store[x]
    BY <1>6 DEF DelCall, EdgesClosed, NodesClosed, NetOK, NetTyped, NetFields
  <2>2. NetOK(store')
    BY <2>1, SameNet
  <2>3. store'.nodes = store.nodes /\ store'.edges = store.edges
    BY <2>1 DEF NetFields
  <2>4. \/ store.closing = "open" /\ store'.closing = "edges"
        \/ store.closing = "edges" /\ store.edges = {} /\ store'.closing = "nodes"
        \/ store.closing = "nodes" /\ store.nodes = {} /\ store'.closing = "freed"
    BY <1>6 DEF DelCall, EdgesClosed, NodesClosed, NetOK, NetTyped, NetFields
  <2> QED  BY <2>2, <2>3, <2>4 DEF ClosingOK
<1>7. CASE UNCHANGED vars
  BY <1>7 DEF vars
<1> QED
  BY <1>1, <1>2, <1>3, <1>4, <1>5, <1>6, <1>7 DEF Next, Close

\* A network whose calls come in any order, its deletion included, is never out
\* of step: nodes, edges, lists and counters agree (borNetAddEdge, borNetRemoveEdge).
THEOREM NetAgrees == ASSUME NetConstantsOK  PROVE NetSpec => []WellFormedNet(store)
<1>1. Init => NetInv
  BY NetBegins
<1>2. NetInv /\ [Next]_vars => NetInv'
  BY NetStep
<1>3. NetInv => WellFormedNet(store)
  BY Agrees DEF NetInv, ClosingOK
<1> QED
  BY <1>1, <1>2, <1>3, PTL DEF NetSpec

\* The walk of borNetNodeCommonEdge over the shorter list finds the edges between
\* two nodes, and nothing else.
THEOREM NetWalkFinds == ASSUME NetConstantsOK  PROVE NetSpec => []FindsCommonEdges(store)
<1>1. Init => NetInv
  BY NetBegins
<1>2. NetInv /\ [Next]_vars => NetInv'
  BY NetStep
<1>3. NetInv => FindsCommonEdges(store)
  BY WalkFinds DEF NetInv
<1> QED
  BY <1>1, <1>2, <1>3, PTL DEF NetSpec

-----------------------------------------------------------------------------
(* What a network stands for.                                              *)

With(f, x, s) == [y \in DOMAIN f \cup {x} |-> IF y = x THEN s ELSE f[y]]
Without(f, x) == [y \in DOMAIN f \ {x} |-> f[y]]

\* Nodes, ends and sides are told one by one.
LEMMA Told ==
  ASSUME NEW a, NEW b, NEW c, NEW d
  PROVE  /\ [[nodes |-> a, ends |-> b, sides |-> c] EXCEPT !.nodes = d] = [nodes |-> d, ends |-> b, sides |-> c]
         /\ [[nodes |-> a, ends |-> b, sides |-> c] EXCEPT !.ends = d] = [nodes |-> a, ends |-> d, sides |-> c]
         /\ [[nodes |-> a, ends |-> b, sides |-> c] EXCEPT !.sides = d] = [nodes |-> a, ends |-> b, sides |-> d]
OBVIOUS

\* Who joins whom changes as the edges and their ends do.
LEMMA JoinedSame ==
  ASSUME NEW g, NEW h, h.edges = g.edges, h.n = g.n
  PROVE  Joined(h) = Joined(g)
BY DEF Joined, EndsOf

\* A new edge joins its ends.
LEMMA JoinedMore ==
  ASSUME NEW g, NEW e, NEW s, NEW h, h.edges = g.edges \cup {e}, EndsOf(h, e) = s,
         \A d \in g.edges \ {e} : EndsOf(h, d) = EndsOf(g, d)
  PROVE  Joined(h) = With(Joined(g), e, s)
BY DEF Joined, With

\* A removed edge joins nothing, the others what they did.
LEMMA JoinedLess ==
  ASSUME NEW g, NEW e, NEW h, h.edges = g.edges \ {e}, \A d \in h.edges : h.n[d] = g.n[d]
  PROVE  Joined(h) = Without(Joined(g), e)
BY DEF Joined, Without, EndsOf

\* A node is refused just if an edge ends there.
LEMMA BusyNode ==
  ASSUME NEW g, NetOK(g), NEW v \in Nodes
  PROVE  g.at[v] # {} <=> \E e \in DOMAIN Joined(g) : v \in Joined(g)[e]
<1>1. \A l \in g.at[v] : l[1] \in g.edges /\ v \in EndsOf(g, l[1])
  BY ListOf
<1>2. \A e \in g.edges : v \in EndsOf(g, e) => \E l \in g.at[v] : l[1] = e
  BY ListOf
<1> QED
  BY <1>1, <1>2 DEF Joined

OfNet == INSTANCE Collections WITH
  Elements <- {}, Nodes <- {}, Keys <- {}, Values <- {}, Names <- {},
  inside <- NetContents(store)

\* A network does with each call what it promises to its nodes and edges: a node
\* leaves only when no edge ends there, and is refused for no other reason.
NetPromise == [][OfNet!ComplexNext]_(OfNet!vars)

\* Every step of a network is a step of what it promises, or none.
LEMMA NetKeepsPromise ==
  ASSUME NetConstantsOK, NetInv, [Next]_vars
  PROVE  [OfNet!ComplexNext]_(OfNet!vars)
<1>0. NetOK(store) /\ store.nodes \subseteq Nodes /\ store.edges \subseteq Edges
  BY DEF NetInv, NetOK, NetTyped
<1>1. ASSUME NEW v \in Nodes, AddNodeCall(v)  PROVE OfNet!AddNode
  <2>1. /\ store'.nodes = store.nodes \cup {v} /\ store'.edges = store.edges /\ store'.n = store.n
        /\ v \notin store.nodes /\ result' = <<v, 0>>
    BY <1>0, <1>1 DEF AddNodeCall, AddNode, NetOK, NetTyped, NetFields
  <2>2. Joined(store') = Joined(store)
    BY <2>1, JoinedSame
  <2>3. NetContents(store') = [NetContents(store) EXCEPT !.nodes = @ \cup {v}]
    <3>1. PICK d : d = store'.nodes
      OBVIOUS
    <3>2. NetContents(store') = [NetContents(store) EXCEPT !.nodes = d]
      BY ONLY <2>2, <3>1, Told DEF NetContents
    <3> QED  BY <2>1, <3>1, <3>2 DEF NetContents
  <2>4. v \in NetContents(store').nodes \ NetContents(store).nodes
    BY <2>1 DEF NetContents
  <2> QED  BY <2>1, <2>3, <2>4 DEF OfNet!AddNode, OfNet!Done
<1>2. ASSUME NEW v \in Nodes, RemoveNodeCall(v)  PROVE OfNet!Removal
  <2>1. v \in NetContents(store).nodes
    BY <1>2 DEF RemoveNodeCall, NetContents
  <2>2. OfNet!Busy(v) <=> store.at[v] # {}
    BY <1>0, BusyNode DEF OfNet!Busy, NetContents
  <2>3. CASE store.at[v] # {}
    <3>1. OfNet!Refused(v)
      BY <1>2, <2>3 DEF RemoveNodeCall, OfNet!Refused, NetContents
    <3> QED  BY <2>1, <2>2, <2>3, <3>1 DEF OfNet!Removal
  <2>4. CASE store.at[v] = {}
    <3>1. /\ store'.nodes = store.nodes \ {v} /\ store'.edges = store.edges /\ store'.n = store.n
          /\ result' = <<v, 0>>
      BY <1>0, <1>2, <2>4 DEF RemoveNodeCall, TakeNode, NetOK, NetTyped, NetFields
    <3>2. Joined(store') = Joined(store)
      BY <3>1, JoinedSame
    <3>3. NetContents(store') = [NetContents(store) EXCEPT !.nodes = @ \ {v}]
      <4>1. PICK d : d = store'.nodes
        OBVIOUS
      <4>2. NetContents(store') = [NetContents(store) EXCEPT !.nodes = d]
        BY ONLY <3>2, <4>1, Told DEF NetContents
      <4> QED  BY <3>1, <4>1, <4>2 DEF NetContents
    <3>4. OfNet!NodeLeaves(v) /\ OfNet!Done(v)
      BY <2>2, <2>4, <3>1, <3>3 DEF OfNet!NodeLeaves, OfNet!Done
    <3> QED  BY <2>1, <3>4 DEF OfNet!Removal
  <2> QED  BY <2>3, <2>4
<1>3. ASSUME NEW x \in Ends, AddEdgeCall(x[1], x[2], x[3])  PROVE OfNet!AddEdge
  <2>1. PICK e \in Edges, v \in Nodes, w \in Nodes : e = x[1] /\ v = x[2] /\ w = x[3]
    BY DEF NetConstantsOK
  <2>2. /\ e \notin store.edges /\ v \in store.nodes /\ w \in store.nodes /\ result' = <<e, 0>>
        /\ store' = AddEdge(store, e, v, w)
    BY <1>3, <2>1 DEF AddEdgeCall
  <2>3. /\ store'.edges = store.edges \cup {e} /\ store'.n = [store.n EXCEPT ![e] = <<v, w>>]
        /\ store'.nodes = store.nodes
    BY <1>0, <2>2 DEF AddEdge, NetOK, NetTyped, NetFields
  <2>4. Joined(store') = With(Joined(store), e, {v, w})
    <3>1. e \in Edges \ store.edges
      BY <2>2
    <3>2. EndsOf(store', e) = {v, w} /\ \A d \in store.edges : EndsOf(store', d) = EndsOf(store, d)
      BY <1>0, <2>3, <3>1 DEF EndsOf, NetOK, NetTyped
    <3>3. PICK s : s = EndsOf(store', e)
      OBVIOUS
    <3>4. Joined(store') = With(Joined(store), e, s)
      BY ONLY <2>3, <3>2, <3>3, JoinedMore
    <3> QED  BY <3>2, <3>3, <3>4
  <2>5. NetContents(store') = [NetContents(store) EXCEPT !.ends = With(@, e, {v, w})]
    BY <2>3, <2>4 DEF NetContents
  <2>6. /\ e \in DOMAIN NetContents(store').ends \ DOMAIN NetContents(store).ends
        /\ v \in NetContents(store).nodes /\ w \in NetContents(store).nodes
    BY <2>2, <2>3 DEF NetContents, Joined
  <2> QED  BY <2>2, <2>5, <2>6 DEF OfNet!AddEdge, OfNet!With, OfNet!Done, With
<1>4. ASSUME NEW e \in Edges, RemoveEdgeCall(e) \/ CloseEdge(e)
      PROVE  e \in DOMAIN NetContents(store).ends /\ OfNet!EdgeLeaves(e)
  <2>1. e \in store.edges /\ store' = RemoveEdge(store, e)
    BY <1>4 DEF RemoveEdgeCall, CloseEdge
  <2>2. store'.edges = store.edges \ {e} /\ store'.n = store.n /\ store'.nodes = store.nodes
    BY <1>0, <2>1 DEF RemoveEdge, NetOK, NetTyped, NetFields
  <2>3. Joined(store') = Without(Joined(store), e)
    BY <2>2, JoinedLess
  <2>4. NetContents(store') = [NetContents(store) EXCEPT !.ends = Without(@, e)]
    BY <2>2, <2>3 DEF NetContents
  <2>5. OfNet!Bounds(e) = {}
    BY DEF OfNet!Bounds, NetContents
  <2>6. e \in DOMAIN NetContents(store).ends
    BY <2>1 DEF NetContents, Joined
  <2> QED  BY <2>4, <2>5, <2>6 DEF OfNet!EdgeLeaves, OfNet!Without, Without
<1>5. ASSUME NEW v \in Nodes, CloseNode(v)  PROVE OfNet!Dissolve
  <2>1. v \in NetContents(store).nodes /\ store.at[v] = {} /\ UNCHANGED result
    BY <1>5 DEF CloseNode, NetContents
  <2>2. ~OfNet!Busy(v)
    BY <1>0, <2>1, BusyNode DEF OfNet!Busy, NetContents
  <2>3. store'.nodes = store.nodes \ {v} /\ store'.edges = store.edges /\ store'.n = store.n
    BY <1>0, <1>5 DEF CloseNode, TakeNode, NetOK, NetTyped, NetFields
  <2>4. Joined(store') = Joined(store)
    BY <2>3, JoinedSame
  <2>5. NetContents(store') = [NetContents(store) EXCEPT !.nodes = @ \ {v}]
    BY <2>3, <2>4, SMTT(30) DEF NetContents
  <2>6. OfNet!NodeLeaves(v)
    BY <2>2, <2>5 DEF OfNet!NodeLeaves
  <2> QED  BY <2>1, <2>6 DEF OfNet!Dissolve
<1>6. ASSUME DelCall \/ EdgesClosed \/ NodesClosed
      PROVE  NetContents(store') = NetContents(store)
  <2>1. store'.nodes = store.nodes /\ store'.edges = store.edges /\ store'.n = store.n
    BY <1>0, <1>6 DEF DelCall, EdgesClosed, NodesClosed, NetOK, NetTyped, NetFields
  <2> QED  BY <2>1, JoinedSame DEF NetContents
<1>7. ASSUME DelCall  PROVE OfNet!Other
  <2>1. result' = <<None, None>> /\ NetContents(store') = NetContents(store)
    BY <1>6, <1>7 DEF DelCall
  <2>2. \A x \in NetContents(store).nodes \cup DOMAIN NetContents(store).ends \cup DOMAIN NetContents(store).sides : x # None
    BY <1>0 DEF NetContents, Joined, NetConstantsOK
  <2> QED  BY <2>1, <2>2 DEF OfNet!Other
<1>8. ASSUME NEW e \in Edges, RemoveEdgeCall(e)  PROVE OfNet!Removal
  BY <1>4, <1>8 DEF RemoveEdgeCall, OfNet!Removal, OfNet!Done
<1>9. ASSUME NEW e \in Edges, CloseEdge(e)  PROVE OfNet!Dissolve
  BY <1>4, <1>9 DEF CloseEdge, OfNet!Dissolve
<1>10. ASSUME EdgesClosed \/ NodesClosed  PROVE UNCHANGED OfNet!vars
  BY <1>6, <1>10 DEF EdgesClosed, NodesClosed, OfNet!vars
<1>11. CASE UNCHANGED vars
  BY <1>11 DEF vars, OfNet!vars
<1>12. CASE Next
  BY <1>12, <1>1, <1>2, <1>3, <1>5, <1>7, <1>8, <1>9, <1>10 DEF Next, Close, OfNet!ComplexNext
<1> QED
  BY <1>11, <1>12

\* Each call on a network does what it promises.
THEOREM NetServes == ASSUME NetConstantsOK  PROVE NetSpec => NetPromise
<1>1. Init => NetInv
  BY NetBegins
<1>2. NetInv /\ [Next]_vars => NetInv'
  BY NetStep
<1>3. NetInv /\ [Next]_vars => [OfNet!ComplexNext]_(OfNet!vars)
  BY NetKeepsPromise
<1> QED
  BY <1>1, <1>2, <1>3, PTL DEF NetSpec, NetPromise

-----------------------------------------------------------------------------
(* Meshes: what always holds of faces and sides.                           *)

FacesTyped(m) ==
  /\ {"faces", "facesLen", "f", "e"} \subseteq DOMAIN m
  /\ m.faces \subseteq Faces
  /\ m.f \in [Edges -> (Faces \cup {None}) \X (Faces \cup {None})]
  /\ m.e \in [Faces -> (Edges \cup {None}) \X (Edges \cup {None}) \X (Edges \cup {None})]

\* The two places of e have the faces that e bounds, the first place first.
Placed(m, e) ==
  /\ \A x \in Faces : x \in {m.f[e][1], m.f[e][2]} <=> x \in m.faces /\ e \in SidesOf(m, x)
  /\ m.f[e][2] # None => m.f[e][1] # None /\ m.f[e][1] # m.f[e][2]

FacesOK(m) ==
  /\ FacesTyped(m)
  /\ m.facesLen = Cardinality(m.faces)
  /\ \A x \in m.faces : SidesOf(m, x) \subseteq m.edges /\ Triangle(m, m.e[x])
  /\ \A e \in m.edges : Placed(m, e)

\* The places of an edge after a face came, and after it left.
Put(p, x) == IF p[1] = None THEN <<x, p[2]>> ELSE <<p[1], x>>
Drop(p, x) == IF p[1] = x THEN <<p[2], None>> ELSE <<p[1], None>>

\* A face takes a place of one edge, and nothing else changes.
LEMMA AttachMakes ==
  ASSUME NEW m, FacesTyped(m), NEW e \in Edges, NEW x \in Faces, NEW h, h = Attach(m, e, x)
  PROVE  /\ DOMAIN h = DOMAIN m /\ FacesTyped(h)
         /\ \A y \in DOMAIN m \ {"f"} : h[y] = m[y]
         /\ h.f[e] = Put(m.f[e], x) /\ \A d \in Edges \ {e} : h.f[d] = m.f[d]
<1>1. CASE m.f[e][1] = None
  <2>1. h = [m EXCEPT !.f[e][1] = x]
    BY <1>1 DEF Attach
  <2>2. /\ DOMAIN h = DOMAIN m /\ \A y \in DOMAIN m \ {"f"} : h[y] = m[y]
        /\ h.f = [m.f EXCEPT ![e] = [@ EXCEPT ![1] = x]]
    BY <2>1 DEF FacesTyped
  <2>3. [m.f[e] EXCEPT ![1] = x] = <<x, m.f[e][2]>>
    BY DEF FacesTyped
  <2> QED  BY <1>1, <2>2, <2>3 DEF FacesTyped, Put
<1>2. CASE m.f[e][1] # None
  <2>1. h = [m EXCEPT !.f[e][2] = x]
    BY <1>2 DEF Attach
  <2>2. /\ DOMAIN h = DOMAIN m /\ \A y \in DOMAIN m \ {"f"} : h[y] = m[y]
        /\ h.f = [m.f EXCEPT ![e] = [@ EXCEPT ![2] = x]]
    BY <2>1 DEF FacesTyped
  <2>3. [m.f[e] EXCEPT ![2] = x] = <<m.f[e][1], x>>
    BY DEF FacesTyped
  <2> QED  BY <1>2, <2>2, <2>3 DEF FacesTyped, Put
<1> QED
  BY <1>1, <1>2

\* A face leaves one edge, and nothing else changes.
LEMMA DetachMakes ==
  ASSUME NEW m, FacesTyped(m), NEW e \in Edges, NEW x \in Faces, NEW h, h = Detach(m, e, x)
  PROVE  /\ DOMAIN h = DOMAIN m /\ FacesTyped(h)
         /\ \A y \in DOMAIN m \ {"f"} : h[y] = m[y]
         /\ h.f[e] = Drop(m.f[e], x) /\ \A d \in Edges \ {e} : h.f[d] = m.f[d]
<1>1. /\ DOMAIN h = DOMAIN m /\ \A y \in DOMAIN m \ {"f"} : h[y] = m[y]
      /\ h.f = [m.f EXCEPT ![e] = IF @[1] = x THEN <<@[2], None>> ELSE <<@[1], None>>]
  BY DEF Detach, FacesTyped
<1>2. h.f[e] = Drop(m.f[e], x) /\ \A d \in Edges \ {e} : h.f[d] = m.f[d]
  BY <1>1 DEF FacesTyped, Drop
<1> QED
  BY <1>1, <1>2 DEF FacesTyped, Drop

\* The three edges of the new face get it one after the other.
LEMMA AddFaceMakes ==
  ASSUME NEW m, FacesTyped(m), NEW x \in Faces, NEW p \in Edges, NEW q \in Edges, NEW r \in Edges,
         p # q, q # r, r # p, NEW h, h = AddFace(m, x, <<p, q, r>>)
  PROVE  /\ DOMAIN h = DOMAIN m /\ FacesTyped(h)
         /\ \A y \in DOMAIN m \ {"f", "e", "faces", "facesLen"} : h[y] = m[y]
         /\ h.faces = m.faces \cup {x} /\ h.facesLen = m.facesLen + 1
         /\ h.e[x] = <<p, q, r>> /\ \A z \in Faces \ {x} : h.e[z] = m.e[z]
         /\ \A d \in {p, q, r} : h.f[d] = Put(m.f[d], x)
         /\ \A d \in Edges \ {p, q, r} : h.f[d] = m.f[d]
<1>1. PICK a : a = Attach(m, p, x)
  OBVIOUS
<1>2. PICK b : b = Attach(a, q, x)
  OBVIOUS
<1>3. PICK c : c = Attach(b, r, x)
  OBVIOUS
<1>4. /\ DOMAIN a = DOMAIN m /\ FacesTyped(a)
      /\ \A y \in DOMAIN m \ {"f"} : a[y] = m[y]
      /\ a.f[p] = Put(m.f[p], x) /\ \A d \in Edges \ {p} : a.f[d] = m.f[d]
  BY <1>1, AttachMakes, SMTT(30)
<1>5. /\ DOMAIN b = DOMAIN a /\ FacesTyped(b)
      /\ \A y \in DOMAIN a \ {"f"} : b[y] = a[y]
      /\ b.f[q] = Put(a.f[q], x) /\ \A d \in Edges \ {q} : b.f[d] = a.f[d]
  <2>1. FacesTyped(a)
    BY <1>4
  <2>2. b = Attach(a, q, x)
    BY ONLY <1>2
  <2> QED  BY ONLY <2>1, <2>2, q \in Edges, x \in Faces, AttachMakes, SMTT(30)
<1>6. /\ DOMAIN c = DOMAIN b /\ FacesTyped(c)
      /\ \A y \in DOMAIN b \ {"f"} : c[y] = b[y]
      /\ c.f[r] = Put(b.f[r], x) /\ \A d \in Edges \ {r} : c.f[d] = b.f[d]
  <2>1. FacesTyped(b)
    BY <1>5
  <2> QED  BY ONLY <1>3, <2>1, r \in Edges, x \in Faces, AttachMakes, SMTT(30)
<1>7. /\ \A d \in {p, q, r} : c.f[d] = Put(m.f[d], x)
      /\ \A d \in Edges \ {p, q, r} : c.f[d] = m.f[d]
  BY <1>4, <1>5, <1>6
<1>8. DOMAIN c = DOMAIN m /\ \A y \in DOMAIN m \ {"f"} : c[y] = m[y]
  BY <1>4, <1>5, <1>6
<1>9. h = [c EXCEPT !.e[x] = <<p, q, r>>, !.faces = @ \cup {x}, !.facesLen = @ + 1]
  BY <1>1, <1>2, <1>3 DEF AddFace
<1>10. /\ DOMAIN h = DOMAIN c /\ \A y \in DOMAIN c \ {"e", "faces", "facesLen"} : h[y] = c[y]
       /\ h.e = [c.e EXCEPT ![x] = <<p, q, r>>]
       /\ h.faces = c.faces \cup {x} /\ h.facesLen = c.facesLen + 1
  BY <1>6, <1>9 DEF FacesTyped
<1>11. h.f = c.f /\ c.faces = m.faces /\ c.facesLen = m.facesLen /\ c.e = m.e
  BY <1>6, <1>8, <1>10 DEF FacesTyped
<1>12. h.e[x] = <<p, q, r>> /\ \A z \in Faces \ {x} : h.e[z] = m.e[z]
  BY <1>10, <1>11 DEF FacesTyped
<1>13. FacesTyped(h)
  <2>1. <<p, q, r>> \in (Edges \cup {None}) \X (Edges \cup {None}) \X (Edges \cup {None})
    OBVIOUS
  <2>2. PICK t : t = <<p, q, r>>
    OBVIOUS
  <2>3. h.e = [c.e EXCEPT ![x] = t]
    BY <1>10, <2>2
  <2>4. h.e \in [Faces -> (Edges \cup {None}) \X (Edges \cup {None}) \X (Edges \cup {None})]
    BY ONLY <1>6, <2>1, <2>2, <2>3 DEF FacesTyped
  <2> QED  BY <1>6, <1>10, <1>11, <2>4 DEF FacesTyped
<1> QED
  BY <1>7, <1>8, <1>10, <1>11, <1>12, <1>13

\* Its edges lose a face one after the other.
LEMMA RemoveFaceMakes ==
  ASSUME NEW m, FacesTyped(m), NEW x \in Faces, NEW p \in Edges, NEW q \in Edges, NEW r \in Edges,
         p # q, q # r, r # p, m.e[x] = <<p, q, r>>, NEW h, h = RemoveFace(m, x)
  PROVE  /\ DOMAIN h = DOMAIN m /\ FacesTyped(h)
         /\ \A y \in DOMAIN m \ {"f", "e", "faces", "facesLen"} : h[y] = m[y]
         /\ h.faces = m.faces \ {x} /\ h.facesLen = m.facesLen - 1
         /\ \A z \in Faces \ {x} : h.e[z] = m.e[z]
         /\ \A d \in {p, q, r} : h.f[d] = Drop(m.f[d], x)
         /\ \A d \in Edges \ {p, q, r} : h.f[d] = m.f[d]
<1>1. PICK a : a = Detach(m, p, x)
  OBVIOUS
<1>2. PICK b : b = Detach(a, q, x)
  OBVIOUS
<1>3. PICK c : c = Detach(b, r, x)
  OBVIOUS
<1>4. /\ DOMAIN a = DOMAIN m /\ FacesTyped(a)
      /\ \A y \in DOMAIN m \ {"f"} : a[y] = m[y]
      /\ a.f[p] = Drop(m.f[p], x) /\ \A d \in Edges \ {p} : a.f[d] = m.f[d]
  BY <1>1, DetachMakes, SMTT(30)
<1>5. /\ DOMAIN b = DOMAIN a /\ FacesTyped(b)
      /\ \A y \in DOMAIN a \ {"f"} : b[y] = a[y]
      /\ b.f[q] = Drop(a.f[q], x) /\ \A d \in Edges \ {q} : b.f[d] = a.f[d]
  <2>1. FacesTyped(a)
    BY <1>4
  <2>2. b = Detach(a, q, x)
    BY ONLY <1>2
  <2> QED  BY ONLY <2>1, <2>2, q \in Edges, x \in Faces, DetachMakes, SMTT(30)
<1>6. /\ DOMAIN c = DOMAIN b /\ FacesTyped(c)
      /\ \A y \in DOMAIN b \ {"f"} : c[y] = b[y]
      /\ c.f[r] = Drop(b.f[r], x) /\ \A d \in Edges \ {r} : c.f[d] = b.f[d]
  <2>1. FacesTyped(b)
    BY <1>5
  <2> QED  BY ONLY <1>3, <2>1, r \in Edges, x \in Faces, DetachMakes, SMTT(30)
<1>7. /\ \A d \in {p, q, r} : c.f[d] = Drop(m.f[d], x)
      /\ \A d \in Edges \ {p, q, r} : c.f[d] = m.f[d]
  BY <1>4, <1>5, <1>6
<1>8. DOMAIN c = DOMAIN m /\ \A y \in DOMAIN m \ {"f"} : c[y] = m[y]
  BY <1>4, <1>5, <1>6
<1>9. h = [c EXCEPT !.e[x] = <<None, None, None>>, !.faces = @ \ {x}, !.facesLen = @ - 1]
  BY <1>1, <1>2, <1>3 DEF RemoveFace
<1>10. /\ DOMAIN h = DOMAIN c /\ \A y \in DOMAIN c \ {"e", "faces", "facesLen"} : h[y] = c[y]
       /\ h.e = [c.e EXCEPT ![x] = <<None, None, None>>]
       /\ h.faces = c.faces \ {x} /\ h.facesLen = c.facesLen - 1
  BY <1>6, <1>9 DEF FacesTyped
<1>11. h.f = c.f /\ c.faces = m.faces /\ c.facesLen = m.facesLen /\ c.e = m.e
  BY <1>6, <1>8, <1>10 DEF FacesTyped
<1>12. \A z \in Faces \ {x} : h.e[z] = m.e[z]
  BY <1>10, <1>11 DEF FacesTyped
<1>13. FacesTyped(h)
  BY <1>6, <1>10, <1>11 DEF FacesTyped
<1> QED
  BY <1>7, <1>8, <1>10, <1>11, <1>12, <1>13

\* Two different things are two.
LEMMA TwoOf == ASSUME NEW a, NEW b, a # b  PROVE Cardinality({a, b}) = 2
<1>1. PICK s : s = {a}
  OBVIOUS
<1>2. IsFiniteSet(s) /\ Cardinality(s) = 1 /\ b \notin s
  BY <1>1, FS_Singleton
<1>3. Cardinality(s \cup {b}) = 2
  BY ONLY <1>2, FS_AddElement
<1>4. {a, b} = s \cup {b}
  BY <1>1
<1> QED
  BY <1>3, <1>4

\* And three are three.
LEMMA ThreeOf == ASSUME NEW a, NEW b, NEW c, a # b, b # c, c # a  PROVE Cardinality({a, b, c}) = 3
<1>1. PICK s : s = {a}
  OBVIOUS
<1>2. IsFiniteSet(s) /\ Cardinality(s) = 1 /\ b \notin s
  BY <1>1, FS_Singleton
<1>3. PICK t : t = s \cup {b}
  OBVIOUS
<1>4. IsFiniteSet(t) /\ Cardinality(t) = 2
  BY ONLY <1>2, <1>3, FS_AddElement
<1>5. c \notin t /\ {a, b, c} = t \cup {c}
  BY <1>1, <1>3
<1> QED
  BY ONLY <1>4, <1>5, FS_AddElement

\* An edge has two faces just if its second place is taken.
LEMMA TwoFaces ==
  ASSUME NEW m, NEW e, Placed(m, e)
  PROVE  FacesLen(m, e) \in 0..2 /\ (FacesLen(m, e) = 2 <=> m.f[e][2] # None)
<1> DEFINE taken == {k \in 1..2 : m.f[e][k] # None}
<1>1. Cardinality({1}) = 1 /\ Cardinality({}) = 0
  BY FS_Singleton, FS_EmptySet
<1>2. Cardinality({1, 2}) = 2
  BY TwoOf
<1>3. CASE m.f[e][2] # None
  <2>1. taken = {1, 2}
    BY <1>3 DEF Placed
  <2> QED  BY <1>2, <1>3, <2>1 DEF FacesLen
<1>4. CASE m.f[e][2] = None
  <2>1. taken = {1} \/ taken = {}
    BY <1>4
  <2> QED  BY <1>1, <1>4, <2>1 DEF FacesLen
<1> QED
  BY <1>3, <1>4

\* The edges of a triangle are three.
LEMMA ThreeEdges ==
  ASSUME NEW m, NEW es, Triangle(m, es)
  PROVE  es[1] # es[2] /\ es[2] # es[3] /\ es[3] # es[1]
BY DEF Triangle

\* A triangle stays one as long as its edges keep their ends.
LEMMA TriangleStays ==
  ASSUME NEW m, NEW h, NEW es, Triangle(m, es),
         EndsOf(h, es[1]) = EndsOf(m, es[1]), EndsOf(h, es[2]) = EndsOf(m, es[2]),
         EndsOf(h, es[3]) = EndsOf(m, es[3]),
         EndsOf(h, es[1]) \subseteq h.nodes, EndsOf(h, es[2]) \subseteq h.nodes
  PROVE  Triangle(h, es)
<1>1. PICK a, b, c \in m.nodes :
        /\ a # b /\ b # c /\ c # a
        /\ EndsOf(m, es[1]) = {a, b} /\ EndsOf(m, es[2]) = {b, c} /\ EndsOf(m, es[3]) = {c, a}
  BY DEF Triangle
<1>2. a \in h.nodes /\ b \in h.nodes /\ c \in h.nodes
  BY <1>1
<1> QED
  BY <1>1, <1>2 DEF Triangle

\* Faces are right as long as the edges they are bounded by keep their places
\* and ends; an edge that comes has no face.
LEMMA FacesStay ==
  ASSUME NEW m, FacesOK(m), NEW h, NetOK(h), {"faces", "facesLen", "f", "e"} \subseteq DOMAIN h,
         h.faces = m.faces, h.facesLen = m.facesLen, h.e = m.e,
         h.f \in [Edges -> (Faces \cup {None}) \X (Faces \cup {None})],
         \A x \in m.faces : \A e \in SidesOf(m, x) : e \in h.edges /\ EndsOf(h, e) = EndsOf(m, e),
         \A e \in h.edges \cap m.edges : h.f[e] = m.f[e],
         \A e \in h.edges \ m.edges : h.f[e] = <<None, None>>,
         None \notin Faces
  PROVE  FacesOK(h)
<1>1. FacesTyped(h)
  BY DEF FacesOK, FacesTyped
<1>2. \A x : SidesOf(h, x) = SidesOf(m, x)
  BY DEF SidesOf
<1>3. ASSUME NEW x \in h.faces
      PROVE  SidesOf(h, x) \subseteq h.edges /\ Triangle(h, h.e[x])
  <2>1. SidesOf(h, x) \subseteq h.edges
    BY <1>2
  <2>2. PICK es : es = m.e[x]
    OBVIOUS
  <2>3. Triangle(m, es)
    BY <2>2 DEF FacesOK
  <2>4. es[1] \in SidesOf(m, x) /\ es[2] \in SidesOf(m, x) /\ es[3] \in SidesOf(m, x)
    BY <2>2 DEF SidesOf
  <2>5. \A e \in h.edges : EndsOf(h, e) \subseteq h.nodes
    BY DEF NetOK, Linked, EndsOf
  <2>6. Triangle(h, es)
    BY <2>3, <2>4, <2>5, TriangleStays
  <2> QED  BY <2>1, <2>2, <2>6
<1>4. ASSUME NEW e \in h.edges
      PROVE  Placed(h, e)
  <2>1. CASE e \in m.edges
    <3>1. Placed(m, e) /\ h.f[e] = m.f[e]
      BY <2>1 DEF FacesOK
    <3> QED  BY <1>2, <3>1 DEF Placed
  <2>2. CASE e \notin m.edges
    <3>1. h.f[e] = <<None, None>>
      BY <2>2
    <3>2. \A x \in m.faces : e \notin SidesOf(m, x)
      BY <2>2 DEF FacesOK
    <3> QED  BY <1>2, <3>1, <3>2 DEF Placed
  <2> QED  BY <2>1, <2>2
<1> QED
  BY <1>1, <1>3, <1>4 DEF FacesOK

\* A face takes the place that is free, and the other moves up when one leaves.
LEMMA PutPlaces ==
  ASSUME None \notin Faces, NEW p \in (Faces \cup {None}) \X (Faces \cup {None}),
         NEW x \in Faces, p[2] = None, p[1] # x
  PROVE  /\ \A z \in Faces : z \in {Put(p, x)[1], Put(p, x)[2]} <=> z \in {p[1], p[2]} \/ z = x
         /\ Put(p, x)[2] # None => Put(p, x)[1] # None /\ Put(p, x)[1] # Put(p, x)[2]
BY DEF Put

\* A face that leaves an edge leaves its second place free.
LEMMA DropPlaces ==
  ASSUME None \notin Faces, NEW p \in (Faces \cup {None}) \X (Faces \cup {None}),
         NEW x \in Faces, x \in {p[1], p[2]}, p[2] # None => p[1] # None /\ p[1] # p[2]
  PROVE  /\ \A z \in Faces : z \in {Drop(p, x)[1], Drop(p, x)[2]} <=> z \in {p[1], p[2]} /\ z # x
         /\ Drop(p, x)[2] = None
BY DEF Drop

MeshOK(m) == NetOK(m) /\ FacesOK(m)

\* A new vertex touches no edge and no face.
LEMMA MeshAddNode ==
  ASSUME MeshConstantsOK, NEW m, MeshOK(m), NEW v \in Nodes \ m.nodes, NEW h, h = AddNode(m, v)
  PROVE  /\ MeshOK(h) /\ h.closing = m.closing
         /\ h.nodes = m.nodes \cup {v} /\ h.edges = m.edges /\ h.n = m.n
         /\ h.faces = m.faces /\ h.e = m.e
<1>1. NetConstantsOK /\ None \notin Faces /\ NetOK(m) /\ FacesOK(m) /\ NetTyped(m) /\ FacesTyped(m)
  BY DEF MeshConstantsOK, MeshOK, NetOK, FacesOK
<1>2. NetOK(h)
  BY <1>1, AddNodeKeeps
<1>3. /\ DOMAIN h = DOMAIN m
      /\ \A x \in DOMAIN m \ {"nodes", "nodesLen", "at", "atLen"} : h[x] = m[x]
      /\ h.nodes = m.nodes \cup {v}
  BY <1>1 DEF AddNode, NetTyped, NetFields
<1>4. /\ h.edges = m.edges /\ h.n = m.n /\ h.closing = m.closing
      /\ h.faces = m.faces /\ h.facesLen = m.facesLen /\ h.e = m.e /\ h.f = m.f
      /\ {"faces", "facesLen", "f", "e"} \subseteq DOMAIN h
  BY <1>1, <1>3 DEF NetTyped, NetFields, FacesTyped
<1>5. \A x \in m.faces : \A e \in SidesOf(m, x) : e \in h.edges /\ EndsOf(h, e) = EndsOf(m, e)
  BY <1>1, <1>4 DEF FacesOK, EndsOf
<1>6. h.f \in [Edges -> (Faces \cup {None}) \X (Faces \cup {None})]
  BY <1>1, <1>4 DEF FacesTyped
<1>7. FacesOK(h)
  BY <1>1, <1>2, <1>4, <1>5, <1>6, FacesStay
<1> QED
  BY <1>2, <1>3, <1>4, <1>7 DEF MeshOK

\* A vertex without edges is the corner of no face.
LEMMA MeshTakeNode ==
  ASSUME MeshConstantsOK, NEW m, MeshOK(m), NEW v \in m.nodes, m.at[v] = {},
         NEW h, h = TakeNode(m, v)
  PROVE  /\ MeshOK(h) /\ h.closing = m.closing
         /\ h.nodes = m.nodes \ {v} /\ h.edges = m.edges /\ h.n = m.n
         /\ h.faces = m.faces /\ h.e = m.e
<1>1. NetConstantsOK /\ None \notin Faces /\ NetOK(m) /\ FacesOK(m) /\ NetTyped(m) /\ FacesTyped(m)
  BY DEF MeshConstantsOK, MeshOK, NetOK, FacesOK
<1>2. NetOK(h)
  BY <1>1, TakeNodeKeeps
<1>3. /\ DOMAIN h = DOMAIN m
      /\ \A x \in DOMAIN m \ {"nodes", "nodesLen"} : h[x] = m[x]
      /\ h.nodes = m.nodes \ {v}
  <2>1. v \in Nodes
    BY <1>1 DEF NetTyped
  <2> QED  BY <1>1, <2>1, TakeNodeMakes
<1>4. /\ h.edges = m.edges /\ h.n = m.n /\ h.closing = m.closing
      /\ h.faces = m.faces /\ h.facesLen = m.facesLen /\ h.e = m.e /\ h.f = m.f
      /\ {"faces", "facesLen", "f", "e"} \subseteq DOMAIN h
  BY <1>1, <1>3 DEF NetTyped, NetFields, FacesTyped
<1>5. \A x \in m.faces : \A e \in SidesOf(m, x) : e \in h.edges /\ EndsOf(h, e) = EndsOf(m, e)
  BY <1>1, <1>4 DEF FacesOK, EndsOf
<1>6. h.f \in [Edges -> (Faces \cup {None}) \X (Faces \cup {None})]
  BY <1>1, <1>4 DEF FacesTyped
<1>7. FacesOK(h)
  BY <1>1, <1>2, <1>4, <1>5, <1>6, FacesStay
<1> QED
  BY <1>2, <1>3, <1>4, <1>7 DEF MeshOK

\* The new edge has no face.
LEMMA MeshAddEdge ==
  ASSUME MeshConstantsOK, NEW m, MeshOK(m), NEW e \in Edges \ m.edges,
         NEW v \in m.nodes, NEW w \in m.nodes, NEW h, h = AddMeshEdge(m, e, v, w)
  PROVE  /\ MeshOK(h) /\ h.closing = m.closing
         /\ h.nodes = m.nodes /\ h.edges = m.edges \cup {e} /\ EndsOf(h, e) = {v, w}
         /\ \A d \in m.edges : EndsOf(h, d) = EndsOf(m, d)
         /\ h.faces = m.faces /\ h.e = m.e
<1>1. NetConstantsOK /\ None \notin Faces /\ NetOK(m) /\ FacesOK(m) /\ NetTyped(m) /\ FacesTyped(m)
  BY DEF MeshConstantsOK, MeshOK, NetOK, FacesOK
<1>2. PICK k : k = AddEdge(m, e, v, w)
  OBVIOUS
<1>3. NetOK(k)
  BY <1>1, <1>2, AddEdgeKeeps
<1>4. /\ DOMAIN k = DOMAIN m
      /\ \A x \in DOMAIN m \ {"n", "at", "atLen", "edges", "edgesLen"} : k[x] = m[x]
      /\ k.edges = m.edges \cup {e} /\ k.n = [m.n EXCEPT ![e] = <<v, w>>]
  <2>1. e \in Edges /\ v \in Nodes /\ w \in Nodes /\ NetTyped(m)
    BY <1>1 DEF NetTyped
  <2> QED  BY ONLY <1>2, <2>1, AddEdgeMakes, SMTT(30)
<1>5. h = [k EXCEPT !.f[e] = <<None, None>>]
  BY <1>2 DEF AddMeshEdge
<1>6. /\ DOMAIN h = DOMAIN k /\ \A x \in DOMAIN k \ {"f"} : h[x] = k[x]
      /\ h.f = [m.f EXCEPT ![e] = <<None, None>>]
  BY <1>1, <1>4, <1>5 DEF FacesTyped
<1>7. NetOK(h)
  BY <1>3, <1>6, SameNet DEF NetOK, NetTyped, NetFields
<1>8. /\ h.edges = m.edges \cup {e} /\ h.n = [m.n EXCEPT ![e] = <<v, w>>]
      /\ h.nodes = m.nodes /\ h.closing = m.closing
      /\ h.faces = m.faces /\ h.facesLen = m.facesLen /\ h.e = m.e
      /\ {"faces", "facesLen", "f", "e"} \subseteq DOMAIN h
  BY <1>1, <1>4, <1>6 DEF NetTyped, NetFields, FacesTyped
<1>9. EndsOf(h, e) = {v, w} /\ \A d \in m.edges : EndsOf(h, d) = EndsOf(m, d)
  <2>1. m.edges \subseteq Edges /\ m.n \in [Edges -> (Nodes \cup {None}) \X (Nodes \cup {None})]
    BY <1>1 DEF NetTyped
  <2> QED  BY <1>8, <2>1 DEF EndsOf
<1>10. \A x \in m.faces : \A d \in SidesOf(m, x) : d \in h.edges /\ EndsOf(h, d) = EndsOf(m, d)
  BY <1>1, <1>8, <1>9 DEF FacesOK
<1>11. /\ h.f \in [Edges -> (Faces \cup {None}) \X (Faces \cup {None})]
       /\ \A d \in h.edges \cap m.edges : h.f[d] = m.f[d]
       /\ \A d \in h.edges \ m.edges : h.f[d] = <<None, None>>
  BY <1>1, <1>6, <1>8 DEF NetTyped, FacesTyped
<1>12. FacesOK(h)
  BY <1>1, <1>7, <1>8, <1>10, <1>11, FacesStay
<1> QED
  BY <1>7, <1>8, <1>9, <1>12 DEF MeshOK

\* Only an edge without a face leaves.
LEMMA MeshRemoveEdge ==
  ASSUME MeshConstantsOK, NEW m, MeshOK(m), NEW e \in m.edges, m.f[e] = <<None, None>>,
         NEW h, h = RemoveMeshEdge(m, e)
  PROVE  /\ MeshOK(h) /\ h.closing = m.closing
         /\ h.nodes = m.nodes /\ h.edges = m.edges \ {e}
         /\ \A d \in h.edges : h.n[d] = m.n[d]
         /\ h.faces = m.faces /\ h.e = m.e
<1>1. NetConstantsOK /\ None \notin Faces /\ NetOK(m) /\ FacesOK(m) /\ NetTyped(m) /\ FacesTyped(m)
  BY DEF MeshConstantsOK, MeshOK, NetOK, FacesOK
<1>2. PICK k : k = RemoveEdge(m, e)
  OBVIOUS
<1>3. NetOK(k)
  BY <1>1, <1>2, RemoveEdgeKeeps
<1>4. /\ DOMAIN k = DOMAIN m
      /\ \A x \in DOMAIN m \ {"at", "atLen", "edges", "edgesLen"} : k[x] = m[x]
      /\ k.edges = m.edges \ {e}
  <2>1. e \in Edges /\ m.n[e][1] \in Nodes /\ m.n[e][2] \in Nodes
    BY <1>1 DEF NetOK, NetTyped, Linked
  <2> QED  BY <1>1, <1>2, <2>1, RemoveEdgeMakes
<1>5. h = [k EXCEPT !.n[e] = <<None, None>>]
  BY <1>2 DEF RemoveMeshEdge
<1>6. /\ DOMAIN h = DOMAIN k /\ \A x \in DOMAIN k \ {"n"} : h[x] = k[x]
      /\ h.n = [k.n EXCEPT ![e] = <<None, None>>]
  BY <1>3, <1>5 DEF NetOK, NetTyped, NetFields
<1>7. NetOK(h)
  <2>1. e \in Edges \ k.edges
    BY <1>1, <1>4 DEF NetTyped
  <2>2. NetFields \subseteq DOMAIN h /\ \A x \in NetFields \ {"closing", "n"} : h[x] = k[x]
    BY <1>3, <1>6 DEF NetOK, NetTyped
  <2> QED  BY <1>3, <1>6, <2>1, <2>2, ForgetEnds
<1>8. /\ h.edges = m.edges \ {e} /\ k.n = m.n
      /\ h.nodes = m.nodes /\ h.closing = m.closing
      /\ h.faces = m.faces /\ h.facesLen = m.facesLen /\ h.e = m.e /\ h.f = m.f
      /\ {"faces", "facesLen", "f", "e"} \subseteq DOMAIN h
  BY <1>1, <1>4, <1>6 DEF NetTyped, NetFields, FacesTyped
<1>9. \A d \in h.edges : h.n[d] = m.n[d] /\ EndsOf(h, d) = EndsOf(m, d)
  BY <1>1, <1>6, <1>8 DEF EndsOf, NetTyped
<1>10. ASSUME NEW x \in m.faces
       PROVE  \A d \in SidesOf(m, x) : d \in h.edges /\ EndsOf(h, d) = EndsOf(m, d)
  <2>1. Placed(m, e) /\ SidesOf(m, x) \subseteq m.edges /\ x \in Faces
    BY <1>1 DEF FacesOK, FacesTyped
  <2>2. e \notin SidesOf(m, x)
    BY <1>1, <2>1 DEF Placed
  <2> QED  BY <1>8, <1>9, <2>1, <2>2
<1>11. h.f \in [Edges -> (Faces \cup {None}) \X (Faces \cup {None})]
  BY <1>1, <1>8 DEF FacesTyped
<1>12. FacesOK(h)
  BY <1>1, <1>7, <1>8, <1>10, <1>11, FacesStay
<1> QED
  BY <1>7, <1>8, <1>9, <1>12 DEF MeshOK

\* An edge that swaps its ends has the same ends.
LEMMA MeshSwap ==
  ASSUME MeshConstantsOK, NEW m, MeshOK(m), NEW e \in m.edges,
         NEW h, h = [m EXCEPT !.n[e] = <<@[2], @[1]>>]
  PROVE  /\ MeshOK(h) /\ h.closing = m.closing
         /\ h.nodes = m.nodes /\ h.edges = m.edges
         /\ \A d \in m.edges : EndsOf(h, d) = EndsOf(m, d)
         /\ h.faces = m.faces /\ h.e = m.e
<1>1. NetConstantsOK /\ None \notin Faces /\ NetOK(m) /\ FacesOK(m) /\ NetTyped(m) /\ FacesTyped(m)
  BY DEF MeshConstantsOK, MeshOK, NetOK, FacesOK
<1>2. /\ DOMAIN h = DOMAIN m /\ \A x \in DOMAIN m \ {"n"} : h[x] = m[x]
      /\ h.n = [m.n EXCEPT ![e] = <<@[2], @[1]>>]
  BY <1>1 DEF NetTyped, NetFields
<1>3. NetOK(h)
  <2>1. NetFields \subseteq DOMAIN h /\ \A x \in NetFields \ {"n"} : h[x] = m[x]
    BY <1>1, <1>2 DEF NetTyped
  <2> QED  BY <1>1, <1>2, <2>1, SwapEnds
<1>4. /\ h.edges = m.edges /\ h.nodes = m.nodes /\ h.closing = m.closing
      /\ h.faces = m.faces /\ h.facesLen = m.facesLen /\ h.e = m.e /\ h.f = m.f
      /\ {"faces", "facesLen", "f", "e"} \subseteq DOMAIN h
  BY <1>1, <1>2 DEF NetTyped, NetFields, FacesTyped
<1>5. \A d \in m.edges : EndsOf(h, d) = EndsOf(m, d)
  BY <1>1, <1>2 DEF EndsOf, NetTyped
<1>6. \A x \in m.faces : \A d \in SidesOf(m, x) : d \in h.edges /\ EndsOf(h, d) = EndsOf(m, d)
  BY <1>1, <1>4, <1>5 DEF FacesOK
<1>7. h.f \in [Edges -> (Faces \cup {None}) \X (Faces \cup {None})]
  BY <1>1, <1>4 DEF FacesTyped
<1>8. FacesOK(h)
  BY <1>1, <1>3, <1>4, <1>6, <1>7, FacesStay
<1> QED
  BY <1>3, <1>4, <1>5, <1>8 DEF MeshOK

\* Triangles are a matter of nodes and ends.
LEMMA SameTriangles ==
  ASSUME NEW m, NEW h, h.nodes = m.nodes, h.n = m.n, NEW es, Triangle(m, es)
  PROVE  Triangle(h, es)
<1>1. \A e : EndsOf(h, e) = EndsOf(m, e)
  BY DEF EndsOf
<1> QED
  BY <1>1 DEF Triangle

\* A face comes to three edges that have a place for it.
LEMMA MeshAddFace ==
  ASSUME MeshConstantsOK, NEW m, MeshOK(m), NEW x \in Faces \ m.faces,
         NEW p \in m.edges, NEW q \in m.edges, NEW r \in m.edges, Triangle(m, <<p, q, r>>),
         FacesLen(m, p) # 2, FacesLen(m, q) # 2, FacesLen(m, r) # 2,
         NEW h, h = AddFace(m, x, <<p, q, r>>)
  PROVE  /\ MeshOK(h) /\ h.closing = m.closing
         /\ h.nodes = m.nodes /\ h.edges = m.edges /\ h.n = m.n
         /\ h.faces = m.faces \cup {x} /\ SidesOf(h, x) = {p, q, r}
         /\ \A z \in m.faces : SidesOf(h, z) = SidesOf(m, z)
<1>1. /\ NetConstantsOK /\ IsFiniteSet(Faces) /\ None \notin Faces
      /\ NetOK(m) /\ FacesOK(m) /\ NetTyped(m) /\ FacesTyped(m)
      /\ p \in Edges /\ q \in Edges /\ r \in Edges /\ p # q /\ q # r /\ r # p
  <2>1. p # q /\ q # r /\ r # p
    BY ThreeEdges
  <2> QED  BY <2>1 DEF MeshConstantsOK, MeshOK, NetOK, FacesOK, NetTyped
<1>2. /\ DOMAIN h = DOMAIN m /\ FacesTyped(h)
      /\ \A y \in DOMAIN m \ {"f", "e", "faces", "facesLen"} : h[y] = m[y]
      /\ h.faces = m.faces \cup {x} /\ h.facesLen = m.facesLen + 1
      /\ h.e[x] = <<p, q, r>> /\ \A z \in Faces \ {x} : h.e[z] = m.e[z]
      /\ \A d \in {p, q, r} : h.f[d] = Put(m.f[d], x)
      /\ \A d \in Edges \ {p, q, r} : h.f[d] = m.f[d]
  BY <1>1, AddFaceMakes
<1>3. NetOK(h)
  <2>1. NetFields \subseteq DOMAIN h /\ \A y \in NetFields \ {"closing"} : h[y] = m[y]
    BY <1>1, <1>2 DEF NetTyped, NetFields
  <2> QED  BY ONLY <1>1, <2>1, SameNet
<1>4. h.nodes = m.nodes /\ h.edges = m.edges /\ h.n = m.n /\ h.closing = m.closing
  BY <1>1, <1>2 DEF NetTyped, NetFields
<1>5. SidesOf(h, x) = {p, q, r}
  BY <1>2 DEF SidesOf
<1>6. m.faces \subseteq Faces /\ \A z \in m.faces : h.e[z] = m.e[z] /\ SidesOf(h, z) = SidesOf(m, z)
  <2>1. m.faces \subseteq Faces /\ \A z \in m.faces : h.e[z] = m.e[z]
    BY <1>1, <1>2 DEF FacesTyped
  <2> QED  BY <2>1 DEF SidesOf
<1>7. h.facesLen = Cardinality(h.faces)
  BY <1>1, <1>2, <1>6, FS_Subset, FS_AddElement DEF FacesOK
<1>8. ASSUME NEW z \in h.faces
      PROVE  SidesOf(h, z) \subseteq h.edges /\ Triangle(h, h.e[z])
  <2>1. CASE z = x
    <3>1. Triangle(h, <<p, q, r>>)
      BY <1>4, SameTriangles
    <3> QED  BY <1>2, <1>4, <1>5, <2>1, <3>1
  <2>2. CASE z \in m.faces
    <3>1. Triangle(m, m.e[z]) /\ SidesOf(m, z) \subseteq m.edges
      BY <1>1, <2>2 DEF FacesOK
    <3>2. Triangle(h, m.e[z])
      BY <1>4, <3>1, SameTriangles
    <3> QED  BY <1>4, <1>6, <2>2, <3>1, <3>2
  <2> QED  BY <1>2, <2>1, <2>2
<1>9. ASSUME NEW d \in h.edges
      PROVE  Placed(h, d)
  <2>1. /\ Placed(m, d) /\ d \in Edges
        /\ m.f[d] \in (Faces \cup {None}) \X (Faces \cup {None})
    BY <1>1, <1>4 DEF FacesOK, FacesTyped, NetTyped
  <2>2. CASE d \in {p, q, r}
    <3>1. m.f[d][2] = None
      BY <2>1, <2>2, TwoFaces
    <3>2. m.f[d][1] # x
      BY <2>1 DEF Placed
    <3>3. PICK o : o = m.f[d]
      OBVIOUS
    <3>4. /\ \A z \in Faces : z \in {Put(o, x)[1], Put(o, x)[2]} <=> z \in {o[1], o[2]} \/ z = x
          /\ Put(o, x)[2] # None => Put(o, x)[1] # None /\ Put(o, x)[1] # Put(o, x)[2]
      BY <1>1, <2>1, <3>1, <3>2, <3>3, PutPlaces
    <3>5. h.f[d] = Put(o, x)
      BY <1>2, <2>2, <3>3
    <3>6. \A z \in Faces : z \in h.faces /\ d \in SidesOf(h, z) <=> (z \in m.faces /\ d \in SidesOf(m, z)) \/ z = x
      BY <1>2, <1>5, <1>6, <2>2
    <3> QED  BY <2>1, <3>3, <3>4, <3>5, <3>6 DEF Placed
  <2>3. CASE d \notin {p, q, r}
    <3>1. h.f[d] = m.f[d]
      BY <1>2, <2>1, <2>3
    <3>2. \A z \in Faces : z \in h.faces /\ d \in SidesOf(h, z) <=> z \in m.faces /\ d \in SidesOf(m, z)
      BY <1>2, <1>5, <1>6, <2>3
    <3> QED  BY <2>1, <3>1, <3>2 DEF Placed
  <2> QED  BY <2>2, <2>3
<1>10. FacesOK(h)
  BY <1>2, <1>7, <1>8, <1>9 DEF FacesOK
<1> QED
  BY <1>2, <1>3, <1>4, <1>5, <1>6, <1>10 DEF MeshOK

\* A face leaves its three edges, and the other face of each moves up.
LEMMA MeshRemoveFace ==
  ASSUME MeshConstantsOK, NEW m, MeshOK(m), NEW x \in m.faces, NEW h, h = RemoveFace(m, x)
  PROVE  /\ MeshOK(h) /\ h.closing = m.closing
         /\ h.nodes = m.nodes /\ h.edges = m.edges /\ h.n = m.n
         /\ h.faces = m.faces \ {x} /\ \A z \in h.faces : SidesOf(h, z) = SidesOf(m, z)
<1>1. /\ NetConstantsOK /\ IsFiniteSet(Faces) /\ None \notin Faces /\ x \in Faces
      /\ NetOK(m) /\ FacesOK(m) /\ NetTyped(m) /\ FacesTyped(m)
  BY DEF MeshConstantsOK, MeshOK, NetOK, FacesOK, FacesTyped
<1>2. PICK p \in Edges, q \in Edges, r \in Edges :
        m.e[x] = <<p, q, r>> /\ SidesOf(m, x) = {p, q, r} /\ p # q /\ q # r /\ r # p
  <2>1. m.e[x] \in (Edges \cup {None}) \X (Edges \cup {None}) \X (Edges \cup {None})
    BY <1>1 DEF FacesTyped
  <2>2. PICK p, q, r : m.e[x] = <<p, q, r>>
    BY <2>1
  <2>3. SidesOf(m, x) = {p, q, r}
    BY <2>2 DEF SidesOf
  <2>4. p # q /\ q # r /\ r # p
    <3>1. Triangle(m, <<p, q, r>>)
      BY <1>1, <2>2 DEF FacesOK
    <3> QED  BY <3>1, ThreeEdges
  <2>5. p \in Edges /\ q \in Edges /\ r \in Edges
    BY <1>1, <2>3 DEF FacesOK, NetTyped
  <2> QED  BY <2>2, <2>3, <2>4, <2>5
<1>3. /\ DOMAIN h = DOMAIN m /\ FacesTyped(h)
      /\ \A y \in DOMAIN m \ {"f", "e", "faces", "facesLen"} : h[y] = m[y]
      /\ h.faces = m.faces \ {x} /\ h.facesLen = m.facesLen - 1
      /\ \A z \in Faces \ {x} : h.e[z] = m.e[z]
      /\ \A d \in {p, q, r} : h.f[d] = Drop(m.f[d], x)
      /\ \A d \in Edges \ {p, q, r} : h.f[d] = m.f[d]
  BY <1>1, <1>2, RemoveFaceMakes
<1>4. NetOK(h)
  BY <1>1, <1>3, SameNet DEF NetTyped, NetFields
<1>5. h.nodes = m.nodes /\ h.edges = m.edges /\ h.n = m.n /\ h.closing = m.closing
  BY <1>1, <1>3 DEF NetTyped, NetFields
<1>6. m.faces \subseteq Faces /\ \A z \in h.faces : h.e[z] = m.e[z] /\ SidesOf(h, z) = SidesOf(m, z)
  BY <1>1, <1>3 DEF SidesOf, FacesTyped
<1>7. h.facesLen = Cardinality(h.faces)
  BY <1>1, <1>3, <1>6, FS_Subset, FS_RemoveElement DEF FacesOK
<1>8. ASSUME NEW z \in h.faces
      PROVE  SidesOf(h, z) \subseteq h.edges /\ Triangle(h, h.e[z])
  <2>1. Triangle(m, m.e[z]) /\ SidesOf(m, z) \subseteq m.edges
    BY <1>1, <1>3 DEF FacesOK
  <2>2. Triangle(h, m.e[z])
    BY <1>5, <2>1, SameTriangles
  <2> QED  BY <1>5, <1>6, <2>1, <2>2
<1>9. ASSUME NEW d \in h.edges
      PROVE  Placed(h, d)
  <2>1. /\ Placed(m, d) /\ d \in Edges
        /\ m.f[d] \in (Faces \cup {None}) \X (Faces \cup {None})
    BY <1>1, <1>5 DEF FacesOK, FacesTyped, NetTyped
  <2>2. CASE d \in {p, q, r}
    <3>1. PICK o : o = m.f[d]
      OBVIOUS
    <3>2. x \in {o[1], o[2]} /\ (o[2] # None => o[1] # None /\ o[1] # o[2])
      BY <1>1, <1>2, <2>1, <2>2, <3>1 DEF Placed
    <3>3. /\ \A z \in Faces : z \in {Drop(o, x)[1], Drop(o, x)[2]} <=> z \in {o[1], o[2]} /\ z # x
          /\ Drop(o, x)[2] = None
      BY <1>1, <2>1, <3>1, <3>2, DropPlaces
    <3>4. h.f[d] = Drop(o, x)
      BY <1>3, <2>2, <3>1
    <3>5. \A z \in Faces : z \in h.faces /\ d \in SidesOf(h, z) <=> z \in m.faces /\ d \in SidesOf(m, z) /\ z # x
      BY <1>3, <1>6
    <3> QED  BY <2>1, <3>1, <3>3, <3>4, <3>5 DEF Placed
  <2>3. CASE d \notin {p, q, r}
    <3>1. h.f[d] = m.f[d]
      BY <1>3, <2>1, <2>3
    <3>2. \A z \in Faces : z \in h.faces /\ d \in SidesOf(h, z) <=> z \in m.faces /\ d \in SidesOf(m, z)
      BY <1>2, <1>3, <1>6, <2>3
    <3> QED  BY <2>1, <3>1, <3>2 DEF Placed
  <2> QED  BY <2>2, <2>3
<1>10. FacesOK(h)
  BY <1>3, <1>7, <1>8, <1>9 DEF FacesOK
<1> QED
  BY <1>3, <1>4, <1>5, <1>6, <1>10 DEF MeshOK

-----------------------------------------------------------------------------
(* The mesh and its properties.                                            *)

\* borMesh3Del2 takes the faces first, then the edges.
MeshClosingOK(m) ==
  /\ m.closing \in {"open", "faces", "edges", "nodes", "freed"}
  /\ m.closing \in {"edges", "nodes", "freed"} => m.faces = {}
  /\ m.closing \in {"nodes", "freed"} => m.edges = {}
  /\ m.closing = "freed" => m.nodes = {}

MeshInv == MeshOK(store) /\ MeshClosingOK(store)

\* The empty mesh is right.
LEMMA MeshBegins == ASSUME MeshConstantsOK, MeshInit  PROVE MeshInv
<1>1. store = EmptyMesh
  BY DEF MeshInit
<1>2. NetFields \cup {"faces", "facesLen", "f", "e"} \subseteq DOMAIN store
  BY <1>1 DEF EmptyMesh, NetFields
<1>3. /\ store.faces = {} /\ store.facesLen = 0
      /\ store.f = [e \in Edges |-> <<None, None>>]
      /\ store.e = [x \in Faces |-> <<None, None, None>>]
      /\ store.nodes = {} /\ store.nodesLen = 0 /\ store.edges = {} /\ store.edgesLen = 0
      /\ store.at = [v \in Nodes |-> {}] /\ store.atLen = [v \in Nodes |-> 0]
      /\ store.n = [e \in Edges |-> <<None, None>>] /\ store.closing = "open"
  BY <1>1 DEF EmptyMesh
<1>4. NetOK(store)
  BY <1>2, <1>3, FS_EmptySet DEF NetOK, NetTyped, Linked, Counted
<1>5. FacesOK(store)
  BY <1>2, <1>3, FS_EmptySet DEF FacesOK, FacesTyped
<1> QED
  BY <1>3, <1>4, <1>5 DEF MeshInv, MeshOK, MeshClosingOK

\* Only the progress of the deletion changes.
LEMMA MeshCloses ==
  ASSUME MeshConstantsOK, NEW m, MeshOK(m), NEW to, NEW h, h = [m EXCEPT !.closing = to]
  PROVE  /\ MeshOK(h) /\ h.closing = to
         /\ h.nodes = m.nodes /\ h.edges = m.edges /\ h.n = m.n
         /\ h.faces = m.faces /\ h.e = m.e
<1>1. None \notin Faces /\ NetOK(m) /\ FacesOK(m) /\ NetTyped(m) /\ FacesTyped(m)
  BY DEF MeshConstantsOK, MeshOK, NetOK, FacesOK
<1>2. DOMAIN h = DOMAIN m /\ h.closing = to /\ \A y \in DOMAIN m \ {"closing"} : h[y] = m[y]
  BY <1>1 DEF NetTyped, NetFields
<1>3. NetOK(h)
  <2>1. NetFields \subseteq DOMAIN h /\ \A y \in NetFields \ {"closing"} : h[y] = m[y]
    BY <1>1, <1>2 DEF NetTyped
  <2> QED  BY ONLY <1>1, <2>1, SameNet
<1>4. /\ h.nodes = m.nodes /\ h.edges = m.edges /\ h.n = m.n
      /\ h.faces = m.faces /\ h.facesLen = m.facesLen /\ h.e = m.e /\ h.f = m.f
      /\ {"faces", "facesLen", "f", "e"} \subseteq DOMAIN h
  BY <1>1, <1>2 DEF NetTyped, NetFields, FacesTyped
<1>5. \A x \in m.faces : \A d \in SidesOf(m, x) : d \in h.edges /\ EndsOf(h, d) = EndsOf(m, d)
  BY <1>1, <1>4 DEF FacesOK, EndsOf
<1>6. h.f \in [Edges -> (Faces \cup {None}) \X (Faces \cup {None})]
  BY <1>1, <1>4 DEF FacesTyped
<1>7. FacesOK(h)
  BY <1>1, <1>3, <1>4, <1>5, <1>6, FacesStay
<1> QED
  BY <1>2, <1>3, <1>4, <1>7 DEF MeshOK

\* A call that adds a face names a new face and three different edges.
LEMMA FaceGiven ==
  ASSUME MeshConstantsOK, NEW x \in Sides, AddFaceCall(x[1], <<x[2], x[3], x[4]>>)
  PROVE  \E z \in Faces \ store.faces, p, q, r \in store.edges :
           /\ x = <<z, p, q, r>> /\ Triangle(store, <<p, q, r>>)
           /\ \/ /\ \E d \in {p, q, r} : FacesLen(store, d) = 2
                 /\ UNCHANGED store /\ result' = <<z, -1>>
              \/ /\ \A d \in {p, q, r} : FacesLen(store, d) # 2
                 /\ store' = AddFace(store, z, <<p, q, r>>) /\ result' = <<z, 0>>
<1>1. PICK z \in Faces, p \in Edges, q \in Edges, r \in Edges : x = <<z, p, q, r>>
  BY DEF MeshConstantsOK
<1>2. x[1] = z /\ x[2] = p /\ x[3] = q /\ x[4] = r
  BY <1>1
<1>3. PICK es : es = <<p, q, r>>
  OBVIOUS
<1>4. AddFaceCall(z, es)
  BY <1>2, <1>3
<1>5. es[1] = p /\ es[2] = q /\ es[3] = r
  BY <1>3
<1>6. (\E i \in 1..3 : FacesLen(store, es[i]) = 2) <=> \E d \in {p, q, r} : FacesLen(store, d) = 2
  BY <1>5
<1>7. z \notin store.faces /\ p \in store.edges /\ q \in store.edges /\ r \in store.edges /\ Triangle(store, es)
  BY <1>4, <1>5 DEF AddFaceCall
<1>8. \/ /\ \E d \in {p, q, r} : FacesLen(store, d) = 2
         /\ UNCHANGED store /\ result' = <<z, -1>>
      \/ /\ \A d \in {p, q, r} : FacesLen(store, d) # 2
         /\ store' = AddFace(store, z, es) /\ result' = <<z, 0>>
  BY <1>4, <1>6 DEF AddFaceCall
<1> QED
  BY <1>1, <1>3, <1>7, <1>8

\* Every call, and every step of a deletion, leaves the mesh right.
LEMMA MeshStep == ASSUME MeshConstantsOK, MeshInv, [MeshNext]_vars  PROVE MeshInv'
<1>0. MeshOK(store) /\ store.nodes \subseteq Nodes /\ store.edges \subseteq Edges
  BY DEF MeshInv, MeshOK, NetOK, NetTyped
<1>1. ASSUME NEW v \in Nodes, AddNodeCall(v)  PROVE MeshInv'
  <2>1. v \in Nodes \ store.nodes /\ store' = AddNode(store, v) /\ store.closing = "open"
    BY <1>1 DEF AddNodeCall
  <2>2. MeshOK(store') /\ store'.closing = "open"
    BY <1>0, <2>1, MeshAddNode
  <2> QED  BY <2>2 DEF MeshInv, MeshClosingOK
<1>2. ASSUME NEW v \in Nodes, RemoveNodeCall(v)  PROVE MeshInv'
  <2>1. CASE store.at[v] # {}
    BY <1>2, <2>1 DEF RemoveNodeCall, MeshInv
  <2>2. CASE store.at[v] = {}
    <3>1. v \in store.nodes /\ store' = TakeNode(store, v) /\ store.closing = "open"
      BY <1>2, <2>2 DEF RemoveNodeCall
    <3>2. MeshOK(store') /\ store'.closing = "open"
      BY <1>0, <2>2, <3>1, MeshTakeNode
    <3> QED  BY <3>2 DEF MeshInv, MeshClosingOK
  <2> QED  BY <2>1, <2>2
<1>3. ASSUME NEW x \in Ends, AddMeshEdgeCall(x[1], x[2], x[3])  PROVE MeshInv'
  <2>1. PICK e \in Edges, v \in Nodes, w \in Nodes : e = x[1] /\ v = x[2] /\ w = x[3]
    BY DEF MeshConstantsOK, NetConstantsOK
  <2>2. /\ e \in Edges \ store.edges /\ v \in store.nodes /\ w \in store.nodes
        /\ store' = AddMeshEdge(store, e, v, w) /\ store.closing = "open"
    BY <1>3, <2>1 DEF AddMeshEdgeCall
  <2>3. MeshOK(store') /\ store'.closing = "open"
    BY <1>0, <2>2, MeshAddEdge
  <2> QED  BY <2>3 DEF MeshInv, MeshClosingOK
<1>4. ASSUME NEW e \in Edges, RemoveMeshEdgeCall(e) \/ CloseMeshEdge(e)  PROVE MeshInv'
  <2>1. CASE UNCHANGED store
    BY <2>1 DEF MeshInv
  <2>2. CASE store.f[e] = <<None, None>> /\ e \in store.edges /\ store' = RemoveMeshEdge(store, e)
    <3>1. /\ MeshOK(store') /\ store'.closing = store.closing /\ store'.faces = store.faces
          /\ store'.nodes = store.nodes /\ store'.edges = store.edges \ {e}
      BY <1>0, <2>2, MeshRemoveEdge
    <3> QED  BY <3>1 DEF MeshInv, MeshClosingOK
  <2> QED  BY <1>4, <2>1, <2>2 DEF RemoveMeshEdgeCall, CloseMeshEdge
<1>5. ASSUME NEW e \in Edges, SwapCall(e)  PROVE MeshInv'
  <2>1. /\ e \in store.edges /\ store' = [store EXCEPT !.n[e] = <<@[2], @[1]>>]
        /\ store.closing = "open"
    BY <1>5 DEF SwapCall
  <2>2. MeshOK(store') /\ store'.closing = "open"
    BY <1>0, <2>1, MeshSwap
  <2> QED  BY <2>2 DEF MeshInv, MeshClosingOK
<1>6. ASSUME NEW x \in Sides, AddFaceCall(x[1], <<x[2], x[3], x[4]>>)  PROVE MeshInv'
  <2>1. PICK z \in Faces \ store.faces, p, q, r \in store.edges :
          /\ Triangle(store, <<p, q, r>>)
          /\ \/ UNCHANGED store
             \/ /\ \A d \in {p, q, r} : FacesLen(store, d) # 2
                /\ store' = AddFace(store, z, <<p, q, r>>)
    <3>1. PICK z \in Faces \ store.faces, p, q, r \in store.edges :
            /\ x = <<z, p, q, r>> /\ Triangle(store, <<p, q, r>>)
            /\ \/ /\ \E d \in {p, q, r} : FacesLen(store, d) = 2
                  /\ UNCHANGED store /\ result' = <<z, -1>>
               \/ /\ \A d \in {p, q, r} : FacesLen(store, d) # 2
                  /\ store' = AddFace(store, z, <<p, q, r>>) /\ result' = <<z, 0>>
      BY ONLY <1>6, MeshConstantsOK, x \in Sides, FaceGiven
    <3> QED  BY <3>1
  <2>2. CASE UNCHANGED store
    BY <2>2 DEF MeshInv
  <2>3. CASE /\ \A d \in {p, q, r} : FacesLen(store, d) # 2
             /\ store' = AddFace(store, z, <<p, q, r>>)
    <3>1. MeshOK(store') /\ store'.closing = store.closing
      BY <1>0, <2>1, <2>3, MeshAddFace
    <3>2. store.closing = "open"
      BY <1>6 DEF AddFaceCall
    <3> QED  BY <3>1, <3>2 DEF MeshInv, MeshClosingOK
  <2> QED  BY <2>1, <2>2, <2>3
<1>7. ASSUME NEW x \in Faces, RemoveFaceCall(x) \/ CloseFace(x)  PROVE MeshInv'
  <2>1. /\ x \in store.faces /\ store' = RemoveFace(store, x)
        /\ store.closing = "open" \/ store.closing = "faces"
    BY <1>7 DEF RemoveFaceCall, CloseFace
  <2>2. MeshOK(store') /\ store'.closing = store.closing
    BY <1>0, <2>1, MeshRemoveFace
  <2> QED  BY <2>1, <2>2 DEF MeshInv, MeshClosingOK
<1>8. ASSUME NEW v \in Nodes, CloseNode(v)  PROVE MeshInv'
  <2>1. v \in store.nodes /\ store.at[v] = {} /\ store' = TakeNode(store, v)
    BY <1>8 DEF CloseNode
  <2>2. /\ MeshOK(store') /\ store'.closing = store.closing /\ store'.faces = store.faces
        /\ store'.nodes = store.nodes \ {v} /\ store'.edges = store.edges
    BY <1>0, <2>1, MeshTakeNode
  <2> QED  BY <2>2 DEF MeshInv, MeshClosingOK
<1>9. ASSUME DelMeshCall \/ FacesClosed \/ EdgesClosed \/ NodesClosed  PROVE MeshInv'
  <2>1. PICK to :
          /\ store' = [store EXCEPT !.closing = to]
          /\ \/ store.closing = "open" /\ to = "faces"
             \/ store.closing = "faces" /\ store.faces = {} /\ to = "edges"
             \/ store.closing = "edges" /\ store.edges = {} /\ to = "nodes"
             \/ store.closing = "nodes" /\ store.nodes = {} /\ to = "freed"
    BY <1>9 DEF DelMeshCall, FacesClosed, EdgesClosed, NodesClosed
  <2>2. /\ MeshOK(store') /\ store'.closing = to /\ store'.faces = store.faces
        /\ store'.nodes = store.nodes /\ store'.edges = store.edges
    BY <1>0, <2>1, MeshCloses
  <2> QED  BY <2>1, <2>2 DEF MeshInv, MeshClosingOK
<1>10. CASE UNCHANGED vars
  BY <1>10 DEF vars, MeshInv
<1> QED
  BY <1>1, <1>2, <1>3, <1>4, <1>5, <1>6, <1>7, <1>8, <1>9, <1>10 DEF MeshNext, CloseMesh

\* Edges and faces agree on who bounds whom.
LEMMA MeshAgrees ==
  ASSUME MeshConstantsOK, NEW m, MeshOK(m), MeshClosingOK(m)
  PROVE  WellFormedMesh(m)
<1>1. WellFormedNet(m)
  BY Agrees DEF MeshConstantsOK, MeshOK, MeshClosingOK
<1>2. ASSUME NEW e \in m.edges
      PROVE  /\ {m.f[e][k] : k \in 1..2} \ {None} = {x \in m.faces : e \in SidesOf(m, x)}
             /\ m.f[e][2] # None => m.f[e][1] \notin {None, m.f[e][2]}
  <2>1. /\ Placed(m, e) /\ None \notin Faces /\ m.faces \subseteq Faces
        /\ m.f[e] \in (Faces \cup {None}) \X (Faces \cup {None})
    BY DEF MeshConstantsOK, MeshOK, NetOK, NetTyped, FacesOK, FacesTyped
  <2>2. {m.f[e][k] : k \in 1..2} = {m.f[e][1], m.f[e][2]}
    OBVIOUS
  <2>3. m.f[e][1] \in Faces \cup {None} /\ m.f[e][2] \in Faces \cup {None}
    BY <2>1
  <2>4. {m.f[e][1], m.f[e][2]} \ {None} = {x \in m.faces : e \in SidesOf(m, x)}
    BY <2>1, <2>3 DEF Placed
  <2> QED  BY <2>1, <2>2, <2>4 DEF Placed
<1> QED
  BY <1>1, <1>2 DEF WellFormedMesh, MeshOK, FacesOK, MeshClosingOK

\* The three edges of a face join three nodes, whichever way each of them runs.
LEMMA VerticesFound ==
  ASSUME NEW m, MeshOK(m)
  PROVE  FindsVertices(m)
<1> SUFFICES ASSUME NEW x \in m.faces
             PROVE  {FaceVertices(m, x)[i] : i \in 1..3} = UNION {EndsOf(m, e) : e \in SidesOf(m, x)}
  BY DEF FindsVertices
<1>1. PICK p, q, r : p = m.e[x][1] /\ q = m.e[x][2] /\ r = m.e[x][3]
  OBVIOUS
<1>2. PICK a, b, c \in m.nodes :
        /\ a # b /\ b # c /\ c # a
        /\ EndsOf(m, p) = {a, b} /\ EndsOf(m, q) = {b, c} /\ EndsOf(m, r) = {c, a}
  <2>1. PICK es : es = m.e[x]
    OBVIOUS
  <2>2. Triangle(m, es)
    BY <2>1 DEF MeshOK, FacesOK
  <2> QED  BY ONLY <1>1, <2>1, <2>2 DEF Triangle
<1>3. SidesOf(m, x) = {p, q, r}
  BY <1>1 DEF SidesOf
<1>4. UNION {EndsOf(m, e) : e \in SidesOf(m, x)} = {a, b, c}
  BY <1>2, <1>3
<1>5. PICK u, v, w : u = FaceVertices(m, x)[1] /\ v = FaceVertices(m, x)[2] /\ w = FaceVertices(m, x)[3]
  OBVIOUS
<1>6. u = m.n[p][1] /\ v = m.n[p][2] /\ w = IF m.n[q][1] \in {u, v} THEN m.n[q][2] ELSE m.n[q][1]
  BY <1>1, <1>5 DEF FaceVertices
<1>7. {u, v} = {a, b} /\ {m.n[q][1], m.n[q][2]} = {b, c}
  BY <1>2, <1>6 DEF EndsOf
<1>8. w = c
  BY <1>2, <1>6, <1>7
<1>9. {FaceVertices(m, x)[i] : i \in 1..3} = {u, v, w}
  BY <1>5
<1> QED
  BY <1>4, <1>7, <1>8, <1>9

\* A mesh whose calls come in any order, its deletion included, is never out of
\* step: vertices, edges and faces agree on who touches whom, the counters count,
\* and the faces of an edge fill its two places from the first (borMesh3AddFace,
\* borMesh3RemoveFace).
THEOREM MeshAlwaysAgrees == ASSUME MeshConstantsOK  PROVE MeshSpec => []WellFormedMesh(store)
<1>1. MeshInit => MeshInv
  BY MeshBegins
<1>2. MeshInv /\ [MeshNext]_vars => MeshInv'
  BY MeshStep
<1>3. MeshInv => WellFormedMesh(store)
  BY MeshAgrees DEF MeshInv
<1> QED
  BY <1>1, <1>2, <1>3, PTL DEF MeshSpec

\* The walks through a mesh say the truth: borMesh3VertexCommonEdge finds the
\* edges between two vertices, borMesh3FaceVertices the three corners of a face.
THEOREM MeshWalksFind ==
  ASSUME MeshConstantsOK
  PROVE  MeshSpec => [](FindsCommonEdges(store) /\ FindsVertices(store))
<1>1. MeshInit => MeshInv
  BY MeshBegins
<1>2. MeshInv /\ [MeshNext]_vars => MeshInv'
  BY MeshStep
<1>3. MeshInv => FindsCommonEdges(store) /\ FindsVertices(store)
  BY WalkFinds, VerticesFound DEF MeshInv, MeshOK
<1> QED
  BY <1>1, <1>2, <1>3, PTL DEF MeshSpec

-----------------------------------------------------------------------------
(* What a mesh stands for.                                                 *)

OfMesh == INSTANCE Collections WITH
  Elements <- {}, Nodes <- {}, Keys <- {}, Values <- {}, Names <- {},
  inside <- MeshContents(store)

\* A mesh does with each call what it promises to its nodes, edges and faces:
\* nothing leaves that something else rests on, an edge bounds two faces at most,
\* and a call is refused for no other reason.
MeshPromise == [][OfMesh!ComplexNext]_(OfMesh!vars)

\* The promise counts as the mesh does.
LEMMA SameCount == ASSUME NEW S  PROVE OfMesh!Cardinality(S) = Cardinality(S)
BY DEF OfMesh!Cardinality, Cardinality

\* Edges that keep their ends join what they did.
LEMMA SameEnds ==
  ASSUME NEW m, NEW h, h.edges = m.edges, \A d \in m.edges : EndsOf(h, d) = EndsOf(m, d)
  PROVE  Joined(h) = Joined(m)
BY DEF Joined

\* Faces that keep their edges are bounded as before.
LEMMA SameSides ==
  ASSUME NEW m, NEW h, h.faces = m.faces, h.e = m.e
  PROVE  Bounded(h) = Bounded(m)
BY DEF Bounded, SidesOf

\* A new face is bounded by its edges.
LEMMA MoreSides ==
  ASSUME NEW m, NEW x, NEW s, NEW h, h.faces = m.faces \cup {x}, SidesOf(h, x) = s,
         \A z \in m.faces \ {x} : SidesOf(h, z) = SidesOf(m, z)
  PROVE  Bounded(h) = With(Bounded(m), x, s)
BY DEF Bounded, With

\* A removed face is bounded by nothing, the others by what they were.
LEMMA LessSides ==
  ASSUME NEW m, NEW x, NEW h, h.faces = m.faces \ {x},
         \A z \in h.faces : SidesOf(h, z) = SidesOf(m, z)
  PROVE  Bounded(h) = Without(Bounded(m), x)
BY DEF Bounded, Without

\* How many faces an edge bounds is written on its two places.
LEMMA BoundsAre ==
  ASSUME MeshConstantsOK, MeshOK(store), NEW e \in store.edges
  PROVE  /\ OfMesh!Bounds(e) = {} <=> store.f[e] = <<None, None>>
         /\ Cardinality(OfMesh!Bounds(e)) = FacesLen(store, e)
<1>1. /\ Placed(store, e) /\ None \notin Faces /\ store.faces \subseteq Faces
      /\ store.f[e] \in (Faces \cup {None}) \X (Faces \cup {None})
  BY DEF MeshConstantsOK, MeshOK, NetOK, NetTyped, FacesOK, FacesTyped
<1>2. PICK u \in Faces \cup {None}, v \in Faces \cup {None} : store.f[e] = <<u, v>>
  BY <1>1
<1>3. OfMesh!Bounds(e) = {x \in store.faces : e \in SidesOf(store, x)}
  BY DEF OfMesh!Bounds, MeshContents, Bounded
<1>4. OfMesh!Bounds(e) = {u, v} \ {None}
  BY <1>1, <1>2, <1>3 DEF Placed
<1>5. v # None => u # None /\ u # v
  BY <1>1, <1>2 DEF Placed
<1>6. FacesLen(store, e) = Cardinality({k \in 1..2 : <<u, v>>[k] # None})
  BY <1>2 DEF FacesLen
<1>7. Cardinality({1}) = 1 /\ Cardinality({}) = 0 /\ Cardinality({u}) = 1
  BY FS_Singleton, FS_EmptySet
<1>8. CASE u = None
  <2>1. {u, v} \ {None} = {} /\ {k \in 1..2 : <<u, v>>[k] # None} = {}
    BY <1>5, <1>8
  <2> QED  BY <1>2, <1>4, <1>5, <1>6, <1>8, <2>1
<1>9. CASE u # None /\ v = None
  <2>1. {u, v} \ {None} = {u} /\ {k \in 1..2 : <<u, v>>[k] # None} = {1}
    BY <1>9
  <2> QED  BY <1>2, <1>4, <1>6, <1>7, <1>9, <2>1
<1>10. CASE u # None /\ v # None
  <2>1. {u, v} \ {None} = {u, v} /\ {k \in 1..2 : <<u, v>>[k] # None} = {1, 2}
    BY <1>10
  <2>2. Cardinality({u, v}) = 2 /\ Cardinality({1, 2}) = 2
    <3>1. u # v /\ 1 # 2
      BY <1>5, <1>10
    <3> QED  BY ONLY <3>1, TwoOf
  <2> QED  BY <1>2, <1>4, <1>6, <1>10, <2>1, <2>2
<1> QED
  BY <1>8, <1>9, <1>10

\* A call that touches only nodes, only edges or only faces.
LEMMA TouchesOne ==
  ASSUME NEW m, NEW h, NEW d
  PROVE  /\ h.nodes = d /\ Joined(h) = Joined(m) /\ Bounded(h) = Bounded(m)
              => MeshContents(h) = [MeshContents(m) EXCEPT !.nodes = d]
         /\ h.nodes = m.nodes /\ Joined(h) = d /\ Bounded(h) = Bounded(m)
              => MeshContents(h) = [MeshContents(m) EXCEPT !.ends = d]
         /\ h.nodes = m.nodes /\ Joined(h) = Joined(m) /\ Bounded(h) = d
              => MeshContents(h) = [MeshContents(m) EXCEPT !.sides = d]
<1>1. MeshContents(m) = [nodes |-> m.nodes, ends |-> Joined(m), sides |-> Bounded(m)]
  BY DEF MeshContents
<1>2. MeshContents(h) = [nodes |-> h.nodes, ends |-> Joined(h), sides |-> Bounded(h)]
  BY DEF MeshContents
<1>3. PICK a, b, c, i, j, k : /\ a = m.nodes /\ b = Joined(m) /\ c = Bounded(m)
                             /\ i = h.nodes /\ j = Joined(h) /\ k = Bounded(h)
  OBVIOUS
<1>4. /\ MeshContents(m) = [nodes |-> a, ends |-> b, sides |-> c]
      /\ MeshContents(h) = [nodes |-> i, ends |-> j, sides |-> k]
  BY ONLY <1>1, <1>2, <1>3
<1>5. i = d /\ j = b /\ k = c => MeshContents(h) = [MeshContents(m) EXCEPT !.nodes = d]
  BY ONLY <1>4, Told, SMTT(30)
<1>6. i = a /\ j = d /\ k = c => MeshContents(h) = [MeshContents(m) EXCEPT !.ends = d]
  BY ONLY <1>4, Told, SMTT(30)
<1>7. i = a /\ j = b /\ k = d => MeshContents(h) = [MeshContents(m) EXCEPT !.sides = d]
  BY ONLY <1>4, Told
<1> QED
  BY ONLY <1>3, <1>5, <1>6, <1>7

\* A step that leaves nodes, ends and sides alone.
LEMMA TouchesNone ==
  ASSUME NEW m, NEW h, h.nodes = m.nodes, h.edges = m.edges, h.faces = m.faces, h.e = m.e,
         \A d \in m.edges : EndsOf(h, d) = EndsOf(m, d)
  PROVE  MeshContents(h) = MeshContents(m)
BY SameEnds, SameSides DEF MeshContents

\* A call on a node.
LEMMA NodeServed ==
  ASSUME MeshConstantsOK, MeshInv, NEW v \in Nodes
  PROVE  /\ AddNodeCall(v) => OfMesh!AddNode
         /\ RemoveNodeCall(v) => OfMesh!Removal
         /\ CloseNode(v) => OfMesh!Dissolve
<1>0. MeshOK(store) /\ NetOK(store)
  BY DEF MeshInv, MeshOK
<1>1. OfMesh!Busy(v) <=> store.at[v] # {}
  BY <1>0, BusyNode DEF OfMesh!Busy, MeshContents
<1>2. ASSUME AddNodeCall(v)  PROVE OfMesh!AddNode
  <2>1. v \in Nodes \ store.nodes /\ store' = AddNode(store, v) /\ result' = <<v, 0>>
    BY <1>2 DEF AddNodeCall
  <2>2. /\ store'.nodes = store.nodes \cup {v} /\ store'.edges = store.edges /\ store'.n = store.n
        /\ store'.faces = store.faces /\ store'.e = store.e
    BY <1>0, <2>1, MeshAddNode
  <2>3. Joined(store') = Joined(store) /\ Bounded(store') = Bounded(store)
    BY <2>2, JoinedSame, SameSides
  <2>4. MeshContents(store') = [MeshContents(store) EXCEPT !.nodes = @ \cup {v}]
    <3>1. PICK d : d = store'.nodes
      OBVIOUS
    <3>2. MeshContents(store') = [MeshContents(store) EXCEPT !.nodes = d]
      BY ONLY <2>3, <3>1, TouchesOne
    <3> QED  BY <2>2, <3>1, <3>2 DEF MeshContents
  <2>5. v \in MeshContents(store').nodes \ MeshContents(store).nodes
    BY <2>1, <2>2 DEF MeshContents
  <2> QED  BY <2>1, <2>4, <2>5 DEF OfMesh!AddNode, OfMesh!Done
<1>3. ASSUME v \in store.nodes, store.at[v] = {}, store' = TakeNode(store, v)
      PROVE  OfMesh!NodeLeaves(v)
  <2>1. /\ store'.nodes = store.nodes \ {v} /\ store'.edges = store.edges /\ store'.n = store.n
        /\ store'.faces = store.faces /\ store'.e = store.e
    BY <1>0, <1>3, MeshTakeNode
  <2>2. Joined(store') = Joined(store) /\ Bounded(store') = Bounded(store)
    BY <2>1, JoinedSame, SameSides
  <2>3. MeshContents(store') = [MeshContents(store) EXCEPT !.nodes = @ \ {v}]
    <3>1. PICK d : d = store'.nodes
      OBVIOUS
    <3>2. MeshContents(store') = [MeshContents(store) EXCEPT !.nodes = d]
      BY ONLY <2>2, <3>1, TouchesOne
    <3> QED  BY <2>1, <3>1, <3>2 DEF MeshContents
  <2> QED  BY <1>1, <1>3, <2>3 DEF OfMesh!NodeLeaves
<1>4. v \in store.nodes <=> v \in MeshContents(store).nodes
  BY DEF MeshContents
<1>5. ASSUME RemoveNodeCall(v)  PROVE OfMesh!Removal
  <2>1. CASE store.at[v] # {}
    <3>1. OfMesh!Refused(v)
      BY <1>5, <2>1 DEF RemoveNodeCall, OfMesh!Refused, MeshContents
    <3> QED  BY <1>1, <1>4, <1>5, <2>1, <3>1 DEF RemoveNodeCall, OfMesh!Removal
  <2>2. CASE store.at[v] = {}
    <3>1. OfMesh!NodeLeaves(v) /\ OfMesh!Done(v)
      BY <1>3, <1>5, <2>2 DEF RemoveNodeCall, OfMesh!Done
    <3> QED  BY <1>4, <1>5, <3>1 DEF RemoveNodeCall, OfMesh!Removal
  <2> QED  BY <2>1, <2>2
<1>6. ASSUME CloseNode(v)  PROVE OfMesh!Dissolve
  <2>1. OfMesh!NodeLeaves(v)
    BY <1>3, <1>6 DEF CloseNode
  <2> QED  BY <1>4, <1>6, <2>1 DEF CloseNode, OfMesh!Dissolve
<1> QED
  BY <1>2, <1>5, <1>6

\* A call on an edge: it leaves only when it bounds no face.
LEMMA EdgeServed ==
  ASSUME MeshConstantsOK, MeshInv, NEW e \in Edges
  PROVE  /\ \A v, w \in Nodes : AddMeshEdgeCall(e, v, w) => OfMesh!AddEdge
         /\ RemoveMeshEdgeCall(e) => OfMesh!Removal
         /\ CloseMeshEdge(e) => OfMesh!Dissolve
<1>0. MeshOK(store)
  BY DEF MeshInv
<1>1. ASSUME NEW v \in Nodes, NEW w \in Nodes, AddMeshEdgeCall(e, v, w)  PROVE OfMesh!AddEdge
  <2>1. /\ e \in Edges \ store.edges /\ v \in store.nodes /\ w \in store.nodes
        /\ store' = AddMeshEdge(store, e, v, w) /\ result' = <<e, 0>>
    BY <1>1 DEF AddMeshEdgeCall
  <2>2. /\ store'.nodes = store.nodes /\ store'.edges = store.edges \cup {e}
        /\ EndsOf(store', e) = {v, w}
        /\ \A d \in store.edges : EndsOf(store', d) = EndsOf(store, d)
        /\ store'.faces = store.faces /\ store'.e = store.e
    BY <1>0, <2>1, MeshAddEdge
  <2>3. PICK s : s = {v, w}
    OBVIOUS
  <2>4. Joined(store') = With(Joined(store), e, s)
    BY ONLY <2>2, <2>3, JoinedMore
  <2>5. Bounded(store') = Bounded(store)
    BY <2>2, SameSides
  <2>6. MeshContents(store') = [MeshContents(store) EXCEPT !.ends = With(@, e, s)]
    <3>1. PICK d : d = With(Joined(store), e, s)
      OBVIOUS
    <3>2. MeshContents(store') = [MeshContents(store) EXCEPT !.ends = d]
      BY ONLY <2>2, <2>4, <2>5, <3>1, TouchesOne
    <3> QED  BY <3>1, <3>2 DEF MeshContents
  <2>7. /\ e \in DOMAIN MeshContents(store').ends \ DOMAIN MeshContents(store).ends
        /\ v \in MeshContents(store).nodes /\ w \in MeshContents(store).nodes
    BY <2>1, <2>2 DEF MeshContents, Joined
  <2>8. MeshContents(store') = [MeshContents(store) EXCEPT !.ends = OfMesh!With(@, e, {v, w})]
    BY <2>3, <2>6 DEF OfMesh!With, With
  <2> QED  BY <2>1, <2>7, <2>8 DEF OfMesh!AddEdge, OfMesh!Done
<1>2. ASSUME e \in store.edges, store.f[e] = <<None, None>>, store' = RemoveMeshEdge(store, e)
      PROVE  OfMesh!EdgeLeaves(e)
  <2>1. /\ store'.nodes = store.nodes /\ store'.edges = store.edges \ {e}
        /\ \A d \in store'.edges : store'.n[d] = store.n[d]
        /\ store'.faces = store.faces /\ store'.e = store.e
    BY <1>0, <1>2, MeshRemoveEdge
  <2>2. Joined(store') = Without(Joined(store), e) /\ Bounded(store') = Bounded(store)
    BY <2>1, JoinedLess, SameSides
  <2>3. MeshContents(store') = [MeshContents(store) EXCEPT !.ends = Without(@, e)]
    <3>1. PICK d : d = Without(Joined(store), e)
      OBVIOUS
    <3>2. MeshContents(store') = [MeshContents(store) EXCEPT !.ends = d]
      BY ONLY <2>1, <2>2, <3>1, TouchesOne
    <3> QED  BY <3>1, <3>2 DEF MeshContents
  <2>4. OfMesh!Bounds(e) = {}
    BY <1>0, <1>2, BoundsAre
  <2> QED  BY <2>3, <2>4 DEF OfMesh!EdgeLeaves, OfMesh!Without, Without
<1>3. e \in store.edges <=> e \in DOMAIN MeshContents(store).ends
  BY DEF MeshContents, Joined
<1>4. ASSUME RemoveMeshEdgeCall(e)  PROVE OfMesh!Removal
  <2>1. CASE store.f[e] # <<None, None>>
    <3>1. OfMesh!Refused(e) /\ e \in store.edges
      BY <1>4, <2>1 DEF RemoveMeshEdgeCall, OfMesh!Refused, MeshContents
    <3>2. OfMesh!Bounds(e) # {}
      BY <1>0, <2>1, <3>1, BoundsAre
    <3> QED  BY <1>3, <3>1, <3>2 DEF OfMesh!Removal
  <2>2. CASE store.f[e] = <<None, None>>
    <3>1. OfMesh!EdgeLeaves(e) /\ OfMesh!Done(e)
      BY <1>2, <1>4, <2>2 DEF RemoveMeshEdgeCall, OfMesh!Done
    <3> QED  BY <1>3, <1>4, <3>1 DEF RemoveMeshEdgeCall, OfMesh!Removal
  <2> QED  BY <2>1, <2>2
<1>5. ASSUME CloseMeshEdge(e)  PROVE OfMesh!Dissolve
  <2>1. OfMesh!EdgeLeaves(e)
    BY <1>2, <1>5 DEF CloseMeshEdge
  <2> QED  BY <1>3, <1>5, <2>1 DEF CloseMeshEdge, OfMesh!Dissolve
<1> QED
  BY <1>1, <1>4, <1>5

\* A call on a face: it is refused just because an edge has two faces.
LEMMA FaceServed ==
  ASSUME MeshConstantsOK, MeshInv
  PROVE  /\ \A x \in Sides : AddFaceCall(x[1], <<x[2], x[3], x[4]>>) => OfMesh!AddFace \/ OfMesh!FaceRefused
         /\ \A x \in Faces : RemoveFaceCall(x) => OfMesh!Removal
         /\ \A x \in Faces : CloseFace(x) => OfMesh!Dissolve
<1>0. MeshOK(store) /\ \A e \in store.edges : Placed(store, e)
  BY DEF MeshInv, MeshOK, FacesOK
<1>1. DOMAIN MeshContents(store).ends = store.edges /\ DOMAIN MeshContents(store).sides = store.faces
  BY DEF MeshContents, Joined, Bounded
<1>2. ASSUME NEW y \in Sides, AddFaceCall(y[1], <<y[2], y[3], y[4]>>)
      PROVE  OfMesh!AddFace \/ OfMesh!FaceRefused
  <2>1. PICK x \in Faces \ store.faces, p, q, r \in store.edges :
          /\ y = <<x, p, q, r>> /\ Triangle(store, <<p, q, r>>)
          /\ \/ /\ \E d \in {p, q, r} : FacesLen(store, d) = 2
                /\ UNCHANGED store /\ result' = <<x, -1>>
             \/ /\ \A d \in {p, q, r} : FacesLen(store, d) # 2
                /\ store' = AddFace(store, x, <<p, q, r>>) /\ result' = <<x, 0>>
    BY ONLY <1>2, MeshConstantsOK, y \in Sides, FaceGiven
  <2>2. CASE /\ \E d \in {p, q, r} : FacesLen(store, d) = 2
             /\ UNCHANGED store /\ result' = <<x, -1>>
    <3>1. PICK d \in store.edges : FacesLen(store, d) = 2
      BY <2>2
    <3>2. Cardinality(OfMesh!Bounds(d)) = 2
      BY <1>0, <3>1, BoundsAre
    <3>3. result'[1] = x /\ x \notin DOMAIN MeshContents(store).sides
      BY <1>1, <2>2
    <3>4. OfMesh!Refused(x)
      BY <2>2 DEF OfMesh!Refused, MeshContents
    <3>5. d \in DOMAIN MeshContents(store).ends
      BY <1>1, <3>1
    <3>6. x \in {result'[1]} \ DOMAIN MeshContents(store).sides
      BY <3>3
    <3> QED  BY ONLY <3>2, <3>4, <3>5, <3>6, SameCount DEF OfMesh!FaceRefused
  <2>3. CASE /\ \A d \in {p, q, r} : FacesLen(store, d) # 2
             /\ store' = AddFace(store, x, <<p, q, r>>) /\ result' = <<x, 0>>
    <3>1. /\ store'.nodes = store.nodes /\ store'.edges = store.edges /\ store'.n = store.n
          /\ store'.faces = store.faces \cup {x} /\ SidesOf(store', x) = {p, q, r}
          /\ \A z \in store.faces : SidesOf(store', z) = SidesOf(store, z)
      BY <1>0, <2>1, <2>3, MeshAddFace
    <3>2. PICK s : s = {p, q, r}
      OBVIOUS
    <3>3. Joined(store') = Joined(store) /\ Bounded(store') = With(Bounded(store), x, s)
      <4>1. Joined(store') = Joined(store)
        BY ONLY <3>1, JoinedSame
      <4>2. Bounded(store') = With(Bounded(store), x, s)
        BY ONLY <3>1, <3>2, MoreSides
      <4> QED  BY <4>1, <4>2
    <3>4. MeshContents(store') = [MeshContents(store) EXCEPT !.sides = With(@, x, s)]
      <4>1. PICK d : d = With(Bounded(store), x, s)
        OBVIOUS
      <4>2. MeshContents(store') = [MeshContents(store) EXCEPT !.sides = d]
        BY ONLY <3>1, <3>3, <4>1, TouchesOne
      <4> QED  BY <4>1, <4>2 DEF MeshContents
    <3>5. MeshContents(store') = [MeshContents(store) EXCEPT !.sides = OfMesh!With(@, x, s)]
      BY <3>4 DEF OfMesh!With, With
    <3>6. s \in SUBSET DOMAIN MeshContents(store).ends /\ Cardinality(s) = 3
      <4>1. p # q /\ q # r /\ r # p
        BY <2>1, ThreeEdges
      <4>2. Cardinality({p, q, r}) = 3
        BY ONLY <4>1, ThreeOf
      <4> QED  BY <1>1, <3>2, <4>2
    <3>7. \A d \in s : Cardinality(OfMesh!Bounds(d)) < 2
      <4>1. ASSUME NEW d \in s  PROVE Cardinality(OfMesh!Bounds(d)) < 2
        <5>1. d \in store.edges /\ FacesLen(store, d) # 2 /\ Placed(store, d)
          BY <1>0, <2>3, <3>2
        <5>2. FacesLen(store, d) \in 0..2
          BY ONLY <5>1, TwoFaces
        <5>3. Cardinality(OfMesh!Bounds(d)) = FacesLen(store, d)
          BY <1>0, <5>1, BoundsAre
        <5> QED  BY ONLY <5>1, <5>2, <5>3
      <4> QED  BY <4>1
    <3>8. x \in DOMAIN MeshContents(store').sides \ DOMAIN MeshContents(store).sides
      <4>1. DOMAIN MeshContents(store').sides = store'.faces
        BY DEF MeshContents, Bounded
      <4> QED  BY <1>1, <3>1, <4>1
    <3>9. OfMesh!Done(x)
      BY <2>3 DEF OfMesh!Done
    <3> QED  BY ONLY <3>5, <3>6, <3>7, <3>8, <3>9, SameCount DEF OfMesh!AddFace
  <2> QED  BY <2>1, <2>2, <2>3
<1>3. ASSUME NEW x \in store.faces, store' = RemoveFace(store, x)
      PROVE  OfMesh!FaceLeaves(x)
  <2>1. /\ store'.nodes = store.nodes /\ store'.edges = store.edges /\ store'.n = store.n
        /\ store'.faces = store.faces \ {x} /\ \A z \in store'.faces : SidesOf(store', z) = SidesOf(store, z)
    BY <1>0, <1>3, MeshRemoveFace
  <2>2. Joined(store') = Joined(store) /\ Bounded(store') = Without(Bounded(store), x)
    BY <2>1, JoinedSame, LessSides
  <2>3. MeshContents(store') = [MeshContents(store) EXCEPT !.sides = Without(@, x)]
    <3>1. PICK d : d = Without(Bounded(store), x)
      OBVIOUS
    <3>2. MeshContents(store') = [MeshContents(store) EXCEPT !.sides = d]
      BY ONLY <2>1, <2>2, <3>1, TouchesOne
    <3> QED  BY <3>1, <3>2 DEF MeshContents
  <2> QED  BY <2>3 DEF OfMesh!FaceLeaves, OfMesh!Without, Without
<1>4. ASSUME NEW x \in Faces, RemoveFaceCall(x)  PROVE OfMesh!Removal
  <2>1. x \in store.faces /\ OfMesh!FaceLeaves(x) /\ OfMesh!Done(x)
    BY <1>3, <1>4 DEF RemoveFaceCall, OfMesh!Done
  <2> QED  BY <1>1, <2>1 DEF OfMesh!Removal
<1>5. ASSUME NEW x \in Faces, CloseFace(x)  PROVE OfMesh!Dissolve
  <2>1. x \in store.faces /\ OfMesh!FaceLeaves(x) /\ UNCHANGED result
    BY <1>3, <1>5 DEF CloseFace
  <2> QED  BY <1>1, <2>1 DEF OfMesh!Dissolve
<1> QED
  BY <1>2, <1>4, <1>5

\* Every step of a mesh is a step of what it promises, or none.
LEMMA MeshKeepsPromise ==
  ASSUME MeshConstantsOK, MeshInv, [MeshNext]_vars
  PROVE  [OfMesh!ComplexNext]_(OfMesh!vars)
<1>0. MeshOK(store)
  BY DEF MeshInv
<1>1. \A x \in MeshContents(store).nodes \cup DOMAIN MeshContents(store).ends \cup DOMAIN MeshContents(store).sides : x # None
  BY <1>0 DEF MeshOK, NetOK, NetTyped, FacesOK, FacesTyped, MeshContents, Joined, Bounded,
              MeshConstantsOK, NetConstantsOK
<1>2. ASSUME NEW v \in Nodes, AddNodeCall(v) \/ RemoveNodeCall(v) \/ CloseNode(v)
      PROVE  OfMesh!AddNode \/ OfMesh!Removal \/ OfMesh!Dissolve
  BY <1>2, NodeServed
<1>3. ASSUME NEW x \in Ends, AddMeshEdgeCall(x[1], x[2], x[3])  PROVE OfMesh!AddEdge
  <2>1. x[1] \in Edges /\ x[2] \in Nodes /\ x[3] \in Nodes
    BY DEF MeshConstantsOK, NetConstantsOK
  <2> QED  BY <1>3, <2>1, EdgeServed
<1>4. ASSUME NEW e \in Edges, RemoveMeshEdgeCall(e) \/ CloseMeshEdge(e)
      PROVE  OfMesh!Removal \/ OfMesh!Dissolve
  BY <1>4, EdgeServed
<1>5. ASSUME NEW x \in Sides, AddFaceCall(x[1], <<x[2], x[3], x[4]>>)
      PROVE  OfMesh!AddFace \/ OfMesh!FaceRefused
  BY <1>5, FaceServed
<1>6. ASSUME NEW x \in Faces, RemoveFaceCall(x) \/ CloseFace(x)
      PROVE  OfMesh!Removal \/ OfMesh!Dissolve
  BY <1>6, FaceServed
<1>7. ASSUME NEW e \in Edges, SwapCall(e)  PROVE OfMesh!Other
  <2>1. e \in store.edges /\ store' = [store EXCEPT !.n[e] = <<@[2], @[1]>>]
    BY <1>7 DEF SwapCall
  <2>2. /\ store'.nodes = store.nodes /\ store'.edges = store.edges
        /\ store'.faces = store.faces /\ store'.e = store.e
        /\ \A d \in store.edges : EndsOf(store', d) = EndsOf(store, d)
    BY <1>0, <2>1, MeshSwap
  <2>3. MeshContents(store') = MeshContents(store)
    BY ONLY <2>2, TouchesNone
  <2> QED  BY <1>1, <1>7, <2>3 DEF SwapCall, OfMesh!Other
<1>8. ASSUME DelMeshCall \/ FacesClosed \/ EdgesClosed \/ NodesClosed
      PROVE  MeshContents(store') = MeshContents(store)
  <2>1. PICK to : store' = [store EXCEPT !.closing = to]
    BY <1>8 DEF DelMeshCall, FacesClosed, EdgesClosed, NodesClosed
  <2>2. /\ store'.nodes = store.nodes /\ store'.edges = store.edges /\ store'.n = store.n
        /\ store'.faces = store.faces /\ store'.e = store.e
    BY <1>0, <2>1, MeshCloses
  <2>3. \A d \in store.edges : EndsOf(store', d) = EndsOf(store, d)
    BY <2>2 DEF EndsOf
  <2> QED  BY ONLY <2>2, <2>3, TouchesNone
<1>9. ASSUME DelMeshCall  PROVE OfMesh!Other
  BY <1>1, <1>8, <1>9 DEF DelMeshCall, OfMesh!Other
<1>10. ASSUME FacesClosed \/ EdgesClosed \/ NodesClosed  PROVE UNCHANGED OfMesh!vars
  BY <1>8, <1>10 DEF FacesClosed, EdgesClosed, NodesClosed, OfMesh!vars
<1>11. CASE UNCHANGED vars
  BY <1>11 DEF vars, OfMesh!vars
<1>12. CASE MeshNext
  BY <1>12, <1>2, <1>3, <1>4, <1>5, <1>6, <1>7, <1>9, <1>10 DEF MeshNext, CloseMesh, OfMesh!ComplexNext
<1> QED
  BY <1>11, <1>12

\* Each call on a mesh does what it promises.
THEOREM MeshServes == ASSUME MeshConstantsOK  PROVE MeshSpec => MeshPromise
<1>1. MeshInit => MeshInv
  BY MeshBegins
<1>2. MeshInv /\ [MeshNext]_vars => MeshInv'
  BY MeshStep
<1>3. MeshInv /\ [MeshNext]_vars => [OfMesh!ComplexNext]_(OfMesh!vars)
  BY MeshKeepsPromise
<1> QED
  BY <1>1, <1>2, <1>3, PTL DEF MeshSpec, MeshPromise

-----------------------------------------------------------------------------
(* borMesh3EdgeTriCheck, which a caller asks before it adds a face.        *)

\* Three edges that the check accepts, none of them a loop, form a triangle, as
\* the comment in it hopes, or meet in one vertex.
THEOREM TriCheckAccepts ==
  ASSUME NEW m, NEW es, EdgeTriCheck(m, es),
         \A i \in 1..3 : EndsOf(m, es[i]) \subseteq m.nodes /\ m.n[es[i]][1] # m.n[es[i]][2]
  PROVE  Triangle(m, es) \/ \E v \in m.nodes : \A i \in 1..3 : v \in EndsOf(m, es[i])
<1>1. PICK a, b, c, d, e, f :
        a = m.n[es[1]][1] /\ b = m.n[es[1]][2] /\ c = m.n[es[2]][1] /\ d = m.n[es[2]][2]
          /\ e = m.n[es[3]][1] /\ f = m.n[es[3]][2]
  OBVIOUS
<1>2. EndsOf(m, es[1]) = {a, b} /\ EndsOf(m, es[2]) = {c, d} /\ EndsOf(m, es[3]) = {e, f}
  BY <1>1 DEF EndsOf
<1>3. a # b /\ c # d /\ e # f
  BY <1>1
<1>4. a \in m.nodes /\ b \in m.nodes /\ c \in m.nodes /\ d \in m.nodes
  BY <1>2
<1>5. /\ (a = c /\ b # d) \/ (b = d /\ a # c) \/ (b = c /\ a # d)
      /\ (a = e /\ b # f) \/ (b = f /\ a # e) \/ (b = e /\ a # f)
      /\ (c = e /\ d # f) \/ (d = f /\ c # e) \/ (d = e /\ c # f)
  BY <1>1 DEF EdgeTriCheck, EdgeTriCheckCommon
<1>6. ASSUME NEW v \in m.nodes, v \in {a, b}, v \in {c, d}, v \in {e, f}
      PROVE  \E u \in m.nodes : \A i \in 1..3 : u \in EndsOf(m, es[i])
  BY <1>2, <1>6
<1>7. ASSUME NEW u \in m.nodes, NEW v \in m.nodes, NEW w \in m.nodes, u # v, v # w, w # u,
             {a, b} = {u, v}, {c, d} = {v, w}, {e, f} = {w, u}
      PROVE  Triangle(m, es)
  BY <1>2, <1>7 DEF Triangle
<1>8. CASE \E v \in {a, b} : v \in {c, d} /\ v \in {e, f}
  BY <1>4, <1>6, <1>8
<1>9. CASE \A v \in {a, b} : v \notin {c, d} \/ v \notin {e, f}
  <2>1. \E u, v, w \in m.nodes : /\ u # v /\ v # w /\ w # u
                                 /\ {a, b} = {u, v} /\ {c, d} = {v, w} /\ {e, f} = {w, u}
    <3>1. \E u, v \in {a, b}, w \in {c, d} :
            /\ u # v /\ v # w /\ w # u
            /\ {a, b} = {u, v} /\ {c, d} = {v, w} /\ {e, f} = {w, u}
      BY ONLY <1>3, <1>5, <1>9
    <3> QED  BY <1>4, <3>1
  <2> QED  BY <1>7, <2>1
<1> QED
  BY <1>8, <1>9

\* The check is wrong in two ways.  It accepts three edges that begin in one
\* vertex, and it turns down a triangle whose edges follow one another around it,
\* for where the first begins and the last ends it does not look.
THEOREM TriCheckErrs ==
  ASSUME NEW m, NEW p, NEW q, NEW r, NEW a, NEW b, NEW c, NEW d,
         {a, b, c, d} \subseteq m.nodes, a # b, a # c, a # d, b # c, b # d, c # d
  PROVE  /\ m.n[p] = <<a, b>> /\ m.n[q] = <<a, c>> /\ m.n[r] = <<a, d>>
              => EdgeTriCheck(m, <<p, q, r>>) /\ ~Triangle(m, <<p, q, r>>)
         /\ m.n[p] = <<a, b>> /\ m.n[q] = <<b, c>> /\ m.n[r] = <<c, a>>
              => ~EdgeTriCheck(m, <<p, q, r>>) /\ Triangle(m, <<p, q, r>>)
<1>1. PICK es : es = <<p, q, r>>
  OBVIOUS
<1>2. es[1] = p /\ es[2] = q /\ es[3] = r
  BY <1>1
<1>3. ASSUME m.n[p] = <<a, b>>, m.n[q] = <<a, c>>, m.n[r] = <<a, d>>
      PROVE  EdgeTriCheck(m, es) /\ ~Triangle(m, es)
  <2>1. EdgeTriCheck(m, es)
    BY <1>2, <1>3 DEF EdgeTriCheck, EdgeTriCheckCommon
  <2>2. EndsOf(m, es[1]) = {a, b} /\ EndsOf(m, es[2]) = {a, c} /\ EndsOf(m, es[3]) = {a, d}
    BY <1>2, <1>3 DEF EndsOf
  <2>3. ASSUME NEW u, NEW v, NEW w, u # v, v # w, w # u, {a, b} = {u, v}, {a, c} = {v, w}, {a, d} = {w, u}
        PROVE  FALSE
    BY ONLY <2>3
  <2> QED  BY <2>1, <2>2, <2>3 DEF Triangle
<1>4. ASSUME m.n[p] = <<a, b>>, m.n[q] = <<b, c>>, m.n[r] = <<c, a>>
      PROVE  ~EdgeTriCheck(m, es) /\ Triangle(m, es)
  <2>1. ~EdgeTriCheckCommon(m, p, r)
    BY <1>4 DEF EdgeTriCheckCommon
  <2>2. EndsOf(m, es[1]) = {a, b} /\ EndsOf(m, es[2]) = {b, c} /\ EndsOf(m, es[3]) = {c, a}
    BY <1>2, <1>4 DEF EndsOf
  <2> QED  BY <1>2, <2>1, <2>2 DEF EdgeTriCheck, Triangle
<1> QED
  BY <1>1, <1>3, <1>4
=============================================================================
