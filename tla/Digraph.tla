------------------------------ MODULE Digraph ------------------------------
(***************************************************************************)
(* The directed graph of digraph.c: growing arrays of nodes and of edges,  *)
(* whose indices are their ids (here from 1), with labels that are sets;   *)
(* each node keeps the ids of the edges out of it and into it.             *)
(***************************************************************************)
EXTENDS Integers, FiniteSets, SequencesExt

CONSTANTS MaxNodes, MaxEdges, Labels

VARIABLE store

EmptyGraph == [node |-> <<>>, edge |-> <<>>]
NodesOf(g) == DOMAIN g.node
EdgesOf(g) == DOMAIN g.edge

AddNode(g) == [g EXCEPT !.node = Append(@, [label |-> {}, out |-> {}, in |-> {}])]

AddEdge(g, from, to) ==
  LET id == Len(g.edge) + 1
      h == [g EXCEPT !.edge = Append(@, [from |-> from, to |-> to, label |-> {}]),
                     !.node[from].out = @ \cup {id}]
  IN [h EXCEPT !.node[to].in = @ \cup {id}]

\* borDigraphGetEdge: the first edge of the set out that leads there, or 0.
GetEdge(g, from, to) ==
  LET there == {e \in g.node[from].out : g.edge[e].to = to}
  IN IF there = {} THEN 0 ELSE CHOOSE e \in there : \A f \in there : e <= f

GetOrAddEdge(g, from, to) ==
  IF GetEdge(g, from, to) # 0 THEN g ELSE AddEdge(g, from, to)

\* borDigraphAddOrUpdateEdge
Labelled(g, from, to, l) ==
  LET h == GetOrAddEdge(g, from, to)
  IN [h EXCEPT !.edge[GetEdge(h, from, to)].label = @ \cup {l}]

\* borDigraphInduceNode, for each of ids in turn that has no copy yet.
CopyNodes(g, ids) ==
  FoldLeft(LAMBDA c, v :
             IF c.map[v] # 0 THEN c
             ELSE [map |-> [c.map EXCEPT ![v] = Len(c.g.node) + 1],
                   g |-> [AddNode(c.g) EXCEPT !.node[Len(c.g.node) + 1].label = g.node[v].label]],
           [map |-> [v \in NodesOf(g) |-> 0], g |-> EmptyGraph], ids)

\* A bug the checks must find: an edge is copied without the map of its nodes.
CopyEdgesUnmapped(g, map, dst, ids) ==
  FoldLeft(LAMBDA h, e :
             IF map[g.edge[e].from] = 0 \/ map[g.edge[e].to] = 0 THEN h
             ELSE [AddEdge(h, map[g.edge[e].to], map[g.edge[e].from]) EXCEPT
                     !.edge[Len(h.edge) + 1].label = g.edge[e].label],
           dst, ids)

CopyEdges(g, map, dst, ids) ==
  FoldLeft(LAMBDA h, e :
             IF map[g.edge[e].from] = 0 \/ map[g.edge[e].to] = 0 THEN h
             ELSE [AddEdge(h, map[g.edge[e].from], map[g.edge[e].to]) EXCEPT
                     !.edge[Len(h.edge) + 1].label = g.edge[e].label],
           dst, ids)

InOrder(ids) == SetToSortSeq(ids, <)

\* borDigraphInduce for nodes, and for edges with their ends.
Copy(g, nodeIds, edgeIds) ==
  LET c == CopyNodes(g, nodeIds)
  IN [map |-> c.map, g |-> CopyEdges(g, c.map, c.g, edgeIds)]
InducedByNodes(g, nodes) == Copy(g, InOrder(nodes), InOrder(EdgesOf(g)))
InducedByEdges(g, edges) ==
  LET ends == [i \in 1..Cardinality(edges) |->
                 <<g.edge[InOrder(edges)[i]].from, g.edge[InOrder(edges)[i]].to>>]
  IN Copy(g, FlattenSeq(ends), InOrder(edges))

\* dfs, and borDigraphDFS: the nodes visited.
RECURSIVE Visit(_, _, _, _)
Visit(g, from, ignore, visited) ==
  FoldLeft(LAMBDA seen, e :
             IF g.edge[e].to \in ignore \cup seen THEN seen
             ELSE Visit(g, g.edge[e].to, ignore, seen),
           visited \cup {from}, InOrder(g.node[from].out))
Dfs(g, fromNodes, ignore) ==
  FoldLeft(LAMBDA seen, v : IF v \in seen THEN seen ELSE Visit(g, v, ignore, seen),
           {}, InOrder(fromNodes))

-----------------------------------------------------------------------------

Init == store = EmptyGraph

AddNodeCall ==
  /\ Len(store.node) < MaxNodes
  /\ store' = AddNode(store)

NodeAddLabel(v, l) == store' = [store EXCEPT !.node[v].label = @ \cup {l}]

AddEdgeCall(v, w) ==
  /\ Len(store.edge) < MaxEdges
  /\ store' = AddEdge(store, v, w)

AddOrUpdateEdge(v, w, l) ==
  /\ Len(store.edge) < MaxEdges \/ GetEdge(store, v, w) # 0
  /\ store' = Labelled(store, v, w, l)

Next ==
  \/ AddNodeCall
  \/ \E v \in NodesOf(store), l \in Labels : NodeAddLabel(v, l)
  \/ \E v, w \in NodesOf(store) :
       AddEdgeCall(v, w) \/ \E l \in Labels : AddOrUpdateEdge(v, w, l)

-----------------------------------------------------------------------------

\* The nodes know their edges, and no others.
WellFormed(g) == \A v \in NodesOf(g) :
  /\ g.node[v].out = {e \in EdgesOf(g) : g.edge[e].from = v}
  /\ g.node[v].in = {e \in EdgesOf(g) : g.edge[e].to = v}

\* h is, under map, the part of g that has the nodes and the edges.
IsPart(g, c, nodes, edges) ==
  LET image(e) == [from |-> c.map[g.edge[e].from], to |-> c.map[g.edge[e].to], label |-> g.edge[e].label]
      kept == {e \in edges : {g.edge[e].from, g.edge[e].to} \subseteq nodes}
  IN /\ WellFormed(c.g)
     /\ {v \in NodesOf(g) : c.map[v] # 0} = nodes
     /\ {c.map[v] : v \in nodes} = NodesOf(c.g)
     /\ \A v \in nodes : c.g.node[c.map[v]].label = g.node[v].label
     /\ Len(c.g.edge) = Cardinality(kept)
     /\ \A e \in kept : \E f \in EdgesOf(c.g) : c.g.edge[f] = image(e)

G == INSTANCE Graphs

\* Induced graphs are parts, and the search from some nodes around others visits
\* what can be reached without these.
AnswersRight(g) ==
  /\ \A nodes \in SUBSET NodesOf(g) : IsPart(g, InducedByNodes(g, nodes), nodes, EdgesOf(g))
  /\ \A edges \in SUBSET EdgesOf(g) :
       IsPart(g, InducedByEdges(g, edges),
              UNION {{g.edge[e].from, g.edge[e].to} : e \in edges}, edges)
  /\ \A ignore \in SUBSET NodesOf(g) :
       LET rest == NodesOf(g) \ ignore
           reaches == G!ConnectionsIn([node |-> rest,
                        edge |-> {<<g.edge[e].from, g.edge[e].to>> : e \in EdgesOf(g)} \cap (rest \X rest)])
       IN \A from \in SUBSET rest :
            Dfs(g, from, ignore) = {w \in rest : \E v \in from : reaches[v, w]}
=============================================================================
