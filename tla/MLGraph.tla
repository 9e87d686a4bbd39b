------------------------------ MODULE MLGraph ------------------------------
(***************************************************************************)
(* The multi-level graph of graph/MLGraph.cpp.  A node has an id, the IR   *)
(* graph it stands for and, above level 0, the nodes and edges of the      *)
(* level below it was merged from.  An edge above level 0 has the edges of *)
(* the level below it stands for; at level 0 it carries one value.  The    *)
(* vectors of the code are sets here: none of its results depends on their *)
(* order, which comes from unordered maps.                                 *)
(***************************************************************************)
EXTENDS IRGraph, Graphs

\* Ids are generated names in the code: the level and the numbers of the
\* parts a node was made from identify it.
Level(n) == n.id[1]

Ids(nodes) == {n.id : n \in nodes}

NodeOf(nodes, id) == CHOOSE n \in nodes : n.id = id

\* convert: one node per part, one edge per connection between parts.
convert(m, first) ==
    LET cons == Connections(m, first)
        node(r) == [id |-> <<0, {r}>>, graph |-> PartGraph(m, cons, r),
                    subs |-> {}, edges |-> {}]
    IN  [nodes |-> {node(r) : r \in PartRanks(m)},
         edges |-> {[src |-> node(c.src).id, tgt |-> node(c.dest).id,
                     subs |-> {}, base |-> {c.value}] : c \in cons},
         level |-> 0]

Arcs(edges) == {<<e.src, e.tgt>> : e \in edges}

Digraph(ml) == [node |-> Ids(ml.nodes), edge |-> Arcs(ml.edges)]

isConvex_Adjacent(ml, a, b) == TRUE

\* isConvex: without the edges from a to b, b cannot be reached from a.
isConvex(ml, a, b) ==
    LET g == Digraph(ml) IN ~ConnectionsIn([g EXCEPT !.edge = @ \ {<<a, b>>}])[a, b]

\* getRequiredInputs: what the graphs other than these two read.
getRequiredInputs(n1, n2, nodes) == UNION {n.graph.ins : n \in nodes \ {n1, n2}}

\* merge(MLNode, MLNode): one node of the next level.  Of several parallel
\* edges ml_edge keeps one.
mergeNodes(m, n1, n2, ml) ==
    LET g == removeUnusedNodes(m, merge(n1.graph, n2.graph, getRequiredInputs(n1, n2, ml.nodes)))
        between == {e \in ml.edges : e.src = n1.id /\ e.tgt = n2.id}
        level == 1 + (IF Level(n1) > Level(n2) THEN Level(n1) ELSE Level(n2))
    IN  [id    |-> <<level, n1.id[2] \cup n2.id[2]>>,
         graph |-> g, subs |-> {n1, n2},
         edges |-> IF between = {} THEN {} ELSE {CHOOSE e \in between : TRUE}]

liftUp(n) == [id |-> <<Level(n) + 1, n.id[2]>>, graph |-> n.graph, subs |-> {n}, edges |-> {}]

\* mergeEdges: edges renamed to the new nodes, those inside one node dropped
\* and those between the same two collected in one edge.
mergeEdges(edges, names) ==
    LET Renamed(e) == <<names[e.src], names[e.tgt]>>
        kept == {e \in edges : Renamed(e)[1] # Renamed(e)[2]}
    IN  {[src |-> a[1], tgt |-> a[2], base |-> {}, subs |-> {e \in kept : Renamed(e) = a}] :
         a \in {Renamed(e) : e \in kept}}

\* The topological orders sortMLGraph may return.
TopologicalOrders(ml) ==
    {s \in SetToSeqs(ml.nodes) :
        \A e \in ml.edges : \A i, j \in DOMAIN s : s[i].id = e.src /\ s[j].id = e.tgt => i < j}

\* verify(MLNode): the inner edges join inner nodes.
verifyNode(n) == \A e \in n.edges : {e.src, e.tgt} \subseteq Ids(n.subs)

\* verify(MLGraph): the ends of an edge, and of its inner edges, exist.
verifyGraph(ml) ==
    /\ \A n \in ml.nodes : verifyNode(n)
    /\ \A e \in ml.edges :
          /\ {e.src, e.tgt} \subseteq Ids(ml.nodes)
          /\ \A s \in e.subs : /\ s.src \in Ids(NodeOf(ml.nodes, e.src).subs)
                               /\ s.tgt \in Ids(NodeOf(ml.nodes, e.tgt).subs)

\* toLowerLevel: one level of the hierarchy is flattened.
toLowerLevel(ml) ==
    LET Sub(n) == [n EXCEPT !.subs = UNION {s.subs : s \in n.subs},
                            !.edges = UNION {s.edges : s \in n.subs}
                                        \cup UNION {e.subs : e \in n.edges}]
        Inner(e) == [e EXCEPT !.subs = UNION {s.subs : s \in e.subs},
                              !.base = UNION {s.base : s \in e.subs}]
    IN  [nodes |-> {Sub(n) : n \in ml.nodes}, edges |-> {Inner(e) : e \in ml.edges},
         level |-> ml.level - 1]
=============================================================================
