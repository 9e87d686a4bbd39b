---------------------------- MODULE Partitioner ----------------------------
(***************************************************************************)
(* MLPartitioner::partition (graph/Partitioner.cpp): the traced model is   *)
(* cut into one part per batch operator, parts are merged pairwise in      *)
(* rounds (coarsen), parts may be moved back across a boundary level by    *)
(* level (uncoarsen, off by default), the result is sorted and small       *)
(* neighbours are merged until max_partition_num parts are left.           *)
(*                                                                         *)
(* Which parts are worth merging or moving, and whether the result fits    *)
(* the memory of a device, is measured by the profiler.  Here those        *)
(* measurements are free: a pair that may be merged is merged or not, and  *)
(* nodes come in any order.  Everything that does not depend on a          *)
(* measurement is as in the code.                                          *)
(***************************************************************************)
EXTENDS MLGraph

CONSTANTS Models,             \* the traced models
          MinPartitionNums,   \* values of the config min_partition_num
          MaxPartitionNum     \* config max_partition_num

ASSUME PartitionNums == MinPartitionNums \subseteq Nat /\ MaxPartitionNum \in Nat \ {0}

VARIABLES model,      \* the model being partitioned
          config,     \* do_uncoarsening and min_partition_num
          pc,         \* the function that runs
          ml,         \* the current multi-level graph
          last,       \* coarsen: the graph of the previous round
          matched,    \* mergeAdjacents: ids already matched
          merged,     \* mergeAdjacents: nodes of the next level
          names,      \* mergeAdjacents: id -> id at the next level
          moves,      \* adjustBoundaries: the possible moves not yet looked at
          order       \* the sorted parts

vars == <<model, config, pc, ml, last, matched, merged, names, moves, order>>

NoGraph == [nodes |-> {}, edges |-> {}, level |-> -1]

Init == /\ model \in Models
        /\ config \in [uncoarsening : BOOLEAN, min : MinPartitionNums]
        /\ pc = "partition"
        /\ ml = NoGraph /\ last = NoGraph
        /\ matched = {} /\ merged = {} /\ names = <<>>
        /\ moves = {} /\ order = <<>>

\* partition: label the operators and build the level-0 graph.
Partition ==
    /\ pc = "partition"
    /\ \E first \in InputRanks(model) : ml' = convert(model, first)
    /\ pc' \in {"coarsen", "sort_only"}            \* config do_coarsening
    /\ UNCHANGED <<model, config, last, matched, merged, names, moves, order>>

----------------------------------------------------------------------------
(* coarsen and mergeAdjacents                                              *)

\* The head of coarsen's loop.  A round that merged nothing returns the
\* graph of the round before.
CoarsenLoop ==
    /\ pc = "coarsen"
    /\ last' = ml
    /\ matched' = {} /\ merged' = {} /\ names' = <<>>
    /\ IF Cardinality(last.nodes) = Cardinality(ml.nodes)
       THEN pc' = "coarsened" /\ ml' = last
       ELSE /\ pc' = IF Cardinality(ml.nodes) <= 3 THEN "coarsened" ELSE "match"
            /\ UNCHANGED ml
    /\ UNCHANGED <<model, config, moves, order>>

\* Another merge would leave too few parts.
TooFewLeft ==
    Cardinality(ml.nodes) - Cardinality(matched) + Cardinality(merged) <= config.min

\* The neighbours downstream that v may be merged with.
Targets(v) ==
    IF ~TooFewLeft
    THEN {a \in ml.nodes : /\ <<v.id, a.id>> \in Arcs(ml.edges)
                           /\ a.id \notin matched
                           /\ isConvex(ml, v.id, a.id)}
    ELSE {}

\* The names of the nodes that n replaces.
NamesAfter(n, from) == names @@ [id \in Ids(from) |-> n.id]

\* One iteration of mergeAdjacents: v is merged with a target or lifted.
MatchNode(v) ==
    /\ pc = "match"
    /\ v.id \notin matched
    /\ \/ /\ merged' = merged \cup {liftUp(v)}
          /\ names' = NamesAfter(liftUp(v), {v})
          /\ matched' = matched \cup {v.id}
       \/ \E a \in Targets(v) :
             LET n == mergeNodes(model, v, a, ml)
             IN  /\ merged' = merged \cup {n}
                 /\ names' = NamesAfter(n, {v, a})
                 /\ matched' = matched \cup {v.id, a.id}
    /\ UNCHANGED <<model, config, pc, ml, last, moves, order>>

\* The end of mergeAdjacents, and of an iteration of coarsen.
EndRound ==
    /\ pc = "match"
    /\ matched = Ids(ml.nodes)
    /\ ml' = [nodes |-> merged, edges |-> mergeEdges(ml.edges, names), level |-> ml.level + 1]
    /\ pc' = IF Cardinality(merged) <= config.min THEN "coarsened" ELSE "coarsen"
    /\ matched' = {} /\ merged' = {} /\ names' = <<>>
    /\ UNCHANGED <<model, config, last, moves, order>>

AfterCoarsening ==
    /\ pc = "coarsened"
    /\ last' = NoGraph
    /\ pc' = IF config.uncoarsening THEN "adjust" ELSE "sort"
    /\ UNCHANGED <<model, config, ml, matched, merged, names, moves, order>>

----------------------------------------------------------------------------
(* uncoarsen and adjustBoundaries                                          *)

\* The possible moves: an end of an inner edge crosses the boundary.
AllMoves ==
    LET Sub(id, s) == CHOOSE n \in NodeOf(ml.nodes, id).subs : n.id = s
    IN  UNION {UNION {{[src |-> e.src, tgt |-> e.tgt, edge |-> s, forth |-> TRUE,
                        node |-> Sub(e.src, s.src)],
                       [src |-> e.src, tgt |-> e.tgt, edge |-> s, forth |-> FALSE,
                        node |-> Sub(e.tgt, s.tgt)]} : s \in e.subs} : e \in ml.edges}

AdjustStart ==
    /\ pc = "adjust"
    /\ IF \A n \in ml.nodes : verifyNode(n)
       THEN pc' = "move" /\ moves' = AllMoves
       ELSE pc' = "verification_failed" /\ UNCHANGED moves
    /\ UNCHANGED <<model, config, ml, last, matched, merged, names, order>>

AllSubEdges == UNION {e.subs : e \in ml.edges}

EdgeBetween(a, b) == {e \in ml.edges : e.src = a /\ e.tgt = b}

\* The moves that are considered: the node is at the rim of its part and has
\* one edge out of it, and the part keeps a node.
AtRim(mv) ==
    LET src == NodeOf(ml.nodes, mv.src)
        tgt == NodeOf(ml.nodes, mv.tgt)
        id  == mv.node.id
        from == {e \in AllSubEdges : e.src = id}
        into == {e \in AllSubEdges : e.tgt = id}
    IN  IF mv.forth
        THEN /\ Cardinality(src.subs) >= 2
             /\ {e \in src.edges : e.src = id} = {}
             /\ Cardinality(from) <= 1 /\ into = {}
        ELSE /\ Cardinality(tgt.subs) >= 2
             /\ {e \in tgt.edges : e.tgt = id} = {}
             /\ Cardinality(into) <= 1 /\ from = {}

\* Of these, the ones that earlier moves have left to do; edge_map.at throws
\* if they have used up the whole edge.
Movable(mv) ==
    /\ AtRim(mv)
    /\ \E e \in EdgeBetween(mv.src, mv.tgt) : <<mv.edge.src, mv.edge.tgt>> \in Arcs(e.subs)
    /\ mv.node.id \in Ids(NodeOf(ml.nodes, IF mv.forth THEN mv.src ELSE mv.tgt).subs)

EdgeGone(mv) == AtRim(mv) /\ EdgeBetween(mv.src, mv.tgt) = {}

\* The inner edges between a node that moved and the rest of its part
\* now cross the boundary.
EdgeAfterMove_Forgets(e, cut, id) ==
    [e EXCEPT !.subs = {s \in @ : id \notin {s.src, s.tgt}}, !.base = {}]

EdgeAfterMove(e, cut, id) ==
    [e EXCEPT !.subs = cut \cup {s \in @ : id \notin {s.src, s.tgt}}, !.base = {}]

\* move_to_tgt
MoveToTgt(mv) ==
    LET src == NodeOf(ml.nodes, mv.src)
        tgt == NodeOf(ml.nodes, mv.tgt)
        id  == mv.node.id
        e   == CHOOSE x \in EdgeBetween(mv.src, mv.tgt) : TRUE
        cut == {s \in src.edges : s.tgt = id}
    IN  [src  |-> [src EXCEPT !.graph = removeTailSubgraph(model, @, mv.node.graph),
                              !.subs = {n \in @ : n.id # id}, !.edges = @ \ cut],
         tgt  |-> [tgt EXCEPT !.graph = merge(mv.node.graph, @,
                                              getRequiredInputs(src, tgt, ml.nodes)),
                              !.subs = @ \cup {mv.node}, !.edges = @ \cup {mv.edge}],
         edge |-> EdgeAfterMove(e, cut, id)]

\* getPreservedOutputs: what the inner nodes of the other parts read.
getPreservedOutputs(mv) ==
    UNION {UNION {s.graph.ins : s \in n.subs \ {mv.node}} :
           n \in {p \in ml.nodes : p.id # mv.src}}

\* move_to_src
MoveToSrc(mv) ==
    LET src == NodeOf(ml.nodes, mv.src)
        tgt == NodeOf(ml.nodes, mv.tgt)
        id  == mv.node.id
        e   == CHOOSE x \in EdgeBetween(mv.src, mv.tgt) : TRUE
        cut == {s \in tgt.edges : s.src = id}
    IN  [src  |-> [src EXCEPT !.graph = merge(@, mv.node.graph, getPreservedOutputs(mv)),
                              !.subs = @ \cup {mv.node}, !.edges = @ \cup {mv.edge}],
         tgt  |-> [tgt EXCEPT !.graph = removeHeadSubgraph(model, @, mv.node.graph),
                              !.subs = {n \in @ : n.id # id}, !.edges = @ \ cut],
         edge |-> EdgeAfterMove(e, cut, id)]

Moved(mv) == IF mv.forth THEN MoveToTgt(mv) ELSE MoveToSrc(mv)

\* A result whose operators miss an input is passed over, any other defect
\* is an exception.
Executable(r) == verifyNodeInputs(model, r.src.graph) /\ verifyNodeInputs(model, r.tgt.graph)

Sound(r) == \A n \in {r.src, r.tgt} : /\ verifyNode(n)
                                       /\ verifyNoDuplicatedOutputs(n.graph)
                                       /\ findUnusedValue(model, n.graph) = {}

MovesAfter_StartOver(mine) == AllMoves

\* A node is looked at once per level.
MovesAfter(mine) == moves \ mine

\* One iteration of adjustBoundaries: the moves of one inner node are tried
\* and one that pays is made.
AdjustNode(id) ==
    LET mine == {mv \in moves : mv.node.id = id}
        results == {r \in {Moved(mv) : mv \in {x \in mine : Movable(x)}} : Executable(r)}
        fine == (\A mv \in mine : ~EdgeGone(mv)) /\ (\A r \in results : Sound(r))
    IN  /\ pc = "move"
        /\ mine # {}
        /\ moves' = MovesAfter(mine)
        /\ \/ /\ ~fine
              /\ pc' = "verification_failed"
              /\ UNCHANGED ml
           \/ /\ fine
              /\ UNCHANGED <<pc, ml>>
           \/ /\ fine
              /\ \E r \in results :
                    ml' = [ml EXCEPT
                       !.nodes = {n \in @ : n.id \notin {r.src.id, r.tgt.id}} \cup {r.src, r.tgt},
                       !.edges = (@ \ EdgeBetween(r.src.id, r.tgt.id))
                                   \cup {e \in {r.edge} : e.subs # {}}]
              /\ UNCHANGED pc
        /\ UNCHANGED <<model, config, last, matched, merged, names, order>>

\* The loop of uncoarsen.
AdjustEnd ==
    /\ pc = "move"
    /\ moves = {}
    /\ IF ml.level > 1 THEN ml' = toLowerLevel(ml) /\ pc' = "adjust"
                       ELSE pc' = "sort" /\ UNCHANGED ml
    /\ UNCHANGED <<model, config, last, matched, merged, names, moves, order>>

----------------------------------------------------------------------------
(* sortMLGraph and mergeSmall                                              *)

\* A topological sort of a graph with a cycle throws.
Sort ==
    /\ pc \in {"sort", "sort_only"}
    /\ IF HasCycle(Digraph(ml))
       THEN pc' = "not_a_dag" /\ UNCHANGED order
       ELSE /\ order' \in TopologicalOrders(ml)
            /\ pc' = IF pc = "sort" THEN "small" ELSE "done"
    /\ UNCHANGED <<model, config, ml, last, matched, merged, names, moves>>

\* One iteration of mergeSmall: the smallest part, at i or at i + 1, is
\* merged with the neighbour that is better.
MergeSmall(i) ==
    /\ pc = "small"
    /\ Len(order) > MaxPartitionNum
    /\ LET n == mergeNodes(model, order[i], order[i + 1], [ml EXCEPT !.nodes = ToSet(order)])
           old == {order[i].id, order[i + 1].id}
           name == [id \in Ids(ToSet(order)) |-> IF id \in old THEN n.id ELSE id]
       IN  /\ order' = SubSeq(order, 1, i - 1) \o <<n>> \o SubSeq(order, i + 2, Len(order))
           /\ ml' = [ml EXCEPT !.nodes = ToSet(order'), !.edges = mergeEdges(@, name)]
    /\ UNCHANGED <<model, config, pc, last, matched, merged, names, moves>>

\* mergeSmall returns when enough is merged or a merged part would not fit
\* the memory.
Finish ==
    /\ pc = "small"
    /\ pc' = "done"
    /\ UNCHANGED <<model, config, ml, last, matched, merged, names, moves, order>>

Failed == pc \in {"verification_failed", "not_a_dag"}

Terminated == (pc = "done" \/ Failed) /\ UNCHANGED vars

Step == \/ Partition
        \/ CoarsenLoop
        \/ \E v \in ml.nodes : MatchNode(v)
        \/ EndRound
        \/ AfterCoarsening
        \/ AdjustStart
        \/ \E id \in {mv.node.id : mv \in moves} : AdjustNode(id)
        \/ AdjustEnd
        \/ Sort
        \/ \E i \in 1 .. Len(order) - 1 : MergeSmall(i)
        \/ Finish

Next == Step \/ Terminated

Ended == pc = "done" \/ Failed

\* The code runs on until it is at its end.  (WF_vars(Next), in a form that
\* TLC evaluates without enumerating the successors of a state again: Next
\* is enabled in every state.)
RunsOn == []<>Ended \/ []<><<TRUE>>_vars

Spec == Init /\ [][Next]_vars /\ RunsOn

----------------------------------------------------------------------------
TypeOK ==
    /\ model \in Models
    /\ config \in [uncoarsening : BOOLEAN, min : MinPartitionNums]
    /\ pc \in {"partition", "coarsen", "match", "coarsened", "adjust", "move", "sort",
               "sort_only", "small", "done", "verification_failed", "not_a_dag"}
    /\ matched \subseteq Ids(ml.nodes)
    /\ DOMAIN names = matched
    /\ Range(names) = Ids(merged)

\* The graph of parts is consistent whenever it is handed from one phase to
\* the next.
Settled == pc \notin {"partition", "verification_failed", "not_a_dag"}

\* Every batch operator is computed by exactly one part (createPartition in
\* MLPartDecomposer.cpp relies on it: "Only one graph produces a value"),
\* and every part can run: its operators find their inputs in order,
\* nothing is computed twice and nothing is left unused.
PartsExecutable ==
    Settled =>
        /\ \A o \in Ops(model) : guessValueTypes(model)[o] = "BATCH" =>
              Cardinality({n \in ml.nodes : o \in ToSet(n.graph.nodes)}) = 1
        /\ \A n \in ml.nodes : /\ verifyNodeInputs(model, n.graph)
                               /\ verifyNoDuplicatedOutputs(n.graph)
                               /\ findUnusedValue(model, n.graph) = {}

\* The edges that mergeEdges, move_to_tgt and move_to_src keep by hand are
\* the flow of values between the graphs of the parts: an edge carries a
\* value, and a computed value that crosses a boundary has an edge.
EdgesFollowValues ==
    Settled => \A a, b \in ml.nodes : a # b =>
        LET flow == a.graph.outs \cap b.graph.ins
        IN  /\ <<a.id, b.id>> \in Arcs(ml.edges) => flow # {}
            /\ flow \ {GraphInput} # {} => <<a.id, b.id>> \in Arcs(ml.edges)

\* When the partitioner returns, each part reads the model's argument or
\* values that exactly one earlier part returns, only batches and losses
\* cross a boundary, and the model's output is returned.
DemandMet ==
    pc = "done" =>
        /\ \A i \in DOMAIN order : \A v \in order[i].graph.ins \ {GraphInput} :
              /\ Cardinality({j \in DOMAIN order : v \in order[j].graph.outs}) = 1
              /\ \E j \in 1 .. i - 1 : v \in order[j].graph.outs
              /\ guessValueTypes(model)[v] \in {"BATCH", "LOSS"}
        /\ \E i \in DOMAIN order : ModelOutput(model) \in order[i].graph.outs

\* Partitioning a valid model ends without an exception: merging convex
\* pairs leaves no cycle and no move breaks a part.
NoFailure == ~Failed

\* coarsen, uncoarsen and mergeSmall reach an end.
Terminates == <>Ended
=============================================================================
