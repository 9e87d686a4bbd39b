------------------------------ MODULE IRGraph ------------------------------
(***************************************************************************)
(* The intermediate representation of a traced model and the operations    *)
(* the partitioner composes graphs with (graph/ir.cpp, graph/MLGraph.cpp,  *)
(* graph/GuessValueTypes.cpp).                                             *)
(*                                                                         *)
(* A model m has the operators 1 .. m.n in the order in which they were    *)
(* traced.  Operator o produces the one value that is also called o; value *)
(* GraphInput is the model's argument and Param stands for a parameter of  *)
(* the operator itself.  m.src[o] are the values o reads, m.kind[o] is     *)
(* what it returns: a tensor with dimensions, a zero-dimensional tensor,   *)
(* or no tensor at all (a size, a list of numbers).  The model returns the *)
(* value of operator m.n.                                                  *)
(*                                                                         *)
(* A graph g is a part of the model: g.nodes the operators in execution    *)
(* order, g.ins and g.outs the values that enter and leave it.  Parameters *)
(* travel with the operators that read them and are left out.              *)
(***************************************************************************)
EXTENDS Integers, Sequences, FiniteSets, SequencesExt

GraphInput == 0

Param == -1

Ops(m) == 1 .. m.n

ModelOutput(m) == m.n

\* The values an operator reads that are not parameters.
Reads(m, o) == m.src[o] \ {Param}

Consumers(m, v) == {o \in Ops(m) : v \in m.src[o]}

----------------------------------------------------------------------------
(* guessValueTypes: one pass in topological order.                         *)

\* matchLossRule: a zero-dimensional result of losses only, or of exactly
\* two batches.
matchLossRule(kind, batches, losses) ==
    /\ kind = "scalar"
    /\ (losses > 0 /\ batches = 0) \/ batches = 2

matchBatchRule(kind, batches) == batches > 0 /\ kind \in {"tensor", "scalar"}

guessValueTypes(m) ==
    LET type[v \in GraphInput .. m.n] ==
            LET Count(t) == Cardinality({s \in Reads(m, v) : type[s] = t})
            IN  CASE v = GraphInput -> "BATCH"
                  [] OTHER ->
                       CASE matchLossRule(m.kind[v], Count("BATCH"), Count("LOSS")) -> "LOSS"
                         [] matchBatchRule(m.kind[v], Count("BATCH")) -> "BATCH"
                         [] Count("PARAM") + (IF Param \in m.src[v] THEN 1 ELSE 0) = 1 -> "PARAM"
                         [] OTHER -> "CONST"
    IN  type

----------------------------------------------------------------------------
(* Verification helpers of ir.cpp.                                         *)

\* Values some operator of g reads or g returns.
getRequiredValues(m, g) == g.outs \cup UNION {Reads(m, o) : o \in ToSet(g.nodes)}

\* verifyNodeInputs: every operator finds its inputs among the graph's
\* inputs and the operators before it.
verifyNodeInputs(m, g) ==
    \A i \in DOMAIN g.nodes :
        Reads(m, g.nodes[i]) \subseteq g.ins \cup {g.nodes[j] : j \in 1 .. i - 1}

\* verifyNoDuplicatedOutputs: no value is both an input and produced, or
\* produced twice.
verifyNoDuplicatedOutputs(g) ==
    /\ ToSet(g.nodes) \cap g.ins = {}
    /\ Cardinality(ToSet(g.nodes)) = Len(g.nodes)

findUnusedValue(m, g) == (g.ins \cup ToSet(g.nodes)) \ getRequiredValues(m, g)

\* removeUnusedNodes: drop operators whose value nobody needs until none is
\* left, then the inputs that were only theirs.
removeUnusedNodes(m, g) ==
    LET Used(nodes) == SelectSeq(nodes, LAMBDA o :
                           o \in getRequiredValues(m, [g EXCEPT !.nodes = nodes]))
        pruned[i \in Nat] == IF i = 0 THEN g.nodes ELSE Used(pruned[i - 1])
        h == [g EXCEPT !.nodes = pruned[Len(g.nodes)]]
    IN  [h EXCEPT !.ins = @ \cap getRequiredValues(m, h)]

----------------------------------------------------------------------------
(* merge of two graphs (MLGraph.cpp): g1 runs before g2.  A value of g1    *)
(* that only g2 reads stops being an output; an operator that both hold,   *)
(* or whose value comes in from outside, is kept once or not at all.       *)

merge_Swapped(g1, g2, required) ==
    LET ins == g1.ins \cup (g2.ins \ g1.outs)
        Add(nodes, o) == IF o \in ins \cup ToSet(nodes) THEN nodes ELSE Append(nodes, o)
    IN  [nodes |-> FoldLeft(Add, <<>>, g2.nodes \o g1.nodes),
         ins   |-> ins,
         outs  |-> {v \in g1.outs : v \notin g2.ins \/ v \in required} \cup g2.outs]

merge(g1, g2, required) ==
    LET ins == g1.ins \cup (g2.ins \ g1.outs)
        Add(nodes, o) == IF o \in ins \cup ToSet(nodes) THEN nodes ELSE Append(nodes, o)
    IN  [nodes |-> FoldLeft(Add, <<>>, g1.nodes \o g2.nodes),
         ins   |-> ins,
         outs  |-> {v \in g1.outs : v \notin g2.ins \/ v \in required} \cup g2.outs]

\* doRemoveSubgraph: g1 without the operators of g2.
doRemoveSubgraph(m, g1, g2) ==
    LET nodes == SelectSeq(g1.nodes, LAMBDA o : o \notin ToSet(g2.nodes))
        vals  == ToSet(nodes) \cup UNION {Reads(m, o) : o \in ToSet(nodes)}
    IN  [nodes |-> nodes, ins |-> g1.ins \cap vals, outs |-> g1.outs \cap vals]

\* g2 is cut off the end of g1: what it read becomes an output.
removeTailSubgraph(m, g1, g2) ==
    LET g    == doRemoveSubgraph(m, g1, g2)
        vals == ToSet(g.nodes) \cup UNION {Reads(m, o) : o \in ToSet(g.nodes)}
    IN  removeUnusedNodes(m, [g EXCEPT !.outs = @ \cup (g2.ins \cap vals)])

\* g2 is cut off the start of g1: what it returned becomes an input.
removeHeadSubgraph(m, g1, g2) ==
    LET g    == doRemoveSubgraph(m, g1, g2)
        need == UNION {Reads(m, o) : o \in ToSet(g.nodes)}
    IN  removeUnusedNodes(m, [g EXCEPT !.ins = @ \cup (g2.outs \cap need)])

----------------------------------------------------------------------------
(* The first partition: one part per batch operator (Partitioner.cpp       *)
(* partition, Decomposition.cpp fixNonBatchRanks, createSubGraphs and      *)
(* createPartition).  Part numbers are called ranks there.                 *)

\* Operators that get a part of their own.
Labelled(m) == {o \in Ops(m) : guessValueTypes(m)[o] \in {"BATCH", "LOSS"}}

CopiedTo_OneReader(readers) == IF readers = {} THEN {} ELSE CHOOSE r \in readers : TRUE

\* The parts in which a value is computed again, from the parts of each of
\* its readers.
CopiedTo(readers) == UNION readers

\* fixNonBatchRanks, in reversed topological order: a value that is no
\* batch is computed in every part that reads it; one that nobody reads
\* keeps its label.
OpRanks(m) ==
    LET type == guessValueTypes(m)
        ranks[o \in Ops(m)] ==
            LET label == IF o \in Labelled(m) THEN {o} ELSE {}
                readers == CopiedTo({ranks[c] : c \in Consumers(m, o)})
            IN  IF type[o] = "BATCH" \/ readers = {} THEN label ELSE readers
    IN  ranks

\* The model's argument lives in the parts of the batch operators and
\* criterions that read it, as labelled before the other operators are.
InputRanks(m) == Consumers(m, GraphInput) \cap Labelled(m)

PartOps(m, r) == SetToSortSeq({o \in Ops(m) : r \in OpRanks(m)[o]}, <)

\* createSubGraphs: a connection for every value a part reads and does not
\* hold, from one part that holds it (first picks it for the argument).
Connections(m, first) ==
    LET holds(v) == IF v = GraphInput THEN InputRanks(m) ELSE OpRanks(m)[v]
        from(v)  == IF v = GraphInput THEN first ELSE CHOOSE r \in holds(v) : TRUE
        Crossing(v) == {r \in UNION {OpRanks(m)[c] : c \in Consumers(m, v)} : r \notin holds(v)}
    IN  UNION {{[value |-> v, src |-> from(v), dest |-> r] : r \in Crossing(v)} :
               v \in GraphInput .. m.n}

PartRanks(m) == InputRanks(m) \cup UNION {OpRanks(m)[o] : o \in Ops(m)}

\* The graph of part r, as fromBGL rebuilds it.
PartGraph(m, cons, r) ==
    LET ops == PartOps(m, r)
    IN  [nodes |-> ops,
         ins   |-> (UNION {Reads(m, o) : o \in ToSet(ops)} \ ToSet(ops))
                     \cup (IF r \in InputRanks(m) THEN {GraphInput} ELSE {}),
         outs  |-> {c.value : c \in {d \in cons : d.src = r}}
                     \cup ({ModelOutput(m)} \cap ToSet(ops))]
=============================================================================
