----------------------------- MODULE MCPipeline -----------------------------
(***************************************************************************)
(* Deployments for model checking Pipeline.                                *)
(***************************************************************************)
EXTENDS Pipeline

CONSTANTS
    Alloc,          \* subgraph (numbered from 1 in forward order) -> ranks
    Vals,           \* names of the values between two subgraphs
    NumSplits,      \* pipeline_num of the deployments
    GradKinds,      \* which connections have a backward route
    Checkpointing, Gather

NumGraphs == Len(Alloc)

\* For TLC, a connection is an element of this set.
AllConnections ==
    {c \in [src: 1..NumGraphs, dst: 1..NumGraphs, val: Vals, grad: GradKinds] :
        c.src < c.dst}

Wirings ==
    {w \in SUBSET AllConnections :
        \A c, e \in w : (c.src = e.src /\ c.dst = e.dst /\ c.val = e.val) => c = e}

Orders == {o \in [1..NumGraphs -> 0..(NumGraphs - 1)] :
              \A g, h \in 1..NumGraphs : g # h => o[g] # o[h]}

BwdOrders(w) ==
    {o \in Orders : \A c \in w : c.grad => o[c.dst] < o[c.src]}

AllDeployments ==
    UNION {[alloc: {Alloc}, conns: {w},
            fwd_graph_order: {[g \in 1..NumGraphs |-> g - 1]},
            bwd_graph_order: BwdOrders(w),
            pipeline_num: NumSplits, checkpointing: {Checkpointing},
            gather_inputs: Gather]
           : w \in Wirings}

Fwd(bs) == [is_bwd |-> FALSE, batch_size |-> bs]
Bwd(bs) == [is_bwd |-> TRUE, batch_size |-> bs]

\* Four subgraphs on a rank each; every subgraph but the first gets a value
\* from another one, directly or over up to two subgraphs in between.
SingleRanks == <<{0}, {1}, {2}, {3}>>

FedDeployments ==
    {d \in AllDeployments :
        \A g \in 2..NumGraphs : \E c \in d.conns : c.dst = g}

OneIteration == <<Fwd(12), Bwd(12)>>

\* Three subgraphs, two of them on two ranks, which share the single row of a
\* split in the second forward pass and in its backward pass.
TwoReplicas == <<{0, 1}, {2}, {3, 4}>>

\* A second value may go from the first to the last subgraph; its gradient may
\* not be needed.
SecondValueDeployments ==
    {d \in FedDeployments :
        /\ \A c \in d.conns : c.val = 2 => c.src = 1 /\ c.dst = 3
        /\ \A c \in d.conns : ~c.grad => c.val = 2}

EvaluateThenTrain == <<Fwd(4), Fwd(2), Bwd(2), Fwd(4)>>

\* A batch with fewer rows than the deployment has micro-batches.
ThreeRanks == <<{0}, {1}, {2}>>
ShortBatch == <<Fwd(3), Bwd(3)>>

=============================================================================
