-------------------------- MODULE MCGraphLauncher --------------------------
(***************************************************************************)
(* Calls of the launcher on three ranks: every placement of the first and  *)
(* of the last subgraph, up to MaxLocalRows rows per rank and up to        *)
(* MaxPipelineNum micro-batches.                                           *)
(***************************************************************************)
EXTENDS GraphLauncher

CONSTANTS MaxLocalRows, MaxPipelineNum

RankSets == (SUBSET World) \ {{}}

AllLaunches ==
    [is_bwd: BOOLEAN, gather_inputs: BOOLEAN, pipeline_num: 1..MaxPipelineNum,
     local: [World -> 1..MaxLocalRows], first: RankSets, last: RankSets]

SameLocal(l) == \A q, r \in World : l.local[q] = l.local[r]

BatchOf(l) ==
    IF l.gather_inputs
    THEN Cardinality(World) * Max({l.local[r] : r \in World})
    ELSE l.local[0]

\* The batch is cut into micro-batches of one size.
Even(l) ==
    l.pipeline_num >= BatchOf(l) \/ BatchOf(l) % l.pipeline_num = 0

\* Without gather_inputs only the batch of rank 0 matters.
Canonical(l) == l.gather_inputs \/ SameLocal(l)

\* Calls whose micro-batches have one size; a backward call has as many rows
\* on every rank.
EvenLaunches ==
    {l \in AllLaunches :
        /\ Canonical(l)
        /\ Even(l) \/ ~l.gather_inputs
        /\ l.is_bwd => SameLocal(l)}

\* Forward calls of any batch size.
ForwardLaunches == {l \in AllLaunches : ~l.is_bwd /\ l.gather_inputs}

\* Backward calls whose ranks hold batches of different sizes.
BackwardLaunches ==
    {l \in AllLaunches : l.is_bwd /\ l.gather_inputs /\ l.pipeline_num = 1}

=============================================================================
