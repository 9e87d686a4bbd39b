--------------------------- MODULE MCTorchDriver ---------------------------
(***************************************************************************)
(* Instances of TorchDriver: every rank of one to three replicas with at   *)
(* least as many splits, and of four replicas with two splits.             *)
(***************************************************************************)
EXTENDS TorchDriver

RanksOf(replicas, pipeline) ==
    {[replicas |-> replicas, rank |-> r, pipeline |-> pipeline] : r \in 0 .. replicas - 1}

EnoughSplits == UNION {RanksOf(1, 1), RanksOf(1, 2), RanksOf(2, 2), RanksOf(2, 3),
                       RanksOf(3, 3), RanksOf(3, 4)}

FewSplits == RanksOf(4, 2)
=============================================================================
