------------------------------ MODULE Dataflow ------------------------------
(***************************************************************************)
(* What the pipeline promises to the model that runs in it, without        *)
(* routes, delays and blocking: every rank runs the splits of every pass   *)
(* in order, each exactly once, and a split only after all subgraphs that  *)
(* provide inputs for it have run the same split of the same pass, on all  *)
(* their ranks.                                                            *)
(***************************************************************************)
EXTENDS Integers, Sequences

CONSTANTS Rank, Deployments, Passes

VARIABLES
    dep,    \* the deployment
    at      \* rank -> <<pass, split>> the rank runs next

SplitNum(p) ==
    IF dep.pipeline_num > Passes[p].batch_size THEN Passes[p].batch_size
    ELSE dep.pipeline_num

\* The subgraphs whose values subgraph g needs in pass p.
Upstream(g, p) ==
    IF Passes[p].is_bwd
    THEN {c.dst : c \in {e \in dep.conns : e.grad /\ e.src = g}}
    ELSE {c.src : c \in {e \in dep.conns : e.dst = g}}

HasRun(r, p, k) == at[r][1] > p \/ (at[r][1] = p /\ at[r][2] > k)

Init ==
    /\ dep \in Deployments
    /\ at = [r \in Rank |-> <<1, 0>>]

Run(r) ==
    LET p == at[r][1]
        k == at[r][2]
    IN  /\ p <= Len(Passes)
        /\ \A g \in DOMAIN dep.alloc : r \in dep.alloc[g] =>
              \A h \in Upstream(g, p) : \A q \in dep.alloc[h] : HasRun(q, p, k)
        /\ at' = [at EXCEPT ![r] =
                     IF k + 1 < SplitNum(p) THEN <<p, k + 1>> ELSE <<p + 1, 0>>]
        /\ dep' = dep

Next == \E r \in Rank : Run(r)

Spec == Init /\ [][Next]_<<dep, at>>

=============================================================================
