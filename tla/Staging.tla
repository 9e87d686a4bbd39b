------------------------------ MODULE Staging ------------------------------
(***************************************************************************)
(* DPStaging (graph/DPStaging.cpp): the sorted parts ("layers") of a model *)
(* are grouped into consecutive stages and the devices of a group of nodes *)
(* are shared out among the stages, by dynamic programming over            *)
(* table[stage][boundary][used devices].                                   *)
(*                                                                         *)
(* What the profiler measures is computed from a few numbers per layer: an *)
(* input has, for layer l, time[l] per sample, param[l] bytes of           *)
(* parameters and act[l] bytes of activations per sample, and comm units   *)
(* of time to send a sample across a boundary.  Backward takes BwdFactor   *)
(* times as long as forward.  An allreduce takes as long as its parameters *)
(* are large.                                                              *)
(***************************************************************************)
EXTENDS Integers, Sequences, FiniteSets, SequencesExt

CONSTANTS Inputs,         \* [time, param, act: Seq(Nat), comm, batch, nodes, perNode, mem: Nat,
                          \*  searchAll: BOOLEAN (config dp_search_all)]
          BwdFactor, OptParamFactor,
          MinPipeline, MaxPipeline, MinPipelineBs,
          LimitDevNumPot, LimitDevNumMoreThanBs

ASSUME StagingBounds ==
    /\ MinPipeline \in Nat /\ MaxPipeline \in Nat \ {0} /\ MinPipelineBs \in Nat \ {0}
    /\ BwdFactor \in Nat /\ OptParamFactor \in Nat
    /\ {LimitDevNumPot, LimitDevNumMoreThanBs} \subseteq BOOLEAN

VARIABLES in,        \* the model and the cluster
          pc,        \* "search", "dp", "choose", "done", "infeasible"
          job,       \* the loop variables of runDpComm
          table,     \* [s][b][d] -> DPState
          pos,       \* the loop variables s, b, d and min_d of doRunDpComm
          foundB,    \* found_b_sol
          sols,      \* pl_sols
          best       \* the solution returned

vars == <<in, pc, job, table, pos, foundB, sols, best>>

ErrorVal == 1000000

Ceil(a, b) == (a + b - 1) \div b

Larger(a, b) == IF a > b THEN a ELSE b

Smaller(a, b) == IF a < b THEN a ELSE b

LayerNum == Len(in.time)

SumRange(f, i, j) == FoldLeft(+, 0, SubSeq(f, i, j))

isPowerOfTwo(x) == \E e \in 0 .. 10 : x = 2^e

----------------------------------------------------------------------------
(* What the profiler says of the stage of layers i .. j whose micro-batch  *)
(* is spread over repl devices (ProfilerUtil.cpp).                         *)

BatchOn(repl) == Ceil(in.batch, repl)

FwdTime(i, j, repl) == SumRange(in.time, i, j) * BatchOn(repl)

BwdTime(i, j, repl) == BwdFactor * FwdTime(i, j, repl)

\* The optimizer's state, divided among the replicas with and without zero.
getOptMemSize(i, j, zero_dist_num) ==
    FoldLeft(LAMBDA sum, p : sum + (p * OptParamFactor) \div zero_dist_num, 0,
             SubSeq(in.param, i, j))

\* Parameters and activations, the optimizer's state, and a buffer for what
\* crosses the boundaries, one per micro-batch in flight.
calcGraphMem(i, j, repl, pipeline) ==
    SumRange(in.param, i, j) + getOptMemSize(i, j, repl \div pipeline)
        + BatchOn(repl) * (SumRange(in.act, i, j) + pipeline * in.comm)

CommTime(repl) == in.comm * BatchOn(repl)

----------------------------------------------------------------------------
(* doRunDpComm                                                             *)

Infeasible == [eval |-> ErrorVal, fwd |-> ErrorVal, bwd |-> ErrorVal, preB |-> 0, preD |-> 0]

Start == [eval |-> 0, fwd |-> 0, bwd |-> 0, preB |-> 0, preD |-> 0]

EmptyTable(stages, devs) ==
    [s \in 0 .. stages |-> [b \in 0 .. LayerNum |-> [d \in 0 .. devs |->
        IF s = 0 THEN Start ELSE Infeasible]]]

\* The limits on the number of devices of one stage.
Skipped(devs) ==
    LET groups == job.replica * job.pipeline IN
    \/ LimitDevNumMoreThanBs /\ Ceil(in.batch, groups) < devs
    \/ LimitDevNumPot /\ ~isPowerOfTwo(devs)
    \/ Ceil(in.batch, groups * devs) < MinPipelineBs

\* estimateEval
estimateEval(fwd, bwd, comm, prev) ==
    Larger(fwd + comm, prev.fwd) + Larger(bwd + comm, prev.bwd)

FitsMemory(i, j, repl) == calcGraphMem(i, j, repl, job.pipeline) < in.mem

Better_First(val, cell) == cell.eval >= ErrorVal

Better(val, cell) == cell.eval > val

\* The body of the loop over d_prev: acc carries the cell, whether a
\* solution was found or a choice skipped, and whether the loop is left.
TryPrev(s, b, d, bPrev, acc, dPrev) ==
    LET prev == table[s - 1][bPrev][dPrev]
        devs == d - dPrev
        repl == devs * job.replica * job.pipeline
        fwd  == FwdTime(bPrev + 1, b, repl)
        bwd  == BwdTime(bPrev + 1, b, repl)
        val  == estimateEval(fwd, bwd, 2 * CommTime(repl), prev)
        full == ~FitsMemory(bPrev + 1, b, repl)
    IN  CASE acc.break -> acc
          [] ~acc.break /\ Skipped(devs) -> [acc EXCEPT !.skipped = TRUE]
          [] ~acc.break /\ ~Skipped(devs) /\ prev.eval >= ErrorVal -> acc
          [] ~acc.break /\ ~Skipped(devs) /\ prev.eval < ErrorVal /\ full ->
                [acc EXCEPT !.break = TRUE]
          [] OTHER ->
                [acc EXCEPT !.found = TRUE,
                            !.cell = IF Better(val, @)
                                     THEN [eval |-> Larger(val, prev.eval),
                                           fwd  |-> Larger(fwd, prev.fwd),
                                           bwd  |-> Larger(bwd, prev.bwd),
                                           preB |-> bPrev, preD |-> dPrev]
                                     ELSE @]

\* The loops over b_prev and d_prev.
Range2(from, to) == [i \in 1 .. to - from + 1 |-> from + i - 1]

Cell(s, b, d) ==
    LET bPrevs == IF s = 1 THEN <<0>> ELSE Range2(s - 1, b - 1)
        dPrevs == IF s = 1 THEN <<0>> ELSE Range2(s - 1, d - 1)
        PerB(acc, bPrev) ==
            FoldLeft(LAMBDA a, dPrev : TryPrev(s, b, d, bPrev, a, dPrev),
                     [acc EXCEPT !.break = FALSE], dPrevs)
    IN  FoldLeft(PerB, [cell |-> table[s][b][d], found |-> FALSE, skipped |-> FALSE,
                        break |-> FALSE], bPrevs)

FirstB(s) == IF s = job.stages THEN LayerNum ELSE s

LastB(s) == LayerNum - job.stages + s

GivesUp_WhenSkipped(r) == ~r.found

GivesUp(r) == ~r.found /\ ~r.skipped

\* One iteration of the loop over d.  Fewer devices are not tried when
\* these failed for want of memory, nor for larger b.
FillCell ==
    LET r == Cell(pos.s, pos.b, pos.d)
        minD == IF GivesUp(r) THEN pos.d + 1 ELSE pos.minD
    IN  /\ pc = "dp"
        /\ pos.s <= job.stages /\ pos.b <= LastB(pos.s)
        /\ pos.d >= Larger(pos.minD, pos.s)
        /\ table' = [table EXCEPT ![pos.s][pos.b][pos.d] = r.cell]
        /\ foundB' = (foundB \/ r.found)
        /\ pos' = [pos EXCEPT !.minD = minD, !.d = IF GivesUp(r) THEN 0 ELSE @ - 1]
        /\ UNCHANGED <<in, pc, job, sols, best>>

\* The end of the loop over d: on to the next boundary, or to the next stage
\* when this boundary had no solution.
NextBoundary ==
    /\ pc = "dp"
    /\ pos.s <= job.stages /\ pos.b <= LastB(pos.s)
    /\ pos.d < Larger(pos.minD, pos.s)
    /\ pos' = [pos EXCEPT !.b = IF foundB THEN @ + 1 ELSE LayerNum + 1, !.d = job.devs]
    /\ foundB' = FALSE
    /\ UNCHANGED <<in, pc, job, table, sols, best>>

NextStage ==
    /\ pc = "dp"
    /\ pos.s <= job.stages /\ pos.b > LastB(pos.s)
    /\ pos' = [s |-> pos.s + 1, b |-> FirstB(pos.s + 1), d |-> job.devs, minD |-> 1]
    /\ UNCHANGED <<in, pc, job, table, foundB, sols, best>>

\* Following pre_boundary and pre_dev_num back from the last stage; the
\* search counts only when every device of the group is used.
Backtrack ==
    LET step[s \in 0 .. job.stages] ==        \* boundary and devices after stage s
            IF s = job.stages THEN [b |-> LayerNum, d |-> job.devs]
            ELSE LET c == table[s + 1][step[s + 1].b][step[s + 1].d]
                 IN  [b |-> c.preB, d |-> c.preD]
    IN  [stages |-> [s \in 1 .. job.stages |->
                        [from |-> step[s - 1].b + 1, to |-> step[s].b,
                         repl |-> (step[s].d - step[s - 1].d) * job.replica]],
         pipeline |-> job.pipeline]

SolutionFound == table[job.stages][LayerNum][job.devs].eval < ErrorVal

----------------------------------------------------------------------------
(* runDpComm                                                               *)

StagesFor(nodes) == Smaller(in.perNode * (nodes - 1) + 1, LayerNum)
                      .. Smaller(in.perNode * nodes, LayerNum)

Pipelines == {p \in {Larger(1, MinPipeline) * 2^e : e \in 0 .. 6} :
                  p <= Smaller(in.batch, MaxPipeline)}

Job_NotShared(nodes, stages, pipeline) ==
    [nodes |-> nodes, stages |-> stages, pipeline |-> pipeline,
     devs |-> in.perNode * nodes, replica |-> in.nodes]

Job(nodes, stages, pipeline) ==
    [nodes |-> nodes, stages |-> stages, pipeline |-> pipeline,
     devs |-> in.perNode * nodes, replica |-> in.nodes \div nodes]

Init == /\ in \in Inputs
        /\ pc = IF Pipelines = {} THEN "choose" ELSE "search"
        /\ job = Job(1, 1, Larger(1, MinPipeline))
        /\ table = <<>> /\ pos = <<>> /\ foundB = FALSE
        /\ sols = <<>> /\ best = <<>>

BeginDp ==
    /\ pc = "search"
    /\ pc' = "dp"
    /\ table' = EmptyTable(job.stages, job.devs)
    /\ pos' = [s |-> 1, b |-> FirstB(1), d |-> job.devs, minD |-> 1]
    /\ foundB' = FALSE
    /\ UNCHANGED <<in, job, sols, best>>

MoreStages == job.stages + 1 \in StagesFor(job.nodes)

\* The end of doRunDpComm and the three loops of runDpComm: twice the
\* micro-batches, one stage more, one node more.  The search ends with the
\* first number of stages that has a solution unless dp_search_all is set.
EndDp ==
    /\ pc = "dp"
    /\ pos.s > job.stages
    /\ sols' = IF SolutionFound THEN Append(sols, Backtrack) ELSE sols
    /\ LET more  == 2 * job.pipeline \in Pipelines
           first == Larger(1, MinPipeline)
           stop  == ~in.searchAll /\ sols' # <<>>
       IN  CASE more ->
                  job' = Job(job.nodes, job.stages, 2 * job.pipeline) /\ pc' = "search"
             [] ~more /\ ~stop /\ MoreStages ->
                  job' = Job(job.nodes, job.stages + 1, first) /\ pc' = "search"
             [] ~more /\ ~stop /\ ~MoreStages /\ job.nodes < in.nodes ->
                  /\ job' = Job(job.nodes + 1,
                                Smaller(in.perNode * job.nodes + 1, LayerNum), first)
                  /\ pc' = "search"
             [] OTHER -> job' = job /\ pc' = "choose"
    /\ UNCHANGED <<in, table, pos, foundB, best>>

\* estimateTime: the pipeline runs in lock step, fill and drain included;
\* then the largest stage reduces its gradients.
estimateTime(sol) ==
    LET S == Len(sol.stages)
        time(i) == LET st == sol.stages[i]
                       repl == st.repl * sol.pipeline
                   IN  [f |-> FwdTime(st.from, st.to, repl) + 2 * CommTime(repl),
                        b |-> BwdTime(st.from, st.to, repl) + 2 * CommTime(repl)]
        active(k) == Larger(0, k - sol.pipeline + 1) + 1 .. Smaller(k + 1, S)
        most(k, T(_)) == FoldLeft(LAMBDA x, i : IF i \in active(k) THEN Larger(x, T(i)) ELSE x,
                                  0, Range2(1, S))
        total[k \in 0 .. sol.pipeline + S - 1] ==
            IF k = 0 THEN 0
            ELSE total[k - 1] + most(k - 1, LAMBDA i : time(i).f)
                              + most(k - 1, LAMBDA i : time(i).b)
        params == {SumRange(in.param, sol.stages[i].from, sol.stages[i].to) : i \in 1 .. S}
    IN  total[sol.pipeline + S - 1] + CHOOSE p \in params : \A q \in params : q <= p

Choose ==
    /\ pc = "choose"
    /\ IF sols = <<>>
       THEN pc' = "infeasible" /\ UNCHANGED best
       ELSE /\ best' = FoldLeft(LAMBDA x, y : IF estimateTime(y) < estimateTime(x) THEN y ELSE x,
                                sols[1], sols)
            /\ pc' = "done"
    /\ UNCHANGED <<in, job, table, pos, foundB, sols>>

Terminated == pc \in {"done", "infeasible"} /\ UNCHANGED vars

Next == BeginDp \/ FillCell \/ NextBoundary \/ NextStage \/ EndDp \/ Choose \/ Terminated

Spec == Init /\ [][Next]_vars

----------------------------------------------------------------------------
(* Reference: every way to cut the layers and share out the devices.       *)

Cuts(n, stages) ==   \* boundaries 0 = c[0] < c[1] < ... < c[stages] = n
    {c \in [0 .. stages -> 0 .. n] : /\ c[0] = 0 /\ c[stages] = n
                                     /\ \A s \in 1 .. stages : c[s - 1] < c[s]}

\* A stage may have these layers and this many devices.
StageAllowed(i, j, devs) ==
    /\ ~Skipped(devs)
    /\ calcGraphMem(i, j, devs * job.replica * job.pipeline, job.pipeline) < in.mem

Allocations ==
    {<<c, d>> \in Cuts(LayerNum, job.stages) \X Cuts(job.devs, job.stages) :
        \A s \in 1 .. job.stages : StageAllowed(c[s - 1] + 1, c[s], d[s] - d[s - 1])}

Bottleneck(a) ==
    LET times == {FwdTime(a[1][s - 1] + 1, a[1][s],
                          (a[2][s] - a[2][s - 1]) * job.replica * job.pipeline) :
                  s \in 1 .. job.stages}
    IN  CHOOSE t \in times : \A u \in times : u <= t

TypeOK ==
    /\ in \in Inputs
    /\ pc \in {"search", "dp", "choose", "done", "infeasible"}
    /\ pc \in {"search", "dp"} => job.stages \in StagesFor(job.nodes) /\ job.pipeline \in Pipelines
    /\ \A i \in DOMAIN sols : sols[i].pipeline \in Pipelines

SearchEnded == pc = "dp" /\ pos.s > job.stages

\* The pruning of the search (leaving the loop over d_prev at the first
\* choice that does not fit "because larger d_prev gives less gpus for the
\* step graph", raising min_d, leaving the loop over b) loses no solution:
\* the dynamic program finds an allocation whenever there is one.
PruningComplete == SearchEnded => (SolutionFound <=> Allocations # {})

\* When nothing is sent between stages and backward takes proportionally
\* long, the slowest stage of the solution is as fast as it can be.
Optimal ==
    SearchEnded /\ SolutionFound /\ in.comm = 0 =>
        \A a \in Allocations :
            table[job.stages][LayerNum][job.devs].eval <= (1 + BwdFactor) * Bottleneck(a)

\* A solution is a pipeline: the stages cover all layers in order, none is
\* empty, each fits the memory of its devices, and together they use
\* the devices of the nodes searched for, replicated over the cluster.
SolutionIsPipeline ==
    pc = "done" =>
        LET st == best.stages IN
        /\ st[1].from = 1 /\ st[Len(st)].to = LayerNum
        /\ \A i \in 1 .. Len(st) - 1 : st[i + 1].from = st[i].to + 1
        /\ \A i \in DOMAIN st : /\ st[i].from <= st[i].to
                                /\ st[i].repl >= 1
                                /\ calcGraphMem(st[i].from, st[i].to, st[i].repl * best.pipeline,
                                                best.pipeline) < in.mem
        /\ LET used == FoldLeft(LAMBDA n, x : n + x.repl, 0, st)
           IN  \E k \in 1 .. in.nodes : used = in.perNode * k * (in.nodes \div k)
=============================================================================
