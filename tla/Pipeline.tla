------------------------------ MODULE Pipeline ------------------------------
(***************************************************************************)
(* The pipeline that runs a partitioned model: every MPI rank executes     *)
(* GraphConnector::compute (src/src/comp/GraphConnector.cpp) for one       *)
(* micro-batch ("split") after the other, in the forward pass and in the   *)
(* backward pass, as GraphLauncher::compute calls it                       *)
(* (src/src/comp/GraphLauncher.cpp, step 2).                               *)
(*                                                                         *)
(* For a split, a rank receives the inputs of its subgraph along its       *)
(* routes, runs the subgraph, and sends the outputs.  Every transfer is a  *)
(* call of SComm::distribute, which blocks in an MPI collective on the     *)
(* communicator of the route until all source and all destination ranks    *)
(* have called it (src/src/comm/SComm.cpp).  The forward and the backward  *)
(* route of a connection use the same tag, hence the same communicator.    *)
(*                                                                         *)
(* A route that skips over subgraphs is delayed: the source of a route     *)
(* with delay d sends split k only after it has run split k + d, and after *)
(* its last split it flushes what is still unsent.                         *)
(*                                                                         *)
(* Each rank hosts one subgraph: that is what searchAllocationFlat and     *)
(* searchAllocationSimple (src/src/graph/Decomposition.cpp) produce for    *)
(* the default decomposer.                                                 *)
(***************************************************************************)
EXTENDS Redist

CONSTANTS
    Rank,          \* the MPI ranks
    Deployments,   \* the deployments considered, see DeploymentOK
    Passes         \* the calls of forward and backward the program makes

Graphs(d) == DOMAIN d.alloc

(***************************************************************************)
(* A connection carries value val from subgraph src to subgraph dst, and,  *)
(* if grad, the gradient of val back in the backward pass (createDeployment,*)
(* passedForBackward).                                                     *)
(***************************************************************************)
Connection(d) == [src: Graphs(d), dst: Graphs(d), val: Nat, grad: BOOLEAN]

DeploymentOK(d) ==
    /\ IsFiniteSet(Graphs(d))
    /\ d.alloc \in [Graphs(d) -> (SUBSET Rank) \ {{}}]
    /\ \A g, h \in Graphs(d) : g # h => d.alloc[g] \cap d.alloc[h] = {}
    /\ Rank = UNION {d.alloc[g] : g \in Graphs(d)}
    \* positions of the subgraphs in fwd_graph_order and bwd_graph_order
    /\ d.fwd_graph_order \in [Graphs(d) -> 0..(Cardinality(Graphs(d)) - 1)]
    /\ d.bwd_graph_order \in [Graphs(d) -> 0..(Cardinality(Graphs(d)) - 1)]
    /\ \A g, h \in Graphs(d) : g # h =>
          /\ d.fwd_graph_order[g] # d.fwd_graph_order[h]
          /\ d.bwd_graph_order[g] # d.bwd_graph_order[h]
    /\ d.conns \in SUBSET Connection(d)
    \* a value goes from one subgraph to another at most once
    /\ \A c, e \in d.conns :
          (c.src = e.src /\ c.dst = e.dst /\ c.val = e.val) => c = e
    \* sortGraphs: both orders are topological
    /\ \A c \in d.conns :
          /\ d.fwd_graph_order[c.src] < d.fwd_graph_order[c.dst]
          /\ c.grad => d.bwd_graph_order[c.dst] < d.bwd_graph_order[c.src]
    /\ d.pipeline_num \in Nat \ {0}
    /\ d.checkpointing \in BOOLEAN
    /\ d.gather_inputs \in BOOLEAN

ASSUME RankAssumption == Rank \subseteq Nat /\ IsFiniteSet(Rank) /\ 0 \in Rank

ASSUME DeploymentsAssumption == \A d \in Deployments : DeploymentOK(d)

ASSUME PassesAssumption ==
    Passes \in Seq([is_bwd: BOOLEAN, batch_size: Nat \ {0}])

\* gather_inputs: a batch is the padded batches of all ranks together.
ASSUME GatherAssumption ==
    \A d \in Deployments : d.gather_inputs =>
        \A p \in DOMAIN Passes : Passes[p].batch_size % Cardinality(Rank) = 0

VARIABLES
    dep,             \* the deployment, the same on all ranks
    pass,            \* rank -> index in Passes; Len(Passes) + 1 when finished
    split,           \* rank -> split_index
    step,            \* rank -> loop of compute() the rank is in: "recv", "send"
    flush,           \* rank -> flush_offset; 0 for the sends of the split itself
    todo,            \* rank -> connections of this step still to be served
    recv_values,     \* rank -> connections that delivered a value for this split
    split_values,    \* rank -> split -> what split_values_ holds for it
    skip_fwd_split,  \* rank -> split -> skip_fwd_split_ of the rank
    stash,           \* rank -> split -> forward pass that saved the inputs and
                     \*         the rng state for recomputation (0: none)
    transfers        \* pass -> connection -> completed transfers (a history
                     \*         variable: no action's guard reads it)

vars == <<dep, pass, split, step, flush, todo, recv_values, split_values,
          skip_fwd_split, stash, transfers>>

-----------------------------------------------------------------------------
(***************************************************************************)
(* Routes.  In the backward pass the route of a connection runs from the   *)
(* destination of the value back to its source.                            *)
(***************************************************************************)
IsBwd(p) == Passes[p].is_bwd

SourceGraph(c, p) == IF IsBwd(p) THEN c.dst ELSE c.src

DestGraph(c, p) == IF IsBwd(p) THEN c.src ELSE c.dst

GraphOrder(p) == IF IsBwd(p) THEN dep.bwd_graph_order ELSE dep.fwd_graph_order

\* fwd_routes or bwd_routes.
Routes(p) == {c \in dep.conns : IsBwd(p) => c.grad}

RecvRoutes(r, p) == {c \in Routes(p) : r \in dep.alloc[DestGraph(c, p)]}

SendRoutes(r, p) == {c \in Routes(p) : r \in dep.alloc[SourceGraph(c, p)]}

RanksInRoute(c) == dep.alloc[c.src] \cup dep.alloc[c.dst]

\* Mutant: a value that skips over subgraphs is sent at once as well.
getDelay_None(c, p) == 0

\* The splits by which the sends along c lag behind: one for every subgraph
\* between the two ends.
getDelay(c, p) ==
    GraphOrder(p)[DestGraph(c, p)] - GraphOrder(p)[SourceGraph(c, p)] - 1

\* max_fwd_delay_ or max_bwd_delay_, over the routes of all subgraphs.
getMaxDelay(p) == Max({0} \cup {getDelay(c, p) : c \in Routes(p)})

\* sortRoutes: by delay, then by the name of the value.
Before(c, e, p) ==
    \/ getDelay(c, p) < getDelay(e, p)
    \/ getDelay(c, p) = getDelay(e, p) /\ c.val < e.val

\* The launcher's actual_pipeline_num; the connector knows only pipeline_num.
ActualPipelineNum(p) ==
    IF dep.pipeline_num > Passes[p].batch_size THEN Passes[p].batch_size
    ELSE dep.pipeline_num

\* SComm::batch_size_ while split k of pass p is computed (set_bs).
BatchSize(p, k) ==
    SplitBatchSizes(Passes[p].batch_size, ActualPipelineNum(p))[k]

\* The rows of split k that rank r computes.
RowsOf(r, p, k) ==
    LET g == CHOOSE g \in Graphs(dep) : r \in dep.alloc[g]
    IN  RankBatchSizes(BatchSize(p, k), dep.alloc[g], k)[r]

Running(r) == pass[r] <= Len(Passes)

\* Mutant: the value of the current split is sent.
TgtSplit_Current(r, c) == split[r]

\* distributeOutput: the split that is sent via c now.
TgtSplit(r, c) == split[r] + flush[r] - getDelay(c, pass[r])

\* The sends of a step with flush offset f.  With a negative tgt_split the
\* send is only postponed; a flush step i leaves out routes of delay < i.
SendsOf(r, f) ==
    {c \in SendRoutes(r, pass[r]) :
        /\ f = 0 \/ getDelay(c, pass[r]) >= f
        /\ split[r] + f - getDelay(c, pass[r]) >= 0}

MaxSplits == 0..(dep.pipeline_num - 1)

-----------------------------------------------------------------------------
NoRoutes(p) == [c \in dep.conns |-> 0]

Init ==
    /\ dep \in Deployments
    /\ pass = [r \in Rank |-> 1]
    /\ split = [r \in Rank |-> 0]
    /\ step = [r \in Rank |-> "recv"]
    /\ flush = [r \in Rank |-> 0]
    /\ todo = [r \in Rank |-> IF Passes = << >> THEN {} ELSE RecvRoutes(r, 1)]
    /\ recv_values = [r \in Rank |-> {}]
    /\ split_values = [r \in Rank |-> [k \in MaxSplits |->
                          IF k = 0 THEN "inputs" ELSE "absent"]]
    /\ skip_fwd_split = [r \in Rank |-> [k \in MaxSplits |-> "unset"]]
    /\ stash = [r \in Rank |-> [k \in MaxSplits |-> 0]]
    /\ transfers = [p \in DOMAIN Passes |-> NoRoutes(p)]

\* Rank r has called distribute() for connection c and is blocked in it.
Waiting(r, c) ==
    /\ Running(r)
    /\ c \in todo[r]
    /\ \A e \in todo[r] \ {c} : Before(c, e, pass[r])

CanTransfer(c) == \A r \in RanksInRoute(c) : Waiting(r, c)

\* Mutant: only the first source rank tells the type of the value.
HasValue_FirstSource(r, c) ==
    /\ \A q \in RanksInRoute(c) : step[q] = "send" => r <= q
    /\ split_values[r][TgtSplit(r, c)] = "outputs"

\* Rank r has the value of the split it is sending; otherwise it passes None.
HasValue(r, c) == split_values[r][TgtSplit(r, c)] = "outputs"

(***************************************************************************)
(* All ranks of the route are in distribute(): the types are reduced, the  *)
(* rows are redistributed and every rank goes on.  If no source rank had a *)
(* value the receivers get None, which is not added to recv_values.        *)
(***************************************************************************)
Transfer(c) ==
    /\ CanTransfer(c)
    /\ todo' = [r \in Rank |->
                   IF r \in RanksInRoute(c) THEN todo[r] \ {c} ELSE todo[r]]
    /\ recv_values' = [r \in Rank |->
          IF /\ r \in RanksInRoute(c) /\ step[r] = "recv"
             /\ \E q \in RanksInRoute(c) : step[q] = "send" /\ HasValue(q, c)
          THEN recv_values[r] \cup {c}
          ELSE recv_values[r]]
    /\ \E q \in RanksInRoute(c) :
          transfers' = [transfers EXCEPT ![pass[q]][c] = @ + 1]
    /\ UNCHANGED <<dep, pass, split, step, flush, split_values,
                   skip_fwd_split, stash>>

\* isGraphReady: every incoming edge delivered a value.
GraphReady(r) == recv_values[r] = RecvRoutes(r, pass[r])

\* The skip callbacks: in the forward pass a rank without rows has undefined
\* input tensors; the backward pass repeats the decision of the forward pass.
Skip(r) ==
    IF IsBwd(pass[r]) THEN skip_fwd_split[r][split[r]] = "skip"
    ELSE RowsOf(r, pass[r], split[r]) = 0

\* Mutant of the next definition: saved only if there is nothing yet.
SavesInputs_Once(r) ==
    ~IsBwd(pass[r]) /\ dep.checkpointing /\ stash[r][split[r]] = 0

\* In the forward pass func saves the inputs and the rng state of the split.
SavesInputs(r) == ~IsBwd(pass[r]) /\ dep.checkpointing

\* Mutant: the rank does not wait for its inputs.
Received_NoWait(r) == Running(r) /\ step[r] = "recv"

\* All receiving routes of the subgraph were served.
Received(r) == Running(r) /\ step[r] = "recv" /\ todo[r] = {}

(***************************************************************************)
(* aggr and runDriver, with the callbacks of forward() and backward(), and *)
(* on to the sends of the split.                                           *)
(***************************************************************************)
RunDriver(r) ==
    /\ Received(r)
    /\ LET ready == GraphReady(r)
           runs  == ready /\ ~Skip(r)
           k     == split[r]
       IN  /\ split_values' = IF runs
                 THEN [split_values EXCEPT ![r][k] = "outputs"]
                 ELSE split_values
           /\ skip_fwd_split' = IF ready /\ ~IsBwd(pass[r])
                 THEN [skip_fwd_split EXCEPT ![r][k] =
                          IF Skip(r) THEN "skip" ELSE "run"]
                 ELSE skip_fwd_split
           /\ stash' = IF runs /\ SavesInputs(r)
                 THEN [stash EXCEPT ![r][k] = pass[r]]
                 ELSE stash
    /\ step' = [step EXCEPT ![r] = "send"]
    /\ todo' = [todo EXCEPT ![r] = SendsOf(r, 0)]
    /\ UNCHANGED <<dep, pass, split, flush, recv_values, transfers>>

\* Mutant: off by one.
LastSplit_Beyond(r) == split[r] = dep.pipeline_num

\* The condition under which compute() flushes: "last split".
LastSplit(r) == split[r] + 1 = dep.pipeline_num

\* The next round of the flush loop.
Flush(r) ==
    /\ Running(r) /\ step[r] = "send" /\ todo[r] = {}
    /\ LastSplit(r)
    /\ flush[r] < getMaxDelay(pass[r])
    /\ flush' = [flush EXCEPT ![r] = @ + 1]
    /\ todo' = [todo EXCEPT ![r] = SendsOf(r, flush[r] + 1)]
    /\ UNCHANGED <<dep, pass, split, step, recv_values, split_values,
                   skip_fwd_split, stash, transfers>>

\* compute() has served all its routes for this split.
SplitServed(r) ==
    /\ Running(r) /\ step[r] = "send" /\ todo[r] = {}
    /\ LastSplit(r) => flush[r] = getMaxDelay(pass[r])

\* Mutant: split_values_ is cleared at every split.
StartSplit_ClearAlways(r, p, k) ==
    /\ pass' = [pass EXCEPT ![r] = p]
    /\ split' = [split EXCEPT ![r] = k]
    /\ step' = [step EXCEPT ![r] = "recv"]
    /\ flush' = [flush EXCEPT ![r] = 0]
    /\ todo' = [todo EXCEPT ![r] =
                   IF p <= Len(Passes) THEN RecvRoutes(r, p) ELSE {}]
    /\ recv_values' = [recv_values EXCEPT ![r] = {}]
    /\ split_values' = [split_values EXCEPT ![r] =
          [j \in MaxSplits |-> IF j = k THEN "inputs" ELSE "absent"]]
    /\ UNCHANGED <<dep, skip_fwd_split, stash, transfers>>

\* compute() starts on split k of pass p: split_values_ is cleared at split 0
\* and the inputs of the split are stored.
StartSplit(r, p, k) ==
    /\ pass' = [pass EXCEPT ![r] = p]
    /\ split' = [split EXCEPT ![r] = k]
    /\ step' = [step EXCEPT ![r] = "recv"]
    /\ flush' = [flush EXCEPT ![r] = 0]
    /\ todo' = [todo EXCEPT ![r] =
                   IF p <= Len(Passes) THEN RecvRoutes(r, p) ELSE {}]
    /\ recv_values' = [recv_values EXCEPT ![r] = {}]
    /\ split_values' = [split_values EXCEPT ![r] =
          [j \in MaxSplits |-> IF j = k THEN "inputs"
                               ELSE IF k = 0 THEN "absent" ELSE @[j]]]
    /\ UNCHANGED <<dep, skip_fwd_split, stash, transfers>>

\* Mutant: one split too many.
NextSplit_TooMany(r) ==
    /\ SplitServed(r)
    /\ split[r] < ActualPipelineNum(pass[r])
    /\ StartSplit(r, pass[r], split[r] + 1)

\* The loop over the splits in GraphLauncher::compute.
NextSplit(r) ==
    /\ SplitServed(r)
    /\ split[r] + 1 < ActualPipelineNum(pass[r])
    /\ StartSplit(r, pass[r], split[r] + 1)

\* Rank r is through with step 2 of its pass.
PassServed(r) ==
    SplitServed(r) /\ split[r] + 1 = ActualPipelineNum(pass[r])

(***************************************************************************)
(* The call returns and the program makes the next one.  With              *)
(* gather_inputs, forward and backward start with allReduceMaxBatchSize    *)
(* over all ranks, so no rank starts on a pass before all ranks are done   *)
(* with the one before.  Otherwise they end with a broadcast from rank 0.  *)
(***************************************************************************)
NextPass(r) ==
    /\ PassServed(r)
    /\ \A q \in IF dep.gather_inputs THEN Rank ELSE {0} :
          pass[q] > pass[r] \/ PassServed(q)
    /\ StartSplit(r, pass[r] + 1, 0)

Finished == \A r \in Rank : ~Running(r)

Terminated == Finished /\ UNCHANGED vars

Next ==
    \/ \E c \in dep.conns : Transfer(c)
    \/ \E r \in Rank : RunDriver(r) \/ Flush(r) \/ NextSplit(r) \/ NextPass(r)
    \/ Terminated

Spec == Init /\ [][Next]_vars

\* A rank that is not blocked runs on, and a collective that all its ranks
\* have called completes.
FairSpec == Spec /\ WF_vars(Next)

-----------------------------------------------------------------------------
TypeOK ==
    /\ DeploymentOK(dep)
    /\ pass \in [Rank -> 1..(Len(Passes) + 1)]
    /\ split \in [Rank -> Nat] /\ \A r \in Rank : split[r] < dep.pipeline_num
    /\ step \in [Rank -> {"recv", "send"}]
    /\ flush \in [Rank -> Nat]
    /\ todo \in [Rank -> SUBSET dep.conns]
    /\ recv_values \in [Rank -> SUBSET dep.conns]
    /\ split_values \in [Rank -> [MaxSplits -> {"absent", "inputs", "outputs"}]]
    /\ skip_fwd_split \in [Rank -> [MaxSplits -> {"unset", "skip", "run"}]]
    /\ stash \in [Rank -> [MaxSplits -> 0..Len(Passes)]]
    /\ transfers \in [DOMAIN Passes -> [dep.conns -> Nat]]

\* Rank r takes part in a transfer as a receiver / as a sender of split k.
Receives(r, c, k) ==
    step[r] = "recv" /\ r \in dep.alloc[DestGraph(c, pass[r])] /\ split[r] = k

Sends(r, c, k) ==
    step[r] = "send" /\ r \in dep.alloc[SourceGraph(c, pass[r])]
      /\ TgtSplit(r, c) = k

\* Whenever the ranks of a route meet in a collective they mean the same
\* transfer: all of them are in the same pass, every destination rank is
\* receiving and every source rank is sending, and the split the sources send
\* (tgt_split, with its delay and flush offset) is the split the destinations
\* are about to compute.
TransferAgreed ==
    \A c \in dep.conns : CanTransfer(c) =>
        \E p \in DOMAIN Passes : \E k \in 0..(ActualPipelineNum(p) - 1) :
            \A r \in RanksInRoute(c) :
                pass[r] = p /\ (Receives(r, c, k) \/ Sends(r, c, k))

\* A subgraph never runs short of inputs: when all routes of a split were
\* served, each of them delivered a value, although single source ranks have
\* none (no rows in this split).  Otherwise runDriver would silently leave the
\* split out.
InputsComplete ==
    \A r \in Rank : Received(r) => GraphReady(r)

\* The buffered values of an earlier split are still there when a delayed send
\* gets to them: assert(contains(split_values_, tgt_split)).
DelayedValueBuffered ==
    \A r \in Rank : Running(r) /\ step[r] = "send" =>
        \A c \in todo[r] :
            /\ TgtSplit(r, c) \in MaxSplits
            /\ split_values[r][TgtSplit(r, c)] # "absent"

\* Both ends of a transfer compute their part of the redistribution on their
\* own, from the batch size and the split index their SComm holds.  They
\* expect the same number of rows between every pair of ranks.
RowCountsMatch ==
    \A c \in dep.conns : CanTransfer(c) =>
        \A s, d \in RanksInRoute(c) :
            \A k \in MaxSplits :
                Sends(s, c, k) /\ Receives(d, c, k) =>
                LET p     == pass[s]
                    srcs  == dep.alloc[SourceGraph(c, p)]
                    dests == dep.alloc[DestGraph(c, p)]
                    rows  == BatchSize(p, k)
                IN  RedistArgsSend(s, BatchSize(p, split[s]), rows,
                                   srcs, dests, TgtSplit(s, c)).count[d]
                      = RedistArgsRecv(d, BatchSize(p, split[d]), rows,
                                       srcs, dests, split[d]).count[s]

\* A backward pass recomputes a split (checkpointing) from the inputs and the
\* rng state of the forward pass it belongs to, the one right before it, and
\* repeats exactly the splits that forward pass ran.
RecomputesOwnForward ==
    \A r \in Rank :
        Received(r) /\ IsBwd(pass[r]) =>
            /\ skip_fwd_split[r][split[r]] # "unset"
            /\ dep.checkpointing /\ ~Skip(r) => stash[r][split[r]] = pass[r] - 1

\* A rank that is through with a pass has sent every split of every value:
\* no delayed send is left over ("flush", "last split").
AllSplitsSent ==
    \A r \in Rank :
        PassServed(r) =>
            \A c \in SendRoutes(r, pass[r]) :
                transfers[pass[r]][c] = ActualPipelineNum(pass[r])

(***************************************************************************)
(* Why the ranks agree: each of them can tell from its own program         *)
(* counter how often a connection was used.                                *)
(***************************************************************************)

\* The transfers via c that rank r has been through in the current pass.
Served(r, c) ==
    LET p    == pass[r]
        d    == getDelay(c, p)
        tgt  == split[r] + (IF flush[r] < d THEN flush[r] ELSE d) - d
    IN  IF r \in dep.alloc[DestGraph(c, p)]
        THEN IF step[r] = "recv" /\ c \in todo[r] THEN split[r] ELSE split[r] + 1
        ELSE IF step[r] = "recv"
        THEN IF split[r] < d THEN 0 ELSE split[r] - d
        ELSE IF tgt < 0 THEN 0
        ELSE IF c \in todo[r] THEN tgt ELSE tgt + 1

\* The transfers via c in pass p that rank r has been through.
ServedIn(r, c, p) ==
    IF c \notin Routes(p) \/ pass[r] < p THEN 0
    ELSE IF pass[r] = p THEN Served(r, c)
    ELSE ActualPipelineNum(p)

\* All ranks of a connection count the transfers that took place, in every
\* pass: none is ahead of another one, although they never exchange a split
\* index.
TransfersCounted ==
    \A c \in dep.conns : \A r \in RanksInRoute(c) : \A p \in DOMAIN Passes :
        transfers[p][c] = ServedIn(r, c, p)

\* Where a rank can be in compute(), and that split_values_ holds every split
\* it has reached.
InCompute(r) ==
    /\ step[r] = "recv" => flush[r] = 0
    /\ Running(r) =>
          /\ split[r] < ActualPipelineNum(pass[r])
          /\ step[r] = "recv" => todo[r] \subseteq RecvRoutes(r, pass[r])
          /\ step[r] = "send" => todo[r] \subseteq SendsOf(r, flush[r])
          /\ flush[r] > 0 => LastSplit(r)
          /\ \A k \in 0..split[r] : split_values[r][k] # "absent"

ControlState == \A r \in Rank : InCompute(r)

\* Every batch has at least as many rows as the deployment has micro-batches.
\* Otherwise the launcher runs fewer splits than pipeline_num and no rank
\* reaches the split after which it would flush its delayed sends.
FlushReached(d) ==
    \A p \in DOMAIN Passes : d.pipeline_num <= Passes[p].batch_size

\* Every pass comes to its end on every rank: the order in which the ranks
\* serve their routes never makes them wait for one another in a circle.
\* "Hopefully this ordering allows blocking communication among graphs"
\* (createDeployment).
AllPassesFinish == <>Finished

\* What the pipeline implements: module Dataflow, where a rank has run a
\* split once its driver returned.
DataflowPosition(r) ==
    IF Running(r) /\ step[r] = "send"
    THEN IF split[r] + 1 < ActualPipelineNum(pass[r])
         THEN <<pass[r], split[r] + 1>>
         ELSE <<pass[r] + 1, 0>>
    ELSE <<pass[r], split[r]>>

Abstract == INSTANCE Dataflow WITH
    at <- [r \in Rank |-> DataflowPosition(r)]

\* Micro-batches flow through the subgraphs as Dataflow says: a rank runs the
\* splits of a pass in order and each of them after the upstream subgraphs ran
\* the same split of the same pass.
ImplementsDataflow == Abstract!Spec

=============================================================================
