--------------------------- MODULE GraphLauncher ---------------------------
(***************************************************************************)
(* One call of GraphLauncher::forward or ::backward, as seen by all ranks  *)
(* together (src/src/comp/GraphLauncher.cpp).  The rows of the caller's    *)
(* batch are padded, cut into micro-batches, redistributed to the ranks of *)
(* the first subgraph, computed, passed to the ranks of the last subgraph, *)
(* and the results are redistributed to the callers and merged.            *)
(*                                                                         *)
(* What is followed is the identity of every row: where the arithmetic of  *)
(* Redist puts it.  The subgraphs compute row by row, so a computed row    *)
(* keeps the identity of the input row.  How the ranks interleave is the   *)
(* subject of module Pipeline; here they take every step of compute()      *)
(* together.                                                               *)
(***************************************************************************)
EXTENDS Redist

CONSTANTS
    World,      \* the MPI ranks, 0 .. mpi::getSize() - 1
    Launches    \* the calls considered, see LaunchesAssumption

ASSUME WorldAssumption ==
    IsFiniteSet(World) /\ World # {} /\ World = 0..(Cardinality(World) - 1)

ASSUME LaunchesAssumption ==
    \A l \in Launches :
        /\ l.is_bwd \in BOOLEAN
        /\ l.gather_inputs \in BOOLEAN        \* RaNNCModule(gather_inputs=..)
        /\ l.pipeline_num \in Nat \ {0}       \* micro-batches of the deployment
        /\ l.local \in [World -> Nat \ {0}]   \* rows each rank passes in
        /\ l.first \in (SUBSET World) \ {{}}    \* ranks of the first subgraph
        /\ l.last \in (SUBSET World) \ {{}}     \* ranks of the last subgraph

VARIABLES
    launch,             \* the call in progress
    phase,              \* the step of compute() to be taken next
    split,              \* the loop variable i of that step
    graph_inputs,       \* split -> rank of first -> rows        (step 1)
    graph_driver_out,   \* split -> rank of last -> rows         (step 2)
    graph_outputs,      \* split -> receiving rank -> rows       (step 3)
    ret                 \* rank -> rows returned to the caller

vars == <<launch, phase, split, graph_inputs, graph_driver_out,
          graph_outputs, ret>>

-----------------------------------------------------------------------------
\* Row j of the batch rank r passed in.
Row(r, j) == <<r, j>>

\* A row of zeroes, and what a rank reads when nobody sent the row.
ZeroRow == <<-1, 0>>
Garbage == <<-1, -1>>

MaxLocal == Max({launch.local[r] : r \in World})

\* forward/backward: the batch size all ranks agree on.
GlobalBatchSize ==
    IF launch.gather_inputs THEN MaxLocal * Cardinality(World)
    ELSE launch.local[0]

(***************************************************************************)
(* padTensor on a tensor with fewer than batch_size rows.  It repeats the  *)
(* tensor until it is long enough.  For zero padding it calls zero_() on   *)
(* each repetition, which is the tensor itself or a view of it: every row  *)
(* ends up zero.  Without a single row there is nothing to repeat.         *)
(***************************************************************************)
padTensor(rows, batch_size, zero) ==
    [j \in 1..batch_size |->
        CASE rows = << >> -> Garbage
          [] zero -> ZeroRow
          [] OTHER -> rows[((j - 1) % Len(rows)) + 1]]

\* alignTensor: cut or pad to batch_size rows.
alignTensor(rows, batch_size, zero_pad) ==
    IF Len(rows) > batch_size THEN SubSeq(rows, 1, batch_size)
    ELSE IF Len(rows) < batch_size THEN padTensor(rows, batch_size, zero_pad)
    ELSE rows

OwnRows(r) == [j \in 1..launch.local[r] |-> Row(r, j)]

\* What rank r hands to compute(): pad_inputs.
PadInputs(r) ==
    CASE launch.gather_inputs -> alignTensor(OwnRows(r), MaxLocal, launch.is_bwd)
      [] ~launch.gather_inputs /\ r = 0 -> OwnRows(0)
      [] OTHER -> << >>

\* compute(): actual_pipeline_num and the rows of every micro-batch.
ActualPipelineNum ==
    IF launch.pipeline_num > GlobalBatchSize THEN GlobalBatchSize
    ELSE launch.pipeline_num

Splits == 0..(ActualPipelineNum - 1)

\* What the size of the micro-batches must be for the ranks to agree on their
\* slices: all the same, unless rank 0 holds the whole batch.
SplitsEven == launch.gather_inputs => (GlobalBatchSize % ActualPipelineNum) = 0

SplitSizes == SplitBatchSizes(GlobalBatchSize, ActualPipelineNum)

LocalSizes(r) ==
    CASE launch.gather_inputs ->
            LocalSplitBatchSizes(SplitSizes, Cardinality(World), r)
      [] ~launch.gather_inputs /\ r = 0 -> LocalSplitBatchSizes(SplitSizes, 1, 0)
      [] OTHER -> [i \in Splits |-> 0]

\* rewriteInRoute / rewriteOutRoute: with gather_inputs the MASTER end of a
\* route is all ranks, without it rank 0.
MasterRanks == IF launch.gather_inputs THEN World ELSE {0}

\* sliceOrWeightTensorsInIValue: the rows rank r cuts out for split i.
\* Tensor::slice stops at the end of the tensor.
Slice(r, i) ==
    LET sizes == LocalSizes(r)
        from  == SumFunctionOnSet(sizes, {j \in Splits : j < i})
        to    == Min({from + sizes[i], Len(PadInputs(r))})
    IN  SubSeq(PadInputs(r), from + 1, to)

(***************************************************************************)
(* SComm::distribute of one split along a REDIST route, on all its ranks:  *)
(* every destination rank reads its rows from the buffers of the sources,  *)
(* at the displacements the two sides computed independently.  A row that  *)
(* no source sends, that the two sides count differently, or that lies     *)
(* outside the sender's buffer is garbage.                                 *)
(***************************************************************************)
Distribute(buffers, dests, bs, i) ==
    LET srcs      == DOMAIN buffers
        send(s)   == RedistArgsSend(s, bs, bs, srcs, dests, i)
        recv(d)   == RedistArgsRecv(d, bs, bs, srcs, dests, i)
        size(d)   == DistBatchRows(bs, bs, dests, i)[d]
        holds(d, s, p) ==
            /\ recv(d).displ[s] < p
            /\ p <= recv(d).displ[s] + recv(d).count[s]
            /\ send(s).count[d] = recv(d).count[s]
            /\ send(s).displ[d] + p - recv(d).displ[s] <= Len(buffers[s])
        row(d, p) ==
            IF \E s \in srcs : holds(d, s, p)
            THEN LET s == CHOOSE s \in srcs : holds(d, s, p)
                 IN  buffers[s][send(s).displ[d] + p - recv(d).displ[s]]
            ELSE Garbage
    IN  [d \in dests |-> [p \in 1..size(d) |-> row(d, p)]]

-----------------------------------------------------------------------------
Init ==
    /\ launch \in Launches
    /\ phase = "distribute_inputs"
    /\ split = 0
    /\ graph_inputs = << >>
    /\ graph_driver_out = << >>
    /\ graph_outputs = << >>
    /\ ret = [r \in World |-> << >>]

\* The loop "for (int i=0; i<actual_pipeline_num; i++)" of a step.
Loop(next_phase) ==
    IF split + 1 < ActualPipelineNum
    THEN split' = split + 1 /\ phase' = phase
    ELSE split' = 0 /\ phase' = next_phase

\* Step 1: distribute (inputs).
DistributeInputs ==
    /\ phase = "distribute_inputs"
    /\ graph_inputs' = Append(graph_inputs,
          Distribute([r \in MasterRanks |-> Slice(r, split)],
                     launch.first, SplitSizes[split], split))
    /\ Loop("compute")
    /\ UNCHANGED <<launch, graph_driver_out, graph_outputs, ret>>

\* Step 2: compute, with the values travelling from first to last.
Compute ==
    /\ phase = "compute"
    /\ graph_driver_out' = Append(graph_driver_out,
          Distribute(graph_inputs[split + 1], launch.last,
                     SplitSizes[split], split))
    /\ Loop("distribute_outputs")
    /\ UNCHANGED <<launch, graph_inputs, graph_outputs, ret>>

\* Step 3: distribute (outputs).
DistributeOutputs ==
    /\ phase = "distribute_outputs"
    /\ graph_outputs' = Append(graph_outputs,
          Distribute(graph_driver_out[split + 1], MasterRanks,
                     SplitSizes[split], split))
    /\ Loop("merge")
    /\ UNCHANGED <<launch, graph_inputs, graph_driver_out, ret>>

\* Merge the splits, cut the result back to the rows the caller passed in;
\* without gather_inputs rank 0 broadcasts its result to all ranks.
Merge ==
    /\ phase = "merge"
    /\ LET merged(r) == FlattenSeq([i \in 1..ActualPipelineNum |->
                                        graph_outputs[i][r]])
       IN  ret' = [r \in World |->
              IF launch.gather_inputs
              THEN alignTensor(merged(r), launch.local[r], FALSE)
              ELSE merged(0)]
    /\ phase' = "returned"
    /\ UNCHANGED <<launch, split, graph_inputs, graph_driver_out, graph_outputs>>

Next == DistributeInputs \/ Compute \/ DistributeOutputs \/ Merge

Spec == Init /\ [][Next]_vars

-----------------------------------------------------------------------------
\* The launcher is in one of its loops and at a split of the batch.
TypeOK ==
    /\ launch \in Launches
    /\ phase \in {"distribute_inputs", "compute", "distribute_outputs",
                  "merge", "returned"}
    /\ split \in Splits

\* The slice a rank cuts out of its own batch for a micro-batch has exactly
\* the rows that the redistribution of that micro-batch takes from the rank:
\* getLocalSplitBatchSizes and getSplitBatchSizes, two different loops over
\* the same batch, agree on every rank and every split.
SliceIsShare ==
    \A i \in Splits, r \in MasterRanks :
        LocalSizes(r)[i] = RankBatchSizes(SplitSizes[i], MasterRanks, i)[r]

\* A caller gets back the results of the rows it passed in, all of them and
\* in their order, however the rows travelled through the replicas of the
\* subgraphs (without gather_inputs: the results of the rows of rank 0).
OwnRowsReturn ==
    phase = "returned" =>
        \A r \in World :
            ret[r] = OwnRows(IF launch.gather_inputs THEN r ELSE 0)

=============================================================================
