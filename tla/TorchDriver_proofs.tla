-------------------------- MODULE TorchDriver_proofs --------------------------
(***************************************************************************)
(* Proofs about module TorchDriver, for any number of replicas, splits,    *)
(* rows and calls, as long as the deployment has no more replicas of the   *)
(* subgraph than splits.                                                   *)
(***************************************************************************)
EXTENDS TorchDriver, Redist_proofs

\* There are enough splits for every replica to get rows in one of them.
SplitsForAll == job.replicas <= job.pipeline

-----------------------------------------------------------------------------
(* The invariant. *)

Graphs == [input: Items \cup {Nothing}, version: Int, recorded: BOOLEAN]

TypeInv ==
    /\ job \in Jobs
    /\ call \in [no: 0..MaxCalls, training: BOOLEAN, rows: Nat \ {0}]
    /\ pc \in {"app", "forward", "backward"}
    /\ pc # "app" => call.no # 0
    /\ split \in 0..job.pipeline
    /\ pc = "app" => split = 0
    /\ pc = "backward" => call.training = TRUE
    /\ version \in Int
    /\ driver \in [last_split_idx: Splits \cup {INT32_MAX}, copies: Int, copyGrad: {ZeroGrad},
                   shared_in: Items \cup {Nothing}, last_outputs: [Splits -> Graphs]]
    /\ inputs \in [Splits -> Items \cup {Nothing}]
    /\ due \in [Items -> {0, 1}]
    /\ ran \in Graphs

\* The driver runs splits in this pass: all of a forward pass, and those of a
\* backward pass that it computes again.
Runs == pc = "forward" \/ (pc = "backward" /\ Checkpointing)

\* A split of this pass that the driver has run.
Done(k) == Runs /\ k \in Splits /\ k < split /\ ~Skip(k)

\* The splits that autograd still has to come back for.
Pending(k) == /\ k \in Splits /\ ~Skip(k)
              /\ \/ pc = "forward" /\ k < split
                 \/ pc = "backward" /\ split <= k

(***************************************************************************)
(* Why the comparison of split indices in forward is enough.  A rank with  *)
(* work in some split of every pass runs, in each pass, a split up to its  *)
(* own position and one from there on.  So the index that the last pass    *)
(* left behind is at least the position, and the first split that the next *)
(* pass runs is at most the position: it renews the copies.                *)
(***************************************************************************)
CopiesInv ==
    /\ (\E k \in Splits : Done(k)) => driver.copies = version
    /\ \A k \in Splits : Done(k) => k <= driver.last_split_idx
    /\ (\A k \in Splits : ~Done(k)) => job.rank <= driver.last_split_idx

\* What a split's backward pass will find.
StashInv ==
    \A k \in Splits : Pending(k) =>
        IF Checkpointing THEN inputs[k] = Item(k)
        ELSE /\ driver.last_outputs[k] = [input    |-> Item(k),
                                          version  |-> version,
                                          recorded |-> call.training]
             /\ driver.copies = version
             /\ driver.shared_in = Item(k)

\* Which splits the gradient counts already.
GradInv ==
    /\ grad = due
    /\ \A i \in Items : due[i] # 0 =>
          \/ i[1] < call.no
          \/ i[1] = call.no /\ (pc = "app" \/ (pc = "backward" /\ i[2] < split))

RanInv ==
    /\ ran.input[1] <= call.no
    /\ RunsOnCurrentParams

IInv == TypeInv /\ SplitsForAll /\ CopiesInv /\ StashInv /\ GradInv /\ RanInv

-----------------------------------------------------------------------------
(* What the driver finds. *)

\* The job: constants of the pipeline that the proofs use over and over.
LEMMA JobFacts ==
    ASSUME job \in Jobs
    PROVE  /\ job.replicas \in Nat \ {0} /\ job.rank \in 0..(job.replicas - 1)
           /\ job.pipeline \in Nat \ {0} /\ job.pipeline <= INT32_MAX
           /\ Splits = 0..(job.pipeline - 1)
           /\ INT32_MAX \in Nat /\ MaxCalls \in Nat
  BY DriverAssumption DEF Splits

\* Every rank has work in a split up to its position and in one from there on.
LEMMA Works ==
    ASSUME job \in Jobs, call.rows \in Nat \ {0}, SplitsForAll
    PROVE  /\ \E k \in Splits : k <= job.rank /\ ~Skip(k)
           /\ \E k \in Splits : job.rank <= k /\ ~Skip(k)
<1>1. PICK n \in Nat \ {0}, r \in Nat, P \in Nat \ {0}, b \in Nat \ {0} :
         /\ n = job.replicas /\ r = job.rank /\ P = job.pipeline /\ b = call.rows
         /\ r \in 0..(n - 1)
  BY JobFacts
<1>2. n <= P /\ Splits = 0..(P - 1)
  BY <1>1, JobFacts DEF SplitsForAll
<1>3. PICK ranks \in SUBSET Nat : ranks = 0..(n - 1)
  OBVIOUS
<1>4. /\ IsFiniteSet(ranks) /\ Cardinality(ranks) = n /\ r \in ranks
      /\ Position(r, ranks) = r
  BY <1>1, <1>3, PositionInInterval
<1>5. \A k \in Nat : RankBatchSizes(b, ranks, k)[r] > 0 => ~Skip(k)
  BY <1>1, <1>3 DEF Skip
<1>6. \E k \in 0..r : RankBatchSizes(b, ranks, k)[r] > 0
  BY <1>4, WorksEarly
<1>7. \E k \in r..(n - 1) : RankBatchSizes(b, ranks, k)[r] > 0
  BY <1>4, WorksLate
<1>8. \E k \in Splits : k <= job.rank /\ ~Skip(k)
  BY <1>1, <1>2, <1>5, <1>6
<1>9. \E k \in Splits : job.rank <= k /\ ~Skip(k)
  BY <1>1, <1>2, <1>5, <1>7
<1> QED
  BY <1>8, <1>9

\* Without checkpointing there is one split and one replica.
LEMMA SingleSplit ==
    ASSUME job \in Jobs, SplitsForAll, ~Checkpointing
    PROVE  job.pipeline = 1 /\ job.rank = 0 /\ Splits = {0}
  BY JobFacts DEF Checkpointing, CheckpointingFor, SplitsForAll

\* The splits that the current call may add to the gradient.
LEMMA ItemFacts ==
    ASSUME TypeInv, pc # "app", NEW k \in Splits
    PROVE  Item(k) \in Items /\ Item(k)[1] = call.no /\ Item(k)[2] = k
<1>1. MaxCalls \in Nat
  BY JobFacts DEF TypeInv
<1>2. call.no \in 1..MaxCalls
  BY <1>1 DEF TypeInv
<1> QED
  BY <1>2 DEF Item, Items

\* A forward run of the split that comes next, first or second one: whether
\* the copies were renewed or not, they hold the parameter.
LEMMA RunIsCurrent ==
    ASSUME IInv, Runs, split \in Splits, ~Skip(split), NEW input, NEW gradMode
    PROVE  forward(driver, split, input, gradMode) =
              [last_split_idx |-> split, copies |-> version, copyGrad |-> ZeroGrad,
               shared_in |-> input,
               last_outputs |-> [driver.last_outputs EXCEPT ![split] =
                    [input |-> input, version |-> version, recorded |-> gradMode]]]
<1>1. driver.copyGrad = ZeroGrad /\ split \in Nat /\ job \in Jobs /\ call.rows \in Nat \ {0}
  BY JobFacts DEF IInv, TypeInv
<1>2. Restarts(driver, split) \/ driver.copies = version
  <2>1. CASE \E k \in Splits : Done(k)
    BY <2>1 DEF IInv, CopiesInv
  <2>2. CASE \A k \in Splits : ~Done(k)
    <3>1. job.rank <= driver.last_split_idx
      BY <2>2 DEF IInv, CopiesInv
    <3>2. PICK k \in Splits : k <= job.rank /\ ~Skip(k)
      BY <1>1, Works DEF IInv
    <3>3. ~(k < split)
      BY <2>2, <3>2 DEF Done
    <3>4. driver.last_split_idx \in Nat /\ k \in Nat /\ job.rank \in Nat
      BY <1>1, JobFacts DEF IInv, TypeInv
    <3>5. split <= driver.last_split_idx
      BY <1>1, <3>1, <3>2, <3>3, <3>4
    <3> QED
      BY <3>5 DEF Restarts
  <2> QED
    BY <2>1, <2>2
<1>3. getParamInputTensors(driver, Restarts(driver, split)) =
         [copies |-> version, copyGrad |-> ZeroGrad]
  BY <1>1, <1>2 DEF getParamInputTensors
<1> QED
  BY <1>3 DEF forward

\* What the backward pass of the next split differentiates.
LEMMA OwnRun ==
    ASSUME IInv, pc = "backward", split \in Splits, ~Skip(split), NEW d, d = Recomputed(split)
    PROVE  /\ d \in [last_split_idx: Splits \cup {INT32_MAX}, copies: Int, copyGrad: {ZeroGrad},
                     shared_in: Items \cup {Nothing}, last_outputs: [Splits -> Graphs]]
           /\ d.last_outputs[split] = [input |-> Item(split), version |-> version,
                                       recorded |-> TRUE]
           /\ d.copies = version
           /\ d.shared_in = Item(split)
           /\ d.last_split_idx = IF Checkpointing THEN split ELSE driver.last_split_idx
<1>1. Item(split) \in Items
  BY ItemFacts DEF IInv
<1>2. Pending(split)
  <2>1. split <= split
    BY DEF IInv, TypeInv
  <2> QED
    BY <2>1 DEF Pending
<1>3. call.training = TRUE
  BY DEF IInv, TypeInv
<1>4. CASE Checkpointing
  <2>1. inputs[split] = Item(split)
    BY <1>2, <1>4 DEF IInv, StashInv
  <2>2. d = forward(driver, split, Item(split), TRUE)
    BY <1>4, <2>1 DEF Recomputed
  <2>3. d = [last_split_idx |-> split, copies |-> version, copyGrad |-> ZeroGrad,
             shared_in |-> Item(split),
             last_outputs |-> [driver.last_outputs EXCEPT ![split] =
                  [input |-> Item(split), version |-> version, recorded |-> TRUE]]]
    BY <1>4, <2>2, RunIsCurrent DEF Runs
  <2>4. version \in Int /\ driver.last_outputs \in [Splits -> Graphs]
    BY DEF IInv, TypeInv
  <2>5. [input |-> Item(split), version |-> version, recorded |-> TRUE] \in Graphs
    BY <1>1, <2>4 DEF Graphs
  <2> QED
    BY <1>1, <1>4, <2>3, <2>4, <2>5
<1>5. CASE ~Checkpointing
  <2>1. d = driver
    BY <1>5 DEF Recomputed
  <2>2. /\ driver.last_outputs[split] = [input |-> Item(split), version |-> version,
                                         recorded |-> TRUE]
        /\ driver.copies = version
        /\ driver.shared_in = Item(split)
    BY <1>2, <1>3, <1>5 DEF IInv, StashInv
  <2> QED
    BY <1>5, <2>1, <2>2 DEF IInv, TypeInv
<1> QED
  BY <1>4, <1>5

-----------------------------------------------------------------------------
(* Every step preserves the invariant. *)

\* What the job and the call determine.
LEMMA Frame ==
    ASSUME job' = job
    PROVE  /\ Splits' = Splits /\ Items' = Items /\ ZeroGrad' = ZeroGrad
           /\ Graphs' = Graphs /\ NoGraph' = NoGraph
           /\ Checkpointing' <=> Checkpointing
           /\ SplitsForAll' <=> SplitsForAll
  BY DEF Splits, Items, ZeroGrad, Graphs, NoGraph, Nothing, Checkpointing, SplitsForAll

\* Which splits a call skips depends on the job and the call only.
LEMMA CallFrame ==
    ASSUME job' = job, call' = call
    PROVE  \A k : (Skip(k)' <=> Skip(k)) /\ Item(k)' = Item(k)
  BY DEF Skip, Item

\* A driver that has run nothing.
LEMMA Initially == Init /\ SplitsForAll => IInv
<1> SUFFICES ASSUME Init, SplitsForAll PROVE IInv
  OBVIOUS
<1> USE DEF Init
<1>1. /\ job.replicas \in Nat \ {0} /\ job.rank \in 0..(job.replicas - 1)
      /\ job.pipeline \in Nat \ {0} /\ job.pipeline <= INT32_MAX
      /\ Splits = 0..(job.pipeline - 1)
      /\ INT32_MAX \in Nat /\ MaxCalls \in Nat
  BY JobFacts
<1>2. NoGraph \in Graphs
  BY DEF NoGraph, Graphs
<1>3. NewDriver \in [last_split_idx: Splits \cup {INT32_MAX}, copies: Int,
                     copyGrad: {ZeroGrad}, shared_in: Items \cup {Nothing},
                     last_outputs: [Splits -> Graphs]]
  BY <1>2 DEF NewDriver
<1>4. ZeroGrad \in [Items -> {0, 1}] /\ \A i \in Items : ZeroGrad[i] = 0
  BY DEF ZeroGrad
<1>5. TypeInv
  BY <1>1, <1>2, <1>3, <1>4 DEF TypeInv
<1>6. CopiesInv
  <2>1. \A k : ~Done(k)
    BY DEF Done, Runs
  <2>2. driver.last_split_idx = INT32_MAX
    BY DEF NewDriver
  <2>3. job.rank <= INT32_MAX
    BY <1>1 DEF SplitsForAll
  <2> QED
    BY <2>1, <2>2, <2>3 DEF CopiesInv
<1>7. StashInv
  BY DEF StashInv, Pending
<1>8. GradInv
  BY <1>4 DEF GradInv
<1>9. RanInv
  BY DEF RanInv, RunsOnCurrentParams, NoGraph, Nothing
<1> QED
  BY <1>5, <1>6, <1>7, <1>8, <1>9 DEF IInv

\* A forward pass: every split it runs is recorded or stashed.
LEMMA ForwardSplitInv ==
    ASSUME IInv, ForwardSplit
    PROVE  IInv'
<1>1. job' = job /\ call' = call /\ pc' = pc /\ version' = version /\ grad' = grad
      /\ due' = due /\ pc = "forward" /\ split' = split + 1 /\ split < job.pipeline
  BY DEF ForwardSplit
<1>2. /\ Splits' = Splits /\ Items' = Items /\ ZeroGrad' = ZeroGrad
      /\ Graphs' = Graphs
      /\ Checkpointing' <=> Checkpointing
      /\ SplitsForAll' <=> SplitsForAll
  BY <1>1, Frame
<1>3. \A k : (Skip(k)' <=> Skip(k)) /\ Item(k)' = Item(k)
  BY <1>1, CallFrame
<1>4. /\ job.replicas \in Nat \ {0} /\ job.rank \in 0..(job.replicas - 1)
      /\ job.pipeline \in Nat \ {0} /\ job.pipeline <= INT32_MAX
      /\ Splits = 0..(job.pipeline - 1)
      /\ INT32_MAX \in Nat /\ MaxCalls \in Nat
  BY JobFacts DEF IInv, TypeInv
<1>5. split \in Splits /\ split \in Nat /\ split' \in 0..job.pipeline
  BY <1>1, <1>4 DEF IInv, TypeInv
<1>6. Item(split) \in Items /\ Item(split)[1] = call.no
  BY <1>1, <1>5, ItemFacts DEF IInv
<1>7. GradInv'
  BY <1>1, <1>2 DEF IInv, GradInv
<1>8. CASE Skip(split)
  <2>1. driver' = driver /\ inputs' = inputs /\ ran' = ran
    BY <1>8 DEF ForwardSplit
  <2>2. \A k \in Splits : k < split + 1 <=> k < split \/ k = split
    BY <1>4, <1>5
  <2>3. \A k \in Splits : (Done(k)' <=> Done(k)) /\ (Pending(k)' <=> Pending(k))
    BY <1>1, <1>2, <1>3, <1>8, <2>2 DEF Done, Pending, Runs
  <2>4. TypeInv'
    BY <1>1, <1>2, <1>5, <2>1 DEF IInv, TypeInv
  <2>5. CopiesInv'
    BY <1>1, <1>2, <2>1, <2>3 DEF IInv, CopiesInv
  <2>6. StashInv'
    BY <1>1, <1>2, <1>3, <2>1, <2>3 DEF IInv, StashInv
  <2>7. RanInv'
    BY <1>1, <2>1 DEF IInv, RanInv, RunsOnCurrentParams
  <2> QED
    BY <1>2, <1>7, <2>4, <2>5, <2>6, <2>7 DEF IInv
<1>9. CASE ~Skip(split)
  <2>1. PICK mode \in BOOLEAN : mode = (call.training /\ ~Checkpointing)
    OBVIOUS
  <2>2. driver' = forward(driver, split, Item(split), mode)
    BY <1>9, <2>1 DEF ForwardSplit
  <2>3. driver' = [last_split_idx |-> split, copies |-> version, copyGrad |-> ZeroGrad,
                   shared_in |-> Item(split),
                   last_outputs |-> [driver.last_outputs EXCEPT ![split] =
                       [input |-> Item(split), version |-> version, recorded |-> mode]]]
    BY <1>1, <1>5, <1>9, <2>2, RunIsCurrent DEF Runs
  <2>4. inputs' = IF Checkpointing THEN [inputs EXCEPT ![split] = Item(split)] ELSE inputs
    BY <1>9 DEF ForwardSplit
  <2>5. driver.last_outputs \in [Splits -> Graphs] /\ version \in Int
        /\ inputs \in [Splits -> Items \cup {Nothing}]
    BY DEF IInv, TypeInv
  <2>6. [input |-> Item(split), version |-> version, recorded |-> mode] \in Graphs
    BY <1>6, <2>5 DEF Graphs
  <2>7. driver'.last_outputs[split] =
           [input |-> Item(split), version |-> version, recorded |-> mode]
    BY <1>5, <2>3, <2>5
  <2>8. ran' = [input |-> Item(split), version |-> version, recorded |-> mode]
    BY <1>9, <2>7 DEF ForwardSplit
  <2>9. driver' \in [last_split_idx: Splits \cup {INT32_MAX}, copies: Int,
                     copyGrad: {ZeroGrad}, shared_in: Items \cup {Nothing},
                     last_outputs: [Splits -> Graphs]]
    BY <1>5, <1>6, <2>3, <2>5, <2>6
  <2>10. inputs' \in [Splits -> Items \cup {Nothing}]
    BY <1>6, <2>4, <2>5
  <2>11. TypeInv'
    BY <1>1, <1>2, <1>5, <2>6, <2>8, <2>9, <2>10 DEF IInv, TypeInv
  <2>12. CopiesInv'
    <3>1. driver'.copies = version /\ driver'.last_split_idx = split
      BY <2>3
    <3>2. \A k \in Splits : Done(k)' => k <= split
      BY <1>1, <1>4, <1>5 DEF Done
    <3>3. PICK s \in Splits : s = split
      BY <1>5
    <3>4. Done(s)'
      <4>1. s < split'
        BY <1>1, <1>5, <3>3
      <4> QED
        BY <1>1, <1>2, <1>3, <1>9, <3>3, <4>1 DEF Done, Runs
    <3> QED
      BY <1>1, <1>2, <1>5, <3>1, <3>2, <3>4 DEF CopiesInv
  <2>13. StashInv'
    <3> SUFFICES ASSUME NEW k \in Splits, Pending(k)'
                 PROVE  IF Checkpointing THEN inputs'[k] = Item(k)
                        ELSE /\ driver'.last_outputs[k] = [input    |-> Item(k),
                                                           version  |-> version,
                                                           recorded |-> call.training]
                             /\ driver'.copies = version
                             /\ driver'.shared_in = Item(k)
      BY <1>1, <1>2, <1>3 DEF StashInv
    <3>1. k = split \/ Pending(k)
      BY <1>1, <1>2, <1>3, <1>4, <1>5 DEF Pending
    <3>2. CASE Checkpointing
      <4>1. Pending(k) => inputs[k] = Item(k)
        BY <3>2 DEF IInv, StashInv
      <4> QED
        BY <1>5, <2>4, <2>5, <3>1, <3>2, <4>1
    <3>3. CASE ~Checkpointing
      <4>1. k = split
        BY <1>5, <3>3, SingleSplit DEF IInv, TypeInv
      <4>2. mode = call.training
        BY <2>1, <3>3 DEF IInv, TypeInv
      <4>3. driver'.copies = version /\ driver'.shared_in = Item(split)
        BY <2>3
      <4> QED
        BY <2>7, <3>3, <4>1, <4>2, <4>3
    <3> QED
      BY <3>2, <3>3
  <2>14. RanInv'
    <3>1. ran'.input[1] = call.no /\ ran'.version = version
      BY <1>6, <2>8
    <3>2. call.no \in Nat
      BY DEF IInv, TypeInv
    <3> QED
      BY <1>1, <3>1, <3>2 DEF RanInv, RunsOnCurrentParams
  <2> QED
    BY <1>2, <1>7, <2>11, <2>12, <2>13, <2>14 DEF IInv
<1> QED
  BY <1>8, <1>9

\* Between the passes of a call: the last split of a forward pass is behind
\* the rank's position.
LEMMA ForwardEndInv ==
    ASSUME IInv, ForwardEnd
    PROVE  IInv'
<1>1. job' = job /\ call' = call /\ version' = version /\ grad' = grad /\ due' = due
      /\ driver' = driver /\ inputs' = inputs /\ ran' = ran
      /\ pc = "forward" /\ split' = 0 /\ split = job.pipeline
      /\ pc' = IF call.training THEN "backward" ELSE "app"
  BY DEF ForwardEnd
<1>2. /\ Splits' = Splits /\ Items' = Items /\ ZeroGrad' = ZeroGrad
      /\ Graphs' = Graphs
      /\ Checkpointing' <=> Checkpointing
      /\ SplitsForAll' <=> SplitsForAll
  BY <1>1, Frame
<1>3. \A k : (Skip(k)' <=> Skip(k)) /\ Item(k)' = Item(k)
  BY <1>1, CallFrame
<1>4. /\ job.replicas \in Nat \ {0} /\ job.rank \in 0..(job.replicas - 1)
      /\ job.pipeline \in Nat \ {0} /\ job.pipeline <= INT32_MAX
      /\ Splits = 0..(job.pipeline - 1)
      /\ INT32_MAX \in Nat /\ MaxCalls \in Nat
  BY JobFacts DEF IInv, TypeInv
<1>5. call.training \in BOOLEAN
  BY DEF IInv, TypeInv
<1>6. TypeInv'
  <2>1. pc' = "backward" => call.training = TRUE
    BY <1>1, <1>5
  <2>2. pc' \in {"app", "forward", "backward"}
    BY <1>1
  <2>3. split' \in 0..job.pipeline
    BY <1>1, <1>4
  <2> QED
    BY <1>1, <1>2, <2>1, <2>2, <2>3 DEF IInv, TypeInv
<1>7. CopiesInv'
  <2>1. \A k \in Splits : ~Done(k)'
    BY <1>1, <1>4 DEF Done
  <2>2. PICK k \in Splits : job.rank <= k /\ ~Skip(k)
    BY Works DEF IInv, TypeInv
  <2>3. Done(k)
    BY <1>1, <1>4, <2>2 DEF Done, Runs
  <2>4. k <= driver.last_split_idx
    BY <2>3 DEF IInv, CopiesInv
  <2>5. driver.last_split_idx \in Nat
    BY <1>4 DEF IInv, TypeInv
  <2>6. job.rank <= driver.last_split_idx
    BY <1>4, <2>2, <2>4, <2>5
  <2> QED
    BY <1>1, <1>2, <2>1, <2>6 DEF CopiesInv
<1>8. StashInv'
  <2>1. \A k \in Splits : Pending(k)' => Pending(k)
    BY <1>1, <1>2, <1>3, <1>4 DEF Pending
  <2> QED
    BY <1>1, <1>2, <1>3, <2>1 DEF IInv, StashInv
<1>9. GradInv'
  BY <1>1, <1>2 DEF IInv, GradInv
<1>10. RanInv'
  BY <1>1 DEF IInv, RanInv, RunsOnCurrentParams
<1> QED
  BY <1>2, <1>6, <1>7, <1>8, <1>9, <1>10 DEF IInv

\* A backward pass: it differentiates the runs of its own call, and counts
\* each once.
LEMMA BackwardSplitInv ==
    ASSUME IInv, BackwardSplit
    PROVE  IInv'
<1>1. job' = job /\ call' = call /\ pc' = pc /\ version' = version
      /\ inputs' = inputs /\ pc = "backward" /\ split' = split + 1 /\ split < job.pipeline
  BY DEF BackwardSplit
<1>2. /\ Splits' = Splits /\ Items' = Items /\ ZeroGrad' = ZeroGrad
      /\ Graphs' = Graphs
      /\ Checkpointing' <=> Checkpointing
      /\ SplitsForAll' <=> SplitsForAll
  BY <1>1, Frame
<1>3. \A k : (Skip(k)' <=> Skip(k)) /\ Item(k)' = Item(k)
  BY <1>1, CallFrame
<1>4. /\ job.replicas \in Nat \ {0} /\ job.rank \in 0..(job.replicas - 1)
      /\ job.pipeline \in Nat \ {0} /\ job.pipeline <= INT32_MAX
      /\ Splits = 0..(job.pipeline - 1)
      /\ INT32_MAX \in Nat /\ MaxCalls \in Nat
  BY JobFacts DEF IInv, TypeInv
<1>5. split \in Splits /\ split \in Nat /\ split' \in 0..job.pipeline
  BY <1>1, <1>4 DEF IInv, TypeInv
<1>6. Item(split) \in Items /\ Item(split)[1] = call.no /\ Item(split)[2] = split
  BY <1>1, <1>5, ItemFacts DEF IInv
<1>7. \A k \in Splits : k < split + 1 <=> k < split \/ k = split
  BY <1>4, <1>5
<1>8. \A k \in Splits : Pending(k)' => Pending(k) /\ k # split
  BY <1>1, <1>2, <1>3, <1>4, <1>5 DEF Pending
<1>9. CASE Skip(split)
  <2>1. driver' = driver /\ ran' = ran /\ grad' = grad /\ due' = due
    BY <1>9 DEF BackwardSplit
  <2>2. \A k \in Splits : Done(k)' <=> Done(k)
    BY <1>1, <1>2, <1>3, <1>7, <1>9 DEF Done, Runs
  <2>3. TypeInv'
    BY <1>1, <1>2, <1>5, <2>1 DEF IInv, TypeInv
  <2>4. CopiesInv'
    BY <1>1, <1>2, <2>1, <2>2 DEF IInv, CopiesInv
  <2>5. StashInv'
    BY <1>1, <1>2, <1>3, <1>8, <2>1 DEF IInv, StashInv
  <2>6. GradInv'
    <3>1. \A i \in Items : i[2] < split => i[2] < split'
      BY <1>1, <1>4, <1>5 DEF Items
    <3> QED
      BY <1>1, <1>2, <2>1, <3>1 DEF IInv, GradInv
  <2>7. RanInv'
    BY <1>1, <2>1 DEF IInv, RanInv, RunsOnCurrentParams
  <2> QED
    BY <1>2, <2>3, <2>4, <2>5, <2>6, <2>7 DEF IInv
<1>10. CASE ~Skip(split)
  <2>1. PICK d : d = Recomputed(split)
    OBVIOUS
  <2>2. /\ d \in [last_split_idx: Splits \cup {INT32_MAX}, copies: Int, copyGrad: {ZeroGrad},
                  shared_in: Items \cup {Nothing}, last_outputs: [Splits -> Graphs]]
        /\ d.last_outputs[split] = [input |-> Item(split), version |-> version,
                                    recorded |-> TRUE]
        /\ d.copies = version
        /\ d.shared_in = Item(split)
        /\ d.last_split_idx = IF Checkpointing THEN split ELSE driver.last_split_idx
    BY <1>1, <1>5, <1>10, <2>1, OwnRun
  <2>3. \/ /\ driver' = d
           /\ grad' = grad /\ due' = due /\ ran' = ran
        \/ /\ driver' = backward(d, split)
           /\ grad' = Plus(grad, AfterEngine(d, split))
           /\ due' = [due EXCEPT ![Item(split)] = 1]
           /\ ran' = Differentiated(d, split)
    BY <1>10, <2>1 DEF BackwardSplit
  <2>4. /\ driver' \in [last_split_idx: Splits \cup {INT32_MAX}, copies: Int,
                        copyGrad: {ZeroGrad}, shared_in: Items \cup {Nothing},
                        last_outputs: [Splits -> Graphs]]
        /\ driver'.copies = version
        /\ driver'.last_split_idx = d.last_split_idx
    <3>1. NoGraph \in Graphs
      BY DEF NoGraph, Graphs
    <3>2. backward(d, split) \in
                     [last_split_idx: Splits \cup {INT32_MAX}, copies: Int,
                      copyGrad: {ZeroGrad}, shared_in: Items \cup {Nothing},
                      last_outputs: [Splits -> Graphs]]
      BY <2>2, <3>1 DEF backward, CopyGradAfter
    <3>3. /\ backward(d, split).copies = version
          /\ backward(d, split).last_split_idx = d.last_split_idx
      BY <2>2 DEF backward
    <3> QED
      BY <2>2, <2>3, <3>2, <3>3
  <2>5. ran' = ran \/ ran' = [input |-> Item(split), version |-> version, recorded |-> TRUE]
    BY <2>2, <2>3 DEF Differentiated
  <2>6. due[Item(split)] = 0
    <3>1. due \in [Items -> {0, 1}] /\ call.no \in Nat
      BY DEF IInv, TypeInv
    <3>2. ~(Item(split)[1] < call.no) /\ ~(Item(split)[2] < split)
      BY <1>5, <1>6, <3>1
    <3> QED
      BY <1>1, <1>6, <3>1, <3>2 DEF IInv, GradInv
  <2>7. /\ grad' = due' /\ due' \in [Items -> {0, 1}]
        /\ \A i \in Items : due'[i] # 0 => due[i] # 0 \/ i = Item(split)
    <3>1. due \in [Items -> {0, 1}] /\ grad = due
      BY DEF IInv, TypeInv, GradInv
    <3>2. CASE due' = due /\ grad' = grad
      BY <3>1, <3>2
    <3>3. CASE /\ grad' = Plus(grad, AfterEngine(d, split))
               /\ due' = [due EXCEPT ![Item(split)] = 1]
      <4>1. d.copyGrad = ZeroGrad
        BY <2>2
      <4>2. AfterEngine(d, split) = Plus(ZeroGrad, [ZeroGrad EXCEPT ![Item(split)] = 1])
        BY <2>2, <4>1 DEF AfterEngine
      <4>3. AfterEngine(d, split) = [i \in Items |-> IF i = Item(split) THEN 1 ELSE 0]
        BY <1>6, <4>2 DEF Plus, ZeroGrad
      <4>4. grad' = [i \in Items |-> due[i] + IF i = Item(split) THEN 1 ELSE 0]
        BY <3>1, <3>3, <4>3 DEF Plus
      <4>5. grad' = [i \in Items |-> IF i = Item(split) THEN 1 ELSE due[i]]
        BY <2>6, <3>1, <4>4
      <4>6. due' = [i \in Items |-> IF i = Item(split) THEN 1 ELSE due[i]]
        BY <3>1, <3>3
      <4> QED
        BY <3>1, <4>5, <4>6
    <3> QED
      BY <2>3, <3>2, <3>3
  <2>8. TypeInv'
    <3>1. version \in Int
      BY DEF IInv, TypeInv
    <3>2. ran' \in Graphs
      <4>1. ran \in Graphs
        BY DEF IInv, TypeInv
      <4>2. [input |-> Item(split), version |-> version, recorded |-> TRUE] \in Graphs
        BY <1>6, <3>1 DEF Graphs
      <4> QED
        BY <2>5, <4>1, <4>2
    <3> QED
      BY <1>1, <1>2, <1>5, <2>4, <2>7, <3>2 DEF IInv, TypeInv
  <2>9. CopiesInv'
    <3>1. \A k \in Splits : Done(k)' => k <= split /\ Checkpointing
      BY <1>1, <1>2, <1>4, <1>5 DEF Done, Runs
    <3>2. CASE Checkpointing
      <4>1. PICK s \in Splits : s = split
        BY <1>5
      <4>2. Done(s)'
        <5>1. s < split'
          BY <1>1, <1>5, <4>1
        <5> QED
          BY <1>1, <1>2, <1>3, <1>10, <3>2, <4>1, <5>1 DEF Done, Runs
      <4>3. driver'.last_split_idx = split
        BY <2>2, <2>4, <3>2
      <4> QED
        BY <1>1, <1>2, <2>4, <3>1, <4>2, <4>3 DEF CopiesInv
    <3>3. CASE ~Checkpointing
      <4>1. \A k \in Splits : ~Done(k)
        BY <1>1, <3>3 DEF Done, Runs
      <4>2. job.rank <= driver.last_split_idx
        BY <4>1 DEF IInv, CopiesInv
      <4>3. driver'.last_split_idx = driver.last_split_idx
        BY <2>2, <2>4, <3>3
      <4> QED
        BY <1>1, <1>2, <3>1, <3>3, <4>2, <4>3 DEF CopiesInv
    <3> QED
      BY <3>2, <3>3
  <2>10. StashInv'
    <3> SUFFICES ASSUME NEW k \in Splits, Pending(k)', ~Checkpointing
                 PROVE  FALSE
      BY <1>1, <1>2, <1>3, <1>8 DEF IInv, StashInv
    <3>1. k = split
      BY <1>5, SingleSplit DEF IInv, TypeInv
    <3> QED
      BY <1>8, <3>1
  <2>11. GradInv'
    <3>1. ASSUME NEW i \in Items, due'[i] # 0
          PROVE  i[1] < call.no \/ (i[1] = call.no /\ i[2] < split')
      <4>1. CASE i = Item(split)
        BY <1>1, <1>5, <1>6, <4>1
      <4>2. CASE due[i] # 0
        <5>1. i[1] < call.no \/ (i[1] = call.no /\ i[2] < split)
          BY <1>1, <4>2 DEF IInv, GradInv
        <5>2. i[2] \in Nat
          BY <1>4 DEF Items
        <5> QED
          BY <1>1, <1>5, <5>1, <5>2
      <4> QED
        BY <2>7, <3>1, <4>1, <4>2
    <3> QED
      BY <1>1, <1>2, <2>7, <3>1 DEF GradInv
  <2>12. RanInv'
    <3>1. CASE ran' = ran
      BY <1>1, <3>1 DEF IInv, RanInv, RunsOnCurrentParams
    <3>2. CASE ran' = [input |-> Item(split), version |-> version, recorded |-> TRUE]
      <4>1. ran'.input[1] = call.no /\ ran'.version = version
        BY <1>6, <3>2
      <4>2. call.no \in Nat
        BY DEF IInv, TypeInv
      <4> QED
        BY <1>1, <4>1, <4>2 DEF RanInv, RunsOnCurrentParams
    <3> QED
      BY <2>5, <3>1, <3>2
  <2> QED
    BY <1>2, <2>8, <2>9, <2>10, <2>11, <2>12 DEF IInv
<1> QED
  BY <1>9, <1>10

\* Between calls.
LEMMA BackwardEndInv ==
    ASSUME IInv, BackwardEnd
    PROVE  IInv'
<1>1. job' = job /\ call' = call /\ version' = version /\ grad' = grad /\ due' = due
      /\ driver' = driver /\ inputs' = inputs /\ ran' = ran
      /\ pc = "backward" /\ split' = 0 /\ split = job.pipeline /\ pc' = "app"
  BY DEF BackwardEnd
<1>2. /\ Splits' = Splits /\ Items' = Items /\ ZeroGrad' = ZeroGrad
      /\ Graphs' = Graphs
      /\ Checkpointing' <=> Checkpointing
      /\ SplitsForAll' <=> SplitsForAll
  BY <1>1, Frame
<1>3. /\ job.replicas \in Nat \ {0} /\ job.rank \in 0..(job.replicas - 1)
      /\ job.pipeline \in Nat \ {0} /\ job.pipeline <= INT32_MAX
      /\ Splits = 0..(job.pipeline - 1)
      /\ INT32_MAX \in Nat /\ MaxCalls \in Nat
  BY JobFacts DEF IInv, TypeInv
<1>4. TypeInv'
  <2>1. split' \in 0..job.pipeline
    BY <1>1, <1>3
  <2> QED
    BY <1>1, <1>2, <2>1 DEF IInv, TypeInv
<1>5. CopiesInv'
  <2>1. \A k \in Splits : ~Done(k)'
    BY <1>1 DEF Done, Runs
  <2>2. job.rank <= driver.last_split_idx
    <3>1. CASE \A k \in Splits : ~Done(k)
      BY <3>1 DEF IInv, CopiesInv
    <3>2. CASE \E k \in Splits : Done(k)
      <4>1. Runs
        BY <3>2 DEF Done
      <4>2. PICK k \in Splits : job.rank <= k /\ ~Skip(k)
        BY Works DEF IInv, TypeInv
      <4>3. Done(k)
        BY <1>1, <1>3, <4>1, <4>2 DEF Done
      <4>4. k <= driver.last_split_idx
        BY <4>3 DEF IInv, CopiesInv
      <4>5. driver.last_split_idx \in Nat
        BY <1>3 DEF IInv, TypeInv
      <4> QED
        BY <1>3, <4>2, <4>4, <4>5
    <3> QED
      BY <3>1, <3>2
  <2> QED
    BY <1>1, <1>2, <2>1, <2>2 DEF CopiesInv
<1>6. StashInv'
  BY <1>1 DEF StashInv, Pending
<1>7. GradInv'
  BY <1>1, <1>2 DEF IInv, GradInv
<1>8. RanInv'
  BY <1>1 DEF IInv, RanInv, RunsOnCurrentParams
<1> QED
  BY <1>2, <1>4, <1>5, <1>6, <1>7, <1>8 DEF IInv

\* A new call has run nothing yet and is counted nowhere.
LEMMA CallInv ==
    ASSUME IInv, NEW training \in BOOLEAN, NEW rows \in BatchSizes, Call(training, rows)
    PROVE  IInv'
<1>1. job' = job /\ version' = version /\ grad' = grad /\ due' = due /\ split' = split
      /\ driver' = driver /\ inputs' = inputs /\ ran' = ran
      /\ pc = "app" /\ pc' = "forward" /\ call.no < MaxCalls
      /\ call' = [no |-> call.no + 1, training |-> training, rows |-> rows]
  BY DEF Call
<1>2. /\ Splits' = Splits /\ Items' = Items /\ ZeroGrad' = ZeroGrad
      /\ Graphs' = Graphs
      /\ Checkpointing' <=> Checkpointing
      /\ SplitsForAll' <=> SplitsForAll
  BY <1>1, Frame
<1>3. Splits = 0..(job.pipeline - 1) /\ MaxCalls \in Nat
  BY JobFacts DEF IInv, TypeInv
<1>4. split = 0 /\ call.no \in Nat /\ rows \in Nat \ {0}
  BY <1>1, <1>3, DriverAssumption DEF IInv, TypeInv
<1>5. TypeInv'
  <2>1. call' \in [no: 0..MaxCalls, training: BOOLEAN, rows: Nat \ {0}] /\ call'.no # 0
    BY <1>1, <1>3, <1>4
  <2> QED
    BY <1>1, <1>2, <2>1 DEF IInv, TypeInv
<1>6. CopiesInv'
  <2>1. \A k \in Splits : ~Done(k)'
    BY <1>1, <1>3, <1>4 DEF Done
  <2>2. \A k \in Splits : ~Done(k)
    BY <1>1 DEF Done, Runs
  <2> QED
    BY <1>1, <1>2, <2>1, <2>2 DEF IInv, CopiesInv
<1>7. StashInv'
  <2>1. \A k \in Splits : ~Pending(k)'
    BY <1>1, <1>2, <1>3, <1>4 DEF Pending
  <2> QED
    BY <1>2, <2>1 DEF StashInv
<1>8. GradInv'
  <2>1. ASSUME NEW i \in Items, due[i] # 0
        PROVE  i[1] < call'.no
    <3>1. i[1] < call.no \/ i[1] = call.no
      BY <2>1 DEF IInv, GradInv
    <3>2. i[1] \in Nat
      BY <1>3 DEF Items
    <3> QED
      BY <1>1, <1>4, <3>1, <3>2
  <2> QED
    BY <1>1, <1>2, <2>1 DEF IInv, GradInv
<1>9. RanInv'
  <2>1. ran.input[1] \in Nat /\ ran.input[1] <= call.no
    <3>1. ran.input \in Items \cup {Nothing}
      BY DEF IInv, TypeInv, Graphs
    <3> QED
      BY <1>3, <3>1 DEF Items, Nothing, IInv, RanInv
  <2> QED
    BY <1>1, <1>4, <2>1 DEF RanInv, RunsOnCurrentParams
<1> QED
  BY <1>2, <1>5, <1>6, <1>7, <1>8, <1>9 DEF IInv

\* The optimizer changes the parameter behind the back of its copies.
LEMMA OptimizerStepInv ==
    ASSUME IInv, OptimizerStep
    PROVE  IInv'
<1>1. job' = job /\ call' = call /\ split' = split /\ version' = call.no
      /\ grad' = ZeroGrad /\ due' = ZeroGrad
      /\ driver' = driver /\ inputs' = inputs /\ ran' = ran /\ pc = "app" /\ pc' = pc
  BY DEF OptimizerStep
<1>2. /\ Splits' = Splits /\ Items' = Items /\ ZeroGrad' = ZeroGrad
      /\ Graphs' = Graphs
      /\ Checkpointing' <=> Checkpointing
      /\ SplitsForAll' <=> SplitsForAll
  BY <1>1, Frame
<1>3. ZeroGrad \in [Items -> {0, 1}] /\ \A i \in Items : ZeroGrad[i] = 0
  BY DEF ZeroGrad
<1>4. call.no \in Int
  BY JobFacts DEF IInv, TypeInv
<1>5. TypeInv'
  BY <1>1, <1>2, <1>3, <1>4 DEF IInv, TypeInv
<1>6. CopiesInv'
  <2>1. \A k : ~Done(k)' /\ ~Done(k)
    BY <1>1 DEF Done, Runs
  <2> QED
    BY <1>1, <1>2, <2>1 DEF IInv, CopiesInv
<1>7. StashInv'
  BY <1>1 DEF StashInv, Pending
<1>8. GradInv'
  BY <1>1, <1>2, <1>3 DEF GradInv
<1>9. RanInv'
  BY <1>1 DEF IInv, RanInv, RunsOnCurrentParams
<1> QED
  BY <1>2, <1>5, <1>6, <1>7, <1>8, <1>9 DEF IInv

\* Every step keeps the invariant.
LEMMA Inductive == IInv /\ [Next]_vars => IInv'
<1> SUFFICES ASSUME IInv, [Next]_vars PROVE IInv'
  OBVIOUS
<1>1. CASE UNCHANGED vars
  <2>1. job' = job /\ call' = call /\ pc' = pc /\ split' = split /\ version' = version
        /\ driver' = driver /\ inputs' = inputs /\ grad' = grad /\ due' = due /\ ran' = ran
    BY <1>1 DEF vars
  <2>2. /\ Splits' = Splits /\ Items' = Items /\ ZeroGrad' = ZeroGrad
        /\ Graphs' = Graphs
        /\ Checkpointing' <=> Checkpointing
        /\ SplitsForAll' <=> SplitsForAll
    BY <2>1, Frame
  <2>3. \A k : (Skip(k)' <=> Skip(k)) /\ Item(k)' = Item(k)
    BY <2>1, CallFrame
  <2>4. \A k : (Done(k)' <=> Done(k)) /\ (Pending(k)' <=> Pending(k))
    BY <2>1, <2>2, <2>3 DEF Done, Pending, Runs
  <2>5. TypeInv'
    BY <2>1, <2>2 DEF IInv, TypeInv
  <2>6. CopiesInv'
    BY <2>1, <2>2, <2>4 DEF IInv, CopiesInv
  <2>7. StashInv'
    BY <2>1, <2>2, <2>3, <2>4 DEF IInv, StashInv
  <2>8. GradInv'
    BY <2>1, <2>2 DEF IInv, GradInv
  <2>9. RanInv'
    BY <2>1 DEF IInv, RanInv, RunsOnCurrentParams
  <2> QED
    BY <2>2, <2>5, <2>6, <2>7, <2>8, <2>9 DEF IInv
<1>2. CASE ForwardSplit
  BY <1>2, ForwardSplitInv
<1>3. CASE ForwardEnd
  BY <1>3, ForwardEndInv
<1>4. CASE BackwardSplit
  BY <1>4, BackwardSplitInv
<1>5. CASE BackwardEnd
  BY <1>5, BackwardEndInv
<1>6. CASE \E training \in BOOLEAN, rows \in BatchSizes : Call(training, rows)
  BY <1>6, CallInv
<1>7. CASE OptimizerStep
  BY <1>7, OptimizerStepInv
<1> QED
  BY <1>1, <1>2, <1>3, <1>4, <1>5, <1>6, <1>7 DEF Next

-----------------------------------------------------------------------------
(* The theorems. *)

\* The invariant in every behaviour with a split for every rank.
LEMMA Invariance == Spec /\ SplitsForAll => []IInv
  BY Initially, Inductive, PTL DEF Spec

(***************************************************************************)
(* TorchDriver renews its copies of the parameters only when the split     *)
(* index does not grow (TorchDriver::forward), and a rank skips the splits *)
(* it has no rows in.  With no more replicas than splits every run, in     *)
(* forward or recomputed in backward, nevertheless reads the parameters as *)
(* the optimizer left them.                                                *)
(***************************************************************************)
THEOREM CurrentParams == Spec /\ SplitsForAll => []RunsOnCurrentParams
<1>1. IInv => RunsOnCurrentParams
  BY DEF IInv, RanInv
<1> QED
  BY <1>1, Invariance, PTL

(***************************************************************************)
(* However often passes alternate with evaluations and whichever splits    *)
(* send a gradient back, the gradient counts each of them once.            *)
(***************************************************************************)
THEOREM CountsOnce == Spec /\ SplitsForAll => []GradCountsOnce
<1>1. IInv => GradCountsOnce
  BY DEF IInv, GradInv, GradCountsOnce
<1> QED
  BY <1>1, Invariance, PTL

(***************************************************************************)
(* The backward pass of a split differentiates the run of that split in    *)
(* the same call, recorded by autograd, with the shared buffers for inputs *)
(* and parameters still holding what the run was given.                    *)
(***************************************************************************)
THEOREM OwnRunDifferentiated == Spec /\ SplitsForAll => DifferentiatesOwnRun
<1> DEFINE Step == \A k \in Splits :
          pc = "backward" /\ split = k /\ due'[Item(k)] # due[Item(k)] =>
              ran' = [input |-> Item(k), version |-> version, recorded |-> TRUE]
<1>1. IInv /\ [Next]_vars => [Step]_vars
  <2> SUFFICES ASSUME IInv, Next, NEW k \in Splits, pc = "backward", split = k,
                      due'[Item(k)] # due[Item(k)]
               PROVE  ran' = [input |-> Item(k), version |-> version, recorded |-> TRUE]
    OBVIOUS
  <2>1. due' # due
    OBVIOUS
  <2>2. BackwardSplit
    BY <2>1 DEF Next, ForwardSplit, ForwardEnd, BackwardEnd, Call, OptimizerStep
  <2>3. ~Skip(split)
    BY <2>1, <2>2 DEF BackwardSplit
  <2>4. PICK d : d = Recomputed(split)
    OBVIOUS
  <2>5. ran' = Differentiated(d, split)
    BY <2>1, <2>2, <2>3, <2>4 DEF BackwardSplit
  <2>6. /\ d.last_outputs[split] = [input |-> Item(split), version |-> version,
                                    recorded |-> TRUE]
        /\ d.copies = version
        /\ d.shared_in = Item(split)
    BY <2>3, <2>4, OwnRun
  <2> QED
    BY <2>5, <2>6 DEF Differentiated
<1>2. Spec /\ SplitsForAll => [][Step]_vars
  BY <1>1, Invariance, PTL DEF Spec
<1> QED
  BY <1>2 DEF DifferentiatesOwnRun

=============================================================================
