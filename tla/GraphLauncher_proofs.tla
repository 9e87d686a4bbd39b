------------------------- MODULE GraphLauncher_proofs -------------------------
(***************************************************************************)
(* Proofs about module GraphLauncher, for any number of ranks, rows and    *)
(* micro-batches.                                                          *)
(***************************************************************************)
EXTENDS GraphLauncher, Redist_proofs

-----------------------------------------------------------------------------
(* The batch size the ranks agree on. *)

\* What the assumptions say of the call in progress.
LEMMA LaunchFacts ==
    ASSUME launch \in Launches
    PROVE  /\ Cardinality(World) \in Nat \ {0}
           /\ World = 0..(Cardinality(World) - 1)
           /\ launch.local \in [World -> Nat \ {0}]
           /\ launch.pipeline_num \in Nat \ {0}
           /\ launch.gather_inputs \in BOOLEAN
<1>1. Cardinality(World) \in Nat /\ Cardinality(World) # 0
  BY WorldAssumption, FS_CardinalityType, FS_EmptySet
<1>2. World = 0..(Cardinality(World) - 1)
  BY WorldAssumption
<1> QED
  BY <1>1, <1>2, LaunchesAssumption

\* The batch has at least one row and is cut into at least one split.
LEMMA BatchFacts ==
    ASSUME launch \in Launches
    PROVE  /\ GlobalBatchSize \in Nat \ {0}
           /\ ActualPipelineNum \in Nat \ {0}
<1>1. PICK n \in Nat \ {0} : n = Cardinality(World) /\ World = 0..(n - 1)
  BY LaunchFacts
<1>2. launch.local \in [0..(n - 1) -> Nat \ {0}] /\ launch.pipeline_num \in Nat \ {0}
  BY <1>1, LaunchFacts
<1>3. MaxLocal \in Nat \ {0}
  <2>1. launch.local \in [0..(n - 1) -> Nat]
    BY <1>2
  <2>2. PICK r \in 0..(n - 1) :
           launch.local[r] = Max({launch.local[q] : q \in 0..(n - 1)})
    BY <2>1, MaxOfSizes
  <2>3. MaxLocal = launch.local[r]
    BY <1>1, <2>2 DEF MaxLocal
  <2> QED
    BY <1>2, <2>3
<1>4. GlobalBatchSize \in Nat \ {0}
  <2>1. PICK m \in Nat \ {0} : m = MaxLocal
    BY <1>3
  <2>2. m * n \in Nat \ {0}
    OBVIOUS
  <2>3. launch.local[0] \in Nat \ {0}
    BY <1>2
  <2> QED
    BY <1>1, <2>1, <2>2, <2>3 DEF GlobalBatchSize
<1> QED
  BY <1>2, <1>4 DEF ActualPipelineNum

-----------------------------------------------------------------------------
(* The loops of compute(). *)

\* No step changes the call, and a loop stays within the splits.
LEMMA LoopStep ==
    ASSUME TypeOK, NEW np, Loop(np), launch' = launch
    PROVE  split' \in Splits /\ phase' \in {phase, np}
<1>1. launch \in Launches
  BY DEF TypeOK
<1>2. ActualPipelineNum \in Nat \ {0} /\ split \in 0..(ActualPipelineNum - 1)
  BY <1>1, BatchFacts DEF TypeOK, Splits
<1> QED
  BY <1>2 DEF Loop, Splits

(***************************************************************************)
(* The launcher is always in one of its loops, at a split of the batch.    *)
(***************************************************************************)
THEOREM Typing == Spec => []TypeOK
<1>1. Init => TypeOK
  <2>1. SUFFICES ASSUME Init PROVE TypeOK
    OBVIOUS
  <2>2. launch \in Launches
    BY <2>1 DEF Init
  <2>3. ActualPipelineNum \in Nat \ {0}
    BY <2>2, BatchFacts
  <2> QED
    BY <2>1, <2>3 DEF Init, TypeOK, Splits
<1>2. TypeOK /\ [Next]_vars => TypeOK'
  <2> SUFFICES ASSUME TypeOK, [Next]_vars PROVE TypeOK'
    OBVIOUS
  <2>1. launch' = launch
    BY DEF Next, vars, DistributeInputs, Compute, DistributeOutputs, Merge
  <2>2. launch' \in Launches /\ Splits' = Splits
    BY <2>1 DEF TypeOK, Splits, ActualPipelineNum, GlobalBatchSize, MaxLocal
  <2>3. CASE DistributeInputs
    <3>1. Loop("compute")
      BY <2>3 DEF DistributeInputs
    <3>2. split' \in Splits /\ phase' \in {phase, "compute"}
      BY <2>1, <3>1, LoopStep
    <3> QED
      BY <2>2, <3>2 DEF TypeOK
  <2>4. CASE Compute
    <3>1. Loop("distribute_outputs")
      BY <2>4 DEF Compute
    <3>2. split' \in Splits /\ phase' \in {phase, "distribute_outputs"}
      BY <2>1, <3>1, LoopStep
    <3> QED
      BY <2>2, <3>2 DEF TypeOK
  <2>5. CASE DistributeOutputs
    <3>1. Loop("merge")
      BY <2>5 DEF DistributeOutputs
    <3>2. split' \in Splits /\ phase' \in {phase, "merge"}
      BY <2>1, <3>1, LoopStep
    <3> QED
      BY <2>2, <3>2 DEF TypeOK
  <2>6. CASE Merge
    BY <2>2, <2>6 DEF Merge, TypeOK
  <2>7. CASE UNCHANGED vars
    BY <2>2, <2>7 DEF vars, TypeOK
  <2> QED
    BY <2>3, <2>4, <2>5, <2>6, <2>7 DEF Next
<1> QED
  BY <1>1, <1>2, PTL DEF Spec

-----------------------------------------------------------------------------
(* Slices and shares. *)

\* The slices of a batch that is cut into equal splits, or that belongs to
\* rank 0 alone.
LEMMA SlicesAreShares ==
    ASSUME launch \in Launches, SplitsEven
    PROVE  SliceIsShare
<1> SUFFICES ASSUME NEW i \in Splits, NEW r \in MasterRanks
             PROVE  LocalSizes(r)[i] = RankBatchSizes(SplitSizes[i], MasterRanks, i)[r]
  BY DEF SliceIsShare
<1>1. PICK n \in Nat \ {0} : n = Cardinality(World) /\ World = 0..(n - 1)
  BY LaunchFacts
<1>2. PICK P \in Nat \ {0}, b \in Nat \ {0} : P = ActualPipelineNum /\ b = GlobalBatchSize
  BY BatchFacts
<1>3. SplitSizes = SplitBatchSizes(b, P) /\ i \in 0..(P - 1) /\ P \in Nat
  BY <1>2 DEF SplitSizes, Splits
<1>4. CASE launch.gather_inputs
  <2>1. b % P = 0
    BY <1>2, <1>4 DEF SplitsEven
  <2>2. PICK s \in Nat : s = b \div P
    BY DivNat
  <2>3. SplitSizes = [j \in 0..(P - 1) |-> s]
    BY <1>3, <2>1, <2>2, EvenSplits
  <2>4. r \in 0..(n - 1) /\ MasterRanks = 0..(n - 1)
    BY <1>1, <1>4 DEF MasterRanks
  <2>5. LocalSplitBatchSizes(SplitSizes, n, r)[i] = RankBatchSizes(s, 0..(n - 1), i)[r]
    BY <1>3, <2>3, <2>4, EvenSlices
  <2>6. SplitSizes[i] = s
    BY <1>3, <2>3
  <2> QED
    BY <1>1, <1>4, <2>4, <2>5, <2>6 DEF LocalSizes
<1>5. CASE ~launch.gather_inputs
  <2>1. r = 0 /\ MasterRanks = {0}
    BY <1>5 DEF MasterRanks
  <2>2. SplitSizes \in [0..(P - 1) -> Nat]
    <3>1. PICK splits \in SUBSET Nat : splits = 0..(P - 1)
      OBVIOUS
    <3>2. IsFiniteSet(splits)
      <4>1. 0 \in 0..(P - 1)
        OBVIOUS
      <4> QED
        BY <3>1, <4>1, PositionInInterval
    <3>3. RankBatchSizes(b, splits, 0) \in [splits -> Nat]
      BY <3>2, ShareType
    <3> QED
      BY <1>3, <3>1, <3>3 DEF SplitBatchSizes
  <2>3. /\ LocalSplitBatchSizes(SplitSizes, 1, 0)[i] = SplitSizes[i]
        /\ RankBatchSizes(SplitSizes[i], {0}, i)[0] = SplitSizes[i]
    BY <1>3, <2>2, SoleSlices
  <2> QED
    BY <1>5, <2>1, <2>3 DEF LocalSizes
<1> QED
  BY <1>4, <1>5

(***************************************************************************)
(* Whenever the micro-batches of a launch are equally large, as they are   *)
(* when the batch is a multiple of their number, every rank slices off for *)
(* every micro-batch exactly the rows the redistribution takes from it.    *)
(***************************************************************************)
THEOREM SlicesMatch == Spec => [](SplitsEven => SliceIsShare)
<1>1. TypeOK => (SplitsEven => SliceIsShare)
  BY SlicesAreShares DEF TypeOK
<1> QED
  BY <1>1, Typing, PTL

=============================================================================
