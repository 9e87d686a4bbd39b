----------------------- MODULE Pipeline_values_proofs -----------------------
(***************************************************************************)
(* Proofs about the values that the ranks of module Pipeline compute, send *)
(* and keep: that a subgraph never lacks an input although single replicas *)
(* have no rows, and that a backward pass recomputes the right forward     *)
(* pass.                                                                   *)
(***************************************************************************)
EXTENDS Pipeline_proofs, Redist_proofs

\* As in a training loop, every backward pass directly follows the forward
\* pass it belongs to.
BackwardFollowsForward ==
    \A p \in DOMAIN Passes : IsBwd(p) =>
        /\ p - 1 \in DOMAIN Passes
        /\ ~IsBwd(p - 1)
        /\ Passes[p - 1].batch_size = Passes[p].batch_size

-----------------------------------------------------------------------------
(* The invariant. *)

\* Rank r has run split k of its pass.
HasRun(r, k) == k < split[r] \/ (k = split[r] /\ step[r] = "send")

\* The routes that were served have delivered a value.
InputsArrived(r) ==
    step[r] = "recv" =>
        /\ recv_values[r] = RecvRoutes(r, pass[r]) \ todo[r]
        /\ split_values[r][split[r]] = "inputs"

\* A rank has the outputs of exactly the splits in which it has rows.
OutputsOfRows(r) ==
    \A k \in MaxSplits :
        HasRun(r, k) => (split_values[r][k] = "outputs" <=> RowsOf(r, pass[r], k) > 0)

\* What forward pass p left behind for split k.
LeftBy(r, p, k) ==
    /\ skip_fwd_split[r][k] = IF RowsOf(r, p, k) > 0 THEN "run" ELSE "skip"
    /\ dep.checkpointing /\ RowsOf(r, p, k) > 0 => stash[r][k] = p

\* A forward pass leaves it behind split by split, and the backward pass finds
\* it there.
ForwardRecorded(r) ==
    \A k \in MaxSplits :
        IF IsBwd(pass[r]) THEN LeftBy(r, pass[r] - 1, k)
        ELSE HasRun(r, k) => LeftBy(r, pass[r], k)

ValuesOf(r) ==
    Running(r) => InputsArrived(r) /\ OutputsOfRows(r) /\ ForwardRecorded(r)

ValueInv == \A r \in Rank : ValuesOf(r)

-----------------------------------------------------------------------------
(* Rows. *)

\* Every split of a pass has rows.
LEMMA SplitHasRows ==
    ASSUME DeploymentOK(dep), NEW p \in DOMAIN Passes, NEW k \in 0..(ActualPipelineNum(p) - 1)
    PROVE  BatchSize(p, k) \in Nat \ {0}
<1>1. PICK P \in Nat \ {0} : P = ActualPipelineNum(p)
  BY SplitNumber
<1>2. PICK b \in Nat \ {0} : b = Passes[p].batch_size
  <2>1. p \in 1..Len(Passes)
    BY PassesAssumption
  <2>2. Passes[p] \in [is_bwd: BOOLEAN, batch_size: Nat \ {0}]
    BY <2>1, PassesAssumption, ElementOfSeq
  <2> QED
    BY <2>2
<1>3. P <= b
  BY <1>1, <1>2 DEF ActualPipelineNum, DeploymentOK
<1>4. PICK splits \in SUBSET Nat : splits = 0..(P - 1)
  OBVIOUS
<1>5. k \in splits
  BY <1>1, <1>4
<1>6. IsFiniteSet(splits) /\ Cardinality(splits) = P
  BY <1>1, <1>4, PositionInInterval
<1>7. FairShare(k, splits, b, 0, P)
  BY <1>5, <1>6, ShareOf
<1>8. RankBatchSizes(b, splits, 0)[k] \in Nat
  BY <1>7 DEF FairShare
<1>9. RankBatchSizes(b, splits, 0)[k] # 0
  <2>1. PICK q \in Nat, s \in 0..(P - 1) : q = b \div P /\ b = P * q + s
    BY <1>7 DEF FairShare
  <2>2. q # 0
    <3>1. P * 0 = 0
      OBVIOUS
    <3> QED
      BY <1>3, <2>1, <3>1
  <2>3. RankBatchSizes(b, splits, 0)[k] = q + IF FromStart(k, splits, b, 0) < (b % P) THEN 1 ELSE 0
    BY <1>7, <2>1 DEF FairShare
  <2> QED
    BY <2>2, <2>3
<1> QED
  BY <1>1, <1>2, <1>4, <1>8, <1>9 DEF BatchSize, SplitBatchSizes

\* The rows of a rank are its share among the ranks of its subgraph.
LEMMA RowsOfRank ==
    ASSUME DeploymentOK(dep), NEW p, NEW k, NEW g \in Graphs(dep), NEW r \in dep.alloc[g]
    PROVE  RowsOf(r, p, k) = RankBatchSizes(BatchSize(p, k), dep.alloc[g], k)[r]
<1>1. \A h \in Graphs(dep) : r \in dep.alloc[h] => h = g
  BY DEF DeploymentOK
<1>2. (CHOOSE h \in Graphs(dep) : r \in dep.alloc[h]) = g
  BY <1>1
<1> QED
  BY <1>2 DEF RowsOf

\* The ranks of a subgraph.
LEMMA GraphRanks ==
    ASSUME DeploymentOK(dep), NEW g \in Graphs(dep)
    PROVE  dep.alloc[g] \in SUBSET Nat /\ IsFiniteSet(dep.alloc[g]) /\ dep.alloc[g] # {}
<1>1. dep.alloc[g] \in (SUBSET Rank) \ {{}}
  BY DEF DeploymentOK
<1> QED
  BY <1>1, RankAssumption, FS_Subset

\* A rank has a number of rows in every split.
LEMMA RowsType ==
    ASSUME DeploymentOK(dep), NEW r \in Rank, NEW p \in DOMAIN Passes,
           NEW k \in 0..(ActualPipelineNum(p) - 1)
    PROVE  RowsOf(r, p, k) \in Nat
<1>1. PICK g \in Graphs(dep) : r \in dep.alloc[g]
  BY DEF DeploymentOK
<1>2. RankBatchSizes(BatchSize(p, k), dep.alloc[g], k) \in [dep.alloc[g] -> Nat]
  <2>1. BatchSize(p, k) \in Nat /\ k \in Nat
    BY SplitHasRows, SplitNumber
  <2> QED
    BY <2>1, GraphRanks, ShareType
<1> QED
  BY <1>1, <1>2, RowsOfRank

\* In every split some rank of a subgraph has rows.
LEMMA SubgraphHasRows ==
    ASSUME DeploymentOK(dep), NEW g \in Graphs(dep), NEW p \in DOMAIN Passes,
           NEW k \in 0..(ActualPipelineNum(p) - 1)
    PROVE  \E r \in dep.alloc[g] : RowsOf(r, p, k) > 0
<1>1. BatchSize(p, k) \in Nat \ {0} /\ k \in Nat
  BY SplitHasRows, SplitNumber
<1>2. \E r \in dep.alloc[g] : RankBatchSizes(BatchSize(p, k), dep.alloc[g], k)[r] > 0
  BY <1>1, GraphRanks, SomeoneHasRows
<1> QED
  BY <1>2, RowsOfRank

\* The rows of a split depend on the size of the batch only.
LEMMA SameRows ==
    ASSUME NEW p, NEW o, Passes[p].batch_size = Passes[o].batch_size
    PROVE  \A r, k : RowsOf(r, p, k) = RowsOf(r, o, k)
<1>1. ActualPipelineNum(p) = ActualPipelineNum(o)
  BY DEF ActualPipelineNum
<1>2. \A k : BatchSize(p, k) = BatchSize(o, k)
  BY <1>1 DEF BatchSize
<1> QED
  BY <1>2 DEF RowsOf

-----------------------------------------------------------------------------
(* The invariant is inductive, together with CountInv. *)

\* Splits that a rank may have run.
LEMMA SplitsOfPass ==
    ASSUME CountInv, NEW p \in DOMAIN Passes
    PROVE  /\ MaxSplits = 0..(ActualPipelineNum(p) - 1)
           /\ \A r \in Rank : \A k \in MaxSplits : RowsOf(r, p, k) \in Nat
<1>1. DeploymentOK(dep) /\ FlushReached(dep)
  BY DEF CountInv, ControlInv, TypeOK
<1>2. MaxSplits = 0..(ActualPipelineNum(p) - 1)
  BY <1>1, SplitNumber DEF MaxSplits
<1> QED
  BY <1>1, <1>2, RowsType

\* Nothing but the deployment decides where the rows are.
LEMMA RowsFrame ==
    ASSUME dep' = dep
    PROVE  /\ \A r, p, k : RowsOf(r, p, k)' = RowsOf(r, p, k)
           /\ \A r, p : RecvRoutes(r, p)' = RecvRoutes(r, p)
           /\ MaxSplits' = MaxSplits
<1>1. \A p, k : BatchSize(p, k)' = BatchSize(p, k)
  BY DEF BatchSize, ActualPipelineNum
<1>2. \A r, p, k : RowsOf(r, p, k)' = RowsOf(r, p, k)
  BY <1>1 DEF RowsOf
<1>3. \A r, p : RecvRoutes(r, p)' = RecvRoutes(r, p)
  BY DEF RecvRoutes, Routes, DestGraph, IsBwd
<1> QED
  BY <1>2, <1>3 DEF MaxSplits

\* A rank whose own state did not change.
LEMMA ValuesFrame ==
    ASSUME NEW q, ValuesOf(q), dep' = dep,
           pass'[q] = pass[q], split'[q] = split[q], step'[q] = step[q],
           todo'[q] = todo[q], recv_values'[q] = recv_values[q],
           split_values'[q] = split_values[q],
           skip_fwd_split'[q] = skip_fwd_split[q], stash'[q] = stash[q]
    PROVE  ValuesOf(q)'
<1>1. Running(q)' <=> Running(q)
  BY DEF Running
<1>2. InputsArrived(q) => InputsArrived(q)'
  BY RowsFrame DEF InputsArrived
<1>3. OutputsOfRows(q) => OutputsOfRows(q)'
  BY RowsFrame DEF OutputsOfRows, HasRun
<1>4. ForwardRecorded(q) => ForwardRecorded(q)'
  BY RowsFrame DEF ForwardRecorded, LeftBy, HasRun, IsBwd
<1> QED
  BY <1>1, <1>2, <1>3, <1>4 DEF ValuesOf

\* No values before the first forward pass, and none needed.
LEMMA ValuesInit ==
    ASSUME BackwardFollowsForward, \A d \in Deployments : FlushReached(d), Init
    PROVE  ValueInv
<1> SUFFICES ASSUME NEW r \in Rank, Running(r)
             PROVE  InputsArrived(r) /\ OutputsOfRows(r) /\ ForwardRecorded(r)
  BY DEF ValueInv, ValuesOf
<1>1. CountInv
  BY CountInit
<1>2. pass[r] = 1 /\ split[r] = 0 /\ step[r] = "recv" /\ recv_values[r] = {}
  BY DEF Init
<1>3. 1 \in DOMAIN Passes /\ Len(Passes) \in Nat
  BY <1>2, PassesAssumption DEF Running
<1>4. ~IsBwd(1)
  <2>1. 1 - 1 \notin DOMAIN Passes
    BY PassesAssumption
  <2> QED
    BY <1>3, <2>1 DEF BackwardFollowsForward
<1>5. \A k \in MaxSplits : ~HasRun(r, k)
  BY <1>2 DEF HasRun, MaxSplits
<1>6. InputsArrived(r)
  <2>1. todo[r] = RecvRoutes(r, 1)
    BY <1>3 DEF Init
  <2>2. 0 \in MaxSplits
    BY <1>1, <1>3, SplitNumber DEF MaxSplits, CountInv, ControlInv, TypeOK
  <2>3. split_values[r][0] = "inputs"
    BY <2>2 DEF Init
  <2> QED
    BY <1>2, <2>1, <2>3 DEF InputsArrived
<1> QED
  BY <1>2, <1>4, <1>5, <1>6 DEF OutputsOfRows, ForwardRecorded

\* Some source rank has a value whenever the ranks of a route meet.
LEMMA SenderHasValue ==
    ASSUME CountInv, ValueInv, NEW c \in dep.conns, CanTransfer(c)
    PROVE  \E q \in RanksInRoute(c) : step[q] = "send" /\ HasValue(q, c)
<1>1. PICK p \in DOMAIN Passes : \E k \in 0..(ActualPipelineNum(p) - 1) :
          /\ c \in Routes(p)
          /\ \A r \in RanksInRoute(c) :
                /\ pass[r] = p /\ Served(r, c) = k
                /\ Receives(r, c, k) \/ Sends(r, c, k)
  BY Meeting
<1>2. PICK k \in 0..(ActualPipelineNum(p) - 1) :
          \A r \in RanksInRoute(c) : pass[r] = p /\ (Receives(r, c, k) \/ Sends(r, c, k))
  BY <1>1
<1>3. DeploymentOK(dep)
  BY DEF CountInv, ControlInv, TypeOK
<1>4. SourceGraph(c, p) \in Graphs(dep)
  BY <1>3 DEF DeploymentOK, Connection, SourceGraph
<1>5. PICK q \in dep.alloc[SourceGraph(c, p)] : RowsOf(q, p, k) > 0
  BY <1>3, <1>4, SubgraphHasRows
<1>6. q \in RanksInRoute(c) /\ q \in Rank /\ q \notin dep.alloc[DestGraph(c, p)]
  BY <1>3, RouteRanks DEF RanksInRoute, SourceGraph, DestGraph
<1>7. pass[q] = p /\ Sends(q, c, k) /\ step[q] = "send" /\ TgtSplit(q, c) = k
  BY <1>2, <1>6 DEF Receives, Sends
<1>8. Running(q) /\ c \in todo[q] /\ InCompute(q)
  BY <1>6 DEF CanTransfer, Waiting, CountInv, ControlInv, ControlState
<1>9. k <= split[q]
  <2>1. c \in SendsOf(q, flush[q])
    BY <1>7, <1>8 DEF InCompute
  <2>2. c \in Routes(p) /\ (flush[q] = 0 \/ getDelay(c, p) >= flush[q])
    BY <1>1, <1>7, <2>1 DEF SendsOf
  <2>3. getDelay(c, p) \in Nat /\ flush[q] \in Nat /\ split[q] \in Nat
    BY <1>3, <1>6, <2>2, DelayBounds DEF CountInv, ControlInv, TypeOK
  <2>4. k = split[q] + flush[q] - getDelay(c, p)
    BY <1>7 DEF TgtSplit
  <2> QED
    BY <2>2, <2>3, <2>4
<1>10. k \in MaxSplits /\ HasRun(q, k)
  <2>1. k \in MaxSplits
    BY SplitsOfPass
  <2>2. split[q] \in Nat /\ ActualPipelineNum(p) \in Nat
    BY <1>3, <1>6, SplitNumber DEF CountInv, ControlInv, TypeOK
  <2> QED
    BY <1>7, <1>9, <2>1, <2>2 DEF HasRun
<1>11. split_values[q][k] = "outputs"
  BY <1>5, <1>6, <1>7, <1>8, <1>10 DEF ValueInv, ValuesOf, OutputsOfRows
<1> QED
  BY <1>6, <1>7, <1>11 DEF HasValue

\* A transfer delivers the value to the receivers, because a sender holds it.
LEMMA ValuesTransfer ==
    ASSUME CountInv, ValueInv, NEW c \in dep.conns, Transfer(c)
    PROVE  ValueInv'
<1>1. CanTransfer(c) /\ dep' = dep /\ pass' = pass /\ split' = split /\ step' = step
      /\ split_values' = split_values /\ skip_fwd_split' = skip_fwd_split /\ stash' = stash
  BY DEF Transfer
<1>2. \E q \in RanksInRoute(c) : step[q] = "send" /\ HasValue(q, c)
  BY <1>1, SenderHasValue
<1>3. \A q \in Rank :
         /\ todo'[q] = IF q \in RanksInRoute(c) THEN todo[q] \ {c} ELSE todo[q]
         /\ recv_values'[q] = IF q \in RanksInRoute(c) /\ step[q] = "recv"
                              THEN recv_values[q] \cup {c} ELSE recv_values[q]
  BY <1>2 DEF Transfer
<1> SUFFICES ASSUME NEW q \in Rank PROVE ValuesOf(q)'
  BY DEF ValueInv
<1>4. ValuesOf(q)
  BY DEF ValueInv
<1>5. CASE q \notin RanksInRoute(c)
  BY <1>1, <1>3, <1>4, <1>5, ValuesFrame
<1>6. CASE q \in RanksInRoute(c)
  <2>1. Running(q) /\ c \in todo[q]
    BY <1>1, <1>6 DEF CanTransfer, Waiting
  <2>2. InputsArrived(q) /\ OutputsOfRows(q) /\ ForwardRecorded(q)
    BY <1>4, <2>1 DEF ValuesOf
  <2>3. InputsArrived(q)'
    <3>1. ASSUME step[q] = "recv"
          PROVE  /\ recv_values'[q] = RecvRoutes(q, pass[q]) \ todo'[q]
                 /\ split_values[q][split[q]] = "inputs"
      <4>1. todo[q] \subseteq RecvRoutes(q, pass[q])
        BY <2>1, <3>1 DEF CountInv, ControlInv, ControlState, InCompute
      <4> QED
        BY <1>3, <1>6, <2>1, <2>2, <3>1, <4>1 DEF InputsArrived
    <3> QED
      BY <1>1, <3>1, RowsFrame DEF InputsArrived
  <2>4. OutputsOfRows(q)'
    BY <1>1, <2>2, RowsFrame DEF OutputsOfRows, HasRun
  <2>5. ForwardRecorded(q)'
    BY <1>1, <2>2, RowsFrame DEF ForwardRecorded, LeftBy, HasRun, IsBwd
  <2> QED
    BY <2>3, <2>4, <2>5 DEF ValuesOf
<1> QED
  BY <1>5, <1>6

\* The driver runs on complete inputs; backward reruns the split forward left.
LEMMA ValuesRunDriver ==
    ASSUME BackwardFollowsForward, CountInv, ValueInv, NEW r \in Rank, RunDriver(r)
    PROVE  ValueInv'
<1>1. Running(r) /\ step[r] = "recv" /\ todo[r] = {} /\ TypeOK /\ DeploymentOK(dep)
  BY DEF RunDriver, Received, CountInv, ControlInv, TypeOK
<1>2. PICK p \in DOMAIN Passes : p = pass[r]
  BY <1>1, RunningPass
<1>3. InputsArrived(r) /\ OutputsOfRows(r) /\ ForwardRecorded(r)
  BY <1>1 DEF ValueInv, ValuesOf
<1>4. PICK k \in MaxSplits : k = split[r]
  <2>1. InCompute(r) /\ split[r] \in Nat
    BY DEF CountInv, ControlInv, ControlState, TypeOK
  <2>2. split[r] \in 0..(ActualPipelineNum(p) - 1)
    BY <1>1, <1>2, <2>1, SplitNumber DEF InCompute
  <2> QED
    BY <2>2, SplitsOfPass
<1>5. GraphReady(r) /\ split_values[r][k] = "inputs"
  BY <1>1, <1>3, <1>4 DEF InputsArrived, GraphReady
<1>6. RowsOf(r, p, k) \in Nat
  BY SplitsOfPass
<1>7. Skip(r) <=> RowsOf(r, p, k) = 0
  <2>1. CASE ~IsBwd(p)
    BY <1>2, <1>4, <2>1 DEF Skip
  <2>2. CASE IsBwd(p)
    <3>1. RowsOf(r, p - 1, k) = RowsOf(r, p, k)
      BY <2>2, SameRows DEF BackwardFollowsForward
    <3>2. LeftBy(r, p - 1, k)
      BY <1>2, <1>3, <2>2 DEF ForwardRecorded
    <3> QED
      BY <1>2, <1>4, <1>6, <2>2, <3>1, <3>2 DEF Skip, LeftBy
  <2> QED
    BY <2>1, <2>2
<1>8. /\ dep' = dep /\ pass' = pass /\ split' = split
      /\ step' = [step EXCEPT ![r] = "send"] /\ todo' = [todo EXCEPT ![r] = SendsOf(r, 0)]
      /\ recv_values' = recv_values
      /\ split_values' = IF Skip(r) THEN split_values
                         ELSE [split_values EXCEPT ![r][k] = "outputs"]
      /\ skip_fwd_split' = IF IsBwd(p) THEN skip_fwd_split
                           ELSE [skip_fwd_split EXCEPT ![r][k] = IF Skip(r) THEN "skip" ELSE "run"]
      /\ stash' = IF ~Skip(r) /\ ~IsBwd(p) /\ dep.checkpointing
                  THEN [stash EXCEPT ![r][k] = p] ELSE stash
  BY <1>2, <1>4, <1>5 DEF RunDriver, SavesInputs
<1>9. \A q \in Rank \ {r} :
         /\ step'[q] = step[q] /\ todo'[q] = todo[q] /\ split_values'[q] = split_values[q]
         /\ skip_fwd_split'[q] = skip_fwd_split[q] /\ stash'[q] = stash[q]
  BY <1>1, <1>8 DEF TypeOK
<1>10. \A q \in Rank \ {r} : ValuesOf(q)'
  BY <1>8, <1>9, ValuesFrame DEF ValueInv
<1>11. /\ step'[r] = "send"
       /\ split_values'[r][k] = IF Skip(r) THEN "inputs" ELSE "outputs"
       /\ ~IsBwd(p) => skip_fwd_split'[r][k] = IF Skip(r) THEN "skip" ELSE "run"
       /\ ~IsBwd(p) /\ ~Skip(r) /\ dep.checkpointing => stash'[r][k] = p
       /\ IsBwd(p) => skip_fwd_split' = skip_fwd_split /\ stash' = stash
       /\ \A j \in MaxSplits \ {k} :
             /\ split_values'[r][j] = split_values[r][j]
             /\ skip_fwd_split'[r][j] = skip_fwd_split[r][j] /\ stash'[r][j] = stash[r][j]
  <2>1. /\ step'[r] = "send"
        /\ split_values'[r][k] = IF Skip(r) THEN "inputs" ELSE "outputs"
        /\ \A j \in MaxSplits \ {k} : split_values'[r][j] = split_values[r][j]
    BY <1>1, <1>5, <1>8 DEF TypeOK
  <2>2. /\ ~IsBwd(p) => skip_fwd_split'[r][k] = IF Skip(r) THEN "skip" ELSE "run"
        /\ \A j \in MaxSplits \ {k} : skip_fwd_split'[r][j] = skip_fwd_split[r][j]
    BY <1>1, <1>8 DEF TypeOK
  <2>3. /\ ~IsBwd(p) /\ ~Skip(r) /\ dep.checkpointing => stash'[r][k] = p
        /\ \A j \in MaxSplits \ {k} : stash'[r][j] = stash[r][j]
    BY <1>1, <1>8 DEF TypeOK
  <2> QED
    BY <1>8, <2>1, <2>2, <2>3
<1>12. \A j \in MaxSplits : HasRun(r, j)' <=> (j = k \/ HasRun(r, j))
  BY <1>1, <1>4, <1>8, <1>11 DEF HasRun
<1>13. \A j \in MaxSplits \ {k} : HasRun(r, j)' => HasRun(r, j)
  BY <1>12
<1>14. InputsArrived(r)'
  BY <1>11 DEF InputsArrived
<1>15. OutputsOfRows(r)'
  <2> SUFFICES ASSUME NEW j \in MaxSplits, HasRun(r, j)'
               PROVE  split_values'[r][j] = "outputs" <=> RowsOf(r, p, j) > 0
    BY <1>2, <1>8, RowsFrame DEF OutputsOfRows
  <2>1. CASE j = k
    BY <1>6, <1>7, <1>11, <2>1
  <2>2. CASE j # k
    BY <1>2, <1>3, <1>11, <1>13, <2>2 DEF OutputsOfRows
  <2> QED
    BY <2>1, <2>2
<1>16. ForwardRecorded(r)'
  <2>1. CASE IsBwd(p)
    <3>1. \A j \in MaxSplits : LeftBy(r, p - 1, j)
      BY <1>2, <1>3, <2>1 DEF ForwardRecorded
    <3>2. \A j \in MaxSplits : LeftBy(r, p - 1, j)'
      BY <1>8, <1>11, <2>1, <3>1, RowsFrame DEF LeftBy
    <3> QED
      BY <1>2, <1>8, <2>1, <3>2, RowsFrame DEF ForwardRecorded, IsBwd
  <2>2. CASE ~IsBwd(p)
    <3>1. ASSUME NEW j \in MaxSplits, HasRun(r, j)' PROVE LeftBy(r, p, j)'
      <4>1. CASE j = k
        BY <1>6, <1>7, <1>8, <1>11, <2>2, <4>1, RowsFrame DEF LeftBy
      <4>2. CASE j # k
        <5>1. LeftBy(r, p, j)
          BY <1>2, <1>3, <1>13, <2>2, <3>1, <4>2 DEF ForwardRecorded
        <5> QED
          BY <1>8, <1>11, <4>2, <5>1, RowsFrame DEF LeftBy
      <4> QED
        BY <4>1, <4>2
    <3> QED
      BY <1>2, <1>8, <2>2, <3>1, RowsFrame DEF ForwardRecorded, IsBwd
  <2> QED
    BY <2>1, <2>2
<1> QED
  BY <1>10, <1>14, <1>15, <1>16 DEF ValueInv, ValuesOf

\* The flush leaves the values of every split as they are.
LEMMA ValuesFlush ==
    ASSUME CountInv, ValueInv, NEW r \in Rank, Flush(r)
    PROVE  ValueInv'
<1>1. step[r] = "send" /\ TypeOK /\ dep' = dep /\ pass' = pass /\ split' = split /\ step' = step
      /\ recv_values' = recv_values /\ split_values' = split_values
      /\ skip_fwd_split' = skip_fwd_split /\ stash' = stash
  BY DEF Flush, CountInv, ControlInv
<1>2. \A q \in Rank \ {r} : todo'[q] = todo[q]
  BY <1>1 DEF Flush, TypeOK
<1>3. \A q \in Rank \ {r} : ValuesOf(q)'
  BY <1>1, <1>2, ValuesFrame DEF ValueInv
<1>4. ValuesOf(r)'
  <2>1. InputsArrived(r)'
    BY <1>1 DEF InputsArrived
  <2>2. OutputsOfRows(r) => OutputsOfRows(r)'
    BY <1>1, RowsFrame DEF OutputsOfRows, HasRun
  <2>3. ForwardRecorded(r) => ForwardRecorded(r)'
    BY <1>1, RowsFrame DEF ForwardRecorded, LeftBy, HasRun, IsBwd
  <2> QED
    BY <1>1, <2>1, <2>2, <2>3 DEF ValueInv, ValuesOf, Running
<1> QED
  BY <1>3, <1>4 DEF ValueInv

\* What the start of a split leaves to be shown.
LEMMA ValuesStart ==
    ASSUME CountInv, ValueInv, NEW r \in Rank, NEW p \in Nat, NEW k \in Nat, StartSplit(r, p, k),
           p <= Len(Passes) => k \in MaxSplits,
           p <= Len(Passes) => \A j \in MaxSplits : j < k =>
               (split_values[r][j] = "outputs" <=> RowsOf(r, p, j) > 0),
           p <= Len(Passes) => \A j \in MaxSplits :
               IF IsBwd(p) THEN LeftBy(r, p - 1, j) ELSE j < k => LeftBy(r, p, j)
    PROVE  ValueInv'
<1>1. TypeOK /\ dep' = dep /\ skip_fwd_split' = skip_fwd_split /\ stash' = stash
  BY DEF StartSplit, CountInv, ControlInv
<1>2. \A q \in Rank \ {r} :
         /\ pass'[q] = pass[q] /\ split'[q] = split[q] /\ step'[q] = step[q]
         /\ todo'[q] = todo[q] /\ recv_values'[q] = recv_values[q]
         /\ split_values'[q] = split_values[q]
  BY <1>1 DEF StartSplit, TypeOK
<1>3. \A q \in Rank \ {r} : ValuesOf(q)'
  BY <1>1, <1>2, ValuesFrame DEF ValueInv
<1>4. /\ pass'[r] = p /\ split'[r] = k /\ step'[r] = "recv"
      /\ todo'[r] = (IF p <= Len(Passes) THEN RecvRoutes(r, p) ELSE {})
      /\ recv_values'[r] = {}
      /\ \A j \in MaxSplits :
            split_values'[r][j] = IF j = k THEN "inputs"
                                  ELSE IF k = 0 THEN "absent" ELSE split_values[r][j]
  BY <1>1 DEF StartSplit, TypeOK
<1>5. \A j \in MaxSplits : HasRun(r, j)' <=> j < k
  BY <1>4 DEF HasRun
<1>6. ASSUME Running(r)'
      PROVE  InputsArrived(r)' /\ OutputsOfRows(r)' /\ ForwardRecorded(r)'
  <2>1. p <= Len(Passes)
    BY <1>4, <1>6 DEF Running
  <2>2. InputsArrived(r)'
    BY <1>1, <1>4, <2>1, RowsFrame DEF InputsArrived
  <2>3. OutputsOfRows(r)'
    <3> SUFFICES ASSUME NEW j \in MaxSplits, j < k
                 PROVE  split_values'[r][j] = "outputs" <=> RowsOf(r, p, j) > 0
      BY <1>1, <1>4, <1>5, RowsFrame DEF OutputsOfRows
    <3>1. j # k /\ k # 0
      BY DEF MaxSplits
    <3> QED
      BY <1>4, <2>1, <3>1
  <2>4. ForwardRecorded(r)'
    <3>1. \A j : (LeftBy(r, p, j)' <=> LeftBy(r, p, j)) /\ (LeftBy(r, p - 1, j)' <=> LeftBy(r, p - 1, j))
      BY <1>1, RowsFrame DEF LeftBy
    <3> QED
      BY <1>1, <1>4, <1>5, <2>1, <3>1, RowsFrame DEF ForwardRecorded, IsBwd
  <2> QED
    BY <2>2, <2>3, <2>4
<1> QED
  BY <1>3, <1>6 DEF ValueInv, ValuesOf

\* The outputs of the splits so far are kept while the next one starts.
LEMMA ValuesNextSplit ==
    ASSUME CountInv, ValueInv, NEW r \in Rank, NextSplit(r)
    PROVE  ValueInv'
<1>1. /\ Running(r) /\ step[r] = "send" /\ TypeOK /\ split[r] \in Nat
      /\ split[r] + 1 < ActualPipelineNum(pass[r]) /\ StartSplit(r, pass[r], split[r] + 1)
  BY DEF NextSplit, SplitServed, CountInv, ControlInv, TypeOK
<1>2. PICK p \in DOMAIN Passes : p = pass[r] /\ p \in Nat
  BY <1>1, RunningPass, PassesAssumption
<1>3. PICK k \in Nat : k = split[r] + 1
  BY <1>1
<1>4. k \in MaxSplits
  BY <1>1, <1>2, <1>3, SplitsOfPass, SplitNumber DEF TypeOK
<1>5. \A j \in MaxSplits : j < k => HasRun(r, j)
  BY <1>1, <1>3 DEF HasRun, MaxSplits
<1>6. OutputsOfRows(r) /\ ForwardRecorded(r)
  BY <1>1 DEF ValueInv, ValuesOf
<1>7. \A j \in MaxSplits : j < k => (split_values[r][j] = "outputs" <=> RowsOf(r, p, j) > 0)
  BY <1>2, <1>5, <1>6 DEF OutputsOfRows
<1>8. \A j \in MaxSplits : IF IsBwd(p) THEN LeftBy(r, p - 1, j) ELSE j < k => LeftBy(r, p, j)
  BY <1>2, <1>5, <1>6 DEF ForwardRecorded
<1>9. StartSplit(r, p, k)
  BY <1>1, <1>2, <1>3
<1> QED
  BY <1>2, <1>4, <1>7, <1>8, <1>9, ValuesStart

\* Backward finds what the forward pass before it left for every split.
LEMMA ValuesNextPass ==
    ASSUME BackwardFollowsForward, CountInv, ValueInv, NEW r \in Rank, NextPass(r)
    PROVE  ValueInv'
<1>1. /\ Running(r) /\ step[r] = "send" /\ TypeOK /\ split[r] \in Nat
      /\ split[r] + 1 = ActualPipelineNum(pass[r]) /\ StartSplit(r, pass[r] + 1, 0)
  BY DEF NextPass, PassServed, SplitServed, CountInv, ControlInv, TypeOK
<1>2. PICK p \in DOMAIN Passes : p = pass[r] /\ p \in Nat
  BY <1>1, RunningPass, PassesAssumption
<1>3. \A j \in MaxSplits : HasRun(r, j)
  <2>1. MaxSplits = 0..(ActualPipelineNum(p) - 1) /\ ActualPipelineNum(p) \in Nat
    BY <1>1, SplitsOfPass, SplitNumber DEF TypeOK
  <2> QED
    BY <1>1, <1>2, <2>1 DEF HasRun
<1>4. ForwardRecorded(r)
  BY <1>1 DEF ValueInv, ValuesOf
<1>5. PICK n \in Nat : n = p + 1
  BY <1>2
<1>6. n <= Len(Passes) => n \in DOMAIN Passes
  BY <1>2, <1>5, PassesAssumption
<1>7. 0 \in MaxSplits
  BY <1>1, SplitNumber DEF MaxSplits, TypeOK
<1>8. ASSUME n <= Len(Passes), NEW j \in MaxSplits
      PROVE  IF IsBwd(n) THEN LeftBy(r, n - 1, j) ELSE j < 0 => LeftBy(r, n, j)
  <2>1. CASE IsBwd(n)
    <3>1. n - 1 = p
      BY <1>2, <1>5
    <3>2. ~IsBwd(p)
      BY <1>6, <1>8, <2>1, <3>1 DEF BackwardFollowsForward
    <3>3. LeftBy(r, p, j)
      BY <1>2, <1>3, <1>4, <3>2 DEF ForwardRecorded
    <3> QED
      BY <2>1, <3>1, <3>3
  <2>2. CASE ~IsBwd(n)
    BY <2>2 DEF MaxSplits
  <2> QED
    BY <2>1, <2>2
<1>9. StartSplit(r, n, 0) /\ \A j \in MaxSplits : ~(j < 0)
  BY <1>1, <1>2, <1>5 DEF MaxSplits
<1> QED
  BY <1>7, <1>8, <1>9, ValuesStart

\* Every step keeps the values where the routes and the next pass look for them.
LEMMA ValuesNext ==
    ASSUME BackwardFollowsForward, CountInv, ValueInv, [Next]_vars
    PROVE  ValueInv'
<1>1. ASSUME UNCHANGED vars PROVE ValueInv'
  BY <1>1, ValuesFrame DEF vars, ValueInv
<1> QED
  BY <1>1, ValuesTransfer, ValuesRunDriver, ValuesFlush, ValuesNextSplit, ValuesNextPass
     DEF Next, Terminated

-----------------------------------------------------------------------------
\* The invariant about values, with the one about counts that it needs.
LEMMA Valued ==
    ASSUME \A d \in Deployments : FlushReached(d), BackwardFollowsForward
    PROVE  Spec => [](CountInv /\ ValueInv)
<1>1. Init => CountInv /\ ValueInv
  BY CountInit, ValuesInit
<1>2. (CountInv /\ ValueInv) /\ [Next]_vars => (CountInv /\ ValueInv)'
  BY CountNext, ValuesNext
<1> QED
  BY <1>1, <1>2, PTL DEF Spec

(***************************************************************************)
(* No subgraph ever runs short of inputs and silently leaves a split out,  *)
(* however few rows a split has: whenever the ranks of a route meet, some  *)
(* source rank has rows of that split and sends its value.                 *)
(***************************************************************************)
THEOREM InputsAlwaysComplete ==
    ASSUME \A d \in Deployments : FlushReached(d), BackwardFollowsForward
    PROVE  Spec => []InputsComplete
<1>1. ValueInv => InputsComplete
  <2> SUFFICES ASSUME ValueInv, NEW r \in Rank, Received(r) PROVE GraphReady(r)
    BY DEF InputsComplete
  <2>1. Running(r) /\ step[r] = "recv" /\ todo[r] = {}
    BY DEF Received
  <2> QED
    BY <2>1 DEF ValueInv, ValuesOf, InputsArrived, GraphReady
<1> QED
  BY <1>1, Valued, PTL

(***************************************************************************)
(* A backward pass recomputes every split from what its own forward pass   *)
(* saved, and repeats exactly the splits that pass ran on the rank.        *)
(***************************************************************************)
THEOREM BackwardRecomputes ==
    ASSUME \A d \in Deployments : FlushReached(d), BackwardFollowsForward
    PROVE  Spec => []RecomputesOwnForward
<1>1. CountInv /\ ValueInv => RecomputesOwnForward
  <2> SUFFICES ASSUME CountInv, ValueInv, NEW r \in Rank, Received(r), IsBwd(pass[r])
               PROVE  /\ skip_fwd_split[r][split[r]] # "unset"
                      /\ dep.checkpointing /\ ~Skip(r) => stash[r][split[r]] = pass[r] - 1
    BY DEF RecomputesOwnForward
  <2>1. Running(r) /\ step[r] = "recv" /\ TypeOK
    BY DEF Received, CountInv, ControlInv
  <2>2. split[r] \in MaxSplits
    <3>1. split[r] \in Nat /\ split[r] < dep.pipeline_num /\ DeploymentOK(dep)
      BY <2>1 DEF TypeOK
    <3>2. dep.pipeline_num \in Nat \ {0}
      BY <3>1 DEF DeploymentOK
    <3> QED
      BY <3>1, <3>2 DEF MaxSplits
  <2>3. LeftBy(r, pass[r] - 1, split[r])
    BY <2>1, <2>2 DEF ValueInv, ValuesOf, ForwardRecorded
  <2> QED
    BY <2>3 DEF LeftBy, Skip
<1> QED
  BY <1>1, Valued, PTL
=============================================================================
