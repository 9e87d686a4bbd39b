--------------------------- MODULE Pipeline_proofs ---------------------------
(***************************************************************************)
(* Proofs about module Pipeline, for every deployment, every number of     *)
(* ranks and micro-batches and every sequence of passes.                   *)
(***************************************************************************)
EXTENDS Pipeline, FiniteSetTheorems, SequenceTheorems, WellFoundedInduction,
        TLAPS

(***************************************************************************)
(* A nonempty set of naturals with an upper bound has a greatest element:  *)
(* what the running maximum of getMaxDelay computes.                       *)
(***************************************************************************)
LEMMA MaxBounded ==
    ASSUME NEW S \in SUBSET Nat, S # {}, NEW b \in Nat, \A x \in S : x <= b
    PROVE  Max(S) \in S /\ \A y \in S : y <= Max(S)
<1> DEFINE U == {n \in Nat : \A x \in S : x <= n}
<1>1. U # {} /\ U \subseteq Nat
  OBVIOUS
<1>2. PICK m \in U : \A n \in U : <<n, m>> \notin OpToRel(<, Nat)
  BY <1>1, NatLessThanWellFounded, WFMin
<1>3. \A n \in U : ~(n < m)
  BY <1>2 DEF OpToRel
<1>4. m \in S
  <2>1. SUFFICES ASSUME m \notin S PROVE FALSE
    OBVIOUS
  <2>2. PICK s \in S : TRUE
    OBVIOUS
  <2>3. \A x \in S : x \in Nat /\ x < m
    BY <2>1
  <2>4. m - 1 \in Nat /\ \A x \in S : x <= m - 1
    BY <2>2, <2>3
  <2>5. m - 1 \in U
    BY <2>4
  <2> QED
    BY <2>5, <1>3
<1>5. \A y \in S : m >= y
  OBVIOUS
<1>6. Max(S) \in S /\ \A y \in S : Max(S) >= y
  BY <1>4, <1>5 DEF Max
<1> QED
  BY <1>6

(***************************************************************************)
(* In a pass every route has a delay of at least 0 and at most the maximum *)
(* up to which the sources flush.                                          *)
(***************************************************************************)
LEMMA DelayBounds ==
    ASSUME DeploymentOK(dep), NEW p \in DOMAIN Passes
    PROVE  /\ getMaxDelay(p) \in Nat
           /\ \A c \in Routes(p) : /\ getDelay(c, p) \in Nat
                                   /\ getDelay(c, p) <= getMaxDelay(p)
<1> DEFINE N == Cardinality(Graphs(dep))
           D == {0} \cup {getDelay(c, p) : c \in Routes(p)}
<1>1. N \in Nat
  BY FS_CardinalityType DEF DeploymentOK
<1>2. \A c \in Routes(p) : getDelay(c, p) \in 0..N
  <2> TAKE c \in Routes(p)
  <2>1. /\ c \in dep.conns /\ c.src \in Graphs(dep) /\ c.dst \in Graphs(dep)
        /\ IsBwd(p) => c.grad
    BY DEF Routes, DeploymentOK, Connection
  <2>2. /\ dep.fwd_graph_order[c.src] \in 0..(N - 1)
        /\ dep.fwd_graph_order[c.dst] \in 0..(N - 1)
        /\ dep.bwd_graph_order[c.src] \in 0..(N - 1)
        /\ dep.bwd_graph_order[c.dst] \in 0..(N - 1)
    BY <2>1 DEF DeploymentOK
  <2>3. /\ dep.fwd_graph_order[c.src] < dep.fwd_graph_order[c.dst]
        /\ c.grad => dep.bwd_graph_order[c.dst] < dep.bwd_graph_order[c.src]
    BY <2>1 DEF DeploymentOK
  <2> QED
    BY <1>1, <2>1, <2>2, <2>3 DEF getDelay, GraphOrder, SourceGraph, DestGraph
<1>3. D \in SUBSET Nat /\ D # {} /\ \A x \in D : x <= N
  BY <1>1, <1>2
<1>4. Max(D) \in D /\ \A y \in D : y <= Max(D)
  BY <1>1, <1>3, MaxBounded
<1> QED
  BY <1>2, <1>3, <1>4 DEF getMaxDelay

(***************************************************************************)
(* The number of splits of a pass.                                         *)
(***************************************************************************)
LEMMA SplitNumber ==
    ASSUME DeploymentOK(dep), NEW p \in DOMAIN Passes
    PROVE  /\ ActualPipelineNum(p) \in Nat \ {0}
           /\ ActualPipelineNum(p) <= dep.pipeline_num
           /\ dep.pipeline_num \in Nat \ {0}
           /\ FlushReached(dep) => ActualPipelineNum(p) = dep.pipeline_num
<1>1. p \in 1..Len(Passes)
  BY PassesAssumption
<1>2. Passes[p] \in [is_bwd: BOOLEAN, batch_size: Nat \ {0}]
  BY <1>1, PassesAssumption, ElementOfSeq
<1> QED
  BY <1>2 DEF ActualPipelineNum, DeploymentOK, FlushReached

\* The two ends of a connection are disjoint, nonempty groups of ranks.
LEMMA RouteRanks ==
    ASSUME DeploymentOK(dep), NEW c \in dep.conns
    PROVE  /\ dep.alloc[c.src] \in (SUBSET Rank) \ {{}}
           /\ dep.alloc[c.dst] \in (SUBSET Rank) \ {{}}
           /\ dep.alloc[c.src] \cap dep.alloc[c.dst] = {}
           /\ RanksInRoute(c) \in (SUBSET Rank) \ {{}}
<1>1. c.src \in Graphs(dep) /\ c.dst \in Graphs(dep)
  BY DEF DeploymentOK, Connection
<1>2. dep.alloc[c.src] \in (SUBSET Rank) \ {{}} /\ dep.alloc[c.dst] \in (SUBSET Rank) \ {{}}
  BY <1>1 DEF DeploymentOK
<1>3. c.src # c.dst
  <2>1. Cardinality(Graphs(dep)) \in Nat
    BY FS_CardinalityType DEF DeploymentOK
  <2>2. /\ dep.fwd_graph_order[c.src] \in 0..(Cardinality(Graphs(dep)) - 1)
        /\ dep.fwd_graph_order[c.src] < dep.fwd_graph_order[c.dst]
    BY <1>1 DEF DeploymentOK
  <2> QED
    BY <2>1, <2>2
<1>4. dep.alloc[c.src] \cap dep.alloc[c.dst] = {}
  BY <1>1, <1>3 DEF DeploymentOK
<1> QED
  BY <1>2, <1>4 DEF RanksInRoute

-----------------------------------------------------------------------------
(***************************************************************************)
(* Type correctness and the control state of the ranks.                    *)
(***************************************************************************)
ControlInv == TypeOK /\ ControlState

\* A rank that is in a pass is in one of the program's passes.
LEMMA RunningPass ==
    ASSUME TypeOK, NEW r \in Rank, Running(r)
    PROVE  /\ pass[r] \in DOMAIN Passes
           /\ DOMAIN Passes = 1..Len(Passes)
           /\ pass[r] + 1 \in 1..(Len(Passes) + 1)
  BY PassesAssumption DEF TypeOK, Running

\* Every rank starts at the first split of the first pass.
LEMMA ControlInit == Init => ControlInv
<1> SUFFICES ASSUME Init PROVE ControlInv
  OBVIOUS
<1>1. DeploymentOK(dep)
  BY DeploymentsAssumption DEF Init
<1>2. Len(Passes) \in Nat /\ DOMAIN Passes = 1..Len(Passes)
  BY PassesAssumption
<1>3. \A r \in Rank : RecvRoutes(r, 1) \subseteq dep.conns
  BY DEF RecvRoutes, Routes
<1>4. TypeOK
  <2>1. todo \in [Rank -> SUBSET dep.conns]
    BY <1>3 DEF Init
  <2>2. transfers \in [DOMAIN Passes -> [dep.conns -> Nat]]
    BY DEF Init, NoRoutes
  <2>3. \A r \in Rank : split[r] < dep.pipeline_num
    BY <1>1 DEF Init, DeploymentOK
  <2> QED
    BY <1>1, <1>2, <2>1, <2>2, <2>3 DEF Init, TypeOK
<1>5. ControlState
  <2> SUFFICES ASSUME NEW r \in Rank PROVE InCompute(r)
    BY DEF ControlState
  <2>1. flush[r] = 0 /\ split[r] = 0 /\ step[r] = "recv"
    BY DEF Init
  <2>2. SUFFICES ASSUME Running(r)
        PROVE  /\ split[r] < ActualPipelineNum(pass[r])
               /\ todo[r] \subseteq RecvRoutes(r, pass[r])
               /\ \A k \in 0..split[r] : split_values[r][k] # "absent"
    BY <2>1 DEF InCompute
  <2>3. pass[r] = 1 /\ 1 \in DOMAIN Passes
    BY <1>2, <2>2 DEF Init, Running
  <2>4. ActualPipelineNum(1) \in Nat \ {0} /\ dep.pipeline_num \in Nat \ {0}
    BY <1>1, <2>3, SplitNumber
  <2>5. todo[r] = RecvRoutes(r, 1)
    BY <2>3 DEF Init
  <2>6. \A k \in 0..split[r] : split_values[r][k] = "inputs"
    BY <2>1, <2>4 DEF Init, MaxSplits
  <2> QED
    BY <2>1, <2>3, <2>4, <2>5, <2>6
<1> QED
  BY <1>4, <1>5 DEF ControlInv

\* A rank whose own state did not change is where it was.
LEMMA ControlFrame ==
    ASSUME NEW q, InCompute(q), dep' = dep,
           pass'[q] = pass[q], split'[q] = split[q], step'[q] = step[q],
           flush'[q] = flush[q], split_values'[q] = split_values[q],
           todo'[q] \subseteq todo[q]
    PROVE  InCompute(q)'
<1>1. Running(q)' <=> Running(q)
  BY DEF Running
<1>2. ASSUME Running(q)
      PROVE  /\ (split[q] < ActualPipelineNum(pass[q]))'
             /\ (step[q] = "recv" => todo[q] \subseteq RecvRoutes(q, pass[q]))'
             /\ (flush[q] > 0 => LastSplit(q))'
             /\ (\A k \in 0..split[q] : split_values[q][k] # "absent")'
  BY <1>2 DEF InCompute, ActualPipelineNum, RecvRoutes, Routes, DestGraph,
              IsBwd, LastSplit
<1>3. ASSUME Running(q)
      PROVE  (step[q] = "send" => todo[q] \subseteq SendsOf(q, flush[q]))'
  BY <1>3 DEF InCompute, SendsOf, SendRoutes, Routes, SourceGraph, DestGraph,
              IsBwd, getDelay, GraphOrder
<1> QED
  BY <1>1, <1>2, <1>3 DEF InCompute

\* A transfer takes one route off the lists of the ranks it joins.
LEMMA ControlTransfer ==
    ASSUME ControlInv, NEW c \in dep.conns, Transfer(c)
    PROVE  ControlInv'
<1> USE DEF ControlInv
<1>1. TypeOK'
  <2>1. todo' \in [Rank -> SUBSET dep.conns]
    BY DEF TypeOK, Transfer
  <2>2. recv_values' \in [Rank -> SUBSET dep.conns]
    BY DEF TypeOK, Transfer
  <2>3. transfers' \in [DOMAIN Passes -> [dep.conns -> Nat]]
    <3>1. PICK q \in RanksInRoute(c) :
             transfers' = [transfers EXCEPT ![pass[q]][c] = @ + 1]
      BY DEF Transfer
    <3>2. pass[q] \in DOMAIN Passes
      <4>1. q \in Rank
        BY RouteRanks DEF TypeOK
      <4>2. Running(q)
        BY DEF Transfer, CanTransfer, Waiting
      <4> QED
        BY <4>1, <4>2, RunningPass
    <3>3. transfers[pass[q]][c] + 1 \in Nat
      BY <3>2 DEF TypeOK
    <3> QED
      BY <3>1, <3>2, <3>3 DEF TypeOK
  <2> QED
    BY <2>1, <2>2, <2>3 DEF TypeOK, Transfer, MaxSplits
<1>2. ControlState'
  <2> SUFFICES ASSUME NEW q \in Rank PROVE InCompute(q)'
    BY DEF ControlState
  <2>1. todo'[q] \subseteq todo[q]
    BY DEF Transfer
  <2> QED
    BY <2>1, ControlFrame DEF ControlState, Transfer
<1> QED
  BY <1>1, <1>2

\* After running its driver a rank has the sends of its split before it.
LEMMA ControlRunDriver ==
    ASSUME ControlInv, NEW r \in Rank, RunDriver(r)
    PROVE  ControlInv'
<1> USE DEF ControlInv
<1>1. Running(r) /\ step[r] = "recv" /\ InCompute(r) /\ flush[r] = 0
  BY DEF RunDriver, Received, ControlState, InCompute
<1>2. /\ pass[r] \in DOMAIN Passes /\ split[r] \in MaxSplits
      /\ pass[r] \in 0..Len(Passes)
  <2>1. pass[r] \in DOMAIN Passes /\ DOMAIN Passes = 1..Len(Passes)
    BY <1>1, RunningPass
  <2>2. /\ ActualPipelineNum(pass[r]) \in Nat /\ dep.pipeline_num \in Nat
        /\ ActualPipelineNum(pass[r]) <= dep.pipeline_num
    BY <2>1, SplitNumber DEF TypeOK
  <2>3. split[r] \in Nat /\ split[r] < ActualPipelineNum(pass[r])
    BY <1>1 DEF InCompute, TypeOK
  <2> QED
    BY <2>1, <2>2, <2>3 DEF MaxSplits
<1>3. TypeOK'
  <2>1. todo' \in [Rank -> SUBSET dep.conns]
    <3>1. SendsOf(r, 0) \subseteq dep.conns
      BY DEF SendsOf, SendRoutes, Routes
    <3> QED
      BY <3>1 DEF TypeOK, RunDriver
  <2>2. step' \in [Rank -> {"recv", "send"}]
    BY DEF TypeOK, RunDriver
  <2>3. split_values' \in [Rank -> [MaxSplits -> {"absent", "inputs", "outputs"}]]
    BY <1>2 DEF TypeOK, RunDriver
  <2>4. skip_fwd_split' \in [Rank -> [MaxSplits -> {"unset", "skip", "run"}]]
    BY <1>2 DEF TypeOK, RunDriver
  <2>5. stash' \in [Rank -> [MaxSplits -> 0..Len(Passes)]]
    BY <1>2 DEF TypeOK, RunDriver
  <2> QED
    BY <2>1, <2>2, <2>3, <2>4, <2>5 DEF TypeOK, RunDriver, MaxSplits
<1>4. ControlState'
  <2> SUFFICES ASSUME NEW q \in Rank PROVE InCompute(q)'
    BY DEF ControlState
  <2>1. CASE q # r
    <3>1. todo'[q] = todo[q] /\ step'[q] = step[q] /\ split_values'[q] = split_values[q]
      BY <2>1 DEF RunDriver, TypeOK
    <3> QED
      BY <3>1, ControlFrame DEF ControlState, RunDriver
  <2>2. CASE q = r
    <3>1. /\ pass'[r] = pass[r] /\ split'[r] = split[r] /\ flush'[r] = flush[r]
          /\ step'[r] = "send" /\ todo'[r] = SendsOf(r, 0) /\ dep' = dep
      BY DEF RunDriver, TypeOK
    <3>2. (split[r] < ActualPipelineNum(pass[r]))'
      BY <1>1, <3>1 DEF InCompute, ActualPipelineNum
    <3>3. (todo[r] \subseteq SendsOf(r, flush[r]))'
      BY <1>1, <3>1 DEF SendsOf, SendRoutes, Routes, SourceGraph, DestGraph, IsBwd,
                        getDelay, GraphOrder
    <3>4. (\A k \in 0..split[r] : split_values[r][k] # "absent")'
      BY <1>1, <1>2, <3>1 DEF InCompute, RunDriver, TypeOK
    <3> QED
      BY <1>1, <2>2, <3>1, <3>2, <3>3, <3>4 DEF InCompute
  <2> QED
    BY <2>1, <2>2
<1> QED
  BY <1>3, <1>4

\* A flush step puts the sends of the next delay on the list.
LEMMA ControlFlush ==
    ASSUME ControlInv, NEW r \in Rank, Flush(r)
    PROVE  ControlInv'
<1> USE DEF ControlInv
<1>1. Running(r) /\ step[r] = "send" /\ InCompute(r) /\ LastSplit(r)
  BY DEF Flush, ControlState
<1>2. TypeOK'
  <2>1. SendsOf(r, flush[r] + 1) \subseteq dep.conns
    BY DEF SendsOf, SendRoutes, Routes
  <2>2. todo' \in [Rank -> SUBSET dep.conns] /\ flush' \in [Rank -> Nat]
    BY <2>1 DEF TypeOK, Flush
  <2> QED
    BY <2>2 DEF TypeOK, Flush, MaxSplits
<1>3. ControlState'
  <2> SUFFICES ASSUME NEW q \in Rank PROVE InCompute(q)'
    BY DEF ControlState
  <2>1. CASE q # r
    <3>1. todo'[q] = todo[q] /\ flush'[q] = flush[q]
      BY <2>1 DEF Flush, TypeOK
    <3> QED
      BY <3>1, ControlFrame DEF ControlState, Flush
  <2>2. CASE q = r
    <3>1. /\ pass'[r] = pass[r] /\ split'[r] = split[r] /\ step'[r] = step[r]
          /\ flush'[r] = flush[r] + 1 /\ todo'[r] = SendsOf(r, flush[r] + 1)
          /\ split_values'[r] = split_values[r] /\ dep' = dep
      BY DEF Flush, TypeOK
    <3>2. (todo[r] \subseteq SendsOf(r, flush[r]))'
      BY <3>1 DEF SendsOf, SendRoutes, Routes, SourceGraph, DestGraph, IsBwd,
                  getDelay, GraphOrder
    <3> QED
      BY <1>1, <2>2, <3>1, <3>2 DEF InCompute, LastSplit, ActualPipelineNum
  <2> QED
    BY <2>1, <2>2
<1> QED
  BY <1>2, <1>3

\* Starting a split builds the list of receives that belongs to its graph.
LEMMA ControlStartSplit ==
    ASSUME ControlInv, NEW r \in Rank, Running(r),
           NEW p \in 1..(Len(Passes) + 1), NEW k \in Nat, StartSplit(r, p, k),
           p <= Len(Passes) => k < ActualPipelineNum(p),
           k = 0 \/ (p = pass[r] /\ k = split[r] + 1)
    PROVE  ControlInv'
<1> USE DEF ControlInv
<1>1. /\ pass'[r] = p /\ split'[r] = k /\ step'[r] = "recv" /\ flush'[r] = 0
      /\ todo'[r] = IF p <= Len(Passes) THEN RecvRoutes(r, p) ELSE {}
      /\ split_values'[r] = [j \in MaxSplits |-> IF j = k THEN "inputs"
                                ELSE IF k = 0 THEN "absent" ELSE split_values[r][j]]
      /\ dep' = dep
  BY DEF StartSplit, TypeOK
<1>2. TypeOK'
  <2>1. RecvRoutes(r, p) \subseteq dep.conns
    BY DEF RecvRoutes, Routes
  <2>2. todo' \in [Rank -> SUBSET dep.conns] /\ recv_values' \in [Rank -> SUBSET dep.conns]
    BY <2>1 DEF TypeOK, StartSplit
  <2>3. split_values' \in [Rank -> [MaxSplits -> {"absent", "inputs", "outputs"}]]
    BY DEF TypeOK, StartSplit
  <2>4. /\ pass' \in [Rank -> 1..(Len(Passes) + 1)] /\ split' \in [Rank -> Nat]
        /\ step' \in [Rank -> {"recv", "send"}] /\ flush' \in [Rank -> Nat]
    BY DEF TypeOK, StartSplit
  <2>5. k < dep.pipeline_num
    <3>1. pass[r] \in DOMAIN Passes /\ pass[r] <= Len(Passes)
      BY RunningPass DEF Running
    <3>2. /\ ActualPipelineNum(pass[r]) \in Nat
          /\ ActualPipelineNum(pass[r]) <= dep.pipeline_num
          /\ dep.pipeline_num \in Nat \ {0}
      BY <3>1, SplitNumber DEF TypeOK
    <3> QED
      BY <3>1, <3>2
  <2>6. \A q \in Rank : split'[q] < dep.pipeline_num
    BY <2>5 DEF TypeOK, StartSplit
  <2> QED
    BY <2>2, <2>3, <2>4, <2>6 DEF TypeOK, StartSplit, MaxSplits
<1>3. ControlState'
  <2> SUFFICES ASSUME NEW q \in Rank PROVE InCompute(q)'
    BY DEF ControlState
  <2>1. CASE q # r
    <3>1. /\ pass'[q] = pass[q] /\ split'[q] = split[q] /\ step'[q] = step[q]
          /\ flush'[q] = flush[q] /\ todo'[q] = todo[q]
          /\ split_values'[q] = split_values[q]
      BY <2>1 DEF StartSplit, TypeOK
    <3> QED
      BY <1>1, <3>1, ControlFrame DEF ControlState
  <2>2. CASE q = r
    <3>1. SUFFICES ASSUME Running(q)'
                   PROVE  /\ (split[q] < ActualPipelineNum(pass[q]))'
                          /\ (todo[q] \subseteq RecvRoutes(q, pass[q]))'
                          /\ (\A j \in 0..split[q] : split_values[q][j] # "absent")'
      BY <1>1, <2>2 DEF InCompute
    <3>2. p <= Len(Passes) /\ k < ActualPipelineNum(p)
      BY <1>1, <2>2, <3>1 DEF Running
    <3>3. \A j \in 0..k : split_values'[r][j] # "absent"
      <4>1. p \in DOMAIN Passes
        BY <3>2, PassesAssumption
      <4>2. /\ ActualPipelineNum(p) \in Nat /\ ActualPipelineNum(p) <= dep.pipeline_num
            /\ dep.pipeline_num \in Nat
        BY <4>1, SplitNumber DEF TypeOK
      <4>3. 0..k \subseteq MaxSplits
        BY <3>2, <4>2 DEF MaxSplits
      <4>4. InCompute(r) /\ split[r] \in Nat
        BY DEF ControlState, TypeOK
      <4>5. \A j \in 0..split[r] : split_values[r][j] # "absent"
        BY <4>4 DEF InCompute
      <4> QED
        BY <1>1, <4>3, <4>4, <4>5
    <3>4. (todo[q] \subseteq RecvRoutes(q, pass[q]))'
      BY <1>1, <2>2, <3>2 DEF RecvRoutes, Routes, DestGraph, IsBwd
    <3> QED
      BY <1>1, <2>2, <3>2, <3>3, <3>4 DEF ActualPipelineNum
  <2> QED
    BY <2>1, <2>2
<1> QED
  BY <1>2, <1>3

\* Control is well formed after every step.
LEMMA ControlNext == ControlInv /\ [Next]_vars => ControlInv'
<1> SUFFICES ASSUME ControlInv, [Next]_vars PROVE ControlInv'
  OBVIOUS
<1>1. ASSUME NEW c \in dep.conns, Transfer(c) PROVE ControlInv'
  BY <1>1, ControlTransfer
<1>2. ASSUME NEW r \in Rank, RunDriver(r) PROVE ControlInv'
  BY <1>2, ControlRunDriver
<1>3. ASSUME NEW r \in Rank, Flush(r) PROVE ControlInv'
  BY <1>3, ControlFlush
<1>4. ASSUME NEW r \in Rank, NextSplit(r) PROVE ControlInv'
  <2>1. Running(r) /\ TypeOK /\ split[r] + 1 < ActualPipelineNum(pass[r])
    BY <1>4 DEF NextSplit, SplitServed, ControlInv
  <2>2. pass[r] \in 1..(Len(Passes) + 1) /\ split[r] + 1 \in Nat
    BY <2>1 DEF TypeOK
  <2>3. StartSplit(r, pass[r], split[r] + 1)
    BY <1>4 DEF NextSplit
  <2> QED
    BY <2>1, <2>2, <2>3, ControlStartSplit
<1>5. ASSUME NEW r \in Rank, NextPass(r) PROVE ControlInv'
  <2>1. Running(r) /\ TypeOK /\ StartSplit(r, pass[r] + 1, 0)
    BY <1>5 DEF NextPass, PassServed, SplitServed, ControlInv
  <2>2. pass[r] + 1 \in 1..(Len(Passes) + 1) /\ Len(Passes) \in Nat
    BY <2>1, RunningPass, PassesAssumption
  <2>3. ASSUME pass[r] + 1 <= Len(Passes) PROVE 0 < ActualPipelineNum(pass[r] + 1)
    <3>1. pass[r] + 1 \in DOMAIN Passes
      BY <2>2, <2>3, PassesAssumption
    <3>2. ActualPipelineNum(pass[r] + 1) \in Nat \ {0}
      BY <2>1, <3>1, SplitNumber DEF TypeOK
    <3> QED
      BY <3>2
  <2> QED
    BY <2>1, <2>2, <2>3, ControlStartSplit
<1>6. ASSUME UNCHANGED vars PROVE ControlInv'
  <2>1. TypeOK'
    BY <1>6 DEF ControlInv, TypeOK, vars, MaxSplits
  <2>2. ControlState'
    BY <1>6, ControlFrame DEF ControlInv, ControlState, vars
  <2> QED
    BY <2>1, <2>2 DEF ControlInv
<1> QED
  BY <1>1, <1>2, <1>3, <1>4, <1>5, <1>6 DEF Next, Terminated

(***************************************************************************)
(* The pipeline's state has its type, and every rank is where compute()    *)
(* can be.                                                                 *)
(***************************************************************************)
THEOREM TypeCorrect == Spec => []TypeOK
<1>1. Spec => []ControlInv
  BY ControlInit, ControlNext, PTL DEF Spec
<1>2. ControlInv => TypeOK
  BY DEF ControlInv
<1> QED
  BY <1>1, <1>2, PTL

(***************************************************************************)
(* A delayed send always finds its split in split_values_.                 *)
(***************************************************************************)
THEOREM DelayedSendsFindTheirValue == Spec => []DelayedValueBuffered
<1>1. Spec => []ControlInv
  BY ControlInit, ControlNext, PTL DEF Spec
<1>2. ControlInv => DelayedValueBuffered
  <2> SUFFICES ASSUME ControlInv, NEW r \in Rank, Running(r), step[r] = "send",
                      NEW c \in todo[r]
               PROVE  /\ TgtSplit(r, c) \in MaxSplits
                      /\ split_values[r][TgtSplit(r, c)] # "absent"
    BY DEF DelayedValueBuffered
  <2> USE DEF ControlInv
  <2>1. InCompute(r) /\ split[r] \in Nat /\ flush[r] \in Nat
    BY DEF ControlState, TypeOK
  <2>2. pass[r] \in DOMAIN Passes
    BY RunningPass
  <2>3. c \in SendsOf(r, flush[r]) /\ c \in Routes(pass[r])
    BY <2>1 DEF InCompute, SendsOf, SendRoutes
  <2>4. getDelay(c, pass[r]) \in Nat
    BY <2>2, <2>3, DelayBounds DEF TypeOK
  <2>5. TgtSplit(r, c) \in 0..split[r]
    BY <2>1, <2>3, <2>4 DEF SendsOf, TgtSplit
  <2>6. /\ ActualPipelineNum(pass[r]) \in Nat /\ dep.pipeline_num \in Nat
        /\ ActualPipelineNum(pass[r]) <= dep.pipeline_num
    BY <2>2, SplitNumber DEF TypeOK
  <2>7. 0..split[r] \subseteq MaxSplits
    BY <2>1, <2>6 DEF InCompute, MaxSplits
  <2> QED
    BY <2>1, <2>5, <2>7 DEF InCompute
<1> QED
  BY <1>1, <1>2, PTL

-----------------------------------------------------------------------------
(***************************************************************************)
(* The ranks agree on what they transfer.  The invariant adds to ControlInv *)
(* that all ranks of a connection count the same transfers.  FlushReached  *)
(* is what makes the count of a source rank complete when its pass ends.   *)
(***************************************************************************)
CountInv == ControlInv /\ FlushReached(dep) /\ TransfersCounted

\* No route has been used before the first pass.
LEMMA CountInit ==
    ASSUME \A d \in Deployments : FlushReached(d), Init
    PROVE  CountInv
<1>1. ControlInv /\ FlushReached(dep)
  BY ControlInit DEF Init
<1>2. TransfersCounted
  <2> SUFFICES ASSUME NEW c \in dep.conns, NEW r \in RanksInRoute(c),
                      NEW p \in DOMAIN Passes
               PROVE  transfers[p][c] = ServedIn(r, c, p)
    BY DEF TransfersCounted
  <2>1. transfers[p][c] = 0
    BY DEF Init, NoRoutes
  <2>2. r \in Rank
    BY <1>1, RouteRanks DEF ControlInv, TypeOK
  <2>3. /\ pass[r] = 1 /\ split[r] = 0 /\ step[r] = "recv" /\ flush[r] = 0
        /\ todo[r] = RecvRoutes(r, 1)
    BY <2>2, PassesAssumption DEF Init
  <2>4. p \in Nat /\ p >= 1
    BY PassesAssumption
  <2>5. ASSUME c \in Routes(p), p = 1 PROVE Served(r, c) = 0
    <3>1. getDelay(c, 1) \in Nat
      BY <1>1, <2>5, DelayBounds DEF ControlInv, TypeOK
    <3>2. r \in dep.alloc[DestGraph(c, 1)] => c \in todo[r]
      BY <2>3, <2>5 DEF RecvRoutes
    <3> QED
      BY <2>3, <3>1, <3>2 DEF Served
  <2> QED
    BY <2>1, <2>3, <2>4, <2>5 DEF ServedIn
<1> QED
  BY <1>1, <1>2 DEF CountInv

\* A rank that waits in distribute() takes part in the transfer that follows
\* the ones it counts, as a receiver or as a sender.
LEMMA WaitingServed ==
    ASSUME ControlInv, NEW c \in dep.conns, NEW r \in Rank, Waiting(r, c)
    PROVE  /\ pass[r] \in DOMAIN Passes
           /\ c \in Routes(pass[r])
           /\ Served(r, c) \in 0..(ActualPipelineNum(pass[r]) - 1)
           /\ Receives(r, c, Served(r, c)) \/ Sends(r, c, Served(r, c))
<1> DEFINE p == pass[r]
<1>1. Running(r) /\ c \in todo[r] /\ p \in DOMAIN Passes /\ InCompute(r)
  BY RunningPass DEF Waiting, ControlInv, ControlState
<1>2. /\ split[r] \in Nat /\ flush[r] \in Nat /\ step[r] \in {"recv", "send"}
      /\ split[r] < ActualPipelineNum(p)
      /\ ActualPipelineNum(p) \in Nat
  BY <1>1, SplitNumber DEF ControlInv, TypeOK, InCompute
<1>3. CASE step[r] = "recv"
  <2>1. c \in RecvRoutes(r, p)
    BY <1>1, <1>3 DEF InCompute
  <2>2. c \in Routes(p) /\ r \in dep.alloc[DestGraph(c, p)]
    BY <2>1 DEF RecvRoutes
  <2>3. Served(r, c) = split[r]
    BY <1>1, <1>3, <2>2 DEF Served
  <2> QED
    BY <1>1, <1>2, <1>3, <2>2, <2>3 DEF Receives
<1>4. CASE step[r] = "send"
  <2>1. c \in SendsOf(r, flush[r])
    BY <1>1, <1>4 DEF InCompute
  <2>2. c \in Routes(p) /\ r \in dep.alloc[SourceGraph(c, p)]
    BY <2>1 DEF SendsOf, SendRoutes
  <2>3. r \notin dep.alloc[DestGraph(c, p)]
    BY <2>2, RouteRanks DEF SourceGraph, DestGraph, ControlInv, TypeOK
  <2>4. getDelay(c, p) \in Nat
    BY <1>1, <2>2, DelayBounds DEF ControlInv, TypeOK
  <2>5. /\ flush[r] = 0 \/ getDelay(c, p) >= flush[r]
        /\ split[r] + flush[r] - getDelay(c, p) >= 0
    BY <2>1 DEF SendsOf
  <2>6. Served(r, c) = TgtSplit(r, c)
    BY <1>1, <1>2, <1>4, <2>3, <2>4, <2>5 DEF Served, TgtSplit
  <2>7. TgtSplit(r, c) \in 0..split[r]
    BY <1>2, <2>4, <2>5 DEF TgtSplit
  <2> QED
    BY <1>1, <1>2, <1>4, <2>2, <2>6, <2>7 DEF Sends
<1> QED
  BY <1>2, <1>3, <1>4

\* When the ranks of a connection meet they are in the same pass and count
\* the same transfers.
LEMMA Meeting ==
    ASSUME CountInv, NEW c \in dep.conns, CanTransfer(c)
    PROVE  \E p \in DOMAIN Passes : \E k \in 0..(ActualPipelineNum(p) - 1) :
              /\ c \in Routes(p)
              /\ \A r \in RanksInRoute(c) :
                    /\ pass[r] = p /\ Served(r, c) = k
                    /\ Receives(r, c, k) \/ Sends(r, c, k)
<1> USE DEF CountInv
<1>1. RanksInRoute(c) \subseteq Rank /\ RanksInRoute(c) # {}
  BY RouteRanks DEF ControlInv, TypeOK
<1>2. PICK q \in RanksInRoute(c) : TRUE
  BY <1>1
<1>3. \A r \in RanksInRoute(c) :
         /\ pass[r] \in DOMAIN Passes /\ c \in Routes(pass[r])
         /\ Served(r, c) \in 0..(ActualPipelineNum(pass[r]) - 1)
         /\ Receives(r, c, Served(r, c)) \/ Sends(r, c, Served(r, c))
  BY <1>1, WaitingServed DEF CanTransfer
<1>4. \A r \in RanksInRoute(c) : \A p \in DOMAIN Passes :
         transfers[p][c] = ServedIn(r, c, p)
  BY DEF TransfersCounted
<1>5. \A p \in DOMAIN Passes : p \in Nat /\ ActualPipelineNum(p) \in Nat
  BY SplitNumber, PassesAssumption DEF ControlInv, TypeOK
<1>6. ASSUME NEW r \in RanksInRoute(c), NEW s \in RanksInRoute(c)
      PROVE  ~(pass[r] < pass[s])
  <2> SUFFICES ASSUME pass[r] < pass[s] PROVE FALSE
    OBVIOUS
  <2>1. transfers[pass[r]][c] = Served(r, c)
    BY <1>3, <1>4, <1>5 DEF ServedIn
  <2>2. transfers[pass[r]][c] = ActualPipelineNum(pass[r])
    <3>1. /\ pass[r] \in DOMAIN Passes /\ c \in Routes(pass[r])
          /\ pass[r] \in Nat /\ pass[s] \in Nat
      BY <1>3, <1>5
    <3>2. transfers[pass[r]][c] = ServedIn(s, c, pass[r])
      BY <1>4, <3>1
    <3> QED
      BY <3>1, <3>2 DEF ServedIn
  <2>3. /\ Served(r, c) \in 0..(ActualPipelineNum(pass[r]) - 1)
        /\ ActualPipelineNum(pass[r]) \in Nat
    BY <1>3, <1>5
  <2> QED
    BY <2>1, <2>2, <2>3
<1>7. ASSUME NEW r \in RanksInRoute(c)
      PROVE  pass[r] = pass[q] /\ Served(r, c) = Served(q, c)
  <2>1. pass[r] = pass[q]
    BY <1>3, <1>5, <1>6
  <2>2. transfers[pass[q]][c] = Served(r, c) /\ transfers[pass[q]][c] = Served(q, c)
    BY <1>3, <1>4, <1>5, <2>1 DEF ServedIn
  <2> QED
    BY <2>1, <2>2
<1>8. /\ pass[q] \in DOMAIN Passes /\ c \in Routes(pass[q])
      /\ Served(q, c) \in 0..(ActualPipelineNum(pass[q]) - 1)
  BY <1>3
<1>9. \A r \in RanksInRoute(c) :
         /\ pass[r] = pass[q] /\ Served(r, c) = Served(q, c)
         /\ Receives(r, c, Served(q, c)) \/ Sends(r, c, Served(q, c))
  BY <1>3, <1>7
<1> QED
  BY <1>8, <1>9

\* Without a step of rank q, and with connection e as far as before, q counts
\* the same transfers via e.
LEMMA ServedFrame ==
    ASSUME NEW q, NEW e, NEW p, dep' = dep,
           pass'[q] = pass[q], split'[q] = split[q], step'[q] = step[q],
           flush'[q] = flush[q], e \in todo'[q] <=> e \in todo[q]
    PROVE  ServedIn(q, e, p)' = ServedIn(q, e, p)
<1>1. (e \in Routes(p))' <=> e \in Routes(p)
  BY DEF Routes, IsBwd
<1>2. ActualPipelineNum(p)' = ActualPipelineNum(p)
  BY DEF ActualPipelineNum
<1>3. getDelay(e, pass[q])' = getDelay(e, pass[q])
  BY DEF getDelay, GraphOrder, SourceGraph, DestGraph, IsBwd
<1>4. dep.alloc[DestGraph(e, pass[q])]' = dep.alloc[DestGraph(e, pass[q])]
  BY DEF DestGraph, IsBwd
<1>5. Served(q, e)' = Served(q, e)
  BY <1>3, <1>4 DEF Served
<1> QED
  BY <1>1, <1>2, <1>5 DEF ServedIn

\* A transfer raises the count of its route on all of its ranks together.
LEMMA CountTransfer ==
    ASSUME CountInv, NEW c \in dep.conns, Transfer(c)
    PROVE  TransfersCounted'
<1> USE DEF CountInv
<1>0. PICK p \in DOMAIN Passes : \E k \in 0..(ActualPipelineNum(p) - 1) :
          /\ c \in Routes(p)
          /\ \A r \in RanksInRoute(c) :
                /\ pass[r] = p /\ Served(r, c) = k
                /\ Receives(r, c, k) \/ Sends(r, c, k)
  BY Meeting DEF Transfer
<1>1. PICK k \in 0..(ActualPipelineNum(p) - 1) :
          /\ c \in Routes(p)
          /\ \A r \in RanksInRoute(c) :
                /\ pass[r] = p /\ Served(r, c) = k
                /\ Receives(r, c, k) \/ Sends(r, c, k)
  BY <1>0
<1>2. transfers' = [transfers EXCEPT ![p][c] = @ + 1]
  BY <1>1 DEF Transfer
<1>3. /\ dep' = dep /\ pass' = pass /\ split' = split /\ step' = step /\ flush' = flush
      /\ \A r \in Rank : todo'[r] = IF r \in RanksInRoute(c) THEN todo[r] \ {c}
                                                            ELSE todo[r]
  BY DEF Transfer
<1>4. transfers \in [DOMAIN Passes -> [dep.conns -> Nat]]
  BY DEF ControlInv, TypeOK
<1> SUFFICES ASSUME NEW e \in dep.conns, NEW q \in RanksInRoute(e),
                    NEW s \in DOMAIN Passes
             PROVE  transfers'[s][e] = ServedIn(q, e, s)'
  BY <1>3 DEF TransfersCounted, RanksInRoute
<1>5. q \in Rank /\ transfers[s][e] = ServedIn(q, e, s)
  BY RouteRanks DEF TransfersCounted, ControlInv, TypeOK
<1>6. CASE e # c
  <2>1. transfers'[s][e] = transfers[s][e]
    BY <1>2, <1>4, <1>6
  <2>2. e \in todo'[q] <=> e \in todo[q]
    BY <1>3, <1>5, <1>6
  <2> QED
    BY <1>3, <1>5, <2>1, <2>2, ServedFrame
<1>7. CASE e = c /\ s # p
  <2>1. transfers'[s][e] = transfers[s][e]
    BY <1>2, <1>4, <1>7
  <2>2. pass[q] = p
    BY <1>1, <1>7
  <2>3. ServedIn(q, e, s)' = ServedIn(q, e, s)
    BY <1>3, <1>7, <2>2 DEF ServedIn, Routes, IsBwd, ActualPipelineNum
  <2> QED
    BY <1>5, <2>1, <2>3
<1>8. CASE e = c /\ s = p
  <2>1. transfers'[s][e] = k + 1
    <3>1. ServedIn(q, c, p) = Served(q, c)
      BY <1>1, <1>8, PassesAssumption DEF ServedIn
    <3> QED
      BY <1>1, <1>2, <1>4, <1>5, <1>8, <3>1
  <2>2. Served(q, c)' = k + 1
    <3>1. /\ pass[q] = p /\ c \in todo[q] /\ c \notin todo'[q] /\ Running(q)
          /\ InCompute(q) /\ split[q] \in Nat /\ flush[q] \in Nat
      BY <1>1, <1>3, <1>5, <1>8 DEF Transfer, CanTransfer, Waiting, ControlInv,
                                    ControlState, TypeOK
    <3>2. CASE Receives(q, c, k)
      <4>1. /\ step[q] = "recv" /\ q \in dep.alloc[DestGraph(c, p)] /\ split[q] = k
        BY <3>1, <3>2 DEF Receives
      <4> QED
        BY <1>3, <3>1, <4>1 DEF Served, DestGraph, IsBwd
    <3>3. CASE Sends(q, c, k)
      <4>1. /\ step[q] = "send" /\ q \in dep.alloc[SourceGraph(c, p)]
            /\ split[q] + flush[q] - getDelay(c, p) = k
        BY <3>1, <3>3 DEF Sends, TgtSplit
      <4>2. q \notin dep.alloc[DestGraph(c, p)]
        BY <4>1, RouteRanks DEF SourceGraph, DestGraph, ControlInv, TypeOK
      <4>3. c \in SendsOf(q, flush[q]) /\ getDelay(c, p) \in Nat
        BY <1>1, <3>1, <4>1, DelayBounds DEF InCompute, ControlInv, TypeOK
      <4>4. flush[q] <= getDelay(c, p)
        BY <3>1, <4>3 DEF SendsOf
      <4>5. /\ getDelay(c, pass[q])' = getDelay(c, p)
            /\ (dep.alloc[DestGraph(c, pass[q])])' = dep.alloc[DestGraph(c, p)]
        BY <1>3, <3>1 DEF getDelay, GraphOrder, SourceGraph, DestGraph, IsBwd
      <4>6. k \in Nat
        OBVIOUS
      <4> QED
        BY <1>3, <3>1, <4>1, <4>2, <4>3, <4>4, <4>5, <4>6 DEF Served
    <3> QED
      BY <1>1, <1>8, <3>2, <3>3
  <2>3. ServedIn(q, e, s)' = Served(q, c)'
    BY <1>1, <1>3, <1>8, PassesAssumption DEF ServedIn, Routes, IsBwd
  <2> QED
    BY <2>1, <2>2, <2>3
<1> QED
  BY <1>6, <1>7, <1>8

\* A step of rank r alone keeps the counts when r's own count stays right.
LEMMA CountLocal ==
    ASSUME CountInv, NEW r \in Rank, dep' = dep, transfers' = transfers,
           \A q \in Rank : q # r =>
              /\ pass'[q] = pass[q] /\ split'[q] = split[q] /\ step'[q] = step[q]
              /\ flush'[q] = flush[q] /\ todo'[q] = todo[q],
           \A e \in dep.conns : r \in RanksInRoute(e) =>
              \A p \in DOMAIN Passes : ServedIn(r, e, p)' = ServedIn(r, e, p)
    PROVE  TransfersCounted'
<1> SUFFICES ASSUME NEW e \in dep.conns, NEW q \in RanksInRoute(e),
                    NEW p \in DOMAIN Passes
             PROVE  transfers[p][e] = ServedIn(q, e, p)'
  BY DEF TransfersCounted, RanksInRoute
<1>1. q \in Rank /\ transfers[p][e] = ServedIn(q, e, p)
  BY RouteRanks DEF CountInv, TransfersCounted, ControlInv, TypeOK
<1>2. CASE q = r
  <2>1. ServedIn(r, e, p)' = ServedIn(r, e, p)
    BY <1>2
  <2> QED
    BY <1>1, <1>2, <2>1, Zenon
<1>3. CASE q # r
  <2>1. /\ pass'[q] = pass[q] /\ split'[q] = split[q] /\ step'[q] = step[q]
        /\ flush'[q] = flush[q] /\ todo'[q] = todo[q]
    BY <1>1, <1>3
  <2> QED
    BY <1>1, <2>1, ServedFrame
<1> QED
  BY <1>2, <1>3

\* Running the driver moves no value: the counts stand.
LEMMA CountRunDriver ==
    ASSUME CountInv, NEW r \in Rank, RunDriver(r)
    PROVE  TransfersCounted'
<1> USE DEF CountInv
<1>1. /\ Running(r) /\ step[r] = "recv" /\ todo[r] = {} /\ flush[r] = 0
      /\ split[r] \in Nat /\ pass[r] \in DOMAIN Passes
  BY RunningPass DEF RunDriver, Received, ControlInv, ControlState, InCompute, TypeOK
<1>2. /\ dep' = dep /\ transfers' = transfers /\ pass' = pass /\ split' = split
      /\ flush' = flush /\ step'[r] = "send" /\ todo'[r] = SendsOf(r, 0)
  BY DEF RunDriver, ControlInv, TypeOK
<1>3. \A q \in Rank : q # r => step'[q] = step[q] /\ todo'[q] = todo[q]
  BY DEF RunDriver, ControlInv, TypeOK
<1>4. ASSUME NEW e \in dep.conns, r \in RanksInRoute(e), NEW p \in DOMAIN Passes
      PROVE  ServedIn(r, e, p)' = ServedIn(r, e, p)
  <2>1. ASSUME e \in Routes(p), p = pass[r] PROVE Served(r, e)' = Served(r, e)
    <3>1. /\ getDelay(e, pass[r])' = getDelay(e, p)
          /\ (dep.alloc[DestGraph(e, pass[r])])' = dep.alloc[DestGraph(e, p)]
      BY <1>2, <2>1 DEF getDelay, GraphOrder, SourceGraph, DestGraph, IsBwd
    <3>2. getDelay(e, p) \in Nat
      BY <2>1, DelayBounds DEF ControlInv, TypeOK
    <3>3. CASE r \in dep.alloc[DestGraph(e, p)]
      BY <1>1, <1>2, <2>1, <3>1, <3>3 DEF Served
    <3>4. CASE r \notin dep.alloc[DestGraph(e, p)]
      <4>1. r \in dep.alloc[SourceGraph(e, p)]
        BY <1>4, <3>4 DEF RanksInRoute, SourceGraph, DestGraph
      <4>2. e \in SendsOf(r, 0) <=> split[r] - getDelay(e, p) >= 0
        BY <1>1, <2>1, <3>2, <4>1 DEF SendsOf, SendRoutes
      <4> QED
        BY <1>1, <1>2, <2>1, <3>1, <3>2, <3>4, <4>2 DEF Served
    <3> QED
      BY <3>3, <3>4
  <2> QED
    BY <1>2, <2>1 DEF ServedIn, Routes, IsBwd, ActualPipelineNum
<1> QED
  BY <1>2, <1>3, <1>4, CountLocal

\* The flush at the end of a pass makes every delayed send due once.
LEMMA CountFlush ==
    ASSUME CountInv, NEW r \in Rank, Flush(r)
    PROVE  TransfersCounted'
<1> USE DEF CountInv
<1>1. /\ Running(r) /\ step[r] = "send" /\ todo[r] = {} /\ flush[r] \in Nat
      /\ split[r] \in Nat /\ pass[r] \in DOMAIN Passes
  BY RunningPass DEF Flush, ControlInv, TypeOK
<1>2. /\ dep' = dep /\ transfers' = transfers /\ pass' = pass /\ split' = split
      /\ step' = step /\ flush'[r] = flush[r] + 1
      /\ todo'[r] = SendsOf(r, flush[r] + 1)
  BY DEF Flush, ControlInv, TypeOK
<1>3. \A q \in Rank : q # r => flush'[q] = flush[q] /\ todo'[q] = todo[q]
  BY DEF Flush, ControlInv, TypeOK
<1>4. ASSUME NEW e \in dep.conns, r \in RanksInRoute(e), NEW p \in DOMAIN Passes
      PROVE  ServedIn(r, e, p)' = ServedIn(r, e, p)
  <2>1. ASSUME e \in Routes(p), p = pass[r] PROVE Served(r, e)' = Served(r, e)
    <3>1. /\ getDelay(e, pass[r])' = getDelay(e, p)
          /\ (dep.alloc[DestGraph(e, pass[r])])' = dep.alloc[DestGraph(e, p)]
      BY <1>2, <2>1 DEF getDelay, GraphOrder, SourceGraph, DestGraph, IsBwd
    <3>2. getDelay(e, p) \in Nat
      BY <2>1, DelayBounds DEF ControlInv, TypeOK
    <3>3. CASE r \in dep.alloc[DestGraph(e, p)]
      BY <1>1, <1>2, <2>1, <3>1, <3>3 DEF Served
    <3>4. CASE r \notin dep.alloc[DestGraph(e, p)]
      <4>1. r \in dep.alloc[SourceGraph(e, p)]
        BY <1>4, <3>4 DEF RanksInRoute, SourceGraph, DestGraph
      <4>2. e \in SendsOf(r, flush[r] + 1) <=>
               /\ getDelay(e, p) >= flush[r] + 1
               /\ split[r] + (flush[r] + 1) - getDelay(e, p) >= 0
        BY <1>1, <2>1, <3>2, <4>1 DEF SendsOf, SendRoutes
      <4>3. CASE getDelay(e, p) >= flush[r] + 1
        BY <1>1, <1>2, <2>1, <3>1, <3>2, <3>4, <4>2, <4>3 DEF Served
      <4>4. CASE getDelay(e, p) <= flush[r]
        BY <1>1, <1>2, <2>1, <3>1, <3>2, <3>4, <4>2, <4>4 DEF Served
      <4> QED
        BY <1>1, <3>2, <4>3, <4>4
    <3> QED
      BY <3>3, <3>4
  <2> QED
    BY <1>2, <2>1 DEF ServedIn, Routes, IsBwd, ActualPipelineNum
<1> QED
  BY <1>2, <1>3, <1>4, CountLocal

\* The next split starts when the routes of this one have been used once each.
LEMMA CountNextSplit ==
    ASSUME CountInv, NEW r \in Rank, NextSplit(r)
    PROVE  TransfersCounted'
<1> USE DEF CountInv
<1>1. /\ Running(r) /\ step[r] = "send" /\ todo[r] = {} /\ flush[r] \in Nat
      /\ split[r] \in Nat /\ pass[r] \in DOMAIN Passes /\ InCompute(r)
      /\ split[r] + 1 < ActualPipelineNum(pass[r]) /\ pass[r] <= Len(Passes)
  BY RunningPass DEF NextSplit, SplitServed, ControlInv, ControlState, TypeOK, Running
<1>2. flush[r] = 0
  <2>1. /\ ActualPipelineNum(pass[r]) = dep.pipeline_num
        /\ ActualPipelineNum(pass[r]) \in Nat
    BY <1>1, SplitNumber DEF ControlInv, TypeOK
  <2> QED
    BY <1>1, <2>1 DEF InCompute, LastSplit
<1>3. /\ dep' = dep /\ transfers' = transfers /\ pass'[r] = pass[r]
      /\ split'[r] = split[r] + 1 /\ step'[r] = "recv" /\ flush'[r] = 0
      /\ todo'[r] = RecvRoutes(r, pass[r])
  BY <1>1 DEF NextSplit, StartSplit, ControlInv, TypeOK
<1>4. \A q \in Rank : q # r =>
         /\ pass'[q] = pass[q] /\ split'[q] = split[q] /\ step'[q] = step[q]
         /\ flush'[q] = flush[q] /\ todo'[q] = todo[q]
  BY DEF NextSplit, StartSplit, ControlInv, TypeOK
<1>5. ASSUME NEW e \in dep.conns, r \in RanksInRoute(e), NEW p \in DOMAIN Passes
      PROVE  ServedIn(r, e, p)' = ServedIn(r, e, p)
  <2>1. ASSUME e \in Routes(p), p = pass[r] PROVE Served(r, e)' = Served(r, e)
    <3>1. /\ getDelay(e, pass[r])' = getDelay(e, p)
          /\ (dep.alloc[DestGraph(e, pass[r])])' = dep.alloc[DestGraph(e, p)]
      BY <1>3, <2>1 DEF getDelay, GraphOrder, SourceGraph, DestGraph, IsBwd
    <3>2. getDelay(e, p) \in Nat
      BY <2>1, DelayBounds DEF ControlInv, TypeOK
    <3>3. CASE r \in dep.alloc[DestGraph(e, p)]
      <4>1. e \in todo'[r]
        BY <1>3, <2>1, <3>3 DEF RecvRoutes
      <4> QED
        BY <1>1, <1>3, <2>1, <3>1, <3>3, <4>1 DEF Served
    <3>4. CASE r \notin dep.alloc[DestGraph(e, p)]
      BY <1>1, <1>2, <1>3, <2>1, <3>1, <3>2, <3>4 DEF Served
    <3> QED
      BY <3>3, <3>4
  <2> QED
    BY <1>3, <2>1 DEF ServedIn, Routes, IsBwd, ActualPipelineNum
<1> QED
  BY <1>3, <1>4, <1>5, CountLocal

\* At the end of a pass a rank has been through all splits of all its
\* connections.
LEMMA PassServedCount ==
    ASSUME CountInv, NEW r \in Rank, PassServed(r),
           NEW e \in Routes(pass[r]), r \in RanksInRoute(e)
    PROVE  Served(r, e) = ActualPipelineNum(pass[r])
<1> USE DEF CountInv
<1>1. /\ Running(r) /\ step[r] = "send" /\ todo[r] = {} /\ flush[r] \in Nat
      /\ split[r] \in Nat /\ pass[r] \in DOMAIN Passes
      /\ split[r] + 1 = ActualPipelineNum(pass[r])
  BY RunningPass DEF PassServed, SplitServed, ControlInv, TypeOK
<1>2. ActualPipelineNum(pass[r]) = dep.pipeline_num
  BY <1>1, SplitNumber DEF ControlInv, TypeOK
<1>3. flush[r] = getMaxDelay(pass[r])
  BY <1>1, <1>2 DEF PassServed, SplitServed, LastSplit
<1>4. getDelay(e, pass[r]) \in Nat /\ getDelay(e, pass[r]) <= flush[r]
  BY <1>1, <1>3, DelayBounds DEF ControlInv, TypeOK
<1> QED
  BY <1>1, <1>4 DEF Served

\* A pass ends when each of its routes has been used once per split.
LEMMA CountNextPass ==
    ASSUME CountInv, NEW r \in Rank, NextPass(r)
    PROVE  TransfersCounted'
<1> USE DEF CountInv
<1>1. /\ PassServed(r) /\ Running(r) /\ pass[r] \in DOMAIN Passes
      /\ DOMAIN Passes = 1..Len(Passes) /\ Len(Passes) \in Nat /\ pass[r] \in Nat
  BY RunningPass, PassesAssumption DEF NextPass, PassServed, SplitServed, ControlInv
<1>2. /\ dep' = dep /\ transfers' = transfers /\ pass'[r] = pass[r] + 1
      /\ split'[r] = 0 /\ step'[r] = "recv" /\ flush'[r] = 0
      /\ todo'[r] = IF pass[r] + 1 <= Len(Passes) THEN RecvRoutes(r, pass[r] + 1)
                                                  ELSE {}
  BY DEF NextPass, StartSplit, ControlInv, TypeOK
<1>3. \A q \in Rank : q # r =>
         /\ pass'[q] = pass[q] /\ split'[q] = split[q] /\ step'[q] = step[q]
         /\ flush'[q] = flush[q] /\ todo'[q] = todo[q]
  BY DEF NextPass, StartSplit, ControlInv, TypeOK
<1>4. ASSUME NEW e \in dep.conns, r \in RanksInRoute(e), NEW p \in DOMAIN Passes
      PROVE  ServedIn(r, e, p)' = ServedIn(r, e, p)
  <2>1. /\ (e \in Routes(p))' <=> e \in Routes(p)
        /\ ActualPipelineNum(p)' = ActualPipelineNum(p)
    BY <1>2 DEF Routes, IsBwd, ActualPipelineNum
  <2>2. p \in Nat
    BY <1>1
  <2>3. CASE e \notin Routes(p)
    BY <2>1, <2>3 DEF ServedIn
  <2>4. CASE e \in Routes(p) /\ p = pass[r]
    <3>1. ServedIn(r, e, p) = ActualPipelineNum(p)
      BY <1>1, <1>4, <2>4, PassServedCount DEF ServedIn
    <3> QED
      BY <1>1, <1>2, <2>1, <2>4, <3>1 DEF ServedIn
  <2>5. CASE e \in Routes(p) /\ p = pass[r] + 1
    <3>1. Served(r, e)' = 0
      <4>1. /\ getDelay(e, pass[r])' = getDelay(e, p)
            /\ (dep.alloc[DestGraph(e, pass[r])])' = dep.alloc[DestGraph(e, p)]
        BY <1>2, <2>5 DEF getDelay, GraphOrder, SourceGraph, DestGraph, IsBwd
      <4>2. getDelay(e, p) \in Nat
        BY <2>5, DelayBounds DEF ControlInv, TypeOK
      <4>3. r \in dep.alloc[DestGraph(e, p)] => e \in todo'[r]
        BY <1>1, <1>2, <2>5 DEF RecvRoutes
      <4> QED
        BY <1>2, <4>1, <4>2, <4>3 DEF Served
    <3> QED
      BY <1>1, <1>2, <2>1, <2>2, <2>5, <3>1 DEF ServedIn
  <2>6. CASE p # pass[r] /\ p # pass[r] + 1
    BY <1>1, <1>2, <2>1, <2>2, <2>6 DEF ServedIn
  <2> QED
    BY <2>3, <2>4, <2>5, <2>6
<1> QED
  BY <1>2, <1>3, <1>4, CountLocal

\* Counts agree on every rank of a route after every step.
LEMMA CountNext == CountInv /\ [Next]_vars => CountInv'
<1> SUFFICES ASSUME CountInv, [Next]_vars PROVE CountInv'
  OBVIOUS
<1>1. ControlInv'
  BY ControlNext DEF CountInv
<1>2. FlushReached(dep)'
  <2>1. dep' = dep
    BY DEF Next, Transfer, RunDriver, Flush, NextSplit, NextPass, StartSplit,
           Terminated, vars
  <2> QED
    BY <2>1 DEF CountInv, FlushReached
<1>3. TransfersCounted'
  <2>1. ASSUME UNCHANGED vars PROVE TransfersCounted'
    <3> SUFFICES ASSUME NEW e \in dep.conns, NEW q \in RanksInRoute(e),
                        NEW p \in DOMAIN Passes
                 PROVE  transfers[p][e] = ServedIn(q, e, p)'
      BY <2>1 DEF vars, TransfersCounted, RanksInRoute
    <3>1. transfers[p][e] = ServedIn(q, e, p)
      BY DEF CountInv, TransfersCounted
    <3> QED
      BY <2>1, <3>1, ServedFrame DEF vars
  <2> QED
    BY <2>1, CountTransfer, CountRunDriver, CountFlush, CountNextSplit, CountNextPass
       DEF Next, Terminated
<1> QED
  BY <1>1, <1>2, <1>3 DEF CountInv

(***************************************************************************)
(* When every batch has at least as many rows as there are micro-batches,  *)
(* the ranks that meet in a collective mean the same transfer.             *)
(***************************************************************************)
THEOREM TransfersAgree ==
    ASSUME \A d \in Deployments : FlushReached(d)
    PROVE  Spec => []TransferAgreed
<1>1. Init => CountInv
  BY CountInit
<1>2. CountInv => TransferAgreed
  BY Meeting DEF TransferAgreed
<1> QED
  BY <1>1, <1>2, CountNext, PTL DEF Spec

(***************************************************************************)
(* Under the same condition a rank that is through with a pass has sent    *)
(* every split of every value.                                             *)
(***************************************************************************)
THEOREM NothingLeftUnsent ==
    ASSUME \A d \in Deployments : FlushReached(d)
    PROVE  Spec => []AllSplitsSent
<1>1. Init => CountInv
  BY CountInit
<1>2. CountInv => AllSplitsSent
  <2> SUFFICES ASSUME CountInv, NEW r \in Rank, PassServed(r),
                      NEW c \in SendRoutes(r, pass[r])
               PROVE  transfers[pass[r]][c] = ActualPipelineNum(pass[r])
    BY DEF AllSplitsSent
  <2>1. /\ c \in Routes(pass[r]) /\ c \in dep.conns /\ r \in RanksInRoute(c)
    BY DEF SendRoutes, Routes, RanksInRoute, SourceGraph
  <2>2. pass[r] \in DOMAIN Passes /\ pass[r] \in Nat
    BY RunningPass, PassesAssumption DEF PassServed, SplitServed, CountInv, ControlInv
  <2>3. transfers[pass[r]][c] = Served(r, c)
    BY <2>1, <2>2 DEF CountInv, TransfersCounted, ServedIn
  <2> QED
    BY <2>1, <2>3, PassServedCount
<1> QED
  BY <1>1, <1>2, CountNext, PTL DEF Spec

-----------------------------------------------------------------------------
(***************************************************************************)
(* The pipeline implements Dataflow: RunDriver is its Run, every other     *)
(* step leaves the position of all ranks as it is.                         *)
(***************************************************************************)

\* A source rank that was through k + 1 transfers has run split k.
LEMMA SourceHasRun ==
    ASSUME CountInv, NEW c \in dep.conns, NEW p \in DOMAIN Passes, NEW k \in Nat,
           c \in Routes(p), transfers[p][c] = k + 1,
           NEW q \in dep.alloc[SourceGraph(c, p)]
    PROVE  \/ DataflowPosition(q)[1] > p
           \/ DataflowPosition(q)[1] = p /\ DataflowPosition(q)[2] > k
<1> USE DEF CountInv
<1>1. q \in RanksInRoute(c) /\ q \in Rank /\ q \notin dep.alloc[DestGraph(c, p)]
  BY RouteRanks DEF RanksInRoute, SourceGraph, DestGraph, ControlInv, TypeOK
<1>2. ServedIn(q, c, p) = k + 1
  BY <1>1 DEF TransfersCounted
<1>3. /\ pass[q] \in Nat /\ p \in Nat /\ split[q] \in Nat /\ flush[q] \in Nat
      /\ step[q] \in {"recv", "send"} /\ p <= Len(Passes)
  BY <1>1, PassesAssumption DEF ControlInv, TypeOK
<1>4. ~(pass[q] < p)
  BY <1>2 DEF ServedIn
<1>5. CASE pass[q] > p
  BY <1>3, <1>5 DEF DataflowPosition
<1>6. CASE pass[q] = p
  <2>1. Served(q, c) = k + 1 /\ Running(q)
    BY <1>2, <1>3, <1>6 DEF ServedIn, Running
  <2>2. getDelay(c, p) \in Nat
    BY DelayBounds DEF ControlInv, TypeOK
  <2>3. CASE step[q] = "recv"
    <3>1. split[q] > k
      BY <1>1, <1>3, <1>6, <2>1, <2>2, <2>3 DEF Served
    <3> QED
      BY <1>6, <2>3, <3>1 DEF DataflowPosition
  <2>4. CASE step[q] = "send"
    <3>1. split[q] >= k
      BY <1>1, <1>3, <1>6, <2>1, <2>2, <2>4 DEF Served
    <3> QED
      BY <1>3, <1>6, <2>1, <2>4, <3>1 DEF DataflowPosition
  <2> QED
    BY <1>3, <2>3, <2>4
<1> QED
  BY <1>3, <1>4, <1>5, <1>6

\* The initial states are initial states of the data flow.
LEMMA RefinementInit == Init => Abstract!Init
<1> SUFFICES ASSUME Init PROVE Abstract!Init
  OBVIOUS
<1>1. \A r \in Rank : DataflowPosition(r) = <<1, 0>>
  BY DEF Init, DataflowPosition
<1> QED
  BY <1>1 DEF Init, Abstract!Init

\* Running a driver is the evaluation of a subgraph in the data flow.
LEMMA RefinementRun ==
    ASSUME CountInv, NEW r \in Rank, RunDriver(r)
    PROVE  Abstract!Run(r)
<1> USE DEF CountInv
<1> DEFINE at == [q \in Rank |-> DataflowPosition(q)]
           p == pass[r]
           k == split[r]
<1>1. /\ Running(r) /\ step[r] = "recv" /\ todo[r] = {} /\ k \in Nat
      /\ p \in DOMAIN Passes /\ p <= Len(Passes) /\ p \in Nat
  BY RunningPass, PassesAssumption
     DEF RunDriver, Received, ControlInv, TypeOK, Running
<1>2. at[r] = <<p, k>>
  BY <1>1 DEF DataflowPosition
<1>3. /\ dep' = dep /\ pass' = pass /\ split' = split /\ step'[r] = "send"
      /\ \A q \in Rank : q # r => step'[q] = step[q]
  BY DEF RunDriver, ControlInv, TypeOK
<1>4. ASSUME NEW g \in DOMAIN dep.alloc, r \in dep.alloc[g],
             NEW h \in Abstract!Upstream(g, p), NEW q \in dep.alloc[h]
      PROVE  Abstract!HasRun(q, p, k)
  <2>1. PICK c \in Routes(p) : DestGraph(c, p) = g /\ SourceGraph(c, p) = h
    BY <1>4 DEF Abstract!Upstream, Routes, DestGraph, SourceGraph, IsBwd
  <2>2. c \in dep.conns /\ r \in RanksInRoute(c)
    BY <1>4, <2>1 DEF Routes, RanksInRoute, DestGraph
  <2>3. transfers[p][c] = k + 1
    <3>1. Served(r, c) = k + 1
      BY <1>1, <1>4, <2>1 DEF Served
    <3> QED
      BY <1>1, <2>1, <2>2, <3>1 DEF TransfersCounted, ServedIn
  <2>4. q \in Rank
    BY <1>4, <2>1, <2>2, RouteRanks DEF SourceGraph, ControlInv, TypeOK
  <2>5. \/ DataflowPosition(q)[1] > p
        \/ DataflowPosition(q)[1] = p /\ DataflowPosition(q)[2] > k
    BY <1>1, <1>4, <2>1, <2>2, <2>3, SourceHasRun
  <2> QED
    BY <2>4, <2>5 DEF Abstract!HasRun
<1>5. at' = [at EXCEPT ![r] = IF k + 1 < Abstract!SplitNum(p) THEN <<p, k + 1>>
                              ELSE <<p + 1, 0>>]
  <2>1. \A q \in Rank : q # r => DataflowPosition(q)' = DataflowPosition(q)
    BY <1>3 DEF DataflowPosition, Running, ActualPipelineNum
  <2>2. DataflowPosition(r)' = IF k + 1 < Abstract!SplitNum(p) THEN <<p, k + 1>>
                               ELSE <<p + 1, 0>>
    BY <1>1, <1>3 DEF DataflowPosition, Running, ActualPipelineNum,
                      Abstract!SplitNum
  <2> QED
    BY <2>1, <2>2
<1>6. at[r][1] = p /\ at[r][2] = k
  BY <1>2
<1>7. \A g \in DOMAIN dep.alloc : r \in dep.alloc[g] =>
         \A h \in Abstract!Upstream(g, at[r][1]) : \A q \in dep.alloc[h] :
            Abstract!HasRun(q, at[r][1], at[r][2])
  BY <1>4, <1>6, Zenon
<1>8. at' = [at EXCEPT ![r] =
                IF at[r][2] + 1 < Abstract!SplitNum(at[r][1])
                THEN <<at[r][1], at[r][2] + 1>> ELSE <<at[r][1] + 1, 0>>]
  BY <1>5, <1>6, Zenon
<1>9. at[r][1] <= Len(Passes)
  BY <1>1, <1>6
<1> HIDE DEF at
<1> QED
  BY <1>3, <1>7, <1>8, <1>9 DEF Abstract!Run, at

\* Every step is a step of the data flow or leaves it as it is.
LEMMA RefinementNext ==
    ASSUME CountInv, [Next]_vars
    PROVE  Abstract!Next \/ UNCHANGED <<dep, [r \in Rank |-> DataflowPosition(r)]>>
<1> USE DEF CountInv
<1>1. SUFFICES ASSUME ~\E r \in Rank : RunDriver(r)
               PROVE  /\ dep' = dep
                      /\ \A q \in Rank : DataflowPosition(q)' = DataflowPosition(q)
  BY RefinementRun DEF Abstract!Next
<1>2. ASSUME dep' = dep, pass' = pass, split' = split, step' = step
      PROVE  \A q \in Rank : DataflowPosition(q)' = DataflowPosition(q)
  BY <1>2 DEF DataflowPosition, Running, ActualPipelineNum
<1>3. CASE \E c \in dep.conns : Transfer(c)
  BY <1>2, <1>3 DEF Transfer
<1>4. CASE \E r \in Rank : Flush(r)
  BY <1>2, <1>4 DEF Flush
<1>5. ASSUME NEW r \in Rank, NEW p, NEW k, StartSplit(r, p, k),
             DataflowPosition(r) = <<p, k>>
      PROVE  /\ dep' = dep
             /\ \A q \in Rank : DataflowPosition(q)' = DataflowPosition(q)
  <2>1. dep' = dep
    BY <1>5 DEF StartSplit
  <2>2. ASSUME NEW q \in Rank PROVE DataflowPosition(q)' = DataflowPosition(q)
    <3>1. CASE q = r
      <4>1. step'[q] = "recv" /\ pass'[q] = p /\ split'[q] = k
        BY <1>5, <3>1 DEF StartSplit, ControlInv, TypeOK
      <4> QED
        BY <1>5, <3>1, <4>1 DEF DataflowPosition
    <3>2. CASE q # r
      <4>1. step'[q] = step[q] /\ pass'[q] = pass[q] /\ split'[q] = split[q]
        BY <1>5, <3>2 DEF StartSplit, ControlInv, TypeOK
      <4> QED
        BY <2>1, <4>1 DEF DataflowPosition, Running, ActualPipelineNum
    <3> QED
      BY <3>1, <3>2
  <2> QED
    BY <2>1, <2>2
<1>6. ASSUME NEW r \in Rank, NextSplit(r)
      PROVE  /\ dep' = dep
             /\ \A q \in Rank : DataflowPosition(q)' = DataflowPosition(q)
  <2>1. DataflowPosition(r) = <<pass[r], split[r] + 1>>
    BY <1>6 DEF NextSplit, SplitServed, DataflowPosition
  <2>2. StartSplit(r, pass[r], split[r] + 1)
    BY <1>6 DEF NextSplit
  <2> QED
    BY <1>5, <2>1, <2>2
<1>7. ASSUME NEW r \in Rank, NextPass(r)
      PROVE  /\ dep' = dep
             /\ \A q \in Rank : DataflowPosition(q)' = DataflowPosition(q)
  <2>1. DataflowPosition(r) = <<pass[r] + 1, 0>>
    BY <1>7 DEF NextPass, PassServed, SplitServed, DataflowPosition, ControlInv, TypeOK
  <2>2. StartSplit(r, pass[r] + 1, 0)
    BY <1>7 DEF NextPass
  <2> QED
    BY <1>5, <2>1, <2>2
<1>8. CASE UNCHANGED vars
  BY <1>2, <1>8 DEF vars
<1> QED
  BY <1>1, <1>3, <1>4, <1>6, <1>7, <1>8 DEF Next, Terminated

(***************************************************************************)
(* When every batch has at least as many rows as there are micro-batches,  *)
(* the pipeline with its routes, delays and blocking transfers implements  *)
(* Dataflow: ranks run the splits in order, none before its inputs.        *)
(***************************************************************************)
THEOREM PipelineImplementsDataflow ==
    ASSUME \A d \in Deployments : FlushReached(d)
    PROVE  Spec => ImplementsDataflow
<1>1. Init => CountInv
  BY CountInit
<1>2. Spec => []CountInv
  BY <1>1, CountNext, PTL DEF Spec
<1>3. CountInv /\ [Next]_vars =>
         [Abstract!Next]_<<dep, [r \in Rank |-> DataflowPosition(r)]>>
  BY RefinementNext
<1> QED
  BY <1>2, <1>3, RefinementInit, PTL DEF Spec, ImplementsDataflow, Abstract!Spec

=============================================================================
