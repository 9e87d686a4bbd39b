------------------------------ MODULE GradSync ------------------------------
(***************************************************************************)
(* Gradients of a deployed model over a sequence of training calls: the    *)
(* scaling before and after a backward pass unless skip_grad_scaling is    *)
(* set, as by default (Backward.cpp, Config.cpp), the all-reduce among the *)
(* ranks that hold a parameter, immediate or delayed, and the sharding of  *)
(* gradients with enable_zero (ParamStorage.cpp,                           *)
(* DistributedGradLocator.cpp).                                            *)
(*                                                                         *)
(* All ranks run one program of calls, each at its own pace; they meet     *)
(* only in collectives.  A gradient is followed by its weights: how often  *)
(* it counts what each rank computed in each backward pass, a fraction.    *)
(* What a pass computes on a rank is the rank's part of the gradient of    *)
(* the whole batch, so the right weight of every part is 1.                *)
(***************************************************************************)
EXTENDS Redist

CONSTANTS
    Rank,       \* the MPI ranks
    Jobs,       \* the deployments and programs considered, see JobsAssumption
    Tag(_)      \* getRankSetTag: a number per rank set, the same on every rank

ASSUME RankAssumption == IsFiniteSet(Rank) /\ Rank # {} /\ Rank \subseteq Nat

\* TagMap::generate never gives two rank sets the same tag (see Deploy).
ASSUME TagAssumption ==
    /\ \A g \in SUBSET Rank : Tag(g) \in Nat
    /\ \A g, h \in SUBSET Rank : Tag(g) = Tag(h) => g = h

ASSUME JobsAssumption ==
    \A j \in Jobs :
        /\ \A s \in DOMAIN j.ranks : j.ranks[s] \in (SUBSET Rank) \ {{}}
        /\ \A p \in DOMAIN j.users :
            /\ j.users[p] \subseteq DOMAIN j.ranks
            /\ j.users[p] # {}
            \* ParamStorage::deploy: "Parameter sharing among graphs on the
            \* same rank is not allowed"
            /\ \A s, t \in j.users[p] : s # t => j.ranks[s] \cap j.ranks[t] = {}
        /\ j.pipeline_num \in Nat \ {0}
        /\ {j.delay, j.zero, j.sync_allreduce, j.skip_grad_scaling} \subseteq BOOLEAN
        /\ j.program \in Seq([op: {"forward", "backward", "allreduce_grads",
                                   "zero_grad", "step", "norm"},
                              batch: Nat \ {0}])

VARIABLES
    job,            \* the deployment and the program
    at,             \* rank -> the call of the program it is in or will make
    stage,          \* rank -> how far it is in that call
    turn,           \* rank -> index in sortCommTags, while it walks the groups
    batch_size_,    \* rank -> SComm::batch_size_, left by the last pass
    grad,           \* rank -> parameter -> segment -> weights, or Undefined
    param,          \* rank -> parameter -> segment -> optimizer steps in it
    norm            \* the result of the last calcGradGlobalL2Norm

vars == <<job, at, stage, turn, batch_size_, grad, param, norm>>

-----------------------------------------------------------------------------
(* Fractions <<numerator, denominator>>; a zero denominator is inf or NaN. *)

Fraction(n, d) ==
    CASE d = 0 -> <<IF n = 0 THEN 0 ELSE 1, 0>>
      [] n = 0 -> <<0, 1>>
      [] OTHER -> LET g == Max({k \in 1..Min({n, d}) : n % k = 0 /\ d % k = 0})
                  IN  <<n \div g, d \div g>>

Times(x, y)   == Fraction(x[1] * y[1], x[2] * y[2])
Reciprocal(x) == Fraction(x[2], x[1])

\* The sum of the fractions f[i], over a common denominator.
Total(f) ==
    LET d == FoldFunction(LAMBDA m, n : m * n, 1, [i \in DOMAIN f |-> f[i][2]])
    IN  IF d = 0 THEN Fraction(1, 0)
        ELSE Fraction(SumFunction([i \in DOMAIN f |-> f[i][1] * (d \div f[i][2])]), d)

Zero == <<0, 1>>
One  == <<1, 1>>
NaN  == <<0, 0>>

-----------------------------------------------------------------------------
(* The deployed parameters. *)

Params == DOMAIN job.users

\* ranks_: every rank of every subgraph that uses p.
ranks_(p) == UNION {job.ranks[s] : s \in job.users[p]}

ParamsOn(r) == {p \in Params : r \in ranks_(p)}

\* my_param_ranks_: the ranks of the subgraph that uses p on rank r.
my_param_ranks_(r, p) ==
    job.ranks[CHOOSE s \in job.users[p] : r \in job.ranks[s]]

\* doRegister: with enable_zero a parameter has one segment per rank; the
\* i-th belongs to the i-th rank (getOwner, the roots of reduce and bcast).
Segments(p) == IF job.zero THEN 1..Cardinality(ranks_(p)) ELSE {1}

Owner(p, i) == CHOOSE r \in ranks_(p) : Position(r, ranks_(p)) = i - 1

\* getLocalParamSegment: with zero the optimizer of a rank has its segment
\* only; without, the whole parameter.
Uses(r, p, i) == job.zero => Owner(p, i) = r

\* grouped_params_: the parameters with one rank set are reduced together.
Groups == {ranks_(p) : p \in Params}

grouped_params_(g) == {p \in Params : ranks_(p) = g}

\* Mutant of the next definition: every rank walks its groups in an order of
\* its own.
Before_Local(r, g, h) == IF r % 2 = 0 THEN Tag(g) < Tag(h) ELSE Tag(g) > Tag(h)

\* sortCommTags on rank r: smaller groups first, then by tag (std::sort keeps
\* the order of up to 16 tags that it gets sorted).
Before(r, g, h) ==
    \/ Cardinality(g) < Cardinality(h)
    \/ Cardinality(g) = Cardinality(h) /\ Tag(g) < Tag(h)

sortCommTags(r, n) ==
    CHOOSE g \in Groups : Cardinality({h \in Groups : Before(r, h, g)}) = n - 1

-----------------------------------------------------------------------------
(* The program and the rows of a pass. *)

Call(r) == job.program[at[r]]

Running(r) == at[r] <= Len(job.program)

In(r, op, st) == Running(r) /\ Call(r).op = op /\ stage[r] = st

\* compute(): the micro-batches of a batch.
Pipeline(b) == IF job.pipeline_num > b THEN b ELSE job.pipeline_num

LastSplitSize(b) == SplitBatchSizes(b, Pipeline(b))[Pipeline(b) - 1]

\* Mutant of the next definition: a later micro-batch clears the gradient.
HasRows_LastSplit(b, S, r) == RankBatchSizes(LastSplitSize(b), S, Pipeline(b) - 1)[r] > 0

\* Does rank r get a row of some micro-batch?  Without one, its part of the
\* subgraph is never run in the pass.
HasRows(b, S, r) ==
    \E i \in 0..(Pipeline(b) - 1) :
        RankBatchSizes(SplitBatchSizes(b, Pipeline(b))[i], S, i)[r] > 0

Backwards == {n \in DOMAIN job.program : job.program[n].op = "backward"}

Undefined == << >>

NoGrad(p) == [c \in Backwards \X ranks_(p) |-> Zero]

Scaled(g, x) ==
    IF g = Undefined THEN g
    ELSE [i \in DOMAIN g |-> [c \in DOMAIN g[i] |-> Times(g[i][c], x)]]

\* getDpRatio with the batch size of the last micro-batch.
getDpRatio(r, p) ==
    Fraction(RankBatchSizes(batch_size_[r], my_param_ranks_(r, p), 0)[r],
             batch_size_[r])

\* doScaleGrads: every gradient of the rank.
scaleGrads(r) ==
    [p \in ParamsOn(r) |-> Scaled(grad[r][p], getDpRatio(r, p))]

unscaleGrads(r) ==
    [p \in ParamsOn(r) |-> Scaled(grad[r][p], Reciprocal(getDpRatio(r, p)))]

-----------------------------------------------------------------------------
Init ==
    /\ job \in Jobs
    /\ at = [r \in Rank |-> 1]
    /\ stage = [r \in Rank |-> "call"]
    /\ turn = [r \in Rank |-> 0]
    /\ batch_size_ = [r \in Rank |-> 0]
    /\ grad = [r \in Rank |-> [p \in ParamsOn(r) |-> Undefined]]
    /\ param = [r \in Rank |-> [p \in ParamsOn(r) |-> [i \in Segments(p) |-> 0]]]
    /\ norm = << >>

Goto(r, st) == stage' = [stage EXCEPT ![r] = st]

Return(r) ==
    /\ Goto(r, "call")
    /\ at' = [at EXCEPT ![r] = @ + 1]

EnterLoop(r, st) ==
    /\ Goto(r, st)
    /\ turn' = [turn EXCEPT ![r] = 1]

\* GraphLauncher::forward starts; with zero it first fetches the segments of
\* the other ranks (bcastParamsZero).
Forward(r) ==
    /\ In(r, "forward", "call")
    /\ IF job.zero THEN EnterLoop(r, "bcast")
                   ELSE Goto(r, "run") /\ UNCHANGED turn
    /\ UNCHANGED <<job, at, batch_size_, grad, param, norm>>

\* ... computes, and leaves the size of the last micro-batch in SComm.
ForwardCompute(r) ==
    /\ In(r, "forward", "run")
    /\ batch_size_' = [batch_size_ EXCEPT ![r] = LastSplitSize(Call(r).batch)]
    /\ Return(r)
    /\ UNCHANGED <<job, turn, grad, param, norm>>

\* What scaling makes of the gradients, if it is not skipped.
GradsAfter(r, scaled) ==
    grad' = IF job.skip_grad_scaling THEN grad ELSE [grad EXCEPT ![r] = scaled]

\* RaNNCTensorBackward::apply starts: scaleGrads.
Backward(r) ==
    /\ In(r, "backward", "call")
    /\ GradsAfter(r, scaleGrads(r))
    /\ Goto(r, "run")
    /\ UNCHANGED <<job, at, turn, batch_size_, param, norm>>

\* driver_->backward: autograd adds this rank's part of the gradient.
BackwardCompute(r) ==
    /\ In(r, "backward", "run")
    /\ LET b == Call(r).batch
           old(p) == IF grad[r][p] = Undefined
                     THEN [i \in Segments(p) |-> NoGrad(p)] ELSE grad[r][p]
           new(p) == [i \in Segments(p) |->
                        [old(p)[i] EXCEPT ![<<at[r], r>>] = One]]
       IN  /\ grad' = [grad EXCEPT ![r] =
                 [p \in ParamsOn(r) |->
                    IF HasRows(b, my_param_ranks_(r, p), r) THEN new(p)
                    ELSE grad[r][p]]]
           /\ batch_size_' = [batch_size_ EXCEPT ![r] = LastSplitSize(b)]
    /\ IF job.delay THEN Goto(r, "unscale") /\ UNCHANGED turn
                    ELSE EnterLoop(r, "reduce")
    /\ UNCHANGED <<job, at, param, norm>>

\* Mutant of the next definition: the scaling is left as it is.
BackwardUnscale_Dropped(r) ==
    /\ In(r, "backward", "unscale")
    /\ Return(r)
    /\ UNCHANGED <<job, turn, batch_size_, grad, param, norm>>

\* apply() with delay_grad_allreduce: unscaleGrads instead of an all-reduce.
BackwardUnscale(r) ==
    /\ In(r, "backward", "unscale")
    /\ GradsAfter(r, unscaleGrads(r))
    /\ Return(r)
    /\ UNCHANGED <<job, turn, batch_size_, param, norm>>

\* RaNNCModule::allReduceParamGrads: scaleGrads, then the all-reduce.
AllReduceGrads(r) ==
    /\ In(r, "allreduce_grads", "call")
    /\ GradsAfter(r, scaleGrads(r))
    /\ EnterLoop(r, "reduce")
    /\ UNCHANGED <<job, at, batch_size_, param, norm>>

-----------------------------------------------------------------------------
(* ParamStorage::allReduceParamGrads and bcastParamsZero: a walk over the  *)
(* groups of parameters.                                                   *)

InLoop(r, st) == stage[r] = st /\ turn[r] <= Cardinality(Groups)

Group(r) == sortCommTags(r, turn[r])

Arrived(g, st) == \A r \in g : InLoop(r, st) /\ Group(r) = g

\* The gradients rank r brings: with zero all of them, else the defined ones.
Brought(r, g) ==
    IF job.zero THEN grouped_params_(g)
    ELSE {p \in grouped_params_(g) : grad[r][p] # Undefined}

SameLists(g) == \A q, r \in g : Brought(q, g) = Brought(r, g)

\* ncclAllReduce, or ncclReduce to the owner of each segment; when the lists
\* of the ranks differ, buffers of different gradients are added up.
Reduced(r, p) ==
    IF grad[r][p] = Undefined THEN Undefined
    ELSE IF ~SameLists(ranks_(p))
    THEN [i \in Segments(p) |-> [c \in DOMAIN grad[r][p][i] |-> NaN]]
    ELSE [i \in Segments(p) |->
            IF Uses(r, p, i)
            THEN [c \in DOMAIN grad[r][p][i] |-> Total([q \in ranks_(p) |-> grad[q][p][i][c]])]
            ELSE grad[r][p][i]]

\* With SYNC_ALLREDUCE a barrier of all ranks follows every group.
NextTurn(S) ==
    IF job.sync_allreduce
    THEN /\ stage' = [r \in Rank |-> IF r \in S THEN "barrier" ELSE stage[r]]
         /\ UNCHANGED turn
    ELSE /\ turn' = [r \in Rank |-> IF r \in S THEN turn[r] + 1 ELSE turn[r]]
         /\ UNCHANGED stage

ReduceGroup(g) ==
    /\ Arrived(g, "reduce")
    /\ grad' = [r \in Rank |->
          IF r \in g
          THEN [p \in ParamsOn(r) |-> IF p \in grouped_params_(g)
                                      THEN Reduced(r, p) ELSE grad[r][p]]
          ELSE grad[r]]
    /\ NextTurn(g)
    /\ UNCHANGED <<job, at, batch_size_, param, norm>>

SkipGroup(r) ==
    /\ InLoop(r, "reduce")
    /\ r \notin Group(r)
    /\ NextTurn({r})
    /\ UNCHANGED <<job, at, batch_size_, grad, param, norm>>

Barrier ==
    /\ \A r \in Rank : stage[r] = "barrier"
    /\ stage' = [r \in Rank |-> "reduce"]
    /\ turn' = [r \in Rank |-> turn[r] + 1]
    /\ UNCHANGED <<job, at, batch_size_, grad, param, norm>>

LeaveReduce(r) ==
    /\ stage[r] = "reduce"
    /\ turn[r] > Cardinality(Groups)
    /\ Return(r)
    /\ UNCHANGED <<job, turn, batch_size_, grad, param, norm>>

\* Mutant of the next definition: the roots start with the second rank.
BcastGroup_WrongRoot(g) ==
    /\ Arrived(g, "bcast")
    /\ param' = [r \in Rank |->
          IF r \in g
          THEN [p \in ParamsOn(r) |->
                  IF p \in grouped_params_(g)
                  THEN [i \in Segments(p) |->
                          param[Owner(p, (i % Cardinality(g)) + 1)][p][i]]
                  ELSE param[r][p]]
          ELSE param[r]]
    /\ turn' = [r \in Rank |-> IF r \in g THEN turn[r] + 1 ELSE turn[r]]
    /\ UNCHANGED <<job, at, stage, batch_size_, grad, norm>>

\* bcastParamsZero: the owner of every segment sends it to the group.
BcastGroup(g) ==
    /\ Arrived(g, "bcast")
    /\ param' = [r \in Rank |->
          IF r \in g
          THEN [p \in ParamsOn(r) |->
                  IF p \in grouped_params_(g)
                  THEN [i \in Segments(p) |-> param[Owner(p, i)][p][i]]
                  ELSE param[r][p]]
          ELSE param[r]]
    /\ turn' = [r \in Rank |-> IF r \in g THEN turn[r] + 1 ELSE turn[r]]
    /\ UNCHANGED <<job, at, stage, batch_size_, grad, norm>>

SkipBcast(r) ==
    /\ InLoop(r, "bcast")
    /\ r \notin Group(r)
    /\ turn' = [turn EXCEPT ![r] = @ + 1]
    /\ UNCHANGED <<job, at, stage, batch_size_, grad, param, norm>>

LeaveBcast(r) ==
    /\ stage[r] = "bcast"
    /\ turn[r] > Cardinality(Groups)
    /\ Goto(r, "run")
    /\ UNCHANGED <<job, at, turn, batch_size_, grad, param, norm>>

-----------------------------------------------------------------------------
\* clearParamGrads: every defined gradient becomes zero.
ZeroGrad(r) ==
    /\ In(r, "zero_grad", "call")
    /\ grad' = [grad EXCEPT ![r] =
          [p \in ParamsOn(r) |->
              IF grad[r][p] = Undefined THEN Undefined
              ELSE [i \in Segments(p) |-> NoGrad(p)]]]
    /\ Return(r)
    /\ UNCHANGED <<job, turn, batch_size_, param, norm>>

\* The optimizer of the application, with the parameters RaNNC leaves it.
Step(r) ==
    /\ In(r, "step", "call")
    /\ param' = [param EXCEPT ![r] =
          [p \in ParamsOn(r) |-> [i \in Segments(p) |->
              param[r][p][i] + IF Uses(r, p, i) THEN 1 ELSE 0]]]
    /\ Return(r)
    /\ UNCHANGED <<job, turn, batch_size_, grad, norm>>

\* Mutant of the next definition: what every replica holds is added up.
CountedFor_AllRanks(p) == {r \in ranks_(p) : grad[r][p] # Undefined}

\* calcGradGlobalL2Norm: whose gradients of p enter the sum.  norms_buf keeps
\* one norm per parameter, the last rank's; with zero one per rank.
CountedFor(p) ==
    LET holders == {r \in ranks_(p) : grad[r][p] # Undefined}
    IN  IF job.zero \/ holders = {} THEN holders ELSE {Max(holders)}

Norm ==
    /\ \A r \in Rank : In(r, "norm", "call")
    /\ norm' = [p \in Params |-> {<<r, grad[r][p]>> : r \in CountedFor(p)}]
    /\ at' = [r \in Rank |-> at[r] + 1]
    /\ UNCHANGED <<job, stage, turn, batch_size_, grad, param>>

Next ==
    \/ \E r \in Rank :
        \/ Forward(r) \/ ForwardCompute(r)
        \/ Backward(r) \/ BackwardCompute(r) \/ BackwardUnscale(r)
        \/ AllReduceGrads(r) \/ SkipGroup(r) \/ LeaveReduce(r)
        \/ SkipBcast(r) \/ LeaveBcast(r)
        \/ ZeroGrad(r) \/ Step(r)
    \/ \E g \in Groups : ReduceGroup(g) \/ BcastGroup(g)
    \/ Barrier
    \/ Norm

Spec == Init /\ [][Next]_vars

-----------------------------------------------------------------------------
\* A rank is inside a call exactly as far as that call goes, walks only
\* groups that exist, and has state for its own parameters only.
TypeOK ==
    /\ at \in [Rank -> 1..(Len(job.program) + 1)]
    /\ batch_size_ \in [Rank -> Nat]
    /\ \A r \in Rank :
        /\ stage[r] \in {"call", "bcast", "run", "unscale", "reduce", "barrier"}
        /\ turn[r] \in 0..(Cardinality(Groups) + 1)
        /\ stage[r] # "call" => Running(r)
        /\ DOMAIN grad[r] = ParamsOn(r)
        /\ \A p \in ParamsOn(r) :
            /\ grad[r][p] = Undefined \/ DOMAIN grad[r][p] = Segments(p)
            /\ param[r][p] \in [Segments(p) -> Nat]

\* The backward passes rank r has run since the gradients were cleared.
Since(r) ==
    {n \in Backwards :
        n < at[r] /\ \A m \in n..(at[r] - 1) : job.program[m].op # "zero_grad"}

\* The last thing that happened to the gradients of rank r: an all-reduce?
IsReduced(r) ==
    \/ ~job.delay
    \/ \A n \in Backwards : n < at[r] =>
           \E m \in n..(at[r] - 1) : job.program[m].op = "allreduce_grads"

Works(n, p, q) == HasRows(job.program[n].batch, my_param_ranks_(q, p), q)

\* "As default, RaNNC performs allreduce of gradients soon after backward";
\* with delay_grad_allreduce the application calls allreduce_grads, "useful
\* when the gradient accumulation is used" (pyrannc/__init__.py).  Between
\* calls, once the gradients are reduced, a rank that the optimizer will use
\* the gradient of counts every rank's part of every pass since zero_grad
\* exactly once, and nothing of earlier passes: where gradients are scaled,
\* scaling, unscaling and summing in whatever order cancel out.  With
\* skip_grad_scaling (the default) nothing undoes the all-reduce of an
\* earlier pass, and the property needs each immediate all-reduce to follow
\* a zero_grad; the jobs of a run say which programs it is about.
AllReducedOnce ==
    \A r \in Rank : stage[r] = "call" /\ IsReduced(r) =>
        \A p \in ParamsOn(r) : \A i \in Segments(p) :
            Uses(r, p, i) =>
                /\ \A n \in Since(r), q \in ranks_(p) : Works(n, p, q) =>
                      grad[r][p] # Undefined /\ grad[r][p][i][<<n, q>>] = One
                /\ \A n \in Backwards \ Since(r), q \in ranks_(p) :
                      grad[r][p] = Undefined \/ grad[r][p][i][<<n, q>>] = Zero

\* The ranks of a group call ncclAllReduce with the same list of gradients,
\* although each rank leaves out those that are not defined on it.
CollectivesAgree ==
    \A g \in Groups : Arrived(g, "reduce") => SameLists(g)

\* calcGradGlobalL2Norm is the norm of the whole gradient: every segment of
\* every parameter enters once, fully reduced, whichever ranks hold copies
\* ("This method calculates norm of all distributed gradients").
NormCountsOnce ==
    \A p \in DOMAIN norm : \A i \in Segments(p) :
        LET counted == {e \in norm[p] :
                          \E c \in DOMAIN e[2][i] : e[2][i][c] # Zero}
        IN  /\ Cardinality(counted) = 1
            /\ \A e \in counted : \A c \in DOMAIN e[2][i] :
                  e[2][i][c] \in {Zero, One}

\* A forward pass reads parameters that all optimizer steps so far have
\* reached, in every segment, also those another rank owns and updates.
ForwardUsesCurrent ==
    \A r \in Rank : In(r, "forward", "run") =>
        \A p \in ParamsOn(r) : \A i \in Segments(p) :
            param[r][p][i] =
                Cardinality({n \in 1..at[r] : job.program[n].op = "step"})

CanMove(r) ==
    /\ Running(r)
    /\ stage[r] = "call" => Call(r).op # "norm"
    /\ stage[r] # "barrier"
    /\ stage[r] \in {"reduce", "bcast"} =>
          \/ turn[r] > Cardinality(Groups)
          \/ r \notin Group(r)
          \/ Arrived(Group(r), stage[r])

\* The ranks never end up waiting for each other, whatever groups overlap
\* and however far the ranks have got: as long as one of them is in its
\* program, some rank can go on, or all meet in the barrier or in the
\* collective of the norm.  (Every step brings a rank further in its finite
\* program, so all calls return.)
NoCyclicWait ==
    \/ \A r \in Rank : ~Running(r)
    \/ \E r \in Rank : CanMove(r)
    \/ \A r \in Rank : stage[r] = "barrier"
    \/ \A r \in Rank : In(r, "norm", "call")

=============================================================================
