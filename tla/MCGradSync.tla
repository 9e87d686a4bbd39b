----------------------------- MODULE MCGradSync -----------------------------
(***************************************************************************)
(* Programs of up to eleven calls on three ranks: batches of one or two    *)
(* rows per rank, one or two micro-batches, four placements of subgraphs.  *)
(***************************************************************************)
EXTENDS GradSync

CONSTANTS ga, gb, gc,   \* subgraphs
          pa, pb, pc    \* parameters

\* Any numbering of the rank sets.
RankSetTag(g) == MapThenSumSet(LAMBDA r : 2^r, g)

Op(name) == [op |-> name, batch |-> 1]

Pass(rows) == <<[op |-> "forward", batch |-> rows],
                [op |-> "backward", batch |-> rows]>>

Infer(rows) == <<[op |-> "forward", batch |-> rows]>>

\* Use of the gradients; with zero without their norm, which reads segments
\* that only their owner has reduced.
Update(zero) == (IF zero THEN << >> ELSE <<Op("norm")>>) \o <<Op("step"), Op("zero_grad")>>

Batches == {3, 6}

\* One pass per update; a second pass shows that nothing is left over.
PlainPrograms(zero) ==
    {Pass(m) \o Update(zero) \o Infer(n) \o Pass(n) : m, n \in Batches}

\* Two passes are accumulated, then used; a forward pass may come between.
AccumulatingPrograms ==
    {Pass(m) \o Infer(n) \o Pass(n) \o Update(FALSE) \o Pass(m) : m, n \in Batches}

\* The same with the all-reduce delayed to the end.
DelayedPrograms(zero) ==
    {Pass(m) \o Infer(n) \o Pass(n) \o <<Op("allreduce_grads")>> \o Update(zero)
        : m, n \in Batches}

Placements ==
    [one         |-> [ranks |-> ga :> {0, 1, 2}, users |-> (pa :> {ga})],
     two         |-> [ranks |-> (ga :> {0, 1} @@ gb :> {2}),
                      users |-> (pa :> {ga} @@ pb :> {gb})],
     overlapping |-> [ranks |-> (ga :> {0, 1, 2} @@ gb :> {0, 1} @@ gc :> {1, 2}),
                      users |-> (pa :> {ga} @@ pb :> {gb} @@ pc :> {gc})],
     shared      |-> [ranks |-> (ga :> {0} @@ gb :> {1} @@ gc :> {2}),
                      users |-> (pa :> {ga, gb} @@ pb :> {gb, gc} @@ pc :> {ga, gc})]]

Job(place, program, pipeline_num, delay, zero, skip, sync) ==
    [ranks |-> Placements[place].ranks, users |-> Placements[place].users,
     program |-> program, pipeline_num |-> pipeline_num, delay |-> delay,
     zero |-> zero, skip_grad_scaling |-> skip, sync_allreduce |-> sync]

RowsOf(program) == {program[n].batch : n \in
                      {m \in DOMAIN program : program[m].op = "backward"}}

\* Every replica gets a row in every pass.
AllWork(rows, pipeline_num, replicas) ==
    \A r \in replicas :
        LET p == IF pipeline_num > rows THEN rows ELSE pipeline_num
        IN  \E i \in 0..(p - 1) :
              RankBatchSizes(SplitBatchSizes(rows, p)[i], replicas, i)[r] > 0

\* Jobs with any of the programs; pipelines are values of pipeline_num.
JobsOf(places, programs, pipelines, delay, zero, skip) ==
    {Job(place, program, n, delay, zero, skip, s) :
        place \in places, program \in programs, n \in pipelines, s \in BOOLEAN}

Working(jobs) ==
    {j \in jobs : \A rows \in RowsOf(j.program), s \in DOMAIN j.ranks :
        AllWork(rows, j.pipeline_num, j.ranks[s])}

\* Every rank has the same share of every micro-batch.
EvenShares(jobs) ==
    {j \in jobs : \A n \in DOMAIN j.program, s \in DOMAIN j.ranks :
        LET rows == j.program[n].batch
        IN  j.program[n].op = "forward" =>
              /\ rows % j.pipeline_num = 0
              /\ (rows \div j.pipeline_num) % Cardinality(j.ranks[s]) = 0}

AllPlaces == DOMAIN Placements
NotShared == AllPlaces \ {"shared"}

-----------------------------------------------------------------------------
(* skip_grad_scaling, the default: gradients are accumulated only with the *)
(* all-reduce delayed, as the FAQ says; the replicas may divide the        *)
(* batches in any way.                                                     *)

DefaultJobs ==
    Working(UNION {
        UNION {JobsOf(AllPlaces, PlainPrograms(z), {1, 2}, FALSE, z, TRUE),
               JobsOf(AllPlaces, DelayedPrograms(z), {1, 2}, TRUE, z, TRUE)} :
        z \in BOOLEAN})

-----------------------------------------------------------------------------
(* skip_grad_scaling is off.                                               *)

\* The all-reduce follows every backward pass.  Gradients are accumulated
\* only without zero and by parameters that one subgraph uses.
ImmediateJobs ==
    Working(
      JobsOf(NotShared, AccumulatingPrograms, {1, 2}, FALSE, FALSE, FALSE)
      \cup JobsOf({"shared"}, PlainPrograms(FALSE), {1, 2}, FALSE, FALSE, FALSE))

\* With zero, cleared before every pass: the all-reduce sums segments to
\* their owners, and every forward pass collects the parameters.
ZeroJobs ==
    Working(JobsOf(NotShared, PlainPrograms(TRUE), {1, 2}, FALSE, TRUE, FALSE))

\* The all-reduce is delayed.
DelayedJobs ==
    EvenShares(
      JobsOf(AllPlaces, DelayedPrograms(FALSE), {1, 2}, TRUE, FALSE, FALSE)
      \cup JobsOf(AllPlaces, DelayedPrograms(TRUE), {1, 2}, TRUE, TRUE, FALSE))

TrainingJobs == DefaultJobs \cup ImmediateJobs \cup ZeroJobs \cup DelayedJobs

-----------------------------------------------------------------------------
(* Jobs outside these conditions.                                          *)

\* Accumulation without delay, with the default settings.
AccumulateJobs ==
    JobsOf({"one"}, AccumulatingPrograms, {1}, FALSE, FALSE, TRUE)

\* The same with scaling, by parameters that two subgraphs share.
AccumulateSharedJobs ==
    JobsOf({"shared"}, AccumulatingPrograms, {1}, FALSE, FALSE, FALSE)

\* Scaling and delayed accumulation over batches that two replicas divide
\* differently.
DelayedUnevenJobs ==
    JobsOf({"two"}, DelayedPrograms(FALSE), {1}, TRUE, FALSE, FALSE)

\* The same passes, whose last micro-batch has one row for two replicas.
NoShareJobs ==
    Working({j \in JobsOf({"two"}, DelayedPrograms(FALSE), {2}, TRUE, FALSE, FALSE) :
               RowsOf(j.program) = {3}})

\* More micro-batches than rows per replica, with the default settings.
IdleReplicaJobs ==
    JobsOf({"one"}, PlainPrograms(FALSE), {2}, FALSE, FALSE, TRUE)

=============================================================================
