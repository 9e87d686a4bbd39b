--------------------------- MODULE GradSync_proofs ---------------------------
(***************************************************************************)
(* Proofs about module GradSync, for any number of ranks, any placement of *)
(* subgraphs and parameters and any program of calls.                      *)
(***************************************************************************)
EXTENDS GradSync, Redist_proofs, SequenceTheorems

-----------------------------------------------------------------------------
(* The invariant. *)

OpOf(n) == job.program[n].op

Calls == 1..Len(job.program)

\* The place of a group in sortCommTags, which is the same on every rank.
Index(g) == Cardinality({h \in Groups : Before(0, h, g)}) + 1

\* The calls that walk the groups of parameters.
ReduceCall(n) == n \in Calls /\ (OpOf(n) = "allreduce_grads" \/ (OpOf(n) = "backward" /\ ~job.delay))
BcastCall(n)  == n \in Calls /\ OpOf(n) = "forward" /\ job.zero

Stages == {"call", "bcast", "run", "unscale", "reduce", "barrier"}

LoopCall(n) == ReduceCall(n) \/ BcastCall(n)

\* A rank is inside a call exactly as far as that call goes.
StageOK(r) ==
    /\ at[r] \in 1..(Len(job.program) + 1)
    /\ turn[r] \in 0..(Cardinality(Groups) + 1)
    /\ stage[r] \in Stages
    /\ stage[r] # "call" => at[r] \in Calls
    /\ stage[r] = "run" => OpOf(at[r]) \in {"forward", "backward"}
    /\ stage[r] = "unscale" => OpOf(at[r]) = "backward" /\ job.delay
    /\ stage[r] \in {"reduce", "barrier"} => ReduceCall(at[r])
    /\ stage[r] = "bcast" => BcastCall(at[r])
    /\ stage[r] \in {"reduce", "bcast"} => turn[r] \in 1..(Cardinality(Groups) + 1)
    /\ stage[r] = "barrier" => turn[r] \in 1..Cardinality(Groups) /\ job.sync_allreduce

\* Rank r has left the collective of group g in call n behind.
Passed(r, n, g) ==
    \/ at[r] > n
    \/ at[r] = n /\ stage[r] \in {"reduce", "bcast"} /\ turn[r] > Index(g)
    \/ at[r] = n /\ stage[r] = "barrier" /\ turn[r] >= Index(g)
    \/ at[r] = n /\ stage[r] = "run" /\ OpOf(n) = "forward"

\* Rank r has left the barrier after turn k of call n behind.
PassedBarrier(r, n, k) ==
    \/ at[r] > n
    \/ at[r] = n /\ stage[r] \in {"reduce", "barrier"} /\ turn[r] > k

(***************************************************************************)
(* The ranks of a collective leave it together.  This is what makes the    *)
(* order of sortCommTags safe: whoever is behind is behind in a collective *)
(* that comes earlier in the order of all ranks.                           *)
(***************************************************************************)
GroupsTogether ==
    \A g \in Groups : \A q, r \in g : \A n \in Calls :
        LoopCall(n) /\ Passed(q, n, g) => Passed(r, n, g)

BarriersTogether ==
    \A q, r \in Rank : \A n \in Calls : \A k \in 1..Cardinality(Groups) :
        job.sync_allreduce /\ ReduceCall(n) /\ PassedBarrier(q, n, k) => PassedBarrier(r, n, k)

NormsTogether ==
    \A q, r \in Rank : \A n \in Calls :
        OpOf(n) = "norm" /\ at[q] > n => at[r] > n

SyncInv ==
    /\ job \in Jobs
    /\ at \in [Rank -> Nat] /\ turn \in [Rank -> Nat] /\ stage \in [Rank -> Stages]
    /\ \A r \in Rank : StageOK(r)
    /\ GroupsTogether
    /\ BarriersTogether
    /\ NormsTogether

-----------------------------------------------------------------------------
(* Gradients and parameters. *)

\* Every replica gets rows in every backward pass.
EveryoneWorks == \A n \in Backwards : \A p \in Params : \A r \in ranks_(p) : Works(n, p, r)

\* Rank r has run the backward pass n.
HasRun(r, n) == n < at[r] \/ (n = at[r] /\ stage[r] \in {"unscale", "reduce", "barrier"})

\* A gradient is defined from the first backward pass on.
DefinedInv ==
    /\ DOMAIN grad = Rank
    /\ \A r \in Rank :
        /\ DOMAIN grad[r] = ParamsOn(r)
        /\ \A p \in ParamsOn(r) :
             /\ grad[r][p] = Undefined \/ DOMAIN grad[r][p] = Segments(p)
             /\ grad[r][p] # Undefined <=> \E n \in Backwards : HasRun(r, n)

StepsBefore(n) == Cardinality({m \in 1..(n - 1) : OpOf(m) = "step"})

\* The optimizer's rank is always up to date, the others of the group from
\* the broadcast until the end of the forward pass.
ParamInv ==
    /\ DOMAIN param = Rank
    /\ \A r \in Rank : \A p \in ParamsOn(r) : \A i \in Segments(p) :
        Uses(r, p, i) \/ (BcastCall(at[r]) /\ Passed(r, at[r], ranks_(p))) =>
            param[r][p][i] = StepsBefore(at[r])

-----------------------------------------------------------------------------
(* The program and the order of the groups. *)

\* What a job holds: a finite program of the six calls and three switches.
LEMMA ProgramFacts ==
    ASSUME job \in Jobs
    PROVE  /\ Len(job.program) \in Nat /\ DOMAIN job.program = Calls
           /\ \A n \in Calls : OpOf(n) \in {"forward", "backward", "allreduce_grads",
                                            "zero_grad", "step", "norm"}
           /\ job.zero \in BOOLEAN /\ job.delay \in BOOLEAN /\ job.sync_allreduce \in BOOLEAN
           /\ IsFiniteSet(Rank) /\ Rank \in SUBSET Nat
<1>1. job.program \in Seq([op: {"forward", "backward", "allreduce_grads",
                                "zero_grad", "step", "norm"}, batch: Nat \ {0}])
  BY JobsAssumption
<1>2. Len(job.program) \in Nat /\ DOMAIN job.program = Calls
  BY <1>1 DEF Calls
<1>3. \A n \in Calls : job.program[n] \in [op: {"forward", "backward", "allreduce_grads",
                                "zero_grad", "step", "norm"}, batch: Nat \ {0}]
  BY <1>1, <1>2, ElementOfSeq DEF Calls
<1>4. \A n \in Calls : OpOf(n) \in {"forward", "backward", "allreduce_grads",
                                    "zero_grad", "step", "norm"}
  BY <1>3 DEF OpOf
<1>5. {job.delay, job.zero, job.sync_allreduce} \subseteq BOOLEAN
  BY JobsAssumption
<1> QED
  BY <1>2, <1>4, <1>5, RankAssumption

\* Groups are nonempty sets of ranks.
LEMMA GroupSets ==
    ASSUME job \in Jobs
    PROVE  /\ \A p \in Params : ranks_(p) \in SUBSET Rank /\ ranks_(p) # {}
           /\ Groups \in SUBSET (SUBSET Rank)
           /\ \A g \in Groups : g # {} /\ IsFiniteSet(g) /\ Cardinality(g) \in Nat
           /\ \A p \in Params : ranks_(p) \in Groups
           /\ IsFiniteSet(Groups)
<1>1. ASSUME NEW p \in Params
      PROVE  ranks_(p) \in SUBSET Rank /\ ranks_(p) # {}
  <2>1. /\ job.users[p] \subseteq DOMAIN job.ranks /\ job.users[p] # {}
        /\ \A s \in DOMAIN job.ranks : job.ranks[s] \in (SUBSET Rank) \ {{}}
    BY JobsAssumption DEF Params
  <2>2. PICK s \in job.users[p] : s \in DOMAIN job.ranks
    BY <2>1
  <2>3. job.ranks[s] # {} /\ job.ranks[s] \subseteq ranks_(p)
    BY <2>1, <2>2 DEF ranks_
  <2>4. ranks_(p) \subseteq Rank
    BY <2>1 DEF ranks_
  <2> QED
    BY <2>3, <2>4
<1>2. Groups \in SUBSET (SUBSET Rank) /\ \A g \in Groups : g # {}
  BY <1>1 DEF Groups
<1>3. IsFiniteSet(Rank) /\ IsFiniteSet(SUBSET Rank)
  BY RankAssumption, FS_SUBSET
<1>4. IsFiniteSet(Groups)
  BY <1>2, <1>3, FS_Subset
<1>5. ASSUME NEW g \in Groups
      PROVE  IsFiniteSet(g) /\ Cardinality(g) \in Nat
  <2>1. g \in SUBSET Rank
    BY <1>2
  <2>2. IsFiniteSet(g)
    BY <1>3, <2>1, FS_Subset
  <2> QED
    BY <2>2, FS_CardinalityType
<1>6. \A p \in Params : ranks_(p) \in Groups
  BY DEF Groups
<1> QED
  BY <1>1, <1>2, <1>4, <1>5, <1>6

(***************************************************************************)
(* sortCommTags lists every group once, in an order that does not depend   *)
(* on the rank.                                                            *)
(***************************************************************************)
LEMMA GroupOrder ==
    ASSUME job \in Jobs
    PROVE  /\ Cardinality(Groups) \in Nat
           /\ \A g \in Groups : Index(g) \in 1..Cardinality(Groups)
           /\ \A g, h \in Groups : Index(g) = Index(h) => g = h
           /\ \A r : \A k \in 1..Cardinality(Groups) :
                 sortCommTags(r, k) \in Groups /\ Index(sortCommTags(r, k)) = k
<1>1. PICK below : below = [g \in Groups |-> {h \in Groups : Before(0, h, g)}]
  OBVIOUS
<1>2. below \in [Groups -> SUBSET Groups]
  BY <1>1
<1>3. \A g, h \in Groups : h \in below[g] <=> Before(0, h, g)
  BY <1>1
<1>4. \A g \in Groups : Index(g) = Cardinality(below[g]) + 1
  BY <1>1 DEF Index
<1>5. PICK card \in [Groups -> Nat], tag \in [Groups -> Nat] :
         \A g \in Groups : card[g] = Cardinality(g) /\ tag[g] = Tag(g)
  <2>1. [g \in Groups |-> Cardinality(g)] \in [Groups -> Nat]
    BY GroupSets
  <2>2. [g \in Groups |-> Tag(g)] \in [Groups -> Nat]
    BY GroupSets, TagAssumption
  <2> QED
    BY <2>1, <2>2
<1>6. \A g, h \in Groups : tag[g] = tag[h] => g = h
  BY <1>5, GroupSets, TagAssumption
<1>7. \A g, h \in Groups : h \in below[g] <=>
         card[h] < card[g] \/ (card[h] = card[g] /\ tag[h] < tag[g])
  BY <1>3, <1>5 DEF Before
<1>8. OrderedBy(Groups, below)
  <2>1. IsFiniteSet(Groups)
    BY GroupSets
  <2>2. \A g \in Groups : g \notin below[g]
    BY <1>5, <1>7
  <2>3. ASSUME NEW g \in Groups, NEW h \in Groups, g \in below[h], NEW f \in below[g]
        PROVE  f \in below[h]
    <3>1. f \in Groups
      BY <1>2
    <3>2. card[f] < card[g] \/ (card[f] = card[g] /\ tag[f] < tag[g])
      BY <1>7, <3>1
    <3>3. card[g] < card[h] \/ (card[g] = card[h] /\ tag[g] < tag[h])
      BY <1>7, <2>3
    <3>4. card[f] < card[h] \/ (card[f] = card[h] /\ tag[f] < tag[h])
      BY <1>5, <3>1, <3>2, <3>3
    <3> QED
      BY <1>7, <3>1, <3>4
  <2>4. ASSUME NEW g \in Groups, NEW h \in Groups
        PROVE  g = h \/ g \in below[h] \/ h \in below[g]
    <3>1. card[g] < card[h] \/ card[h] < card[g] \/ card[g] = card[h]
      BY <1>5
    <3>2. tag[g] < tag[h] \/ tag[h] < tag[g] \/ g = h
      BY <1>5, <1>6
    <3> QED
      BY <1>7, <3>1, <3>2
  <2> QED
    BY <1>2, <2>1, <2>2, <2>3, <2>4 DEF OrderedBy
<1>9. /\ Cardinality(Groups) \in Nat
      /\ \A x \in Groups : Cardinality(below[x]) \in 0..(Cardinality(Groups) - 1)
      /\ \A x, y \in Groups :
            x \in below[y] => Cardinality(below[x]) < Cardinality(below[y])
      /\ \A i \in 0..(Cardinality(Groups) - 1) :
            \E x \in Groups : Cardinality(below[x]) = i
  BY <1>8, Places
<1>10. \A g \in Groups : Index(g) \in 1..Cardinality(Groups)
  BY <1>4, <1>9
<1>11. \A g, h \in Groups : Index(g) = Index(h) => g = h
  <2> SUFFICES ASSUME NEW g \in Groups, NEW h \in Groups, Index(g) = Index(h), g # h
               PROVE  FALSE
    OBVIOUS
  <2>1. g \in below[h] \/ h \in below[g]
    BY <1>8 DEF OrderedBy
  <2>2. Cardinality(below[g]) = Cardinality(below[h]) /\ Cardinality(below[g]) \in Nat
    BY <1>4, <1>9
  <2> QED
    BY <1>9, <2>1, <2>2
<1>12. ASSUME NEW r, NEW k \in 1..Cardinality(Groups)
       PROVE  sortCommTags(r, k) \in Groups /\ Index(sortCommTags(r, k)) = k
  <2>1. \A g \in Groups : Cardinality({h \in Groups : Before(r, h, g)}) = Cardinality(below[g])
    BY <1>1 DEF Before
  <2>2. k - 1 \in 0..(Cardinality(Groups) - 1)
    BY <1>9
  <2>3. PICK g \in Groups : Cardinality(below[g]) = k - 1
    BY <1>9, <2>2
  <2>4. \E x \in Groups : Cardinality({h \in Groups : Before(r, h, x)}) = k - 1
    BY <2>1, <2>3
  <2>5. /\ sortCommTags(r, k) \in Groups
        /\ Cardinality({h \in Groups : Before(r, h, sortCommTags(r, k))}) = k - 1
    BY <2>4 DEF sortCommTags
  <2>6. Cardinality(below[sortCommTags(r, k)]) = k - 1
    BY <2>1, <2>5
  <2> QED
    BY <1>4, <2>5, <2>6
<1> QED
  BY <1>9, <1>10, <1>11, <1>12

-----------------------------------------------------------------------------
(* Steps of one rank. *)

\* The job is fixed at launch: nothing computed from it alone changes.
LEMMA JobFrame ==
    ASSUME job' = job
    PROVE  /\ Groups' = Groups /\ Calls' = Calls /\ Params' = Params
           /\ Backwards' = Backwards
           /\ \A n : OpOf(n)' = OpOf(n)
           /\ \A n : (ReduceCall(n)' <=> ReduceCall(n)) /\ (BcastCall(n)' <=> BcastCall(n))
           /\ \A n : LoopCall(n)' <=> LoopCall(n)
           /\ \A g : Index(g)' = Index(g)
           /\ \A p : ranks_(p)' = ranks_(p)
<1>1. /\ Groups' = Groups /\ Calls' = Calls /\ Params' = Params
      /\ Backwards' = Backwards /\ \A p : ranks_(p)' = ranks_(p)
  BY DEF Groups, Calls, Params, ranks_, Backwards
<1>2. /\ \A n : OpOf(n)' = OpOf(n)
      /\ \A n : (ReduceCall(n)' <=> ReduceCall(n)) /\ (BcastCall(n)' <=> BcastCall(n))
  BY <1>1 DEF OpOf, ReduceCall, BcastCall
<1>3. \A n : LoopCall(n)' <=> LoopCall(n)
  BY <1>2 DEF LoopCall
<1>4. \A g : Index(g)' = Index(g)
  BY <1>1 DEF Index, Before
<1> QED
  BY <1>1, <1>2, <1>3, <1>4

\* Where a rank stands depends on nothing but its own program counter.
LEMMA Standing ==
    ASSUME job' = job, NEW q \in Rank, at'[q] = at[q], stage'[q] = stage[q], turn'[q] = turn[q]
    PROVE  /\ StageOK(q) => StageOK(q)'
           /\ \A n, g : Passed(q, n, g)' <=> Passed(q, n, g)
           /\ \A n, k : PassedBarrier(q, n, k)' <=> PassedBarrier(q, n, k)
<1>1. StageOK(q) => StageOK(q)'
  BY JobFrame DEF StageOK
<1>2. \A n, g : Passed(q, n, g)' <=> Passed(q, n, g)
  BY JobFrame DEF Passed
<1>3. \A n, k : PassedBarrier(q, n, k)' <=> PassedBarrier(q, n, k)
  BY DEF PassedBarrier
<1> QED
  BY <1>1, <1>2, <1>3

\* Rank r alone moves, and past no collective.
LEMMA SoloStep ==
    ASSUME SyncInv, job' = job, NEW r \in Rank,
           at' \in [Rank -> Nat], turn' \in [Rank -> Nat], stage' \in [Rank -> Stages],
           \A q \in Rank \ {r} : at'[q] = at[q] /\ stage'[q] = stage[q] /\ turn'[q] = turn[q],
           StageOK(r)',
           \A n \in Calls : \A g \in Groups : r \in g /\ LoopCall(n) =>
               (Passed(r, n, g)' <=> Passed(r, n, g)),
           \A n \in Calls : \A k \in 1..Cardinality(Groups) :
               job.sync_allreduce /\ ReduceCall(n) =>
                   (PassedBarrier(r, n, k)' <=> PassedBarrier(r, n, k)),
           \A n \in Calls : OpOf(n) = "norm" => (at'[r] > n <=> at[r] > n)
    PROVE  SyncInv'
<1>1. /\ Groups' = Groups /\ Calls' = Calls
      /\ \A n : OpOf(n)' = OpOf(n)
      /\ \A n : (ReduceCall(n)' <=> ReduceCall(n)) /\ (LoopCall(n)' <=> LoopCall(n))
  BY JobFrame
<1>2. \A q \in Rank \ {r} :
         /\ StageOK(q)'
         /\ \A n, g : Passed(q, n, g)' <=> Passed(q, n, g)
         /\ \A n, k : PassedBarrier(q, n, k)' <=> PassedBarrier(q, n, k)
         /\ at'[q] = at[q]
  BY Standing DEF SyncInv
<1>3. job' \in Jobs
  BY DEF SyncInv
<1>4. \A q \in Rank : StageOK(q)'
  BY <1>2
<1>5. GroupsTogether'
  <2> SUFFICES ASSUME NEW g \in Groups, NEW p \in g, NEW q \in g, NEW n \in Calls,
                      LoopCall(n), Passed(p, n, g)'
               PROVE  Passed(q, n, g)'
    BY <1>1 DEF GroupsTogether
  <2>1. p \in Rank /\ q \in Rank
    BY GroupSets DEF SyncInv
  <2>2. Passed(p, n, g)
    BY <1>2, <2>1
  <2>3. Passed(q, n, g)
    BY <2>2 DEF SyncInv, GroupsTogether
  <2> QED
    BY <1>2, <2>1, <2>3
<1>6. BarriersTogether'
  <2> SUFFICES ASSUME NEW p \in Rank, NEW q \in Rank, NEW n \in Calls,
                      NEW k \in 1..Cardinality(Groups), job.sync_allreduce, ReduceCall(n),
                      PassedBarrier(p, n, k)'
               PROVE  PassedBarrier(q, n, k)'
    BY <1>1 DEF BarriersTogether
  <2>1. PassedBarrier(p, n, k)
    BY <1>2
  <2>2. PassedBarrier(q, n, k)
    BY <2>1 DEF SyncInv, BarriersTogether
  <2> QED
    BY <1>2, <2>2
<1>7. NormsTogether'
  <2> SUFFICES ASSUME NEW p \in Rank, NEW q \in Rank, NEW n \in Calls, OpOf(n) = "norm",
                      at'[p] > n
               PROVE  at'[q] > n
    BY <1>1 DEF NormsTogether
  <2>1. at[p] > n
    BY <1>2
  <2>2. at[q] > n
    BY <2>1 DEF SyncInv, NormsTogether
  <2> QED
    BY <1>2, <2>2
<1> QED
  BY <1>3, <1>4, <1>5, <1>6, <1>7 DEF SyncInv

\* Rank r goes on within a call.
LEMMA WithinCall ==
    ASSUME SyncInv, job' = job, NEW r \in Rank, at[r] \in Calls, NEW st \in Stages, NEW t \in Nat,
           at' = at, stage' = [stage EXCEPT ![r] = st], turn' = [turn EXCEPT ![r] = t],
           StageOK(r)',
           \A g \in Groups : r \in g /\ LoopCall(at[r]) =>
               (Passed(r, at[r], g)' <=> Passed(r, at[r], g)),
           \A k \in 1..Cardinality(Groups) : job.sync_allreduce /\ ReduceCall(at[r]) =>
               (PassedBarrier(r, at[r], k)' <=> PassedBarrier(r, at[r], k))
    PROVE  SyncInv'
<1>1. /\ at' \in [Rank -> Nat] /\ turn' \in [Rank -> Nat] /\ stage' \in [Rank -> Stages]
      /\ \A q \in Rank \ {r} : at'[q] = at[q] /\ stage'[q] = stage[q] /\ turn'[q] = turn[q]
  BY DEF SyncInv
<1>2. ASSUME NEW n \in Calls, NEW g \in Groups, r \in g, LoopCall(n)
      PROVE  Passed(r, n, g)' <=> Passed(r, n, g)
  <2>1. CASE n = at[r]
    BY <1>2, <2>1
  <2>2. CASE n # at[r]
    BY <2>2, <1>1 DEF Passed
  <2> QED
    BY <2>1, <2>2
<1>3. ASSUME NEW n \in Calls, NEW k \in 1..Cardinality(Groups), job.sync_allreduce, ReduceCall(n)
      PROVE  PassedBarrier(r, n, k)' <=> PassedBarrier(r, n, k)
  <2>1. CASE n = at[r]
    BY <1>3, <2>1
  <2>2. CASE n # at[r]
    BY <2>2, <1>1 DEF PassedBarrier
  <2> QED
    BY <2>1, <2>2
<1> QED
  BY <1>1, <1>2, <1>3, SoloStep

\* Rank r returns from a call whose collectives it has all left behind.
LEMMA ReturnFromCall ==
    ASSUME SyncInv, job' = job, NEW r \in Rank, at[r] \in Calls,
           Return(r), turn' = turn, OpOf(at[r]) # "norm",
           \A g \in Groups : r \in g /\ LoopCall(at[r]) => Passed(r, at[r], g),
           \A k \in 1..Cardinality(Groups) : job.sync_allreduce /\ ReduceCall(at[r]) =>
               PassedBarrier(r, at[r], k)
    PROVE  SyncInv'
<1>1. /\ at' = [at EXCEPT ![r] = @ + 1] /\ stage' = [stage EXCEPT ![r] = "call"]
      /\ at \in [Rank -> Nat] /\ turn \in [Rank -> Nat] /\ stage \in [Rank -> Stages]
  BY DEF Return, Goto, SyncInv
<1>2. /\ at' \in [Rank -> Nat] /\ turn' \in [Rank -> Nat] /\ stage' \in [Rank -> Stages]
      /\ \A q \in Rank \ {r} : at'[q] = at[q] /\ stage'[q] = stage[q] /\ turn'[q] = turn[q]
      /\ at'[r] = at[r] + 1 /\ stage'[r] = "call" /\ turn'[r] = turn[r] /\ at[r] \in Nat
  <2>1. "call" \in Stages /\ at[r] \in Nat /\ at[r] + 1 \in Nat
    BY <1>1 DEF Stages
  <2>2. at' \in [Rank -> Nat] /\ at'[r] = at[r] + 1 /\ \A q \in Rank \ {r} : at'[q] = at[q]
    BY <1>1, <2>1
  <2>3. /\ stage' \in [Rank -> Stages] /\ stage'[r] = "call"
        /\ \A q \in Rank \ {r} : stage'[q] = stage[q]
    BY <1>1, <2>1
  <2> QED
    BY <1>1, <2>1, <2>2, <2>3
<1>3. Len(job.program) \in Nat /\ Calls = 1..Len(job.program)
  BY ProgramFacts DEF SyncInv, Calls
<1>4. StageOK(r)'
  <2>1. at'[r] \in 1..(Len(job.program) + 1)
    BY <1>2, <1>3
  <2>2. turn[r] \in 0..(Cardinality(Groups) + 1)
    BY DEF SyncInv, StageOK
  <2> QED
    BY <1>2, <2>1, <2>2, JobFrame DEF StageOK
<1>5. ASSUME NEW n \in Calls, NEW g \in Groups, r \in g, LoopCall(n)
      PROVE  Passed(r, n, g)' <=> Passed(r, n, g)
  <2>1. n \in Nat
    BY <1>3
  <2>2. Passed(r, n, g)' <=> at'[r] > n
    BY <1>2 DEF Passed
  <2>3. CASE n = at[r]
    BY <1>2, <1>5, <2>2, <2>3
  <2>4. CASE n # at[r]
    <3>1. Passed(r, n, g) <=> at[r] > n
      BY <2>4 DEF Passed
    <3> QED
      BY <1>2, <2>1, <2>2, <2>4, <3>1
  <2> QED
    BY <2>3, <2>4
<1>6. ASSUME NEW n \in Calls, NEW k \in 1..Cardinality(Groups), job.sync_allreduce, ReduceCall(n)
      PROVE  PassedBarrier(r, n, k)' <=> PassedBarrier(r, n, k)
  <2>1. n \in Nat
    BY <1>3
  <2>2. PassedBarrier(r, n, k)' <=> at'[r] > n
    BY <1>2 DEF PassedBarrier
  <2>3. CASE n = at[r]
    BY <1>2, <1>6, <2>2, <2>3
  <2>4. CASE n # at[r]
    <3>1. PassedBarrier(r, n, k) <=> at[r] > n
      BY <2>4 DEF PassedBarrier
    <3> QED
      BY <1>2, <2>1, <2>2, <2>4, <3>1
  <2> QED
    BY <2>3, <2>4
<1>7. \A n \in Calls : OpOf(n) = "norm" => (at'[r] > n <=> at[r] > n)
  BY <1>2, <1>3
<1> QED
  BY <1>2, <1>4, <1>5, <1>6, <1>7, SoloStep

\* In(r, op, st) with the invariant: r stands in a call of the program, op at st.
LEMMA InCall ==
    ASSUME SyncInv, NEW r \in Rank, NEW op, NEW st, In(r, op, st)
    PROVE  at[r] \in Calls /\ OpOf(at[r]) = op /\ stage[r] = st
<1>1. at[r] \in 1..(Len(job.program) + 1) /\ Len(job.program) \in Nat
  BY ProgramFacts DEF SyncInv, StageOK
<1> QED
  BY <1>1 DEF In, Running, Call, Calls, OpOf

\* What the proofs about single actions use of the invariant.
LEMMA RankFacts ==
    ASSUME SyncInv, NEW r \in Rank
    PROVE  /\ job \in Jobs /\ StageOK(r)
           /\ at[r] \in Nat /\ turn[r] \in Nat /\ stage[r] \in Stages
           /\ at \in [Rank -> Nat] /\ turn \in [Rank -> Nat] /\ stage \in [Rank -> Stages]
           /\ turn = [turn EXCEPT ![r] = turn[r]]
           /\ Cardinality(Groups) \in Nat
           /\ \A g \in Groups : Index(g) \in 1..Cardinality(Groups)
<1>1. at \in [Rank -> Nat] /\ turn \in [Rank -> Nat] /\ stage \in [Rank -> Stages]
      /\ job \in Jobs /\ StageOK(r)
  BY DEF SyncInv
<1>2. turn = [turn EXCEPT ![r] = turn[r]]
  BY <1>1
<1> QED
  BY <1>1, <1>2, GroupOrder

\* Entering forward, with or without the broadcast loop of zero.
LEMMA SyncForward ==
    ASSUME SyncInv, NEW r \in Rank, Forward(r)
    PROVE  SyncInv'
<1>1. at[r] \in Calls /\ OpOf(at[r]) = "forward" /\ stage[r] = "call"
  BY InCall DEF Forward
<1>2. job' = job /\ at' = at
  BY DEF Forward
<1>3. /\ job \in Jobs /\ StageOK(r)
      /\ at[r] \in Nat /\ turn[r] \in Nat
      /\ turn \in [Rank -> Nat] /\ stage \in [Rank -> Stages]
      /\ turn = [turn EXCEPT ![r] = turn[r]]
      /\ Cardinality(Groups) \in Nat
      /\ \A g \in Groups : Index(g) \in 1..Cardinality(Groups)
  BY RankFacts
<1>4. ~ReduceCall(at[r])
  BY <1>1 DEF ReduceCall
<1>5. CASE job.zero
  <2>1. stage' = [stage EXCEPT ![r] = "bcast"] /\ turn' = [turn EXCEPT ![r] = 1]
    BY <1>5 DEF Forward, EnterLoop, Goto
  <2>2. stage'[r] = "bcast" /\ turn'[r] = 1 /\ at'[r] = at[r]
    BY <1>2, <1>3, <2>1
  <2>3. BcastCall(at[r])
    BY <1>1, <1>5 DEF BcastCall
  <2>4. StageOK(r)'
    BY <1>1, <1>2, <1>3, <2>2, <2>3, JobFrame DEF StageOK, Stages
  <2>5. \A g \in Groups : ~Passed(r, at[r], g)' /\ ~Passed(r, at[r], g)
    BY <1>1, <1>2, <1>3, <2>2, JobFrame DEF Passed
  <2>6. "bcast" \in Stages /\ 1 \in Nat
    BY DEF Stages
  <2> QED
    BY <1>1, <1>2, <1>4, <2>1, <2>4, <2>5, <2>6, WithinCall
<1>6. CASE ~job.zero
  <2>1. stage' = [stage EXCEPT ![r] = "run"] /\ turn' = turn
    BY <1>6 DEF Forward, Goto
  <2>2. stage'[r] = "run" /\ turn'[r] = turn[r] /\ at'[r] = at[r]
    BY <1>2, <1>3, <2>1
  <2>3. ~LoopCall(at[r])
    BY <1>1, <1>4, <1>6 DEF LoopCall, BcastCall
  <2>4. StageOK(r)'
    BY <1>1, <1>2, <1>3, <2>2, JobFrame DEF StageOK, Stages
  <2>5. turn' = [turn EXCEPT ![r] = turn[r]]
    BY <1>3, <2>1
  <2>6. "run" \in Stages
    BY DEF Stages
  <2> QED
    BY <1>1, <1>2, <1>3, <1>4, <2>1, <2>3, <2>4, <2>5, <2>6, WithinCall
<1> QED
  BY <1>5, <1>6

\* The computation of forward after which the call returns.
LEMMA SyncForwardCompute ==
    ASSUME SyncInv, NEW r \in Rank, ForwardCompute(r)
    PROVE  SyncInv'
<1>1. at[r] \in Calls /\ OpOf(at[r]) = "forward" /\ stage[r] = "run"
  BY InCall DEF ForwardCompute
<1>2. job' = job /\ Return(r) /\ turn' = turn
  BY DEF ForwardCompute
<1>3. ~ReduceCall(at[r])
  BY <1>1 DEF ReduceCall
<1>4. \A g : Passed(r, at[r], g)
  BY <1>1 DEF Passed
<1> QED
  BY <1>1, <1>2, <1>3, <1>4, ReturnFromCall

\* Entering backward: scaling the gradients kept from before moves no other rank.
LEMMA SyncBackward ==
    ASSUME SyncInv, NEW r \in Rank, Backward(r)
    PROVE  SyncInv'
<1>1. at[r] \in Calls /\ OpOf(at[r]) = "backward" /\ stage[r] = "call"
  BY InCall DEF Backward
<1>2. job' = job /\ at' = at /\ turn' = turn /\ stage' = [stage EXCEPT ![r] = "run"]
  BY DEF Backward, Goto
<1>3. /\ StageOK(r) /\ at[r] \in Nat /\ turn[r] \in Nat
      /\ turn \in [Rank -> Nat] /\ stage \in [Rank -> Stages]
      /\ turn = [turn EXCEPT ![r] = turn[r]]
  BY RankFacts
<1>4. stage'[r] = "run" /\ turn'[r] = turn[r] /\ at'[r] = at[r]
  BY <1>2, <1>3
<1>5. StageOK(r)'
  BY <1>1, <1>2, <1>3, <1>4, JobFrame DEF StageOK, Stages
<1>6. \A g \in Groups : ~Passed(r, at[r], g)' /\ ~Passed(r, at[r], g)
  BY <1>1, <1>2, <1>3, <1>4, JobFrame DEF Passed
<1>7. \A k \in 1..Cardinality(Groups) :
         ~PassedBarrier(r, at[r], k)' /\ ~PassedBarrier(r, at[r], k)
  BY <1>1, <1>2, <1>3, <1>4 DEF PassedBarrier
<1>8. turn' = [turn EXCEPT ![r] = turn[r]] /\ "run" \in Stages
  BY <1>2, <1>3 DEF Stages
<1> QED
  BY <1>1, <1>2, <1>3, <1>5, <1>6, <1>7, <1>8, WithinCall

\* Entering the walk over the groups passes nothing.
LEMMA EnterReduce ==
    ASSUME SyncInv, job' = job, NEW r \in Rank, at[r] \in Calls, ReduceCall(at[r]),
           stage[r] \in {"call", "run"}, OpOf(at[r]) # "forward",
           EnterLoop(r, "reduce"), at' = at
    PROVE  SyncInv'
<1>1. stage' = [stage EXCEPT ![r] = "reduce"] /\ turn' = [turn EXCEPT ![r] = 1]
  BY DEF EnterLoop, Goto
<1>2. /\ StageOK(r) /\ at[r] \in Nat /\ turn[r] \in Nat
      /\ turn \in [Rank -> Nat] /\ stage \in [Rank -> Stages]
      /\ Cardinality(Groups) \in Nat
      /\ \A g \in Groups : Index(g) \in 1..Cardinality(Groups)
  BY RankFacts
<1>3. stage'[r] = "reduce" /\ turn'[r] = 1 /\ at'[r] = at[r]
  BY <1>1, <1>2
<1>4. StageOK(r)'
  BY <1>2, <1>3, JobFrame DEF StageOK, Stages
<1>5. \A g \in Groups : ~Passed(r, at[r], g)' /\ ~Passed(r, at[r], g)
  BY <1>2, <1>3, JobFrame DEF Passed
<1>6. \A k \in 1..Cardinality(Groups) :
         ~PassedBarrier(r, at[r], k)' /\ ~PassedBarrier(r, at[r], k)
  BY <1>2, <1>3 DEF PassedBarrier
<1>7. "reduce" \in Stages /\ 1 \in Nat
  BY DEF Stages
<1> QED
  BY <1>1, <1>4, <1>5, <1>6, <1>7, WithinCall

\* The computation of backward goes on to the all-reduce, or to the rescaling when it is delayed.
LEMMA SyncBackwardCompute ==
    ASSUME SyncInv, NEW r \in Rank, BackwardCompute(r)
    PROVE  SyncInv'
<1>1. at[r] \in Calls /\ OpOf(at[r]) = "backward" /\ stage[r] = "run"
  BY InCall DEF BackwardCompute
<1>2. job' = job /\ at' = at
  BY DEF BackwardCompute
<1>3. CASE ~job.delay
  <2>1. EnterLoop(r, "reduce")
    BY <1>3 DEF BackwardCompute
  <2>2. ReduceCall(at[r])
    BY <1>1, <1>3 DEF ReduceCall
  <2> QED
    BY <1>1, <1>2, <2>1, <2>2, EnterReduce
<1>4. CASE job.delay
  <2>1. stage' = [stage EXCEPT ![r] = "unscale"] /\ turn' = turn
    BY <1>4 DEF BackwardCompute, Goto
  <2>2. /\ StageOK(r) /\ at[r] \in Nat /\ turn[r] \in Nat
        /\ turn \in [Rank -> Nat] /\ stage \in [Rank -> Stages]
        /\ turn = [turn EXCEPT ![r] = turn[r]]
    BY RankFacts
  <2>3. stage'[r] = "unscale" /\ turn'[r] = turn[r] /\ at'[r] = at[r]
    BY <1>2, <2>1, <2>2
  <2>4. ~LoopCall(at[r]) /\ ~ReduceCall(at[r])
    BY <1>1, <1>4 DEF LoopCall, ReduceCall, BcastCall
  <2>5. StageOK(r)'
    BY <1>1, <1>2, <1>4, <2>2, <2>3, JobFrame DEF StageOK, Stages
  <2>6. turn' = [turn EXCEPT ![r] = turn[r]] /\ "unscale" \in Stages
    BY <2>1, <2>2 DEF Stages
  <2> QED
    BY <1>1, <1>2, <2>1, <2>2, <2>4, <2>5, <2>6, WithinCall
<1> QED
  BY <1>3, <1>4

\* Calls, and parts of calls, without a collective.
LEMMA SyncPlainReturn ==
    ASSUME SyncInv, NEW r \in Rank, BackwardUnscale(r) \/ ZeroGrad(r) \/ Step(r)
    PROVE  SyncInv'
<1>1. job' = job /\ Return(r) /\ turn' = turn
  BY DEF BackwardUnscale, ZeroGrad, Step
<1>2. \/ In(r, "backward", "unscale") \/ In(r, "zero_grad", "call") \/ In(r, "step", "call")
  BY DEF BackwardUnscale, ZeroGrad, Step
<1>3. /\ at[r] \in Calls
      /\ \/ OpOf(at[r]) = "backward" /\ stage[r] = "unscale"
         \/ OpOf(at[r]) \in {"zero_grad", "step"}
  BY <1>2, InCall
<1>4. StageOK(r)
  BY DEF SyncInv
<1>5. ~ReduceCall(at[r]) /\ ~LoopCall(at[r]) /\ OpOf(at[r]) # "norm"
  BY <1>3, <1>4 DEF ReduceCall, LoopCall, BcastCall, StageOK
<1> QED
  BY <1>1, <1>3, <1>5, ReturnFromCall

\* An explicit allReduceGrads enters the reduce loop.
LEMMA SyncAllReduceGrads ==
    ASSUME SyncInv, NEW r \in Rank, AllReduceGrads(r)
    PROVE  SyncInv'
<1>1. at[r] \in Calls /\ OpOf(at[r]) = "allreduce_grads" /\ stage[r] = "call"
  BY InCall DEF AllReduceGrads
<1>2. job' = job /\ at' = at /\ EnterLoop(r, "reduce")
  BY DEF AllReduceGrads
<1>3. ReduceCall(at[r])
  BY <1>1 DEF ReduceCall
<1> QED
  BY <1>1, <1>2, <1>3, EnterReduce

\* The reduce loop ends behind the last group.
LEMMA SyncLeaveReduce ==
    ASSUME SyncInv, NEW r \in Rank, LeaveReduce(r)
    PROVE  SyncInv'
<1>1. job' = job /\ Return(r) /\ turn' = turn /\ stage[r] = "reduce"
      /\ turn[r] > Cardinality(Groups)
  BY DEF LeaveReduce
<1>2. /\ StageOK(r) /\ at[r] \in Nat /\ turn[r] \in Nat
      /\ Cardinality(Groups) \in Nat
      /\ \A g \in Groups : Index(g) \in 1..Cardinality(Groups)
  BY RankFacts
<1>3. at[r] \in Calls /\ OpOf(at[r]) # "norm"
  BY <1>1, <1>2 DEF StageOK, ReduceCall
<1>4. \A g \in Groups : Passed(r, at[r], g)
  BY <1>1, <1>2 DEF Passed
<1>5. \A k \in 1..Cardinality(Groups) : PassedBarrier(r, at[r], k)
  BY <1>1, <1>2 DEF PassedBarrier
<1> QED
  BY <1>1, <1>3, <1>4, <1>5, ReturnFromCall

\* The broadcast loop ends behind the last group.
LEMMA SyncLeaveBcast ==
    ASSUME SyncInv, NEW r \in Rank, LeaveBcast(r)
    PROVE  SyncInv'
<1>1. job' = job /\ at' = at /\ turn' = turn /\ stage[r] = "bcast"
      /\ turn[r] > Cardinality(Groups) /\ stage' = [stage EXCEPT ![r] = "run"]
  BY DEF LeaveBcast, Goto
<1>2. /\ StageOK(r) /\ at[r] \in Nat /\ turn[r] \in Nat
      /\ turn \in [Rank -> Nat] /\ stage \in [Rank -> Stages]
      /\ turn = [turn EXCEPT ![r] = turn[r]]
      /\ Cardinality(Groups) \in Nat
      /\ \A g \in Groups : Index(g) \in 1..Cardinality(Groups)
  BY RankFacts
<1>3. stage'[r] = "run" /\ turn'[r] = turn[r] /\ at'[r] = at[r]
  BY <1>1, <1>2
<1>4. at[r] \in Calls /\ OpOf(at[r]) = "forward" /\ ~ReduceCall(at[r])
  BY <1>1, <1>2 DEF StageOK, BcastCall, ReduceCall
<1>5. StageOK(r)'
  BY <1>1, <1>2, <1>3, <1>4, JobFrame DEF StageOK, Stages
<1>6. \A g \in Groups : Passed(r, at[r], g)' /\ Passed(r, at[r], g)
  BY <1>1, <1>2, <1>3, <1>4, JobFrame DEF Passed
<1>7. turn' = [turn EXCEPT ![r] = turn[r]] /\ "run" \in Stages
  BY <1>1, <1>2 DEF Stages
<1> QED
  BY <1>1, <1>2, <1>4, <1>5, <1>6, <1>7, WithinCall

-----------------------------------------------------------------------------
(* Steps in the walk over the groups. *)

\* A rank in the walk stands at a group.
LEMMA AtGroup ==
    ASSUME SyncInv, NEW r \in Rank, NEW st \in {"reduce", "bcast"}, InLoop(r, st)
    PROVE  /\ turn[r] \in 1..Cardinality(Groups) /\ at[r] \in Calls /\ stage[r] = st
           /\ Group(r) \in Groups /\ Index(Group(r)) = turn[r]
           /\ LoopCall(at[r]) /\ OpOf(at[r]) # "norm"
           /\ st = "bcast" => BcastCall(at[r])
           /\ st = "reduce" => ReduceCall(at[r])
<1>1. /\ job \in Jobs /\ StageOK(r) /\ turn[r] \in Nat /\ Cardinality(Groups) \in Nat
  BY RankFacts
<1>2. turn[r] \in 1..Cardinality(Groups) /\ at[r] \in Calls /\ stage[r] = st
  BY <1>1 DEF InLoop, StageOK
<1>3. sortCommTags(r, turn[r]) \in Groups /\ Index(sortCommTags(r, turn[r])) = turn[r]
  BY <1>1, <1>2, GroupOrder
<1>4. (st = "bcast" => BcastCall(at[r])) /\ (st = "reduce" => ReduceCall(at[r]))
  BY <1>1, <1>2 DEF StageOK
<1> QED
  BY <1>2, <1>3, <1>4 DEF Group, LoopCall, BcastCall, ReduceCall

\* Going on to the next group or to the barrier in between.
Moved(S, st) ==
    \/ /\ st = "reduce" /\ job.sync_allreduce /\ turn' = turn
       /\ stage' = [r \in Rank |-> IF r \in S THEN "barrier" ELSE stage[r]]
    \/ /\ st = "bcast" \/ ~job.sync_allreduce
       /\ stage' = stage
       /\ turn' = [r \in Rank |-> IF r \in S THEN turn[r] + 1 ELSE turn[r]]

\* Ranks that stand at the same group leave it, all that belong to the group
\* or none.
LEMMA LeaveGroup ==
    ASSUME SyncInv, job' = job, at' = at, NEW S \in SUBSET Rank,
           NEW st \in {"reduce", "bcast"}, NEW n \in Calls, NEW k \in 1..Cardinality(Groups),
           \A r \in S : InLoop(r, st) /\ at[r] = n /\ turn[r] = k,
           \A g \in Groups : Index(g) = k => g \cap S = {} \/ g \subseteq S,
           Moved(S, st)
    PROVE  SyncInv'
<1>1. /\ Groups' = Groups /\ Calls' = Calls
      /\ \A m : OpOf(m)' = OpOf(m)
      /\ \A m : (ReduceCall(m)' <=> ReduceCall(m)) /\ (LoopCall(m)' <=> LoopCall(m))
      /\ \A m : BcastCall(m)' <=> BcastCall(m)
      /\ \A g : Index(g)' = Index(g)
  BY JobFrame
<1>2. /\ job \in Jobs /\ Cardinality(Groups) \in Nat
      /\ \A g \in Groups : Index(g) \in 1..Cardinality(Groups)
      /\ Groups \in SUBSET (SUBSET Rank)
  BY GroupOrder, GroupSets DEF SyncInv
<1>3. /\ at \in [Rank -> Nat] /\ turn \in [Rank -> Nat] /\ stage \in [Rank -> Stages]
  BY DEF SyncInv
<1>4. at' \in [Rank -> Nat] /\ turn' \in [Rank -> Nat] /\ stage' \in [Rank -> Stages]
  BY <1>3 DEF Moved, Stages
<1>5. \A q \in Rank \ S :
         /\ StageOK(q)'
         /\ \A m, g : Passed(q, m, g)' <=> Passed(q, m, g)
         /\ \A m, j : PassedBarrier(q, m, j)' <=> PassedBarrier(q, m, j)
  <2> SUFFICES ASSUME NEW q \in Rank \ S
               PROVE  /\ StageOK(q)'
                      /\ \A m, g : Passed(q, m, g)' <=> Passed(q, m, g)
                      /\ \A m, j : PassedBarrier(q, m, j)' <=> PassedBarrier(q, m, j)
    OBVIOUS
  <2>1. at'[q] = at[q] /\ stage'[q] = stage[q] /\ turn'[q] = turn[q]
    BY <1>3 DEF Moved
  <2>2. StageOK(q)
    BY DEF SyncInv
  <2> QED
    BY <2>1, <2>2, Standing
<1>6. \A q \in S : /\ turn[q] = k /\ at[q] = n /\ stage[q] = st /\ at'[q] = n
                   /\ StageOK(q) /\ LoopCall(n) /\ OpOf(n) # "norm"
                   /\ st = "bcast" => BcastCall(n)
                   /\ st = "reduce" => ReduceCall(n)
  BY AtGroup DEF SyncInv
<1>7. \A q \in S : \/ /\ st = "reduce" /\ job.sync_allreduce
                      /\ turn'[q] = k /\ stage'[q] = "barrier"
                   \/ /\ st = "bcast" \/ ~job.sync_allreduce
                      /\ turn'[q] = k + 1 /\ stage'[q] = st
  BY <1>3, <1>6 DEF Moved
<1>8. \A q \in Rank : StageOK(q)'
  <2> SUFFICES ASSUME NEW q \in S PROVE StageOK(q)'
    BY <1>5
  <2>1. k + 1 \in 1..(Cardinality(Groups) + 1) /\ n \in 1..(Len(job.program) + 1)
    BY <1>2, <1>6 DEF StageOK
  <2> QED
    BY <1>1, <1>2, <1>6, <1>7, <2>1 DEF StageOK, Stages
<1>9. \A q \in S : \A m \in Calls : \A g \in Groups :
         Passed(q, m, g)' <=> Passed(q, m, g) \/ (m = n /\ Index(g) = k)
  <2> SUFFICES ASSUME NEW q \in S, NEW m \in Calls, NEW g \in Groups
               PROVE  Passed(q, m, g)' <=> Passed(q, m, g) \/ (m = n /\ Index(g) = k)
    OBVIOUS
  <2>1. at[q] = n /\ at'[q] = n /\ Index(g) \in Nat /\ n \in Nat /\ m \in Nat
    BY <1>2, <1>6 DEF Calls
  <2>2. CASE m # n
    BY <2>1, <2>2 DEF Passed
  <2>3. CASE m = n
    <3>1. Passed(q, m, g) <=> k > Index(g)
      BY <1>6, <2>1, <2>3 DEF Passed
    <3>2. Passed(q, m, g)' <=> k + 1 > Index(g)
      BY <1>1, <1>7, <2>1, <2>3 DEF Passed
    <3> QED
      BY <2>1, <2>3, <3>1, <3>2
  <2> QED
    BY <2>2, <2>3
<1>10. \A q \in S : \A m \in Calls : \A j \in 1..Cardinality(Groups) :
          job.sync_allreduce /\ ReduceCall(m) =>
              (PassedBarrier(q, m, j)' <=> PassedBarrier(q, m, j))
  <2> SUFFICES ASSUME NEW q \in S, NEW m \in Calls, NEW j \in 1..Cardinality(Groups),
                      job.sync_allreduce, ReduceCall(m)
               PROVE  PassedBarrier(q, m, j)' <=> PassedBarrier(q, m, j)
    OBVIOUS
  <2>1. at[q] = n /\ at'[q] = n
    BY <1>6
  <2>2. CASE m # n
    BY <2>1, <2>2 DEF PassedBarrier
  <2>3. CASE m = n
    <3>1. st = "reduce"
      BY <1>6, <2>3 DEF BcastCall, ReduceCall
    <3>2. stage[q] = "reduce" /\ turn[q] = k /\ stage'[q] = "barrier" /\ turn'[q] = k
      BY <1>6, <1>7, <3>1
    <3> QED
      BY <2>1, <2>3, <3>2 DEF PassedBarrier
  <2> QED
    BY <2>2, <2>3
<1>11. GroupsTogether'
  <2> SUFFICES ASSUME NEW g \in Groups, NEW p \in g, NEW q \in g, NEW m \in Calls,
                      LoopCall(m), Passed(p, m, g)'
               PROVE  Passed(q, m, g)'
    BY <1>1 DEF GroupsTogether
  <2>1. p \in Rank /\ q \in Rank
    BY <1>2
  <2>2. CASE Passed(p, m, g)
    <3>1. Passed(q, m, g)
      BY <2>2 DEF SyncInv, GroupsTogether
    <3> QED
      BY <1>5, <1>9, <2>1, <3>1
  <2>3. CASE ~Passed(p, m, g)
    <3>1. p \in S /\ m = n /\ Index(g) = k
      BY <1>5, <1>9, <2>1, <2>3
    <3>2. q \in S
      BY <3>1
    <3> QED
      BY <1>9, <3>1, <3>2
  <2> QED
    BY <2>2, <2>3
<1>12. BarriersTogether'
  <2> SUFFICES ASSUME NEW p \in Rank, NEW q \in Rank, NEW m \in Calls,
                      NEW j \in 1..Cardinality(Groups), job.sync_allreduce, ReduceCall(m),
                      PassedBarrier(p, m, j)'
               PROVE  PassedBarrier(q, m, j)'
    BY <1>1 DEF BarriersTogether
  <2>1. PassedBarrier(p, m, j)
    BY <1>5, <1>10
  <2>2. PassedBarrier(q, m, j)
    BY <2>1 DEF SyncInv, BarriersTogether
  <2> QED
    BY <1>5, <1>10, <2>2
<1>13. NormsTogether'
  BY <1>1 DEF NormsTogether, SyncInv
<1> QED
  BY <1>2, <1>4, <1>8, <1>11, <1>12, <1>13 DEF SyncInv

\* The ranks of a collective are in the same call and at the same turn.
LEMMA MeetInCall ==
    ASSUME SyncInv, NEW g \in Groups, NEW st \in {"reduce", "bcast"}, Arrived(g, st)
    PROVE  \E n \in Calls :
              /\ LoopCall(n)
              /\ st = "bcast" => BcastCall(n)
              /\ st = "reduce" => ReduceCall(n)
              /\ \A r \in g : r \in Rank /\ InLoop(r, st) /\ at[r] = n /\ turn[r] = Index(g)
<1>1. g \in SUBSET Rank /\ g # {}
  BY GroupSets DEF SyncInv
<1>2. PICK q \in g : TRUE
  BY <1>1
<1>3. \A r \in g : /\ r \in Rank /\ InLoop(r, st) /\ turn[r] = Index(g) /\ at[r] \in Calls
                   /\ LoopCall(at[r]) /\ stage[r] = st /\ at[r] \in Nat
                   /\ st = "bcast" => BcastCall(at[r])
                   /\ st = "reduce" => ReduceCall(at[r])
  BY <1>1, AtGroup, RankFacts DEF Arrived
<1>4. \A r \in g : ~Passed(r, at[r], g)
  <2>1. Index(g) \in Nat
    BY GroupOrder DEF SyncInv
  <2> QED
    BY <1>3, <2>1 DEF Passed
<1>5. \A p, r \in g : ~(at[p] > at[r])
  <2> SUFFICES ASSUME NEW p \in g, NEW r \in g, at[p] > at[r] PROVE FALSE
    OBVIOUS
  <2>1. Passed(p, at[r], g)
    BY DEF Passed
  <2>2. Passed(r, at[r], g)
    BY <1>3, <2>1 DEF SyncInv, GroupsTogether
  <2> QED
    BY <1>4, <2>2
<1>6. \A r \in g : at[r] = at[q]
  BY <1>3, <1>5
<1> QED
  BY <1>3, <1>6

\* NextTurn, for the walks with and without a barrier.
LEMMA NextTurnMoves ==
    ASSUME NEW S, NextTurn(S)
    PROVE  Moved(S, "reduce")
  BY DEF NextTurn, Moved

\* A rank walks past a group it is not part of; nobody waits for it there.
LEMMA SyncSkip ==
    ASSUME SyncInv, NEW r \in Rank, SkipGroup(r) \/ SkipBcast(r)
    PROVE  SyncInv'
<1>1. PICK st \in {"reduce", "bcast"} :
         /\ InLoop(r, st) /\ r \notin Group(r) /\ Moved({r}, st)
         /\ job' = job /\ at' = at
  <2>1. CASE SkipGroup(r)
    <3>1. Moved({r}, "reduce")
      BY <2>1, NextTurnMoves DEF SkipGroup
    <3> QED
      BY <2>1, <3>1 DEF SkipGroup
  <2>2. CASE SkipBcast(r)
    <3>1. turn \in [Rank -> Nat]
      BY DEF SyncInv
    <3>2. turn' = [q \in Rank |-> IF q \in {r} THEN turn[q] + 1 ELSE turn[q]]
      BY <2>2, <3>1 DEF SkipBcast
    <3>3. Moved({r}, "bcast")
      BY <2>2, <3>2 DEF SkipBcast, Moved
    <3> QED
      BY <2>2, <3>3 DEF SkipBcast
  <2> QED
    BY <2>1, <2>2
<1>2. /\ turn[r] \in 1..Cardinality(Groups) /\ at[r] \in Calls
      /\ Group(r) \in Groups /\ Index(Group(r)) = turn[r]
  BY <1>1, AtGroup
<1>3. \A g \in Groups : Index(g) = turn[r] => g \cap {r} = {} \/ g \subseteq {r}
  <2>1. \A g \in Groups : Index(g) = turn[r] => g = Group(r)
    BY <1>2, GroupOrder DEF SyncInv
  <2> QED
    BY <1>1, <2>1
<1>4. {r} \in SUBSET Rank /\ \A q \in {r} : InLoop(q, st) /\ at[q] = at[r] /\ turn[q] = turn[r]
  BY <1>1
<1> QED
  BY <1>1, <1>2, <1>3, <1>4, LeaveGroup

\* A collective: exactly the ranks of the group move, all of them.
LEMMA SyncCollective ==
    ASSUME SyncInv, NEW g \in Groups, ReduceGroup(g) \/ BcastGroup(g)
    PROVE  SyncInv'
<1>1. PICK st \in {"reduce", "bcast"} :
         Arrived(g, st) /\ Moved(g, st) /\ job' = job /\ at' = at
  <2>1. CASE ReduceGroup(g)
    <3>1. Moved(g, "reduce")
      BY <2>1, NextTurnMoves DEF ReduceGroup
    <3> QED
      BY <2>1, <3>1 DEF ReduceGroup
  <2>2. CASE BcastGroup(g)
    <3>1. Moved(g, "bcast")
      BY <2>2 DEF BcastGroup, Moved
    <3> QED
      BY <2>2, <3>1 DEF BcastGroup
  <2> QED
    BY <2>1, <2>2
<1>2. PICK n \in Calls :
         \A r \in g : r \in Rank /\ InLoop(r, st) /\ at[r] = n /\ turn[r] = Index(g)
  BY <1>1, MeetInCall
<1>3. g \in SUBSET Rank /\ Index(g) \in 1..Cardinality(Groups)
  BY <1>2, GroupOrder DEF SyncInv
<1>4. \A h \in Groups : Index(h) = Index(g) => h \cap g = {} \/ h \subseteq g
  <2>1. \A h \in Groups : Index(h) = Index(g) => h = g
    BY GroupOrder DEF SyncInv
  <2> QED
    BY <2>1
<1> QED
  BY <1>1, <1>2, <1>3, <1>4, LeaveGroup

-----------------------------------------------------------------------------
(* Steps of all ranks together. *)

\* All ranks in the same state stay together in every collective.
LEMMA AllEqual ==
    ASSUME SyncInv, job' = job, at' \in [Rank -> Nat], turn' \in [Rank -> Nat],
           stage' \in [Rank -> Stages], \A r \in Rank : StageOK(r)',
           NEW n, \A r \in Rank : at'[r] = n,
           NEW st \in {"call", "reduce"}, \A r \in Rank : stage'[r] = st,
           NEW k, st = "reduce" => \A r \in Rank : turn'[r] = k
    PROVE  SyncInv'
<1>1. /\ Groups' = Groups /\ Calls' = Calls
      /\ \A m : OpOf(m)' = OpOf(m)
      /\ \A g : Index(g)' = Index(g)
  BY JobFrame
<1>2. \A q, r \in Rank : \A m, g : Passed(q, m, g)' => Passed(r, m, g)'
  BY DEF Passed
<1>3. \A q, r \in Rank : \A m, j : PassedBarrier(q, m, j)' => PassedBarrier(r, m, j)'
  BY DEF PassedBarrier
<1>4. GroupsTogether'
  <2>1. \A g \in Groups : g \in SUBSET Rank
    BY GroupSets DEF SyncInv
  <2> QED
    BY <1>1, <1>2, <2>1 DEF GroupsTogether
<1>5. BarriersTogether'
  BY <1>3 DEF BarriersTogether
<1>6. NormsTogether'
  BY <1>1 DEF NormsTogether
<1>7. job' \in Jobs
  BY DEF SyncInv
<1> QED
  BY <1>4, <1>5, <1>6, <1>7 DEF SyncInv

\* The barrier after each group under sync_allreduce moves every rank at once.
LEMMA SyncBarrier ==
    ASSUME SyncInv, Barrier
    PROVE  SyncInv'
<1>1. /\ \A r \in Rank : stage[r] = "barrier"
      /\ stage' = [r \in Rank |-> "reduce"]
      /\ turn' = [r \in Rank |-> turn[r] + 1]
      /\ job' = job /\ at' = at
  BY DEF Barrier
<1>2. \A r \in Rank : /\ StageOK(r) /\ at[r] \in Nat /\ turn[r] \in Nat
                      /\ at[r] \in Calls /\ ReduceCall(at[r])
                      /\ turn[r] \in 1..Cardinality(Groups) /\ job.sync_allreduce
                      /\ Cardinality(Groups) \in Nat
  BY <1>1, RankFacts DEF StageOK
<1>3. PICK q \in Rank : TRUE
  BY RankAssumption
<1>4. \A p, r \in Rank : ~(at[p] > at[r])
  <2> SUFFICES ASSUME NEW p \in Rank, NEW r \in Rank, at[p] > at[r] PROVE FALSE
    OBVIOUS
  <2>1. PassedBarrier(p, at[r], turn[r])
    BY DEF PassedBarrier
  <2>2. PassedBarrier(r, at[r], turn[r])
    BY <1>2, <2>1 DEF SyncInv, BarriersTogether
  <2> QED
    BY <1>2, <2>2 DEF PassedBarrier
<1>5. \A p, r \in Rank : at[p] = at[r]
  BY <1>2, <1>4
<1>6. \A p, r \in Rank : ~(turn[p] > turn[r])
  <2> SUFFICES ASSUME NEW p \in Rank, NEW r \in Rank, turn[p] > turn[r] PROVE FALSE
    OBVIOUS
  <2>1. PassedBarrier(p, at[r], turn[r])
    BY <1>1, <1>5 DEF PassedBarrier
  <2>2. PassedBarrier(r, at[r], turn[r])
    BY <1>2, <2>1 DEF SyncInv, BarriersTogether
  <2> QED
    BY <1>2, <2>2 DEF PassedBarrier
<1>7. \A p, r \in Rank : turn[p] = turn[r]
  BY <1>2, <1>6
<1>8. /\ at' \in [Rank -> Nat] /\ turn' \in [Rank -> Nat] /\ stage' \in [Rank -> Stages]
      /\ \A r \in Rank : at'[r] = at[q] /\ stage'[r] = "reduce" /\ turn'[r] = turn[q] + 1
  <2>1. at \in [Rank -> Nat]
    BY DEF SyncInv
  <2> QED
    BY <1>1, <1>2, <1>5, <1>7, <2>1 DEF Stages
<1>9. \A r \in Rank : StageOK(r)'
  <2> SUFFICES ASSUME NEW r \in Rank PROVE StageOK(r)'
    OBVIOUS
  <2>1. turn'[r] = turn[r] + 1 /\ stage'[r] = "reduce" /\ at'[r] = at[r]
    BY <1>1
  <2>2. turn[r] + 1 \in 1..(Cardinality(Groups) + 1)
    BY <1>2
  <2> QED
    BY <1>1, <1>2, <2>1, <2>2, JobFrame DEF StageOK, Stages
<1> QED
  BY <1>1, <1>8, <1>9, AllEqual

\* The all-reduce of the gradient norm moves every rank at once.
LEMMA SyncNorm ==
    ASSUME SyncInv, Norm
    PROVE  SyncInv'
<1>1. /\ \A r \in Rank : In(r, "norm", "call")
      /\ at' = [r \in Rank |-> at[r] + 1]
      /\ job' = job /\ stage' = stage /\ turn' = turn
  BY DEF Norm
<1>2. \A r \in Rank : at[r] \in Calls /\ OpOf(at[r]) = "norm" /\ stage[r] = "call"
                      /\ StageOK(r) /\ at[r] \in Nat
  BY <1>1, InCall, RankFacts
<1>3. PICK q \in Rank : TRUE
  BY RankAssumption
<1>4. \A p, r \in Rank : ~(at[p] > at[r])
  <2> SUFFICES ASSUME NEW p \in Rank, NEW r \in Rank, at[p] > at[r] PROVE FALSE
    OBVIOUS
  <2>1. at[r] > at[r]
    BY <1>2 DEF SyncInv, NormsTogether
  <2> QED
    BY <1>2, <2>1
<1>5. \A r \in Rank : at[r] = at[q]
  BY <1>2, <1>4
<1>6. /\ at' \in [Rank -> Nat] /\ turn' \in [Rank -> Nat] /\ stage' \in [Rank -> Stages]
      /\ \A r \in Rank : at'[r] = at[q] + 1 /\ stage'[r] = "call"
  BY <1>1, <1>2, <1>5 DEF SyncInv
<1>7. \A r \in Rank : StageOK(r)'
  <2> SUFFICES ASSUME NEW r \in Rank PROVE StageOK(r)'
    OBVIOUS
  <2>1. at'[r] = at[r] + 1 /\ stage'[r] = "call" /\ turn'[r] = turn[r]
    BY <1>1, <1>2
  <2>2. at[r] + 1 \in 1..(Len(job.program) + 1)
    BY <1>2, ProgramFacts DEF SyncInv, Calls
  <2> QED
    BY <1>1, <1>2, <2>1, <2>2, JobFrame DEF StageOK, Stages
<1> QED
  BY <1>1, <1>6, <1>7, AllEqual

-----------------------------------------------------------------------------

\* All ranks start at the first call.
LEMMA SyncInit == Init => SyncInv
<1> SUFFICES ASSUME Init PROVE SyncInv
  OBVIOUS
<1>1. job \in Jobs /\ \A r \in Rank : at[r] = 1 /\ stage[r] = "call" /\ turn[r] = 0
  BY DEF Init
<1>2. Cardinality(Groups) \in Nat /\ Len(job.program) \in Nat
  BY <1>1, GroupOrder, ProgramFacts
<1>3. at \in [Rank -> Nat] /\ turn \in [Rank -> Nat] /\ stage \in [Rank -> Stages]
  BY DEF Init, Stages
<1>4. \A r \in Rank : StageOK(r)
  BY <1>1, <1>2 DEF StageOK, Stages
<1>5. GroupsTogether
  <2>1. \A g \in Groups : g \in SUBSET Rank
    BY <1>1, GroupSets
  <2> QED
    BY <1>1, <2>1 DEF GroupsTogether, Passed
<1>6. BarriersTogether
  BY <1>1 DEF BarriersTogether, PassedBarrier
<1>7. NormsTogether
  BY <1>1 DEF NormsTogether
<1> QED
  BY <1>1, <1>3, <1>4, <1>5, <1>6, <1>7 DEF SyncInv

\* A step that changes no variable.
LEMMA SyncStutter ==
    ASSUME SyncInv, UNCHANGED vars
    PROVE  SyncInv'
<1>1. job' = job /\ at' = at /\ stage' = stage /\ turn' = turn
  BY DEF vars
<1>2. /\ Groups' = Groups /\ Calls' = Calls
      /\ \A n : OpOf(n)' = OpOf(n)
      /\ \A n : (ReduceCall(n)' <=> ReduceCall(n)) /\ (LoopCall(n)' <=> LoopCall(n))
  BY <1>1, JobFrame
<1>3. \A q \in Rank :
         /\ StageOK(q)'
         /\ \A n, g : Passed(q, n, g)' <=> Passed(q, n, g)
         /\ \A n, k : PassedBarrier(q, n, k)' <=> PassedBarrier(q, n, k)
  BY <1>1, Standing DEF SyncInv
<1>4. GroupsTogether'
  <2>1. \A g \in Groups : g \in SUBSET Rank
    BY GroupSets DEF SyncInv
  <2> QED
    BY <1>2, <1>3, <2>1 DEF SyncInv, GroupsTogether
<1>5. BarriersTogether'
  BY <1>1, <1>2, <1>3 DEF SyncInv, BarriersTogether
<1>6. NormsTogether'
  BY <1>1, <1>2 DEF SyncInv, NormsTogether
<1> QED
  BY <1>1, <1>3, <1>4, <1>5, <1>6 DEF SyncInv

\* Every step of every rank, and every joint step, keeps the invariant.
LEMMA SyncNext == SyncInv /\ [Next]_vars => SyncInv'
<1> SUFFICES ASSUME SyncInv, [Next]_vars PROVE SyncInv'
  OBVIOUS
<1>1. ASSUME NEW r \in Rank,
             \/ Forward(r) \/ ForwardCompute(r)
             \/ Backward(r) \/ BackwardCompute(r) \/ BackwardUnscale(r)
             \/ AllReduceGrads(r) \/ SkipGroup(r) \/ LeaveReduce(r)
             \/ SkipBcast(r) \/ LeaveBcast(r)
             \/ ZeroGrad(r) \/ Step(r)
      PROVE  SyncInv'
  BY <1>1, SyncForward, SyncForwardCompute, SyncBackward, SyncBackwardCompute,
     SyncPlainReturn, SyncAllReduceGrads, SyncSkip, SyncLeaveReduce, SyncLeaveBcast
<1>2. ASSUME NEW g \in Groups, ReduceGroup(g) \/ BcastGroup(g)
      PROVE  SyncInv'
  BY <1>2, SyncCollective
<1> QED
  BY <1>1, <1>2, SyncBarrier, SyncNorm, SyncStutter DEF Next

\* The ranks stay synchronised in every behaviour of the program.
LEMMA Synchronised == Spec => []SyncInv
  BY SyncInit, SyncNext, PTL DEF Spec

-----------------------------------------------------------------------------
(* No cyclic wait. *)

\* Someone is behind all others.
LEMMA Hindmost ==
    ASSUME NEW S \in SUBSET Rank, S # {}, NEW f \in [Rank -> Nat]
    PROVE  \E r \in S : \A q \in S : f[r] <= f[q]
<1>1. PICK U \in SUBSET Nat : U = {f[q] : q \in S}
  OBVIOUS
<1>2. U # {}
  BY <1>1
<1>3. PICK m \in U : \A n \in U : m <= n
  BY <1>2, LeastNat
<1> QED
  BY <1>1, <1>3

\* The rank that is hindmost, by call and then by turn, is held up by nobody.
LEMMA SomeoneMoves == SyncInv => NoCyclicWait
<1> SUFFICES ASSUME SyncInv,
                    \E r \in Rank : Running(r),
                    \A r \in Rank : ~CanMove(r)
             PROVE  \/ \A r \in Rank : stage[r] = "barrier"
                    \/ \A r \in Rank : In(r, "norm", "call")
  BY DEF NoCyclicWait
<1>1. /\ job \in Jobs /\ at \in [Rank -> Nat] /\ turn \in [Rank -> Nat]
      /\ \A r \in Rank : StageOK(r)
  BY DEF SyncInv
<1>2. /\ Cardinality(Groups) \in Nat
      /\ \A g \in Groups : Index(g) \in 1..Cardinality(Groups)
      /\ Groups \in SUBSET (SUBSET Rank)
  BY <1>1, GroupOrder, GroupSets
<1>3. Len(job.program) \in Nat /\ Calls = 1..Len(job.program)
  BY <1>1, ProgramFacts DEF Calls
<1>4. PICK f \in Rank : \A q \in Rank : at[f] <= at[q]
  <2>1. Rank \in SUBSET Rank /\ Rank # {}
    BY RankAssumption
  <2> QED
    BY <1>1, <2>1, Hindmost
<1>5. PICK n \in Nat : n = at[f] /\ n \in Calls
  <2>1. PICK r \in Rank : at[r] <= Len(job.program)
    BY DEF Running
  <2>2. at[f] <= Len(job.program) /\ at[f] \in 1..(Len(job.program) + 1)
    BY <1>1, <1>3, <1>4, <2>1 DEF StageOK
  <2> QED
    BY <1>1, <1>3, <2>2
<1>6. PICK M \in SUBSET Rank : M = {q \in Rank : at[q] = n}
  OBVIOUS
<1>7. f \in M
  BY <1>5, <1>6
<1>8. \A q \in M : q \in Rank /\ at[q] = n /\ Running(q)
  BY <1>3, <1>5, <1>6 DEF Running
<1>9. \A q \in Rank \ M : at[q] > n
  BY <1>1, <1>4, <1>5, <1>6
\* Whoever is in the first call waits for something.
<1>10. \A q \in M : \/ stage[q] = "call" /\ OpOf(n) = "norm"
                    \/ stage[q] = "barrier"
                    \/ /\ stage[q] \in {"reduce", "bcast"} /\ InLoop(q, stage[q])
                       /\ q \in Group(q) /\ ~Arrived(Group(q), stage[q])
  <2> SUFFICES ASSUME NEW q \in M
               PROVE  \/ stage[q] = "call" /\ OpOf(n) = "norm"
                      \/ stage[q] = "barrier"
                      \/ /\ stage[q] \in {"reduce", "bcast"} /\ InLoop(q, stage[q])
                         /\ q \in Group(q) /\ ~Arrived(Group(q), stage[q])
    OBVIOUS
  <2>1. q \in Rank /\ at[q] = n /\ Running(q) /\ ~CanMove(q) /\ turn[q] \in Nat
    BY <1>1, <1>8
  <2>2. CASE stage[q] = "call" /\ Call(q).op = "norm"
    BY <2>1, <2>2 DEF Call, OpOf
  <2>3. CASE stage[q] = "barrier"
    BY <2>3
  <2>4. CASE /\ stage[q] \in {"reduce", "bcast"} /\ ~(turn[q] > Cardinality(Groups))
             /\ q \in Group(q) /\ ~Arrived(Group(q), stage[q])
    <3>1. turn[q] <= Cardinality(Groups)
      BY <1>2, <2>1, <2>4
    <3> QED
      BY <2>4, <3>1 DEF InLoop
  <2> QED
    BY <2>1, <2>2, <2>3, <2>4 DEF CanMove
<1>11. CASE OpOf(n) = "norm"
  <2>1. \A q \in Rank : at[q] = n
    <3> SUFFICES ASSUME NEW q \in Rank, at[q] > n PROVE FALSE
      BY <1>6, <1>9
    <3>1. at[f] > n
      BY <1>5, <1>11 DEF SyncInv, NormsTogether
    <3> QED
      BY <1>5, <3>1
  <2>2. \A q \in Rank : stage[q] = "call"
    <3> SUFFICES ASSUME NEW q \in Rank PROVE stage[q] = "call"
      OBVIOUS
    <3>1. at[q] = n /\ StageOK(q)
      BY <1>1, <2>1
    <3> QED
      BY <1>11, <3>1 DEF StageOK, Stages, ReduceCall, BcastCall
  <2> QED
    BY <1>3, <1>5, <1>11, <2>1, <2>2 DEF In, Running, Call, OpOf
<1>12. CASE OpOf(n) # "norm"
  <2>1. PICK l \in M : \A q \in M : turn[l] <= turn[q]
    BY <1>1, <1>7, Hindmost
  <2>2. PICK k \in Nat : k = turn[l]
    BY <1>1, <1>8
  \* No rank stands in front of a group at the lowest turn.
  <2>3. ASSUME NEW q \in M, turn[q] = k, stage[q] \in {"reduce", "bcast"}
        PROVE  FALSE
    <3>1. /\ q \in Rank /\ InLoop(q, stage[q]) /\ q \in Group(q) /\ ~Arrived(Group(q), stage[q])
      BY <1>8, <1>10, <2>3
    <3>2. PICK g \in Groups : g = Group(q) /\ Index(g) = k /\ LoopCall(n)
      BY <1>8, <2>3, <3>1, AtGroup
    <3>3. ~Passed(q, n, g)
      BY <1>1, <1>8, <2>3, <3>2 DEF Passed
    <3>4. PICK p \in g : ~(InLoop(p, stage[q]) /\ Group(p) = g)
      BY <3>1, <3>2 DEF Arrived
    <3>5. p \in Rank
      BY <1>2
    <3>6. ~Passed(p, n, g)
      BY <1>5, <3>1, <3>2, <3>3 DEF SyncInv, GroupsTogether
    <3>7. p \in M
      <4>1. ~(at[p] > n)
        BY <3>6 DEF Passed
      <4> QED
        BY <1>9, <3>5, <4>1
    <3>8. k <= turn[p] /\ turn[p] \in Nat
      BY <1>1, <2>1, <2>2, <3>5, <3>7
    <3>9. at[p] = n /\ stage[p] # "barrier"
      <4>1. at[p] = n
        BY <1>8, <3>7
      <4>2. ~(turn[p] >= k)  \/ stage[p] # "barrier"
        BY <3>2, <3>6, <4>1 DEF Passed
      <4> QED
        BY <2>2, <3>8, <4>1, <4>2
    <3>10. stage[p] \in {"reduce", "bcast"} /\ InLoop(p, stage[p])
      BY <1>10, <1>12, <3>7, <3>9
    <3>11. turn[p] = k
      <4>1. ~(turn[p] > k)
        BY <3>2, <3>6, <3>9, <3>10 DEF Passed
      <4> QED
        BY <2>2, <3>8, <4>1
    <3>12. stage[p] = stage[q]
      <4>1. StageOK(p) /\ StageOK(q) /\ at[q] = n
        BY <1>1, <1>8, <3>5
      <4> QED
        BY <2>3, <3>9, <3>10, <4>1 DEF StageOK, ReduceCall, BcastCall
    <3>13. Group(p) \in Groups /\ Index(Group(p)) = k
      BY <3>5, <3>10, <3>11, AtGroup
    <3>14. Group(p) = g
      BY <1>1, <3>2, <3>13, GroupOrder
    <3> QED
      BY <3>4, <3>10, <3>12, <3>14
  <2>4. stage[l] = "barrier"
    BY <1>10, <1>12, <2>2, <2>3
  <2>5. /\ k \in 1..Cardinality(Groups) /\ job.sync_allreduce /\ ReduceCall(n)
    BY <1>1, <1>8, <2>2, <2>4 DEF StageOK
  <2>6. ~PassedBarrier(l, n, k)
    BY <1>8, <2>2 DEF PassedBarrier
  <2>7. ASSUME NEW q \in Rank
        PROVE  stage[q] = "barrier"
    <3>1. ~PassedBarrier(q, n, k)
      BY <1>5, <1>8, <2>5, <2>6 DEF SyncInv, BarriersTogether
    <3>2. q \in M
      <4>1. ~(at[q] > n)
        BY <3>1 DEF PassedBarrier
      <4> QED
        BY <1>9, <4>1
    <3>3. turn[q] \in Nat /\ at[q] = n /\ k <= turn[q]
      BY <1>1, <1>8, <2>1, <2>2, <3>2
    <3>4. SUFFICES ASSUME stage[q] # "barrier" PROVE FALSE
      OBVIOUS
    <3>5. stage[q] \in {"reduce", "bcast"}
      BY <1>10, <1>12, <3>2, <3>4
    <3>6. stage[q] = "reduce"
      BY <1>1, <2>5, <3>3, <3>5 DEF StageOK, BcastCall, ReduceCall
    <3>7. ~(turn[q] > k)
      BY <3>1, <3>3, <3>6 DEF PassedBarrier
    <3>8. turn[q] = k
      BY <3>3, <3>7
    <3> QED
      BY <2>3, <3>2, <3>5, <3>8
  <2> QED
    BY <2>7
<1> QED
  BY <1>11, <1>12

(***************************************************************************)
(* Whatever the placement of the subgraphs, however the rank groups of     *)
(* parameters overlap, and whatever program of forward, backward, delayed  *)
(* all-reduce, norm and optimizer calls the ranks run, each at its own     *)
(* pace: they never wait for each other in a circle.                       *)
(***************************************************************************)
THEOREM DeadlockFree == Spec => []NoCyclicWait
  BY Synchronised, SomeoneMoves, PTL


-----------------------------------------------------------------------------
(* Gradients are defined together. *)

RanStages == {"unscale", "reduce", "barrier"}

\* Rank r has run some backward pass.
Held(r) == \E n \in Backwards : HasRun(r, n)

\* The part of DefinedInv that is about rank r.
GradShape(r) ==
    /\ DOMAIN grad[r] = ParamsOn(r)
    /\ \A p \in ParamsOn(r) :
         /\ grad[r][p] = Undefined \/ DOMAIN grad[r][p] = Segments(p)
         /\ grad[r][p] # Undefined <=> Held(r)

\* A step of rank q that runs no backward pass.
Quiet(q) ==
    \/ /\ at'[q] = at[q]
       /\ OpOf(at[q]) = "backward" => (stage'[q] \in RanStages <=> stage[q] \in RanStages)
    \/ /\ at'[q] = at[q] + 1 /\ stage'[q] = "call"
       /\ OpOf(at[q]) = "backward" => stage[q] \in RanStages

\* The gradients of rank q may change, but not whether they are defined.
SameDefined(q) ==
    /\ DOMAIN grad'[q] = ParamsOn(q)
    /\ \A p \in ParamsOn(q) :
         IF grad[q][p] = Undefined THEN grad'[q][p] = Undefined
                                   ELSE DOMAIN grad'[q][p] = Segments(p)

\* DefinedInv, rank by rank.
LEMMA DefinedByRank == DefinedInv <=> DOMAIN grad = Rank /\ \A r \in Rank : GradShape(r)
  BY DEF DefinedInv, GradShape, Held

\* A parameter has at least one segment, so that a gradient with a value in
\* every segment is not the undefined one.
LEMMA HasSegments ==
    ASSUME job \in Jobs, NEW p \in Params
    PROVE  /\ Segments(p) # {}
           /\ \A f : DOMAIN f = Segments(p) => f # Undefined
<1>1. ranks_(p) # {} /\ IsFiniteSet(ranks_(p)) /\ Cardinality(ranks_(p)) \in Nat
  BY GroupSets
<1>2. Cardinality(ranks_(p)) # 0
  BY <1>1, FS_EmptySet
<1>3. Segments(p) # {}
  <2>1. 1 \in 1..Cardinality(ranks_(p))
    BY <1>1, <1>2
  <2> QED
    BY <2>1 DEF Segments
<1>4. DOMAIN Undefined = {}
  BY DEF Undefined
<1> QED
  BY <1>3, <1>4

\* Segments, holders and users of parameters depend on the job only.
LEMMA DataFrame ==
    ASSUME job' = job
    PROVE  /\ \A p : Segments(p)' = Segments(p)
           /\ \A r : ParamsOn(r)' = ParamsOn(r)
           /\ \A r, p, i : Uses(r, p, i)' <=> Uses(r, p, i)
           /\ \A n : StepsBefore(n)' = StepsBefore(n)
<1>1. Params' = Params /\ \A p : ranks_(p)' = ranks_(p)
  BY JobFrame
<1>2. \A p : Segments(p)' = Segments(p)
  BY <1>1 DEF Segments
<1>3. \A r : ParamsOn(r)' = ParamsOn(r)
  BY <1>1 DEF ParamsOn
<1>4. \A p, i : Owner(p, i)' = Owner(p, i)
  BY <1>1 DEF Owner
<1>5. \A n : StepsBefore(n)' = StepsBefore(n)
  BY DEF StepsBefore, OpOf
<1> QED
  BY <1>2, <1>3, <1>4, <1>5 DEF Uses

\* A rank that ends no backward pass holds a gradient after the step iff it did before.
LEMMA HeldKept ==
    ASSUME SyncInv, job' = job, NEW q \in Rank, Quiet(q)
    PROVE  Held(q)' <=> Held(q)
<1>1. Backwards' = Backwards
  BY JobFrame
<1>2. at[q] \in Nat
  BY RankFacts
<1>3. \A n \in Backwards : n \in Nat /\ OpOf(n) = "backward"
  BY ProgramFacts DEF SyncInv, Backwards, OpOf, Calls
<1>4. \A n \in Backwards : HasRun(q, n)' <=> HasRun(q, n)
  <2> SUFFICES ASSUME NEW n \in Backwards PROVE HasRun(q, n)' <=> HasRun(q, n)
    OBVIOUS
  <2>1. "call" \notin RanStages
    BY DEF RanStages
  <2>2. HasRun(q, n) <=> (n < at[q] \/ (n = at[q] /\ stage[q] \in RanStages))
    BY DEF HasRun, RanStages
  <2>3. HasRun(q, n)' <=> (n < at'[q] \/ (n = at'[q] /\ stage'[q] \in RanStages))
    BY DEF HasRun, RanStages
  <2> QED
    BY <1>2, <1>3, <2>1, <2>2, <2>3 DEF Quiet
<1> QED
  BY <1>1, <1>4 DEF Held

\* A quiet step that defines and drops no gradient keeps the shape of a rank's gradients.
LEMMA ShapeKept ==
    ASSUME SyncInv, job' = job, NEW q \in Rank, Quiet(q), SameDefined(q), GradShape(q)
    PROVE  GradShape(q)'
<1>1. Held(q)' <=> Held(q)
  BY HeldKept
<1>2. ParamsOn(q)' = ParamsOn(q) /\ \A p : Segments(p)' = Segments(p)
  BY DataFrame
<1>3. ParamsOn(q) \subseteq Params
  BY DEF ParamsOn
<1>4. \A p \in ParamsOn(q) : \A f : DOMAIN f = Segments(p) => f # Undefined
  BY <1>3, HasSegments DEF SyncInv
<1> QED
  BY <1>1, <1>2, <1>4 DEF GradShape, SameDefined, Undefined

\* Scaling leaves undefined gradients alone, and the others defined.
LEMMA ScaledShape ==
    ASSUME NEW g, NEW x, NEW D, g = Undefined \/ DOMAIN g = D
    PROVE  IF g = Undefined THEN Scaled(g, x) = Undefined ELSE DOMAIN Scaled(g, x) = D
  BY DEF Scaled

-----------------------------------------------------------------------------
\* What a step of rank r alone leaves to be shown.
LEMMA ShapeByRank ==
    ASSUME SyncInv, DefinedInv, job' = job, NEW r \in Rank, DOMAIN grad' = Rank,
           \A q \in Rank \ {r} : at'[q] = at[q] /\ stage'[q] = stage[q] /\ grad'[q] = grad[q],
           Quiet(r), SameDefined(r)
    PROVE  DefinedInv'
<1>1. \A q \in Rank : GradShape(q)
  BY DefinedByRank
<1>2. \A q \in Rank \ {r} : Quiet(q) /\ SameDefined(q)
  BY <1>1 DEF Quiet, SameDefined, GradShape
<1>3. \A q \in Rank : GradShape(q)'
  BY <1>1, <1>2, ShapeKept
<1>4. DefinedInv' <=> (DOMAIN grad' = Rank /\ \A q \in Rank : GradShape(q)')
  BY DEF DefinedInv, GradShape, Held
<1> QED
  BY <1>3, <1>4

\* Where a step of rank r leaves the others.
LEMMA OthersStand ==
    ASSUME SyncInv, NEW r \in Rank, NEW st,
           \/ Goto(r, st) /\ at' = at
           \/ Return(r)
           \/ EnterLoop(r, st) /\ at' = at
    PROVE  /\ \A q \in Rank \ {r} : at'[q] = at[q] /\ stage'[q] = stage[q]
           /\ \/ at'[r] = at[r] + 1 /\ stage'[r] = "call" /\ Return(r)
              \/ at'[r] = at[r] /\ stage'[r] = st
<1>1. at \in [Rank -> Nat] /\ stage \in [Rank -> Stages]
  BY DEF SyncInv
<1> QED
  BY <1>1 DEF Goto, Return, EnterLoop

\* The actions that leave gradients alone.
LEMMA DefinedElsewhere ==
    ASSUME SyncInv, DefinedInv, NEW r \in Rank,
           \/ Forward(r) \/ ForwardCompute(r) \/ LeaveReduce(r) \/ LeaveBcast(r) \/ Step(r)
    PROVE  DefinedInv'
<1>1. job' = job /\ grad' = grad
  BY DEF Forward, ForwardCompute, LeaveReduce, LeaveBcast, Step
<1>2. /\ \A q \in Rank \ {r} : at'[q] = at[q] /\ stage'[q] = stage[q]
      /\ Quiet(r)
  <2>1. CASE Forward(r)
    <3>1. OpOf(at[r]) = "forward"
      BY <2>1, InCall DEF Forward
    <3>2. at' = at /\ (Goto(r, "bcast") \/ Goto(r, "run"))
      BY <2>1 DEF Forward, EnterLoop
    <3> QED
      BY <3>1, <3>2, OthersStand DEF Quiet
  <2>2. CASE ForwardCompute(r) \/ Step(r)
    <3>1. OpOf(at[r]) \in {"forward", "step"} /\ stage[r] \in {"run", "call"}
      BY <2>2, InCall DEF ForwardCompute, Step
    <3>2. Return(r)
      BY <2>2 DEF ForwardCompute, Step
    <3>3. at'[r] = at[r] + 1 /\ stage'[r] = "call"
      BY <3>2, RankFacts DEF Return, Goto
    <3> QED
      BY <3>1, <3>2, <3>3, OthersStand DEF Quiet
  <2>3. CASE LeaveReduce(r)
    <3>1. Return(r) /\ stage[r] \in RanStages
      BY <2>3 DEF LeaveReduce, RanStages
    <3>2. at'[r] = at[r] + 1 /\ stage'[r] = "call"
      BY <3>1, RankFacts DEF Return, Goto
    <3> QED
      BY <3>1, <3>2, OthersStand DEF Quiet
  <2>4. CASE LeaveBcast(r)
    <3>1. Goto(r, "run") /\ at' = at /\ stage[r] = "bcast"
      BY <2>4 DEF LeaveBcast
    <3>2. stage'[r] = "run" /\ at'[r] = at[r]
      BY <3>1, RankFacts DEF Goto
    <3>3. OpOf(at[r]) = "forward"
      BY <3>1, RankFacts DEF StageOK, BcastCall
    <3> QED
      BY <3>1, <3>2, <3>3, OthersStand DEF Quiet
  <2> QED
    BY <2>1, <2>2, <2>3, <2>4
<1>3. SameDefined(r)
  BY <1>1, DefinedByRank DEF SameDefined, GradShape
<1>4. DOMAIN grad' = Rank
  BY <1>1 DEF DefinedInv
<1> QED
  BY <1>1, <1>2, <1>3, <1>4, ShapeByRank

\* Scaling, unscaling and clearing.
LEMMA DefinedRescaled ==
    ASSUME SyncInv, DefinedInv, NEW r \in Rank,
           \/ Backward(r) \/ BackwardUnscale(r) \/ AllReduceGrads(r) \/ ZeroGrad(r)
    PROVE  DefinedInv'
<1>1. job' = job
  BY DEF Backward, BackwardUnscale, AllReduceGrads, ZeroGrad
<1>2. PICK f : /\ (grad' = grad /\ f = grad[r]) \/ grad' = [grad EXCEPT ![r] = f]
               /\ DOMAIN f = ParamsOn(r)
               /\ \A p \in ParamsOn(r) :
                    IF grad[r][p] = Undefined THEN f[p] = Undefined
                                              ELSE DOMAIN f[p] = Segments(p)
  <2>1. \A p \in ParamsOn(r) : grad[r][p] = Undefined \/ DOMAIN grad[r][p] = Segments(p)
    BY DefinedByRank DEF GradShape
  <2>2. CASE ~job.skip_grad_scaling /\ (Backward(r) \/ AllReduceGrads(r))
    <3>1. grad' = [grad EXCEPT ![r] = scaleGrads(r)]
      BY <2>2 DEF Backward, AllReduceGrads, GradsAfter
    <3>2. DOMAIN scaleGrads(r) = ParamsOn(r)
      BY DEF scaleGrads
    <3>3. \A p \in ParamsOn(r) : scaleGrads(r)[p] = Scaled(grad[r][p], getDpRatio(r, p))
      BY DEF scaleGrads
    <3>4. \A p \in ParamsOn(r) :
            IF grad[r][p] = Undefined THEN scaleGrads(r)[p] = Undefined
                                      ELSE DOMAIN scaleGrads(r)[p] = Segments(p)
      BY <2>1, <3>3, ScaledShape
    <3> QED
      BY <3>1, <3>2, <3>4
  <2>3. CASE ~job.skip_grad_scaling /\ BackwardUnscale(r)
    <3>1. grad' = [grad EXCEPT ![r] = unscaleGrads(r)]
      BY <2>3 DEF BackwardUnscale, GradsAfter
    <3>2. DOMAIN unscaleGrads(r) = ParamsOn(r)
      BY DEF unscaleGrads
    <3>3. \A p \in ParamsOn(r) :
             unscaleGrads(r)[p] = Scaled(grad[r][p], Reciprocal(getDpRatio(r, p)))
      BY DEF unscaleGrads
    <3>4. \A p \in ParamsOn(r) :
            IF grad[r][p] = Undefined THEN unscaleGrads(r)[p] = Undefined
                                      ELSE DOMAIN unscaleGrads(r)[p] = Segments(p)
      BY <2>1, <3>3, ScaledShape
    <3> QED
      BY <3>1, <3>2, <3>4
  <2>4. CASE ZeroGrad(r)
    <3> DEFINE f == [p \in ParamsOn(r) |-> IF grad[r][p] = Undefined THEN Undefined
                                           ELSE [i \in Segments(p) |-> NoGrad(p)]]
    <3>1. grad' = [grad EXCEPT ![r] = f]
      BY <2>4 DEF ZeroGrad
    <3>2. DOMAIN f = ParamsOn(r)
      OBVIOUS
    <3>3. \A p \in ParamsOn(r) :
            IF grad[r][p] = Undefined THEN f[p] = Undefined
                                      ELSE DOMAIN f[p] = Segments(p)
      OBVIOUS
    <3> HIDE DEF f
    <3> QED
      BY <3>1, <3>2, <3>3
  <2>5. CASE job.skip_grad_scaling /\ ~ZeroGrad(r)
    <3>1. grad' = grad /\ DOMAIN grad[r] = ParamsOn(r)
      BY <2>5 DEF Backward, BackwardUnscale, AllReduceGrads, GradsAfter, DefinedInv
    <3> QED
      BY <2>1, <3>1
  <2> QED
    BY <2>2, <2>3, <2>4, <2>5
<1>3. DOMAIN grad' = Rank /\ grad'[r] = f /\ \A q \in Rank \ {r} : grad'[q] = grad[q]
  BY <1>2 DEF DefinedInv
<1>4. SameDefined(r)
  BY <1>2, <1>3 DEF SameDefined
<1>5. /\ \A q \in Rank \ {r} : at'[q] = at[q] /\ stage'[q] = stage[q]
      /\ Quiet(r)
  <2>1. CASE Backward(r)
    <3>1. Goto(r, "run") /\ at' = at /\ stage[r] = "call"
      BY <2>1, InCall DEF Backward
    <3>2. stage'[r] = "run" /\ at'[r] = at[r]
      BY <3>1, RankFacts DEF Goto
    <3> QED
      BY <3>1, <3>2, OthersStand DEF Quiet, RanStages
  <2>2. CASE AllReduceGrads(r)
    <3>1. OpOf(at[r]) = "allreduce_grads" /\ EnterLoop(r, "reduce") /\ at' = at
      BY <2>2, InCall DEF AllReduceGrads
    <3> QED
      BY <3>1, OthersStand DEF Quiet
  <2>3. CASE BackwardUnscale(r) \/ ZeroGrad(r)
    <3>1. Return(r) /\ (OpOf(at[r]) = "zero_grad" \/ stage[r] \in RanStages)
      BY <2>3, InCall DEF BackwardUnscale, ZeroGrad, RanStages
    <3>2. at'[r] = at[r] + 1 /\ stage'[r] = "call"
      BY <3>1, RankFacts DEF Return, Goto
    <3> QED
      BY <3>1, <3>2, OthersStand DEF Quiet
  <2> QED
    BY <2>1, <2>2, <2>3
<1> QED
  BY <1>1, <1>3, <1>4, <1>5, ShapeByRank

\* A backward pass defines every gradient of a rank that gets rows.
LEMMA DefinedByBackward ==
    ASSUME SyncInv, EveryoneWorks, DefinedInv, NEW r \in Rank, BackwardCompute(r)
    PROVE  DefinedInv'
<1>1. at[r] \in Calls /\ OpOf(at[r]) = "backward" /\ stage[r] = "run"
  BY InCall DEF BackwardCompute
<1>2. job' = job /\ at' = at /\ (Goto(r, "unscale") \/ Goto(r, "reduce"))
  BY DEF BackwardCompute, EnterLoop
<1>3. stage'[r] \in RanStages /\ at'[r] = at[r]
  BY <1>2, RankFacts DEF Goto, RanStages
<1>4. \A q \in Rank \ {r} : at'[q] = at[q] /\ stage'[q] = stage[q]
  BY <1>2, OthersStand
<1>5. at[r] \in Backwards
  BY <1>1, ProgramFacts DEF Backwards, OpOf, SyncInv
<1>6. PICK new : /\ grad' = [grad EXCEPT ![r] = [p \in ParamsOn(r) |->
                        IF HasRows(Call(r).batch, my_param_ranks_(r, p), r) THEN new[p]
                        ELSE grad[r][p]]]
                 /\ \A p \in ParamsOn(r) : DOMAIN new[p] = Segments(p)
  <2> DEFINE old(p) == IF grad[r][p] = Undefined
                       THEN [i \in Segments(p) |-> NoGrad(p)] ELSE grad[r][p]
             N(p) == [i \in Segments(p) |-> [old(p)[i] EXCEPT ![<<at[r], r>>] = One]]
             new == [p \in ParamsOn(r) |-> N(p)]
  <2>1. grad' = [grad EXCEPT ![r] = [p \in ParamsOn(r) |->
                     IF HasRows(Call(r).batch, my_param_ranks_(r, p), r) THEN N(p)
                     ELSE grad[r][p]]]
    BY DEF BackwardCompute
  <2>2. \A p \in ParamsOn(r) : DOMAIN N(p) = Segments(p)
    OBVIOUS
  <2> HIDE DEF N
  <2>3. \A p \in ParamsOn(r) : new[p] = N(p)
    OBVIOUS
  <2>4. grad' = [grad EXCEPT ![r] = [p \in ParamsOn(r) |->
                     IF HasRows(Call(r).batch, my_param_ranks_(r, p), r) THEN new[p]
                     ELSE grad[r][p]]]
    BY <2>1, <2>3
  <2> HIDE DEF new
  <2> QED
    BY <2>2, <2>3, <2>4
<1>7. \A p \in ParamsOn(r) : HasRows(Call(r).batch, my_param_ranks_(r, p), r)
  BY <1>5 DEF EveryoneWorks, Works, Call, ParamsOn
<1>8. /\ DOMAIN grad' = Rank /\ DOMAIN grad'[r] = ParamsOn(r)
      /\ \A p \in ParamsOn(r) : DOMAIN grad'[r][p] = Segments(p)
      /\ \A q \in Rank \ {r} : grad'[q] = grad[q]
  BY <1>6, <1>7 DEF DefinedInv
<1>9. GradShape(r)'
  <2>1. Held(r)'
    BY <1>1, <1>2, <1>3, <1>5, JobFrame DEF Held, HasRun, RanStages
  <2>2. ParamsOn(r)' = ParamsOn(r) /\ \A p : Segments(p)' = Segments(p)
    BY <1>2, DataFrame
  <2>3. \A p \in ParamsOn(r) : \A f : DOMAIN f = Segments(p) => f # Undefined
    BY HasSegments DEF SyncInv, ParamsOn
  <2> QED
    BY <1>8, <2>1, <2>2, <2>3 DEF GradShape, Undefined
<1>10. \A q \in Rank \ {r} : GradShape(q)'
  <2>1. \A q \in Rank : GradShape(q)
    BY DefinedByRank
  <2>2. \A q \in Rank \ {r} : Quiet(q) /\ SameDefined(q)
    BY <1>4, <1>8, <2>1 DEF Quiet, SameDefined, GradShape
  <2> QED
    BY <1>2, <2>1, <2>2, ShapeKept
<1>11. DefinedInv' <=> (DOMAIN grad' = Rank /\ \A q \in Rank : GradShape(q)')
  BY DEF DefinedInv, GradShape, Held
<1> QED
  BY <1>8, <1>9, <1>10, <1>11

\* The ranks that may move in a step of a walk or of all ranks.
LEMMA ShapeByAll ==
    ASSUME SyncInv, DefinedInv, job' = job, DOMAIN grad' = Rank,
           \A q \in Rank : Quiet(q) /\ SameDefined(q)
    PROVE  DefinedInv'
<1>1. \A q \in Rank : GradShape(q)'
  BY DefinedByRank, ShapeKept
<1>2. DefinedInv' <=> (DOMAIN grad' = Rank /\ \A q \in Rank : GradShape(q)')
  BY DEF DefinedInv, GradShape, Held
<1> QED
  BY <1>1, <1>2

\* Moving on to the next group of the reduce loop ends no backward pass.
LEMMA QuietTurn ==
    ASSUME SyncInv, NEW S \in SUBSET Rank, at' = at,
           \A r \in S : stage[r] = "reduce", NextTurn(S)
    PROVE  \A q \in Rank : Quiet(q)
<1>1. stage \in [Rank -> Stages]
  BY DEF SyncInv
<1> QED
  BY <1>1 DEF NextTurn, Quiet, RanStages

\* Steps that leave every gradient alone.
LEMMA DefinedWalk ==
    ASSUME SyncInv, DefinedInv,
           \/ \E r \in Rank : SkipGroup(r) \/ SkipBcast(r)
           \/ \E g \in Groups : BcastGroup(g)
           \/ Barrier \/ Norm \/ UNCHANGED vars
    PROVE  DefinedInv'
<1>1. job' = job /\ grad' = grad
  BY DEF SkipGroup, SkipBcast, BcastGroup, Barrier, Norm, vars
<1>2. \A q \in Rank : SameDefined(q)
  BY <1>1, DefinedByRank DEF SameDefined, GradShape
<1>3. ASSUME NEW q \in Rank PROVE Quiet(q)
  <2>1. CASE \E r \in Rank : SkipGroup(r)
    <3>1. PICK r \in Rank : SkipGroup(r)
      BY <2>1
    <3>2. {r} \in SUBSET Rank /\ at' = at /\ NextTurn({r}) /\ \A x \in {r} : stage[x] = "reduce"
      BY <3>1 DEF SkipGroup, InLoop
    <3> QED
      BY <3>2, QuietTurn
  <2>2. CASE \/ \E r \in Rank : SkipBcast(r)
             \/ \E g \in Groups : BcastGroup(g)
             \/ UNCHANGED vars
    BY <2>2 DEF SkipBcast, BcastGroup, vars, Quiet
  <2>3. CASE Barrier
    BY <2>3 DEF Barrier, Quiet, RanStages
  <2>4. CASE Norm
    <3>1. OpOf(at[q]) = "norm" /\ stage[q] = "call"
      BY <2>4, InCall DEF Norm
    <3>2. at'[q] = at[q] + 1 /\ stage' = stage
      BY <2>4 DEF Norm
    <3> QED
      BY <3>1, <3>2 DEF Quiet
  <2> QED
    BY <2>1, <2>2, <2>3, <2>4
<1>4. DOMAIN grad' = Rank
  BY <1>1 DEF DefinedInv
<1> QED
  BY <1>1, <1>2, <1>3, <1>4, ShapeByAll

\* A reduced gradient is defined on every rank of the group where it was before.
LEMMA DefinedReduce ==
    ASSUME SyncInv, DefinedInv, NEW g \in Groups, ReduceGroup(g)
    PROVE  DefinedInv'
<1>1. job' = job /\ at' = at /\ NextTurn(g) /\ Arrived(g, "reduce")
  BY DEF ReduceGroup
<1>2. g \in SUBSET Rank
  BY GroupSets DEF SyncInv
<1>3. \A q \in Rank : Quiet(q)
  BY <1>1, <1>2, QuietTurn DEF Arrived, InLoop
<1>4. \A q \in Rank : GradShape(q)
  BY DefinedByRank
<1>5. \A q \in Rank : \A p \in ParamsOn(q) :
         IF grad[q][p] = Undefined THEN Reduced(q, p) = Undefined
                                   ELSE DOMAIN Reduced(q, p) = Segments(p)
  BY DEF Reduced
<1>6. /\ DOMAIN grad' = Rank
      /\ \A q \in Rank :
           IF q \in g
           THEN /\ DOMAIN grad'[q] = ParamsOn(q)
                /\ \A p \in ParamsOn(q) : \/ grad'[q][p] = Reduced(q, p)
                                          \/ grad'[q][p] = grad[q][p]
           ELSE grad'[q] = grad[q]
  BY DEF ReduceGroup
<1>7. \A q \in Rank : SameDefined(q)
  <2> SUFFICES ASSUME NEW q \in Rank PROVE SameDefined(q)
    OBVIOUS
  <2>1. /\ DOMAIN grad[q] = ParamsOn(q)
        /\ \A p \in ParamsOn(q) : grad[q][p] = Undefined \/ DOMAIN grad[q][p] = Segments(p)
    BY <1>4 DEF GradShape
  <2>2. DOMAIN grad'[q] = ParamsOn(q)
    BY <1>6, <2>1
  <2>3. \A p \in ParamsOn(q) : grad'[q][p] = Reduced(q, p) \/ grad'[q][p] = grad[q][p]
    BY <1>6
  <2> QED
    BY <1>5, <2>1, <2>2, <2>3 DEF SameDefined
<1> QED
  BY <1>1, <1>3, <1>6, <1>7, ShapeByAll

\* No gradient is defined before the first backward pass.
LEMMA DefinedInit == Init => DefinedInv
<1> SUFFICES ASSUME Init PROVE DefinedInv
  OBVIOUS
<1>1. /\ DOMAIN grad = Rank
      /\ \A r \in Rank : /\ DOMAIN grad[r] = ParamsOn(r)
                         /\ \A p \in ParamsOn(r) : grad[r][p] = Undefined
  BY DEF Init
<1>2. \A r \in Rank : \A n \in Backwards : ~HasRun(r, n)
  <2>1. \A n \in Backwards : n \in Nat /\ n >= 1
    BY ProgramFacts DEF Init, Backwards, Calls
  <2> QED
    BY <2>1 DEF Init, HasRun
<1> QED
  BY <1>1, <1>2 DEF DefinedInv

\* When every replica has rows in every backward pass, gradients are defined together.
LEMMA DefinedNext ==
    ASSUME SyncInv, EveryoneWorks, DefinedInv, [Next]_vars
    PROVE  DefinedInv'
<1>1. ASSUME NEW r \in Rank,
             \/ Forward(r) \/ ForwardCompute(r)
             \/ Backward(r) \/ BackwardCompute(r) \/ BackwardUnscale(r)
             \/ AllReduceGrads(r) \/ SkipGroup(r) \/ LeaveReduce(r)
             \/ SkipBcast(r) \/ LeaveBcast(r)
             \/ ZeroGrad(r) \/ Step(r)
      PROVE  DefinedInv'
  BY <1>1, DefinedElsewhere, DefinedRescaled, DefinedByBackward, DefinedWalk
<1>2. ASSUME NEW g \in Groups, ReduceGroup(g) \/ BcastGroup(g)
      PROVE  DefinedInv'
  BY <1>2, DefinedReduce, DefinedWalk
<1> QED
  BY <1>1, <1>2, DefinedWalk DEF Next

\* The hypothesis is about the job alone, so it holds throughout.
LEMMA EveryoneWorksKept ==
    ASSUME SyncInv, EveryoneWorks, [Next]_vars
    PROVE  EveryoneWorks'
<1>1. job' = job
  BY DEF Next, vars, Forward, ForwardCompute, Backward, BackwardCompute, BackwardUnscale,
     AllReduceGrads, SkipGroup, LeaveReduce, SkipBcast, LeaveBcast, ZeroGrad, Step,
     ReduceGroup, BcastGroup, Barrier, Norm
<1>2. /\ Backwards' = Backwards /\ Params' = Params /\ \A p : ranks_(p)' = ranks_(p)
  BY <1>1, JobFrame
<1>3. \A r, p : my_param_ranks_(r, p)' = my_param_ranks_(r, p)
  BY <1>1 DEF my_param_ranks_
<1>4. \A b, S, r : HasRows(b, S, r)' <=> HasRows(b, S, r)
  <2>1. \A b : Pipeline(b)' = Pipeline(b)
    BY <1>1 DEF Pipeline
  <2> QED
    BY <2>1 DEF HasRows
<1>5. \A n, p, r : Works(n, p, r)' <=> Works(n, p, r)
  BY <1>1, <1>3, <1>4 DEF Works
<1> QED
  BY <1>2, <1>5 DEF EveryoneWorks

\* At the same place of the program all ranks have run the same passes.
LEMMA ListsAgree ==
    ASSUME SyncInv, DefinedInv
    PROVE  CollectivesAgree
<1> SUFFICES ASSUME NEW g \in Groups, Arrived(g, "reduce") PROVE SameLists(g)
  BY DEF CollectivesAgree
<1>1. PICK n \in Calls :
         \A r \in g : r \in Rank /\ InLoop(r, "reduce") /\ at[r] = n
  BY MeetInCall
<1>2. \A r \in g : \A m \in Backwards : HasRun(r, m) <=> (m < n \/ m = n)
  BY <1>1 DEF HasRun, InLoop
<1>3. \A q, r \in g : Held(q) <=> Held(r)
  BY <1>2 DEF Held
<1>4. \A r \in g : \A p \in grouped_params_(g) : grad[r][p] # Undefined <=> Held(r)
  BY <1>1, DefinedByRank DEF grouped_params_, GradShape, ParamsOn
<1> QED
  BY <1>3, <1>4 DEF SameLists, Brought

(***************************************************************************)
(* If every replica gets rows in every backward pass, the ranks of a group *)
(* always bring the same list of gradients to ncclAllReduce, whichever     *)
(* groups overlap and however far the ranks have got: allReduceParamGrads  *)
(* never adds up buffers of different gradients.                           *)
(***************************************************************************)
THEOREM SameGradients == Spec /\ EveryoneWorks => []CollectivesAgree
<1> DEFINE I == SyncInv /\ EveryoneWorks /\ DefinedInv
<1>1. Init /\ EveryoneWorks => I
  BY SyncInit, DefinedInit
<1>2. I /\ [Next]_vars => I'
  BY SyncNext, DefinedNext, EveryoneWorksKept
<1>3. I => CollectivesAgree
  BY ListsAgree
<1> QED
  BY <1>1, <1>2, <1>3, PTL DEF Spec

-----------------------------------------------------------------------------
(* Parameters are current when a forward pass reads them. *)

\* ParamInv on rank r.
CurrentOn(r) ==
    \A p \in ParamsOn(r) : \A i \in Segments(p) :
        Uses(r, p, i) \/ (BcastCall(at[r]) /\ Passed(r, at[r], ranks_(p))) =>
            param[r][p][i] = StepsBefore(at[r])

SameParams(q) == \A p \in ParamsOn(q) : \A i \in Segments(p) : param'[q][p][i] = param[q][p][i]

\* Rank q stays in its call and leaves no broadcast behind.
StaysIn(q) ==
    /\ at'[q] = at[q]
    /\ \A n : n = at[q] /\ BcastCall(n) =>
          \A g \in Groups : q \in g => (Passed(q, n, g)' <=> Passed(q, n, g))

\* Rank q comes to its next call, and the last one was no optimizer step.
GoesOn(q) ==
    /\ at'[q] = at[q] + 1 /\ stage'[q] = "call"
    /\ at[q] \in Calls /\ OpOf(at[q]) # "step"

\* The invariant about parameters, rank by rank.
LEMMA ParamByRank == ParamInv <=> DOMAIN param = Rank /\ \A r \in Rank : CurrentOn(r)
  BY DEF ParamInv, CurrentOn

\* The owner of a segment is one of the ranks of the parameter.
LEMMA OwnerIsHolder ==
    ASSUME job \in Jobs, job.zero, NEW p \in Params, NEW i \in Segments(p)
    PROVE  /\ Owner(p, i) \in ranks_(p) /\ Owner(p, i) \in Rank
           /\ p \in ParamsOn(Owner(p, i)) /\ Uses(Owner(p, i), p, i)
<1>1. /\ ranks_(p) \in SUBSET Rank /\ IsFiniteSet(ranks_(p)) /\ Rank \subseteq Nat
  BY GroupSets, RankAssumption
<1>2. ranks_(p) \in SUBSET Nat
  BY <1>1
<1>3. /\ Cardinality(ranks_(p)) \in Nat
      /\ \A j \in 0..(Cardinality(ranks_(p)) - 1) : \E r \in ranks_(p) : Position(r, ranks_(p)) = j
  BY <1>1, <1>2, Positions
<1>4. i \in 1..Cardinality(ranks_(p))
  BY DEF Segments
<1>5. i - 1 \in 0..(Cardinality(ranks_(p)) - 1)
  BY <1>3, <1>4
<1>6. \E r \in ranks_(p) : Position(r, ranks_(p)) = i - 1
  BY <1>3, <1>5
<1>7. Owner(p, i) \in ranks_(p)
  BY <1>6 DEF Owner
<1> QED
  BY <1>1, <1>7 DEF ParamsOn, Uses

\* How the number of optimizer steps grows with the program.
LEMMA CountSteps ==
    ASSUME NEW n \in Nat, n >= 1
    PROVE  StepsBefore(n + 1) = StepsBefore(n) + (IF OpOf(n) = "step" THEN 1 ELSE 0)
<1>1. PICK A : A = {m \in 1..(n - 1) : OpOf(m) = "step"}
  OBVIOUS
<1>2. PICK B : B = {m \in 1..n : OpOf(m) = "step"}
  OBVIOUS
<1>3. B = {m \in 1..((n + 1) - 1) : OpOf(m) = "step"}
  BY <1>2
<1>4. StepsBefore(n) = Cardinality(A) /\ StepsBefore(n + 1) = Cardinality(B)
  BY <1>1, <1>3 DEF StepsBefore
<1>5. IsFiniteSet(A) /\ Cardinality(A) \in Nat /\ n \notin A
  <2>1. IsFiniteSet(1..(n - 1)) /\ A \subseteq 1..(n - 1)
    BY <1>1, FS_Interval
  <2>2. IsFiniteSet(A)
    BY <2>1, FS_Subset
  <2> QED
    BY <2>1, <2>2, FS_CardinalityType
<1>6. CASE OpOf(n) = "step"
  <2>1. B = A \cup {n}
    BY <1>1, <1>2, <1>6
  <2>2. Cardinality(B) = Cardinality(A) + 1
    BY <1>5, <2>1, FS_AddElement
  <2> QED
    BY <1>4, <1>6, <2>2
<1>7. CASE OpOf(n) # "step"
  <2>1. B = A
    BY <1>1, <1>2, <1>7
  <2> QED
    BY <1>4, <1>5, <1>7, <2>1
<1> QED
  BY <1>6, <1>7

\* A rank that keeps its parameters and does not pass a step() keeps the invariant.
LEMMA ParamKept ==
    ASSUME SyncInv, job' = job, NEW q \in Rank, CurrentOn(q), SameParams(q),
           StaysIn(q) \/ GoesOn(q)
    PROVE  CurrentOn(q)'
<1>1. /\ ParamsOn(q)' = ParamsOn(q) /\ \A p : Segments(p)' = Segments(p)
      /\ \A p, i : Uses(q, p, i)' <=> Uses(q, p, i)
      /\ \A n : StepsBefore(n)' = StepsBefore(n)
      /\ \A n : BcastCall(n)' <=> BcastCall(n)
      /\ \A p : ranks_(p)' = ranks_(p)
  BY DataFrame, JobFrame
<1>2. at[q] \in Nat
  BY RankFacts
<1>3. PICK n \in Nat : n = at[q]
  BY <1>2
<1>4. PICK m : m = at'[q]
  OBVIOUS
<1>5. \A p \in ParamsOn(q) : ranks_(p) \in Groups /\ q \in ranks_(p)
  BY DEF ParamsOn, Groups
<1>6. CurrentOn(q)' <=>
        \A p \in ParamsOn(q) : \A i \in Segments(p) :
            Uses(q, p, i) \/ (BcastCall(m) /\ Passed(q, m, ranks_(p))') =>
                param'[q][p][i] = StepsBefore(m)
  BY <1>1, <1>4 DEF CurrentOn
<1>7. CurrentOn(q) <=>
        \A p \in ParamsOn(q) : \A i \in Segments(p) :
            Uses(q, p, i) \/ (BcastCall(n) /\ Passed(q, n, ranks_(p))) =>
                param[q][p][i] = StepsBefore(n)
  BY <1>3 DEF CurrentOn
<1>8. CASE StaysIn(q)
  <2>1. m = n
    BY <1>3, <1>4, <1>8 DEF StaysIn
  <2>2. \A p \in ParamsOn(q) : BcastCall(n) => (Passed(q, n, ranks_(p))' <=> Passed(q, n, ranks_(p)))
    <3>1. \A g \in Groups : BcastCall(n) /\ q \in g => (Passed(q, n, g)' <=> Passed(q, n, g))
      BY <1>3, <1>8 DEF StaysIn
    <3> SUFFICES ASSUME NEW p \in ParamsOn(q), BcastCall(n)
                 PROVE  Passed(q, n, ranks_(p))' <=> Passed(q, n, ranks_(p))
      OBVIOUS
    <3>2. PICK g : g = ranks_(p)
      OBVIOUS
    <3>3. Passed(q, n, g)' <=> Passed(q, n, g)
      BY <1>5, <3>1, <3>2
    <3>4. ranks_(p)' = g
      BY <1>1, <3>2
    <3> QED
      BY <3>2, <3>3, <3>4 DEF Passed
  <2> QED
    BY <1>6, <1>7, <2>1, <2>2 DEF SameParams
<1>9. CASE GoesOn(q)
  <2>1. m = n + 1 /\ n >= 1 /\ OpOf(n) # "step" /\ stage'[q] = "call"
    BY <1>3, <1>4, <1>9, ProgramFacts DEF GoesOn, Calls, SyncInv
  <2>2. StepsBefore(m) = StepsBefore(n)
    <3>1. StepsBefore(n + 1) = StepsBefore(n) + 0
      BY <2>1, CountSteps
    <3>2. StepsBefore(n) \in Nat
      <4>1. IsFiniteSet(1..(n - 1))
        BY FS_Interval
      <4>2. IsFiniteSet({k \in 1..(n - 1) : OpOf(k) = "step"})
        BY <4>1, FS_Subset
      <4> QED
        BY <4>2, FS_CardinalityType DEF StepsBefore
    <3> QED
      BY <2>1, <3>1, <3>2
  <2>3. \A p : ~Passed(q, m, ranks_(p))'
    BY <1>3, <1>4, <2>1 DEF Passed
  <2> QED
    BY <1>6, <1>7, <2>2, <2>3 DEF SameParams
<1> QED
  BY <1>8, <1>9

\* The same when all ranks move at once.
LEMMA ParamByAll ==
    ASSUME SyncInv, ParamInv, job' = job, DOMAIN param' = Rank,
           \A q \in Rank : SameParams(q) /\ (StaysIn(q) \/ GoesOn(q))
    PROVE  ParamInv'
<1>1. \A q \in Rank : CurrentOn(q)'
  BY ParamByRank, ParamKept
<1>2. ParamInv' <=> (DOMAIN param' = Rank /\ \A q \in Rank : CurrentOn(q)')
  BY DEF ParamInv, CurrentOn
<1> QED
  BY <1>1, <1>2

\* A rank that a step leaves where it is.
LEMMA StandsStill ==
    ASSUME SyncInv, job' = job, NEW q \in Rank, at'[q] = at[q], stage'[q] = stage[q],
           turn'[q] = turn[q]
    PROVE  StaysIn(q)
  BY Standing DEF StaysIn

\* The calls that broadcast are the forward passes.
LEMMA NoBcastHere ==
    ASSUME SyncInv, NEW q \in Rank, at'[q] = at[q], OpOf(at[q]) # "forward"
    PROVE  StaysIn(q)
  BY DEF StaysIn, BcastCall

\* What rank r does in the steps that touch no parameter.
LEMMA RankMoves ==
    ASSUME SyncInv, NEW r \in Rank,
           \/ Forward(r) \/ ForwardCompute(r)
           \/ Backward(r) \/ BackwardCompute(r) \/ BackwardUnscale(r)
           \/ AllReduceGrads(r) \/ LeaveReduce(r) \/ LeaveBcast(r) \/ ZeroGrad(r)
    PROVE  /\ job' = job /\ param' = param
           /\ \A q \in Rank \ {r} : at'[q] = at[q] /\ stage'[q] = stage[q] /\ turn'[q] = turn[q]
           /\ StaysIn(r) \/ GoesOn(r)
<1>1. job' = job /\ param' = param
  BY DEF Forward, ForwardCompute, Backward, BackwardCompute, BackwardUnscale,
     AllReduceGrads, LeaveReduce, LeaveBcast, ZeroGrad
<1>2. /\ StageOK(r) /\ at[r] \in Nat /\ turn[r] \in Nat
      /\ at \in [Rank -> Nat] /\ turn \in [Rank -> Nat] /\ stage \in [Rank -> Stages]
      /\ Cardinality(Groups) \in Nat
      /\ \A g \in Groups : Index(g) \in 1..Cardinality(Groups)
  BY RankFacts
<1>3. CASE Forward(r)
  <2>1. at[r] \in Calls /\ OpOf(at[r]) = "forward" /\ stage[r] = "call"
    BY <1>3, InCall DEF Forward
  <2>2. CASE job.zero
    <3>1. at' = at /\ stage' = [stage EXCEPT ![r] = "bcast"] /\ turn' = [turn EXCEPT ![r] = 1]
      BY <1>3, <2>2 DEF Forward, EnterLoop, Goto
    <3>2. \A n : n = at[r] => \A g \in Groups : ~Passed(r, n, g)' /\ ~Passed(r, n, g)
      <4>1. at'[r] = at[r] /\ stage'[r] = "bcast" /\ turn'[r] = 1
        BY <1>2, <3>1
      <4>2. \A g : Index(g)' = Index(g)
        BY <1>1, JobFrame
      <4> QED
        BY <1>2, <2>1, <4>1, <4>2 DEF Passed
    <3> QED
      BY <1>1, <1>2, <3>1, <3>2 DEF StaysIn
  <2>3. CASE ~job.zero
    <3>1. at' = at /\ stage' = [stage EXCEPT ![r] = "run"] /\ turn' = turn
      BY <1>3, <2>3 DEF Forward, Goto
    <3>2. ~BcastCall(at[r])
      BY <2>3 DEF BcastCall
    <3> QED
      BY <1>1, <1>2, <3>1, <3>2 DEF StaysIn
  <2> QED
    BY <2>2, <2>3
<1>4. CASE ForwardCompute(r) \/ BackwardUnscale(r) \/ ZeroGrad(r) \/ LeaveReduce(r)
  <2>1. Return(r) /\ turn' = turn
    BY <1>4 DEF ForwardCompute, BackwardUnscale, ZeroGrad, LeaveReduce
  <2>2. at[r] \in Calls /\ OpOf(at[r]) # "step"
    <3>1. CASE ForwardCompute(r) \/ BackwardUnscale(r) \/ ZeroGrad(r)
      BY <3>1, InCall DEF ForwardCompute, BackwardUnscale, ZeroGrad
    <3>2. CASE LeaveReduce(r)
      BY <1>2, <3>2 DEF LeaveReduce, StageOK, ReduceCall
    <3> QED
      BY <1>4, <3>1, <3>2
  <2>3. at' = [at EXCEPT ![r] = @ + 1] /\ stage' = [stage EXCEPT ![r] = "call"]
    BY <2>1 DEF Return, Goto
  <2> QED
    BY <1>1, <1>2, <2>1, <2>2, <2>3 DEF GoesOn
<1>5. CASE Backward(r) \/ BackwardCompute(r) \/ AllReduceGrads(r)
  <2>1. OpOf(at[r]) # "forward"
    BY <1>5, InCall DEF Backward, BackwardCompute, AllReduceGrads
  <2>2. /\ at' = at
        /\ \E st : stage' = [stage EXCEPT ![r] = st]
        /\ turn' = turn \/ turn' = [turn EXCEPT ![r] = 1]
    BY <1>5 DEF Backward, BackwardCompute, AllReduceGrads, EnterLoop, Goto
  <2>3. StaysIn(r)
    BY <2>1, <2>2, NoBcastHere
  <2> QED
    BY <1>1, <1>2, <2>2, <2>3
<1>6. CASE LeaveBcast(r)
  <2>1. at' = at /\ turn' = turn /\ stage' = [stage EXCEPT ![r] = "run"]
        /\ stage[r] = "bcast" /\ turn[r] > Cardinality(Groups)
    BY <1>6 DEF LeaveBcast, Goto
  <2>2. OpOf(at[r]) = "forward"
    BY <1>2, <2>1 DEF StageOK, BcastCall
  <2>3. at'[r] = at[r] /\ stage'[r] = "run"
    BY <1>2, <2>1
  <2>4. \A n : n = at[r] => \A g \in Groups : Passed(r, n, g)' /\ Passed(r, n, g)
    BY <1>1, <1>2, <2>1, <2>2, <2>3, JobFrame DEF Passed
  <2>5. StaysIn(r)
    BY <2>3, <2>4 DEF StaysIn
  <2> QED
    BY <1>1, <1>2, <2>1, <2>5
<1> QED
  BY <1>3, <1>4, <1>5, <1>6

\* The steps of one rank that write no parameter.
LEMMA ParamRank ==
    ASSUME SyncInv, ParamInv, NEW r \in Rank,
           \/ Forward(r) \/ ForwardCompute(r)
           \/ Backward(r) \/ BackwardCompute(r) \/ BackwardUnscale(r)
           \/ AllReduceGrads(r) \/ LeaveReduce(r) \/ LeaveBcast(r) \/ ZeroGrad(r)
    PROVE  ParamInv'
<1>1. /\ job' = job /\ param' = param
      /\ \A q \in Rank \ {r} : at'[q] = at[q] /\ stage'[q] = stage[q] /\ turn'[q] = turn[q]
      /\ StaysIn(r) \/ GoesOn(r)
  BY RankMoves
<1>2. \A q \in Rank \ {r} : StaysIn(q)
  BY <1>1, StandsStill
<1>3. \A q \in Rank : SameParams(q)
  BY <1>1 DEF SameParams
<1>4. DOMAIN param' = Rank
  BY <1>1 DEF ParamInv
<1> QED
  BY <1>1, <1>2, <1>3, <1>4, ParamByAll

\* The optimizer updates what it has, on its rank.
LEMMA ParamStep ==
    ASSUME SyncInv, ParamInv, NEW r \in Rank, Step(r)
    PROVE  ParamInv'
<1>1. at[r] \in Calls /\ OpOf(at[r]) = "step" /\ stage[r] = "call"
  BY InCall DEF Step
<1>2. job' = job /\ Return(r) /\ turn' = turn
  BY DEF Step
<1>3. /\ at[r] \in Nat /\ at \in [Rank -> Nat] /\ stage \in [Rank -> Stages]
  BY RankFacts
<1>4. /\ at'[r] = at[r] + 1 /\ stage'[r] = "call"
      /\ \A q \in Rank \ {r} : at'[q] = at[q] /\ stage'[q] = stage[q]
  BY <1>2, <1>3 DEF Return, Goto
<1>5. PICK f : /\ param' = [param EXCEPT ![r] = f]
               /\ \A p \in ParamsOn(r) : \A i \in Segments(p) :
                     f[p][i] = param[r][p][i] + (IF Uses(r, p, i) THEN 1 ELSE 0)
  <2> DEFINE f == [p \in ParamsOn(r) |-> [i \in Segments(p) |->
                     param[r][p][i] + IF Uses(r, p, i) THEN 1 ELSE 0]]
  <2>1. param' = [param EXCEPT ![r] = f]
    BY DEF Step
  <2>2. \A p \in ParamsOn(r) : \A i \in Segments(p) :
            f[p][i] = param[r][p][i] + (IF Uses(r, p, i) THEN 1 ELSE 0)
    OBVIOUS
  <2> HIDE DEF f
  <2> QED
    BY <2>1, <2>2
<1>6. DOMAIN param' = Rank /\ param'[r] = f /\ \A q \in Rank \ {r} : param'[q] = param[q]
  BY <1>5 DEF ParamInv
<1>7. \A q \in Rank \ {r} : CurrentOn(q)'
  <2>1. \A q \in Rank \ {r} : StaysIn(q) /\ SameParams(q) /\ CurrentOn(q)
    BY <1>2, <1>4, <1>6, StandsStill, ParamByRank DEF SameParams
  <2> QED
    BY <1>2, <2>1, ParamKept
<1>8. CurrentOn(r)'
  <2>1. /\ ParamsOn(r)' = ParamsOn(r) /\ \A p : Segments(p)' = Segments(p)
        /\ \A p, i : Uses(r, p, i)' <=> Uses(r, p, i)
        /\ \A n : StepsBefore(n)' = StepsBefore(n)
    BY <1>2, DataFrame
  <2>2. PICK n \in Nat : n = at[r] /\ n >= 1
    BY <1>1, <1>3, ProgramFacts DEF Calls, SyncInv
  <2>3. StepsBefore(n + 1) = StepsBefore(n) + 1
    BY <1>1, <2>2, CountSteps
  <2>5. \A p \in ParamsOn(r) : \A i \in Segments(p) :
           Uses(r, p, i) => param[r][p][i] = StepsBefore(n)
    BY <2>2, ParamByRank DEF CurrentOn
  <2>6. \A p \in ParamsOn(r) : \A i \in Segments(p) :
           Uses(r, p, i) => param'[r][p][i] = StepsBefore(n + 1)
    BY <1>5, <1>6, <2>3, <2>5
  <2>7. \A p : ~Passed(r, at[r], ranks_(p))'
    BY <1>4, <2>2 DEF Passed
  <2> QED
    BY <1>4, <2>1, <2>2, <2>6, <2>7 DEF CurrentOn
<1>9. ParamInv' <=> (DOMAIN param' = Rank /\ \A q \in Rank : CurrentOn(q)')
  BY DEF ParamInv, CurrentOn
<1> QED
  BY <1>6, <1>7, <1>8, <1>9

\* The walks over groups that move no parameter.
LEMMA ParamWalk ==
    ASSUME SyncInv, ParamInv,
           \/ \E r \in Rank : SkipGroup(r) \/ SkipBcast(r)
           \/ \E g \in Groups : ReduceGroup(g)
           \/ Barrier \/ Norm \/ UNCHANGED vars
    PROVE  ParamInv'
<1>1. job' = job /\ param' = param
  BY DEF SkipGroup, SkipBcast, ReduceGroup, Barrier, Norm, vars
<1>2. \A q \in Rank : SameParams(q)
  BY <1>1 DEF SameParams
<1>3. DOMAIN param' = Rank
  BY <1>1 DEF ParamInv
<1>4. \A q \in Rank : /\ StageOK(q) /\ turn \in [Rank -> Nat] /\ stage \in [Rank -> Stages]
                      /\ turn[q] \in Nat
                      /\ \A g \in Groups : Index(g) \in 1..Cardinality(Groups)
  BY RankFacts
<1>5. ASSUME NEW q \in Rank PROVE StaysIn(q) \/ GoesOn(q)
  <2>1. ASSUME NEW S \in SUBSET Rank, at' = at, NextTurn(S), \A x \in S : stage[x] = "reduce"
        PROVE  StaysIn(q)
    <3>1. CASE q \in S
      <4>1. OpOf(at[q]) # "forward"
        BY <1>4, <2>1, <3>1 DEF StageOK, ReduceCall
      <4> QED
        BY <2>1, <4>1, NoBcastHere
    <3>2. CASE q \notin S
      <4>1. stage'[q] = stage[q] /\ turn'[q] = turn[q]
        BY <1>4, <2>1, <3>2 DEF NextTurn
      <4> QED
        BY <1>1, <2>1, <4>1, StandsStill
    <3> QED
      BY <3>1, <3>2
  <2>2. CASE \E r \in Rank : SkipGroup(r)
    <3>1. PICK r \in Rank : SkipGroup(r)
      BY <2>2
    <3>2. {r} \in SUBSET Rank /\ at' = at /\ NextTurn({r}) /\ \A x \in {r} : stage[x] = "reduce"
      BY <3>1 DEF SkipGroup, InLoop
    <3> QED
      BY <2>1, <3>2
  <2>3. CASE \E g \in Groups : ReduceGroup(g)
    <3>1. PICK g \in Groups : ReduceGroup(g)
      BY <2>3
    <3>2. g \in SUBSET Rank /\ at' = at /\ NextTurn(g) /\ \A x \in g : stage[x] = "reduce"
      BY <3>1, GroupSets DEF SyncInv, ReduceGroup, Arrived, InLoop
    <3> QED
      BY <2>1, <3>2
  <2>4. CASE \E r \in Rank : SkipBcast(r)
    <3>1. PICK r \in Rank : SkipBcast(r)
      BY <2>4
    <3>2. at' = at /\ stage' = stage /\ turn' = [turn EXCEPT ![r] = @ + 1]
          /\ InLoop(r, "bcast") /\ r \notin Group(r)
      BY <3>1 DEF SkipBcast
    <3>3. CASE q = r
      <4>1. /\ Group(q) \in Groups /\ Index(Group(q)) = turn[q] /\ stage[q] = "bcast"
        BY <3>2, <3>3, AtGroup
      <4>2. \A g \in Groups : q \in g => Index(g) # turn[q]
        BY <3>2, <3>3, <4>1, GroupOrder DEF SyncInv
      <4>3. turn'[q] = turn[q] + 1 /\ stage'[q] = "bcast" /\ at'[q] = at[q]
        BY <1>4, <3>2, <3>3, <4>1
      <4>4. \A n : \A g \in Groups : q \in g /\ n = at[q] =>
                (Passed(q, n, g)' <=> Passed(q, n, g))
        <5> SUFFICES ASSUME NEW n, NEW g \in Groups, q \in g, n = at[q]
                     PROVE  Passed(q, n, g)' <=> Passed(q, n, g)
          OBVIOUS
        <5>1. Index(g)' = Index(g) /\ OpOf(n)' = OpOf(n)
          BY <1>1, JobFrame
        <5>2. Index(g) \in Nat /\ Index(g) # turn[q] /\ turn[q] \in Nat
          BY <1>4, <4>2
        <5> QED
          BY <4>1, <4>3, <5>1, <5>2 DEF Passed
      <4> QED
        BY <4>3, <4>4 DEF StaysIn
    <3>4. CASE q # r
      <4>1. turn'[q] = turn[q]
        BY <1>4, <3>2, <3>4
      <4> QED
        BY <1>1, <3>2, <4>1, StandsStill
    <3> QED
      BY <3>3, <3>4
  <2>5. CASE Barrier
    <3>1. stage[q] = "barrier" /\ at' = at
      BY <2>5 DEF Barrier
    <3>2. OpOf(at[q]) # "forward"
      BY <1>4, <3>1 DEF StageOK, ReduceCall
    <3> QED
      BY <3>1, <3>2, NoBcastHere
  <2>6. CASE Norm
    <3>1. at[q] \in Calls /\ OpOf(at[q]) = "norm" /\ stage[q] = "call"
      BY <2>6, InCall DEF Norm
    <3>2. at'[q] = at[q] + 1 /\ stage' = stage
      BY <2>6 DEF Norm
    <3> QED
      BY <3>1, <3>2 DEF GoesOn
  <2>7. CASE UNCHANGED vars
    BY <1>1, <2>7, StandsStill DEF vars
  <2> QED
    BY <2>2, <2>3, <2>4, <2>5, <2>6, <2>7
<1> QED
  BY <1>1, <1>2, <1>3, <1>5, ParamByAll

\* The broadcast brings every rank of the group what the owners have: all of
\* them are in the same forward pass, and the owners are up to date.
LEMMA ParamBcast ==
    ASSUME SyncInv, ParamInv, NEW g \in Groups, BcastGroup(g)
    PROVE  ParamInv'
<1>1. job' = job /\ at' = at /\ stage' = stage /\ Arrived(g, "bcast")
      /\ turn' = [r \in Rank |-> IF r \in g THEN turn[r] + 1 ELSE turn[r]]
  BY DEF BcastGroup
<1>2. PICK n \in Calls :
         /\ BcastCall(n)
         /\ \A r \in g : r \in Rank /\ InLoop(r, "bcast") /\ at[r] = n /\ turn[r] = Index(g)
  BY <1>1, MeetInCall
<1>3. job \in Jobs /\ job.zero
  BY <1>2 DEF SyncInv, BcastCall
<1>4. /\ DOMAIN param' = Rank
      /\ \A q \in Rank \ g : param'[q] = param[q]
      /\ \A q \in g : \A p \in ParamsOn(q) :
            IF ranks_(p) = g THEN \A i \in Segments(p) : param'[q][p][i] = param[Owner(p, i)][p][i]
                             ELSE param'[q][p] = param[q][p]
  BY <1>2 DEF BcastGroup, grouped_params_, ParamsOn
<1>5. ASSUME NEW q \in Rank PROVE CurrentOn(q)'
  <2>1. CurrentOn(q) /\ turn[q] \in Nat
    BY ParamByRank, RankFacts
  <2>2. CASE q \notin g
    <3>1. turn'[q] = turn[q]
      BY <1>1, <2>2
    <3>2. StaysIn(q)
      BY <1>1, <3>1, StandsStill
    <3>3. SameParams(q)
      BY <1>4, <2>2 DEF SameParams
    <3> QED
      BY <1>1, <2>1, <3>2, <3>3, ParamKept
  <2>3. CASE q \in g
    <3>1. /\ ParamsOn(q)' = ParamsOn(q) /\ \A p : Segments(p)' = Segments(p)
          /\ \A p, i : Uses(q, p, i)' <=> Uses(q, p, i)
          /\ StepsBefore(n)' = StepsBefore(n)
          /\ BcastCall(n)' <=> BcastCall(n)
          /\ \A h : Index(h)' = Index(h)
          /\ OpOf(n)' = OpOf(n)
          /\ \A p : ranks_(p)' = ranks_(p)
      BY <1>1, DataFrame, JobFrame
    <3>2. at[q] = n /\ at'[q] = n /\ turn'[q] = turn[q] + 1 /\ turn[q] = Index(g)
          /\ stage[q] = "bcast" /\ stage'[q] = "bcast"
      BY <1>1, <1>2, <2>3 DEF InLoop
    <3>3. ASSUME NEW p \in ParamsOn(q), NEW i \in Segments(p),
                 Uses(q, p, i) \/ Passed(q, n, ranks_(p))'
          PROVE  param'[q][p][i] = StepsBefore(n)
      <4>0. p \in Params /\ q \in ranks_(p) /\ ranks_(p) \in Groups
        BY DEF ParamsOn, Groups
      <4>1. CASE ranks_(p) = g
        <5>1. /\ Owner(p, i) \in g /\ Owner(p, i) \in Rank
              /\ p \in ParamsOn(Owner(p, i)) /\ Uses(Owner(p, i), p, i)
          BY <1>3, <4>0, <4>1, OwnerIsHolder
        <5>2. at[Owner(p, i)] = n
          BY <1>2, <5>1
        <5>3. CurrentOn(Owner(p, i))
          BY <5>1, ParamByRank
        <5>4. param[Owner(p, i)][p][i] = StepsBefore(n)
          BY <5>1, <5>2, <5>3 DEF CurrentOn
        <5> QED
          BY <1>4, <2>3, <4>1, <5>4
      <4>2. CASE ranks_(p) # g
        <5>1. param'[q][p][i] = param[q][p][i]
          BY <1>4, <2>3, <4>2
        <5>2. Uses(q, p, i) \/ Passed(q, n, ranks_(p))
          <6>1. Index(ranks_(p)) # Index(g) /\ Index(ranks_(p)) \in Nat
            BY <1>3, <4>0, <4>2, GroupOrder
          <6> QED
            BY <2>1, <3>1, <3>2, <3>3, <6>1 DEF Passed
        <5> QED
          BY <1>2, <2>1, <3>2, <5>1, <5>2 DEF CurrentOn
      <4> QED
        BY <4>1, <4>2
    <3> QED
      BY <1>2, <3>1, <3>2, <3>3 DEF CurrentOn
  <2> QED
    BY <2>2, <2>3
<1>6. ParamInv' <=> (DOMAIN param' = Rank /\ \A q \in Rank : CurrentOn(q)')
  BY DEF ParamInv, CurrentOn
<1> QED
  BY <1>4, <1>5, <1>6

\* Before the first step() every parameter is at version 0 everywhere.
LEMMA ParamInit == Init => ParamInv
<1> SUFFICES ASSUME Init PROVE ParamInv
  OBVIOUS
<1>1. /\ DOMAIN param = Rank
      /\ \A r \in Rank : at[r] = 1 /\ \A p \in ParamsOn(r) : \A i \in Segments(p) : param[r][p][i] = 0
  BY DEF Init
<1>2. StepsBefore(1) = 0
  <2>1. {m \in 1..(1 - 1) : OpOf(m) = "step"} = {}
    OBVIOUS
  <2> QED
    BY <2>1, FS_EmptySet DEF StepsBefore
<1> QED
  BY <1>1, <1>2 DEF ParamInv

\* Every step keeps the owners current and the group current after its broadcast.
LEMMA ParamNext ==
    ASSUME SyncInv, ParamInv, [Next]_vars
    PROVE  ParamInv'
<1>1. ASSUME NEW r \in Rank,
             \/ Forward(r) \/ ForwardCompute(r)
             \/ Backward(r) \/ BackwardCompute(r) \/ BackwardUnscale(r)
             \/ AllReduceGrads(r) \/ SkipGroup(r) \/ LeaveReduce(r)
             \/ SkipBcast(r) \/ LeaveBcast(r)
             \/ ZeroGrad(r) \/ Step(r)
      PROVE  ParamInv'
  BY <1>1, ParamRank, ParamStep, ParamWalk
<1>2. ASSUME NEW g \in Groups, ReduceGroup(g) \/ BcastGroup(g)
      PROVE  ParamInv'
  BY <1>2, ParamWalk, ParamBcast
<1> QED
  BY <1>1, <1>2, ParamWalk DEF Next

\* A forward pass is no optimizer step, and it runs after its broadcasts.
LEMMA ReadsCurrent ==
    ASSUME SyncInv, ParamInv
    PROVE  ForwardUsesCurrent
<1> SUFFICES ASSUME NEW r \in Rank, In(r, "forward", "run"),
                    NEW p \in ParamsOn(r), NEW i \in Segments(p)
             PROVE  param[r][p][i] = Cardinality({n \in 1..at[r] : job.program[n].op = "step"})
  BY DEF ForwardUsesCurrent
<1>1. at[r] \in Calls /\ OpOf(at[r]) = "forward" /\ stage[r] = "run"
  BY InCall
<1>2. PICK k \in Nat : k = at[r]
  BY RankFacts
<1>3. {n \in 1..k : job.program[n].op = "step"} = {n \in 1..(k - 1) : OpOf(n) = "step"}
  BY <1>1, <1>2 DEF OpOf
<1>4. Uses(r, p, i) \/ (BcastCall(at[r]) /\ Passed(r, at[r], ranks_(p)))
  BY <1>1 DEF Uses, BcastCall, Passed
<1> QED
  BY <1>2, <1>3, <1>4, ParamByRank DEF CurrentOn, StepsBefore

(***************************************************************************)
(* A forward pass reads parameters that every optimizer step so far has    *)
(* reached, also in the segments that other ranks own and update: the      *)
(* broadcasts of bcastParamsZero are enough, at the place where they are.  *)
(***************************************************************************)
THEOREM CurrentParameters == Spec => []ForwardUsesCurrent
<1> DEFINE I == SyncInv /\ ParamInv
<1>1. Init => I
  BY SyncInit, ParamInit
<1>2. I /\ [Next]_vars => I'
  BY SyncNext, ParamNext
<1>3. I => ForwardUsesCurrent
  BY ReadsCurrent
<1> QED
  BY <1>1, <1>2, <1>3, PTL DEF Spec
=============================================================================
