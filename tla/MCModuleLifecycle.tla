------------------------- MODULE MCModuleLifecycle -------------------------
(***************************************************************************)
(* Two modules on three ranks.  Ids of different parameters coincide on    *)
(* different ranks, as addresses may.                                      *)
(***************************************************************************)
EXTENDS ModuleLifecycle

CONSTANTS m1, m2,       \* modules
          p1, p2, p3,   \* parameters
          sa, sb        \* subgraphs

\* Addresses: the ids of rank 1 are those of rank 0 in another order.
ThreeIds ==
    [r \in Rank |-> CASE r = 0 -> (p1 :> 1 @@ p2 :> 2 @@ p3 :> 3)
                      [] r = 1 -> (p1 :> 2 @@ p2 :> 3 @@ p3 :> 1)
                      [] OTHER -> (p1 :> 7 @@ p2 :> 8 @@ p3 :> 2)]

\* Not a multiple of the ranks, and less than them.
FewElements == (p1 :> 3 @@ p2 :> 1 @@ p3 :> 2)

Plan(ranks, users) == [ranks |-> ranks, users |-> users]

Together == sa :> {0, 1, 2}
Apart    == (sa :> {0} @@ sb :> {1, 2})
Swapped  == (sa :> {1} @@ sb :> {0, 2})

\* Plans for a model with p1 and p2: replicated, in two stages, with p1 shared
\* by the stages, and without p2.
Replicated == Plan(Together, (p1 :> {sa} @@ p2 :> {sa}))
Staged     == Plan(Apart,    (p1 :> {sa} @@ p2 :> {sb}))
Shared     == Plan(Swapped,  (p1 :> {sa, sb} @@ p2 :> {sb}))
Unused     == Plan(Apart,    (p1 :> {sb} @@ p2 :> {}))

PlansA == {Replicated, Staged, Shared, Unused}

\* The plan for a model with p3.
PlanB == Plan(Apart, p3 :> {sb})

\* zero, skip (skip_grad_scaling), sync (sync_on_init), clears: the settings;
\* max: the deployments of a module for training and for evaluation.
Job(model, plans, zero, skip, sync, clears, max) ==
    [model |-> model, plans |-> plans, zero |-> zero, skip_grad_scaling |-> skip,
     sync_on_init |-> sync, clears |-> clears, max_inits |-> max]

TwoModels == (m1 :> {p1, p2} @@ m2 :> {p3})
OneModel  == (m1 :> {p1, p2} @@ m2 :> {p1, p2})

Inits(train, eval) == (TRUE :> train @@ FALSE :> eval)

\* m1 is trained with plan a and evaluated with one of plans.
Alone(a, plans) == [mode \in BOOLEAN |->
                      IF mode THEN (m1 :> {a} @@ m2 :> {}) ELSE (m1 :> plans @@ m2 :> {})]

\* The plans that put no parameter on a rank which plan a leaves without it.
Within(a) == {d \in PlansA : \A r \in Rank : UsedOn(d, r) \subseteq UsedOn(a, r)}

\* Two modules with models of their own, whose training plan stays the same
\* and whose evaluation plan is another.
SeparateJobs ==
    {Job(TwoModels, [mode \in BOOLEAN |->
            IF mode THEN (m1 :> {a} @@ m2 :> {PlanB}) ELSE (m1 :> PlansA @@ m2 :> {})],
         FALSE, TRUE, TRUE, TRUE, Inits(2, 1)) : a \in PlansA}

\* With scaling, evaluation leaves no parameter that training has not.
ScaledJobs ==
    {Job(TwoModels, Alone(a, Within(a)), FALSE, FALSE, TRUE, TRUE, Inits(2, 1)) : a \in PlansA}

\* The second module takes over the model of the first.
TakeOverJobs ==
    {Job(OneModel, [mode \in BOOLEAN |-> (m1 :> {a} @@ m2 :> PlansA)],
         zero, TRUE, TRUE, ~zero, Inits(1, 1)) : a \in {Replicated, Shared}, zero \in BOOLEAN}

\* With zero a module is deployed once before clear().
ClearZeroJobs ==
    {Job(TwoModels, Alone(a, {}), TRUE, FALSE, TRUE, TRUE, Inits(1, 0)) : a \in PlansA}

\* Without synchronisation on initialisation the plan has to stay the same.
UnsyncedJobs ==
    {Job(TwoModels, Alone(a, {a}), FALSE, FALSE, FALSE, TRUE, Inits(2, 1)) : a \in PlansA}

LifecycleJobs ==
    SeparateJobs \cup ScaledJobs \cup TakeOverJobs \cup ClearZeroJobs \cup UnsyncedJobs

-----------------------------------------------------------------------------
(* Jobs outside these conditions. *)

\* Training, evaluation and training again, with zero.
RetrainZeroJobs ==
    {Job(TwoModels, Alone(a, {a}), TRUE, TRUE, TRUE, FALSE, Inits(2, 1)) : a \in PlansA}

\* The second model has only the parameter that the first one does not use.
SharedUnusedJobs ==
    {Job((m1 :> {p1, p2} @@ m2 :> {p2}), [mode \in BOOLEAN |->
            (m1 :> {Unused} @@ m2 :> {Plan(Apart, p2 :> {sa})})],
         FALSE, TRUE, TRUE, TRUE, Inits(1, 1))}

\* With scaling, training again after an evaluation that had other parameters
\* on a rank.
RetrainScaledJobs ==
    {Job(TwoModels, Alone(Staged, {Replicated}), FALSE, FALSE, TRUE, FALSE, Inits(2, 1))}

\* With zero, clear() of a module that was deployed anew after train(), and
\* then another module.
ClearRedeployedJobs ==
    {Job(TwoModels, [mode \in BOOLEAN |-> (m1 :> {Replicated} @@ m2 :> {PlanB})],
         TRUE, TRUE, TRUE, TRUE, Inits(1, 1))}

\* The second conjunct of NothingLeftBehind: no lookup has failed.
NoLookupFails == ~failed

=============================================================================
