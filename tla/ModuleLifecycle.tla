--------------------------- MODULE ModuleLifecycle ---------------------------
(***************************************************************************)
(* The life of RaNNCModules on all ranks: the first call registers the     *)
(* parameters, deploys them to the ranks of their subgraphs and leaves the *)
(* optimizer of each rank its part; training changes the parameters;       *)
(* train(mode) collects them on rank 0, undeploys the module and lets the  *)
(* next call deploy it anew; state_dict, undeploy, clear                   *)
(* (pyrannc/__init__.py, RaNNCModule.cpp, ParamStorage.cpp).               *)
(*                                                                         *)
(* Python identifies a parameter by the address of its object, which       *)
(* differs from rank to rank: ParamStorage is indexed by these ids, and    *)
(* the id on rank 0 is the global one.  A parameter is a vector of         *)
(* elements; an element is represented by the number of optimizer steps    *)
(* that are in it.                                                         *)
(*                                                                         *)
(* The application makes the same calls on all ranks.  Between two         *)
(* collectives of all ranks a rank touches only its own tables, so a call  *)
(* is one action for all ranks here.                                       *)
(***************************************************************************)
EXTENDS Redist

CONSTANTS
    Rank,       \* the MPI ranks
    Module,     \* the RaNNCModules (their id_)
    Param,      \* the parameters of the models
    Id,         \* rank -> parameter -> getPythonObjId
    numel,      \* parameter -> number of elements
    Jobs,       \* models, possible deployments and settings, see JobsAssumption
    MaxSteps    \* bound on the training iterations of a module

ASSUME RankAssumption == IsFiniteSet(Rank) /\ Rank \subseteq Nat /\ 0 \in Rank

ASSUME IdAssumption ==
    /\ Id \in [Rank -> [Param -> Nat]]
    /\ \A r \in Rank : \A p, q \in Param : Id[r][p] = Id[r][q] => p = q

ASSUME ParamAssumption == IsFiniteSet(Param) /\ numel \in [Param -> Nat \ {0}]

\* What the decomposer returns for a module whose model has parameters P.
IsDeployment(d, P) ==
    /\ \A s \in DOMAIN d.ranks : d.ranks[s] \in (SUBSET Rank) \ {{}}
    /\ DOMAIN d.users = P
    /\ \A p \in P : d.users[p] \subseteq DOMAIN d.ranks
    \* ParamStorage::deploy: "Parameter sharing among graphs on the same rank
    \* is not allowed"
    /\ \A p \in P : \A s, t \in d.users[p] : s # t => d.ranks[s] \cap d.ranks[t] = {}

ASSUME JobsAssumption ==
    \A j \in Jobs :
        /\ j.model \in [Module -> SUBSET Param]
        /\ \A m \in Module, training \in BOOLEAN :
              \A d \in j.plans[training][m] : IsDeployment(d, j.model[m])
        /\ {j.zero, j.sync_on_init, j.skip_grad_scaling} \subseteq BOOLEAN
        \* does the application call clear()?
        /\ j.clears \in BOOLEAN
        \* bound on the deployments of a module, for training and evaluation
        /\ j.max_inits \in [BOOLEAN -> Nat]

ASSUME MaxStepsAssumption == MaxSteps \in Nat

VARIABLES
    job,            \* the models and settings
    ready,          \* module -> self.ready
    training,       \* module -> self.model.training
    driver_,        \* module -> the deployment it runs, or NotDeployed
    modules_,       \* RaNNCProcess::modules_
    store,          \* rank -> ParamStorage
    comm_map_,      \* rank -> rank sets with a communicator (NCCLWrapper)
    optimizer,      \* module -> rank -> tensors in its param_groups
    value,          \* rank -> parameter -> element -> steps in it
    trained,        \* parameter -> element -> steps the application made
    checkpoint,     \* what the last state_dict returned on rank 0
    inUse,          \* modules the application called and did not give up
    steps,          \* module -> training iterations
    inits,          \* module -> mode -> deployments
    failed          \* has a call thrown, which ends the program?

vars == <<job, ready, training, driver_, modules_, store, comm_map_, optimizer,
          value, trained, checkpoint, inUse, steps, inits, failed>>

NotDeployed == << >>

Model(m) == job.model[m]

Elements(p) == 1..numel[p]

-----------------------------------------------------------------------------
(* Segments of a parameter (doRegister, getSegmentRange).                  *)

\* Segments have numel / n elements, rounded up, until none are left.
SegmentSize(p, n) == CeilDiv(numel[p], n)

Offset(p, n, i) == Min({i * SegmentSize(p, n), numel[p]})

Segment(p, n, i) == (Offset(p, n, i) + 1)..Offset(p, n, i + 1)

\* The elements of p whose segment belongs to rank r of S.
OwnSegment(p, S, r) == Segment(p, Cardinality(S), Position(r, S))

OwnerOf(p, S, e) == CHOOSE r \in S : e \in OwnSegment(p, S, r)

-----------------------------------------------------------------------------
(* ParamStorage on one rank.  t is its state, an id a parameter's there.   *)

EmptyStore ==
    [params_             |-> {},        \* ids
     ranks_              |-> << >>,     \* id -> ranks
     graph_params_       |-> [m \in Module |-> {}],    \* -> ids
     unused_params_      |-> [m \in Module |-> {}],    \* -> global ids
     ref_counts_         |-> << >>,     \* id -> Nat
     id_global_to_local_ |-> << >>,
     id_local_to_global_ |-> << >>,
     my_param_ranks_     |-> [m \in Module |-> << >>], \* -> id -> ranks
     tag_rank_set_       |-> {},        \* rank sets
     zero_grad_locators_ |-> {}]        \* modules

Ids(r, P) == {Id[r][p] : p \in P}

Without(f, S) == [x \in DOMAIN f \ S |-> f[x]]

At(f, x, default) == IF x \in DOMAIN f THEN f[x] ELSE default

\* The entries of new assigned to the table f.
Assign(f, new) ==
    [x \in DOMAIN f \cup DOMAIN new |-> IF x \in DOMAIN new THEN new[x] ELSE f[x]]

\* registerParam for every parameter of P; rank 0 broadcasts its ids.
registerParams(t, r, P) ==
    [t EXCEPT
        !.params_ = @ \cup Ids(r, P),
        !.id_global_to_local_ =
            Assign(@, [g \in Ids(0, P) |-> Id[r][CHOOSE p \in P : Id[0][p] = g]]),
        !.id_local_to_global_ =
            Assign(@, [i \in Ids(r, P) |-> Id[0][CHOOSE p \in P : Id[r][p] = i]])]

\* The ranks a deployment places p on.
Placed(d, p) == UNION {d.ranks[s] : s \in d.users[p]}

UsedOn(d, r) == {p \in DOMAIN d.users : r \in Placed(d, p)}

\* ranks_ of p after deploy: insert adds to what is there.
NewRanks(t, r, d, p) == At(t.ranks_, Id[r][p], {}) \cup Placed(d, p)

\* deploy: useParam, then the ranks of each parameter and of its subgraph on
\* this rank, and the communicators of new rank sets.
deploy(t, r, m, d, zero) ==
    LET P        == DOMAIN d.users
        param(i) == CHOOSE p \in P : Id[r][p] = i
        used     == {p \in P : NewRanks(t, r, d, p) # {}}
    IN  [t EXCEPT
          !.graph_params_[m] = @ \cup Ids(r, P),
          !.ref_counts_ = Assign(@, [i \in Ids(r, P) |-> At(@, i, 0) + 1]),
          !.ranks_ = Assign(@, [i \in Ids(r, used) |-> NewRanks(t, r, d, param(i))]),
          !.my_param_ranks_[m] = Assign(@, [i \in Ids(r, UsedOn(d, r)) |->
                d.ranks[CHOOSE s \in d.users[param(i)] : r \in d.ranks[s]]]),
          !.tag_rank_set_ = @ \cup {NewRanks(t, r, d, p) : p \in used},
          !.zero_grad_locators_ = IF zero THEN @ \cup {m} ELSE @]

\* Mutant of the next definition: the id is dropped without a trace.
unregisterParams_NotKept(t, S) ==
    [t EXCEPT !.params_ = @ \ S,
              !.graph_params_ = [m \in Module |-> @[m] \ S]]

\* unregisterParam for every id of S, in every graph that has it.
unregisterParams(t, S) ==
    [t EXCEPT
        !.params_ = @ \ S,
        !.graph_params_ = [m \in Module |-> @[m] \ S],
        !.unused_params_ = [m \in Module |->
            @[m] \cup {t.id_local_to_global_[i] : i \in t.graph_params_[m] \cap S}]]

\* releaseGraphParams of module m: one reference less to each of its ids, also
\* the unused ones; doReleaseParam forgets those that have none left.  Neither
\* erases my_param_ranks_.
releaseGraphParams(t, m) ==
    LET ids  == t.graph_params_[m]
                  \cup {t.id_global_to_local_[g] : g \in t.unused_params_[m]}
        left == [i \in ids |-> t.ref_counts_[i] - 1]
        gone == {i \in ids : left[i] = 0}
    IN  [t EXCEPT
          !.params_ = @ \ gone,
          !.ranks_ = Without(@, gone),
          !.ref_counts_ = Without(Assign(@, left), gone),
          !.id_local_to_global_ = Without(@, gone),
          !.id_global_to_local_ =
              Without(@, {t.id_local_to_global_[i] : i \in gone}),
          !.graph_params_[m] = {},
          !.unused_params_[m] = {},
          !.zero_grad_locators_ = @ \ {m}]

\* The locators of modules without parameters.  getParamIDs throws for them.
StaleLocators(t) ==
    {m \in t.zero_grad_locators_ : t.graph_params_[m] \cup t.unused_params_[m] = {}}

\* Mutant of the next definition: the known rank sets stay.
clearStore_KeepsTags(t) ==
    [EmptyStore EXCEPT !.zero_grad_locators_ = t.zero_grad_locators_,
                       !.tag_rank_set_ = t.tag_rank_set_]

\* clear: everything but the zero locators.
clearStore(t) ==
    [EmptyStore EXCEPT !.zero_grad_locators_ = t.zero_grad_locators_]

-----------------------------------------------------------------------------
Whole(p) == [param |-> p, elements |-> Elements(p), is_segment |-> FALSE]

Init ==
    /\ job \in Jobs
    /\ ready = [m \in Module |-> FALSE]
    /\ training = [m \in Module |-> TRUE]
    /\ driver_ = [m \in Module |-> NotDeployed]
    /\ modules_ = Module
    /\ store = [r \in Rank |-> EmptyStore]
    /\ comm_map_ = [r \in Rank |-> {}]
    /\ optimizer = [m \in Module |-> [r \in Rank |-> {Whole(p) : p \in Model(m)}]]
    /\ value = [r \in Rank |-> [p \in Param |-> [e \in Elements(p) |-> 0]]]
    /\ trained = [p \in Param |-> [e \in Elements(p) |-> 0]]
    /\ checkpoint = << >>
    /\ inUse = {}
    /\ steps = [m \in Module |-> 0]
    /\ inits = [m \in Module |-> [mode \in BOOLEAN |-> 0]]
    /\ failed = FALSE

\* Mutant of the next definition: with zero, too, whole parameters.
OptimizerParams_Whole(m, d, r) ==
    {o \in optimizer[m][r] : ~o.is_segment /\ o.param \in UsedOn(d, r)}

\* The parameters that rank r keeps in its optimizer: with zero its segment.
OptimizerParams(m, d, r) ==
    LET kept == {o \in optimizer[m][r] : ~o.is_segment /\ o.param \in UsedOn(d, r)}
    IN  IF ~job.zero THEN kept
        ELSE {[param |-> o.param, is_segment |-> TRUE,
               elements |-> OwnSegment(o.param, Placed(d, o.param), r)] : o \in kept}

\* With zero every parameter left in the optimizer is looked up by
\* getLocalParamSegment and getLocalParamRange, which go through the locators
\* in no particular order and ask each for its parameters: a stale one may
\* come before that of m, which has the parameter.
LookupMayThrow(m, d, t, r) ==
    job.zero /\ OptimizerParams(m, d, r) # {} /\ StaleLocators(t) # {}

\* Mutant of the next definition: no broadcast.
SyncedOnInit_Dropped(d) == value

\* syncParamOnInit: rank 0 broadcasts the parameters in use.
SyncedOnInit(d) ==
    IF ~job.sync_on_init THEN value
    ELSE [r \in Rank |-> [p \in Param |->
            IF p \in DOMAIN d.users /\ d.users[p] # {} THEN value[0][p] ELSE value[r][p]]]

\* The first call, or the first after train(mode): RaNNCModule::init with the
\* deployment d that rank 0 found, then the optimizer.  registerParam asserts
\* that no id is registered.
FirstCall(m, d) ==
    /\ ~ready[m]
    /\ inits[m][training[m]] < job.max_inits[training[m]]
    /\ \A r \in Rank : store[r].params_ \cap Ids(r, Model(m)) = {}
    /\ store' = [r \in Rank |->
          unregisterParams(
              deploy(registerParams(store[r], r, Model(m)), r, m, d, job.zero),
              Ids(r, Model(m) \ UsedOn(d, r)))]
    \* fetchStart creates the communicator of all ranks
    /\ comm_map_' = [r \in Rank |->
          comm_map_[r] \cup {Rank}
            \cup {S \in {NewRanks(store[r], r, d, p) : p \in Model(m)} :
                     r \in S /\ S \notin store[r].tag_rank_set_}]
    /\ value' = SyncedOnInit(d)
    /\ optimizer' = IF training[m]
                    THEN [optimizer EXCEPT ![m] = [r \in Rank |-> OptimizerParams(m, d, r)]]
                    ELSE optimizer
    /\ driver_' = [driver_ EXCEPT ![m] = d]
    /\ ready' = [ready EXCEPT ![m] = TRUE]
    /\ inUse' = inUse \cup {m}
    /\ inits' = [inits EXCEPT ![m][training[m]] = @ + 1]
    /\ failed' \in IF training[m] /\ \E r \in Rank : LookupMayThrow(m, d, store'[r], r)
                   THEN BOOLEAN ELSE {FALSE}
    /\ UNCHANGED <<job, training, modules_, trained, checkpoint, steps>>

-----------------------------------------------------------------------------
(* Use of a deployed module.                                               *)

RanksOf(p) == At(store[0].ranks_, Id[0][p], {})

\* bcastParamsZero: the owners of the segments broadcast them to the group.
BcastParamsZero(m) ==
    IF m \notin store[0].zero_grad_locators_ THEN value
    ELSE [r \in Rank |-> [p \in Param |->
            IF p \in Model(m) /\ r \in RanksOf(p)
            THEN [e \in Elements(p) |-> value[OwnerOf(p, RanksOf(p), e)][p][e]]
            ELSE value[r][p]]]

\* doScaleGrads looks up every parameter it finds in my_param_ranks_, also
\* those of earlier deployments of m; getParamTensor throws if a rank has
\* dropped one.
ScalingThrows(m) ==
    /\ ~job.skip_grad_scaling
    /\ \E r \in Rank : ~(DOMAIN store[r].my_param_ranks_[m] \subseteq store[r].params_)

\* A training iteration: forward, backward with scaling and all-reduce,
\* optimizer.step().
TrainingStep(m) ==
    /\ m \in inUse /\ ready[m] /\ training[m]
    /\ steps[m] < MaxSteps
    /\ LET v == BcastParamsZero(m)
       IN  value' = [r \in Rank |-> [p \in Param |-> [e \in Elements(p) |->
              v[r][p][e] + IF \E o \in optimizer[m][r] : o.param = p /\ e \in o.elements
                           THEN 1 ELSE 0]]]
    /\ trained' = [p \in Param |-> [e \in Elements(p) |->
          trained[p][e] + IF p \in Model(m) /\ driver_[m].users[p] # {} THEN 1 ELSE 0]]
    /\ steps' = [steps EXCEPT ![m] = @ + 1]
    /\ checkpoint' = << >>
    /\ failed' = ScalingThrows(m)
    /\ UNCHANGED <<job, ready, training, driver_, modules_, store, comm_map_,
                   optimizer, inUse, inits>>

\* Mutant of the next definition: with zero, segments are not collected.
SyncOrigParams_NoZero(m) ==
    [value EXCEPT ![0] = [p \in Param |->
        IF p \in Model(m) /\ RanksOf(p) # {} THEN value[Min(RanksOf(p))][p] ELSE value[0][p]]]

\* _sync_orig_params: with zero collect the segments first; then the lowest
\* rank of each parameter (doSyncParam) sends it and rank 0 copies it.
SyncOrigParams(m) ==
    LET v == BcastParamsZero(m)
    IN  [v EXCEPT ![0] = [p \in Param |->
            IF p \in Model(m) /\ RanksOf(p) # {} THEN v[Min(RanksOf(p))][p] ELSE v[0][p]]]

\* RaNNCModule::destroy.
Destroy(ms) ==
    /\ driver_' = [m \in Module |-> IF m \in ms THEN NotDeployed ELSE driver_[m]]
    /\ modules_' = modules_ \ ms

\* state_dict() on all ranks.
StateDict(m) ==
    /\ m \in inUse /\ ready[m]
    /\ checkpoint = << >>
    /\ value' = SyncOrigParams(m)
    /\ checkpoint' = [p \in Model(m) |-> [saved |-> value'[0][p], trained |-> trained[p]]]
    /\ UNCHANGED <<job, ready, training, driver_, modules_, store, comm_map_,
                   optimizer, trained, inUse, steps, inits, failed>>

\* train(~mode) before the first call.
TrainFirst(m) ==
    /\ ~ready[m]
    /\ training' = [training EXCEPT ![m] = ~@]
    /\ UNCHANGED <<job, ready, driver_, modules_, store, comm_map_, optimizer,
                   value, trained, checkpoint, inUse, steps, inits, failed>>

\* train(~mode): undeploy(True), and the next call deploys the module again.
Train(m) ==
    /\ m \in inUse /\ ready[m]
    /\ training' = [training EXCEPT ![m] = ~@]
    /\ value' = SyncOrigParams(m)
    /\ Destroy({m})
    /\ store' = [r \in Rank |-> releaseGraphParams(store[r], m)]
    /\ ready' = [ready EXCEPT ![m] = FALSE]
    /\ inUse' = inUse \ {m}
    /\ UNCHANGED <<job, comm_map_, optimizer, trained, checkpoint, steps, inits, failed>>

\* The application gives up what rank 0 does not have of the modules ms.
Forget(ms, v) ==
    trained' = [p \in Param |->
        IF \E m \in ms : p \in Model(m) THEN v[0][p] ELSE trained[p]]

\* undeploy(sync), or __del__ without sync, also of a module that clear() or
\* an earlier undeploy() has destroyed.
Undeploy(m, sync) ==
    /\ ready[m]
    /\ sync => m \in inUse
    /\ value' = IF sync THEN SyncOrigParams(m) ELSE value
    /\ Destroy({m})
    /\ store' = [r \in Rank |-> releaseGraphParams(store[r], m)]
    /\ inUse' = inUse \ {m}
    /\ IF ~sync /\ m \in inUse THEN Forget({m}, value) ELSE UNCHANGED trained
    /\ UNCHANGED <<job, ready, training, comm_map_, optimizer, checkpoint, steps, inits,
                   failed>>

\* clear(): destroy the registered modules, then the communicators and what
\* ParamStorage holds.
Clear ==
    /\ job.clears /\ inUse # {}
    /\ Destroy(modules_)
    /\ store' = [r \in Rank |-> clearStore([store[r] EXCEPT !.zero_grad_locators_ = @ \ modules_])]
    /\ comm_map_' = [r \in Rank |-> {}]
    /\ Forget(inUse, value)
    /\ inUse' = {}
    /\ UNCHANGED <<job, ready, training, optimizer, value, checkpoint, steps, inits,
                   failed>>

Next ==
    /\ ~failed
    /\ \/ \E m \in Module :
            \/ \E d \in job.plans[training[m]][m] : FirstCall(m, d)
            \/ TrainingStep(m)
            \/ StateDict(m)
            \/ TrainFirst(m)
            \/ Train(m)
            \/ \E sync \in BOOLEAN : Undeploy(m, sync)
       \/ Clear

Spec == Init /\ [][Next]_vars

-----------------------------------------------------------------------------
\* The tables are indexed by ids of parameters and by modules; an undeployed
\* module has no deployment, and values are counts.
TypeOK ==
    /\ ready \in [Module -> BOOLEAN] /\ training \in [Module -> BOOLEAN]
    /\ inUse \subseteq {m \in Module : driver_[m] # NotDeployed}
    /\ modules_ \subseteq Module /\ failed \in BOOLEAN
    /\ steps \in [Module -> 0..MaxSteps]
    /\ \A r \in Rank :
        /\ store[r].params_ \subseteq Ids(r, Param)
        /\ DOMAIN store[r].ranks_ \subseteq Ids(r, Param)
        /\ DOMAIN store[r].ref_counts_ \subseteq Ids(r, Param)
        /\ store[r].graph_params_ \in [Module -> SUBSET Ids(r, Param)]
        /\ store[r].unused_params_ \in [Module -> SUBSET Ids(0, Param)]
        /\ comm_map_[r] \subseteq SUBSET Rank
        /\ \A p \in Param : value[r][p] \in [Elements(p) -> Nat]

\* While a module is in use, whatever was deployed, undeployed or cleared
\* before: every rank knows which ranks hold each parameter (otherwise the
\* broadcasts of syncParam do not match); a rank of a parameter has it, finds
\* it in the graph, can translate its id, scales its gradient by its own
\* subgraph and has the communicator of the all-reduce; other ranks have
\* dropped it.
ParamsDeployed ==
    \A m \in inUse, r \in Rank : \A p \in Model(m) :
        LET i == Id[r][p]
            d == driver_[m]
            t == store[r]
        IN  /\ At(t.ranks_, i, {}) = Placed(d, p)
            /\ i \in t.params_ <=> r \in Placed(d, p)
            /\ i \in t.graph_params_[m] <=> r \in Placed(d, p)
            /\ At(t.id_local_to_global_, i, i + 1) = Id[0][p]
            /\ At(t.id_global_to_local_, Id[0][p], i + 1) = i
            /\ r \in Placed(d, p) =>
                  /\ \E s \in d.users[p] :
                        r \in d.ranks[s] /\ At(t.my_param_ranks_[m], i, {}) = d.ranks[s]
                  /\ Placed(d, p) \in comm_map_[r]

\* undeploy "frees GPU memory used for the model": ParamStorage holds a
\* parameter, its ranks_, counts and ids, the parameters of a graph and its
\* locator only for modules in use, and exactly one reference for each
\* parameter.  Two tables are not among these: tag_rank_set_ keeps the rank
\* sets on purpose, and my_param_ranks_ is erased by clear() only.  What stays
\* in my_param_ranks_ must not be read: no call throws on an entry left by
\* something that is not in use any more.
NothingLeftBehind ==
    /\ \A r \in Rank :
        LET live == Ids(r, UNION {Model(m) : m \in inUse})
            t    == store[r]
        IN  /\ t.params_ \subseteq live
            /\ DOMAIN t.ranks_ \subseteq live
            /\ DOMAIN t.ref_counts_ = live
            /\ \A i \in live : t.ref_counts_[i] = 1
            /\ DOMAIN t.id_local_to_global_ = live
            /\ Cardinality(DOMAIN t.id_global_to_local_) = Cardinality(live)
            /\ \A m \in Module \ inUse : t.graph_params_[m] \cup t.unused_params_[m] = {}
            /\ t.zero_grad_locators_ \subseteq inUse
    /\ ~failed

\* Partitioning the model again after train() or eval() loses no training:
\* the ranks of a parameter (with zero, the owners of its segments, from
\* whom every forward pass collects them) have all steps made so far.
NoTrainingLost ==
    \A m \in inUse : \A p \in Model(m) : \A r \in Placed(driver_[m], p) :
        \A e \in Elements(p) :
            (job.zero => e \in OwnSegment(p, Placed(driver_[m], p), r))
                => value[r][p][e] = trained[p][e]

\* state_dict returns on rank 0 the parameters of all ranks as trained so far.
CheckpointComplete ==
    \A p \in DOMAIN checkpoint : checkpoint[p].saved = checkpoint[p].trained

\* "rannc module removes unnecessary parameters in optimizer", and no others:
\* while a module is being trained, every element of a parameter is in the
\* optimizer of every rank that holds it, or with zero of one of them.
OptimizerComplete ==
    \A m \in inUse : training[m] =>
        \A p \in Model(m) : \A e \in Elements(p) :
            LET updating == {r \in Rank : \E o \in optimizer[m][r] :
                                o.param = p /\ e \in o.elements}
                holding  == Placed(driver_[m], p)
            IN  IF job.zero /\ holding # {}
                THEN updating \subseteq holding /\ Cardinality(updating) = 1
                ELSE updating = holding

=============================================================================
