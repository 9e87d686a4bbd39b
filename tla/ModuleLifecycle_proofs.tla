----------------------- MODULE ModuleLifecycle_proofs -----------------------
(***************************************************************************)
(* Proofs about module ModuleLifecycle, for any number of ranks, modules   *)
(* and parameters, any ids, and any sequence of first calls, training,     *)
(* switches of mode, undeploy and clear.                                   *)
(***************************************************************************)
EXTENDS ModuleLifecycle, Redist_proofs

-----------------------------------------------------------------------------
(* The invariant. *)

\* Two modules on one model have some parameter in common that every
\* partitioning of it uses: a model without any has nothing to train.
SharedParameterUsed ==
    \A m, n \in Module : m # n /\ Model(m) \cap Model(n) # {} =>
        \E p \in Model(m) \cap Model(n) :
            \A mode \in BOOLEAN : \A d \in job.plans[mode][n] : d.users[p] # {}

IsStore(t) ==
    /\ DOMAIN t = {"params_", "ranks_", "graph_params_", "unused_params_", "ref_counts_",
                   "id_global_to_local_", "id_local_to_global_", "my_param_ranks_",
                   "tag_rank_set_", "zero_grad_locators_"}
    /\ DOMAIN t.graph_params_ = Module
    /\ DOMAIN t.unused_params_ = Module
    /\ DOMAIN t.my_param_ranks_ = Module

\* What ParamStorage on rank r has of parameter p of module m.
Entered(t, comms, r, m, d, p) ==
    LET i == Id[r][p]
        g == Id[0][p]
    IN  /\ i \in DOMAIN t.ref_counts_ /\ t.ref_counts_[i] = 1
        /\ At(t.ranks_, i, {}) = Placed(d, p)
        /\ i \in t.params_ <=> r \in Placed(d, p)
        /\ i \in t.graph_params_[m] <=> r \in Placed(d, p)
        /\ g \in t.unused_params_[m] <=> r \notin Placed(d, p)
        /\ i \in DOMAIN t.id_local_to_global_ /\ t.id_local_to_global_[i] = g
        /\ g \in DOMAIN t.id_global_to_local_ /\ t.id_global_to_local_[g] = i
        /\ r \in Placed(d, p) =>
              /\ \E s \in d.users[p] :
                    r \in d.ranks[s] /\ At(t.my_param_ranks_[m], i, {}) = d.ranks[s]
              /\ Placed(d, p) \in comms

\* The parameters of the modules in U.
ParamsOf(U) == UNION {Model(m) : m \in U}

\* It has nothing else.
NothingElse(t, comms, r, U) ==
    /\ t.params_ \subseteq Ids(r, ParamsOf(U))
    /\ DOMAIN t.ranks_ \subseteq Ids(r, ParamsOf(U))
    /\ DOMAIN t.ref_counts_ \subseteq Ids(r, ParamsOf(U))
    /\ DOMAIN t.id_local_to_global_ \subseteq Ids(r, ParamsOf(U))
    /\ DOMAIN t.id_global_to_local_ \subseteq Ids(0, ParamsOf(U))
    /\ \A m \in Module :
          /\ t.graph_params_[m] \subseteq Ids(r, IF m \in U THEN Model(m) ELSE {})
          /\ t.unused_params_[m] \subseteq Ids(0, IF m \in U THEN Model(m) ELSE {})
    /\ \A S \in t.tag_rank_set_ : r \in S => S \in comms

StoreInv(r) ==
    /\ IsStore(store[r])
    /\ \A m \in inUse : \A p \in Model(m) :
          Entered(store[r], comm_map_[r], r, m, driver_[m], p)
    /\ NothingElse(store[r], comm_map_[r], r, inUse)

(***************************************************************************)
(* The modules in use are ready, run one of their plans and have no        *)
(* parameter in common; with this every table of every rank is determined  *)
(* by the modules in use and their plans.                                  *)
(***************************************************************************)
UseInv ==
    /\ job \in Jobs /\ SharedParameterUsed
    /\ DOMAIN store = Rank /\ DOMAIN comm_map_ = Rank
    /\ DOMAIN driver_ = Module /\ DOMAIN ready = Module
    /\ training \in [Module -> BOOLEAN]
    /\ inUse \subseteq Module
    /\ \A m \in inUse :
          /\ ready[m]
          /\ \E mode \in BOOLEAN : driver_[m] \in job.plans[mode][m]
    /\ \A m, n \in inUse : m # n => Model(m) \cap Model(n) = {}

LifeInv == UseInv /\ \A r \in Rank : StoreInv(r)

-----------------------------------------------------------------------------
(* Ids and tables. *)

\* On a rank no two parameters have the same id.
LEMMA IdFacts ==
    ASSUME NEW r \in Rank
    PROVE  /\ \A p \in Param : Id[r][p] \in Nat
           /\ \A P \in SUBSET Param : \A p \in Param : Id[r][p] \in Ids(r, P) <=> p \in P
           /\ \A P \in SUBSET Param : \A p \in P :
                 (CHOOSE q \in P : Id[r][q] = Id[r][p]) = p
<1>1. \A p \in Param : Id[r][p] \in Nat
  BY IdAssumption
<1>2. \A p, q \in Param : Id[r][p] = Id[r][q] => p = q
  BY IdAssumption
<1> QED
  BY <1>1, <1>2 DEF Ids

\* What registerParam makes of t, table by table.
AsRegistered(t, r, P, u) ==
    /\ IsStore(u)
    /\ u.params_ = t.params_ \cup Ids(r, P)
    /\ u.id_global_to_local_ = Assign(t.id_global_to_local_,
          [g \in Ids(0, P) |-> Id[r][CHOOSE p \in P : Id[0][p] = g]])
    /\ u.id_local_to_global_ = Assign(t.id_local_to_global_,
          [i \in Ids(r, P) |-> Id[0][CHOOSE p \in P : Id[r][p] = i]])
    /\ u.ranks_ = t.ranks_ /\ u.graph_params_ = t.graph_params_
    /\ u.unused_params_ = t.unused_params_ /\ u.ref_counts_ = t.ref_counts_
    /\ u.my_param_ranks_ = t.my_param_ranks_ /\ u.tag_rank_set_ = t.tag_rank_set_

\* registerParam for the parameters of P.
LEMMA Registered ==
    ASSUME NEW t, IsStore(t), NEW r, NEW P, NEW u, u = registerParams(t, r, P)
    PROVE  AsRegistered(t, r, P, u)
  BY Zenon DEF registerParams, IsStore, AsRegistered

\* The parameters that have ranks after a deployment.
Ranked(t, r, d) == {p \in DOMAIN d.users : NewRanks(t, r, d, p) # {}}

\* What deploy makes of t.
AsDeployed(t, r, m, d, u) ==
    /\ IsStore(u)
    /\ u.params_ = t.params_
    /\ u.id_global_to_local_ = t.id_global_to_local_
    /\ u.id_local_to_global_ = t.id_local_to_global_
    /\ u.unused_params_ = t.unused_params_
    /\ u.graph_params_ = [t.graph_params_ EXCEPT ![m] = @ \cup Ids(r, DOMAIN d.users)]
    /\ u.ref_counts_ = Assign(t.ref_counts_,
          [i \in Ids(r, DOMAIN d.users) |-> At(t.ref_counts_, i, 0) + 1])
    /\ u.ranks_ = Assign(t.ranks_,
          [i \in Ids(r, Ranked(t, r, d)) |->
             NewRanks(t, r, d, CHOOSE p \in DOMAIN d.users : Id[r][p] = i)])
    /\ u.my_param_ranks_ = [t.my_param_ranks_ EXCEPT ![m] = Assign(@,
          [i \in Ids(r, UsedOn(d, r)) |->
             d.ranks[CHOOSE s \in d.users[CHOOSE p \in DOMAIN d.users : Id[r][p] = i] :
                       r \in d.ranks[s]]])]
    /\ u.tag_rank_set_ = t.tag_rank_set_
          \cup {NewRanks(t, r, d, p) : p \in Ranked(t, r, d)}

\* deploy of a partitioned module.
LEMMA Deployed ==
    ASSUME NEW t, IsStore(t), NEW r, NEW m \in Module, NEW d, NEW zero,
           NEW u, u = deploy(t, r, m, d, zero)
    PROVE  AsDeployed(t, r, m, d, u)
  BY Zenon DEF deploy, IsStore, Ranked, AsDeployed

\* What unregisterParam makes of t.
AsUnregistered(t, S, u) ==
    /\ IsStore(u)
    /\ u.params_ = t.params_ \ S
    /\ u.graph_params_ = [m \in Module |-> t.graph_params_[m] \ S]
    /\ u.unused_params_ = [m \in Module |-> t.unused_params_[m] \cup
          {t.id_local_to_global_[i] : i \in t.graph_params_[m] \cap S}]
    /\ u.id_global_to_local_ = t.id_global_to_local_
    /\ u.id_local_to_global_ = t.id_local_to_global_
    /\ u.ranks_ = t.ranks_ /\ u.ref_counts_ = t.ref_counts_
    /\ u.my_param_ranks_ = t.my_param_ranks_ /\ u.tag_rank_set_ = t.tag_rank_set_

\* unregisterParam for the ids of S.
LEMMA Unregistered ==
    ASSUME NEW t, IsStore(t), NEW S, NEW u, u = unregisterParams(t, S)
    PROVE  AsUnregistered(t, S, u)
  BY Zenon DEF unregisterParams, IsStore, AsUnregistered

\* The ids that releaseGraphParams counts down, and those it forgets.
Released(t, m) ==
    t.graph_params_[m] \cup {t.id_global_to_local_[g] : g \in t.unused_params_[m]}

Forgotten(t, m) == {i \in Released(t, m) : t.ref_counts_[i] - 1 = 0}

\* What releaseGraphParams makes of t.
AsReleased(t, m, u) ==
    /\ IsStore(u)
    /\ u.params_ = t.params_ \ Forgotten(t, m)
    /\ u.graph_params_ = [t.graph_params_ EXCEPT ![m] = {}]
    /\ u.unused_params_ = [t.unused_params_ EXCEPT ![m] = {}]
    /\ u.id_global_to_local_ = Without(t.id_global_to_local_,
          {t.id_local_to_global_[i] : i \in Forgotten(t, m)})
    /\ u.id_local_to_global_ = Without(t.id_local_to_global_, Forgotten(t, m))
    /\ u.ranks_ = Without(t.ranks_, Forgotten(t, m))
    /\ u.ref_counts_ = Without(Assign(t.ref_counts_,
          [i \in Released(t, m) |-> t.ref_counts_[i] - 1]), Forgotten(t, m))
    /\ u.my_param_ranks_ = t.my_param_ranks_ /\ u.tag_rank_set_ = t.tag_rank_set_

\* releaseGraphParams of module m.
LEMMA ReleasedFields ==
    ASSUME NEW t, IsStore(t), NEW m \in Module, NEW u, u = releaseGraphParams(t, m)
    PROVE  AsReleased(t, m, u)
<1> DEFINE left == [i \in Released(t, m) |-> t.ref_counts_[i] - 1]
<1>1. {i \in Released(t, m) : left[i] = 0} = Forgotten(t, m)
  BY DEF Forgotten
<1>2. u = [t EXCEPT
          !.params_ = @ \ Forgotten(t, m),
          !.ranks_ = Without(@, Forgotten(t, m)),
          !.ref_counts_ = Without(Assign(@, left), Forgotten(t, m)),
          !.id_local_to_global_ = Without(@, Forgotten(t, m)),
          !.id_global_to_local_ =
              Without(@, {t.id_local_to_global_[i] : i \in Forgotten(t, m)}),
          !.graph_params_[m] = {},
          !.unused_params_[m] = {},
          !.zero_grad_locators_ = @ \ {m}]
  BY <1>1, Zenon DEF releaseGraphParams, Released
<1> HIDE DEF left
<1>3. /\ IsStore(u)
      /\ u.params_ = t.params_ \ Forgotten(t, m)
      /\ u.graph_params_ = [t.graph_params_ EXCEPT ![m] = {}]
      /\ u.unused_params_ = [t.unused_params_ EXCEPT ![m] = {}]
      /\ u.id_global_to_local_ = Without(t.id_global_to_local_,
                 {t.id_local_to_global_[i] : i \in Forgotten(t, m)})
      /\ u.id_local_to_global_ = Without(t.id_local_to_global_, Forgotten(t, m))
      /\ u.ranks_ = Without(t.ranks_, Forgotten(t, m))
      /\ u.ref_counts_ = Without(Assign(t.ref_counts_, left), Forgotten(t, m))
      /\ u.my_param_ranks_ = t.my_param_ranks_ /\ u.tag_rank_set_ = t.tag_rank_set_
  BY <1>2, Zenon DEF IsStore
<1> QED
  BY <1>3, Zenon DEF left, AsReleased

\* A ParamStorage without entries.
IsEmpty(u) ==
    /\ IsStore(u)
    /\ u.params_ = {} /\ u.tag_rank_set_ = {}
    /\ u.graph_params_ = [m \in Module |-> {}]
    /\ u.unused_params_ = [m \in Module |-> {}]
    /\ u.ranks_ = << >> /\ u.ref_counts_ = << >>
    /\ u.id_global_to_local_ = << >> /\ u.id_local_to_global_ = << >>

\* The tables of a new ParamStorage are empty, and so are those clear leaves.
LEMMA EmptyFields ==
    ASSUME NEW zeros, NEW u,
           u = EmptyStore \/ u = [EmptyStore EXCEPT !.zero_grad_locators_ = zeros]
    PROVE  IsEmpty(u)
<1>1. ASSUME u = EmptyStore PROVE IsStore(u)
  BY <1>1, Zenon DEF EmptyStore, IsStore
<1>2. CASE u = EmptyStore
  BY <1>1, <1>2 DEF EmptyStore, IsEmpty
<1>3. CASE u = [EmptyStore EXCEPT !.zero_grad_locators_ = zeros]
  <2>1. IsStore(EmptyStore)
    BY Zenon DEF EmptyStore, IsStore
  <2>2. IsStore(u) /\ \A f \in DOMAIN EmptyStore : f # "zero_grad_locators_" => u[f] = EmptyStore[f]
    BY <1>3, <2>1, Zenon DEF IsStore
  <2> QED
    BY <2>1, <2>2 DEF EmptyStore, IsEmpty
<1> QED
  BY <1>2, <1>3

-----------------------------------------------------------------------------
(* Steps that leave the tables alone. *)

\* A module's model is part of the parameters; its plans are deployments.
LEMMA ModelFacts ==
    ASSUME job \in Jobs
    PROVE  /\ \A m \in Module : Model(m) \in SUBSET Param
           /\ \A U \in SUBSET Module : ParamsOf(U) \in SUBSET Param
           /\ \A m \in Module : \A mode \in BOOLEAN : \A d \in job.plans[mode][m] :
                 IsDeployment(d, Model(m))
<1>1. \A m \in Module : Model(m) \in SUBSET Param
  BY JobsAssumption DEF Model
<1>2. \A U \in SUBSET Module : ParamsOf(U) \in SUBSET Param
  BY <1>1 DEF ParamsOf
<1>3. \A m \in Module : \A mode \in BOOLEAN : \A d \in job.plans[mode][m] :
         IsDeployment(d, Model(m))
  BY JobsAssumption DEF Model
<1> QED
  BY <1>1, <1>2, <1>3

\* The hypothesis about shared parameters is one about the job.
LEMMA SharedKept ==
    ASSUME SharedParameterUsed, job' = job
    PROVE  SharedParameterUsed'
  BY DEF SharedParameterUsed, Model

\* Training, state_dict, a switch of mode before the first call, stuttering.
LEMMA LifeFrame ==
    ASSUME LifeInv, training' \in [Module -> BOOLEAN],
           UNCHANGED <<job, ready, driver_, store, comm_map_, inUse>>
    PROVE  LifeInv'
<1>1. UseInv'
  <2>1. SharedParameterUsed'
    BY SharedKept DEF LifeInv, UseInv
  <2>2. \A m : Model(m)' = Model(m)
    BY DEF Model
  <2> QED
    BY <2>1, <2>2 DEF LifeInv, UseInv
<1>2. ASSUME NEW r \in Rank PROVE StoreInv(r)'
  <2>1. StoreInv(r)
    BY DEF LifeInv
  <2>2. ParamsOf(inUse)' = ParamsOf(inUse) /\ \A m : Model(m)' = Model(m)
    BY DEF ParamsOf, Model
  <2> QED
    BY <2>1, <2>2 DEF StoreInv, NothingElse
<1> QED
  BY <1>1, <1>2 DEF LifeInv

-----------------------------------------------------------------------------
(* Release of a module's parameters. *)

\* After releaseGraphParams a rank has the parameters of the other modules in
\* use, as before, and nothing else, whether the module was in use or not.
LEMMA ReleaseOnRank ==
    ASSUME UseInv, NEW r \in Rank, StoreInv(r), NEW m \in Module,
           NEW u, u = releaseGraphParams(store[r], m)
    PROVE  /\ IsStore(u)
           /\ \A n \in inUse \ {m} : \A p \in Model(n) :
                 Entered(u, comm_map_[r], r, n, driver_[n], p)
           /\ NothingElse(u, comm_map_[r], r, inUse \ {m})
<1> DEFINE Mine == IF m \in inUse THEN Model(m) ELSE {}
           t    == store[r]
<1>0. /\ 0 \in Rank /\ inUse \in SUBSET Module
      /\ \A n \in Module : Model(n) \in SUBSET Param
      /\ Mine \in SUBSET Param /\ ParamsOf(inUse) \in SUBSET Param
  BY ModelFacts, RankAssumption DEF UseInv
<1>1. /\ IsStore(t)
      /\ \A n \in inUse : \A p \in Model(n) : Entered(t, comm_map_[r], r, n, driver_[n], p)
      /\ NothingElse(t, comm_map_[r], r, inUse)
  BY DEF StoreInv
<1>2. \A p \in Mine : /\ p \in Param /\ Entered(t, comm_map_[r], r, m, driver_[m], p)
  BY <1>0, <1>1
<1>3. t.graph_params_[m] \subseteq Ids(r, Mine) /\ t.unused_params_[m] \subseteq Ids(0, Mine)
  BY <1>1 DEF NothingElse
<1> HIDE DEF Mine, t
<1>4. Released(t, m) = Ids(r, Mine)
  <2>1. \A p \in Mine : \/ Id[r][p] \in t.graph_params_[m]
                        \/ /\ Id[0][p] \in t.unused_params_[m]
                           /\ t.id_global_to_local_[Id[0][p]] = Id[r][p]
    BY <1>2 DEF Entered
  <2>2. \A p \in Mine : t.id_global_to_local_[Id[0][p]] = Id[r][p]
    BY <1>2 DEF Entered
  <2> QED
    BY <1>3, <2>1, <2>2 DEF Released, Ids
<1>5. Forgotten(t, m) = Ids(r, Mine)
  <2>1. \A i \in Ids(r, Mine) : t.ref_counts_[i] = 1
    BY <1>2 DEF Entered, Ids
  <2> QED
    BY <1>4, <2>1 DEF Forgotten
<1>6. {t.id_local_to_global_[i] : i \in Ids(r, Mine)} = Ids(0, Mine)
  <2>1. \A p \in Mine : t.id_local_to_global_[Id[r][p]] = Id[0][p]
    BY <1>2 DEF Entered
  <2> QED
    BY <2>1 DEF Ids
<1>7. /\ IsStore(u)
      /\ u.params_ = t.params_ \ Ids(r, Mine)
      /\ u.graph_params_ = [t.graph_params_ EXCEPT ![m] = {}]
      /\ u.unused_params_ = [t.unused_params_ EXCEPT ![m] = {}]
      /\ u.id_global_to_local_ = Without(t.id_global_to_local_, Ids(0, Mine))
      /\ u.id_local_to_global_ = Without(t.id_local_to_global_, Ids(r, Mine))
      /\ u.ranks_ = Without(t.ranks_, Ids(r, Mine))
      /\ u.ref_counts_ = Without(Assign(t.ref_counts_,
            [i \in Ids(r, Mine) |-> t.ref_counts_[i] - 1]), Ids(r, Mine))
      /\ u.my_param_ranks_ = t.my_param_ranks_ /\ u.tag_rank_set_ = t.tag_rank_set_
  <2>1. u = releaseGraphParams(t, m)
    BY DEF t
  <2>2. AsReleased(t, m, u)
    BY <1>1, <2>1, ReleasedFields
  <2>3. [i \in Released(t, m) |-> t.ref_counts_[i] - 1]
           = [i \in Ids(r, Mine) |-> t.ref_counts_[i] - 1]
    <3> DEFINE f(S) == [i \in S |-> t.ref_counts_[i] - 1]
    <3>1. \A S : S = Ids(r, Mine) => f(S) = f(Ids(r, Mine))
      OBVIOUS
    <3> QED
      BY <1>4, <3>1
  <2>4. {t.id_local_to_global_[i] : i \in Forgotten(t, m)} = Ids(0, Mine)
    BY <1>5, <1>6
  <2> QED
    BY <1>5, <2>2, <2>3, <2>4 DEF AsReleased
<1>8. /\ DOMAIN u.ref_counts_ = DOMAIN t.ref_counts_ \ Ids(r, Mine)
      /\ \A i \in DOMAIN u.ref_counts_ : u.ref_counts_[i] = t.ref_counts_[i]
  <2>1. Ids(r, Mine) \subseteq DOMAIN t.ref_counts_
    BY <1>2 DEF Entered, Ids
  <2> QED
    BY <1>7, <2>1 DEF Without, Assign
<1>9. ASSUME NEW n \in inUse \ {m}, NEW p \in Model(n)
      PROVE  Entered(u, comm_map_[r], r, n, driver_[n], p)
  <2>1. Entered(t, comm_map_[r], r, n, driver_[n], p)
    BY <1>1
  <2>2. p \notin Mine /\ p \in Param /\ n \in Module
    BY <1>0 DEF UseInv, Mine
  <2>3. Id[r][p] \notin Ids(r, Mine) /\ Id[0][p] \notin Ids(0, Mine)
    BY <1>0, <2>2, IdFacts
  <2>4. /\ u.graph_params_[n] = t.graph_params_[n]
        /\ u.unused_params_[n] = t.unused_params_[n]
    BY <1>1, <1>7, <2>2 DEF IsStore
  <2>5. At(u.ranks_, Id[r][p], {}) = At(t.ranks_, Id[r][p], {})
    BY <1>7, <2>3 DEF Without, At
  <2>6. /\ Id[r][p] \in DOMAIN u.ref_counts_ /\ u.ref_counts_[Id[r][p]] = 1
    BY <1>8, <2>1, <2>3 DEF Entered
  <2>7. /\ Id[r][p] \in DOMAIN u.id_local_to_global_
        /\ u.id_local_to_global_[Id[r][p]] = Id[0][p]
        /\ Id[0][p] \in DOMAIN u.id_global_to_local_
        /\ u.id_global_to_local_[Id[0][p]] = Id[r][p]
    BY <1>7, <2>1, <2>3 DEF Entered, Without
  <2>8. Id[r][p] \in u.params_ <=> Id[r][p] \in t.params_
    BY <1>7, <2>3
  <2> QED
    BY <1>7, <2>1, <2>4, <2>5, <2>6, <2>7, <2>8 DEF Entered
<1>10. NothingElse(u, comm_map_[r], r, inUse \ {m})
  <2>1. ParamsOf(inUse) \subseteq ParamsOf(inUse \ {m}) \cup Mine
    BY DEF ParamsOf, Mine
  <2>2. \A q \in Rank : Ids(q, ParamsOf(inUse)) \subseteq
           Ids(q, ParamsOf(inUse \ {m})) \cup Ids(q, Mine)
    BY <2>1 DEF Ids
  <2>3. /\ u.params_ \subseteq Ids(r, ParamsOf(inUse \ {m}))
        /\ DOMAIN u.ranks_ \subseteq Ids(r, ParamsOf(inUse \ {m}))
        /\ DOMAIN u.ref_counts_ \subseteq Ids(r, ParamsOf(inUse \ {m}))
        /\ DOMAIN u.id_local_to_global_ \subseteq Ids(r, ParamsOf(inUse \ {m}))
        /\ DOMAIN u.id_global_to_local_ \subseteq Ids(0, ParamsOf(inUse \ {m}))
    BY <1>0, <1>1, <1>7, <1>8, <2>2 DEF NothingElse, Without
  <2>4. ASSUME NEW n \in Module
        PROVE  /\ u.graph_params_[n] \subseteq Ids(r, IF n \in inUse \ {m} THEN Model(n) ELSE {})
               /\ u.unused_params_[n] \subseteq Ids(0, IF n \in inUse \ {m} THEN Model(n) ELSE {})
    <3>1. CASE n = m
      BY <1>1, <1>7, <3>1 DEF IsStore
    <3>2. CASE n # m
      BY <1>1, <1>7, <3>2 DEF IsStore, NothingElse
    <3> QED
      BY <3>1, <3>2
  <2> QED
    BY <1>1, <1>7, <2>3, <2>4 DEF NothingElse
<1> QED
  BY <1>7, <1>9, <1>10

-----------------------------------------------------------------------------
(* The first call of a module. *)

\* The communicators of rank r after the first call.
CommsAfter(r, m, d) ==
    comm_map_[r] \cup {Rank}
      \cup {S \in {NewRanks(store[r], r, d, p) : p \in Model(m)} :
               r \in S /\ S \notin store[r].tag_rank_set_}

\* What the three passes over ParamStorage in init add up to, when no parameter
\* of the module is known yet.
FreshTables(t, r, P, d, m, u) ==
    /\ IsStore(u)
    /\ u.params_ = t.params_ \cup Ids(r, UsedOn(d, r))
    /\ \A n \in Module \ {m} : /\ u.graph_params_[n] = t.graph_params_[n]
                               /\ u.unused_params_[n] = t.unused_params_[n]
                               /\ u.my_param_ranks_[n] = t.my_param_ranks_[n]
    /\ u.graph_params_[m] = Ids(r, UsedOn(d, r))
    /\ u.unused_params_[m] = Ids(0, P \ UsedOn(d, r))
    /\ DOMAIN u.ref_counts_ = DOMAIN t.ref_counts_ \cup Ids(r, P)
    /\ DOMAIN u.id_local_to_global_ = DOMAIN t.id_local_to_global_ \cup Ids(r, P)
    /\ DOMAIN u.id_global_to_local_ = DOMAIN t.id_global_to_local_ \cup Ids(0, P)
    /\ DOMAIN u.ranks_ \subseteq DOMAIN t.ranks_ \cup Ids(r, P)
    /\ \A i \in DOMAIN t.ref_counts_ : u.ref_counts_[i] = t.ref_counts_[i]
    /\ \A i \in DOMAIN t.id_local_to_global_ : u.id_local_to_global_[i] = t.id_local_to_global_[i]
    /\ \A i \in DOMAIN t.id_global_to_local_ : u.id_global_to_local_[i] = t.id_global_to_local_[i]
    /\ \A i : i \notin Ids(r, P) => At(u.ranks_, i, {}) = At(t.ranks_, i, {})
    /\ \A p \in P :
          /\ u.ref_counts_[Id[r][p]] = 1
          /\ u.id_local_to_global_[Id[r][p]] = Id[0][p]
          /\ u.id_global_to_local_[Id[0][p]] = Id[r][p]
          /\ At(u.ranks_, Id[r][p], {}) = Placed(d, p)
          /\ r \in Placed(d, p) => \E s \in d.users[p] :
                r \in d.ranks[s] /\ At(u.my_param_ranks_[m], Id[r][p], {}) = d.ranks[s]
    /\ u.tag_rank_set_ \subseteq t.tag_rank_set_ \cup {Placed(d, p) : p \in P}

\* A table from ids of rank r to those of rank q, read at the ids of Q.
LEMMA IdImage ==
    ASSUME NEW f, NEW r, NEW q, NEW Q, \A p \in Q : f[Id[r][p]] = Id[q][p]
    PROVE  {f[i] : i \in Ids(r, Q)} = Ids(q, Q)
  BY DEF Ids

\* No table mentions a parameter of P, nor the graph of module m.
Unknown(t, r, P, m) ==
    /\ Ids(r, P) \cap (t.params_ \cup DOMAIN t.ranks_ \cup DOMAIN t.ref_counts_
                         \cup DOMAIN t.id_local_to_global_) = {}
    /\ Ids(0, P) \cap DOMAIN t.id_global_to_local_ = {}
    /\ \A n \in Module : Ids(r, P) \cap t.graph_params_[n] = {}
    /\ t.graph_params_[m] = {} /\ t.unused_params_[m] = {}

\* registerParam, deploy and unregisterParam enter a new module.
LEMMA InitTables ==
    ASSUME NEW t, IsStore(t), NEW r \in Rank, NEW P \in SUBSET Param, NEW d, IsDeployment(d, P),
           NEW m \in Module, NEW zero, Unknown(t, r, P, m), NEW u,
           u = unregisterParams(deploy(registerParams(t, r, P), r, m, d, zero),
                                Ids(r, P \ UsedOn(d, r)))
    PROVE  FreshTables(t, r, P, d, m, u)
<1>0. PICK a, b : a = registerParams(t, r, P) /\ b = deploy(a, r, m, d, zero)
                    /\ u = unregisterParams(b, Ids(r, P \ UsedOn(d, r)))
  OBVIOUS
<1>1. AsRegistered(t, r, P, a) /\ IsStore(a)
  BY <1>0, Registered DEF AsRegistered
<1>2. AsDeployed(a, r, m, d, b) /\ IsStore(b)
  <2>1. AsDeployed(a, r, m, d, b)
    BY <1>0, <1>1, Deployed
  <2> QED
    BY <2>1, Zenon DEF AsDeployed
<1>3. AsUnregistered(b, Ids(r, P \ UsedOn(d, r)), u) /\ IsStore(u)
  <2>1. AsUnregistered(b, Ids(r, P \ UsedOn(d, r)), u)
    BY <1>0, <1>2, Unregistered
  <2> QED
    BY <2>1, Zenon DEF AsUnregistered
<1>4. /\ DOMAIN d.users = P /\ UsedOn(d, r) \in SUBSET P /\ P \ UsedOn(d, r) \in SUBSET P
      /\ 0 \in Rank
      /\ P \ UsedOn(d, r) \in SUBSET Param /\ UsedOn(d, r) \in SUBSET Param
  BY RankAssumption DEF IsDeployment, UsedOn
<1>5. \A p \in P : /\ p \in Param
                   /\ Id[r][p] \in Ids(r, P) /\ Id[0][p] \in Ids(0, P)
                   /\ (CHOOSE q \in P : Id[r][q] = Id[r][p]) = p
                   /\ (CHOOSE q \in P : Id[0][q] = Id[0][p]) = p
  BY <1>4, IdFacts
<1>6. Ids(r, P \ UsedOn(d, r)) = Ids(r, P) \ Ids(r, UsedOn(d, r))
  BY <1>4, <1>5, IdFacts DEF Ids
<1>7. \A p \in P : NewRanks(a, r, d, p) = Placed(d, p)
  <2>1. a.ranks_ = t.ranks_
    BY <1>1 DEF AsRegistered
  <2>2. \A p \in P : Id[r][p] \notin DOMAIN t.ranks_
    BY <1>5 DEF Unknown
  <2> QED
    BY <2>1, <2>2 DEF NewRanks, At
<1>8. Ranked(a, r, d) = {p \in P : Placed(d, p) # {}}
  BY <1>4, <1>7 DEF Ranked
<1>9. u.params_ = t.params_ \cup Ids(r, UsedOn(d, r))
  <2>1. Ids(r, UsedOn(d, r)) \subseteq Ids(r, P)
    BY <1>4 DEF Ids
  <2>2. u.params_ = (t.params_ \cup Ids(r, P)) \ Ids(r, P \ UsedOn(d, r))
    BY <1>1, <1>2, <1>3 DEF AsRegistered, AsDeployed, AsUnregistered
  <2> QED
    BY <1>6, <2>1, <2>2 DEF Unknown
<1>10. ASSUME NEW n \in Module \ {m}
       PROVE  /\ u.graph_params_[n] = t.graph_params_[n]
              /\ u.unused_params_[n] = t.unused_params_[n]
              /\ u.my_param_ranks_[n] = t.my_param_ranks_[n]
  <2>1. b.graph_params_[n] = t.graph_params_[n] /\ b.my_param_ranks_[n] = t.my_param_ranks_[n]
    BY <1>1, <1>2 DEF AsRegistered, AsDeployed, IsStore
  <2>2. t.graph_params_[n] \cap Ids(r, P \ UsedOn(d, r)) = {}
    BY <1>6 DEF Unknown
  <2>3. u.graph_params_[n] = b.graph_params_[n] \ Ids(r, P \ UsedOn(d, r))
    BY <1>3 DEF AsUnregistered
  <2>4. u.unused_params_[n] = t.unused_params_[n] \cup
           {b.id_local_to_global_[i] : i \in b.graph_params_[n] \cap Ids(r, P \ UsedOn(d, r))}
    <3>1. a.unused_params_ = t.unused_params_ /\ b.unused_params_ = a.unused_params_
      BY <1>1, <1>2, Zenon DEF AsRegistered, AsDeployed
    <3>2. u.unused_params_[n] = b.unused_params_[n] \cup
           {b.id_local_to_global_[i] : i \in b.graph_params_[n] \cap Ids(r, P \ UsedOn(d, r))}
      BY <1>3, Zenon DEF AsUnregistered
    <3> QED
      BY <3>1, <3>2, Zenon
  <2>5. u.my_param_ranks_ = b.my_param_ranks_
    BY <1>3, Zenon DEF AsUnregistered
  <2> QED
    BY <2>1, <2>2, <2>3, <2>4, <2>5
<1>11. /\ DOMAIN u.id_local_to_global_ = DOMAIN t.id_local_to_global_ \cup Ids(r, P)
       /\ DOMAIN u.id_global_to_local_ = DOMAIN t.id_global_to_local_ \cup Ids(0, P)
       /\ \A i \in DOMAIN t.id_local_to_global_ : u.id_local_to_global_[i] = t.id_local_to_global_[i]
       /\ \A i \in DOMAIN t.id_global_to_local_ : u.id_global_to_local_[i] = t.id_global_to_local_[i]
       /\ \A p \in P : /\ u.id_local_to_global_[Id[r][p]] = Id[0][p]
                       /\ u.id_global_to_local_[Id[0][p]] = Id[r][p]
  <2> DEFINE local  == [i \in Ids(r, P) |-> Id[0][CHOOSE p \in P : Id[r][p] = i]]
             global == [g \in Ids(0, P) |-> Id[r][CHOOSE p \in P : Id[0][p] = g]]
  <2>0. /\ DOMAIN local = Ids(r, P) /\ \A p \in P : local[Id[r][p]] = Id[0][p]
        /\ DOMAIN global = Ids(0, P) /\ \A p \in P : global[Id[0][p]] = Id[r][p]
    BY <1>5
  <2>1. /\ u.id_local_to_global_ = Assign(t.id_local_to_global_, local)
        /\ u.id_global_to_local_ = Assign(t.id_global_to_local_, global)
    BY <1>1, <1>2, <1>3, Zenon DEF AsRegistered, AsDeployed, AsUnregistered
  <2> HIDE DEF local, global
  <2>2. \A i \in DOMAIN t.id_local_to_global_ : i \notin Ids(r, P)
    BY DEF Unknown
  <2>3. \A i \in DOMAIN t.id_global_to_local_ : i \notin Ids(0, P)
    BY DEF Unknown
  <2>4. /\ DOMAIN u.id_local_to_global_ = DOMAIN t.id_local_to_global_ \cup Ids(r, P)
        /\ \A i \in DOMAIN t.id_local_to_global_ : u.id_local_to_global_[i] = t.id_local_to_global_[i]
        /\ \A i \in Ids(r, P) : u.id_local_to_global_[i] = local[i]
    BY <2>0, <2>1, <2>2 DEF Assign
  <2>5. /\ DOMAIN u.id_global_to_local_ = DOMAIN t.id_global_to_local_ \cup Ids(0, P)
        /\ \A i \in DOMAIN t.id_global_to_local_ : u.id_global_to_local_[i] = t.id_global_to_local_[i]
        /\ \A i \in Ids(0, P) : u.id_global_to_local_[i] = global[i]
    BY <2>0, <2>1, <2>3 DEF Assign
  <2>6. ASSUME NEW p \in P
        PROVE  /\ u.id_local_to_global_[Id[r][p]] = Id[0][p]
               /\ u.id_global_to_local_[Id[0][p]] = Id[r][p]
    <3>1. Id[r][p] \in Ids(r, P) /\ Id[0][p] \in Ids(0, P)
      BY <1>5
    <3>2. local[Id[r][p]] = Id[0][p] /\ global[Id[0][p]] = Id[r][p]
      BY <2>0
    <3> QED
      BY <2>4, <2>5, <3>1, <3>2
  <2> QED
    BY <2>4, <2>5, <2>6
<1>12. /\ u.graph_params_[m] = Ids(r, UsedOn(d, r))
       /\ u.unused_params_[m] = Ids(0, P \ UsedOn(d, r))
  <2>1. b.graph_params_[m] = Ids(r, P)
    BY <1>1, <1>2, <1>4 DEF AsRegistered, AsDeployed, IsStore, Unknown
  <2>2. u.graph_params_[m] = b.graph_params_[m] \ Ids(r, P \ UsedOn(d, r))
    BY <1>3 DEF AsUnregistered
  <2>3. u.unused_params_[m] =
           {b.id_local_to_global_[i] : i \in b.graph_params_[m] \cap Ids(r, P \ UsedOn(d, r))}
    <3>1. a.unused_params_ = t.unused_params_ /\ b.unused_params_ = a.unused_params_
      BY <1>1, <1>2, Zenon DEF AsRegistered, AsDeployed
    <3>2. u.unused_params_[m] = b.unused_params_[m] \cup
           {b.id_local_to_global_[i] : i \in b.graph_params_[m] \cap Ids(r, P \ UsedOn(d, r))}
      BY <1>3, Zenon DEF AsUnregistered
    <3> QED
      BY <3>1, <3>2 DEF Unknown
  <2>4. b.id_local_to_global_ = u.id_local_to_global_
    BY <1>3 DEF AsUnregistered
  <2>5. {u.id_local_to_global_[i] : i \in Ids(r, P \ UsedOn(d, r))} = Ids(0, P \ UsedOn(d, r))
    <3>1. PICK f, Q : f = u.id_local_to_global_ /\ Q = P \ UsedOn(d, r)
      OBVIOUS
    <3>2. \A p \in Q : f[Id[r][p]] = Id[0][p]
      BY <1>11, <3>1
    <3>3. {f[i] : i \in Ids(r, Q)} = Ids(0, Q)
      BY <3>2, IdImage
    <3> QED
      BY <3>1, <3>3, Zenon
  <2>6. Ids(r, UsedOn(d, r)) \subseteq Ids(r, P)
    BY <1>4 DEF Ids
  <2>7. b.graph_params_[m] \cap Ids(r, P \ UsedOn(d, r)) = Ids(r, P \ UsedOn(d, r))
    BY <1>6, <2>1
  <2>8. u.unused_params_[m] = Ids(0, P \ UsedOn(d, r))
    BY <2>3, <2>4, <2>5, <2>7, Zenon
  <2> QED
    BY <1>6, <2>1, <2>2, <2>6, <2>8
<1>13. /\ DOMAIN u.ref_counts_ = DOMAIN t.ref_counts_ \cup Ids(r, P)
       /\ \A i \in DOMAIN t.ref_counts_ : u.ref_counts_[i] = t.ref_counts_[i]
       /\ \A p \in P : u.ref_counts_[Id[r][p]] = 1
  <2> DEFINE new == [i \in Ids(r, P) |-> At(t.ref_counts_, i, 0) + 1]
  <2>1. u.ref_counts_ = Assign(t.ref_counts_, new)
    <3>1. /\ u.ref_counts_ = b.ref_counts_ /\ a.ref_counts_ = t.ref_counts_
          /\ b.ref_counts_ = Assign(a.ref_counts_,
                 [i \in Ids(r, DOMAIN d.users) |-> At(a.ref_counts_, i, 0) + 1])
      BY <1>1, <1>2, <1>3, Zenon DEF AsRegistered, AsDeployed, AsUnregistered
    <3> QED
      BY <1>4, <3>1
  <2>2. \A i \in Ids(r, P) : i \notin DOMAIN t.ref_counts_
    BY DEF Unknown
  <2>3. DOMAIN new = Ids(r, P) /\ \A i \in Ids(r, P) : new[i] = 1
    BY <2>2 DEF At
  <2> HIDE DEF new
  <2>4. /\ DOMAIN u.ref_counts_ = DOMAIN t.ref_counts_ \cup Ids(r, P)
        /\ \A i \in DOMAIN t.ref_counts_ : u.ref_counts_[i] = t.ref_counts_[i]
        /\ \A i \in Ids(r, P) : u.ref_counts_[i] = new[i]
    BY <2>1, <2>2, <2>3 DEF Assign
  <2> QED
    BY <1>5, <2>3, <2>4
<1>14. /\ DOMAIN u.ranks_ \subseteq DOMAIN t.ranks_ \cup Ids(r, P)
       /\ \A i : i \notin Ids(r, P) => At(u.ranks_, i, {}) = At(t.ranks_, i, {})
       /\ \A p \in P : At(u.ranks_, Id[r][p], {}) = Placed(d, p)
  <2> DEFINE R == {p \in P : Placed(d, p) # {}}
             new == [i \in Ids(r, R) |-> NewRanks(a, r, d, CHOOSE p \in P : Id[r][p] = i)]
  <2>1. u.ranks_ = Assign(t.ranks_, new)
    <3>1. /\ u.ranks_ = b.ranks_ /\ a.ranks_ = t.ranks_
          /\ b.ranks_ = Assign(a.ranks_,
                 [i \in Ids(r, Ranked(a, r, d)) |->
                    NewRanks(a, r, d, CHOOSE p \in DOMAIN d.users : Id[r][p] = i)])
      BY <1>1, <1>2, <1>3, Zenon DEF AsRegistered, AsDeployed, AsUnregistered
    <3> QED
      BY <1>4, <1>8, <3>1
  <2>2. /\ R \in SUBSET P /\ R \in SUBSET Param /\ Ids(r, R) \subseteq Ids(r, P)
        /\ DOMAIN new = Ids(r, R)
    BY DEF Ids
  <2>3. ASSUME NEW p \in R PROVE new[Id[r][p]] = Placed(d, p)
    <3>1. Id[r][p] \in Ids(r, R)
      BY DEF Ids
    <3>2. new[Id[r][p]] = NewRanks(a, r, d, CHOOSE q \in P : Id[r][q] = Id[r][p])
      BY <3>1
    <3> QED
      BY <1>5, <1>7, <2>2, <3>2
  <2>4. \A p \in P : Id[r][p] \in Ids(r, R) <=> p \in R
    BY <1>5, <2>2, IdFacts
  <2>5. \A i \in Ids(r, P) : i \notin DOMAIN t.ranks_
    BY DEF Unknown
  <2> HIDE DEF new
  <2>6. \A i : i \notin Ids(r, P) => At(u.ranks_, i, {}) = At(t.ranks_, i, {})
    BY <2>1, <2>2 DEF Assign, At
  <2>7. ASSUME NEW p \in P PROVE At(u.ranks_, Id[r][p], {}) = Placed(d, p)
    <3>1. CASE p \in R
      <4>1. Id[r][p] \in DOMAIN new /\ new[Id[r][p]] = Placed(d, p)
        BY <2>2, <2>3, <2>4, <3>1
      <4>2. Id[r][p] \in DOMAIN u.ranks_ /\ u.ranks_[Id[r][p]] = new[Id[r][p]]
        BY <2>1, <4>1 DEF Assign
      <4> QED
        BY <4>1, <4>2 DEF At
    <3>2. CASE p \notin R
      <4>1. Id[r][p] \notin DOMAIN u.ranks_
        BY <1>5, <2>1, <2>2, <2>4, <2>5, <3>2 DEF Assign
      <4> QED
        BY <3>2, <4>1 DEF At
    <3> QED
      BY <3>1, <3>2
  <2> QED
    BY <2>1, <2>2, <2>6, <2>7 DEF Assign
<1>15. ASSUME NEW p \in P, r \in Placed(d, p)
       PROVE  \E s \in d.users[p] :
                 r \in d.ranks[s] /\ At(u.my_param_ranks_[m], Id[r][p], {}) = d.ranks[s]
  <2> DEFINE new == [i \in Ids(r, UsedOn(d, r)) |->
                d.ranks[CHOOSE s \in d.users[CHOOSE q \in P : Id[r][q] = i] : r \in d.ranks[s]]]
  <2>1. u.my_param_ranks_[m] = Assign(t.my_param_ranks_[m], new)
    <3>1. /\ u.my_param_ranks_ = b.my_param_ranks_ /\ a.my_param_ranks_ = t.my_param_ranks_
          /\ b.my_param_ranks_[m] = Assign(a.my_param_ranks_[m],
                 [i \in Ids(r, UsedOn(d, r)) |->
                    d.ranks[CHOOSE s \in d.users[CHOOSE q \in DOMAIN d.users : Id[r][q] = i] :
                              r \in d.ranks[s]]])
      BY <1>1, <1>2, <1>3, Zenon DEF AsRegistered, AsDeployed, AsUnregistered, IsStore
    <3> QED
      BY <1>4, <3>1
  <2>2. PICK s \in d.users[p] : s = CHOOSE x \in d.users[p] : r \in d.ranks[x]
    BY <1>15 DEF Placed
  <2>3. r \in d.ranks[s]
    BY <1>15, <2>2 DEF Placed
  <2>4. Id[r][p] \in Ids(r, UsedOn(d, r))
    BY <1>4, <1>15 DEF Ids, UsedOn
  <2>5. Id[r][p] \in DOMAIN new /\ new[Id[r][p]] = d.ranks[s]
    <3>1. new[Id[r][p]] = d.ranks[CHOOSE x \in d.users[CHOOSE q \in P : Id[r][q] = Id[r][p]] :
                                     r \in d.ranks[x]]
      BY <2>4
    <3>2. (CHOOSE q \in P : Id[r][q] = Id[r][p]) = p
      BY <1>5
    <3>3. new[Id[r][p]] = d.ranks[CHOOSE x \in d.users[p] : r \in d.ranks[x]]
      BY <3>1, <3>2, Zenon
    <3> QED
      BY <2>2, <2>4, <3>3
  <2> HIDE DEF new
  <2>6. At(u.my_param_ranks_[m], Id[r][p], {}) = d.ranks[s]
    BY <2>1, <2>5 DEF Assign, At
  <2> QED
    BY <2>2, <2>3, <2>6
<1>16. u.tag_rank_set_ \subseteq t.tag_rank_set_ \cup {Placed(d, p) : p \in P}
  <2>1. u.tag_rank_set_ = t.tag_rank_set_ \cup {NewRanks(a, r, d, p) : p \in Ranked(a, r, d)}
    BY <1>1, <1>2, <1>3, Zenon DEF AsRegistered, AsDeployed, AsUnregistered
  <2> QED
    BY <1>7, <1>8, <2>1
<1> QED
  BY <1>3, <1>9, <1>10, <1>11, <1>12, <1>13, <1>14, <1>15, <1>16 DEF FreshTables

\* Entering a new module on a rank leaves those in use as they are.
LEMMA FirstCallOnRank ==
    ASSUME UseInv, NEW r \in Rank, StoreInv(r), NEW m \in Module, m \notin inUse,
           NEW d, IsDeployment(d, Model(m)),
           \A n \in inUse : Model(m) \cap Model(n) = {},
           NEW u, FreshTables(store[r], r, Model(m), d, m, u),
           NEW comms, comms = CommsAfter(r, m, d)
    PROVE  /\ IsStore(u)
           /\ \A n \in inUse : \A p \in Model(n) : Entered(u, comms, r, n, driver_[n], p)
           /\ \A p \in Model(m) : Entered(u, comms, r, m, d, p)
           /\ NothingElse(u, comms, r, inUse \cup {m})
<1>0. PICK t, P : t = store[r] /\ P = Model(m)
  OBVIOUS
<1>1. /\ IsStore(t)
      /\ \A n \in inUse : \A p \in Model(n) : Entered(t, comm_map_[r], r, n, driver_[n], p)
      /\ NothingElse(t, comm_map_[r], r, inUse)
  BY <1>0 DEF StoreInv
<1>2. /\ 0 \in Rank /\ inUse \in SUBSET Module /\ P \in SUBSET Param
      /\ \A n \in Module : Model(n) \in SUBSET Param
  BY <1>0, ModelFacts, RankAssumption DEF UseInv
<1>3. FreshTables(t, r, P, d, m, u)
  BY <1>0
<1>4. DOMAIN d.users = P /\ \A p \in P : p \in UsedOn(d, r) <=> r \in Placed(d, p)
  BY <1>0 DEF IsDeployment, UsedOn
<1>5. UsedOn(d, r) \in SUBSET Param /\ P \ UsedOn(d, r) \in SUBSET Param
        /\ UsedOn(d, r) \in SUBSET P
  BY <1>2, <1>4 DEF UsedOn
<1>6. comm_map_[r] \subseteq comms
  BY DEF CommsAfter
<1>7. ASSUME NEW n \in inUse, NEW p \in Model(n)
      PROVE  Entered(u, comms, r, n, driver_[n], p)
  <2>1. Entered(t, comm_map_[r], r, n, driver_[n], p)
    BY <1>1
  <2>2. p \in Param /\ p \notin P /\ n \in Module \ {m}
    BY <1>0, <1>2
  <2>3. Id[r][p] \notin Ids(r, P) /\ Id[r][p] \notin Ids(r, UsedOn(d, r))
    BY <1>2, <1>5, <2>2, IdFacts
  <2>4. /\ Id[r][p] \in DOMAIN u.ref_counts_ /\ u.ref_counts_[Id[r][p]] = 1
        /\ Id[r][p] \in DOMAIN u.id_local_to_global_
        /\ u.id_local_to_global_[Id[r][p]] = Id[0][p]
        /\ Id[0][p] \in DOMAIN u.id_global_to_local_
        /\ u.id_global_to_local_[Id[0][p]] = Id[r][p]
    BY <1>3, <2>1 DEF FreshTables, Entered
  <2>5. At(u.ranks_, Id[r][p], {}) = At(t.ranks_, Id[r][p], {})
    BY <1>3, <2>3 DEF FreshTables
  <2>6. /\ u.graph_params_[n] = t.graph_params_[n]
        /\ u.unused_params_[n] = t.unused_params_[n]
        /\ u.my_param_ranks_[n] = t.my_param_ranks_[n]
    BY <1>3, <2>2 DEF FreshTables
  <2>7. Id[r][p] \in u.params_ <=> Id[r][p] \in t.params_
    BY <1>3, <2>3 DEF FreshTables
  <2> QED
    BY <1>6, <2>1, <2>4, <2>5, <2>6, <2>7 DEF Entered
<1>8. ASSUME NEW p \in P, r \in Placed(d, p)
      PROVE  Placed(d, p) \in comms
  <2>1. NewRanks(t, r, d, p) = Placed(d, p)
    <3>1. p \in Param /\ ParamsOf(inUse) \in SUBSET Param /\ p \notin ParamsOf(inUse)
      BY <1>0, <1>2 DEF ParamsOf
    <3>2. Id[r][p] \notin Ids(r, ParamsOf(inUse))
      BY <3>1, IdFacts
    <3>3. Id[r][p] \notin DOMAIN t.ranks_
      BY <1>1, <3>2 DEF NothingElse
    <3> QED
      BY <3>3 DEF NewRanks, At
  <2>2. CASE Placed(d, p) \in t.tag_rank_set_
    BY <1>1, <1>6, <1>8, <2>2 DEF NothingElse
  <2>3. CASE Placed(d, p) \notin t.tag_rank_set_
    BY <1>0, <1>8, <2>1, <2>3 DEF CommsAfter
  <2> QED
    BY <2>2, <2>3
<1>9. ASSUME NEW p \in P PROVE Entered(u, comms, r, m, d, p)
  <2>1. /\ Id[r][p] \in Ids(r, P) /\ Id[0][p] \in Ids(0, P) /\ p \in Param
        /\ Id[r][p] \in Ids(r, UsedOn(d, r)) <=> r \in Placed(d, p)
        /\ Id[0][p] \in Ids(0, P \ UsedOn(d, r)) <=> r \notin Placed(d, p)
    BY <1>2, <1>4, <1>5, IdFacts
  <2>2. Id[r][p] \notin t.params_
    <3>1. ParamsOf(inUse) \in SUBSET Param /\ p \notin ParamsOf(inUse)
      BY <1>0, <1>2 DEF ParamsOf
    <3>2. Id[r][p] \notin Ids(r, ParamsOf(inUse))
      BY <2>1, <3>1, IdFacts
    <3> QED
      BY <1>1, <3>2 DEF NothingElse
  <2>3. /\ Id[r][p] \in DOMAIN u.ref_counts_ /\ u.ref_counts_[Id[r][p]] = 1
        /\ Id[r][p] \in DOMAIN u.id_local_to_global_
        /\ u.id_local_to_global_[Id[r][p]] = Id[0][p]
        /\ Id[0][p] \in DOMAIN u.id_global_to_local_
        /\ u.id_global_to_local_[Id[0][p]] = Id[r][p]
        /\ At(u.ranks_, Id[r][p], {}) = Placed(d, p)
    BY <1>3, <2>1 DEF FreshTables
  <2>4. /\ Id[r][p] \in u.params_ <=> r \in Placed(d, p)
        /\ Id[r][p] \in u.graph_params_[m] <=> r \in Placed(d, p)
        /\ Id[0][p] \in u.unused_params_[m] <=> r \notin Placed(d, p)
    BY <1>3, <2>1, <2>2 DEF FreshTables
  <2>5. r \in Placed(d, p) => \E s \in d.users[p] :
           r \in d.ranks[s] /\ At(u.my_param_ranks_[m], Id[r][p], {}) = d.ranks[s]
    BY <1>3 DEF FreshTables
  <2> QED
    BY <1>8, <2>3, <2>4, <2>5 DEF Entered
<1>10. NothingElse(u, comms, r, inUse \cup {m})
  <2>1. \A q \in Rank : /\ Ids(q, ParamsOf(inUse)) \subseteq Ids(q, ParamsOf(inUse \cup {m}))
                        /\ Ids(q, P) \subseteq Ids(q, ParamsOf(inUse \cup {m}))
    BY <1>0 DEF Ids, ParamsOf
  <2>2. Ids(r, UsedOn(d, r)) \subseteq Ids(r, P) /\ Ids(0, P \ UsedOn(d, r)) \subseteq Ids(0, P)
    BY <1>5 DEF Ids
  <2>3. /\ u.params_ \subseteq Ids(r, ParamsOf(inUse \cup {m}))
        /\ DOMAIN u.ranks_ \subseteq Ids(r, ParamsOf(inUse \cup {m}))
        /\ DOMAIN u.ref_counts_ \subseteq Ids(r, ParamsOf(inUse \cup {m}))
        /\ DOMAIN u.id_local_to_global_ \subseteq Ids(r, ParamsOf(inUse \cup {m}))
        /\ DOMAIN u.id_global_to_local_ \subseteq Ids(0, ParamsOf(inUse \cup {m}))
    BY <1>1, <1>2, <1>3, <2>1, <2>2 DEF NothingElse, FreshTables
  <2>4. ASSUME NEW n \in Module
        PROVE  /\ u.graph_params_[n] \subseteq Ids(r, IF n \in inUse \cup {m} THEN Model(n) ELSE {})
               /\ u.unused_params_[n] \subseteq Ids(0, IF n \in inUse \cup {m} THEN Model(n) ELSE {})
    <3>1. CASE n = m
      <4>1. u.graph_params_[m] \subseteq Ids(r, P) /\ u.unused_params_[m] \subseteq Ids(0, P)
        BY <1>3, <2>2 DEF FreshTables
      <4> QED
        BY <1>0, <3>1, <4>1
    <3>2. CASE n # m
      BY <1>1, <1>3, <3>2 DEF FreshTables, NothingElse
    <3> QED
      BY <3>1, <3>2
  <2>5. \A S \in u.tag_rank_set_ : r \in S => S \in comms
    BY <1>1, <1>3, <1>6, <1>8 DEF NothingElse, FreshTables
  <2> QED
    BY <2>3, <2>4, <2>5 DEF NothingElse
<1> QED
  BY <1>0, <1>3, <1>7, <1>9, <1>10 DEF FreshTables

\* No module in use has a parameter of a module that may be called first.
LEMMA NotInUse ==
    ASSUME LifeInv, NEW m \in Module, NEW d \in job.plans[training[m]][m], FirstCall(m, d)
    PROVE  /\ m \notin inUse /\ IsDeployment(d, Model(m))
           /\ \A n \in inUse : Model(m) \cap Model(n) = {}
<1>1. UseInv /\ ~ready[m] /\ training[m] \in BOOLEAN
  BY DEF LifeInv, UseInv, FirstCall
<1>2. m \notin inUse /\ IsDeployment(d, Model(m))
  BY <1>1, ModelFacts DEF UseInv
<1>3. ASSUME NEW n \in inUse, Model(m) \cap Model(n) # {} PROVE FALSE
  <2>1. n \in Module /\ n # m
    BY <1>1, <1>2 DEF UseInv
  <2>2. PICK mode \in BOOLEAN : driver_[n] \in job.plans[mode][n]
    BY <1>1 DEF UseInv
  <2>3. PICK p \in Model(m) \cap Model(n) : driver_[n].users[p] # {}
    BY <1>1, <1>3, <2>1, <2>2 DEF UseInv, SharedParameterUsed
  <2>4. IsDeployment(driver_[n], Model(n))
    BY <1>1, <2>1, <2>2, ModelFacts DEF UseInv
  <2>5. PICK r \in Rank : r \in Placed(driver_[n], p)
    <3>1. PICK s \in driver_[n].users[p] : s \in DOMAIN driver_[n].ranks
      BY <2>3, <2>4 DEF IsDeployment
    <3>2. driver_[n].ranks[s] \in (SUBSET Rank) \ {{}}
      BY <2>4, <3>1 DEF IsDeployment
    <3> QED
      BY <3>1, <3>2 DEF Placed
  <2>6. Entered(store[r], comm_map_[r], r, n, driver_[n], p)
    BY <2>3 DEF LifeInv, StoreInv
  <2>7. Id[r][p] \in store[r].params_
    BY <2>5, <2>6 DEF Entered
  <2>8. Id[r][p] \in Ids(r, Model(m))
    BY <2>3 DEF Ids
  <2>9. store[r].params_ \cap Ids(r, Model(m)) = {}
    BY DEF FirstCall
  <2> QED
    BY <2>7, <2>8, <2>9
<1> QED
  BY <1>2, <1>3

\* The tables of a rank mention the parameters of the modules in use only.
LEMMA NewIsUnknown ==
    ASSUME UseInv, NEW r \in Rank, StoreInv(r), NEW m \in Module, m \notin inUse,
           \A n \in inUse : Model(m) \cap Model(n) = {}
    PROVE  Unknown(store[r], r, Model(m), m)
<1>0. PICK t, P : t = store[r] /\ P = Model(m)
  OBVIOUS
<1>1. NothingElse(t, comm_map_[r], r, inUse)
  BY <1>0 DEF StoreInv
<1>2. /\ 0 \in Rank /\ P \in SUBSET Param /\ inUse \in SUBSET Module
      /\ \A n \in Module : Model(n) \in SUBSET Param
      /\ ParamsOf(inUse) \in SUBSET Param
  BY <1>0, ModelFacts, RankAssumption DEF UseInv
<1>3. P \cap ParamsOf(inUse) = {}
  BY <1>0 DEF ParamsOf
<1>4. \A q \in Rank : Ids(q, P) \cap Ids(q, ParamsOf(inUse)) = {}
  <2> SUFFICES ASSUME NEW q \in Rank, NEW p \in P, Id[q][p] \in Ids(q, ParamsOf(inUse))
               PROVE  FALSE
    BY DEF Ids
  <2>1. p \in ParamsOf(inUse)
    BY <1>2, IdFacts
  <2> QED
    BY <1>3, <2>1
<1>5. ASSUME NEW n \in Module PROVE Ids(r, P) \cap t.graph_params_[n] = {}
  <2>1. Ids(r, IF n \in inUse THEN Model(n) ELSE {}) \subseteq Ids(r, ParamsOf(inUse))
    BY DEF Ids, ParamsOf
  <2> QED
    BY <1>1, <1>4, <2>1 DEF NothingElse
<1>6. t.graph_params_[m] = {} /\ t.unused_params_[m] = {}
  <2>1. Ids(r, {}) = {} /\ Ids(0, {}) = {}
    BY DEF Ids
  <2> QED
    BY <1>1, <2>1 DEF NothingElse
<1> QED
  BY <1>0, <1>1, <1>2, <1>4, <1>5, <1>6 DEF Unknown, NothingElse

\* The first call of a module, or the first after a switch of mode.
LEMMA LifeFirstCall ==
    ASSUME LifeInv, NEW m \in Module, NEW d \in job.plans[training[m]][m], FirstCall(m, d)
    PROVE  LifeInv'
<1>1. /\ m \notin inUse /\ IsDeployment(d, Model(m))
      /\ \A n \in inUse : Model(m) \cap Model(n) = {}
  BY NotInUse
<1>2. UseInv /\ training[m] \in BOOLEAN /\ job \in Jobs
  BY DEF LifeInv, UseInv
<1>3. /\ job' = job /\ training' = training /\ inUse' = inUse \cup {m}
      /\ ready' = [ready EXCEPT ![m] = TRUE] /\ driver_' = [driver_ EXCEPT ![m] = d]
  BY DEF FirstCall
<1>4. \A n : Model(n)' = Model(n)
  BY <1>3 DEF Model
<1>5. driver_'[m] = d /\ \A n \in inUse : driver_'[n] = driver_[n] /\ n \in Module /\ n # m
  BY <1>1, <1>2, <1>3 DEF UseInv
<1>6. UseInv'
  <2>1. SharedParameterUsed'
    BY <1>1, <1>2, <1>3, SharedKept DEF UseInv
  <2>2. /\ DOMAIN store' = Rank /\ DOMAIN comm_map_' = Rank
    BY DEF FirstCall
  <2>3. \A n \in inUse' : ready'[n] /\ \E mode \in BOOLEAN : driver_'[n] \in job.plans[mode][n]
    BY <1>2, <1>3, <1>5 DEF UseInv
  <2>4. \A n, o \in inUse' : n # o => Model(n) \cap Model(o) = {}
    BY <1>1, <1>2, <1>3 DEF UseInv
  <2> QED
    BY <1>2, <1>3, <1>4, <2>1, <2>2, <2>3, <2>4 DEF UseInv
<1>7. ASSUME NEW r \in Rank PROVE StoreInv(r)'
  <2>1. StoreInv(r) /\ IsStore(store[r])
    BY DEF LifeInv, StoreInv
  <2>2. comm_map_'[r] = CommsAfter(r, m, d)
    BY DEF FirstCall, CommsAfter
  <2>3. store'[r] = unregisterParams(
              deploy(registerParams(store[r], r, Model(m)), r, m, d, job.zero),
              Ids(r, Model(m) \ UsedOn(d, r)))
    BY DEF FirstCall
  <2>4. Unknown(store[r], r, Model(m), m)
    BY <1>1, <1>2, <2>1, NewIsUnknown
  <2>5. PICK u : u = store'[r]
    OBVIOUS
  <2>6. FreshTables(store[r], r, Model(m), d, m, u)
    <3>1. Model(m) \in SUBSET Param
      BY <1>2, ModelFacts
    <3> QED
      BY <1>1, <2>1, <2>3, <2>4, <2>5, <3>1, InitTables
  <2>7. /\ IsStore(u)
        /\ \A n \in inUse : \A p \in Model(n) : Entered(u, comm_map_'[r], r, n, driver_[n], p)
        /\ \A p \in Model(m) : Entered(u, comm_map_'[r], r, m, d, p)
        /\ NothingElse(u, comm_map_'[r], r, inUse \cup {m})
    BY <1>1, <1>2, <2>1, <2>2, <2>6, FirstCallOnRank
  <2>8. \A n \in inUse' : \A p \in Model(n) : Entered(u, comm_map_'[r], r, n, driver_'[n], p)
    BY <1>3, <1>5, <2>7
  <2>9. NothingElse(store[r], comm_map_[r], r, inUse)' <=> NothingElse(u, comm_map_'[r], r, inUse')
    <3>1. ParamsOf(inUse)' = ParamsOf(inUse')
      BY <1>4 DEF ParamsOf
    <3> QED
      BY <1>4, <2>5, <3>1 DEF NothingElse
  <2> QED
    BY <1>3, <1>4, <2>5, <2>7, <2>8, <2>9 DEF StoreInv
<1> QED
  BY <1>6, <1>7 DEF LifeInv

-----------------------------------------------------------------------------
(* Undeploying and clearing. *)

\* train(mode) of a deployed module, undeploy and __del__ release its parameters.
LEMMA LifeRelease ==
    ASSUME LifeInv, NEW m \in Module, job' = job, comm_map_' = comm_map_,
           training' \in [Module -> BOOLEAN], inUse' = inUse \ {m},
           DOMAIN ready' = Module, \A n \in inUse \ {m} : ready'[n] = ready[n],
           Destroy({m}), store' = [r \in Rank |-> releaseGraphParams(store[r], m)]
    PROVE  LifeInv'
<1>1. UseInv
  BY DEF LifeInv
<1>2. \A n : Model(n)' = Model(n)
  BY DEF Model
<1>3. /\ DOMAIN driver_' = Module
      /\ \A n \in inUse \ {m} : driver_'[n] = driver_[n]
  BY <1>1 DEF UseInv, Destroy
<1>4. UseInv'
  <2>1. SharedParameterUsed'
    BY <1>1, SharedKept DEF UseInv
  <2>2. \A n \in inUse' : ready'[n] /\ \E mode \in BOOLEAN : driver_'[n] \in job.plans[mode][n]
    BY <1>1, <1>3 DEF UseInv
  <2> QED
    BY <1>1, <1>2, <1>3, <2>1, <2>2 DEF UseInv
<1>5. ASSUME NEW r \in Rank PROVE StoreInv(r)'
  <2>1. PICK u : u = store'[r] /\ u = releaseGraphParams(store[r], m)
    OBVIOUS
  <2>2. /\ IsStore(u)
        /\ \A n \in inUse \ {m} : \A p \in Model(n) :
              Entered(u, comm_map_[r], r, n, driver_[n], p)
        /\ NothingElse(u, comm_map_[r], r, inUse \ {m})
    BY <1>1, <2>1, ReleaseOnRank DEF LifeInv
  <2>3. NothingElse(store[r], comm_map_[r], r, inUse)' <=> NothingElse(u, comm_map_[r], r, inUse')
    <3>1. ParamsOf(inUse)' = ParamsOf(inUse')
      BY <1>2 DEF ParamsOf
    <3> QED
      BY <1>2, <2>1, <3>1 DEF NothingElse
  <2> QED
    BY <1>2, <1>3, <2>1, <2>2, <2>3 DEF StoreInv
<1> QED
  BY <1>4, <1>5 DEF LifeInv

\* A ParamStorage without entries fits when no module is in use.
LEMMA EmptyFits ==
    ASSUME NEW u, IsEmpty(u)
    PROVE  /\ IsStore(u)
           /\ u.params_ = {} /\ u.tag_rank_set_ = {}
           /\ DOMAIN u.ranks_ = {} /\ DOMAIN u.ref_counts_ = {}
           /\ DOMAIN u.id_local_to_global_ = {} /\ DOMAIN u.id_global_to_local_ = {}
           /\ \A m \in Module : u.graph_params_[m] = {} /\ u.unused_params_[m] = {}
<1>1. DOMAIN << >> = {}
  OBVIOUS
<1> QED
  BY <1>1 DEF IsEmpty

\* clear() forgets all modules and with them all tables and communicators.
LEMMA LifeClear ==
    ASSUME LifeInv, Clear
    PROVE  LifeInv'
<1>1. UseInv
  BY DEF LifeInv
<1>2. job' = job /\ inUse' = {} /\ ready' = ready /\ training' = training
  BY DEF Clear
<1>3. UseInv'
  <2>1. SharedParameterUsed'
    BY <1>1, <1>2, SharedKept DEF UseInv
  <2>2. DOMAIN driver_' = Module /\ DOMAIN store' = Rank /\ DOMAIN comm_map_' = Rank
    BY DEF Clear, Destroy
  <2> QED
    BY <1>1, <1>2, <2>1, <2>2 DEF UseInv
<1>4. ASSUME NEW r \in Rank PROVE StoreInv(r)'
  <2>1. PICK zeros : store'[r] = [EmptyStore EXCEPT !.zero_grad_locators_ = zeros]
    BY DEF Clear, clearStore
  <2>2. PICK u : u = store'[r]
    OBVIOUS
  <2>3. IsEmpty(u)
    BY <2>1, <2>2, EmptyFields
  <2> QED
    BY <1>2, <2>2, <2>3, EmptyFits DEF StoreInv, NothingElse
<1> QED
  BY <1>3, <1>4 DEF LifeInv

-----------------------------------------------------------------------------
\* A set of parameters has as many ids on one rank as on another.
LEMMA SameCount ==
    ASSUME NEW L \in SUBSET Param, NEW q \in Rank, NEW r \in Rank
    PROVE  Cardinality(Ids(q, L)) = Cardinality(Ids(r, L))
<1>1. IsFiniteSet(L)
  BY ParamAssumption, FS_Subset
<1>2. ASSUME NEW o \in Rank PROVE Cardinality(Ids(o, L)) = Cardinality(L)
  <2> DEFINE f == [p \in L |-> Id[o][p]]
  <2>1. f \in Bijection(L, Ids(o, L))
    <3>1. f \in [L -> Ids(o, L)]
      BY DEF Ids
    <3>2. \A x, y \in L : f[x] = f[y] => x = y
      BY IdAssumption
    <3>3. \A i \in Ids(o, L) : \E p \in L : f[p] = i
      BY DEF Ids
    <3> QED
      BY <3>1, <3>2, <3>3 DEF Bijection, Injection, Surjection, IsInjective
  <2>2. ExistsBijection(L, Ids(o, L))
    BY <2>1 DEF ExistsBijection
  <2> QED
    BY <1>1, <2>2, FS_Bijection
<1> QED
  BY <1>2

-----------------------------------------------------------------------------
(* The theorems. *)

\* At first no module is in use and nothing is registered.
LEMMA LifeInit == Init /\ SharedParameterUsed => LifeInv
<1> SUFFICES ASSUME Init, SharedParameterUsed PROVE LifeInv
  OBVIOUS
<1>1. UseInv
  BY DEF Init, UseInv
<1>2. ASSUME NEW r \in Rank PROVE StoreInv(r)
  <2>1. PICK u : u = store[r]
    OBVIOUS
  <2>2. IsEmpty(u)
    BY <2>1, EmptyFields DEF Init
  <2>3. inUse = {}
    BY DEF Init
  <2> QED
    BY <2>1, <2>2, <2>3, EmptyFits DEF StoreInv, NothingElse
<1> QED
  BY <1>1, <1>2 DEF LifeInv

\* Every call of the application keeps the invariant.
LEMMA LifeNext == LifeInv /\ [Next]_vars => LifeInv'
<1> SUFFICES ASSUME LifeInv, [Next]_vars PROVE LifeInv'
  OBVIOUS
<1>0. training \in [Module -> BOOLEAN] /\ DOMAIN ready = Module /\ inUse \subseteq Module
  BY DEF LifeInv, UseInv
<1>1. ASSUME NEW m \in Module, NEW d \in job.plans[training[m]][m], FirstCall(m, d)
      PROVE  LifeInv'
  BY <1>1, LifeFirstCall
<1>2. ASSUME NEW m \in Module, TrainingStep(m) PROVE LifeInv'
  BY <1>0, <1>2, LifeFrame DEF TrainingStep
<1>3. ASSUME NEW m \in Module, StateDict(m) PROVE LifeInv'
  BY <1>0, <1>3, LifeFrame DEF StateDict
<1>4. ASSUME NEW m \in Module, TrainFirst(m) PROVE LifeInv'
  BY <1>0, <1>4, LifeFrame DEF TrainFirst
<1>5. ASSUME NEW m \in Module, Train(m) PROVE LifeInv'
  <2>1. training' \in [Module -> BOOLEAN]
    BY <1>0, <1>5 DEF Train
  <2>2. DOMAIN ready' = Module /\ \A n \in inUse \ {m} : ready'[n] = ready[n]
    BY <1>0, <1>5 DEF Train
  <2> QED
    BY <1>5, <2>1, <2>2, LifeRelease DEF Train
<1>6. ASSUME NEW m \in Module, NEW sync \in BOOLEAN, Undeploy(m, sync) PROVE LifeInv'
  BY <1>0, <1>6, LifeRelease DEF Undeploy
<1>7. CASE Clear
  BY <1>7, LifeClear
<1>8. CASE UNCHANGED vars
  BY <1>0, <1>8, LifeFrame DEF vars
<1> QED
  BY <1>1, <1>2, <1>3, <1>4, <1>5, <1>6, <1>7, <1>8 DEF Next

\* The invariant in every behaviour.
LEMMA Lived == Spec /\ SharedParameterUsed => []LifeInv
  BY LifeInit, LifeNext, PTL DEF Spec

(***************************************************************************)
(* Whatever modules were deployed, undeployed, cleared and deployed anew   *)
(* with other partitionings before: on every rank ParamStorage agrees with *)
(* the current deployment of every module in use, about ranks, ids and     *)
(* shares of its parameters, and has the communicators of the all-reduce.  *)
(***************************************************************************)
THEOREM DeployedAsPlanned == Spec /\ SharedParameterUsed => []ParamsDeployed
<1>1. ASSUME LifeInv PROVE ParamsDeployed
  <2> SUFFICES ASSUME NEW m \in inUse, NEW r \in Rank, NEW p \in Model(m)
               PROVE  LET i == Id[r][p]
                          d == driver_[m]
                          t == store[r]
                      IN  /\ At(t.ranks_, i, {}) = Placed(d, p)
                          /\ i \in t.params_ <=> r \in Placed(d, p)
                          /\ i \in t.graph_params_[m] <=> r \in Placed(d, p)
                          /\ At(t.id_local_to_global_, i, i + 1) = Id[0][p]
                          /\ At(t.id_global_to_local_, Id[0][p], i + 1) = i
                          /\ r \in Placed(d, p) =>
                                /\ \E s \in d.users[p] : /\ r \in d.ranks[s]
                                      /\ At(t.my_param_ranks_[m], i, {}) = d.ranks[s]
                                /\ Placed(d, p) \in comm_map_[r]
    BY Zenon DEF ParamsDeployed
  <2>1. Entered(store[r], comm_map_[r], r, m, driver_[m], p)
    BY <1>1 DEF LifeInv, StoreInv
  <2>2. /\ At(store[r].id_local_to_global_, Id[r][p], Id[r][p] + 1) = Id[0][p]
        /\ At(store[r].id_global_to_local_, Id[0][p], Id[r][p] + 1) = Id[r][p]
    BY <2>1 DEF Entered, At
  <2> QED
    BY <2>1, <2>2, Zenon DEF Entered
<1> QED
  BY <1>1, Lived, PTL

-----------------------------------------------------------------------------
(* What clear() and releases leave in tables, and the lookups that read it. *)

\* With zero, deploy adds the locator of the module.
LocatorAdded(t, m, u) ==
    u.zero_grad_locators_
       = IF job.zero THEN t.zero_grad_locators_ \cup {m} ELSE t.zero_grad_locators_

\* The zero locators on a rank after a first call.
LEMMA LocatorsDeployed ==
    ASSUME NEW t, IsStore(t), NEW r, NEW m \in Module, NEW d, NEW P, NEW S, NEW u,
           u = unregisterParams(deploy(registerParams(t, r, P), r, m, d, job.zero), S)
    PROVE  LocatorAdded(t, m, u)
<1>1. PICK a : a = registerParams(t, r, P)
  OBVIOUS
<1>2. IsStore(a) /\ a.zero_grad_locators_ = t.zero_grad_locators_
  BY <1>1, Zenon DEF registerParams, IsStore
<1>3. PICK b : b = deploy(a, r, m, d, job.zero)
  OBVIOUS
<1>4. /\ IsStore(b)
      /\ b.zero_grad_locators_ = IF job.zero THEN a.zero_grad_locators_ \cup {m} ELSE a.zero_grad_locators_
  BY <1>2, <1>3, Zenon DEF deploy, IsStore
<1>5. unregisterParams(b, S).zero_grad_locators_ = b.zero_grad_locators_
  BY <1>4, Zenon DEF unregisterParams, IsStore
<1> QED
  BY <1>1, <1>2, <1>3, <1>4, <1>5 DEF LocatorAdded

\* The zero locators on a rank after a release.
LEMMA LocatorsReleased ==
    ASSUME NEW t, IsStore(t), NEW m \in Module, NEW u, u = releaseGraphParams(t, m)
    PROVE  u.zero_grad_locators_ = t.zero_grad_locators_ \ {m}
  BY Zenon DEF releaseGraphParams, IsStore

\* With zero the application does not call clear(), and no model is without
\* parameters.
ClearedWithoutZero ==
    job.zero => ~job.clears /\ \A m \in Module : Model(m) # {}

\* Where gradients are scaled, no plan of a module puts a parameter on a rank
\* that one of its plans for training leaves without it.
ScalingKeepsParams ==
    job.skip_grad_scaling \/
        \A m \in Module : \A e \in job.plans[TRUE][m] :
            \A mode \in BOOLEAN : \A d \in job.plans[mode][m] :
                \A r \in Rank : UsedOn(d, r) \subseteq UsedOn(e, r)

\* The table of shares of module m has entries for its parameters only on the
\* ranks that every plan for training gives them to.
SharesFit(m, r, t) ==
    \A e \in job.plans[TRUE][m] : DOMAIN t.my_param_ranks_[m] \subseteq Ids(r, UsedOn(e, r))

(***************************************************************************)
(* No lookup has failed, since what it reads is in use: locators are those *)
(* of modules in use, and the entries that no release erases name          *)
(* parameters that every training of the module has on the rank.           *)
(***************************************************************************)
LookupInv ==
    /\ ClearedWithoutZero /\ ScalingKeepsParams
    /\ failed = FALSE
    /\ \A m \in inUse : driver_[m] \in job.plans[training[m]][m]
    /\ \A r \in Rank :
        /\ store[r].zero_grad_locators_ \subseteq inUse
        /\ ~job.zero => store[r].zero_grad_locators_ = {}
        /\ ~job.skip_grad_scaling => \A m \in Module : SharesFit(m, r, store[r])

\* The hypotheses are about the job alone, so they hold throughout.
LEMMA LookupJob ==
    ASSUME LookupInv, job' = job
    PROVE  /\ ClearedWithoutZero' /\ ScalingKeepsParams'
           /\ \A m, r, t : SharesFit(m, r, t)' <=> SharesFit(m, r, t')
<1>1. \A m : Model(m)' = Model(m)
  BY DEF Model
<1> QED
  BY <1>1 DEF LookupInv, ClearedWithoutZero, ScalingKeepsParams, SharesFit

\* Calls that deploy and release nothing.
LEMMA LookupFrame ==
    ASSUME LookupInv, UNCHANGED <<job, driver_, store, inUse>>, failed' = FALSE,
           \A m \in inUse : training'[m] = training[m]
    PROVE  LookupInv'
<1>1. ClearedWithoutZero' /\ ScalingKeepsParams'
  BY LookupJob
<1>2. \A r \in Rank, m \in Module : SharesFit(m, r, store[r])' <=> SharesFit(m, r, store[r])
  BY DEF SharesFit
<1> QED
  BY <1>1, <1>2 DEF LookupInv

\* deploy adds shares of the parameters the rank gets to those that are there.
SharesAdded(t, r, m, d, u) ==
    /\ DOMAIN u.my_param_ranks_[m] = DOMAIN t.my_param_ranks_[m] \cup Ids(r, UsedOn(d, r))
    /\ \A n \in Module \ {m} : u.my_param_ranks_[n] = t.my_param_ranks_[n]

\* The table of shares after a first call.
LEMMA SharesDeployed ==
    ASSUME NEW t, IsStore(t), NEW r, NEW m \in Module, NEW d, NEW P, NEW S, NEW zero, NEW u,
           u = unregisterParams(deploy(registerParams(t, r, P), r, m, d, zero), S)
    PROVE  SharesAdded(t, r, m, d, u)
<1>1. PICK a : a = registerParams(t, r, P)
  OBVIOUS
<1>2. IsStore(a) /\ a.my_param_ranks_ = t.my_param_ranks_
  <2>1. AsRegistered(t, r, P, a)
    BY <1>1, Registered
  <2> QED
    BY <2>1 DEF AsRegistered
<1>3. PICK b : b = deploy(a, r, m, d, zero)
  OBVIOUS
<1>4. AsDeployed(a, r, m, d, b) /\ IsStore(b)
  <2>1. AsDeployed(a, r, m, d, b)
    BY <1>2, <1>3, Deployed
  <2> QED
    BY <2>1 DEF AsDeployed
<1>5. u.my_param_ranks_ = b.my_param_ranks_
  <2>1. u = unregisterParams(b, S)
    BY <1>1, <1>3
  <2>2. AsUnregistered(b, S, u)
    BY <1>4, <2>1, Unregistered
  <2> QED
    BY <2>2 DEF AsUnregistered
<1>6. DOMAIN a.my_param_ranks_ = Module
  BY <1>2 DEF IsStore
<1>7. PICK new : /\ DOMAIN new = Ids(r, UsedOn(d, r))
                 /\ b.my_param_ranks_ = [a.my_param_ranks_ EXCEPT ![m] = Assign(@, new)]
  <2> DEFINE new == [i \in Ids(r, UsedOn(d, r)) |->
             d.ranks[CHOOSE s \in d.users[CHOOSE p \in DOMAIN d.users : Id[r][p] = i] :
                       r \in d.ranks[s]]]
  <2>1. b.my_param_ranks_ = [a.my_param_ranks_ EXCEPT ![m] = Assign(@, new)]
    BY <1>4, Zenon DEF AsDeployed
  <2>2. DOMAIN new = Ids(r, UsedOn(d, r))
    OBVIOUS
  <2> QED
    BY <2>1, <2>2
<1> QED
  BY <1>2, <1>5, <1>6, <1>7 DEF Assign, SharesAdded

\* A parameter that training has on a rank is found there.
LEMMA ScalingFinds ==
    ASSUME LifeInv, LookupInv, NEW m \in inUse, training[m] = TRUE
    PROVE  ~ScalingThrows(m)
<1> SUFFICES ASSUME ~job.skip_grad_scaling, NEW r \in Rank,
                    NEW i \in DOMAIN store[r].my_param_ranks_[m]
             PROVE  i \in store[r].params_
  BY DEF ScalingThrows
<1> DEFINE d == driver_[m]
<1>1. m \in Module /\ job \in Jobs
  BY DEF LifeInv, UseInv
<1>2. d \in job.plans[TRUE][m]
  BY DEF LookupInv
<1>3. i \in Ids(r, UsedOn(d, r))
  BY <1>1, <1>2 DEF LookupInv, SharesFit
<1>4. PICK p \in UsedOn(d, r) : i = Id[r][p]
  BY <1>3 DEF Ids
<1>5. p \in Model(m) /\ r \in Placed(d, p)
  BY <1>1, <1>2, <1>4, ModelFacts DEF IsDeployment, UsedOn
<1>6. Entered(store[r], comm_map_[r], r, m, d, p)
  BY <1>5 DEF LifeInv, StoreInv
<1> QED
  BY <1>4, <1>5, <1>6 DEF Entered

\* A first call adds the locator and the shares of a module that is in use
\* from now on, and meets no stale locator.
LEMMA LookupFirstCall ==
    ASSUME LifeInv, LookupInv, LifeInv',
           NEW m \in Module, NEW d \in job.plans[training[m]][m], FirstCall(m, d)
    PROVE  LookupInv'
<1>1. /\ job' = job /\ training' = training /\ inUse' = inUse \cup {m}
      /\ driver_' = [driver_ EXCEPT ![m] = d]
  BY DEF FirstCall
<1>2. /\ job \in Jobs /\ training[m] \in BOOLEAN /\ DOMAIN driver_ = Module
      /\ DOMAIN store = Rank /\ inUse \subseteq Module
  BY DEF LifeInv, UseInv
<1>3. ClearedWithoutZero' /\ ScalingKeepsParams'
  BY <1>1, LookupJob
<1>4. \A n \in inUse' : driver_'[n] \in job'.plans[training'[n]][n]
  BY <1>1, <1>2 DEF LookupInv
<1>5. ASSUME NEW r \in Rank
      PROVE  /\ store'[r].zero_grad_locators_ \subseteq inUse'
             /\ ~job.zero => store'[r].zero_grad_locators_ = {}
             /\ ~job.skip_grad_scaling => \A n \in Module : SharesFit(n, r, store[r])'
  <2>1. PICK u, t, P, S : /\ u = store'[r] /\ t = store[r] /\ P = Model(m)
                          /\ S = Ids(r, Model(m) \ UsedOn(d, r))
    OBVIOUS
  <2>2. u = unregisterParams(deploy(registerParams(t, r, P), r, m, d, job.zero), S)
    BY <2>1 DEF FirstCall
  <2>3. IsStore(t)
    BY <2>1 DEF LifeInv, StoreInv
  <2>4. LocatorAdded(t, m, u)
    BY <2>2, <2>3, LocatorsDeployed, Zenon
  <2>5. SharesAdded(t, r, m, d, u)
    BY <2>2, <2>3, SharesDeployed, Zenon
  <2>6. /\ t.zero_grad_locators_ \subseteq inUse
        /\ ~job.zero => t.zero_grad_locators_ = {}
        /\ ~job.skip_grad_scaling => \A n \in Module : SharesFit(n, r, t)
    BY <2>1 DEF LookupInv
  <2>7. ASSUME ~job.skip_grad_scaling, NEW n \in Module, NEW e \in job.plans[TRUE][n]
        PROVE  DOMAIN u.my_param_ranks_[n] \subseteq Ids(r, UsedOn(e, r))
    <3>1. DOMAIN t.my_param_ranks_[n] \subseteq Ids(r, UsedOn(e, r))
      BY <2>6, <2>7 DEF SharesFit
    <3>2. CASE n # m
      BY <2>5, <3>1, <3>2 DEF SharesAdded
    <3>3. CASE n = m
      <4>1. UsedOn(d, r) \subseteq UsedOn(e, r)
        BY <1>2, <2>7, <3>3 DEF LookupInv, ScalingKeepsParams
      <4>2. Ids(r, UsedOn(d, r)) \subseteq Ids(r, UsedOn(e, r))
        BY <4>1 DEF Ids
      <4> QED
        BY <2>5, <3>1, <3>3, <4>2 DEF SharesAdded
    <3> QED
      BY <3>2, <3>3
  <2>8. ~job.skip_grad_scaling => \A n \in Module : SharesFit(n, r, store[r])'
    BY <1>1, <2>1, <2>7 DEF SharesFit
  <2>9. /\ u.zero_grad_locators_ \subseteq inUse'
        /\ ~job.zero => u.zero_grad_locators_ = {}
    BY <1>1, <2>4, <2>6 DEF LocatorAdded
  <2> QED
    BY <2>1, <2>8, <2>9
<1>6. ASSUME NEW r \in Rank, job.zero PROVE StaleLocators(store'[r]) = {}
  <2> SUFFICES ASSUME NEW n \in store'[r].zero_grad_locators_
               PROVE  store'[r].graph_params_[n] \cup store'[r].unused_params_[n] # {}
    BY DEF StaleLocators
  <2>1. n \in inUse' /\ n \in Module
    BY <1>1, <1>2, <1>5
  <2>2. Model(n) # {} /\ Model(n)' = Model(n)
    BY <1>1, <1>6, <2>1 DEF LookupInv, ClearedWithoutZero, Model
  <2>3. PICK p \in Model(n) : TRUE
    BY <2>2
  <2>4. Entered(store[r], comm_map_[r], r, n, driver_[n], p)'
    BY <2>1, <2>2, <2>3 DEF LifeInv, StoreInv
  <2> QED
    BY <2>4 DEF Entered
<1>7. failed' = FALSE
  <2>1. ASSUME NEW r \in Rank PROVE ~LookupMayThrow(m, d, store'[r], r)
    BY <1>6 DEF LookupMayThrow
  <2> QED
    BY <2>1 DEF FirstCall
<1> QED
  BY <1>1, <1>3, <1>4, <1>5, <1>7 DEF LookupInv

\* A release takes the locator along and leaves the shares.
LEMMA LookupRelease ==
    ASSUME LifeInv, LookupInv, NEW m \in Module, job' = job, failed' = failed,
           inUse' = inUse \ {m},
           \A n \in inUse \ {m} : training'[n] = training[n],
           Destroy({m}), store' = [r \in Rank |-> releaseGraphParams(store[r], m)]
    PROVE  LookupInv'
<1>1. ClearedWithoutZero' /\ ScalingKeepsParams'
  BY LookupJob
<1>2. \A n \in inUse' : driver_'[n] = driver_[n]
  BY DEF Destroy, LifeInv, UseInv
<1>3. ASSUME NEW r \in Rank
      PROVE  /\ store'[r].zero_grad_locators_ = store[r].zero_grad_locators_ \ {m}
             /\ store'[r].my_param_ranks_ = store[r].my_param_ranks_
  <2>1. PICK u, t : u = releaseGraphParams(t, m) /\ u = store'[r] /\ t = store[r]
    OBVIOUS
  <2>2. IsStore(t)
    BY <2>1 DEF LifeInv, StoreInv
  <2>3. u.zero_grad_locators_ = t.zero_grad_locators_ \ {m}
    BY <2>1, <2>2, LocatorsReleased
  <2>4. AsReleased(t, m, u)
    BY <2>1, <2>2, ReleasedFields
  <2> QED
    BY <2>1, <2>3, <2>4 DEF AsReleased
<1>4. \A r \in Rank, n \in Module : SharesFit(n, r, store[r])' <=> SharesFit(n, r, store[r])
  BY <1>3 DEF SharesFit
<1> QED
  BY <1>1, <1>2, <1>3, <1>4 DEF LookupInv

\* clear() is called without zero, so there is no locator, and empties the rest.
LEMMA LookupClear ==
    ASSUME LifeInv, LookupInv, Clear
    PROVE  LookupInv'
<1>1. job' = job /\ inUse' = {} /\ failed' = failed /\ job.clears
  BY DEF Clear
<1>2. ClearedWithoutZero' /\ ScalingKeepsParams' /\ job \in Jobs
  BY <1>1, LookupJob DEF LifeInv, UseInv
<1>3. ~job.zero
  BY <1>1 DEF LookupInv, ClearedWithoutZero
<1>4. ASSUME NEW r \in Rank
      PROVE  /\ store'[r].zero_grad_locators_ = {}
             /\ \A m \in Module : DOMAIN store'[r].my_param_ranks_[m] = {}
  <2>1. PICK s : s = [store[r] EXCEPT !.zero_grad_locators_ = @ \ modules_]
    OBVIOUS
  <2>2. s.zero_grad_locators_ = {}
    <3>1. s.zero_grad_locators_ = store[r].zero_grad_locators_ \ modules_
      <4>1. IsStore(store[r])
        BY DEF LifeInv, StoreInv
      <4> QED
        BY <2>1, <4>1, Zenon DEF IsStore
    <3> QED
      BY <1>3, <3>1 DEF LookupInv
  <2>3. store'[r] = clearStore(s)
    BY <2>1 DEF Clear
  <2>4. IsStore(EmptyStore) /\ EmptyStore.my_param_ranks_ = [m \in Module |-> << >>]
    BY Zenon DEF EmptyStore, IsStore
  <2>5. /\ clearStore(s).zero_grad_locators_ = s.zero_grad_locators_
        /\ clearStore(s).my_param_ranks_ = EmptyStore.my_param_ranks_
    BY <2>4, Zenon DEF clearStore, IsStore
  <2>6. DOMAIN << >> = {}
    OBVIOUS
  <2> QED
    BY <2>2, <2>3, <2>4, <2>5, <2>6
<1>5. \A r \in Rank, m \in Module : SharesFit(m, r, store[r])'
  BY <1>4 DEF SharesFit
<1> QED
  BY <1>1, <1>2, <1>4, <1>5 DEF LookupInv

\* Nothing is deployed at first.
LEMMA LookupInit == Init /\ ClearedWithoutZero /\ ScalingKeepsParams => LookupInv
<1> SUFFICES ASSUME Init, ClearedWithoutZero, ScalingKeepsParams PROVE LookupInv
  OBVIOUS
<1>1. failed = FALSE /\ inUse = {}
  BY DEF Init
<1>2. ASSUME NEW r \in Rank
      PROVE  /\ store[r].zero_grad_locators_ = {}
             /\ \A m \in Module : DOMAIN store[r].my_param_ranks_[m] = {}
  <2>1. store[r] = EmptyStore
    BY DEF Init
  <2>2. EmptyStore.zero_grad_locators_ = {} /\ EmptyStore.my_param_ranks_ = [m \in Module |-> << >>]
    BY Zenon DEF EmptyStore
  <2>3. DOMAIN << >> = {}
    OBVIOUS
  <2> QED
    BY <2>1, <2>2, <2>3
<1>3. \A r \in Rank, m \in Module : SharesFit(m, r, store[r])
  BY <1>2 DEF SharesFit
<1> QED
  BY <1>1, <1>2, <1>3 DEF LookupInv

\* Every step keeps it.
LEMMA LookupNext == LifeInv /\ LookupInv /\ [Next]_vars => LookupInv'
<1> SUFFICES ASSUME LifeInv, LookupInv, [Next]_vars PROVE LookupInv'
  OBVIOUS
<1>0. /\ LifeInv' /\ failed = FALSE /\ inUse \subseteq Module
      /\ training \in [Module -> BOOLEAN] /\ \A m \in inUse : ready[m]
  BY LifeNext DEF LifeInv, UseInv, LookupInv
<1>1. ASSUME NEW m \in Module, NEW d \in job.plans[training[m]][m], FirstCall(m, d)
      PROVE  LookupInv'
  BY <1>0, <1>1, LookupFirstCall
<1>2. ASSUME NEW m \in Module, TrainingStep(m) PROVE LookupInv'
  <2>1. m \in inUse /\ training[m] = TRUE
    BY <1>0, <1>2 DEF TrainingStep
  <2>2. failed' = FALSE
    <3>1. ~ScalingThrows(m)
      BY <1>0, <2>1, ScalingFinds
    <3>2. failed' = ScalingThrows(m)
      BY <1>2 DEF TrainingStep
    <3> QED
      BY <3>1, <3>2 DEF ScalingThrows
  <2> QED
    BY <1>2, <2>2, LookupFrame DEF TrainingStep
<1>3. ASSUME NEW m \in Module, StateDict(m) PROVE LookupInv'
  BY <1>0, <1>3, LookupFrame DEF StateDict
<1>4. ASSUME NEW m \in Module, TrainFirst(m) PROVE LookupInv'
  <2>1. m \notin inUse /\ training' = [training EXCEPT ![m] = ~@]
    BY <1>0, <1>4 DEF TrainFirst
  <2>2. \A n \in inUse : training'[n] = training[n]
    BY <1>0, <2>1
  <2> QED
    BY <1>0, <1>4, <2>2, LookupFrame DEF TrainFirst
<1>5. ASSUME NEW m \in Module, Train(m) PROVE LookupInv'
  <2>1. \A n \in inUse \ {m} : training'[n] = training[n]
    BY <1>0, <1>5 DEF Train
  <2> QED
    BY <1>5, <2>1, LookupRelease DEF Train
<1>6. ASSUME NEW m \in Module, NEW sync \in BOOLEAN, Undeploy(m, sync) PROVE LookupInv'
  BY <1>6, LookupRelease DEF Undeploy
<1>7. CASE Clear
  BY <1>7, LookupClear
<1>8. CASE UNCHANGED vars
  BY <1>0, <1>8, LookupFrame DEF vars
<1> QED
  BY <1>1, <1>2, <1>3, <1>4, <1>5, <1>6, <1>7, <1>8 DEF Next

(***************************************************************************)
(* undeploy and train(mode) leave no parameter, ranks, reference count,    *)
(* id, graph or locator of a module that is not in use any more, and no    *)
(* second reference to a parameter in use; and no call throws on what they *)
(* do leave, the shares of parameters in former deployments.               *)
(***************************************************************************)
THEOREM AllReleased ==
    Spec /\ SharedParameterUsed /\ ClearedWithoutZero /\ ScalingKeepsParams
        => []NothingLeftBehind
<1>1. ASSUME LifeInv, LookupInv PROVE NothingLeftBehind
  <2> SUFFICES ASSUME NEW r \in Rank
               PROVE  LET live == Ids(r, UNION {Model(m) : m \in inUse})
                          t    == store[r]
                      IN  /\ t.params_ \subseteq live
                          /\ DOMAIN t.ranks_ \subseteq live
                          /\ DOMAIN t.ref_counts_ = live
                          /\ \A i \in live : t.ref_counts_[i] = 1
                          /\ DOMAIN t.id_local_to_global_ = live
                          /\ Cardinality(DOMAIN t.id_global_to_local_) = Cardinality(live)
                          /\ \A m \in Module \ inUse :
                                t.graph_params_[m] \cup t.unused_params_[m] = {}
                          /\ t.zero_grad_locators_ \subseteq inUse
    <3>1. ~failed
      BY <1>1 DEF LookupInv
    <3> QED
      BY <3>1, Zenon DEF NothingLeftBehind
  <2>1. PICK t, L : t = store[r] /\ L = ParamsOf(inUse)
    OBVIOUS
  <2>2. NothingElse(t, comm_map_[r], r, inUse) /\ job \in Jobs /\ 0 \in Rank
    BY <1>1, <2>1, RankAssumption DEF LifeInv, UseInv, StoreInv
  <2>3. L \in SUBSET Param
    BY <1>1, <2>1, ModelFacts DEF LifeInv, UseInv
  <2>4. ASSUME NEW p \in L
        PROVE  /\ Id[r][p] \in DOMAIN t.ref_counts_ /\ t.ref_counts_[Id[r][p]] = 1
               /\ Id[r][p] \in DOMAIN t.id_local_to_global_
               /\ Id[0][p] \in DOMAIN t.id_global_to_local_
    <3>1. PICK m \in inUse : p \in Model(m)
      BY <2>1 DEF ParamsOf
    <3>2. Entered(t, comm_map_[r], r, m, driver_[m], p)
      BY <1>1, <2>1, <3>1 DEF LifeInv, StoreInv
    <3> QED
      BY <3>2 DEF Entered
  <2>5. /\ t.params_ \subseteq Ids(r, L) /\ DOMAIN t.ranks_ \subseteq Ids(r, L)
        /\ DOMAIN t.ref_counts_ = Ids(r, L) /\ DOMAIN t.id_local_to_global_ = Ids(r, L)
        /\ DOMAIN t.id_global_to_local_ = Ids(0, L)
        /\ \A i \in Ids(r, L) : t.ref_counts_[i] = 1
    BY <2>1, <2>2, <2>4 DEF NothingElse, Ids
  <2>6. Cardinality(Ids(0, L)) = Cardinality(Ids(r, L))
    BY <2>2, <2>3, SameCount
  <2>7. Ids(r, L) = Ids(r, UNION {Model(m) : m \in inUse})
    BY <2>1 DEF ParamsOf
  <2>8. \A m \in Module \ inUse : t.graph_params_[m] \cup t.unused_params_[m] = {}
    BY <2>2 DEF NothingElse, Ids
  <2>9. t.zero_grad_locators_ \subseteq inUse
    BY <1>1, <2>1 DEF LookupInv
  <2> QED
    BY <2>1, <2>5, <2>6, <2>7, <2>8, <2>9, Zenon
<1>2. Spec /\ SharedParameterUsed /\ ClearedWithoutZero /\ ScalingKeepsParams => []LookupInv
  BY Lived, LookupInit, LookupNext, PTL DEF Spec
<1> QED
  BY <1>1, <1>2, Lived, PTL

-----------------------------------------------------------------------------
(* Optimizers and values: the invariants. *)

\* A module is deployed for training only once or, without zero, always with
\* the same plan: the optimizer of a rank does not get back what it has given up.
TrainsOneWay ==
    \/ job.max_inits[TRUE] <= 1
    \/ ~job.zero /\ \A m \in Module : \A d, e \in job.plans[TRUE][m] : d = e

\* The part of parameter p that the optimizer of rank r has under plan d.
OwnPart(zero, d, r, p) ==
    IF zero THEN [param |-> p, is_segment |-> TRUE, elements |-> OwnSegment(p, Placed(d, p), r)]
    ELSE Whole(p)

OptimizerFor(zero, d, r) == {OwnPart(zero, d, r, p) : p \in UsedOn(d, r)}

\* The optimizers of module m have all parameters until the first deployment
\* for training, and then the parts of that deployment.
OptimizerOf(m) ==
    /\ DOMAIN optimizer[m] = Rank
    /\ inits[m][TRUE] = 0 => \A r \in Rank : optimizer[m][r] = {Whole(p) : p \in Model(m)}
    /\ inits[m][TRUE] # 0 => \E d \in job.plans[TRUE][m] : \A r \in Rank :
                                optimizer[m][r] = OptimizerFor(job.zero, d, r)
    /\ m \in inUse /\ training[m] => \A r \in Rank :
                                optimizer[m][r] = OptimizerFor(job.zero, driver_[m], r)

OptimizerInv ==
    /\ TrainsOneWay
    /\ inits \in [Module -> [BOOLEAN -> Nat]]
    /\ DOMAIN optimizer = Module
    /\ \A m \in Module : OptimizerOf(m)

\* No module in use places p on a rank.
AtRest(p) == \A m \in inUse : p \in Model(m) => Placed(driver_[m], p) = {}

ValuesTyped ==
    /\ DOMAIN value = Rank /\ DOMAIN trained = Param
    /\ \A p \in Param : trained[p] \in [Elements(p) -> Nat]
    /\ \A r \in Rank : DOMAIN value[r] = Param
    /\ \A r \in Rank : \A p \in Param : value[r][p] \in [Elements(p) -> Nat]

\* Rank 0 has the modules of the zero locators.
ZeroKnown ==
    /\ \A m \in inUse : job.zero => m \in store[0].zero_grad_locators_
    /\ ~job.zero => store[0].zero_grad_locators_ = {}

(***************************************************************************)
(* All training of a parameter is on rank 0 while it is at rest, and on    *)
(* its holders (with zero, on the owners of its segments) otherwise.       *)
(***************************************************************************)
ValueInv ==
    /\ job.sync_on_init
    /\ ValuesTyped
    /\ ZeroKnown
    /\ \A p \in Param : AtRest(p) => value[0][p] = trained[p]
    /\ NoTrainingLost
    /\ CheckpointComplete

-----------------------------------------------------------------------------
(* Segments of a parameter. *)

\* The smaller of two numbers.
LEMMA MinOfTwo ==
    ASSUME NEW a \in Nat, NEW b \in Nat
    PROVE  Min({a, b}) = IF a <= b THEN a ELSE b
<1> DEFINE least(x) == x \in {a, b} /\ \A y \in {a, b} : x <= y
<1>1. PICK c \in {a, b} : c = IF a <= b THEN a ELSE b
  OBVIOUS
<1>2. least(c) /\ \A x : least(x) => x = c
  BY <1>1
<1>3. \E x \in {a, b} : \A y \in {a, b} : x <= y
  BY <1>2
<1>4. least(Min({a, b}))
  BY <1>3 DEF Min
<1> QED
  BY <1>1, <1>2, <1>4

\* A finite set of ranks has a lowest one.
LEMMA LowestRank ==
    ASSUME NEW S \in SUBSET Nat, S # {}
    PROVE  Min(S) \in S
<1>1. \E m \in S : \A n \in S : m <= n
  BY LeastNat
<1> QED
  BY <1>1 DEF Min

\* n groups of the size that std::ceil gives are enough for k elements.
LEMMA CeilCovers ==
    ASSUME NEW k \in Nat \ {0}, NEW n \in Nat \ {0}
    PROVE  CeilDiv(k, n) \in Nat \ {0} /\ k <= n * CeilDiv(k, n)
<1>0. PICK a \in Int : a = -k
  OBVIOUS
<1>1. PICK z \in Int, s \in 0..(n - 1) : z = a \div n /\ a = n * z + s
  BY DivMod
<1>2. PICK y \in Int : y = -z
  OBVIOUS
<1>3. CeilDiv(k, n) = y /\ k = n * y - s
  BY <1>0, <1>1, <1>2 DEF CeilDiv
<1>4. y >= 1
  <2>1. SUFFICES ASSUME y <= 0 PROVE FALSE
    BY <1>2
  <2>2. n * y <= n * 0
    BY <2>1
  <2> QED
    BY <1>3, <2>2
<1> QED
  BY <1>3, <1>4

\* Where segment i of k elements ends, for segments of size s.
Bound(k, s, i) == IF i * s <= k THEN i * s ELSE k

\* Each of k elements is in exactly one of n segments.
LEMMA Tiling ==
    ASSUME NEW k \in Nat \ {0}, NEW n \in Nat \ {0}, NEW s \in Nat \ {0}, k <= n * s,
           NEW e \in 1..k
    PROVE  \E i \in 0..(n - 1) :
              /\ e \in (Bound(k, s, i) + 1)..Bound(k, s, i + 1)
              /\ \A j \in 0..(n - 1) : e \in (Bound(k, s, j) + 1)..Bound(k, s, j + 1) => j = i
<1>1. PICK i \in Nat : i = (e - 1) \div s /\ s * i <= e - 1 /\ e - 1 < s * i + s
  BY DivNat
<1>2. i < n
  <2>1. SUFFICES ASSUME i >= n PROVE FALSE
    BY <1>1
  <2>2. s * i >= s * n
    BY <2>1
  <2> QED
    BY <1>1, <2>2
<1>3. e \in (Bound(k, s, i) + 1)..Bound(k, s, i + 1)
  <2>1. i * s <= e - 1 /\ e <= (i + 1) * s /\ i * s \in Nat /\ (i + 1) * s \in Nat
    BY <1>1
  <2> QED
    BY <2>1 DEF Bound
<1>4. ASSUME NEW j \in 0..(n - 1), e \in (Bound(k, s, j) + 1)..Bound(k, s, j + 1)
      PROVE  j = i
  <2>1. j * s \in Nat /\ (j + 1) * s \in Nat /\ (j + 1) * s = j * s + s
    OBVIOUS
  <2>2. j * s <= e - 1 /\ e <= (j + 1) * s
    BY <1>4, <2>1 DEF Bound
  <2>3. PICK a \in Int, d \in 0..(s - 1) : a = e - 1 /\ d = e - 1 - j * s
    BY <2>1, <2>2
  <2>4. a = s * j + d
    BY <2>1, <2>3
  <2>5. a \div s = j
    BY <2>4, DivModUnique
  <2> QED
    BY <1>1, <2>3, <2>5
<1> QED
  BY <1>1, <1>2, <1>3, <1>4

\* Every element of a distributed parameter belongs to exactly one of its ranks.
LEMMA OneOwner ==
    ASSUME NEW p \in Param, NEW S \in SUBSET Rank, S # {}, NEW e \in Elements(p)
    PROVE  \E r \in S : /\ e \in OwnSegment(p, S, r)
                        /\ \A q \in S : e \in OwnSegment(p, S, q) => q = r
<1>1. S \in SUBSET Nat /\ IsFiniteSet(S)
  BY RankAssumption, FS_Subset
<1>2. PICK n \in Nat \ {0} : n = Cardinality(S)
  BY <1>1, FS_EmptySet, FS_CardinalityType
<1>3. PICK k \in Nat \ {0} : k = numel[p]
  BY ParamAssumption
<1>4. PICK s \in Nat \ {0} : s = CeilDiv(k, n) /\ k <= n * s
  BY CeilCovers
<1>5. \A i \in Nat : Offset(p, n, i) = Bound(k, s, i)
  <2> SUFFICES ASSUME NEW i \in Nat PROVE Offset(p, n, i) = Bound(k, s, i)
    OBVIOUS
  <2>1. PICK a \in Nat : a = i * s
    OBVIOUS
  <2>2. Min({a, k}) = IF a <= k THEN a ELSE k
    BY MinOfTwo
  <2>3. Offset(p, n, i) = Min({a, k})
    BY <1>3, <1>4, <2>1 DEF Offset, SegmentSize
  <2> QED
    BY <2>1, <2>2, <2>3 DEF Bound
<1>6. e \in 1..k
  BY <1>3 DEF Elements
<1>7. PICK i \in 0..(n - 1) :
         /\ e \in (Bound(k, s, i) + 1)..Bound(k, s, i + 1)
         /\ \A j \in 0..(n - 1) : e \in (Bound(k, s, j) + 1)..Bound(k, s, j + 1) => j = i
  BY <1>4, <1>6, Tiling
<1>8. /\ \A r \in S : Position(r, S) \in 0..(n - 1)
      /\ \A q, r \in S : q < r => Position(q, S) < Position(r, S)
      /\ \E r \in S : Position(r, S) = i
  BY <1>1, <1>2, Positions
<1>9. \A j \in 0..(n - 1) : j \in Nat /\ j + 1 \in Nat
  OBVIOUS
<1>10. \A r \in S : OwnSegment(p, S, r)
          = (Bound(k, s, Position(r, S)) + 1)..Bound(k, s, Position(r, S) + 1)
  BY <1>2, <1>5, <1>8, <1>9 DEF OwnSegment, Segment
<1>11. \A q, r \in S : Position(q, S) = Position(r, S) => q = r
  <2> SUFFICES ASSUME NEW q \in S, NEW r \in S, Position(q, S) = Position(r, S), q # r PROVE FALSE
    OBVIOUS
  <2>1. q \in Nat /\ r \in Nat /\ Position(r, S) \in Nat
    BY <1>1, <1>8, <1>9
  <2>2. q < r \/ r < q
    BY <2>1
  <2> QED
    BY <1>8, <2>1, <2>2
<1>12. PICK r \in S : Position(r, S) = i
  BY <1>8
<1>13. e \in OwnSegment(p, S, r)
  BY <1>7, <1>10, <1>12
<1>14. ASSUME NEW q \in S, e \in OwnSegment(p, S, q) PROVE q = r
  <2>1. Position(q, S) = i
    BY <1>7, <1>8, <1>10, <1>14
  <2> QED
    BY <1>11, <1>12, <2>1
<1> QED
  BY <1>13, <1>14

\* getOwner finds it.
LEMMA OwnerOwns ==
    ASSUME NEW p \in Param, NEW S \in SUBSET Rank, S # {}, NEW e \in Elements(p)
    PROVE  OwnerOf(p, S, e) \in S /\ e \in OwnSegment(p, S, OwnerOf(p, S, e))
<1>1. \E r \in S : e \in OwnSegment(p, S, r)
  BY OneOwner
<1> QED
  BY <1>1 DEF OwnerOf

-----------------------------------------------------------------------------
(* The optimizers. *)

\* Calls that deploy nothing leave the optimizers what they have.
LEMMA OptimizerKept ==
    ASSUME OptimizerInv, UNCHANGED <<job, optimizer, inits>>, inUse' \subseteq inUse,
           \A m \in inUse' : training'[m] = training[m] /\ driver_'[m] = driver_[m]
    PROVE  OptimizerInv'
<1>1. TrainsOneWay'
  BY DEF OptimizerInv, TrainsOneWay
<1>2. \A m : Model(m)' = Model(m)
  BY DEF Model
<1>3. ASSUME NEW m \in Module PROVE OptimizerOf(m)'
  <2>1. OptimizerOf(m)
    BY DEF OptimizerInv
  <2> QED
    BY <1>2, <2>1 DEF OptimizerOf
<1> QED
  BY <1>1, <1>3 DEF OptimizerInv

\* What the first call for training leaves a rank that still has all its parts.
LEMMA PartsKept ==
    ASSUME NEW m, NEW d, NEW r, NEW P, UsedOn(d, r) \subseteq P, job.zero \in BOOLEAN,
           optimizer[m][r] = {Whole(p) : p \in P}
    PROVE  OptimizerParams(m, d, r) = OptimizerFor(job.zero, d, r)
<1> DEFINE kept == {o \in optimizer[m][r] : ~o.is_segment /\ o.param \in UsedOn(d, r)}
<1>1. kept = {Whole(p) : p \in UsedOn(d, r)}
  <2>1. \A p : Whole(p).param = p /\ ~Whole(p).is_segment
    BY DEF Whole
  <2> QED
    BY <2>1
<1>2. CASE ~job.zero
  BY <1>1, <1>2 DEF OptimizerParams, OptimizerFor, OwnPart
<1>3. CASE job.zero
  <2>1. \A p : Whole(p).param = p
    BY DEF Whole
  <2>2. OptimizerParams(m, d, r)
           = {[param |-> o.param, is_segment |-> TRUE,
               elements |-> OwnSegment(o.param, Placed(d, o.param), r)] : o \in kept}
    BY <1>3 DEF OptimizerParams
  <2>3. {[param |-> o.param, is_segment |-> TRUE,
          elements |-> OwnSegment(o.param, Placed(d, o.param), r)] : o \in {Whole(p) : p \in UsedOn(d, r)}}
         = {[param |-> p, is_segment |-> TRUE,
             elements |-> OwnSegment(p, Placed(d, p), r)] : p \in UsedOn(d, r)}
    BY <2>1
  <2> QED
    BY <1>1, <1>3, <2>2, <2>3 DEF OptimizerFor, OwnPart
<1> QED
  BY <1>2, <1>3

\* The first call leaves the optimizers the parts of the new deployment.
LEMMA OptimizerFirstCall ==
    ASSUME LifeInv, OptimizerInv, NEW m \in Module,
           NEW d \in job.plans[training[m]][m], FirstCall(m, d)
    PROVE  OptimizerInv'
<1>1. m \notin inUse /\ IsDeployment(d, Model(m))
  BY NotInUse
<1>2. /\ training \in [Module -> BOOLEAN] /\ job \in Jobs /\ inUse \subseteq Module
      /\ DOMAIN driver_ = Module
  BY DEF LifeInv, UseInv
<1>3. /\ job.zero \in BOOLEAN /\ job.max_inits \in [BOOLEAN -> Nat]
  BY <1>2, JobsAssumption
<1>4. /\ job' = job /\ training' = training /\ inUse' = inUse \cup {m}
      /\ driver_' = [driver_ EXCEPT ![m] = d]
      /\ inits' = [inits EXCEPT ![m][training[m]] = @ + 1]
      /\ inits[m][training[m]] < job.max_inits[training[m]]
  BY DEF FirstCall
<1>5. TrainsOneWay' /\ \A n : Model(n)' = Model(n)
  BY <1>4 DEF OptimizerInv, TrainsOneWay, Model
<1>6. inits \in [Module -> [BOOLEAN -> Nat]] /\ DOMAIN optimizer = Module
  BY DEF OptimizerInv
<1>7. inits' \in [Module -> [BOOLEAN -> Nat]]
  BY <1>2, <1>4, <1>6
<1>8. ASSUME NEW r \in Rank, training[m]
      PROVE  OptimizerParams(m, d, r) = OptimizerFor(job.zero, d, r)
  <2>1. UsedOn(d, r) \subseteq Model(m) /\ OptimizerOf(m)
    BY <1>1 DEF IsDeployment, UsedOn, OptimizerInv
  <2>2. CASE inits[m][TRUE] = 0
    <3>1. optimizer[m][r] = {Whole(p) : p \in Model(m)}
      BY <2>1, <2>2 DEF OptimizerOf
    <3> QED
      BY <1>3, <2>1, <3>1, PartsKept
  <2>3. CASE inits[m][TRUE] # 0
    <3>1. training[m] = TRUE
      BY <1>2, <1>8
    <3>2. inits[m][TRUE] \in Nat /\ job.max_inits[TRUE] \in Nat
             /\ inits[m][TRUE] < job.max_inits[TRUE]
      BY <1>3, <1>4, <1>6, <3>1
    <3>3. ~(job.max_inits[TRUE] <= 1)
      <4>1. PICK a \in Nat, b \in Nat : a = inits[m][TRUE] /\ b = job.max_inits[TRUE]
        BY <3>2
      <4>2. a # 0 /\ a < b
        BY <2>3, <3>2, <4>1, Zenon
      <4>3. ~(b <= 1)
        BY <4>2
      <4> QED
        BY <4>1, <4>3, Zenon
    <3>4. ~job.zero /\ \A c, e \in job.plans[TRUE][m] : c = e
      BY <3>3 DEF OptimizerInv, TrainsOneWay
    <3>5. optimizer[m][r] = OptimizerFor(job.zero, d, r)
      BY <2>1, <2>3, <3>1, <3>4 DEF OptimizerOf
    <3>6. optimizer[m][r] = {Whole(p) : p \in UsedOn(d, r)}
      BY <3>4, <3>5 DEF OptimizerFor, OwnPart
    <3> QED
      BY <1>3, <3>6, PartsKept
  <2> QED
    BY <2>2, <2>3
<1>9. DOMAIN optimizer' = Module
        /\ \A n \in Module \ {m} : optimizer'[n] = optimizer[n] /\ inits'[n] = inits[n]
  BY <1>4, <1>6 DEF FirstCall
<1>10. ASSUME NEW n \in Module PROVE OptimizerOf(n)'
  <2>1. OptimizerOf(n)
    BY DEF OptimizerInv
  <2>2. CASE n # m
    <3>1. driver_'[n] = driver_[n] /\ (n \in inUse' <=> n \in inUse)
      BY <1>2, <1>4, <2>2
    <3> QED
      BY <1>4, <1>5, <1>9, <2>1, <2>2, <3>1 DEF OptimizerOf
  <2>3. CASE n = m /\ training[m]
    <3>1. /\ DOMAIN optimizer'[m] = Rank
          /\ \A r \in Rank : optimizer'[m][r] = OptimizerFor(job.zero, d, r)
      BY <1>6, <1>8, <2>3 DEF FirstCall
    <3>2. training[m] = TRUE
      BY <1>2, <2>3
    <3>3. inits'[m][TRUE] # 0
      <4>1. PICK k \in Nat : k = inits[m][TRUE]
        BY <1>6
      <4>2. inits'[m][TRUE] = k + 1
        BY <1>4, <1>6, <3>2, <4>1
      <4> QED
        BY <4>2
    <3>4. driver_'[m] = d /\ d \in job.plans[TRUE][m]
      BY <1>2, <1>4, <3>2
    <3> QED
      BY <1>4, <2>3, <3>1, <3>3, <3>4 DEF OptimizerOf
  <2>4. CASE n = m /\ ~training[m]
    <3>1. training[m] = FALSE /\ ~training'[m]
      BY <1>2, <1>4, <2>4
    <3>2. optimizer' = optimizer
      BY <2>4 DEF FirstCall
    <3>3. inits'[m][TRUE] = inits[m][TRUE]
      BY <1>4, <1>6, <3>1
    <3> QED
      BY <1>4, <1>5, <2>1, <2>4, <3>1, <3>2, <3>3 DEF OptimizerOf
  <2> QED
    BY <2>2, <2>3, <2>4
<1> QED
  BY <1>5, <1>7, <1>9, <1>10 DEF OptimizerInv

\* At first the optimizers have everything.
LEMMA OptimizerInit == Init /\ TrainsOneWay => OptimizerInv
<1> SUFFICES ASSUME Init, TrainsOneWay PROVE OptimizerInv
  OBVIOUS
<1>1. ASSUME NEW m \in Module PROVE OptimizerOf(m)
  BY DEF Init, OptimizerOf
<1>2. inits \in [Module -> [BOOLEAN -> Nat]] /\ DOMAIN optimizer = Module
  BY DEF Init
<1> QED
  BY <1>1, <1>2 DEF OptimizerInv

\* Every call keeps the invariant of the optimizers.
LEMMA OptimizerNext == LifeInv /\ OptimizerInv /\ [Next]_vars => OptimizerInv'
<1> SUFFICES ASSUME LifeInv, OptimizerInv, [Next]_vars PROVE OptimizerInv'
  OBVIOUS
<1>0. /\ inUse \subseteq Module /\ DOMAIN driver_ = Module /\ training \in [Module -> BOOLEAN]
      /\ \A m \in inUse : ready[m]
  BY DEF LifeInv, UseInv
<1>1. ASSUME NEW m \in Module, NEW d \in job.plans[training[m]][m], FirstCall(m, d)
      PROVE  OptimizerInv'
  BY <1>1, OptimizerFirstCall
<1>2. ASSUME NEW m \in Module, TrainingStep(m) PROVE OptimizerInv'
  BY <1>2, OptimizerKept DEF TrainingStep
<1>3. ASSUME NEW m \in Module, StateDict(m) PROVE OptimizerInv'
  BY <1>3, OptimizerKept DEF StateDict
<1>4. ASSUME NEW m \in Module, TrainFirst(m) PROVE OptimizerInv'
  <2>1. \A n \in inUse : n # m /\ training'[n] = training[n]
    BY <1>0, <1>4 DEF TrainFirst
  <2> QED
    BY <1>4, <2>1, OptimizerKept DEF TrainFirst
<1>5. ASSUME NEW m \in Module, Train(m) PROVE OptimizerInv'
  <2>1. \A n \in inUse' : training'[n] = training[n] /\ driver_'[n] = driver_[n]
    BY <1>0, <1>5 DEF Train, Destroy
  <2> QED
    BY <1>5, <2>1, OptimizerKept DEF Train
<1>6. ASSUME NEW m \in Module, NEW sync \in BOOLEAN, Undeploy(m, sync) PROVE OptimizerInv'
  <2>1. \A n \in inUse' : training'[n] = training[n] /\ driver_'[n] = driver_[n]
    BY <1>0, <1>6 DEF Undeploy, Destroy
  <2> QED
    BY <1>6, <2>1, OptimizerKept DEF Undeploy
<1>7. CASE Clear
  BY <1>7, OptimizerKept DEF Clear
<1>8. CASE UNCHANGED vars
  BY <1>8, OptimizerKept DEF vars
<1> QED
  BY <1>1, <1>2, <1>3, <1>4, <1>5, <1>6, <1>7, <1>8 DEF Next

\* The ranks of a parameter under a plan are ranks of the job.
LEMMA PlacedOnRanks ==
    ASSUME LifeInv, NEW m \in inUse, NEW p \in Model(m)
    PROVE  /\ p \in Param /\ m \in Module /\ Placed(driver_[m], p) \in SUBSET Rank
           /\ \A r : p \in UsedOn(driver_[m], r) <=> r \in Placed(driver_[m], p)
<1>1. m \in Module /\ job \in Jobs
  BY DEF LifeInv, UseInv
<1>2. PICK mode \in BOOLEAN : driver_[m] \in job.plans[mode][m]
  BY DEF LifeInv, UseInv
<1>3. IsDeployment(driver_[m], Model(m)) /\ p \in Param
  BY <1>1, <1>2, ModelFacts
<1> QED
  BY <1>1, <1>3 DEF IsDeployment, Placed, UsedOn

(***************************************************************************)
(* "rannc module removes unnecessary parameters in optimizer", and no      *)
(* others: while a module is being trained, every element of each of its   *)
(* parameters is updated on all ranks that hold the parameter or, with     *)
(* zero, on exactly one of them.                                           *)
(***************************************************************************)
THEOREM OptimizersCover ==
    Spec /\ SharedParameterUsed /\ TrainsOneWay => []OptimizerComplete
<1>1. ASSUME LifeInv, OptimizerInv PROVE OptimizerComplete
  <2> SUFFICES ASSUME NEW m \in inUse, training[m], NEW p \in Model(m), NEW e \in Elements(p)
               PROVE  LET updating == {r \in Rank : \E o \in optimizer[m][r] :
                                          o.param = p /\ e \in o.elements}
                          holding  == Placed(driver_[m], p)
                      IN  IF job.zero /\ holding # {}
                          THEN updating \subseteq holding /\ Cardinality(updating) = 1
                          ELSE updating = holding
    BY DEF OptimizerComplete
  <2>1. PICK H, d : H = Placed(driver_[m], p) /\ d = driver_[m]
    OBVIOUS
  <2>2. PICK W : W = {r \in Rank : \E o \in optimizer[m][r] : o.param = p /\ e \in o.elements}
    OBVIOUS
  <2>3. /\ p \in Param /\ m \in Module /\ H \in SUBSET Rank
        /\ \A r : p \in UsedOn(d, r) <=> r \in H
    BY <1>1, <2>1, PlacedOnRanks
  <2>4. job.zero \in BOOLEAN
    BY <1>1, JobsAssumption DEF LifeInv, UseInv
  <2>5. \A r \in Rank : optimizer[m][r] = OptimizerFor(job.zero, d, r)
    BY <1>1, <2>1, <2>3 DEF OptimizerInv, OptimizerOf
  <2>6. \A r \in Rank : r \in W <=> \E q \in UsedOn(d, r) :
           /\ OwnPart(job.zero, d, r, q).param = p
           /\ e \in OwnPart(job.zero, d, r, q).elements
    BY <2>2, <2>5 DEF OptimizerFor
  <2>7. CASE ~job.zero
    <3>1. \A r \in Rank : r \in W <=> r \in H
      BY <2>3, <2>6, <2>7 DEF OwnPart, Whole
    <3>2. W = H
      BY <2>2, <2>3, <3>1
    <3> QED
      BY <2>1, <2>2, <2>7, <3>2
  <2>8. CASE job.zero
    <3>1. \A r \in Rank : r \in W <=> r \in H /\ e \in OwnSegment(p, H, r)
      <4>1. \A r \in Rank : \A q : /\ OwnPart(TRUE, d, r, q).param = q
                                   /\ OwnPart(TRUE, d, r, q).elements
                                         = OwnSegment(q, Placed(d, q), r)
        BY DEF OwnPart
      <4>2. job.zero = TRUE
        BY <2>4, <2>8
      <4>3. \A r \in Rank : r \in W <=> \E q \in UsedOn(d, r) :
               q = p /\ e \in OwnSegment(q, Placed(d, q), r)
        BY <2>6, <4>1, <4>2
      <4> QED
        BY <2>1, <2>3, <4>3
    <3>2. CASE H = {}
      <4>1. W = {}
        BY <2>2, <3>1, <3>2
      <4> QED
        BY <2>1, <2>2, <3>2, <4>1
    <3>3. CASE H # {}
      <4>1. PICK r \in H : /\ e \in OwnSegment(p, H, r)
                           /\ \A q \in H : e \in OwnSegment(p, H, q) => q = r
        BY <2>3, <3>3, OneOwner
      <4>2. W = {r}
        BY <2>2, <2>3, <3>1, <4>1
      <4>3. W \subseteq H /\ Cardinality(W) = 1
        BY <4>2, FS_Singleton
      <4> QED
        BY <2>1, <2>2, <2>8, <3>3, <4>3
    <3> QED
      BY <3>2, <3>3
  <2> QED
    BY <2>7, <2>8
<1>2. Spec /\ SharedParameterUsed /\ TrainsOneWay => []OptimizerInv
  BY Lived, OptimizerInit, OptimizerNext, PTL DEF Spec
<1> QED
  BY <1>1, <1>2, Lived, PTL

-----------------------------------------------------------------------------
(* The values. *)

\* Rank 0 knows the locators of the modules in use.
LEMMA ZeroKept ==
    ASSUME LifeInv, ZeroKnown, [Next]_vars
    PROVE  ZeroKnown'
<1>0. /\ 0 \in Rank /\ IsStore(store[0]) /\ job \in Jobs /\ inUse \subseteq Module
  BY RankAssumption DEF LifeInv, UseInv, StoreInv
<1>1. job.zero \in BOOLEAN
  BY <1>0, JobsAssumption
<1>2. ASSUME UNCHANGED <<job, store, inUse>> PROVE ZeroKnown'
  BY <1>2 DEF ZeroKnown
<1>3. ASSUME NEW m \in Module, NEW d, FirstCall(m, d) PROVE ZeroKnown'
  <2>1. store'[0].zero_grad_locators_ = IF job.zero THEN store[0].zero_grad_locators_ \cup {m}
                                        ELSE store[0].zero_grad_locators_
    <3>1. store'[0] = unregisterParams(
             deploy(registerParams(store[0], 0, Model(m)), 0, m, d, job.zero),
             Ids(0, Model(m) \ UsedOn(d, 0)))
      BY <1>0, <1>3 DEF FirstCall
    <3>2. PICK u, t, P, S : /\ u = store'[0] /\ t = store[0] /\ P = Model(m)
                            /\ S = Ids(0, Model(m) \ UsedOn(d, 0))
      OBVIOUS
    <3>3. u = unregisterParams(deploy(registerParams(t, 0, P), 0, m, d, job.zero), S)
      BY <3>1, <3>2, Zenon
    <3>4. IsStore(t)
      BY <1>0, <3>2, Zenon
    <3>5. LocatorAdded(t, m, u)
      BY <3>3, <3>4, LocatorsDeployed, Zenon
    <3> QED
      BY <3>2, <3>5, Zenon DEF LocatorAdded
  <2>2. job' = job /\ inUse' = inUse \cup {m}
    BY <1>3 DEF FirstCall
  <2> QED
    BY <1>1, <2>1, <2>2 DEF ZeroKnown
<1>4. ASSUME NEW m \in Module, job' = job, inUse' = inUse \ {m},
             store' = [r \in Rank |-> releaseGraphParams(store[r], m)]
      PROVE  ZeroKnown'
  <2>1. store'[0].zero_grad_locators_ = store[0].zero_grad_locators_ \ {m}
    BY <1>0, <1>4, LocatorsReleased
  <2> QED
    BY <1>1, <1>4, <2>1 DEF ZeroKnown
<1>5. CASE Clear
  <2>1. PICK t : t = [store[0] EXCEPT !.zero_grad_locators_ = @ \ modules_]
    OBVIOUS
  <2>2. t.zero_grad_locators_ = store[0].zero_grad_locators_ \ modules_
    BY <1>0, <2>1, Zenon DEF IsStore
  <2>3. store'[0] = clearStore(t)
    BY <1>0, <1>5, <2>1 DEF Clear
  <2>4. IsStore(EmptyStore)
    BY Zenon DEF EmptyStore, IsStore
  <2>5. clearStore(t).zero_grad_locators_ = t.zero_grad_locators_
    BY <2>4, Zenon DEF clearStore, IsStore
  <2>6. job' = job /\ inUse' = {}
    BY <1>5 DEF Clear
  <2> QED
    BY <1>1, <2>2, <2>3, <2>5, <2>6 DEF ZeroKnown
<1>6. ASSUME NEW m \in Module, TrainingStep(m) PROVE ZeroKnown'
  BY <1>2, <1>6 DEF TrainingStep
<1>7. ASSUME NEW m \in Module, StateDict(m) PROVE ZeroKnown'
  BY <1>2, <1>7 DEF StateDict
<1>8. ASSUME NEW m \in Module, TrainFirst(m) PROVE ZeroKnown'
  BY <1>2, <1>8 DEF TrainFirst
<1>9. ASSUME NEW m \in Module, Train(m) PROVE ZeroKnown'
  BY <1>4, <1>9 DEF Train
<1>10. ASSUME NEW m \in Module, NEW sync \in BOOLEAN, Undeploy(m, sync) PROVE ZeroKnown'
  BY <1>4, <1>10 DEF Undeploy
<1>11. CASE UNCHANGED vars
  BY <1>2, <1>11 DEF vars
<1> QED
  BY <1>3, <1>5, <1>6, <1>7, <1>8, <1>9, <1>10, <1>11 DEF Next

\* A function on the elements of a parameter is given by its values.
LEMMA SameElements ==
    ASSUME NEW p, NEW f \in [Elements(p) -> Nat], NEW g \in [Elements(p) -> Nat],
           \A e \in Elements(p) : f[e] = g[e]
    PROVE  f = g
  OBVIOUS

\* The types of the values, without the tables they are in.
LEMMA ValueTypes ==
    ASSUME ValueInv, NEW r \in Rank, NEW p \in Param
    PROVE  value[r][p] \in [Elements(p) -> Nat] /\ trained[p] \in [Elements(p) -> Nat]
  BY DEF ValueInv, ValuesTyped

\* An owner of an element has its training.
LEMMA HolderHas ==
    ASSUME ValueInv, NEW m \in inUse, NEW p \in Model(m), NEW r \in Placed(driver_[m], p),
           NEW e \in Elements(p), job.zero => e \in OwnSegment(p, Placed(driver_[m], p), r)
    PROVE  value[r][p][e] = trained[p][e]
  BY DEF ValueInv, NoTrainingLost

\* Rank 0 knows the ranks of the parameters in use.
LEMMA RanksKnown ==
    ASSUME LifeInv, NEW m \in inUse, NEW p \in Model(m)
    PROVE  RanksOf(p) = Placed(driver_[m], p)
<1>1. Entered(store[0], comm_map_[0], 0, m, driver_[m], p)
  BY RankAssumption DEF LifeInv, StoreInv
<1> QED
  BY <1>1 DEF Entered, RanksOf

\* bcastParamsZero leaves all ranks of a parameter with all its training.
LEMMA Collected ==
    ASSUME LifeInv, ValueInv, NEW m \in inUse, NEW v, v = BcastParamsZero(m),
           NEW r \in Rank, NEW p \in Param
    PROVE  v[r][p] = IF p \in Model(m) /\ r \in Placed(driver_[m], p)
                     THEN trained[p] ELSE value[r][p]
<1>1. job.zero \in BOOLEAN /\ m \in Module
  BY JobsAssumption DEF LifeInv, UseInv
<1>2. CASE ~job.zero
  <2>1. v = value
    BY <1>2 DEF ValueInv, ZeroKnown, BcastParamsZero
  <2>2. ASSUME p \in Model(m), r \in Placed(driver_[m], p) PROVE value[r][p] = trained[p]
    <3>1. \A e \in Elements(p) : value[r][p][e] = trained[p][e]
      BY <1>2, <2>2, HolderHas
    <3> QED
      BY <3>1, SameElements, ValueTypes
  <2> QED
    BY <2>1, <2>2
<1>3. CASE job.zero
  <2>1. m \in store[0].zero_grad_locators_
    BY <1>3 DEF ValueInv, ZeroKnown
  <2>2. v[r][p] = IF p \in Model(m) /\ r \in RanksOf(p)
                  THEN [e \in Elements(p) |-> value[OwnerOf(p, RanksOf(p), e)][p][e]]
                  ELSE value[r][p]
    BY <2>1 DEF BcastParamsZero
  <2>3. ASSUME p \in Model(m), r \in Placed(driver_[m], p) PROVE v[r][p] = trained[p]
    <3>1. PICK H : H = Placed(driver_[m], p)
      OBVIOUS
    <3>2. H \in SUBSET Rank /\ r \in H /\ RanksOf(p) = H
      BY <2>3, <3>1, PlacedOnRanks, RanksKnown
    <3>3. ASSUME NEW e \in Elements(p) PROVE value[OwnerOf(p, H, e)][p][e] = trained[p][e]
      <4>1. OwnerOf(p, H, e) \in H /\ e \in OwnSegment(p, H, OwnerOf(p, H, e))
        BY <3>2, OwnerOwns
      <4> QED
        BY <2>3, <3>1, <4>1, HolderHas
    <3>4. v[r][p] = [e \in Elements(p) |-> value[OwnerOf(p, H, e)][p][e]]
      BY <2>2, <2>3, <3>2
    <3>5. v[r][p] = [e \in Elements(p) |-> trained[p][e]]
      BY <3>3, <3>4
    <3> QED
      BY <3>5, ValueTypes
  <2>4. p \in Model(m) => RanksOf(p) = Placed(driver_[m], p)
    BY RanksKnown
  <2> QED
    BY <2>2, <2>3, <2>4
<1> QED
  BY <1>1, <1>2, <1>3

\* A parameter of a module in use that the plan does not use is at rest.
LEMMA Unused ==
    ASSUME LifeInv, NEW m \in inUse, NEW p \in Model(m)
    PROVE  AtRest(p) <=> Placed(driver_[m], p) = {}
<1>1. \A n \in inUse : p \in Model(n) => n = m
  BY DEF LifeInv, UseInv
<1> QED
  BY <1>1 DEF AtRest

\* _sync_orig_params brings all training to rank 0.
LEMMA Synced ==
    ASSUME LifeInv, ValueInv, NEW m \in inUse, NEW w, w = SyncOrigParams(m),
           NEW r \in Rank, NEW p \in Param
    PROVE  w[r][p] = IF p \in Model(m) /\ (r = 0 \/ r \in Placed(driver_[m], p))
                     THEN trained[p] ELSE value[r][p]
<1>1. PICK v : v = BcastParamsZero(m)
  OBVIOUS
<1>2. DOMAIN v = Rank /\ 0 \in Rank
  BY <1>1, RankAssumption DEF BcastParamsZero, ValueInv, ValuesTyped
<1>3. w = [v EXCEPT ![0] = [q \in Param |->
             IF q \in Model(m) /\ RanksOf(q) # {} THEN v[Min(RanksOf(q))][q] ELSE v[0][q]]]
  BY <1>1 DEF SyncOrigParams
<1>4. CASE r # 0
  BY <1>1, <1>2, <1>3, <1>4, Collected
<1>5. CASE r = 0
  <2>1. w[0][p] = IF p \in Model(m) /\ RanksOf(p) # {} THEN v[Min(RanksOf(p))][p] ELSE v[0][p]
    BY <1>2, <1>3
  <2>2. CASE p \notin Model(m)
    BY <1>1, <1>5, <2>1, <2>2, Collected
  <2>3. CASE p \in Model(m) /\ RanksOf(p) = {}
    <3>1. Placed(driver_[m], p) = {} /\ AtRest(p)
      BY <2>3, RanksKnown, Unused
    <3>2. value[0][p] = trained[p]
      BY <3>1 DEF ValueInv
    <3>3. v[0][p] = value[0][p]
      BY <1>1, <1>2, <3>1, Collected
    <3> QED
      BY <1>5, <2>1, <2>3, <3>2, <3>3
  <2>4. CASE p \in Model(m) /\ RanksOf(p) # {}
    <3>1. PICK H : H = RanksOf(p)
      OBVIOUS
    <3>2. H = Placed(driver_[m], p) /\ H \in SUBSET Rank /\ H \in SUBSET Nat /\ H # {}
      <4>1. H = Placed(driver_[m], p)
        BY <2>4, <3>1, RanksKnown
      <4>2. H \in SUBSET Rank
        BY <2>4, <4>1, PlacedOnRanks
      <4> QED
        BY <2>4, <3>1, <4>1, <4>2, RankAssumption
    <3>3. Min(H) \in H
      BY <3>2, LowestRank
    <3>4. v[Min(H)][p] = trained[p]
      BY <1>1, <2>4, <3>2, <3>3, Collected
    <3> QED
      BY <1>5, <2>1, <2>4, <3>1, <3>4
  <2> QED
    BY <2>2, <2>3, <2>4
<1> QED
  BY <1>4, <1>5

\* What a call other than training and the first one does to parameter p: it
\* is given up, and no module in use has it, or some ranks get all its
\* training, rank 0 among them when a module that has it is undeployed.
GivenUp(p) ==
    value'[0][p] = trained'[p] /\ \A m \in inUse' : p \notin Model(m)

Handed(p) ==
    /\ trained'[p] = trained[p]
    /\ \A r \in Rank : value'[r][p] \in {value[r][p], trained[p]}
    /\ \A m \in inUse \ inUse' : p \in Model(m) => value'[0][p] = trained[p]

\* Such a call loses no training.
LEMMA ValuesKept ==
    ASSUME LifeInv, ValueInv, job' = job, inUse' \subseteq inUse,
           \A m \in inUse' : driver_'[m] = driver_[m],
           ValuesTyped', ZeroKnown', CheckpointComplete',
           \A p \in Param : GivenUp(p) \/ Handed(p)
    PROVE  ValueInv'
<1>0. \A m : Model(m)' = Model(m)
  BY DEF Model
<1>1. ASSUME NEW p \in Param, AtRest(p)' PROVE value'[0][p] = trained'[p]
  <2>1. \A m \in inUse' : p \in Model(m) => Placed(driver_[m], p) = {}
    BY <1>0, <1>1 DEF AtRest
  <2>2. CASE GivenUp(p)
    BY <2>2 DEF GivenUp
  <2>3. CASE Handed(p) /\ AtRest(p)
    BY <2>3, RankAssumption DEF Handed, ValueInv
  <2>4. CASE Handed(p) /\ ~AtRest(p)
    BY <2>1, <2>4 DEF Handed, AtRest
  <2> QED
    BY <2>2, <2>3, <2>4
<1>2. NoTrainingLost'
  <2> SUFFICES ASSUME NEW m \in inUse', NEW p \in Model(m), NEW r \in Placed(driver_[m], p),
                      NEW e \in Elements(p), job.zero => e \in OwnSegment(p, Placed(driver_[m], p), r)
               PROVE  value'[r][p][e] = trained'[p][e]
    BY <1>0 DEF NoTrainingLost
  <2>1. p \in Param /\ r \in Rank
    BY PlacedOnRanks
  <2>2. value[r][p][e] = trained[p][e]
    BY HolderHas
  <2>3. Handed(p)
    BY <2>1 DEF GivenUp
  <2> QED
    BY <2>1, <2>2, <2>3 DEF Handed
<1> QED
  BY <1>1, <1>2 DEF ValueInv

\* A parameter that no module in use has is at rest.
LEMMA NewAtRest ==
    ASSUME NEW p, \A n \in inUse : p \notin Model(n)
    PROVE  AtRest(p)
  BY DEF AtRest

\* The first call gives the ranks of a parameter what rank 0 has.
LEMMA ValuesFirstCall ==
    ASSUME LifeInv, ValueInv, ZeroKnown', NEW m \in Module,
           NEW d \in job.plans[training[m]][m], FirstCall(m, d)
    PROVE  ValueInv'
<1>1. /\ m \notin inUse /\ IsDeployment(d, Model(m))
      /\ \A n \in inUse : Model(m) \cap Model(n) = {}
  BY NotInUse
<1>2. /\ job' = job /\ trained' = trained /\ checkpoint' = checkpoint /\ inUse' = inUse \cup {m}
      /\ driver_' = [driver_ EXCEPT ![m] = d] /\ value' = SyncedOnInit(d)
  BY DEF FirstCall
<1>3. \A n : Model(n)' = Model(n)
  BY <1>2 DEF Model
<1>4. /\ DOMAIN driver_ = Module /\ inUse \subseteq Module /\ Model(m) \in SUBSET Param /\ 0 \in Rank
  BY ModelFacts, RankAssumption DEF LifeInv, UseInv
<1>5. /\ DOMAIN value' = Rank
      /\ \A r \in Rank : DOMAIN value'[r] = Param
      /\ \A r \in Rank, p \in Param : value'[r][p] =
            IF p \in Model(m) /\ d.users[p] # {} THEN value[0][p] ELSE value[r][p]
  <2>1. value' = [r \in Rank |-> [p \in Param |->
            IF p \in DOMAIN d.users /\ d.users[p] # {} THEN value[0][p] ELSE value[r][p]]]
    BY <1>2 DEF SyncedOnInit, ValueInv
  <2>2. DOMAIN d.users = Model(m)
    BY <1>1 DEF IsDeployment
  <2> QED
    BY <2>1, <2>2
<1>6. ValuesTyped'
  <2>1. \A r \in Rank, p \in Param : value'[r][p] \in [Elements(p) -> Nat]
    BY <1>4, <1>5, ValueTypes
  <2> QED
    BY <1>2, <1>5, <2>1 DEF ValuesTyped, ValueInv
<1>7. \A p \in Model(m) : value[0][p] = trained[p]
  BY <1>1, <1>4, NewAtRest DEF ValueInv
<1>8. \A n \in inUse : driver_'[n] = driver_[n]
  BY <1>1, <1>2, <1>4
<1>9. ASSUME NEW p \in Param, AtRest(p)' PROVE value'[0][p] = trained'[p]
  <2>1. CASE p \in Model(m)
    BY <1>2, <1>4, <1>5, <1>7, <2>1
  <2>2. CASE p \notin Model(m)
    <3>1. AtRest(p)
      BY <1>2, <1>3, <1>8, <1>9 DEF AtRest
    <3> QED
      BY <1>2, <1>4, <1>5, <2>2, <3>1 DEF ValueInv
  <2> QED
    BY <2>1, <2>2
<1>10. NoTrainingLost'
  <2> SUFFICES ASSUME NEW n \in inUse \cup {m}, NEW p \in Model(n), NEW r \in Placed(driver_'[n], p),
                      NEW e \in Elements(p), job.zero => e \in OwnSegment(p, Placed(driver_'[n], p), r)
               PROVE  value'[r][p][e] = trained[p][e]
    BY <1>2, <1>3 DEF NoTrainingLost
  <2>1. CASE n = m
    <3>1. driver_'[m] = d /\ d.users[p] # {} /\ r \in Rank
      <4>1. driver_'[m] = d
        BY <1>2, <1>4
      <4> QED
        BY <1>1, <2>1, <4>1 DEF Placed, IsDeployment
    <3> QED
      BY <1>4, <1>5, <1>7, <2>1, <3>1
  <2>2. CASE n \in inUse
    <3>1. p \in Param /\ r \in Rank /\ p \notin Model(m)
      BY <1>1, <1>8, <2>2, PlacedOnRanks
    <3>2. value[r][p][e] = trained[p][e]
      BY <1>8, <2>2, HolderHas
    <3> QED
      BY <1>5, <3>1, <3>2
  <2> QED
    BY <2>1, <2>2
<1> QED
  BY <1>2, <1>6, <1>9, <1>10 DEF ValueInv, CheckpointComplete

\* optimizer.step() of rank r changes element e of parameter p.
Updated(m, r, p, e) == \E o \in optimizer[m][r] : o.param = p /\ e \in o.elements

\* It does so exactly for the elements that the rank has to update.
LEMMA UpdatedElements ==
    ASSUME LifeInv, OptimizerInv, NEW m \in inUse, training[m], NEW r \in Rank,
           NEW p \in Param, NEW e \in Elements(p)
    PROVE  Updated(m, r, p, e) <=>
              /\ p \in Model(m) /\ r \in Placed(driver_[m], p)
              /\ job.zero => e \in OwnSegment(p, Placed(driver_[m], p), r)
<1>1. PICK d : d = driver_[m]
  OBVIOUS
<1>2. m \in Module /\ job.zero \in BOOLEAN
  BY JobsAssumption DEF LifeInv, UseInv
<1>3. optimizer[m][r] = OptimizerFor(job.zero, d, r)
  BY <1>1, <1>2 DEF OptimizerInv, OptimizerOf
<1>4. p \in UsedOn(d, r) <=> p \in Model(m) /\ r \in Placed(d, p)
  <2>1. PICK mode \in BOOLEAN : d \in job.plans[mode][m]
    BY <1>1 DEF LifeInv, UseInv
  <2>2. IsDeployment(d, Model(m))
    BY <1>2, <2>1, ModelFacts DEF LifeInv, UseInv
  <2> QED
    BY <2>2 DEF IsDeployment, UsedOn
<1>5. Updated(m, r, p, e) <=> \E q \in UsedOn(d, r) :
         /\ OwnPart(job.zero, d, r, q).param = p
         /\ e \in OwnPart(job.zero, d, r, q).elements
  BY <1>3 DEF OptimizerFor, Updated
<1>6. CASE ~job.zero
  BY <1>1, <1>4, <1>5, <1>6 DEF OwnPart, Whole
<1>7. CASE job.zero
  <2>1. \A q : /\ OwnPart(TRUE, d, r, q).param = q
               /\ OwnPart(TRUE, d, r, q).elements = OwnSegment(q, Placed(d, q), r)
    BY DEF OwnPart
  <2>2. job.zero = TRUE
    BY <1>2, <1>7
  <2>3. Updated(m, r, p, e) <=> \E q \in UsedOn(d, r) :
           q = p /\ e \in OwnSegment(q, Placed(d, q), r)
    BY <1>5, <2>1, <2>2
  <2> QED
    BY <1>1, <1>4, <1>7, <2>3
<1> QED
  BY <1>2, <1>6, <1>7

\* A training iteration is in the values of the ranks that have to have it.
LEMMA ValuesTraining ==
    ASSUME LifeInv, OptimizerInv, ValueInv, ZeroKnown', NEW m \in Module, TrainingStep(m)
    PROVE  ValueInv'
<1>1. /\ m \in inUse /\ training[m]
      /\ UNCHANGED <<job, driver_, store, inUse>> /\ checkpoint' = << >>
  BY DEF TrainingStep
<1>2. PICK v, d : v = BcastParamsZero(m) /\ d = driver_[m]
  OBVIOUS
<1>3. /\ DOMAIN value' = Rank /\ DOMAIN trained' = Param
      /\ \A r \in Rank : DOMAIN value'[r] = Param
      /\ \A p \in Param : trained'[p] = [e \in Elements(p) |->
            trained[p][e] + IF p \in Model(m) /\ d.users[p] # {} THEN 1 ELSE 0]
      /\ \A r \in Rank, p \in Param : value'[r][p] = [e \in Elements(p) |->
            v[r][p][e] + IF Updated(m, r, p, e) THEN 1 ELSE 0]
  BY <1>2 DEF TrainingStep, Updated
<1>4. \A r \in Rank, p \in Param :
         v[r][p] = IF p \in Model(m) /\ r \in Placed(d, p) THEN trained[p] ELSE value[r][p]
  BY <1>1, <1>2, Collected
<1>5. \A n : Model(n)' = Model(n)
  BY <1>1 DEF Model
<1>6. ValuesTyped'
  <2>1. \A r \in Rank, p \in Param : v[r][p] \in [Elements(p) -> Nat]
    BY <1>4, ValueTypes
  <2>2. ASSUME NEW r \in Rank, NEW p \in Param PROVE value'[r][p] \in [Elements(p) -> Nat]
    <3>1. PICK f \in [Elements(p) -> Nat] : f = v[r][p]
      BY <2>1
    <3>2. value'[r][p] = [e \in Elements(p) |-> f[e] + IF Updated(m, r, p, e) THEN 1 ELSE 0]
      BY <1>3, <3>1
    <3>3. \A e \in Elements(p) : f[e] + (IF Updated(m, r, p, e) THEN 1 ELSE 0) \in Nat
      OBVIOUS
    <3> QED
      BY <3>2, <3>3
  <2>3. 0 \in Rank
    BY RankAssumption
  <2>4. \A p \in Param : trained'[p] \in [Elements(p) -> Nat]
    BY <1>3, <2>3, ValueTypes
  <2> QED
    BY <1>3, <2>2, <2>4 DEF ValuesTyped
<1>7. \A p \in Model(m) : p \in Param /\ (d.users[p] = {} <=> Placed(d, p) = {})
  <2>1. PICK mode \in BOOLEAN : d \in job.plans[mode][m]
    BY <1>1, <1>2 DEF LifeInv, UseInv
  <2>2. IsDeployment(d, Model(m)) /\ Model(m) \in SUBSET Param
    BY <2>1, ModelFacts DEF LifeInv, UseInv
  <2> QED
    BY <2>2 DEF IsDeployment, Placed
<1>8. ASSUME NEW r \in Rank, NEW p \in Param, p \notin Model(m) \/ Placed(d, p) = {}
      PROVE  value'[r][p] = value[r][p] /\ trained'[p] = trained[p]
  <2>1. v[r][p] = value[r][p]
    BY <1>4, <1>8
  <2>2. \A e \in Elements(p) : ~Updated(m, r, p, e)
    BY <1>1, <1>2, <1>8, UpdatedElements
  <2>3. ~(p \in Model(m) /\ d.users[p] # {})
    BY <1>7, <1>8
  <2>4. \A e \in Elements(p) : value[r][p][e] + 0 = value[r][p][e] /\ trained[p][e] + 0 = trained[p][e]
    BY ValueTypes
  <2>5. value'[r][p] = [e \in Elements(p) |-> value[r][p][e]]
    BY <1>3, <2>1, <2>2, <2>4
  <2>6. trained'[p] = [e \in Elements(p) |-> trained[p][e]]
    BY <1>3, <2>3, <2>4
  <2> QED
    BY <2>5, <2>6, ValueTypes
<1>9. ASSUME NEW p \in Param, AtRest(p)' PROVE value'[0][p] = trained'[p]
  <2>1. AtRest(p)
    BY <1>1, <1>5, <1>9 DEF AtRest
  <2>2. value[0][p] = trained[p] /\ (p \in Model(m) => Placed(d, p) = {})
    BY <1>1, <1>2, <2>1 DEF ValueInv, AtRest
  <2> QED
    BY <1>8, <2>2, RankAssumption
<1>10. NoTrainingLost'
  <2> SUFFICES ASSUME NEW n \in inUse, NEW p \in Model(n), NEW r \in Placed(driver_[n], p),
                      NEW e \in Elements(p), job.zero => e \in OwnSegment(p, Placed(driver_[n], p), r)
               PROVE  value'[r][p][e] = trained'[p][e]
    BY <1>1, <1>5 DEF NoTrainingLost
  <2>1. p \in Param /\ r \in Rank
    BY PlacedOnRanks
  <2>2. CASE n = m
    <3>1. Updated(m, r, p, e)
      BY <1>1, <2>1, <2>2, UpdatedElements
    <3>2. v[r][p] = trained[p] /\ d.users[p] # {}
      BY <1>2, <1>4, <1>7, <2>1, <2>2
    <3>3. value'[r][p][e] = v[r][p][e] + 1
      BY <1>3, <2>1, <3>1
    <3>4. trained'[p][e] = trained[p][e] + 1
      BY <1>3, <2>1, <2>2, <3>2
    <3> QED
      BY <3>2, <3>3, <3>4
  <2>3. CASE n # m
    <3>1. p \notin Model(m)
      BY <1>1, <2>3 DEF LifeInv, UseInv
    <3>2. value[r][p][e] = trained[p][e]
      BY HolderHas
    <3> QED
      BY <1>8, <2>1, <3>1, <3>2
  <2> QED
    BY <2>2, <2>3
<1>11. CheckpointComplete'
  BY <1>1 DEF CheckpointComplete
<1> QED
  BY <1>1, <1>6, <1>9, <1>10, <1>11 DEF ValueInv

\* _sync_orig_params hands parameters over, and no more; rank 0 has those of
\* the module then.
LEMMA SyncHands ==
    ASSUME LifeInv, ValueInv, NEW m \in inUse, value' = SyncOrigParams(m), trained' = trained
    PROVE  /\ ValuesTyped'
           /\ \A p \in Model(m) : value'[0][p] = trained[p]
           /\ inUse \ inUse' \subseteq {m} => \A p \in Param : Handed(p)
<1>1. PICK w : w = value' /\ w = SyncOrigParams(m)
  OBVIOUS
<1>2. 0 \in Rank /\ Model(m) \in SUBSET Param
  BY RankAssumption, ModelFacts DEF LifeInv, UseInv
<1>3. \A r \in Rank, p \in Param : w[r][p] =
         IF p \in Model(m) /\ (r = 0 \/ r \in Placed(driver_[m], p)) THEN trained[p] ELSE value[r][p]
  BY <1>1, Synced
<1>4. DOMAIN w = Rank /\ \A r \in Rank : DOMAIN w[r] = Param
  <2>1. PICK v : v = BcastParamsZero(m)
    OBVIOUS
  <2>2. DOMAIN v = Rank /\ \A r \in Rank : DOMAIN v[r] = Param
    BY <2>1 DEF BcastParamsZero, ValueInv, ValuesTyped
  <2>3. w = [v EXCEPT ![0] = [p \in Param |->
               IF p \in Model(m) /\ RanksOf(p) # {} THEN v[Min(RanksOf(p))][p] ELSE v[0][p]]]
    BY <1>1, <2>1 DEF SyncOrigParams
  <2> QED
    BY <2>2, <2>3
<1>5. ValuesTyped'
  <2>1. \A r \in Rank, p \in Param : w[r][p] \in [Elements(p) -> Nat]
    BY <1>3, ValueTypes
  <2> QED
    BY <1>1, <1>4, <2>1 DEF ValuesTyped, ValueInv
<1>6. \A p \in Model(m) : value'[0][p] = trained[p]
  BY <1>1, <1>2, <1>3
<1>7. ASSUME inUse \ inUse' \subseteq {m}, NEW p \in Param PROVE Handed(p)
  BY <1>1, <1>3, <1>6, <1>7 DEF Handed
<1> QED
  BY <1>5, <1>6, <1>7

\* A call that changes neither values nor training hands over nothing.
LEMMA NothingHanded ==
    ASSUME ValueInv, value' = value, trained' = trained, inUse' = inUse
    PROVE  ValuesTyped' /\ \A p \in Param : Handed(p)
  BY DEF Handed, ValueInv, ValuesTyped

\* What Forget gives up is what rank 0 does not have of the modules it forgets.
LEMMA ForgetHands ==
    ASSUME LifeInv, ValueInv, NEW ms \in SUBSET inUse, value' = value, inUse' = inUse \ ms,
           Forget(ms, value)
    PROVE  ValuesTyped' /\ \A p \in Param : GivenUp(p) \/ Handed(p)
<1>1. \A p \in Param : trained'[p] = IF \E m \in ms : p \in Model(m) THEN value[0][p] ELSE trained[p]
  BY DEF Forget
<1>2. ASSUME NEW p \in Param PROVE GivenUp(p) \/ Handed(p)
  <2>1. CASE \E m \in ms : p \in Model(m)
    <3>1. PICK m \in ms : p \in Model(m)
      BY <2>1
    <3>2. \A n \in inUse \ ms : p \notin Model(n)
      BY <3>1 DEF LifeInv, UseInv
    <3> QED
      BY <1>1, <2>1, <3>2 DEF GivenUp
  <2>2. CASE ~\E m \in ms : p \in Model(m)
    BY <1>1, <2>2 DEF Handed
  <2> QED
    BY <2>1, <2>2
<1>3. ValuesTyped'
  <2>1. \A p \in Param : trained'[p] \in [Elements(p) -> Nat]
    BY <1>1, ValueTypes, RankAssumption
  <2>2. DOMAIN trained' = Param
    BY DEF Forget
  <2> QED
    BY <2>1, <2>2 DEF ValuesTyped, ValueInv
<1> QED
  BY <1>2, <1>3

\* At first nothing is trained.
LEMMA ValuesInit == Init /\ job.sync_on_init => ValueInv
<1> SUFFICES ASSUME Init, job.sync_on_init PROVE ValueInv
  OBVIOUS
<1>1. 0 \in Rank /\ inUse = {}
  BY RankAssumption DEF Init
<1>2. ValuesTyped
  BY DEF Init, ValuesTyped
<1>3. ZeroKnown
  <2>1. store[0].zero_grad_locators_ = {}
    BY <1>1 DEF Init, EmptyStore
  <2> QED
    BY <1>1, <2>1 DEF ZeroKnown
<1>4. \A p \in Param : value[0][p] = trained[p]
  BY <1>1 DEF Init
<1>5. CheckpointComplete
  BY DEF Init, CheckpointComplete
<1> QED
  BY <1>1, <1>2, <1>3, <1>4, <1>5 DEF ValueInv, NoTrainingLost

\* Every call keeps the training.
LEMMA ValuesNext == LifeInv /\ OptimizerInv /\ ValueInv /\ [Next]_vars => ValueInv'
<1> SUFFICES ASSUME LifeInv, OptimizerInv, ValueInv, [Next]_vars PROVE ValueInv'
  OBVIOUS
<1>0. /\ inUse \subseteq Module /\ DOMAIN driver_ = Module
      /\ ZeroKnown' /\ CheckpointComplete
  BY ZeroKept DEF LifeInv, UseInv, ValueInv
<1>1. ASSUME checkpoint' = checkpoint PROVE CheckpointComplete'
  BY <1>0, <1>1 DEF CheckpointComplete
<1>2. ASSUME NEW ms, Destroy(ms), inUse' \subseteq inUse \ ms
      PROVE  \A m \in inUse' : driver_'[m] = driver_[m]
  BY <1>0, <1>2 DEF Destroy
<1>3. ASSUME NEW m \in Module, NEW d \in job.plans[training[m]][m], FirstCall(m, d)
      PROVE  ValueInv'
  BY <1>0, <1>3, ValuesFirstCall
<1>4. ASSUME NEW m \in Module, TrainingStep(m) PROVE ValueInv'
  BY <1>0, <1>4, ValuesTraining
<1>5. ASSUME NEW m \in Module, StateDict(m) PROVE ValueInv'
  <2>1. /\ m \in inUse /\ value' = SyncOrigParams(m)
        /\ UNCHANGED <<job, trained, inUse, driver_>>
        /\ checkpoint' = [p \in Model(m) |-> [saved |-> value'[0][p], trained |-> trained[p]]]
    BY <1>5 DEF StateDict
  <2>2. /\ ValuesTyped' /\ \A p \in Param : Handed(p)
        /\ \A p \in Model(m) : value'[0][p] = trained[p]
    BY <2>1, SyncHands
  <2>3. CheckpointComplete'
    BY <2>1, <2>2 DEF CheckpointComplete
  <2> QED
    BY <1>0, <2>1, <2>2, <2>3, ValuesKept
<1>6. ASSUME NEW m \in Module, TrainFirst(m) PROVE ValueInv'
  <2>1. UNCHANGED <<job, driver_, value, trained, inUse, checkpoint>>
    BY <1>6 DEF TrainFirst
  <2> QED
    BY <1>0, <1>1, <2>1, NothingHanded, ValuesKept
<1>7. ASSUME NEW m \in Module, Train(m) PROVE ValueInv'
  <2>1. /\ m \in inUse /\ value' = SyncOrigParams(m) /\ Destroy({m}) /\ inUse' = inUse \ {m}
        /\ UNCHANGED <<job, trained, checkpoint>>
    BY <1>7 DEF Train
  <2>2. ValuesTyped' /\ \A p \in Param : Handed(p)
    BY <2>1, SyncHands
  <2> QED
    BY <1>0, <1>1, <1>2, <2>1, <2>2, ValuesKept
<1>8. ASSUME NEW m \in Module, NEW sync \in BOOLEAN, Undeploy(m, sync) PROVE ValueInv'
  <2>1. Destroy({m}) /\ inUse' = inUse \ {m} /\ UNCHANGED <<job, checkpoint>>
    BY <1>8 DEF Undeploy
  <2>2. CASE sync
    <3>1. m \in inUse /\ value' = SyncOrigParams(m) /\ trained' = trained
      BY <1>8, <2>2 DEF Undeploy
    <3>2. ValuesTyped' /\ \A p \in Param : Handed(p)
      BY <2>1, <3>1, SyncHands
    <3> QED
      BY <1>0, <1>1, <1>2, <2>1, <3>2, ValuesKept
  <2>3. CASE ~sync /\ m \in inUse
    <3>1. value' = value /\ Forget({m}, value)
      BY <1>8, <2>3 DEF Undeploy
    <3>2. ValuesTyped' /\ \A p \in Param : GivenUp(p) \/ Handed(p)
      <4>1. {m} \in SUBSET inUse
        BY <2>3
      <4> QED
        BY <2>1, <3>1, <4>1, ForgetHands
    <3> QED
      BY <1>0, <1>1, <1>2, <2>1, <3>2, ValuesKept
  <2>4. CASE ~sync /\ m \notin inUse
    <3>1. value' = value /\ trained' = trained /\ inUse' = inUse
      BY <1>8, <2>1, <2>4 DEF Undeploy
    <3>2. ValuesTyped' /\ \A p \in Param : Handed(p)
      BY <3>1, NothingHanded
    <3> QED
      BY <1>0, <1>1, <1>2, <2>1, <3>2, ValuesKept
  <2> QED
    BY <2>2, <2>3, <2>4
<1>9. CASE Clear
  <2>1. /\ value' = value /\ Forget(inUse, value) /\ inUse' = {} /\ inUse' = inUse \ inUse
        /\ UNCHANGED <<job, checkpoint>>
    BY <1>9 DEF Clear
  <2>2. ValuesTyped' /\ \A p \in Param : GivenUp(p) \/ Handed(p)
    BY <2>1, ForgetHands
  <2> QED
    BY <1>0, <1>1, <2>1, <2>2, ValuesKept
<1>10. CASE UNCHANGED vars
  <2>1. UNCHANGED <<job, driver_, value, trained, inUse, checkpoint>>
    BY <1>10 DEF vars
  <2> QED
    BY <1>0, <1>1, <2>1, NothingHanded, ValuesKept
<1> QED
  BY <1>3, <1>4, <1>5, <1>6, <1>7, <1>8, <1>9, <1>10 DEF Next

\* The invariants of the optimizers and of the values in every behaviour.
LEMMA Trained ==
    Spec /\ SharedParameterUsed /\ TrainsOneWay /\ job.sync_on_init => [](OptimizerInv /\ ValueInv)
  BY Lived, OptimizerInit, OptimizerNext, ValuesInit, ValuesNext, PTL DEF Spec

(***************************************************************************)
(* No training is lost: whatever modules are deployed, evaluated,          *)
(* undeployed and deployed again with other partitionings, the ranks that  *)
(* hold a parameter (with zero, the owners of its segments) have all       *)
(* optimizer steps that were made to it, since train(mode) collects them   *)
(* on rank 0 and the next first call distributes what rank 0 has.          *)
(***************************************************************************)
THEOREM TrainingKept ==
    Spec /\ SharedParameterUsed /\ TrainsOneWay /\ job.sync_on_init => []NoTrainingLost
<1>1. ValueInv => NoTrainingLost
  BY DEF ValueInv
<1> QED
  BY <1>1, Trained, PTL

\* state_dict returns on rank 0 every parameter with all optimizer steps made
\* to it, also those that rank 0 does not hold or holds a segment of.
THEOREM CheckpointsAreComplete ==
    Spec /\ SharedParameterUsed /\ TrainsOneWay /\ job.sync_on_init => []CheckpointComplete
<1>1. ValueInv => CheckpointComplete
  BY DEF ValueInv
<1> QED
  BY <1>1, Trained, PTL

=============================================================================
