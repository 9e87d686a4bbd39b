-------------------------------- MODULE Deploy --------------------------------
(***************************************************************************)
(* How the ranks of an MPI job bring models into service together: storing *)
(* distributed parameters, RaNNCModule::init, ParamStorage::deploy and     *)
(* GraphLauncher::deployGraph.  Every rank runs the same program on its    *)
(* own state, and they meet in collectives:                                *)
(*  - a broadcast from rank 0 over MPI_COMM_WORLD, which rank 0 may leave  *)
(*    before the others enter it: an inbox per rank;                       *)
(*  - a barrier, the creation of a communicator and an NCCL all-gather,    *)
(*    which nobody leaves before every member has entered: a joint step.   *)
(* Communicators are found by tags which each rank makes for itself        *)
(* (TagMap), so the ranks meet only as long as their tags agree.           *)
(***************************************************************************)
EXTENDS Integers, Sequences, FiniteSets, SequencesExt

CONSTANTS
    NumRanks,      \* mpi::getSize()
    Numel,         \* the number of elements of each parameter
    Jobs,          \* the programs to run
    TagUB,         \* mpi::getTagUB()
    Hash(_, _),    \* std::hash on a key's string: any function, named by job.hash
    MaxFetches     \* bound: parameters rank 0 fetches while it profiles a module

Ranks  == 0 .. NumRanks - 1
Params == DOMAIN Numel

-----------------------------------------------------------------------------
(* What the ranks ask TagMap for. *)

RankKey(S) == [kind |-> "ranks", value |-> "", sources |-> S, dests |-> {}]

\* The strings createDeployment makes tags of: a route, its sources, and the
\* sources of the route back (the values of these modules have gradients).
RouteKeys(m) ==
    LET cs == m.in \o m.mid \o m.out
    IN  [n \in 1 .. 3 * Len(cs) |->
            LET c == cs[1 + (n - 1) \div 3]
            IN  [kind    |-> <<"route", "source", "bwd_source">>[1 + ((n - 1) % 3)],
                 value   |-> c.value, sources |-> c.sources, dests |-> c.dests]]

\* deployGraph: the ranks of the routes forward, of the routes back, and of the
\* output's broadcast.
CommSets(j, m) ==
    LET All(c) == c.sources \union c.dests
        In  == [n \in 1 .. Len(m.in) |->                      \* rewriteInRoute
                   IF j.gather THEN All(m.in[n]) ELSE {0} \union m.in[n].dests]
        Mid == [n \in 1 .. Len(m.mid) |-> All(m.mid[n])]
        Out == [n \in 1 .. Len(m.out) |->                     \* rewriteOutRoute
                   IF j.gather THEN All(m.out[n]) ELSE m.out[n].sources \union {0}]
    IN  In \o Mid \o Out \o Out \o Mid \o In \o (IF j.gather THEN << >> ELSE <<Ranks>>)

ModuleKeys(j, m) ==
    {RankKey(UNION m.users[p]) : p \in ToSet(m.params)}
    \union {RankKey(S) : S \in ToSet(CommSets(j, m))}
    \union ToSet(RouteKeys(m))

KeysOf(j) ==
    {RankKey(Ranks), RankKey({0})}
    \union UNION {ModuleKeys(j, j.modules[n]) : n \in DOMAIN j.modules}

RouteDP == [value : STRING, sources : SUBSET Ranks, dests : SUBSET Ranks]

\* A job stores distributed parameters, in the order of job.stored, and then
\* initializes its modules one after the other.  It has a tag for every key:
\* TagMap::generate does not return when none is free.
ASSUME DeployAssumption ==
    /\ NumRanks \in Nat \ {0} /\ TagUB \in Nat \ {0} /\ MaxFetches \in Nat
    /\ \A p \in Params : Numel[p] \in Nat \ {0}
    /\ \A j \in Jobs :
        /\ j.stored \in Seq(Params)
        /\ {j.gather, j.zero} \subseteq BOOLEAN
        /\ \A r \in Ranks :       \* Python ids of the parameters: addresses
            j.id[r] \in [Params -> Nat \ {0}] /\ IsInjective(j.id[r])
        /\ \A k \in KeysOf(j) : Hash(j.hash, k) \in Nat
        /\ IsFiniteSet(KeysOf(j)) /\ Cardinality(KeysOf(j)) <= TagUB
        /\ Len(j.modules) \in Nat \ {0} /\ DOMAIN j.modules = 1 .. Len(j.modules)
        /\ \A n \in DOMAIN j.modules :
            LET m == j.modules[n]
            IN  /\ m.params \in Seq(Params)       \* in the order of their names
                /\ IsInjective(m.params)
                /\ m.buffers \subseteq ToSet(m.params)
                /\ \A p \in ToSet(m.params) :     \* ranks of each subgraph using p
                       m.users[p] \subseteq SUBSET Ranks
                /\ {m.in, m.mid, m.out} \subseteq Seq(RouteDP)

\* Jobs whose modules share no parameter, whose distributed parameters every
\* rank uses, and where an id means one parameter on every rank, or all is
\* fetched before anything is removed.
JobsSeparate ==
    \A j \in Jobs :
        /\ \A n, l \in DOMAIN j.modules : n # l =>
               ToSet(j.modules[n].params) \cap ToSet(j.modules[l].params) = {}
        /\ \A n \in DOMAIN j.modules :
               \A p \in ToSet(j.modules[n].params) \cap ToSet(j.stored) :
                   UNION j.modules[n].users[p] = Ranks
        /\ \/ Len(j.modules) = 1
           \/ \A r \in Ranks : \A p, q \in Params : j.id[r][p] = j.id[0][q] => p = q

VARIABLES
    job,       \* the program
    status,    \* "running", or "aborted" by MPI_Abort, or "threw" without it
    proc,      \* rank -> its control state, see TypeOK
    fetches,   \* parameters rank 0 fetched for this module
    inbox,     \* rank -> broadcasts of rank 0 not yet received
    tagmap,    \* rank -> TagMap: tags_ and the maps from keys to tags
    comms,     \* rank -> SComm's and NCCLWrapper's comm_map_, tag_rank_set_
    routes,    \* rank -> the tags of the routes of the deployment it holds
    locator,   \* rank -> DistributedParamLocator: global ids, segments
    storage    \* rank -> ParamStorage: dist_ids_ and the parameters' tensors

vars == <<job, status, proc, fetches, inbox, tagmap, comms, routes, locator, storage>>

Module(r) == job.modules[proc[r].mod]

\* Rank r goes on to the start of a phase, or to its next element.
Enter(r, phase) == [proc EXCEPT ![r].pc = phase, ![r].at = 1]
Advance(r)      == [proc EXCEPT ![r].at = @ + 1]

Running(r, phase) == status = "running" /\ proc[r].pc = phase

-----------------------------------------------------------------------------
(* TagMap. *)

\* A table with an entry for x, which replaces the one there is, or does not.
Put(f, x, y)    == [z \in DOMAIN f \union {x} |-> IF z = x THEN y ELSE f[z]]
PutNew(f, x, y) == IF x \in DOMAIN f THEN f ELSE Put(f, x, y)

\* mpi::generateTag.
generateTag(j, k) == Hash(j.hash, k) % TagUB

\* TagMap::generate: the first free tag from the hash on.
generate(j, k, taken) ==
    LET free == {d \in 0 .. TagUB - 1 : (generateTag(j, k) + d) % TagUB \notin taken}
    IN  (generateTag(j, k) + (CHOOSE d \in free : \A e \in free : d <= e)) % TagUB

\* TagMap t after it was asked for the tag of key k, or of the keys ks in turn.
Ask(j, t, k) ==
    IF k \in DOMAIN t.tag THEN t
    ELSE [tag   |-> Put(t.tag, k, generate(j, k, t.taken)),
          taken |-> t.taken \union {generate(j, k, t.taken)}]

AskAll(j, t, ks) ==
    LET asked[n \in 0 .. Len(ks)] == IF n = 0 THEN t ELSE Ask(j, asked[n - 1], ks[n])
    IN  asked[Len(ks)]

Asked(r, S) == Ask(job, tagmap[r], RankKey(S))
TagOf(r, S) == Asked(r, S).tag[RankKey(S)]

-----------------------------------------------------------------------------
(* Collectives. *)

\* A broadcast of rank 0 over MPI_COMM_WORLD, as rank r takes part in it.  A
\* rank that waits for another broadcast than the one it gets is stuck here.
Bcast(r, kind, val) ==
    IF r = 0
    THEN inbox' = [q \in Ranks |-> IF q = 0 THEN << >>
                                   ELSE Append(inbox[q], [kind |-> kind, val |-> val])]
    ELSE /\ inbox[r] # << >>
         /\ Head(inbox[r]).kind = kind
         /\ inbox' = [inbox EXCEPT ![r] = Tail(@)]

Received(r, val) == IF r = 0 THEN val ELSE Head(inbox[r]).val

\* The members of S meet in the MPI communicator they find or create by tag.
MeetMPI(S) ==
    \A r, q \in S : /\ TagOf(r, S) = TagOf(q, S)
                    /\ TagOf(r, S) \in DOMAIN comms[r].mpi => comms[r].mpi[TagOf(r, S)] = S
                    /\ TagOf(r, S) \in DOMAIN comms[r].mpi <=> TagOf(q, S) \in DOMAIN comms[q].mpi

\* NCCLWrapper::createCommunicator asks for no meeting if the tag is known.
HasNCCL(r, S) == TagOf(r, S) \in DOMAIN comms[r].nccl

TagSet(S) == [r \in Ranks |-> IF r \in S THEN Asked(r, S) ELSE tagmap[r]]

WithMPI(S, c) ==
    [r \in Ranks |-> IF r \in S THEN [c[r] EXCEPT !.mpi = PutNew(@, TagOf(r, S), S)] ELSE c[r]]
WithNCCL(S, c) ==
    [r \in Ranks |-> IF r \in S THEN [c[r] EXCEPT !.nccl = PutNew(@, TagOf(r, S), S)] ELSE c[r]]

-----------------------------------------------------------------------------
(* DistributedParamLocator. *)

\* A tensor's elements: the parameter, the position, the rank whose copy it is.
Tensor(p, r) == [k \in 1 .. Numel[p] |-> <<p, k, r>>]
Zero == << >>

\* doRegister and store: rank r keeps a segment, padded to the common size.
Segment_OwnOffset(p, r) ==
    LET size == (Numel[p] + NumRanks - 1) \div NumRanks
        own  == IF (r + 1) * size <= Numel[p] THEN size ELSE Numel[p] % size
    IN  [k \in 1 .. size |-> IF k <= own THEN Tensor(p, r)[r * own + k] ELSE Zero]

Segment(p, r) ==
    LET size == (Numel[p] + NumRanks - 1) \div NumRanks
    IN  [k \in 1 .. size |-> IF r * size + k <= Numel[p] THEN Tensor(p, r)[r * size + k]
                                                         ELSE Zero]

\* store on every rank: all of them register the parameter together.
Store ==
    /\ \A r \in Ranks : Running(r, "store") /\ proc[r].at <= Len(job.stored)
    /\ MeetMPI(Ranks)
    /\ tagmap' = TagSet(Ranks)
    /\ comms' = WithMPI(Ranks, comms)
    /\ locator' = [r \in Ranks |->
           LET p == job.stored[proc[r].at]
           IN  [known |-> Put(locator[r].known, job.id[0][job.stored[proc[0].at]], p),
                part  |-> Put(locator[r].part, p, Segment(p, r))]]
    /\ proc' = [r \in Ranks |-> [proc[r] EXCEPT !.at = @ + 1]]
    /\ UNCHANGED <<job, status, fetches, inbox, routes, storage>>

Stored(r) ==
    /\ Running(r, "store") /\ proc[r].at > Len(job.stored)
    /\ proc' = Enter(r, "register")
    /\ UNCHANGED <<job, status, fetches, inbox, tagmap, comms, routes, locator, storage>>

\* remove: the id that is erased from global_id_to_local_ is the local one.
Removed(r, p) ==
    [known |-> [g \in DOMAIN locator[r].known \ {job.id[r][p]} |-> locator[r].known[g]],
     part  |-> [q \in DOMAIN locator[r].part \ {p} |-> locator[r].part[q]]]

\* load: an NCCL all-gather among all ranks, whatever each of them loads.
\* Rank q's segment comes q times the segment's size from the start.
Gathered(r) ==
    LET p    == proc[r].load
        size == (Numel[p] + NumRanks - 1) \div NumRanks
    IN  [k \in 1 .. Numel[p] |->
            LET q == (k - 1) \div size IN locator[q].part[proc[q].load][1 + ((k - 1) % size)]]

\* Where a rank goes after load, by what called it: the tracing hook, the
\* master's fetch, the loop of fetchStart, or ParamStorage::deploy.
AfterLoad(r) ==
    CASE proc[r].pc = "trace_load"  -> [proc[r] EXCEPT !.pc = "trace", !.at = @ + 1]
      [] proc[r].pc = "master_load" -> [proc[r] EXCEPT !.pc = "master"]
      [] proc[r].pc = "fetch_load"  -> [proc[r] EXCEPT !.pc = "fetching"]
      [] proc[r].pc = "param_load"  -> [proc[r] EXCEPT !.pc = "param", !.at = @ + 1]

Load ==
    /\ status = "running"
    /\ \A r \in Ranks :
        /\ proc[r].pc \in {"trace_load", "master_load", "fetch_load", "param_load"}
        /\ proc[r].load \in DOMAIN locator[r].part
        /\ HasNCCL(r, Ranks) <=> HasNCCL(0, Ranks)
    /\ tagmap' = TagSet(Ranks)
    /\ comms' = WithNCCL(Ranks, comms)
    /\ proc' = [r \in Ranks |-> AfterLoad(r)]
    /\ locator' = [r \in Ranks |-> IF proc[r].pc = "param_load" THEN Removed(r, proc[r].load)
                                                                ELSE locator[r]]
    /\ storage' = [r \in Ranks |->
           IF proc[r].pc # "param_load" THEN storage[r]
           ELSE [dist  |-> storage[r].dist \ {proc[r].load},
                 value |-> Put(storage[r].value, proc[r].load, Gathered(r))]]
    /\ UNCHANGED <<job, status, fetches, inbox, routes>>

-----------------------------------------------------------------------------
(* RaNNCModule::init, up to the deployment. *)

\* doRegisterParams: every parameter's global id is its id on rank 0.
RegisterParam(r) ==
    /\ Running(r, "register") /\ proc[r].at <= Len(Module(r).params)
    /\ LET p == Module(r).params[proc[r].at]
       IN  /\ Bcast(r, "id", job.id[0][p])
           /\ storage' = [storage EXCEPT
                  ![r].dist = IF p \in ToSet(job.stored) THEN @ \union {p} ELSE @,
                  ![r].value = Put(@, p, Tensor(p, r))]
    /\ proc' = Advance(r)
    /\ UNCHANGED <<job, status, fetches, tagmap, comms, routes, locator>>

Registered(r) ==
    /\ Running(r, "register") /\ proc[r].at > Len(Module(r).params)
    /\ proc' = Enter(r, "trace")
    /\ UNCHANGED <<job, status, fetches, inbox, tagmap, comms, routes, locator, storage>>

\* trace: the hooks of DistributeModelParams load what is distributed.
Trace(r) ==
    /\ Running(r, "trace") /\ proc[r].at <= Len(Module(r).params)
    /\ LET p == Module(r).params[proc[r].at]
       IN  proc' = IF p \in storage[r].dist
                   THEN [proc EXCEPT ![r].pc = "trace_load", ![r].load = p]
                   ELSE Advance(r)
    /\ UNCHANGED <<job, status, fetches, inbox, tagmap, comms, routes, locator, storage>>

\* syncDebugName: the names the trace gave on rank 0, and so their order.
OrderHere_Own(r) == proc[r].order

OrderHere(r) == Received(r, Module(r).params)

SyncDebugName(r) ==
    /\ Running(r, "trace") /\ proc[r].at > Len(Module(r).params)
    /\ Bcast(r, "names", Module(r).params)
    /\ proc' = [Enter(r, "fetchStart") EXCEPT ![r].order = OrderHere(r)]
    /\ UNCHANGED <<job, status, fetches, tagmap, comms, routes, locator, storage>>

\* The rank set a rank is about to have an NCCL communicator for:
\* createCommunicator as part of fetchStart and of createRouteCommunicator.
Wanted(r) ==
    CASE proc[r].pc = "fetchStart" -> Ranks
      [] proc[r].pc = "route" /\ proc[r].at <= Len(CommSets(job, Module(r))) ->
            CommSets(job, Module(r))[proc[r].at]
      [] OTHER -> {}

AfterCreation(r) ==
    IF proc[r].pc = "fetchStart"
    THEN [proc[r] EXCEPT !.pc = IF r = 0 THEN "master" ELSE "fetching"]
    ELSE [proc[r] EXCEPT !.at = @ + 1]

\* A new communicator: the members get its id from the least of them and
\* initialize it together.  NCCL does not see the tag.
CreateCommunicator(S) ==
    /\ status = "running"
    /\ \A r \in S : Wanted(r) = S /\ ~HasNCCL(r, S)
    /\ tagmap' = TagSet(S)
    /\ comms' = WithNCCL(S, comms)
    /\ proc' = [r \in Ranks |-> IF r \in S THEN AfterCreation(r) ELSE proc[r]]
    /\ UNCHANGED <<job, status, fetches, inbox, routes, locator, storage>>

\* A known communicator, or one this rank is no member of: only the tag is made.
FindCommunicator(r) ==
    /\ status = "running" /\ Wanted(r) # {}
    /\ r \in Wanted(r) => HasNCCL(r, Wanted(r))
    /\ tagmap' = [tagmap EXCEPT ![r] = Asked(r, Wanted(r))]
    /\ proc' = [proc EXCEPT ![r] = AfterCreation(r)]
    /\ UNCHANGED <<job, status, fetches, inbox, comms, routes, locator, storage>>

\* ParamStorage::getParamTensor on rank 0 while it profiles: fetch.
Fetch(p) ==
    /\ Running(0, "master") /\ fetches < MaxFetches
    /\ p \in storage[0].dist \cap ToSet(Module(0).params)
    /\ Bcast(0, "fetch", job.id[0][p])
    /\ proc' = [proc EXCEPT ![0].pc = "master_load", ![0].load = p]
    /\ fetches' = fetches + 1
    /\ UNCHANGED <<job, status, tagmap, comms, routes, locator, storage>>

\* The other ranks load what rank 0 fetches until it sends 0.
FetchLoop(r) ==
    /\ r # 0 /\ Running(r, "fetching")
    /\ Bcast(r, "fetch", 0)
    /\ LET g == Received(r, 0)
       IN  IF g = 0 THEN proc' = Enter(r, "barrier") /\ UNCHANGED status
           ELSE IF g \in DOMAIN locator[r].known
           THEN /\ proc' = [proc EXCEPT ![r].pc = "fetch_load", ![r].load = locator[r].known[g]]
                /\ UNCHANGED status
           ELSE status' = "aborted" /\ UNCHANGED proc
    /\ UNCHANGED <<job, fetches, tagmap, comms, routes, locator, storage>>

\* Profiling, decomposition or verification throws on rank 0; main.cpp's
\* wrapper of init turns what a rank throws into MPI_Abort.
Threw_NotAborted == "threw"

Threw == "aborted"

MasterFails ==
    /\ Running(0, "master")
    /\ status' = Threw
    /\ UNCHANGED <<job, proc, fetches, inbox, tagmap, comms, routes, locator, storage>>

\* decompose on rank 0, which makes the tags of the routes; then fetchEnd.
fetchEnd == Bcast(0, "fetch", 0)

Decompose ==
    /\ Running(0, "master")
    /\ LET m == AskAll(job, tagmap[0], RouteKeys(Module(0)))
       IN  /\ tagmap' = [tagmap EXCEPT ![0] = m]
           /\ routes' = [routes EXCEPT ![0] = [k \in ToSet(RouteKeys(Module(0))) |-> m.tag[k]]]
    /\ fetchEnd
    /\ proc' = Enter(0, "barrier")
    /\ UNCHANGED <<job, status, fetches, comms, locator, storage>>

Barrier ==
    /\ \A r \in Ranks : Running(r, "barrier")
    /\ proc' = [r \in Ranks |-> [proc[r] EXCEPT !.pc = "deployment"]]
    /\ UNCHANGED <<job, status, fetches, inbox, tagmap, comms, routes, locator, storage>>

BcastDeployment(r) ==
    /\ Running(r, "deployment")
    /\ Bcast(r, "deployment", routes[0])
    /\ routes' = [routes EXCEPT ![r] = Received(r, routes[0])]
    /\ proc' = Enter(r, "sync")
    /\ UNCHANGED <<job, status, fetches, tagmap, comms, locator, storage>>

-----------------------------------------------------------------------------
(* ParamStorage::deploy. *)

\* The parameter a rank has come to, and the ranks that use it.
Here(r)    == proc[r].order[proc[r].at]
SetHere(r) == UNION Module(r).users[Here(r)]
InLoop(r, phase) == Running(r, phase) /\ proc[r].at <= Len(proc[r].order)

\* TagMap::sync: rank 0's tags_ replace this rank's; the maps stay.
TagsAfterSync_Own(r) == tagmap[r].taken

TagsAfterSync(r) == Received(r, tagmap[0].taken)

\* What deploy throws for: a buffer, which id_to_name does not have, and a
\* parameter that two subgraphs use on one rank.
Rejected(m) ==
    \/ m.buffers # {}
    \/ \E p \in ToSet(m.params) : \E S, T \in m.users[p] : S # T /\ S \cap T # {}

Sync(r) ==
    /\ Running(r, "sync")
    /\ Bcast(r, "tags", tagmap[0].taken)
    /\ tagmap' = [tagmap EXCEPT ![r].taken = TagsAfterSync(r)]
    /\ IF Rejected(Module(r)) THEN status' = "aborted" /\ UNCHANGED proc
                              ELSE proc' = Enter(r, "param") /\ UNCHANGED status
    /\ UNCHANGED <<job, fetches, comms, routes, locator, storage>>

KnownSet(r) == TagOf(r, SetHere(r)) \in DOMAIN comms[r].sets

AddSet(r, c) == [c EXCEPT ![r].sets = PutNew(@, TagOf(r, SetHere(r)), SetHere(r))]

\* An unused parameter.
SkipParam(r) ==
    /\ InLoop(r, "param") /\ SetHere(r) = {}
    /\ proc' = Advance(r)
    /\ UNCHANGED <<job, status, fetches, inbox, tagmap, comms, routes, locator, storage>>

\* The first parameter on a set of ranks: they create its communicators.
ParamCommunicator(S) ==
    /\ \A r \in S : /\ InLoop(r, "param") /\ SetHere(r) = S
                    /\ ~KnownSet(r)
                    /\ HasNCCL(r, S) <=> HasNCCL(CHOOSE q \in S : TRUE, S)
    /\ MeetMPI(S)
    /\ tagmap' = TagSet(S)
    /\ comms' = [r \in Ranks |->
           IF r \in S THEN AddSet(r, WithNCCL(S, WithMPI(S, comms)))[r] ELSE comms[r]]
    /\ proc' = [r \in Ranks |-> IF r \in S THEN [proc[r] EXCEPT !.pc = "value"] ELSE proc[r]]
    /\ UNCHANGED <<job, status, fetches, inbox, routes, locator, storage>>

ParamTag(r) ==
    /\ InLoop(r, "param") /\ SetHere(r) # {}
    /\ r \in SetHere(r) => KnownSet(r)
    /\ tagmap' = [tagmap EXCEPT ![r] = Asked(r, SetHere(r))]
    /\ comms' = AddSet(r, comms)
    /\ proc' = [proc EXCEPT ![r].pc = "value"]
    /\ UNCHANGED <<job, status, fetches, inbox, routes, locator, storage>>

\* A distributed parameter is loaded by the ranks that use it, forgotten by
\* the others (torch::zeros({1})).
TakeDistributed(r) ==
    /\ InLoop(r, "value") /\ Here(r) \in storage[r].dist
    /\ IF r \in SetHere(r)
       THEN /\ proc' = [proc EXCEPT ![r].pc = "param_load", ![r].load = Here(r)]
            /\ UNCHANGED <<locator, storage>>
       ELSE /\ proc' = [Advance(r) EXCEPT ![r].pc = "param"]
            /\ locator' = [locator EXCEPT ![r] = Removed(r, Here(r))]
            /\ storage' = [storage EXCEPT ![r].dist = @ \ {Here(r)},
                                          ![r].value = Put(@, Here(r), Zero)]
    /\ UNCHANGED <<job, status, fetches, inbox, tagmap, comms, routes>>

\* syncParamOnInit: rank 0's tensor, over all ranks.
SyncParamOnInit(r) ==
    /\ InLoop(r, "value") /\ Here(r) \notin storage[r].dist
    /\ Bcast(r, "value", storage[0].value[Here(r)])
    /\ storage' = [storage EXCEPT
           ![r].value = Put(@, Here(r), Received(r, storage[0].value[Here(r)]))]
    /\ proc' = [Advance(r) EXCEPT ![r].pc = "param"]
    /\ UNCHANGED <<job, status, fetches, tagmap, comms, routes, locator>>

ParamsDone(r) ==
    /\ Running(r, "param") /\ proc[r].at > Len(proc[r].order)
    /\ proc' = Enter(r, IF job.zero THEN "zero" ELSE "sync2")
    /\ UNCHANGED <<job, status, fetches, inbox, tagmap, comms, routes, locator, storage>>

\* enable_zero: the users of a parameter register its gradient together.
RegisterGrad(S) ==
    /\ \A r \in S : InLoop(r, "zero") /\ SetHere(r) = S
    /\ MeetMPI(S)
    /\ tagmap' = TagSet(S)
    /\ comms' = WithMPI(S, comms)
    /\ proc' = [r \in Ranks |-> IF r \in S THEN [proc[r] EXCEPT !.at = @ + 1] ELSE proc[r]]
    /\ UNCHANGED <<job, status, fetches, inbox, routes, locator, storage>>

SkipGrad(r) ==
    /\ InLoop(r, "zero") /\ r \notin SetHere(r)
    /\ proc' = Advance(r)
    /\ UNCHANGED <<job, status, fetches, inbox, tagmap, comms, routes, locator, storage>>

GradsDone(r) ==
    /\ Running(r, "zero") /\ proc[r].at > Len(proc[r].order)
    /\ proc' = Enter(r, "sync2")
    /\ UNCHANGED <<job, status, fetches, inbox, tagmap, comms, routes, locator, storage>>

-----------------------------------------------------------------------------
(* GraphLauncher::deployGraph, and the end of init. *)

SyncAgain(r) ==
    /\ Running(r, "sync2")
    /\ Bcast(r, "tags", tagmap[0].taken)
    /\ tagmap' = [tagmap EXCEPT ![r].taken = TagsAfterSync(r)]
    /\ proc' = Enter(r, "route")
    /\ UNCHANGED <<job, status, fetches, comms, routes, locator, storage>>

\* The source tag of bcast_route; then the next module's init, or the end.
Ready(r) ==
    /\ Running(r, "route") /\ proc[r].at > Len(CommSets(job, Module(r)))
    /\ tagmap' = [tagmap EXCEPT ![r] = IF job.gather THEN @ ELSE Asked(r, {0})]
    /\ IF proc[r].mod < Len(job.modules)
       THEN proc' = [Enter(r, "register") EXCEPT ![r].mod = @ + 1,
                         ![r].order = Reverse(job.modules[proc[r].mod + 1].params)]
       ELSE proc' = Enter(r, "done")
    /\ fetches' = IF r = 0 THEN 0 ELSE fetches
    /\ UNCHANGED <<job, status, inbox, comms, routes, locator, storage>>

-----------------------------------------------------------------------------
\* A rank's trace may name, and so order, the parameters in its own way.
Init ==
    /\ job \in Jobs
    /\ status = "running"
    /\ proc = [r \in Ranks |-> [pc |-> "store", mod |-> 1, at |-> 1, load |-> << >>,
                   order |-> IF r = 0 THEN job.modules[1].params
                                      ELSE Reverse(job.modules[1].params)]]
    /\ fetches = 0
    /\ inbox = [r \in Ranks |-> << >>]
    /\ tagmap = [r \in Ranks |-> [tag |-> << >>, taken |-> {}]]
    /\ comms = [r \in Ranks |-> [mpi |-> << >>, nccl |-> << >>, sets |-> << >>]]
    /\ routes = [r \in Ranks |-> << >>]
    /\ locator = [r \in Ranks |-> [known |-> << >>, part |-> << >>]]
    /\ storage = [r \in Ranks |-> [dist |-> {}, value |-> << >>]]

Local(r) ==
    \/ Stored(r) \/ RegisterParam(r) \/ Registered(r) \/ Trace(r) \/ SyncDebugName(r)
    \/ FindCommunicator(r) \/ FetchLoop(r) \/ BcastDeployment(r) \/ Sync(r)
    \/ SkipParam(r) \/ ParamTag(r) \/ TakeDistributed(r) \/ SyncParamOnInit(r)
    \/ ParamsDone(r) \/ SkipGrad(r) \/ GradsDone(r) \/ SyncAgain(r) \/ Ready(r)

Joint ==
    \/ Store \/ Load \/ Barrier
    \/ \E S \in (SUBSET Ranks) \ {{}} :
           CreateCommunicator(S) \/ ParamCommunicator(S) \/ RegisterGrad(S)

Master == (\E p \in Params : Fetch(p)) \/ MasterFails \/ Decompose

Step == (\E r \in Ranks : Local(r)) \/ Joint \/ Master

Ended == status = "aborted" \/ \A r \in Ranks : proc[r].pc = "done"

Terminated == Ended /\ UNCHANGED vars

Next == Step \/ Terminated

Spec == Init /\ [][Next]_vars

-----------------------------------------------------------------------------
(* Properties. *)

\* The state of every rank has its type: control state, tag and communicator
\* tables, the locator's and the storage's tables.
TypeOK ==
    /\ job \in Jobs /\ status \in {"running", "aborted", "threw"} /\ fetches \in 0 .. MaxFetches
    /\ \A r \in Ranks :
        /\ proc[r].mod \in DOMAIN job.modules /\ proc[r].at \in Nat
        /\ ToSet(proc[r].order) = ToSet(Module(r).params)
        /\ \A n \in DOMAIN inbox[r] :
               inbox[r][n].kind \in {"id", "names", "fetch", "deployment", "tags", "value"}
        /\ tagmap[r].taken \subseteq 0 .. TagUB - 1
        /\ \A k \in DOMAIN tagmap[r].tag : tagmap[r].tag[k] \in tagmap[r].taken
        /\ \A t \in DOMAIN comms[r].mpi : t \in 0 .. TagUB - 1 /\ r \in comms[r].mpi[t]
        /\ \A t \in DOMAIN comms[r].nccl : t \in 0 .. TagUB - 1 /\ r \in comms[r].nccl[t]
        /\ DOMAIN locator[r].part \subseteq Params
        /\ storage[r].dist \subseteq DOMAIN storage[r].value

\* Two ranks that have a tag for one set of ranks have the same; no rank has
\* one tag for two sets, or for a set and a route (whose tags rank 0 made
\* alone); so a communicator found by its tag is the one that was meant.
TagsAgree ==
    \A r \in Ranks :
        /\ \A q \in Ranks : \A k \in DOMAIN tagmap[r].tag \cap DOMAIN tagmap[q].tag :
               tagmap[r].tag[k] = tagmap[q].tag[k]
        /\ IsInjective([k \in DOMAIN routes[r] \union DOMAIN tagmap[r].tag |->
               IF k \in DOMAIN routes[r] THEN routes[r][k] ELSE tagmap[r].tag[k]])
        /\ \A t \in DOMAIN comms[r].nccl : tagmap[r].tag[RankKey(comms[r].nccl[t])] = t

\* A rank that waits for a broadcast gets the one it waits for: ranks in the
\* loop of fetchStart leave it when rank 0 has fetched its last parameter, and
\* each finds the parameter that rank 0 fetches.
BroadcastsMatch ==
    \A r \in Ranks \ {0} : (status = "running" /\ inbox[r] # << >>) =>
        /\ proc[r].pc = "fetching" =>
               /\ Head(inbox[r]).kind = "fetch"
               /\ Head(inbox[r]).val = 0 \/ Head(inbox[r]).val \in DOMAIN locator[r].known
        /\ proc[r].pc = "barrier" => FALSE
        /\ proc[r].pc = "deployment" => Head(inbox[r]).kind = "deployment"
        /\ proc[r].pc = "value" /\ Here(r) \notin storage[r].dist =>
               Head(inbox[r]).kind = "value" /\ Head(inbox[r]).val = Tensor(Here(r), 0)

\* On every rank that runs a subgraph using it, a deployed parameter is whole:
\* the elements of one tensor in their places, and the same on all such ranks.
ParamsWhole ==
    \A r \in Ranks : \A n \in 1 .. Len(job.modules) :
        (proc[r].pc = "done" \/ proc[r].mod > n) =>
            LET m == job.modules[n]
            IN  \A p \in ToSet(m.params) : \A S \in m.users[p] : r \in S =>
                    /\ Len(storage[r].value[p]) = Numel[p]
                    /\ \A k \in 1 .. Numel[p] :
                           LET e == storage[r].value[p][k] IN e # Zero /\ e[1] = p /\ e[2] = k
                    /\ \A q \in S : (proc[q].pc = "done" \/ proc[q].mod > n) =>
                           storage[q].value[p] = storage[r].value[p]

\* No rank waits for another for ever: until the models are deployed or the
\* job is aborted some rank can go on.  A rank that throws takes the others,
\* waiting in fetchStart or in a communicator, down with it.
NeverStuck == Ended \/ ENABLED Step

\* A model with buffers can be deployed.
BuffersDeployed ==
    ~\E r \in Ranks : proc[r].pc = "sync" /\ status = "aborted"
=============================================================================
