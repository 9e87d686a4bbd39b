-------------------------- MODULE MLPartDecomposer --------------------------
(***************************************************************************)
(* MLPartDecomposer::decompose (graph/MLPartDecomposer.cpp) and what       *)
(* becomes of its result on rank 0: the partitioner's sorted parts are     *)
(* grouped into stages, the stages get replicas and ranks, every value     *)
(* that crosses a boundary gets routes, and the deployment is verified,    *)
(* saved and loaded again by a later job (graph/Decomposition.cpp,         *)
(* graph/DeploymentSerializer.cpp).                                        *)
(*                                                                         *)
(* The stages and replicas are any that Staging's SolutionIsPipeline       *)
(* allows; allocations and orders that come out of unordered maps are free *)
(* choices.  Stages are called by their numbers.                           *)
(***************************************************************************)
EXTENDS Partitioner

CONSTANT Worlds               \* numbers of ranks a job may have

ASSUME WorldsAssumption == Worlds \subseteq Nat \ {0}

VARIABLES world,      \* mpi::getSize()
          grads,      \* the values that are passed for backward
          sol,        \* the stages: [graph, repl]
          alloc,      \* stage -> ranks
          dep,        \* the deployment
          file        \* the saved DeploymentState

dvars == <<world, grads, sol, alloc, dep, file>>

MASTER == 0

NoDeployment == <<>>

Stages == DOMAIN sol

----------------------------------------------------------------------------
(* Stages                                                                  *)

\* GraphMergeHelper::merge: the parts from .. to become one graph.  A prefix
\* that was merged stays among the other graphs under its old name.
MergeParts(parts, from, to) ==
    LET Step1(acc, i) ==
            LET n == mergeNodes(model, acc.base, parts[i],
                                [ml EXCEPT !.nodes = acc.rest, !.edges = {}])
            IN  [base |-> n, rest |-> (acc.rest \ {parts[from], parts[i]}) \cup {n}]
    IN  FoldLeft(Step1, [base |-> parts[from], rest |-> ToSet(parts)],
                 [k \in 1 .. to - from |-> from + k]).base.graph

\* Boundaries 0 < b[1] < ... < b[k] = n.
Boundaries(n) == {SetToSortSeq(B \cup {n}, <) : B \in SUBSET (1 .. n - 1)}

\* runDpComm.  The partitioner's graphs are gone when it has returned.
RunDp ==
    /\ pc = "done"
    /\ \E b \in Boundaries(Len(order)) :
          /\ Len(b) <= world
          /\ \E repl \in [1 .. Len(b) -> 1 .. world] :
                /\ FoldLeft(+, 0, repl) <= world
                /\ sol' = [i \in 1 .. Len(b) |->
                              [graph |-> MergeParts(order, IF i = 1 THEN 1 ELSE b[i - 1] + 1, b[i]),
                               repl  |-> repl[i]]]
    /\ pc' = "allocate"
    /\ ml' = NoGraph /\ last' = NoGraph /\ order' = <<>>
    /\ UNCHANGED <<model, config, matched, merged, names, moves, world, grads, alloc, dep, file>>

----------------------------------------------------------------------------
(* Ranks                                                                   *)

Copies(n, x) == [i \in 1 .. n |-> x]

RECURSIVE gcd(_, _)
gcd(a, b) == IF b = 0 THEN a ELSE gcd(b, a % b)

\* The ranks of the stages when devices are given out in this sequence.
RanksOf(devs) == [s \in Stages |-> {d - 1 : d \in {e \in DOMAIN devs : devs[e] = s}}]

\* searchAllocationFlat: as many rounds as the greatest common divisor of
\* the replica numbers, each stage in each of them.
searchAllocationFlat(ids) ==
    LET common == FoldLeft(LAMBDA a, b : gcd(a, b.repl), 0, sol)
        round  == FoldLeft(LAMBDA d, s : d \o Copies(sol[s].repl \div common, s), <<>>, ids)
    IN  RanksOf(FlattenSeq(Copies(common, round)))

\* searchAllocationSimple: the stage with the most replicas first.
searchAllocationSimple(ids) == RanksOf(FlattenSeq([i \in DOMAIN ids |-> Copies(sol[ids[i]].repl, ids[i])]))

Descending(ids) == \A i, j \in DOMAIN ids : i < j => sol[ids[i]].repl >= sol[ids[j]].repl

SearchAllocation ==
    /\ pc = "allocate"
    /\ \E ids \in SetToSeqs(Stages) :
          \/ alloc' = searchAllocationFlat(ids)       \* config alloc_repl_flat
          \/ Descending(ids) /\ alloc' = searchAllocationSimple(ids)
    /\ pc' = "deploy"
    /\ UNCHANGED <<model, config, ml, last, matched, merged, names, moves, order,
                   world, grads, sol, dep, file>>

getGraphRanks(s) == IF s = MASTER THEN 0 .. world - 1 ELSE alloc[s]

----------------------------------------------------------------------------
(* Routes                                                                  *)

\* createPartition of MLPartDecomposer.cpp: who returns a value (the model's
\* argument is nobody's), and the connections of stages with one another
\* and with the MASTER.
OutVals == [v \in UNION {sol[s].graph.outs : s \in Stages} \ {GraphInput} |->
                CHOOSE s \in Stages : /\ v \in sol[s].graph.outs
                                      /\ \A t \in Stages : t > s => v \notin sol[t].graph.outs]

createPartition ==
    LET Con(v, s, t) == [value |-> v, src |-> s, dest |-> t]
        Between(t) == {Con(v, OutVals[v], t) : v \in {w \in sol[t].graph.ins \cap DOMAIN OutVals :
                                                        OutVals[w] # t}}
        FromMaster == {Con(GraphInput, MASTER, t) : t \in {s \in Stages : GraphInput \in sol[s].graph.ins}}
        ToMaster   == {Con(v, OutVals[v], MASTER) : v \in {ModelOutput(model)} \cap DOMAIN OutVals}
    IN  UNION {Between(t) : t \in Stages} \cup FromMaster \cup ToMaster

\* chooseRouteType: "" stands for the exception.
chooseRouteType(type, fwd) ==
    CASE type = "BATCH" -> "REDIST"
      [] type = "LOSS"  -> IF fwd THEN "BROADCAST" ELSE "WEIGHTED_REDUCE"
      [] OTHER -> ""

Route(c, from, to, fwd) ==
    [value |-> c.value, src |-> from, dest |-> to, sources |-> getGraphRanks(from),
     dests |-> getGraphRanks(to), type |-> chooseRouteType(guessValueTypes(model)[c.value], fwd)]

sortGraphs_AsListed(routes) == SetToSeqs(Stages)

\* sortGraphs: an order of the stages in which routes go forward.
sortGraphs(routes) ==
    {s \in SetToSeqs(Stages) :
        \A r \in routes : \A i, j \in DOMAIN s : s[i] = r.src /\ s[j] = r.dest => i < j}

BwdRoutes_NoResult(cons) ==
    {Route(c, c.dest, c.src, FALSE) : c \in {d \in cons : d.value \in grads /\ d.dest # MASTER}}

\* Gradients go the way back.
BwdRoutes(cons) == {Route(c, c.dest, c.src, FALSE) : c \in {d \in cons : d.value \in grads}}

\* createDeployment
CreateDeployment ==
    /\ pc = "deploy"
    /\ LET cons == createPartition
           fwd  == {Route(c, c.src, c.dest, TRUE) : c \in cons}
           bwd  == BwdRoutes(cons)
           inner(routes) == {r \in routes : MASTER \notin {r.src, r.dest}}
       IN  IF \E r \in fwd \cup bwd : r.type = ""
           THEN pc' = "bad_route_type" /\ UNCHANGED dep
           ELSE /\ \E f \in sortGraphs(inner(fwd)), b \in sortGraphs(inner(bwd)) :
                      dep' = [graphs |-> [s \in Stages |-> sol[s].graph], alloc |-> alloc,
                              fwd |-> fwd, bwd |-> bwd, fwdOrder |-> f, bwdOrder |-> b]
                /\ pc' = "verify"
    /\ UNCHANGED <<model, config, ml, last, matched, merged, names, moves, order,
                   world, grads, sol, alloc, file>>

\* verifyDeployment
verifyDeployment(d) ==
    \A s \in DOMAIN d.graphs :
        /\ \A v \in d.graphs[s].ins :
              /\ \E r \in d.fwd : r.dest = s /\ r.value = v
              /\ v \in grads => \E r \in d.bwd : r.src = s /\ r.value = v
        /\ \A v \in d.graphs[s].outs :
              /\ \E r \in d.fwd : r.src = s /\ r.value = v
              /\ v \in grads => \E r \in d.bwd : r.dest = s /\ r.value = v

\* RaNNCModule::init saves the deployment (config save_deployment) before it
\* is verified.
Verify ==
    /\ pc = "verify"
    /\ pc' = IF verifyDeployment(dep) THEN "deployed" ELSE "not_verified"
    /\ file' \in {file, [dep |-> dep, world |-> world]}
    /\ UNCHANGED <<model, config, ml, last, matched, merged, names, moves, order,
                   world, grads, sol, alloc, dep>>

----------------------------------------------------------------------------
(* A later job with the saved deployment (config load_deployment)          *)

Restart ==
    /\ pc = "deployed"
    /\ file # NoDeployment
    /\ world' \in Worlds
    /\ sol' = <<>> /\ alloc' = <<>> /\ dep' = NoDeployment
    /\ pc' = "load"
    /\ UNCHANGED <<model, config, ml, last, matched, merged, names, moves, order, grads, file>>

Matches_AnyWorld(state) == TRUE

\* The device memory, which is compared too, is the same.
Matches(state) == state.world = world

Load ==
    /\ pc = "load"
    /\ IF Matches(file)
       THEN /\ dep' = file.dep
            /\ pc' = IF verifyDeployment(file.dep) THEN "deployed" ELSE "not_verified"
       ELSE pc' = "mismatch" /\ UNCHANGED dep
    /\ file' = NoDeployment
    /\ UNCHANGED <<model, config, ml, last, matched, merged, names, moves, order,
                   world, grads, sol, alloc>>

----------------------------------------------------------------------------
(* The view of one rank: filterRoutes and getRoutesByGraph                 *)

GraphsOn(rank) == {s \in DOMAIN dep.graphs : rank \in dep.alloc[s]}

Inner(routes) == {r \in routes : MASTER \notin {r.src, r.dest}}

filterRecvRoutes(routes, rank) == {r \in routes : rank \in r.dests}

filterSendRoutes(routes, rank) == {r \in routes : rank \in r.sources}

filterRoutesByGraph(routes, vals) == {r \in routes : r.value \in vals}

getRoutesByGraph_SwappedBwd(rank, s) ==
    LET g == dep.graphs[s] IN
    [fwdRecv |-> filterRoutesByGraph(filterRecvRoutes(Inner(dep.fwd), rank), g.ins),
     fwdSend |-> filterRoutesByGraph(filterSendRoutes(Inner(dep.fwd), rank), g.outs),
     bwdRecv |-> filterRoutesByGraph(filterRecvRoutes(Inner(dep.bwd), rank), g.ins),
     bwdSend |-> filterRoutesByGraph(filterSendRoutes(Inner(dep.bwd), rank), g.outs)]

getRoutesByGraph(rank, s) ==
    LET g == dep.graphs[s] IN
    [fwdRecv |-> filterRoutesByGraph(filterRecvRoutes(Inner(dep.fwd), rank), g.ins),
     fwdSend |-> filterRoutesByGraph(filterSendRoutes(Inner(dep.fwd), rank), g.outs),
     bwdRecv |-> filterRoutesByGraph(filterRecvRoutes(Inner(dep.bwd), rank), g.outs),
     bwdSend |-> filterRoutesByGraph(filterSendRoutes(Inner(dep.bwd), rank), g.ins)]

----------------------------------------------------------------------------
TensorValues(m) == {GraphInput} \cup {o \in Ops(m) : m.kind[o] # "other"}

DInit == /\ Init
         /\ world \in Worlds
         /\ grads \in {TensorValues(model), TensorValues(model) \ {GraphInput}}
         /\ sol = <<>> /\ alloc = <<>> /\ dep = NoDeployment /\ file = NoDeployment

DEnded == Failed \/ pc \in {"bad_route_type", "not_verified", "deployed", "mismatch"}

DNext == \/ Step /\ UNCHANGED dvars
         \/ RunDp
         \/ SearchAllocation
         \/ CreateDeployment
         \/ Verify
         \/ Restart
         \/ Load
         \/ DEnded /\ UNCHANGED <<vars, dvars>>

DSpec == DInit /\ [][DNext]_<<vars, dvars>>

----------------------------------------------------------------------------
DTypeOK ==
    /\ world \in Worlds
    /\ grads \subseteq GraphInput .. model.n
    /\ \A s \in Stages : sol[s].repl \in 1 .. world
    /\ dep # NoDeployment => /\ DOMAIN dep.alloc = DOMAIN dep.graphs
                             /\ ToSet(dep.fwdOrder) = DOMAIN dep.graphs
                             /\ ToSet(dep.bwdOrder) = DOMAIN dep.graphs

\* Whatever parts and stages the search chose, a deployment comes out: every
\* crossing value has a type that can be routed and verifyDeployment finds
\* a route for every input and output.
Deployable == pc \notin {"bad_route_type", "not_verified"}

\* The deployed stages compute the model.  Run in fwd_graph_order, with
\* nothing but what the routes bring, every stage has the inputs of its
\* operators, each by one route; together they run every operator, and the
\* model's output reaches the MASTER.
ComputesModel ==
    pc = "deployed" =>
        LET Before(s) == {dep.fwdOrder[j] : j \in 1 .. (CHOOSE i \in DOMAIN dep.fwdOrder :
                                                           dep.fwdOrder[i] = s) - 1}
            Holds(s)  == ToSet(dep.graphs[s].nodes) \cup dep.graphs[s].ins
            Routed(s) == {r \in dep.fwd : /\ r.dest = s
                                          /\ \/ r.src = MASTER /\ r.value = GraphInput
                                             \/ r.src \in Before(s) /\ r.value \in Holds(r.src)}
        IN  /\ \A s \in DOMAIN dep.graphs :
                  /\ verifyNodeInputs(model, [dep.graphs[s] EXCEPT !.ins = {r.value : r \in Routed(s)}])
                  /\ \A v \in dep.graphs[s].ins : Cardinality({r \in dep.fwd : r.dest = s /\ r.value = v}) = 1
            /\ UNION {ToSet(dep.graphs[s].nodes) : s \in DOMAIN dep.graphs} = Ops(model)
            /\ \E r \in dep.fwd : /\ r.dest = MASTER /\ r.value = ModelOutput(model)
                                  /\ r.value \in ToSet(dep.graphs[r.src].nodes)

\* No rank serves two stages, no stage is without a rank, and every rank
\* exists in this job, loaded deployments included.
RanksPartitioned ==
    pc = "deployed" =>
        /\ \A s \in DOMAIN dep.alloc : dep.alloc[s] # {} /\ dep.alloc[s] \subseteq 0 .. world - 1
        /\ \A s, t \in DOMAIN dep.alloc : s # t => dep.alloc[s] \cap dep.alloc[t] = {}

\* The ranks agree on who takes part in a route although each of them picks
\* its routes by value name: a route is sent by exactly the ranks of its
\* source stage and received by exactly those of its destination.
RoutesAgree ==
    pc = "deployed" =>
        LET Ranks(f(_, _), r) == {k \in 0 .. world - 1 : \E s \in GraphsOn(k) : r \in f(k, s)}
        IN  /\ \A r \in Inner(dep.fwd) :
                  /\ Ranks(LAMBDA k, s : getRoutesByGraph(k, s).fwdSend, r) = dep.alloc[r.src]
                  /\ Ranks(LAMBDA k, s : getRoutesByGraph(k, s).fwdRecv, r) = dep.alloc[r.dest]
            /\ \A r \in Inner(dep.bwd) :
                  /\ Ranks(LAMBDA k, s : getRoutesByGraph(k, s).bwdSend, r) = dep.alloc[r.src]
                  /\ Ranks(LAMBDA k, s : getRoutesByGraph(k, s).bwdRecv, r) = dep.alloc[r.dest]
=============================================================================
