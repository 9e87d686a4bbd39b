# RaNNC in TLA+

RaNNC trains a PyTorch model that does not fit on one GPU. It traces the model,
partitions its graph into subgraphs, allocates every subgraph to a set of MPI
ranks (replicas), and runs forward and backward passes as a pipeline of
micro-batches ("splits") over these ranks. This directory holds TLA+ modules
for the way of a model from its traced graph to a running pipeline - partitioning,
staging, deployment, execution, gradients, parameters - with TLC models of them,
and TLAPS proofs about the row arithmetic, the launcher, the pipeline, the driver,
the gradients, the life cycle of modules and the protocol that deploys them.

## The system

| part | state | operations | hard part |
|---|---|---|---|
| micro-batch arithmetic (`Common.cpp`) | none | cut a batch into splits, a split into the rows of each rank | left-over rows rotate; several loops must agree |
| redistribution (`comm/SComm.cpp`, `NCCLWrapper.cpp`) | current batch size and split index of the rank | `distribute` along a route, `getRedistArgs` | both ends compute counts and displacements on their own |
| `GraphLauncher` | running pass, last batch size, `bwd_running_` | `forward`, `backward`, `compute` | padding, slicing, merging; number of splits |
| `GraphConnector` | buffered split values, stashed inputs and rng states, skip decisions | `compute` of one split: receive, run, send, flush | blocking collectives in an order that must not deadlock; delayed sends |
| deployment (`graph/Decomposition.cpp`, `MLPartDecomposer.cpp`, `DeploymentSerializer.cpp`) | routes, graph orders, allocation, the saved file | `createDeployment`, `searchAllocation*`, `verifyDeployment`, `save`, `load` | each rank picks its routes by value name; a file of another job |
| `ParamStorage` | parameters, owners, ranks, reference counts, communicators | register, deploy, release, all-reduce, scale gradients | parameters shared by graphs, reused ids, order of collectives |
| distributed parameters (`Distributed*Locator`) | segments of a parameter per rank | store, load, fetch protocol | collectives that not all ranks call |
| tags and communicators (`TagMap`, `SComm`, `NCCLWrapper`) | tags handed out, communicators by tag | generate, sync, get | ranks must hand out the same tag for the same thing |
| stage partitioning (`graph/DPStaging.cpp`) | table of the dynamic program | `runDpComm`, `doRunDpComm` | three early exits, one entry per state |
| graph partitioning (`Partitioner`, `MLGraph`, other decomposers) | graph of parts with levels | coarsen, uncoarsen, merge, move | several merges at once, edges kept by hand |
| IR (`graph/ir.cpp`, `GuessValueTypes.cpp`) | graph of operators and values | guess value types, merge, remove, verify | values that cannot cross a boundary are copied |
| `TorchDriver` | copies of shared inputs and parameters, outputs with their autograd graphs | `forward`, `backward` of one split | buffers re-used by all splits and passes |
| `RaNNCModule`, Python front end | deployed modules, hooks | init, call, backward, destroy | order of calls on all ranks |
| tracing, conversion, profiling, configuration | - | translation, measurement | no protocol |

How they interact: the Python module calls `RaNNCModule`, which at the first
call partitions, deploys (`ParamStorage::deploy`, `GraphConnector::deployGraph`)
and then runs every call through `GraphLauncher`. The launcher pads the batch,
computes the splits, sends the rows to the ranks of the first subgraphs (step 1),
calls the connector split by split (step 2), and sends the results back to the
callers (step 3). All communication between ranks is by blocking MPI or NCCL
collectives on communicators that are looked up by the tag of a route; no
message carries a split number or a pass. There is one thread per rank that
communicates; the concurrency is between ranks.

Correctness, part by part:

* arithmetic and redistribution: both ends of every transfer expect the same
  rows; the rows a rank cuts off are the rows taken from it; replicas stay
  balanced;
* launcher: every row comes back to the caller that passed it in;
* connector: ranks that meet in a collective mean the same transfer; no deadlock;
  every split is sent; a split runs after its inputs; the backward pass recomputes
  from the forward pass it belongs to;
* gradients: after an all-reduce every part of every pass counts exactly once,
  in the mixtures of passes, evaluations, accumulation, delay, scaling and sharding
  that the code supports; ranks agree on the order of collectives and on what they bring to them;
  forward passes read parameters that are up to date;
* module life cycle: whatever was deployed, undeployed or cleared before, every
  rank knows where a parameter is and has the communicator for it; nothing stays
  behind; a new partitioning loses no training; the optimizers of the ranks
  together hold every parameter; checkpoints are complete;
* deployment of a model: tags that two ranks have for one set of ranks agree;
  a rank that waits for a broadcast gets the one it waits for; a parameter arrives
  whole; a rank that fails takes the others down with it;
* partitioning: every operator that works on the batch is in one part, parts can run, crossing
  values have edges and routes, no exception, and an end; staging: the plan found
  fits, and none that fits is missed; the deployed stages compute the model;
* driver: a run reads the current parameters and its own inputs although the
  copies live in shared buffers, and a gradient counts once.

## Modules

* **Redist** - pure arithmetic. A tensor is its number of rows (the code
  multiplies every count by the same product of the other dimensions).
  `RankBatchSizes`/`SplitBatchSizes` are the two `getSplitBatchSizes`,
  `LocalSplitBatchSizes` is `getLocalSplitBatchSizes`, `DistBatchRows` is
  `calcDistBatchDims`; `PeerStep` and `WalkPeers` are the loop that
  `getRedistArgsSend` and `getRedistArgsRecv` have in common.
* **GraphLauncher** (uses Redist) - one call of `forward` or `backward` on all
  ranks together, following the identity of every row through padding, slicing,
  redistribution, computation, redistribution and merge. The three loops over
  the splits and the merge are actions. Ranks move in lock step here; their
  interleaving is the subject of Pipeline.
* **Pipeline** (uses Redist) - step 2 of the launcher: every rank has its own
  program counter (`pass`, `split`, `step`, `flush`, `todo`) in
  `GraphConnector::compute`. `Transfer` is the collective: it takes place when
  all ranks of a connection are blocked in `distribute` for it, whatever each
  of them believes to be doing. `RunDriver` is the run of the subgraph with the
  callbacks of `forward`/`backward` (skip, stash, recompute), `Flush`,
  `NextSplit` and `NextPass` the control of the loops. A route is a
  *connection*; the backward route of a connection uses the same communicator in
  the opposite direction. `NextPass` waits where the code does: with
  `gather_inputs` for all ranks (`allReduceMaxBatchSize` at the start of a call),
  otherwise for rank 0 (broadcast at the end of a call).
* **Dataflow** - what Pipeline implements: every rank runs the splits of every
  pass in order, each after all upstream subgraphs ran it.
* **GradSync** (uses Redist) - the gradients of a deployed model over a sequence
  of calls: `forward`, `backward` (`RaNNCTensorBackward::apply` with `scaleGrads`,
  `unscaleGrads`), `allreduce_grads`, `zero_grad`, the global norm, and the step of
  the application's optimizer. Every rank runs the same program (`job.program`) at
  its own pace: `at` is the call, `stage` how far the rank is in it, `turn` its
  place in the walk over the groups of parameters (`sortCommTags`), which
  `allReduceParamGrads` and `bcastParamsZero` share. `ReduceGroup` and `BcastGroup`
  are collectives: they wait until all ranks of the group have come to it. A
  gradient is a table of weights: how often it counts what each rank computed in
  each pass, a fraction. Gradients are scaled unless `skip_grad_scaling` is set,
  which is the default (Config.cpp:121): `GradsAfter` is that guard, at the three
  places that have it. The factors are those of `getDpRatio`, which reads
  `batch_size_`, the size of the last micro-batch the rank happened to run.
  `job` holds the deployment (ranks of each subgraph, users of each parameter) and
  the settings (`pipeline_num`, `delay`, `zero`, `skip_grad_scaling`,
  `sync_allreduce`).
* **ModuleLifecycle** (uses Redist) - `RaNNCModule`s from the first call to
  `clear()`: `FirstCall` (`RaNNCModule::init` with `ParamStorage::deploy` and the
  filter of the optimizer), `TrainingStep`, `StateDict`, `TrainFirst` and `Train`
  (`train()`/`eval()` before and after the first call), `Undeploy`, `Clear`. Every
  rank has its own `ParamStorage` (`store[r]`, a record with the tables of the
  class), indexed by the addresses of its own Python objects; `Id` gives these
  addresses. What the decomposer finds is one of `job.plans`. A parameter is a
  vector of elements, an element the number of optimizer steps in it; `trained`
  is what a single process would have. A call is one action of all ranks: they
  make the same calls, meet in the collectives of each, and touch only their own
  tables in between. Two lookups throw if they come across something an earlier
  deployment left: that of a segment for the optimizer, with zero
  (`LookupMayThrow`; whether it meets the stale locator is a matter of the order in
  an `unordered_map`), and that of a parameter to be scaled (`ScalingThrows`).
  `failed` says that one has thrown, which ends the program. `trained`, `checkpoint` and `inUse` (modules the application
  may still use) are ghosts; `inUse` keeps the application from using a module
  after `undeploy()` or `clear()`.
* **IRGraph** - pure operators on a traced model: operators, the values they read
  and whether a value is a batch, a loss or neither (`guessValueTypes`); graphs as
  parts of the model with `merge`, `removeTailSubgraph`, `removeHeadSubgraph`,
  `verifyNodeInputs`, `findUnusedValue`; the labelling of operators with parts,
  including the copies `fixNonBatchRanks` makes. An operator has one result; the
  model has one argument.
* **MLGraph** (uses IRGraph) - the multi-level graph: `convert`, `mergeNodes`,
  `mergeEdges`, `toLowerLevel`, `isConvex`, `verify`.
* **Partitioner** (uses MLGraph) - `MLPartitioner::partition` step by step: rounds
  of `mergeAdjacents` (`MatchNode`, `EndRound`), `adjustBoundaries` node by node
  (`AdjustNode`), back to the lower level (`AdjustEnd`), `Sort`, `MergeSmall`. What
  the profiler measures only decides between alternatives, and all of them are
  allowed: an eligible pair is merged or not, an improving move is any that is
  possible, nodes come in any order.
* **Staging** - `DPStaging`: one step per cell of `table[s][b][d]`, with the loops
  over `b_prev` and `d_prev` inside (`Cell`, `TryPrev`), the three early exits, the
  loops of `runDpComm` around it and the choice among the solutions. `Allocations`
  is the reference: all cuts and shares. Profiles are linear in the batch; the
  variant without coarsening (`estimateProf`) is left out.
* **MLPartDecomposer** (extends Partitioner) - the way from parts to a deployment:
  `RunDp` chooses stages (any pipeline that `SolutionIsPipeline` of Staging
  allows), `SearchAllocation` ranks, `CreateDeployment` routes and orders, `Verify`,
  `Restart` and `Load` a later job with the saved file.
* **Deploy** - `RaNNCModule::init` on all ranks, each at its own pace, with
  `DistributedParamLocator` and `ParamStorage::deploy`, up to the communicators of
  `GraphLauncher::deployGraph`. A broadcast of rank 0 is buffered in an `inbox`,
  since rank 0 may run ahead; barriers, creation of communicators and all-gathers
  are joint steps. `tagmap` is the `TagMap` of each rank: a table from keys (rank
  sets, routes, sources of routes) to tags, and the tags taken. `Hash` is a
  constant, any function from keys to numbers; MCDeploy has one under which all keys
  collide and one that tells some apart. What a module gets from the decomposer are
  three sequences of routes (`in`, `mid`, `out`) and the users of each parameter;
  `RouteKeys` are the tags `createDeployment` asks for on rank 0, `CommSets` the rank
  sets `deployGraph` asks for on every rank, in its order. Every value is taken to
  have a gradient, hence a route back. `JobsSeparate` names what the code needs to
  deploy parameters correctly.
* **TorchDriver** (uses Redist) - one rank's driver under the callbacks of the
  connector: `ForwardSplit`, `BackwardSplit` with recomputation, the application's
  calls and optimizer steps. It follows one shared input and one shared parameter
  through the buffers their copies live in.
* **MC...** - instances for TLC.
* **Redist_proofs**, **GraphLauncher_proofs**, **Pipeline_proofs**,
  **Pipeline_values_proofs**, **TorchDriver_proofs**, **GradSync_proofs**,
  **ModuleLifecycle_proofs**, **Deploy_proofs** - the proofs, see below.

`transfers` in Pipeline is a history variable; no guard reads it.
Definitions named `X_Something` that precede a definition `X` are mutated forms of
`X`, used to show that the properties notice such a bug.
`TypeOK` of a module is an invariant that can be added to each of its
configurations; `pipeline_replicas` checks Pipeline's, which is also proved.

## Runs

| run | instance | shows |
|---|---|---|
| `launcher_even` | 3 ranks, all placements of first and last subgraph, 1-2 rows per rank, up to 4 splits of one size | slices are shares (`SliceIsShare`), rows come home (`OwnRowsReturn`) |
| `pipeline` | 4 subgraphs on one rank each, every wiring and backward order, 1-3 splits, a forward and a backward pass | `TransferAgreed`, `DelayedValueBuffered`, `AllSplitsSent`; under fairness `AllPassesFinish` (no deadlock) |
| `pipeline_replicas` | subgraphs on 2, 1 and 2 ranks, two values, gradients optional, evaluation before and after training, one-row splits on two replicas | `InputsComplete`, `RowCountsMatch`, `RecomputesOwnForward`, `TypeOK`, no deadlock; refinement `ImplementsDataflow` |
| `grads` | 3 ranks; one subgraph, two, three on overlapping ranks, or three sharing parameters; batches of 3 or 6 rows in 1 or 2 micro-batches; accumulation over two passes with an evaluation between; all-reduce immediate or delayed, with and without zero and `skip_grad_scaling`, in the combinations below | `AllReducedOnce`, `CollectivesAgree`, `NormCountsOnce`, `ForwardUsesCurrent`, `NoCyclicWait` |
| `lifecycle` | 3 ranks, 2 modules with models of their own or taking over one model, 3 parameters of 1-3 elements, four plans (replicated, staged, parameter shared by stages, parameter unused), 2 training steps per module, with and without zero, synchronisation, scaling and `clear()` | `ParamsDeployed`, `NothingLeftBehind`, `NoTrainingLost`, `CheckpointComplete`, `OptimizerComplete` |
| `partition` | every model of 4 tensor operators with at most two inputs each; models of 5-6 operators with a residual path, two towers, a size, a transposed parameter and a loss | `PartsExecutable`, `EdgesFollowValues`, `DemandMet`, `NoFailure`; under fairness `Terminates` |
| `staging` | 3 layers of every small time and activation size, clusters of 1 x 3, 1 x 4, 2 x 2 (and their combinations) devices, two memories, with and without communication | `PruningComplete` and `Optimal` against all allocations, `SolutionIsPipeline` |
| `deployment` | 4 models of 4 operators, 2-4 ranks, all stagings, replicas and allocations, jobs of all sizes loading the file | `Deployable`, `ComputesModel`, `RanksPartitioned`, `RoutesAgree` |
| `deploy` | 3 ranks, 2 parameters of 4 and 5 elements, one or two models, on all ranks or in stages, sharing a parameter, distributed or not, equal, different and exchanged ids, colliding hashes, failure on rank 0 | `TagsAgree`, `BroadcastsMatch`, `ParamsWhole`, `NeverStuck` |
| `driver` | every rank of 1-3 replicas, 1-4 splits, not fewer than replicas, 3 calls (training or evaluation) with 1-3 rows per split | `RunsOnCurrentParams`, `GradCountsOnce`, `DifferentiatesOwnRun` |
| `pipeline_short_batch` (violation) | fewer rows than `pipeline_num` | delayed sends are never flushed |
| `deploy_buffers` (violation) | a model with a buffer | `ParamStorage::deploy` throws on the buffer |

Other instances are kept beside these because the passing runs have to leave
them out; TLC finds the named property violated in each:

| configuration | property | what happens |
|---|---|---|
| `MCGraphLauncher_uneven.cfg` | `OwnRowsReturn` | splits of different sizes: two formulas for a rank's share disagree (Common.cpp:206, 258) and rows are lost |
| `MCGraphLauncher_bwdpad.cfg` | `OwnRowsReturn` | backward call, batches of different sizes: zero padding works in place (TorchUtil.cpp:665) and wipes real gradients |
| `MCGradSync_accumulate.cfg` | `AllReducedOnce` | default settings, accumulation without delay: every rank brings what earlier passes left, and the all-reduce multiplies it by the number of ranks (Backward.cpp:96, Config.cpp:121) |
| `MCGradSync_shared.cfg` | `AllReducedOnce` | the same with scaling, which allows for it, for a parameter of two subgraphs: the shares add up to two (ParamStorage.cpp:414, 623), accumulated gradients double |
| `MCGradSync_uneven.cfg` | `AllReducedOnce` | scaling and delayed all-reduce of passes that the replicas divide differently: the share of the last pass scales all (ParamStorage.cpp:412) |
| `MCGradSync_noshare.cfg` | `AllReducedOnce` | scaling and delayed all-reduce, the last micro-batch has one row for two replicas: one divides its gradients by a share of zero (ParamStorage.cpp:421) |
| `MCGradSync_idle.cfg` | `CollectivesAgree` | three rows, two micro-batches, three replicas: one replica has no gradient and brings a shorter list (ParamStorage.cpp:335) |
| `MCModuleLifecycle_zero.cfg` | `OptimizerComplete` | zero, train - eval - train: the optimizer ends up without parameters (pyrannc/\_\_init\_\_.py:335) |
| `MCModuleLifecycle_shared.cfg` | `NothingLeftBehind` | the model of a second module shares with the first only a parameter that the first one's partitioning does not use: the parameter was unregistered everywhere, so the assertion in `registerParam` (ParamStorage.cpp:176) does not notice, and the reference count becomes 2 |
| `MCModuleLifecycle_scaled.cfg` | `NoLookupFails` | scaling, and training again after an evaluation that had another parameter on a rank: its entry in `my_param_ranks_` is still there, the parameter is not, and `getParamTensor` throws (ParamStorage.cpp:414-418) |
| `MCModuleLifecycle_cleared.cfg` | `NoLookupFails` | zero, `clear()` of a module that was deployed anew after `train()`: `modules_` does not have it any more, so its locator stays, and the lookup of another module's segment may ask it first (ParamStorage.cpp:448-449) |
| `MCPartitioner_crossed.cfg` | `NoFailure` | two values that the same two operators read: two merges of one round, each convex alone, make a cycle (Partitioner.cpp:92) and the sort throws |
| `MCMLPartDecomposer_size.cfg` | `Deployable` | a later part reads the size of the model's argument: the argument becomes an output of the first stage (Decomposition.cpp:297), gets no route (MLPartDecomposer.cpp:33), and `verifyDeployment` throws |
| `MCTorchDriver_few.cfg` | `RunsOnCurrentParams` | fewer splits than replicas and batches of 6 and 4 rows in 2 splits on 4 replicas: a rank runs split 0 of one pass and only split 1 of the next, whose index is larger, so the copies of a shared parameter are not refreshed (TorchDriver.cpp:328) and the pass uses parameters from before the optimizer's step |

Bounds. Four subgraphs give delays 0, 1 and 2, three splits give full, partly
postponed and flushed sends; one forward and one backward pass give the change
of direction on the shared communicators. Two replicas with one row exercise
skipped splits and missing values. Three ranks with up to four splits give all
remainders of the row arithmetic. Splits of one size are required where the runs
expect a pass: the violations show what happens otherwise.

In GradSync three ranks are enough for overlapping groups (a rank in two groups
whose other members differ) and for a cycle of three groups of two, the shortest
cyclic wait. Programs have up to eleven calls: two accumulated passes, the use of
the gradient, and a pass after it, which shows that nothing is left over. 3 and 6
rows give equal and unequal shares. With the default, `skip_grad_scaling`, the jobs
are all placements, with and without zero, with one pass per all-reduce or a delayed
all-reduce of two passes, and shares may be unequal (`DefaultJobs`). With scaling
they are accumulation without delay (`ImmediateJobs`), zero (`ZeroJobs`), and a
delayed all-reduce with equal shares (`DelayedJobs`).

In ModuleLifecycle the addresses of rank 1 are those of rank 0 for other
parameters, so a missing translation hits a wrong parameter; three elements on
two and one element on three ranks give short and empty segments; a module is
deployed up to three times (twice for training, once for evaluation, each time
with another plan), with deployments and a `clear()` of the other module between.

In Partitioner four operators are the fewest that `coarsen` merges at all (it
stops at three parts); `Deep` has six, which gives two levels and a way back.
Staging needs three layers on three or four devices for every early exit to
happen after a skipped device count and for a solution to be missed if it were
wrong. In Deploy three ranks give rank sets with and without rank 0, 4 and 5
elements give short last segments; `TagUB` leaves room for all keys. Three calls
in TorchDriver give a pass, a step of the optimizer and a pass, with an
evaluation before, between or after; three replicas with left-over rows
give every pattern of splits that a rank runs.

What the passing runs leave out, because the code does not support it:

* splits of different sizes (`MCGraphLauncher_uneven.cfg`; in the pipeline a delayed send
  would also count its rows with `batch_size_` of the current split,
  SComm.cpp:443) and batches with fewer rows than `pipeline_num`
  (`pipeline_short_batch`);
* with `gather_inputs=False`, nothing pads the batch as `compute` assumes
  (GraphLauncher.cpp:132-133); the runs take the batch as it is;
* in GradSync, accumulation without delay, which the FAQ advises against
  (documents/faq.rst:33-38) but nothing prevents: with the default settings
  (`MCGradSync_accumulate.cfg`), with scaling for shared parameters
  (`MCGradSync_shared.cfg`) and with zero (the segments a rank does not own
  keep its own part of earlier passes, which the next reduce adds again); scaling
  with a delayed all-reduce and shares that differ (`MCGradSync_uneven.cfg`) or are
  zero (`MCGradSync_noshare.cfg`); replicas without a row
  (`MCGradSync_idle.cfg`); the global norm with zero (ParamStorage.cpp:550-559 takes
  the norm of whole gradients, of which only the own segment is reduced);
* in ModuleLifecycle, a second training deployment with zero
  (`MCModuleLifecycle_zero.cfg`) or with a partitioning other than the first
  (the optimizer of a rank has lost the parameters it did not hold before);
  scaling with a partitioning for evaluation that has other parameters on a rank
  than the one for training (`MCModuleLifecycle_scaled.cfg`); zero with `clear()` and
  a module deployed more than once or taken over (`MCModuleLifecycle_cleared.cfg`);
  `sync_params_on_init(False)` with a partitioning that changes (ranks would keep
  their old copies); two modules on one model at a time (`registerParam` asserts
  against it);
* in Partitioner, models in which two values are read by the same two operators
  with nothing between (`MCPartitioner_crossed.cfg`), and in MLPartDecomposer those
  that need the size of the argument in a later part (`MCMLPartDecomposer_size.cfg`);
* in Deploy, buffers (`deploy_buffers`); distributed parameters that not all ranks
  use, whose `load` is an all-gather that the others never join
  (ParamStorage.cpp:678); parameter ids exchanged between ranks together with a second
  module, where `remove` erases the entry of another parameter
  (DistributedParamLocatorBase.cpp:43); tags of routes in a deployment that was
  loaded from a file;
* in TorchDriver, fewer splits than replicas (`MCTorchDriver_few.cfg`) and splits of
  different sizes in one pass.

What stays behind. `NothingLeftBehind` is about all tables of `ParamStorage` but two.
`tag_rank_set_` keeps the rank sets on purpose, together with their communicators.
`my_param_ranks_` is written by `deploy` and erased by `clear()` only
(ParamStorage.cpp:847-851, 872-883): an entry of an undeployed module stays, and so
does one of a parameter that the next partitioning places elsewhere. With the default
settings nothing reads such an entry; with scaling something does, which is why the property
also says that no call has failed. A locator that `clear()` left (it does not clear
`zero_grad_locators_`, ParamStorage.cpp:854-870) stays until its module is
undeployed or deleted; `__del__` undeploys it, so a program that deletes a module
before it makes the next one never meets it.

Fairness: `WF_vars(Next)` only, i.e. the system does not stop while some rank
can move: a rank that is not blocked runs on and a collective that all its ranks
called completes. In Partitioner, a sequential program, it says that the program
runs on (`RunsOn`, the same formula in a form that is cheap to evaluate). Runs that
switch deadlock checking off do so because the program ends or the application
may stop (`launcher_even`, `grads`, `lifecycle`, `driver`) or because
`AllPassesFinish` is the stronger statement (`pipeline`). GradSync and Deploy need no
fairness: every step brings a rank further in a finite program, so that calls
return is the invariant `NoCyclicWait`, or `NeverStuck`.

## Proofs

Every theorem is about every number of ranks, subgraphs, splits, rows, parameters
and calls; the constants are restricted only by the assumptions named in the
modules that declare them.

| theorem | states | hypothesis beside `Spec` |
|---|---|---|
| `Pipeline_proofs!TypeCorrect` | `[]TypeOK` | |
| `Pipeline_proofs!DelayedSendsFindTheirValue` | `[]DelayedValueBuffered` | |
| `Pipeline_proofs!TransfersAgree` | `[]TransferAgreed` | `FlushReached` |
| `Pipeline_proofs!NothingLeftUnsent` | `[]AllSplitsSent` | `FlushReached` |
| `Pipeline_proofs!PipelineImplementsDataflow` | `ImplementsDataflow` | `FlushReached` |
| `Pipeline_values_proofs!InputsAlwaysComplete` | `[]InputsComplete` | `FlushReached`, `BackwardFollowsForward` |
| `Pipeline_values_proofs!BackwardRecomputes` | `[]RecomputesOwnForward` | `FlushReached`, `BackwardFollowsForward` |
| `GraphLauncher_proofs!SlicesMatch` | `[](SplitsEven => SliceIsShare)` | |
| `TorchDriver_proofs!CurrentParams` | `[]RunsOnCurrentParams` | `SplitsForAll` |
| `TorchDriver_proofs!CountsOnce` | `[]GradCountsOnce` | `SplitsForAll` |
| `TorchDriver_proofs!OwnRunDifferentiated` | `DifferentiatesOwnRun` | `SplitsForAll` |
| `GradSync_proofs!DeadlockFree` | `[]NoCyclicWait` | |
| `GradSync_proofs!SameGradients` | `[]CollectivesAgree` | `EveryoneWorks` |
| `GradSync_proofs!CurrentParameters` | `[]ForwardUsesCurrent` | |
| `ModuleLifecycle_proofs!DeployedAsPlanned` | `[]ParamsDeployed` | `SharedParameterUsed` |
| `ModuleLifecycle_proofs!AllReleased` | `[]NothingLeftBehind` | `SharedParameterUsed`, `ClearedWithoutZero`, `ScalingKeepsParams` |
| `ModuleLifecycle_proofs!OptimizersCover` | `[]OptimizerComplete` | `SharedParameterUsed`, `TrainsOneWay` |
| `ModuleLifecycle_proofs!TrainingKept` | `[]NoTrainingLost` | `SharedParameterUsed`, `TrainsOneWay`, `sync_on_init` |
| `ModuleLifecycle_proofs!CheckpointsAreComplete` | `[]CheckpointComplete` | `SharedParameterUsed`, `TrainsOneWay`, `sync_on_init` |
| `Deploy_proofs!TagsAlwaysAgree` | `[]TagsAgree` | |
| `Deploy_proofs!BroadcastsAlwaysMatch` | `[]BroadcastsMatch` | `JobsSeparate` |
| `Deploy_proofs!ParamsAlwaysWhole` | `[]ParamsWhole` | `JobsSeparate` |

The hypotheses are the conditions under which the code works. A configuration in
parentheses shows the property violated where the condition fails.

* `FlushReached`: every batch has at least `pipeline_num` rows
  (`pipeline_short_batch`).
* `BackwardFollowsForward`: a backward pass comes right after a forward pass of as
  many rows, which is how autograd calls it.
* `SplitsEven`: with `gather_inputs`, the micro-batches of a launch are equally
  large (`MCGraphLauncher_uneven.cfg`).
* `SplitsForAll`: no more replicas than splits (`MCTorchDriver_few.cfg`).
* `EveryoneWorks`: every replica has rows in every backward pass
  (`MCGradSync_idle.cfg`).
* `SharedParameterUsed`: if two modules have parameters in common, every
  partitioning uses one of these (`MCModuleLifecycle_shared.cfg`). Modules on one
  model satisfy it; taking a model over after `undeploy()` or `clear()` is allowed.
* `ClearedWithoutZero`: with zero the application does not call `clear()`, and every
  module has a parameter (`MCModuleLifecycle_cleared.cfg`). The run also has jobs
  with zero and `clear()` of modules deployed once; these are only model-checked.
* `ScalingKeepsParams`: if gradients are scaled, no partitioning of a module has a
  parameter on a rank that one of its partitionings for training does not
  (`MCModuleLifecycle_scaled.cfg`). The default, `skip_grad_scaling`, satisfies it.
* `TrainsOneWay`: a module is deployed for training once or, without zero, always
  with the same partitioning (`MCModuleLifecycle_zero.cfg`); deployments for
  evaluation in between are free.
* `sync_on_init`: the default (ParamStorage.cpp:173). `lifecycle` also has jobs
  without it whose partitioning stays the same; these are only model-checked.
* `JobsSeparate`: the modules of a job share no parameter; a distributed parameter
  is used on all ranks (otherwise `load`, an all-gather of all ranks, is called by
  some of them only, ParamStorage.cpp:678); and an id means the same parameter on
  all ranks or there is one module only (otherwise `remove` erases the entry of
  another parameter, DistributedParamLocatorBase.cpp:43). Both instances of Deploy
  satisfy it, which TLC evaluates (`SeparateAssumption` of MCDeploy).
* All theorems about Deploy rest on `DeployAssumption`: types, and that there are
  at least as many tags as keys, without which `TagMap::generate` does not return.

**Pipeline.** `TypeOK` with `ControlState` (where a rank can be in `compute`, and
that every split up to its current one is buffered) is inductive and gives the
first two. For the others, `Served(r, c)` computes from rank r's program counter
alone how many transfers via c it has been through in its pass. `TransfersCounted`
says that for every rank of c this equals the number of transfers that took
place. It is inductive: a transfer takes place only when all ranks of c wait in
it, which moves each of them on by one; the other steps of a rank leave
`Served` unchanged, which is where delay, postponed sends and flush have to fit
together. Two ranks that meet in a collective therefore agree on the number of
the transfer, hence on the split, and, since an earlier pass counts
`pipeline_num` transfers, on the pass. That a rank which finished a pass has
`Served = pipeline_num` is `NothingLeftUnsent`, and an input received for split k
means that k + 1 transfers took place, hence that the sources ran split k, which
is the refinement.

**Values in the pipeline.** A collective delivers nothing when no source rank has
a value, and a subgraph with a missing input is skipped without an error. So
`InputsComplete` is a question about rows: `ValueInv` says that a rank which has
run a split holds outputs of it exactly if the arithmetic gives it rows there,
that every route it has been through delivered, and that each backward pass finds
for each split what the forward pass before it recorded. `SomeoneHasRows`
(Redist_proofs) gives every subgraph a rank with rows in every split of at least
one row. `ValueInv` needs `CountInv`: which split the source means is known from
the count of transfers only.

**Row arithmetic.** `Redist_proofs` holds the lemmas: what a rank's place in its
rank set is, that a share is `CeilDiv` of what is left behind the rank's place on
the circle (`ShareOf`), who has rows, and that the loop of
`getLocalSplitBatchSizes` is determined by its recurrence (`OffsetsUnique`; the
recursive function is compared with a closed form by looking at the least index
where they differ). `SlicesMatch` is the comparison of the two formulas for a
rank's rows, one with a running offset, one with a rotation by the split's index.

**TorchDriver.** `IInv` consists of `CopiesInv` (which version and which inputs the
buffers of copies hold, as a function of the last split that ran), `StashInv`
(what forward left for each split of the call), `GradInv` (the gradient plus what
sits in the copies equals what is due) and `RanInv`. The delicate part is that the
driver renews copies only when the split index does not grow. With a split for
every replica the rotation gives a rank, in every pass, rows in some split up to its
own place and in some split from there on (`WorksLate`, Redist_proofs). So the index
a pass leaves behind is at least the place, the first one of the next pass at most,
and that one renews the copies.

**GradSync.** `SyncInv` says where each rank can be in its program and that ranks
leave a collective together: if one rank of a group has left the group's
collective of a call behind, all have (`GroupsTogether`), and likewise for barriers
and norms. `NoCyclicWait` alone is far from inductive; with `SyncInv` it follows by
taking the hindmost rank, first by call, then by turn in `sortCommTags`: whoever it
waits for would be further behind. This uses that every rank sorts the groups in
the same order, from `TagAssumption` (different rank sets have different tags).
`DefinedInv` says that a gradient is defined on a rank from its first
backward pass on, so ranks that stand in the same call bring the same list.
`ParamInv` says that an owner's segment always holds all optimizer steps before
the rank's current call, and the rest of the group from its broadcast to the end
of the forward pass. It needs `SyncInv`, because ranks of a broadcast are in the same call
only by `GroupsTogether`.

**ModuleLifecycle.** A call of one module must find and leave the tables of all
others intact, in a `ParamStorage` keyed by addresses that mean different
parameters on different ranks. `LifeInv` says that the tables of every rank are
determined by the modules in use and their plans: for every parameter of such a
module they have exactly one reference, its ranks, both translations of its id and
either its tensor or its unused mark (`Entered`), and they have nothing more
(`NothingElse`); a rank set that has a tag has a communicator. The release of a
module counts down its ids, the unused ones through both translations, so it
removes exactly its own entries; a first call finds none of its ids because models
of modules in use are disjoint, which the assertion of `registerParam` enforces
as long as `SharedParameterUsed` holds. The lemmas take the operations of
`ParamStorage` table by table (`AsRegistered`, `AsDeployed`, `AsUnregistered`,
`AsReleased`). `LookupInv` is about the two tables that releases and `clear()` do not
empty: locators belong to modules in use, and what `my_param_ranks_` has of a module
on a rank is within what each of its plans for training gives that rank
(`SharesFit`), so no lookup fails. `OptimizerInv` says what the optimizers have before and after the
first training deployment. `OneOwner`, that the segments of any number of
elements on any number of ranks are a partition, gives `OptimizersCover`.
`ValueInv` says where the training of a parameter is: on rank 0 while no rank
holds it, otherwise on its holders, with zero on the owners of its segments.
`Collected` and `Synced` are what `bcastParamsZero` and `_sync_orig_params` make of
that, and every other call hands parameters over or gives them up (`ValuesKept`).

**Deploy.** No two ranks need be at the same place, and rank 0 may be several
broadcasts ahead, so relating ranks pairwise leads nowhere. Instead every rank is
compared with a run of the program that exists only on paper: `M[n][o]` is what
`TagMap` holds on rank 0 at place `o` of module `n` (`Canon`: each place asks for
its key, nothing else). `RankOK` says that a rank at a place holds the paper run's
table there, or, other than rank 0, the part of it about rank sets, and the tags
taken; `TagMap::sync` is where the tags of the routes, which rank 0 makes alone, are
made up for, before the next tag is asked for. The paper run only adds tags, and
gives different keys different tags, so any two ranks agree: `TagsAgree`. What
rank 0 has sent and a rank has not received is a `Path`: message by message, it
leads from the broadcast this rank comes to next to the one rank 0 comes to next,
where `After` is the program's order of broadcasts. `BroadcastsMatch` reads off the
first message of the path. A rank may reach such a place only through collectives
that all ranks pass together, and joint steps keep this because their
members ask the paper run for the same key. `Core` collects these facts; it is
inductive for any job, so tags agree also where `JobsSeparate` fails and some rank
gets stuck.

For the parameters `Deep` adds what each rank's locator and storage hold. The
ranks hold segments of the same parameters, each its own, until all load one for
the last time together (`Gathered` then is the whole tensor: element k of a parameter is element
`1 + (k - 1) % size` of segment `(k - 1) \div size`, whatever padding the last
segments have); a parameter passed in the loop of `ParamStorage::deploy` has its
final value on the ranks that use it; and ranks between the same two joint steps
are in the same module. An id rank 0 fetches is then known on every rank, which is
the remaining part of `BroadcastsMatch`, and a rank that is done with a module has
whole parameters, equal on all of them: `ParamsWhole`.

Only model-checked:

* liveness under fairness (`AllPassesFinish`, `Terminates`);
* what adds up rows or fractions over sets of ranks with folds: `OwnRowsReturn`,
  `RowCountsMatch`, `AllReducedOnce`, `NormCountsOnce`;
* what Staging, Partitioner and MLPartDecomposer compute: folds, transitive
  closures and recursion over data of any size, whose induction is out of the
  prover's reach;
* `NeverStuck` of Deploy, which says with ENABLED that some rank can go on;
* the two properties that TLC finds violated, which are false.

## Not modelled

Tensor contents other than the identity of rows; losses (scalars that are
broadcast and weighted), lists and tuples of tensors; several subgraphs of one
deployment on the same rank (the default decomposer allocates disjoint ranks);
AMP master parameters, consolidation of gradients (`GradConsolidation`, the same
scaling and collectives on a copy) and the factor `clipGradNorm` multiplies by;
exceptions inside a collective call, after which the other ranks wait, and with
them the flag that refuses a second backward pass; `load_state_dict` of a deployed
module (it needs an attribute that nothing sets; the documentation allows it only
before the first call); `keep_graph`; the alias of a shared input that is also an
output (ir.cpp:517: the connector would send a buffer that the next split
overwrites).

Also left out: the decomposers FairWeight, ProfiledWeight and Scheduling with
their balancers, which a configuration may choose instead of the default one;
operators with several results; the profiler itself (its results are free
choices in Partitioner and numbers in Staging); whether the estimate of memory is
right (`getOptMemSize` divides the optimizer's state among replicas with and
without zero, ir.cpp:609); execution of subgraphs by libtorch; tracing and the
conversion between TorchScript and the IR; logging, configuration, event recording.

## Plan

1. Done: micro-batch arithmetic, launcher, pipeline, dataflow refinement, proofs
   about the pipeline.
2. Done: gradient scaling, all-reduce, sharding with zero; parameters and the life
   cycle of modules.
3. Done: distributed parameters, tags and communicators, the protocol of `init`.
4. Done: partitioning, staging against brute force, creation, verification and
   reloading of deployments; the driver's buffers.
5. Done: proofs about Redist, GraphLauncher, Pipeline, TorchDriver, GradSync,
   ModuleLifecycle and Deploy, as listed above.
6. Left: a composition of TorchDriver and Pipeline for values that a delayed send
   shares with a buffer; that MLPartDecomposer's deployments satisfy `DeploymentOK`
   of Pipeline; the other decomposers.
