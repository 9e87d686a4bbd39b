---------------------------- MODULE TorchDriver ----------------------------
(***************************************************************************)
(* How one rank runs its subgraph split by split: TorchDriver::forward and *)
(* backward (torch/TorchDriver.cpp) under the callbacks of GraphConnector, *)
(* over a sequence of training passes and evaluations.                     *)
(*                                                                         *)
(* An input or a parameter that several operators of the subgraph read is  *)
(* given to each of them as a copy of its own (cloneSharedInputs), so that *)
(* their gradients can be summed.  The copies live in buffers that every   *)
(* split and every pass uses again; the copies of one input hold the same, *)
(* and so do those of one parameter.  The module follows one such input    *)
(* and one such parameter: tensors that only one operator reads are not    *)
(* copied.                                                                 *)
(*                                                                         *)
(* An input is identified by the call and the split it belongs to, a       *)
(* parameter by the call after which the optimizer wrote it, a gradient by *)
(* how often it counts each input.                                         *)
(***************************************************************************)
EXTENDS Redist

CONSTANTS Jobs,       \* [replicas, rank, pipeline]: this rank, its fellows, the splits
          BatchSizes, \* rows of a split
          MaxCalls,   \* bound on the calls of the application
          INT32_MAX   \* what no split index reaches

ASSUME DriverAssumption ==
    /\ \A j \in Jobs : /\ j.replicas \in Nat \ {0} /\ j.rank \in 0 .. j.replicas - 1
                       /\ j.pipeline \in 1 .. INT32_MAX
    /\ BatchSizes \subseteq Nat \ {0} /\ MaxCalls \in Nat /\ INT32_MAX \in Nat

VARIABLES job,
          call,       \* the last call of the application: [no, training, rows]
          pc,         \* "app", "forward" or "backward"
          split,      \* the split that comes next
          version,    \* the parameter: the call after which the optimizer wrote it
          driver,     \* the TorchDriver
          inputs,     \* GraphConnector::inputs_: split -> stashed input
          grad,       \* gradient of the parameter
          due,        \* what it has to count
          ran         \* the last run of the subgraph: what it was for and what it used

vars == <<job, call, pc, split, version, driver, inputs, grad, due, ran>>

Nothing == <<0, 0>>

Splits == 0 .. job.pipeline - 1

Items == (1 .. MaxCalls) \X Splits

ZeroGrad == [i \in Items |-> 0]

Plus(f, g) == [i \in DOMAIN f |-> f[i] + g[i]]

NoGraph == [input |-> Nothing, version |-> -1, recorded |-> FALSE]

CheckpointingFor_Deep(pipeline_num) == pipeline_num > 2

\* DPStaging::runDpComm decides it for the deployment.
CheckpointingFor(pipeline_num) == pipeline_num > 1

Checkpointing == CheckpointingFor(job.pipeline)

\* Splits in which this rank has no rows are skipped.
Skip(k) == RankBatchSizes(call.rows, 0 .. job.replicas - 1, k)[job.rank] = 0

Item(k) == <<call.no, k>>

\* createModule
NewDriver == [last_split_idx |-> INT32_MAX,
              copies         |-> -1,                             \* version in the parameter's copies
              copyGrad       |-> ZeroGrad,                       \* their gradients
              shared_in      |-> Nothing,                        \* input in the input's copies
              last_outputs   |-> [k \in Splits |-> NoGraph]]     \* with their autograd graphs

Init == /\ job \in Jobs
        /\ call = [no |-> 0, training |-> FALSE, rows |-> 1]
        /\ pc = "app" /\ split = 0 /\ version = 0
        /\ driver = NewDriver
        /\ inputs = [k \in Splits |-> Nothing]
        /\ grad = ZeroGrad /\ due = ZeroGrad
        /\ ran = NoGraph

----------------------------------------------------------------------------
(* TorchDriver                                                             *)

Restarts_AfterLast(d, k) == k < d.last_split_idx

\* The splits start over: the copies of parameters are made anew.
Restarts(d, k) == k <= d.last_split_idx

\* The copies of the parameter, made anew or as they are, and their gradients.
getParamInputTensors(d, init) ==
    IF init THEN [copies |-> version, copyGrad |-> ZeroGrad]
            ELSE [copies |-> d.copies, copyGrad |-> d.copyGrad]

\* forward: runs split k on an input, recorded for autograd or not.
forward(d, k, input, gradMode) ==
    LET params == getParamInputTensors(d, Restarts(d, k))
    IN  [last_split_idx |-> k,
         copies         |-> params.copies,
         copyGrad       |-> params.copyGrad,
         shared_in      |-> input,
         last_outputs   |-> [d.last_outputs EXCEPT ![k] =
                                [input    |-> input,
                                 version  |-> params.copies,
                                 recorded |-> gradMode]]]

\* What the autograd engine leaves in the gradients of the copies.
AfterEngine(d, k) ==
    LET graph == d.last_outputs[k]
    IN  IF graph.recorded THEN Plus(d.copyGrad, [ZeroGrad EXCEPT ![graph.input] = 1])
                          ELSE d.copyGrad

\* What the engine reads: the graph of the split, and the buffers it was built
\* on, whatever they hold by now.
Differentiated(d, k) ==
    LET graph == d.last_outputs[k]
    IN  [input    |-> IF d.shared_in = graph.input THEN graph.input ELSE Nothing,
         version  |-> IF d.copies = graph.version THEN graph.version ELSE -1,
         recorded |-> graph.recorded]

CopyGradAfter_Kept(sum) == sum

\* Once summed up, the gradients of the copies are zero again.
CopyGradAfter(sum) == ZeroGrad

\* backward: the gradients of the copies are added up, the graph is freed.
backward(d, k) == [d EXCEPT !.copyGrad = CopyGradAfter(AfterEngine(d, k)),
                            !.last_outputs[k] = NoGraph]

----------------------------------------------------------------------------
(* func of GraphConnector::forward and backward                            *)

ForwardSplit ==
    /\ pc = "forward"
    /\ split < job.pipeline
    /\ split' = split + 1
    /\ IF Skip(split)
       THEN UNCHANGED <<driver, inputs, ran>>
       ELSE /\ driver' = forward(driver, split, Item(split), call.training /\ ~Checkpointing)
            /\ inputs' = IF Checkpointing THEN [inputs EXCEPT ![split] = Item(split)] ELSE inputs
            /\ ran' = driver'.last_outputs[split]
    /\ UNCHANGED <<job, call, pc, version, grad, due>>

ForwardEnd ==
    /\ pc = "forward"
    /\ split = job.pipeline
    /\ split' = 0
    /\ pc' = IF call.training THEN "backward" ELSE "app"
    /\ UNCHANGED <<job, call, version, driver, inputs, grad, due, ran>>

\* The driver before backward: with checkpointing it has computed the split
\* again, from what was stashed.
Recomputed(k) == IF Checkpointing THEN forward(driver, k, inputs[k], TRUE) ELSE driver

\* If no gradient arrives for any output, backward returns at once.
BackwardSplit ==
    /\ pc = "backward"
    /\ split < job.pipeline
    /\ split' = split + 1
    /\ IF Skip(split)
       THEN UNCHANGED <<driver, grad, due, ran>>
       ELSE LET d == Recomputed(split)
            IN  \/ /\ driver' = d
                   /\ UNCHANGED <<grad, due, ran>>
                \/ /\ driver' = backward(d, split)
                   /\ grad' = Plus(grad, AfterEngine(d, split))
                   /\ due' = [due EXCEPT ![Item(split)] = 1]
                   /\ ran' = Differentiated(d, split)
    /\ UNCHANGED <<job, call, pc, version, inputs>>

BackwardEnd ==
    /\ pc = "backward"
    /\ split = job.pipeline
    /\ split' = 0
    /\ pc' = "app"
    /\ UNCHANGED <<job, call, version, driver, inputs, grad, due, ran>>

----------------------------------------------------------------------------
(* The application                                                         *)

Call(training, rows) ==
    /\ pc = "app"
    /\ call.no < MaxCalls
    /\ call' = [no |-> call.no + 1, training |-> training, rows |-> rows]
    /\ pc' = "forward"
    /\ UNCHANGED <<job, split, version, driver, inputs, grad, due, ran>>

\* The optimizer's step and zero_grad.
OptimizerStep ==
    /\ pc = "app"
    /\ call.training
    /\ version' = call.no
    /\ grad' = ZeroGrad /\ due' = ZeroGrad
    /\ UNCHANGED <<job, call, pc, split, driver, inputs, ran>>

Next == \/ ForwardSplit \/ ForwardEnd
        \/ BackwardSplit \/ BackwardEnd
        \/ \E training \in BOOLEAN, rows \in BatchSizes : Call(training, rows)
        \/ OptimizerStep

Spec == Init /\ [][Next]_vars

----------------------------------------------------------------------------
\* Every run of the subgraph, recomputation included, reads the parameter as
\* the optimizer left it, although its copies are refreshed only when the
\* split index does not grow and a rank runs only the splits that it has
\* rows in.
RunsOnCurrentParams == pc # "app" /\ ran.input[1] = call.no => ran.version = version

\* The backward pass of a split differentiates this pass's run of this
\* split, recorded by autograd, and the buffers it was given its inputs and
\* parameters in still hold them.
DifferentiatesOwnRun ==
    [][\A k \in Splits :
          pc = "backward" /\ split = k /\ due'[Item(k)] # due[Item(k)] =>
              ran' = [input |-> Item(k), version |-> version, recorded |-> TRUE]]_vars

\* Between calls the gradient of the parameter counts every split that sent
\* a gradient back since zero_grad exactly once.
GradCountsOnce == pc = "app" => grad = due
=============================================================================
