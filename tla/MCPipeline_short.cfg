CONSTANTS
    Rank = {0, 1, 2}
    Alloc <- ThreeRanks
    Vals = {1}
    NumSplits = {4}
    GradKinds = {TRUE}
    Checkpointing = TRUE
    Gather = {TRUE}
    Deployments <- FedDeployments
    Passes <- ShortBatch
SPECIFICATION Spec
INVARIANT AllSplitsSent
