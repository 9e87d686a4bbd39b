CONSTANTS
    Rank = {0, 1, 2, 3}
    Alloc <- SingleRanks
    Vals = {1}
    NumSplits = {1, 2, 3}
    GradKinds = {TRUE}
    Checkpointing = TRUE
    Gather = {TRUE}
    Deployments <- FedDeployments
    Passes <- OneIteration
SPECIFICATION FairSpec
INVARIANTS
    TransferAgreed
    DelayedValueBuffered
    AllSplitsSent
PROPERTIES
    AllPassesFinish
CHECK_DEADLOCK FALSE
