CONSTANTS
    Rank = {0, 1, 2, 3, 4}
    Alloc <- TwoReplicas
    Vals = {1, 2}
    NumSplits = {2}
    GradKinds = {TRUE, FALSE}
    Checkpointing = TRUE
    Gather = {FALSE}
    Deployments <- SecondValueDeployments
    Passes <- EvaluateThenTrain
SPECIFICATION Spec
INVARIANTS
    TypeOK
    InputsComplete
    RowCountsMatch
    RecomputesOwnForward
PROPERTIES
    ImplementsDataflow
