SPECIFICATION Spec
CONSTANTS
  Inputs <- MCInputs
  Layers = {3}
  MaxTime = 2
  MaxAct = 2
  Comms = {0, 1}
  Batches = {4}
  Clusters <- MCClusters
  Mems = {6, 9}
  BwdFactor = 2
  OptParamFactor = 2
  MinPipeline = 1
  MaxPipeline = 2
  MinPipelineBs = 1
  LimitDevNumPot = TRUE
  LimitDevNumMoreThanBs = TRUE
INVARIANTS PruningComplete Optimal SolutionIsPipeline
