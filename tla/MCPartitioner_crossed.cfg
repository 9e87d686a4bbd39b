SPECIFICATION Spec
CONSTANTS
  Models <- CrossedModels
  MinPartitionNums = {2}
  MaxPartitionNum = 2
  NumOps = 4
INVARIANT NoFailure
