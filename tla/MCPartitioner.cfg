SPECIFICATION Spec
CONSTANTS
  Models <- MCModels
  MinPartitionNums = {2, 3}
  MaxPartitionNum = 2
  NumOps = 4
INVARIANTS PartsExecutable EdgesFollowValues DemandMet NoFailure 
PROPERTY Terminates
