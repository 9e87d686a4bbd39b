SPECIFICATION DSpec
CONSTANTS
  Models <- MCModels
  MinPartitionNums = {2}
  MaxPartitionNum = 2
  Worlds = {2, 3, 4}
INVARIANTS Deployable ComputesModel RanksPartitioned RoutesAgree
