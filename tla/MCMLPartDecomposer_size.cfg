SPECIFICATION DSpec
CONSTANTS
  Models <- InputSizeModels
  MinPartitionNums = {2}
  MaxPartitionNum = 2
  Worlds = {2, 3, 4}
INVARIANT Deployable
