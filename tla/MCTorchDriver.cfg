SPECIFICATION Spec
CONSTANTS
  Jobs <- EnoughSplits
  BatchSizes = {1, 2, 3}
  MaxCalls = 3
  INT32_MAX = 2147483647
INVARIANTS RunsOnCurrentParams GradCountsOnce
PROPERTY DifferentiatesOwnRun
CHECK_DEADLOCK FALSE
