SPECIFICATION Spec
CONSTANTS
  Jobs <- FewSplits
  BatchSizes = {2, 3}
  MaxCalls = 3
  INT32_MAX = 2147483647
INVARIANT RunsOnCurrentParams
CHECK_DEADLOCK FALSE
