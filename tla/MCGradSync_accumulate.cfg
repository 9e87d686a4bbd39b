SPECIFICATION Spec
CONSTANTS
    Rank = {0, 1, 2}
    Jobs <- AccumulateJobs
    Tag <- RankSetTag
    ga = ga
    gb = gb
    gc = gc
    pa = pa
    pb = pb
    pc = pc
INVARIANTS
    AllReducedOnce
CHECK_DEADLOCK FALSE
