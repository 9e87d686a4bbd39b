SPECIFICATION Spec
CONSTANTS
    Rank = {0, 1, 2}
    Jobs <- TrainingJobs
    Tag <- RankSetTag
    ga = ga
    gb = gb
    gc = gc
    pa = pa
    pb = pb
    pc = pc
INVARIANTS
    AllReducedOnce
    CollectivesAgree
    NormCountsOnce
    ForwardUsesCurrent
    NoCyclicWait
CHECK_DEADLOCK FALSE
