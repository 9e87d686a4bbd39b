SPECIFICATION Spec
CONSTANTS
    Rank = {0, 1, 2}
    Jobs <- IdleReplicaJobs
    Tag <- RankSetTag
    ga = ga
    gb = gb
    gc = gc
    pa = pa
    pb = pb
    pc = pc
INVARIANTS
    CollectivesAgree
CHECK_DEADLOCK FALSE
