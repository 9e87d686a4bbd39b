SPECIFICATION Spec
CONSTANTS
    Rank = {0, 1, 2}
    Module = {m1, m2}
    Param = {p1, p2, p3}
    Id <- ThreeIds
    numel <- FewElements
    Jobs <- SharedUnusedJobs
    MaxSteps = 2
    m1 = m1
    m2 = m2
    p1 = p1
    p2 = p2
    p3 = p3
    sa = sa
    sb = sb
INVARIANTS
    NothingLeftBehind
CHECK_DEADLOCK FALSE
