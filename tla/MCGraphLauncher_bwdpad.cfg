CONSTANTS
    World = {0, 1, 2}
    MaxLocalRows = 2
    MaxPipelineNum = 4
    Launches <- BackwardLaunches
SPECIFICATION Spec
INVARIANT OwnRowsReturn
CHECK_DEADLOCK FALSE
