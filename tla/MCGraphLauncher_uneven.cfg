CONSTANTS
    World = {0, 1, 2}
    MaxLocalRows = 2
    MaxPipelineNum = 4
    Launches <- ForwardLaunches
SPECIFICATION Spec
INVARIANT OwnRowsReturn
CHECK_DEADLOCK FALSE
