CONSTANTS
    World = {0, 1, 2}
    MaxLocalRows = 2
    MaxPipelineNum = 4
    Launches <- EvenLaunches
SPECIFICATION Spec
INVARIANTS
    SliceIsShare
    OwnRowsReturn
CHECK_DEADLOCK FALSE
