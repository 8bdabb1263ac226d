SPECIFICATION Spec
CONSTANTS
    NBlocks = 2
    Names = {1}
    Mentioned <- AllBlocks
    Commands = {"toggle", "jump"}
CHECK_DEADLOCK FALSE
INVARIANT JumpsInside
