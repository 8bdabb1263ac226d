SPECIFICATION Spec
CONSTANTS
    NBlocks = 3
    Names = {1}
    Mentioned <- AllBlocks
    Commands = {"toggle", "clear", "jump", "highlight", "search", "similar", "merge", "switch", "combine", "current", "load"}
CHECK_DEADLOCK FALSE
INVARIANT IdsDisplayed
INVARIANT HighlightIteratorValid
