SPECIFICATION Spec
CONSTANTS
    Node <- MCNode
    Programs <- MCPrograms
    MinSize = 2
    MaxAnalyses = 2
INVARIANT NonOverlapping
CHECK_DEADLOCK FALSE
