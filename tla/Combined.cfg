SPECIFICATION Spec
CONSTANTS
    g1 = g1
    g2 = g2
    NULL = NULL
    NGs = {g1, g2}
    NBlocks = 3
    Nids <- MCNids4
CHECK_DEADLOCK FALSE
INVARIANT IdsDense
INVARIANT FinishedIsQuotient
INVARIANT FailedIsPrefix
