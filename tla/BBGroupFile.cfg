SPECIFICATION Spec
CONSTANTS
    NBlocks = 3
    MaxCommands = 4
    Words = {"", "w", "ID", "SG", "orphan_nodes"}
    Names <- MCNames
    Files <- MCFiles
    Results <- MCResults
    NULL = NULL
INVARIANT RoundTrip
INVARIANT Reloadable
PROPERTY SavesTearSafely
PROPERTY EmptiedStaysByRepeat
CHECK_DEADLOCK FALSE
