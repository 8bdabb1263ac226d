SPECIFICATION Spec
CONSTANTS
    NBlocks = 3
    Names <- MCNames
    Mentioned = {1, 2}
    Commands = {"select_all", "highlight", "toggle", "switch", "combine", "edit"}
CHECK_DEADLOCK FALSE
INVARIANT TypeOK
INVARIANT GroupIdsCurrent
INVARIANT TitlesCurrent
PROPERTY FocusFollows
