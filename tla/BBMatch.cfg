SPECIFICATION Spec
CONSTANTS
    Node <- MCNode
    Programs <- MCPrograms
    MinSize = 2
    MaxAnalyses = 2
INVARIANT InStep
INVARIANT SameShape
INVARIANT ClassesHomogeneous
INVARIANT SimilarFound
INVARIANT NoneContained
INVARIANT AddedAgain
PROPERTY AnalyzeReturns
CHECK_DEADLOCK FALSE
