SPECIFICATION Spec
CONSTANTS
    c1 = c1
    c2 = c2
    m1 = m1
    m2 = m2
    m3 = m3
    v1 = v1
    v2 = v2
    f1 = f1
    f2 = f2
    NULL = NULL
    Bare = Bare
    Choosers = {c1, c2}
    Managers = {m1, m2, m3}
    Views = {v1, v2}
    Funcs = {f1, f2}
    MaxId = 6
SYMMETRY Symmetry
CHECK_DEADLOCK FALSE
INVARIANT ChooserPointersLive
INVARIANT ViewBacked
INVARIANT FlowchartAgrees
INVARIANT MenuReachesView
INVARIANT Released
