SPECIFICATION Spec
CONSTANTS
    s1 = s1
    s2 = s2
    s3 = s3
    s4 = s4
    s5 = s5
    g1 = g1
    g2 = g2
    g3 = g3
    g4 = g4
    g5 = g5
    g6 = g6
    g7 = g7
    g8 = g8
    d1 = d1
    d2 = d2
    d3 = d3
    d4 = d4
    d5 = d5
    d6 = d6
    NULL = NULL
    Dangling = Dangling
    SGs = {s1, s2, s3}
    NGs = {g1, g2, g3, g4}
    NDs = {d1, d2, d3}
    Nids <- MCNids3
    NBlocks = 3
    Menu = {"combine", "own", "promote"}
    RepeatedNids = FALSE
    SimilarSection = FALSE
INVARIANT HeapSafe
INVARIANT SingleOwner
INVARIANT LookupsCoherent
PROPERTY NoEmptyGroups
PROPERTY Refines
