------------------------ MODULE CombinedGraphProofs ------------------------
(* Theorems about CombinedGraph, for every flowchart and every grouping. *)
EXTENDS CombinedGraph, FiniteSetTheorems, FunctionTheorems, TLAPS

\* The lookups agree with the groups (Init chooses them so).
LocInv ==
    \A n \in Blocks : IF loc[n] = NULL THEN \A g \in NGs : n \notin content[g]
                      ELSE loc[n] \in NGs /\ n \in content[loc[n]]

\* The pairs (block, successor) the walk has been through.
Visited(a, b) == b \in succ[a] /\ (a < nid \/ (pc = "edges" /\ a = nid /\ b \notin pending))

\* The groups of what was visited have ids.
MetInv ==
    pc # "failed" => /\ \A a \in Blocks : a < nid => loc[a] \in DOMAIN group2id
                     /\ pc = "edges" => nid < NBlocks /\ loc[nid] \in DOMAIN group2id
                     /\ \A a, b \in Blocks : Visited(a, b) => loc[a] \in DOMAIN group2id
                                                              /\ loc[b] \in DOMAIN group2id

\* The edges are those of the pairs that were visited.
EdgesInv ==
    pc # "failed" =>
      \A e : e \in edges <=> \E a, b \in Blocks : /\ Visited(a, b) /\ loc[a] # loc[b]
                                                 /\ e = <<group2id[loc[a]], group2id[loc[b]]>>

PendingInv == pc = "edges" => pending \subseteq succ[nid]

\* The invariant: the properties themselves, and what links ids, edges and the
\* progress of the walk.
Inv == /\ TypeOK /\ IdsDense /\ LocInv /\ MetInv /\ EdgesInv /\ FailedIsPrefix
       /\ PendingInv /\ (pc = "ok" => nid = NBlocks)

-----------------------------------------------------------------------------
\* The ids of the groups met are finitely many.
LEMMA DomainFinite == TypeOK => IsFiniteSet(DOMAIN group2id) /\ NextId \in Nat
BY GraphAssumption, FS_Subset, FS_CardinalityType DEF TypeOK, NextId

\* The initial state.
LEMMA InvInit == Init => Inv
<1> SUFFICES ASSUME Init PROVE Inv
  OBVIOUS
<1>1. DOMAIN group2id = {} /\ group2id \in [{} -> Nat] /\ NBlocks \in Nat /\ node_count \in Nat
  BY GraphAssumption, FS_CardinalityType DEF Init, node_count
<1>2. TypeOK
  BY <1>1 DEF Init, TypeOK
<1>3. IdsDense
  BY <1>1, FS_EmptySet DEF Init, IdsDense
<1>4. LocInv
  <2> SUFFICES ASSUME NEW n \in Blocks
               PROVE  IF loc[n] = NULL THEN \A g \in NGs : n \notin content[g]
                      ELSE loc[n] \in NGs /\ n \in content[loc[n]]
    BY DEF LocInv
  <2>1. IF \E g \in NGs : n \in content[g]
        THEN loc[n] \in NGs /\ n \in content[loc[n]] ELSE loc[n] = NULL
    BY DEF Init
  <2>2. NULL \notin NGs
    BY GraphAssumption
  <2>3. CASE \E g \in NGs : n \in content[g]
    BY <2>1, <2>2, <2>3
  <2>4. CASE ~\E g \in NGs : n \in content[g]
    BY <2>1, <2>4
  <2> QED BY <2>3, <2>4
<1>5. \A a, b \in Blocks : ~Visited(a, b) /\ ~(a < nid)
  <2>1. nid = 0 /\ pc = "group" /\ \A a \in Blocks : a \in Nat
    BY <1>1 DEF Init, Blocks
  <2> QED BY <2>1 DEF Visited
<1> QED BY <1>2, <1>3, <1>4, <1>5 DEF Init, Inv, MetInv, EdgesInv, FailedIsPrefix, PendingInv

\* get_groupid() gives n's group an id and changes no other.
LEMMA GroupIdStep ==
  ASSUME TypeOK, IdsDense, NEW n \in Blocks, loc[n] \in NGs, get_groupid(n)
  PROVE  /\ DOMAIN group2id' = DOMAIN group2id \cup {loc[n]}
         /\ \A g \in DOMAIN group2id : group2id'[g] = group2id[g]
         /\ group2id' \in [DOMAIN group2id' -> Nat] /\ node_map' \subseteq Nat
         /\ IdsDense'
<1>1. CASE loc[n] \in DOMAIN group2id
  <2>1. group2id' = group2id /\ node_map' = node_map
    BY <1>1 DEF get_groupid
  <2>2. IdsDense'
    BY <2>1 DEF IdsDense, node_count
  <2>3. DOMAIN group2id \cup {loc[n]} = DOMAIN group2id
    BY <1>1
  <2> QED BY <2>1, <2>2, <2>3 DEF TypeOK
<1>2. CASE loc[n] \notin DOMAIN group2id
  <2> DEFINE D == DOMAIN group2id
             k == Cardinality(D)
  <2>1. IsFiniteSet(D) /\ k \in Nat /\ NextId = k
    BY DomainFinite DEF NextId
  <2>2. /\ group2id' = [h \in D \cup {loc[n]} |-> IF h = loc[n] THEN k ELSE group2id[h]]
        /\ node_map' = node_map \cup {k}
    BY <1>2, <2>1 DEF get_groupid
  <2>3. DOMAIN group2id' = D \cup {loc[n]}
    BY <2>2
  <2>4. Cardinality(D \cup {loc[n]}) = k + 1
    BY <1>2, <2>1, FS_AddElement
  <2>5. k + 1 <= Cardinality(NGs)
    <3>1. D \cup {loc[n]} \subseteq NGs
      BY DEF TypeOK
    <3> QED BY <2>4, <3>1, GraphAssumption, FS_Subset
  <2>6. \A g \in D : group2id[g] \in Nat /\ group2id[g] < k
    BY DEF TypeOK, IdsDense
  <2>7. IdsDense'
    <3>1. node_map' = {group2id'[g] : g \in DOMAIN group2id'}
      BY <1>2, <2>2, <2>3 DEF IdsDense
    <3>2. \A g, h \in DOMAIN group2id' : group2id'[g] = group2id'[h] => g = h
      BY <1>2, <2>1, <2>2, <2>3, <2>6 DEF IdsDense
    <3>3. \A g \in DOMAIN group2id' : group2id'[g] < k + 1
      BY <2>1, <2>2, <2>3, <2>6
    <3> QED BY <2>3, <2>4, <2>5, <3>1, <3>2, <3>3 DEF IdsDense, node_count
  <2> QED BY <1>2, <2>1, <2>2, <2>3, <2>6, <2>7 DEF TypeOK
<1> QED BY <1>1, <1>2

\* A build that fails leaves what it has visited.
LEMMA FailStep == ASSUME Inv, NEW n \in Blocks, Fail(n) PROVE Inv'
<1>1. CASE pc = "failed"
  BY <1>1 DEF Fail, input, Inv, TypeOK, IdsDense, LocInv, MetInv, EdgesInv, FailedIsPrefix,
              PendingInv, node_count
<1>2. CASE pc # "failed"
  <2>1. \A e \in edges : \E a, b \in Blocks : /\ Visited(a, b) /\ loc[a] # loc[b]
                                               /\ e = <<group2id[loc[a]], group2id[loc[b]]>>
    BY <1>2 DEF Inv, EdgesInv
  <2>2. \A a, b \in Blocks : Visited(a, b) => /\ b \in succ[a]
                                              /\ {loc[a], loc[b]} \subseteq DOMAIN group2id
    BY <1>2 DEF Inv, MetInv, Visited
  <2>3. \A a, b \in Blocks : a < nid /\ b \in succ[a] =>
          /\ Visited(a, b)
          /\ loc[a] # loc[b] => <<group2id[loc[a]], group2id[loc[b]]>> \in edges
    BY <1>2 DEF Inv, EdgesInv, Visited
  <2>4. FailedIsPrefix'
    BY <2>1, <2>2, <2>3 DEF Fail, input, FailedIsPrefix
  <2> QED BY <1>2, <2>4 DEF Fail, input, Inv, TypeOK, IdsDense, LocInv, MetInv, EdgesInv,
                            PendingInv, node_count
<1> QED BY <1>1, <1>2

\* Visiting a block.
LEMMA VisitBlockStep == ASSUME Inv, VisitBlock PROVE Inv'
<1>0. nid \in Blocks /\ NBlocks \in Nat
  BY GraphAssumption DEF VisitBlock, Inv, TypeOK, Blocks
<1>1. CASE Fail(nid)
  BY <1>0, <1>1, FailStep
<1>2. CASE loc[nid] # NULL /\ get_groupid(nid) /\ pending' = succ[nid] /\ pc' = "edges"
           /\ UNCHANGED <<input, edges, nid>>
  <2>1. loc[nid] \in NGs /\ pc = "group"
    BY <1>0, <1>2 DEF Inv, LocInv, VisitBlock
  <2>2. /\ DOMAIN group2id' = DOMAIN group2id \cup {loc[nid]}
        /\ \A g \in DOMAIN group2id : group2id'[g] = group2id[g]
        /\ group2id' \in [DOMAIN group2id' -> Nat] /\ node_map' \subseteq Nat
        /\ IdsDense'
    BY <1>0, <1>2, <2>1, GroupIdStep DEF Inv
  <2>3. TypeOK'
    BY <1>0, <1>2, <2>1, <2>2 DEF Inv, TypeOK, input
  <2>4. \A a, b \in Blocks : Visited(a, b)' <=> Visited(a, b)
    BY <1>0, <1>2, <2>1 DEF Visited, input, Blocks
  <2>5. MetInv'
    BY <1>0, <1>2, <2>1, <2>2, <2>4 DEF Inv, MetInv, VisitBlock, input
  <2>6. EdgesInv'
    BY <1>2, <2>1, <2>2, <2>4 DEF Inv, MetInv, EdgesInv, input
  <2> QED BY <1>2, <2>2, <2>3, <2>5, <2>6 DEF Inv, LocInv, FailedIsPrefix, PendingInv, input
<1> QED BY <1>1, <1>2 DEF VisitBlock

\* Visiting a successor of the current block.
LEMMA VisitSuccStep == ASSUME Inv, NEW m \in Blocks, VisitSucc(m) PROVE Inv'
<1>0. nid \in Blocks /\ NBlocks \in Nat /\ pc = "edges" /\ m \in pending
  BY GraphAssumption DEF VisitSucc, Inv, TypeOK, MetInv, Blocks
<1>1. CASE Fail(m)
  BY <1>1, FailStep
<1>2. CASE /\ loc[m] # NULL /\ get_groupid(m)
           /\ edges' = IF loc[m] = loc[nid] THEN edges
                       ELSE edges \cup {<<group2id[loc[nid]], group2id'[loc[m]]>>}
           /\ pending' = pending \ {m}
           /\ UNCHANGED <<input, nid, pc>>
  <2>1. loc[m] \in NGs /\ loc[nid] \in DOMAIN group2id
    BY <1>0, <1>2 DEF Inv, LocInv, MetInv
  <2>2. /\ DOMAIN group2id' = DOMAIN group2id \cup {loc[m]}
        /\ \A g \in DOMAIN group2id : group2id'[g] = group2id[g]
        /\ group2id' \in [DOMAIN group2id' -> Nat] /\ node_map' \subseteq Nat
        /\ IdsDense'
    BY <1>2, <2>1, GroupIdStep DEF Inv
  <2>3. group2id[loc[nid]] \in Nat /\ group2id'[loc[m]] \in Nat
    BY <2>1, <2>2 DEF Inv, TypeOK
  <2>4. TypeOK'
    BY <1>0, <1>2, <2>1, <2>2, <2>3 DEF Inv, TypeOK, input
  <2>5. \A a, b \in Blocks : Visited(a, b)' <=> \/ Visited(a, b)
                                                \/ b \in succ[a] /\ a = nid /\ b = m
    BY <1>0, <1>2 DEF Visited, input
  <2>6. MetInv'
    BY <1>0, <1>2, <2>1, <2>2, <2>5 DEF Inv, MetInv, input
  <2>7. m \in succ[nid]
    BY <1>0 DEF Inv, PendingInv
  <2>8. EdgesInv'
    <3> SUFFICES ASSUME NEW e
                 PROVE  e \in edges' <=>
                          \E a, b \in Blocks : /\ Visited(a, b)' /\ loc[a] # loc[b]
                                               /\ e = <<group2id'[loc[a]], group2id'[loc[b]]>>
      BY <1>2 DEF EdgesInv, input
    <3>1. e \in edges <=> \E a, b \in Blocks : /\ Visited(a, b) /\ loc[a] # loc[b]
                                               /\ e = <<group2id'[loc[a]], group2id'[loc[b]]>>
      BY <1>0, <2>2 DEF Inv, EdgesInv, MetInv
    <3>2. CASE loc[m] = loc[nid]
      BY <1>2, <2>5, <3>1, <3>2
    <3>3. CASE loc[m] # loc[nid]
      <4>1. edges' = edges \cup {<<group2id'[loc[nid]], group2id'[loc[m]]>>}
        BY <1>2, <2>1, <2>2, <3>3
      <4> QED BY <1>0, <2>5, <2>7, <3>1, <3>3, <4>1
    <3> QED BY <3>2, <3>3
  <2> QED BY <1>0, <1>2, <2>2, <2>4, <2>6, <2>8 DEF Inv, LocInv, FailedIsPrefix, PendingInv, input
<1> QED BY <1>1, <1>2 DEF VisitSucc

\* Going on to the next block.
LEMMA NextBlockStep == ASSUME Inv, NextBlock PROVE Inv'
<1>0. nid \in Blocks /\ NBlocks \in Nat /\ pc = "edges" /\ nid' = nid + 1 /\ nid \in Nat
  BY GraphAssumption DEF NextBlock, Inv, TypeOK, MetInv, Blocks
<1>1. \A a \in Blocks : a \in Nat /\ (a < nid' <=> a < nid \/ a = nid)
  BY <1>0 DEF Blocks
<1>2. \A a, b \in Blocks : Visited(a, b)' <=> Visited(a, b)
  BY <1>0, <1>1 DEF Visited, NextBlock, input
<1>3. TypeOK'
  <2>1. nid' \in 0 .. NBlocks
    BY <1>0 DEF Blocks
  <2> QED BY <2>1 DEF NextBlock, input, Inv, TypeOK
<1>4. MetInv'
  BY <1>0, <1>1, <1>2 DEF NextBlock, input, Inv, MetInv
<1>5. EdgesInv'
  <2> SUFFICES ASSUME NEW e
               PROVE  e \in edges' <=>
                        \E a, b \in Blocks : /\ Visited(a, b)' /\ loc'[a] # loc'[b]
                                             /\ e = <<group2id'[loc'[a]], group2id'[loc'[b]]>>
    BY DEF EdgesInv
  <2>1. UNCHANGED <<edges, loc, group2id>>
    BY DEF NextBlock, input
  <2>2. e \in edges <=> \E a, b \in Blocks : /\ Visited(a, b) /\ loc[a] # loc[b]
                                             /\ e = <<group2id[loc[a]], group2id[loc[b]]>>
    BY <1>0 DEF Inv, EdgesInv
  <2> QED BY <1>2, <2>1, <2>2
<1> QED BY <1>0, <1>3, <1>4, <1>5
        DEF NextBlock, input, Inv, IdsDense, LocInv, FailedIsPrefix, PendingInv, node_count

\* Every step preserves the invariant.
LEMMA InvStep == Inv /\ [Next]_vars => Inv'
<1> SUFFICES ASSUME Inv, [Next]_vars PROVE Inv'
  OBVIOUS
<1>1. CASE Finish
  <2>1. \A a, b \in Blocks : Visited(a, b)' <=> Visited(a, b)
    BY <1>1 DEF Visited, Finish, input
  <2>2. MetInv' /\ EdgesInv'
    BY <1>1, <2>1 DEF Finish, input, Inv, MetInv, EdgesInv
  <2> QED BY <1>1, <2>2
          DEF Finish, input, Inv, TypeOK, IdsDense, LocInv, FailedIsPrefix, PendingInv, node_count
<1>2. CASE UNCHANGED vars
  BY <1>2 DEF vars, input, Inv, TypeOK, IdsDense, LocInv, MetInv, EdgesInv, FailedIsPrefix,
              PendingInv, Visited, node_count
<1> QED BY <1>1, <1>2, VisitBlockStep, VisitSuccStep, NextBlockStep DEF Next

\* The edges of a finished build, as a set.
LEMMA QuotientFact == Inv => EdgesAreQuotient
<1> SUFFICES ASSUME Inv, pc = "ok"
             PROVE  edges = {<<group2id[loc[p[1]]], group2id[loc[p[2]]]>> :
                 p \in {q \in Blocks \X Blocks : q[2] \in succ[q[1]] /\ loc[q[1]] # loc[q[2]]}}
  BY DEF EdgesAreQuotient
<1> DEFINE Q == {q \in Blocks \X Blocks : q[2] \in succ[q[1]] /\ loc[q[1]] # loc[q[2]]}
<1>1. \A a, b \in Blocks : Visited(a, b) <=> b \in succ[a]
  BY GraphAssumption DEF Inv, Visited, Blocks
<1>2. \A e : e \in edges <=> \E a, b \in Blocks : /\ b \in succ[a] /\ loc[a] # loc[b]
                                                 /\ e = <<group2id[loc[a]], group2id[loc[b]]>>
  BY <1>1 DEF Inv, EdgesInv
<1>3. \A e : e \in edges => \E q \in Q : e = <<group2id[loc[q[1]]], group2id[loc[q[2]]]>>
  <2> SUFFICES ASSUME NEW e \in edges
               PROVE  \E q \in Q : e = <<group2id[loc[q[1]]], group2id[loc[q[2]]]>>
    OBVIOUS
  <2>1. PICK a \in Blocks, b \in Blocks : /\ b \in succ[a] /\ loc[a] # loc[b]
                                          /\ e = <<group2id[loc[a]], group2id[loc[b]]>>
    BY <1>2
  <2>2. <<a, b>> \in Q
    BY <2>1
  <2> QED BY <2>1, <2>2
<1>4. \A q \in Q : <<group2id[loc[q[1]]], group2id[loc[q[2]]]>> \in edges
  BY <1>2
<1> QED BY <1>3, <1>4

\* When the groups partition the blocks a finished walk has met every group, and
\* an injection of the groups into as many ids leaves no id out.
LEMMA PhantomFact == Inv => NoPhantomNodes
<1> SUFFICES ASSUME Inv, pc = "ok", Partition(content)
             PROVE  node_map = 0 .. (node_count - 1)
  BY DEF NoPhantomNodes
<1> DEFINE k == Cardinality(NGs)
<1>1. NBlocks \in Nat /\ IsFiniteSet(NGs) /\ k \in Nat
  BY GraphAssumption, FS_CardinalityType
<1>2. \A g \in NGs : g \in DOMAIN group2id
  <2> TAKE g \in NGs
  <2>1. PICK n : n \in content[g]
    BY DEF Partition
  <2>2. n \in Blocks
    BY <2>1 DEF Partition
  <2>3. loc[n] \in NGs /\ n \in content[loc[n]]
    BY <2>1, <2>2 DEF Inv, LocInv
  <2>4. loc[n] = g
    BY <2>1, <2>3 DEF Partition
  <2>5. n < nid
    BY <1>1, <2>2 DEF Inv, Blocks
  <2> QED BY <2>2, <2>4, <2>5 DEF Inv, MetInv
<1>3. DOMAIN group2id = NGs
  BY <1>2 DEF Inv, TypeOK
<1>4. \A g \in NGs : group2id[g] \in 0 .. (k - 1)
  BY <1>1, <1>3 DEF Inv, TypeOK, IdsDense
<1>5. group2id \in [NGs -> 0 .. (k - 1)]
  BY <1>3, <1>4 DEF Inv, TypeOK
<1>6. group2id \in Injection(NGs, 0 .. (k - 1))
  <2>1. \A g, h \in NGs : group2id[g] = group2id[h] => g = h
    BY <1>3 DEF Inv, IdsDense
  <2> QED BY <1>5, <2>1, Fun_IsInj
<1>7. IsFiniteSet(0 .. (k - 1)) /\ Cardinality(0 .. (k - 1)) = k
  BY <1>1, FS_Interval
<1>8. group2id \in Surjection(NGs, 0 .. (k - 1))
  BY <1>6, <1>7, FS_Injection
<1>9. \A i \in 0 .. (k - 1) : \E g \in NGs : group2id[g] = i
  BY <1>8 DEF Surjection
<1>10. node_map = {group2id[g] : g \in NGs}
  BY <1>3 DEF Inv, IdsDense
<1> QED BY <1>4, <1>9, <1>10 DEF node_count

\* The invariant holds in every state of every build.
LEMMA InvAlways == Spec => []Inv
BY InvInit, InvStep, PTL DEF Spec

\* For every flowchart and every contents of the groups, get_groupid() gives out
\* dense ids, one to each group it met.
THEOREM DenseIds == Spec => []IdsDense
<1>1. Inv => IdsDense
  BY DEF Inv
<1> QED BY <1>1, InvAlways, PTL

\* A graph that build() finished is the quotient of the flowchart by the groups:
\* no edge is lost and none is made up, and when the groups partition the blocks
\* it has no node without text: the size that mg->resize() was given before the
\* walk is the number of ids the walk gave out.
THEOREM QuotientGraph == Spec => []FinishedIsQuotient
<1>1. Inv => FinishedIsQuotient
  BY QuotientFact, PhantomFact DEF FinishedIsQuotient
<1> QED BY <1>1, InvAlways, PTL

\* What a build that failed leaves for the view to show is a part of the quotient,
\* complete for the blocks before the one it failed at.
THEOREM FailureLeavesPrefix == Spec => []FailedIsPrefix
<1>1. Inv => FailedIsPrefix
  BY DEF Inv
<1> QED BY <1>1, InvAlways, PTL

\* Type correctness, of a build that stopped in the middle too.
THEOREM CombinedTypes == Spec => []TypeOK
<1>1. Inv => TypeOK
  BY DEF Inv
<1> QED BY <1>1, InvAlways, PTL
=============================================================================
