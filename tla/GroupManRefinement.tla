------------------------- MODULE GroupManRefinement -------------------------
(* GroupMan implements Grouping, in the shipped build and on input that names *)
(* no node id twice.                                                          *)
EXTENDS GroupManProofs, FiniteSetTheorems, FunctionTheorems

\* The input a file that was saved, or the analyzer, brings: no node id twice
\* and no SIMILARINFO section.
CleanInput == ~RepeatedNids /\ ~SimilarSection

-----------------------------------------------------------------------------
(* On clean input no two node definitions in use have one node id *)

\* The node definitions some node group holds.
Used == {d \in NDs : \E g \in NGs : d \in nodes[g]}

\* Distinct node ids are inductive with what they rest on: a loader enters in
\* all_nodes what it adds, and sanitize_groupman adds only blocks from its
\* cursor on that all_nodes lacks.
Distinct ==
    /\ similar_sgl = {} /\ section = "path"
    /\ \A d, e \in Used : nid[d] = nid[e] => d = e
    /\ Loading => \A d \in Used : all_nodes[nid[d]] # NULL
    /\ phase = "sanitize" => \A d \in Used : all_nodes[nid[d]] # NULL \/ nid[d] < cursor

\* Nothing is in use after clear().
LEMMA ClearDistinct ==
  ASSUME PublicInv, clear, phase # "sanitize", phase' \in {"new", "parse", "build"}, section' = "path"
  PROVE  Distinct'
<1>1. Owned'
  BY ClearStep
<1>2. similar_sgl' = {} /\ path_sgl' = {} /\ nodes' \in [NGs -> SUBSET NDs]
  BY DEF clear, DeleteSGs, PublicInv, TypeInv, TypeOK
<1>3. \A g \in NGs : nodes'[g] = {}
  BY <1>1, <1>2 DEF Owned, Held, Roots
<1> QED BY <1>2, <1>3 DEF Distinct, Used, Loading

\* A step that adds no node definition and keeps the phase keeps ids distinct.
LEMMA SameUsedDistinct ==
  ASSUME Distinct, Used' \subseteq Used, nid' = nid, all_nodes' = all_nodes, phase' = phase,
         cursor' = cursor, similar_sgl' = similar_sgl, section' = section
  PROVE  Distinct'
BY DEF Distinct, Loading

\* Loading adds node ids that all_nodes lacks.
LEMMA add_nodeDistinct ==
  ASSUME CleanInput, PublicInv, Distinct, NEW n \in Nids, add_node(n)
  PROVE  Distinct'
<1>1. TypeOK /\ Owned
  BY DEF PublicInv, TypeInv
<1>2. FreeND \in NDs \ liveND /\ cur_ng \in NGs /\ all_nodes[n] = NULL
  BY <1>1, FreshND, NullAssumption DEF add_node, TypeOK, CleanInput
<1>3. /\ nodes' = [nodes EXCEPT ![cur_ng] = @ \cup {FreeND}] /\ nid' = [nid EXCEPT ![FreeND] = n]
      /\ all_nodes' = [all_nodes EXCEPT ![n] = FreeND] /\ phase' = phase /\ Loading
      /\ similar_sgl' = similar_sgl /\ section' = section
  BY DEF add_node, locals
<1>4. Used \subseteq liveND
  BY <1>1 DEF Used, Owned
<1>5. Used' = Used \cup {FreeND}
  BY <1>1, <1>2, <1>3 DEF Used, TypeOK
<1>6. \A d \in Used : nid'[d] = nid[d] /\ nid[d] # n /\ nid[d] \in Nids /\ all_nodes[nid[d]] # NULL
  BY <1>1, <1>2, <1>3, <1>4 DEF TypeOK, Distinct, Used
<1>7. nid'[FreeND] = n /\ all_nodes'[n] = FreeND /\ FreeND # NULL
  BY <1>1, <1>2, <1>3, NullAssumption DEF TypeOK
<1>8. \A d, e \in Used' : nid'[d] = nid'[e] => d = e
  BY <1>5, <1>6, <1>7 DEF Distinct
<1>9. \A d \in Used' : all_nodes'[nid'[d]] # NULL
  BY <1>1, <1>3, <1>5, <1>6, <1>7 DEF TypeOK
<1> QED BY <1>3, <1>8, <1>9 DEF Distinct, Loading

\* sanitize_groupman adds each missing block once.
LEMMA SanitizeDistinct ==
  ASSUME PublicInv, Distinct, BeginSanitize \/ SanitizeNode \/ FinishSanitize
  PROVE  Distinct'
<1>1. TypeOK /\ Owned /\ NBlocks \in Nat /\ Nids \subseteq Nat
  BY NidsAssumption DEF PublicInv, TypeInv
<1>2. CASE BeginSanitize
  BY <1>1, <1>2 DEF BeginSanitize, Distinct, Used, Loading
<1>3. CASE FinishSanitize
  BY <1>3 DEF FinishSanitize, Distinct, Used, ResetLocals, Loading
<1>4. CASE SanitizeNode
  <2>1. /\ phase = "sanitize" /\ phase' = phase /\ cursor \in Nat /\ cursor' = cursor + 1 /\ cursor \in Nids
        /\ similar_sgl' = similar_sgl /\ section' = section /\ all_nodes' = all_nodes
    BY <1>1, <1>4, NidsAssumption DEF SanitizeNode, TypeOK, Blocks
  <2>2. \A d \in Used : nid[d] \in Nat /\ (all_nodes[nid[d]] # NULL \/ nid[d] < cursor)
    BY <1>1, <2>1 DEF Distinct, Used, TypeOK
  <2>3. CASE all_nodes[cursor] # NULL
    <3>1. nodes' = nodes /\ nid' = nid
      BY <1>4, <2>3 DEF SanitizeNode
    <3>2. Used' = Used
      BY <3>1 DEF Used
    <3>3. \A d \in Used : nid[d] < cursor => nid[d] < cursor'
      BY <2>1, <2>2
    <3> QED BY <2>1, <2>2, <3>1, <3>2, <3>3 DEF Distinct, Loading
  <2>4. CASE all_nodes[cursor] = NULL
    <3>1. /\ FreeNG \in NGs \ liveNG /\ FreeND \in NDs \ liveND
          /\ nodes' = [nodes EXCEPT ![FreeNG] = {FreeND}] /\ nid' = [nid EXCEPT ![FreeND] = cursor]
      BY <1>4, <2>4, FreshNG, FreshND DEF SanitizeNode
    <3>2. Used \subseteq liveND /\ nodes[FreeNG] = {}
      BY <1>1, <3>1 DEF Used, Owned
    <3>3. Used' = Used \cup {FreeND}
      BY <1>1, <3>1, <3>2 DEF Used, TypeOK
    <3>4. nid'[FreeND] = cursor /\ \A d \in Used : nid'[d] = nid[d] /\ nid[d] # cursor
      <4>1. nid'[FreeND] = cursor /\ \A d \in Used : nid'[d] = nid[d]
        BY <1>1, <3>1, <3>2 DEF TypeOK, Used
      <4>2. ~(cursor < cursor)
        BY <2>1
      <4> QED BY <2>2, <2>4, <4>1, <4>2
    <3>5. \A d, e \in Used' : nid'[d] = nid'[e] => d = e
      BY <3>3, <3>4 DEF Distinct
    <3>6. \A d \in Used' : all_nodes'[nid'[d]] # NULL \/ nid'[d] < cursor'
      BY <2>1, <2>2, <3>3, <3>4
    <3> QED BY <2>1, <3>5, <3>6 DEF Distinct, Loading
  <2> QED BY <2>3, <2>4
<1> QED BY <1>2, <1>3, <1>4

\* Regrouping moves node definitions and brings in none.
LEMMA RegroupDistinct ==
  ASSUME PublicInv, Distinct,
         \/ \E ngl \in SUBSET ShownNGs : combine_ngl(ngl)
         \/ \E sel \in SUBSET Nids : move_nodes_to_ng(sel)
  PROVE  Distinct'
<1>1. TypeOK
  BY DEF PublicInv, TypeInv
<1>2. ASSUME NEW ngl \in SUBSET ShownNGs, combine_ngl(ngl) PROVE Distinct'
  <2>1. UNCHANGED <<similar_sgl, nid, all_nodes, phase, section, cursor>> /\ phase = "ready"
    BY <1>2 DEF combine_ngl, locals
  <2>2. PICK dest \in find_biggest(ngl) : \E home \in [Others(ngl, dest) -> SGs] : CombineInto(ngl, dest, home)
    BY <1>2, CombineShape
  <2>3. PICK home \in [Others(ngl, dest) -> SGs] : CombineInto(ngl, dest, home)
    BY <2>2
  <2>4. ngl \in SUBSET NGs /\ dest \in NGs /\ Others(ngl, dest) \subseteq NGs
    BY <2>1, ShownFact DEF find_biggest, Others
  <2>5. Combined(ngl, dest, home)
    BY <1>1, <2>3, <2>4, CombineFacts
  <2>6. Used' \subseteq Used
    BY <1>1, <2>4, <2>5 DEF Used, Combined, TypeOK
  <2> QED BY <2>1, <2>6, SameUsedDistinct
<1>3. ASSUME NEW sel \in SUBSET Nids, move_nodes_to_ng(sel) PROVE Distinct'
  <2>1. UNCHANGED <<similar_sgl, nid, all_nodes, phase, section, cursor>>
    BY <1>3 DEF move_nodes_to_ng, locals
  <2>2. PICK n0 \in sel \cap Located : Moved(sel \cap Located, n0)
    BY <1>3, MoveFacts
  <2>3. Used' \subseteq Used
    <3> SUFFICES ASSUME NEW d \in NDs, NEW g \in NGs, d \in nodes'[g] PROVE d \in Used
      BY DEF Used
    <3>1. CASE g = FreeNG
      BY <2>2, <3>1 DEF Moved, Used, Loc
    <3>2. CASE g # FreeNG
      BY <2>2, <3>2 DEF Moved, Used
    <3> QED BY <3>1, <3>2
  <2> QED BY <2>1, <2>3, SameUsedDistinct
<1> QED BY <1>2, <1>3

\* What the three invariants say together.
CleanInv == PublicInv /\ Complete /\ Distinct

\* The initial state.
LEMMA CleanInit == Init => CleanInv
BY PublicInit DEF Init, CleanInv, Complete, Distinct, Used, Loading

\* Every step preserves them.
LEMMA CleanStep ==
  ASSUME PublicBuild, CleanInput PROVE CleanInv /\ [Next]_vars => CleanInv'
<1> SUFFICES ASSUME CleanInv, [Next]_vars PROVE Distinct'
  BY PublicStep, CompleteStep DEF CleanInv
<1>0. PublicInv /\ Distinct /\ TypeOK
  BY DEF CleanInv, PublicInv, TypeInv
<1>1. CASE UNCHANGED vars
  BY <1>0, <1>1 DEF vars, tree, heap, locals, Distinct, Used, Loading
<1>2. CASE StartParse \/ StartBuild \/ Destroy
  BY <1>0, <1>2, ClearDistinct DEF StartParse, StartBuild, StartLoad, Destroy, ResetLocals
<1>3. CASE add_supergroup
  BY <1>0, <1>3 DEF add_supergroup, Distinct, Used, Loading
<1>4. CASE add_nodegroup
  <2>1. FreeNG \in NGs \ liveNG
    BY <1>4, FreshNG DEF add_nodegroup
  <2>2. UNCHANGED <<similar_sgl, nid, all_nodes, phase, section, cursor>> /\ nodes' = [nodes EXCEPT ![FreeNG] = {}]
    BY <1>4 DEF add_nodegroup
  <2>3. Used' \subseteq Used
    BY <1>0, <2>1, <2>2 DEF Used, TypeOK
  <2> QED BY <1>0, <2>2, <2>3, SameUsedDistinct
<1>5. ASSUME NEW x \in {"path", "similar"}, SwitchSection(x) PROVE Distinct'
  BY <1>5 DEF SwitchSection, CleanInput
<1>6. CASE Load
  BY <1>0, <1>2, <1>3, <1>4, <1>5, <1>6, add_nodeDistinct, SanitizeDistinct DEF Load
<1>7. CASE Regroup
  BY <1>0, <1>7, PublicRegroup, RegroupDistinct
<1> QED BY <1>1, <1>6, <1>7 DEF Next

\* They always hold.
LEMMA CleanAlways == ASSUME PublicBuild, CleanInput PROVE Spec => []CleanInv
<1>1. CleanInv /\ [Next]_vars => CleanInv'
  BY CleanStep
<1> QED BY <1>1, CleanInit, PTL DEF Spec

\* On clean input nid2loc finds every node in the one place where it is.
LEMMA OwnLocation ==
  ASSUME PublicInv, Distinct, phase = "ready", NEW s \in path_sgl, NEW g \in groups[s], NEW d \in nodes[g]
  PROVE  /\ s \in SGs /\ g \in NGs /\ d \in NDs /\ nid[d] \in Nids /\ nid2loc[nid[d]] # NULL
         /\ nid2loc[nid[d]].sg = s /\ nid2loc[nid[d]].ng = g /\ nid2loc[nid[d]].nd = d
<1> DEFINE n == nid[d]
<1>1. TypeOK /\ Disjoint /\ IsLookup(nid2loc, path_sgl, groups, nodes, nid)
  BY DEF PublicInv, TypeInv, LookupsCoherent
<1>2. s \in SGs /\ g \in NGs /\ d \in NDs /\ n \in Nids /\ path_sgl \subseteq SGs
  BY <1>1 DEF TypeOK
<1>3. [sg |-> s, ng |-> g, nd |-> d] \in Locations(n, path_sgl, groups, nodes, nid)
  <2>1. <<s, g>> \in {q \in path_sgl \X NGs : q[2] \in groups[q[1]]}
    BY <1>2
  <2> QED BY <2>1 DEF Locations
<1>4. nid2loc[n] \in Locations(n, path_sgl, groups, nodes, nid)
  BY <1>1, <1>2, <1>3 DEF IsLookup, LookupsOf
<1> DEFINE l == nid2loc[n]
<1>5. /\ l = [sg |-> l.sg, ng |-> l.ng, nd |-> l.nd]
      /\ l.sg \in path_sgl /\ l.ng \in groups[l.sg] /\ l.ng \in NGs /\ l.nd \in nodes[l.ng] /\ nid[l.nd] = n
  BY <1>4, LocationsFact
<1> HIDE DEF l
<1>6. l.nd \in NDs /\ l \in Loc
  BY <1>1, <1>2, <1>5 DEF TypeOK, Loc
<1>7. l.nd = d
  BY <1>2, <1>5, <1>6 DEF Distinct, Used
<1>8. l.ng = g
  BY <1>1, <1>2, <1>5, <1>6, <1>7 DEF Disjoint
<1>9. l.sg = s
  BY <1>1, <1>2, <1>5, <1>8 DEF Disjoint
<1> QED BY <1>2, <1>6, <1>7, <1>8, <1>9, NullAssumption DEF l

-----------------------------------------------------------------------------
(* What the two regroupings do on clean input *)

\* combine_ngl removes each group it empties from the super group that has it.
CombineClean(ngl, dest) ==
    /\ dest \in ngl /\ ngl \subseteq NGs
    /\ \A g \in ngl : nodes[g] # {} /\ \E s \in path_sgl : g \in groups[s]
    /\ \A g \in NGs : g \notin ngl => nodes'[g] = nodes[g]
    /\ \A d : d \in nodes'[dest] <=> \E h \in ngl : d \in nodes[h]
    /\ \A s \in path_sgl : \A g : g \in groups'[s] <=> g \in groups[s] /\ (g \in ngl => g = dest)
    /\ path_sgl' \subseteq path_sgl
    /\ \A s \in path_sgl : s \notin path_sgl' => groups'[s] = {}

\* With no id repeated, the super group that combine_ngl looks in is the one that
\* has the group.
LEMMA CombineCleanFacts ==
  ASSUME PublicInv, Distinct, NEW ngl \in SUBSET ShownNGs, combine_ngl(ngl)
  PROVE  \E dest \in find_biggest(ngl) : CombineClean(ngl, dest)
<1>1. phase = "ready" /\ TypeOK /\ Disjoint /\ IsLookup(nid2loc, path_sgl, groups, nodes, nid)
  BY DEF combine_ngl, PublicInv, TypeInv, LookupsCoherent
<1>2. PICK dest \in find_biggest(ngl) : \E home \in [Others(ngl, dest) -> SGs] : CombineInto(ngl, dest, home)
  BY CombineShape
<1>3. PICK home \in [Others(ngl, dest) -> SGs] : CombineInto(ngl, dest, home)
  BY <1>2
<1>4. ngl \in SUBSET NGs /\ dest \in ngl /\ dest \in NGs /\ \A g \in ngl : \E s \in path_sgl : g \in groups[s]
  BY <1>1, ShownFact DEF find_biggest
<1>5. Combined(ngl, dest, home)
  BY <1>1, <1>3, <1>4, CombineFacts
<1>6. \A g \in ngl : nodes[g] # {}
  <2> TAKE g \in ngl
  <2>1. PICK n \in Nids : nid2loc[n] # NULL /\ g = nid2loc[n].ng
    BY DEF ShownNGs, Located
  <2> QED BY <1>1, <2>1, LocFact
<1> DEFINE others == Others(ngl, dest)
<1>7. others = ngl \ {dest}
  BY <1>6 DEF Others
<1>8. \A g \in others : \A s \in path_sgl : g \in groups[s] => home[g] = s
  <2> TAKE g \in others
  <2> TAKE s \in path_sgl
  <2> HAVE g \in groups[s]
  <2>1. PICK d \in nodes[g] : home[g] = nid2loc[nid[d]].sg
    BY <1>5 DEF Combined, HomeOf
  <2> QED BY <1>1, <2>1, OwnLocation
<1> HIDE DEF others
<1>9. \A s \in path_sgl : \A g : g \in groups'[s] <=> g \in groups[s] /\ (g \in ngl => g = dest)
  <2>1. \A s \in SGs : \A g : g \in groups'[s] <=> g \in groups[s] /\ ~(g \in others /\ home[g] = s)
    BY <1>5 DEF Combined, others
  <2> QED BY <1>1, <1>7, <1>8, <2>1 DEF TypeOK
<1>10. \A g \in NGs : g \notin ngl => nodes'[g] = nodes[g]
  BY <1>4, <1>5, <1>7 DEF Combined, others
<1>11. \A d : d \in nodes'[dest] <=> \E h \in ngl : d \in nodes[h]
  <2>1. \A d : d \in nodes'[dest] <=> d \in nodes[dest] \/ \E h \in others : d \in nodes[h]
    BY <1>5 DEF Combined, others
  <2> QED BY <1>4, <1>7, <2>1
<1>12. path_sgl' \subseteq path_sgl /\ \A s \in path_sgl : s \notin path_sgl' => groups'[s] = {}
  BY <1>5 DEF Combined
<1> QED BY <1>4, <1>6, <1>9, <1>10, <1>11, <1>12 DEF CombineClean

\* move_nodes_to_ng takes every node it looks for out of its group, and drops
\* no group that keeps one.
MoveClean(found, n0, new, s0) ==
    /\ n0 \in found /\ (\A n \in found : n0 <= n) /\ s0 \in path_sgl /\ new \in NGs
    /\ \A n \in found : \E s \in path_sgl : \E g \in groups[s] : \E d \in nodes[g] : nid[d] = n
    /\ \E g \in groups[s0] : \E d \in nodes[g] : nid[d] = n0
    /\ \A s \in path_sgl : new \notin groups[s]
    /\ \A n : (\E d \in nodes'[new] : nid[d] = n) <=> n \in found
    /\ \A s \in path_sgl : \A g \in groups[s] : \A d : d \in nodes'[g] <=> d \in nodes[g] /\ nid[d] \notin found
    /\ \A s \in path_sgl : \A g :
          /\ g \in groups'[s] => (g \in groups[s] /\ (nodes[g] # {} => nodes'[g] # {})) \/ (s = s0 /\ g = new)
          /\ g \in groups[s] /\ nodes'[g] # {} => g \in groups'[s]
    /\ new \in groups'[s0]
    /\ path_sgl' \subseteq path_sgl
    /\ \A s \in path_sgl : s \notin path_sgl' => groups'[s] = {}

\* With no id repeated, exactly the nodes of the selected ids move.
LEMMA MoveCleanFacts ==
  ASSUME PublicInv, Distinct, NEW sel \in SUBSET Nids, move_nodes_to_ng(sel)
  PROVE  \E n0 \in sel \cap Located : \E new \in NGs : \E s0 \in path_sgl : MoveClean(sel \cap Located, n0, new, s0)
<1> DEFINE found == sel \cap Located
<1>1. phase = "ready" /\ TypeOK /\ Disjoint
  BY DEF move_nodes_to_ng, PublicInv, TypeInv
<1>2. PICK n0 \in found : Moved(found, n0)
  BY MoveFacts
<1> HIDE DEF found
<1> DEFINE new == FreeNG
           s0 == nid2loc[n0].sg
<1>3. n0 \in found /\ (\A n \in found : n0 <= n) /\ s0 \in path_sgl /\ new \in NGs /\ s0 \in SGs
      /\ (\A s \in SGs : new \notin groups[s]) /\ path_sgl \subseteq SGs
  BY <1>1, <1>2 DEF Moved, Loc, TypeOK
<1>4. \A n \in found : /\ nid2loc[n].sg \in path_sgl /\ nid2loc[n].ng \in groups[nid2loc[n].sg]
                       /\ nid2loc[n].nd \in nodes[nid2loc[n].ng] /\ nid[nid2loc[n].nd] = n
  BY <1>2 DEF Moved
<1>5. \A n : (\E d \in nodes'[new] : nid[d] = n) <=> n \in found
  <2>1. \A d : d \in nodes'[new] <=> \E n \in found : d = nid2loc[n].nd
    BY <1>2 DEF Moved
  <2> QED BY <1>4, <2>1
<1>6. \A s \in path_sgl : \A g \in groups[s] : g \in NGs \ {new}
  BY <1>1, <1>3 DEF TypeOK
<1>7. ASSUME NEW s \in path_sgl, NEW g \in groups[s], NEW d
      PROVE  d \in nodes'[g] <=> d \in nodes[g] /\ nid[d] \notin found
  <2>1. d \in nodes'[g] <=> d \in nodes[g] /\ ~\E n \in found : nid2loc[n].ng = g /\ nid2loc[n].nd = d
    BY <1>2, <1>6 DEF Moved
  <2>2. ASSUME d \in nodes[g], nid[d] \in found PROVE nid2loc[nid[d]].ng = g /\ nid2loc[nid[d]].nd = d
    BY <1>1, <2>2, OwnLocation
  <2> QED BY <1>4, <2>1, <2>2
<1>8. ASSUME NEW s \in path_sgl, NEW g
      PROVE  /\ g \in groups'[s] => (g \in groups[s] /\ (nodes[g] # {} => nodes'[g] # {})) \/ (s = s0 /\ g = new)
             /\ g \in groups[s] /\ nodes'[g] # {} => g \in groups'[s]
  <2>1. g \in groups'[s] <=> \/ /\ g \in groups[s]
                                /\ ~\E n \in found : nid2loc[n].sg = s /\ nid2loc[n].ng = g /\ nodes'[g] = {}
                             \/ s = s0 /\ g = new
    BY <1>2, <1>3 DEF Moved
  <2>2. ASSUME g \in groups[s], nodes[g] # {}, nodes'[g] = {}
        PROVE  \E n \in found : nid2loc[n].sg = s /\ nid2loc[n].ng = g
    <3>1. PICK d \in nodes[g] : nid[d] \in found
      BY <1>7, <2>2
    <3> QED BY <1>1, <2>2, <3>1, OwnLocation
  <2> QED BY <2>1, <2>2
<1>9. new \in groups'[s0]
  BY <1>2, <1>3 DEF Moved
<1>10. path_sgl' \subseteq path_sgl /\ \A s \in path_sgl : s \notin path_sgl' => groups'[s] = {}
  BY <1>2 DEF Moved
<1> HIDE DEF new, s0
<1>11. /\ \A n \in found : \E s \in path_sgl : \E g \in groups[s] : \E d \in nodes[g] : nid[d] = n
       /\ \E g \in groups[s0] : \E d \in nodes[g] : nid[d] = n0
  BY <1>3, <1>4 DEF s0
<1>12. MoveClean(found, n0, new, s0)
  BY <1>3, <1>5, <1>7, <1>8, <1>9, <1>10, <1>11, Zenon DEF MoveClean
<1> QED BY <1>3, <1>12 DEF found

\* A regrouping in the shipped menu is one of the two handlers.
LEMMA ReadyStep ==
  ASSUME PublicBuild, PublicInv, Next, phase = "ready", phase' = "ready"
  PROVE  (\E ngl \in SUBSET ShownNGs : combine_ngl(ngl)) \/ (\E sel \in SUBSET Nids : move_nodes_to_ng(sel))
<1>1. Regroup
  BY DEF Next, Load, StartParse, StartBuild, StartLoad, Destroy, add_supergroup, add_nodegroup,
         SwitchSection, add_node, BeginSanitize, SanitizeNode, FinishSanitize, Loading
<1> QED BY <1>1, PublicRegroup

\* What a regrouping empties it takes out: a super group from which the last group
\* was removed leaves the list, with repeated ids too.
LEMMA SupersStayFull ==
  ASSUME PublicInv, NoneEmpty(path_sgl, groups),
         (\E ngl \in SUBSET ShownNGs : combine_ngl(ngl)) \/ (\E sel \in SUBSET Nids : move_nodes_to_ng(sel))
  PROVE  NoneEmpty(path_sgl, groups)'
<1>1. TypeOK /\ path_sgl \subseteq SGs
  BY DEF PublicInv, TypeInv, TypeOK
<1> SUFFICES ASSUME NEW s \in path_sgl', groups'[s] = {} PROVE FALSE
  BY DEF NoneEmpty
<1>2. ASSUME NEW ngl \in SUBSET ShownNGs, combine_ngl(ngl) PROVE FALSE
  <2>1. PICK dest \in find_biggest(ngl) : \E home \in [Others(ngl, dest) -> SGs] : CombineInto(ngl, dest, home)
    BY <1>2, CombineShape
  <2>2. PICK home \in [Others(ngl, dest) -> SGs] : CombineInto(ngl, dest, home)
    BY <2>1
  <2>3. phase = "ready" /\ IsLookup(nid2loc, path_sgl, groups, nodes, nid)
    BY <1>2 DEF combine_ngl, PublicInv, LookupsCoherent
  <2>4. ngl \in SUBSET NGs /\ dest \in NGs
    BY <1>1, <2>3, ShownFact DEF find_biggest
  <2>5. Combined(ngl, dest, home)
    BY <1>1, <2>2, <2>4, CombineFacts
  <2>6. s \in path_sgl /\ s \in SGs
    BY <1>1, <2>5 DEF Combined
  <2>7. PICK g \in groups[s] : TRUE
    BY <2>6 DEF NoneEmpty
  <2> QED BY <2>5, <2>6, <2>7 DEF Combined
<1>3. ASSUME NEW sel \in SUBSET Nids, move_nodes_to_ng(sel) PROVE FALSE
  <2> DEFINE found == sel \cap Located
  <2>1. PICK n0 \in found : Moved(found, n0)
    BY <1>3, MoveFacts
  <2> HIDE DEF found
  <2>2. s \in path_sgl /\ s \in SGs
    BY <1>1, <2>1 DEF Moved
  <2>3. PICK g \in groups[s] : TRUE
    BY <2>2 DEF NoneEmpty
  <2>4. \E n \in found : nid2loc[n].sg = s /\ nid2loc[n].ng = g /\ nodes'[g] = {}
    BY <2>1, <2>2, <2>3 DEF Moved
  <2> QED BY <2>1, <2>2, <2>4 DEF Moved
<1> QED BY <1>2, <1>3

\* No regrouping leaves an empty node group or super group in the tree: what
\* combine_ngl and move_nodes_to_ng empty they also remove.
THEOREM RegroupLeavesNoneEmpty == ASSUME PublicBuild, CleanInput PROVE Spec => NoEmptyGroups
<1>1. ASSUME CleanInv, Next, phase = "ready", phase' = "ready", NoneEmpty(NGsOf(path_sgl), nodes)
      PROVE  NoneEmpty(NGsOf(path_sgl), nodes)'
  <2>1. PublicInv /\ Distinct /\ TypeOK
    BY <1>1 DEF CleanInv, PublicInv, TypeInv
  <2>2. \A s \in path_sgl : \A g \in groups[s] : nodes[g] # {} /\ g \in NGs
    BY <1>1, <2>1 DEF NoneEmpty, NGsOf, TypeOK
  <2> SUFFICES ASSUME NEW s \in path_sgl', NEW g \in groups'[s] PROVE nodes'[g] # {}
    BY DEF NoneEmpty, NGsOf
  <2>4. ASSUME NEW ngl \in SUBSET ShownNGs, combine_ngl(ngl) PROVE nodes'[g] # {}
    <3>1. PICK dest \in find_biggest(ngl) : CombineClean(ngl, dest)
      BY <2>1, <2>4, CombineCleanFacts
    <3>2. s \in path_sgl /\ g \in groups[s] /\ (g \in ngl => g = dest)
      BY <3>1 DEF CombineClean
    <3>3. CASE g = dest
      BY <3>1, <3>3 DEF CombineClean
    <3>4. CASE g # dest
      BY <2>2, <3>1, <3>2, <3>4 DEF CombineClean
    <3> QED BY <3>3, <3>4
  <2>5. ASSUME NEW sel \in SUBSET Nids, move_nodes_to_ng(sel) PROVE nodes'[g] # {}
    <3> DEFINE found == sel \cap Located
    <3>1. PICK n0 \in found : \E new \in NGs : \E s0 \in path_sgl : MoveClean(found, n0, new, s0)
      BY <2>1, <2>5, MoveCleanFacts
    <3>2. PICK new \in NGs : \E s0 \in path_sgl : MoveClean(found, n0, new, s0)
      BY <3>1
    <3>3. PICK s0 \in path_sgl : MoveClean(found, n0, new, s0)
      BY <3>2
    <3> HIDE DEF found
    <3>4. nodes'[new] # {} /\ s \in path_sgl
      BY <3>3 DEF MoveClean
    <3> QED BY <2>2, <3>3, <3>4 DEF MoveClean
  <2> QED BY <1>1, <2>1, <2>4, <2>5, ReadyStep
<1>2. ASSUME CleanInv, Next, phase = "ready", phase' = "ready", NoneEmpty(path_sgl, groups)
      PROVE  NoneEmpty(path_sgl, groups)'
  BY <1>2, ReadyStep, SupersStayFull DEF CleanInv
<1>3. CleanInv /\ [Next]_vars =>
        [phase = "ready" /\ phase' = "ready" =>
            /\ NoneEmpty(NGsOf(path_sgl), nodes) => NoneEmpty(NGsOf(path_sgl), nodes)'
            /\ NoneEmpty(path_sgl, groups) => NoneEmpty(path_sgl, groups)']_vars
  BY <1>1, <1>2
<1> QED BY <1>3, CleanAlways, PTL DEF Spec, NoEmptyGroups

-----------------------------------------------------------------------------
(* The partition the tree stands for *)

\* The node ids of a node group, and the groups of a super group.
Ids(g) == {nid[d] : d \in nodes[g]}
Level(s) == {Ids(g) : g \in groups[s]} \ {{}}

\* part is that of the path list while the manager is in use, and {} otherwise.
LEMMA PartFact ==
  ASSUME phase \in PublicPhases
  PROVE  /\ phase = "ready" => part = {Level(s) : s \in path_sgl} \ {{}}
         /\ phase # "ready" => part = {}
BY DEF part, Level, Ids, PublicPhases

\* Its members, one by one.
LEMMA LevelFact ==
  ASSUME NEW s, NEW b
  PROVE  b \in Level(s) <=> b # {} /\ \E g \in groups[s] : b = Ids(g)
BY DEF Level

\* On clean input two places that share a node id are one place.
LEMMA SamePlace ==
  ASSUME PublicInv, Distinct, NEW s \in path_sgl, NEW t \in path_sgl, NEW g \in groups[s], NEW h \in groups[t],
         NEW n, n \in Ids(g), n \in Ids(h)
  PROVE  g = h /\ s = t
<1>1. TypeOK /\ Disjoint
  BY DEF PublicInv, TypeInv
<1>2. s \in SGs /\ t \in SGs /\ g \in NGs /\ h \in NGs
  BY <1>1 DEF TypeOK
<1>3. PICK d \in nodes[g] : n = nid[d]
  BY DEF Ids
<1>4. PICK e \in nodes[h] : n = nid[e]
  BY DEF Ids
<1>5. d \in NDs /\ e \in NDs /\ d = e
  BY <1>1, <1>2, <1>3, <1>4 DEF TypeOK, Distinct, Used
<1> QED BY <1>1, <1>2, <1>3, <1>4, <1>5 DEF Disjoint

\* Between two handlers the tree is a grouping of the blocks.
LEMMA PartGrouping ==
  CleanInv /\ phase = "ready" => part # {} /\ Abstract!IsGrouping(part)
<1> SUFFICES ASSUME CleanInv, phase = "ready" PROVE part # {} /\ Abstract!IsGrouping(part)
  OBVIOUS
<1>1. PublicInv /\ Distinct /\ Complete /\ TypeOK /\ similar_sgl = {}
  BY DEF CleanInv, PublicInv, TypeInv, Distinct
<1>2. part = {Level(s) : s \in path_sgl} \ {{}}
  BY <1>1, PartFact DEF PublicInv
<1>3. \A G \in part : G # {} /\ \E s \in path_sgl : G = Level(s)
  BY <1>2
<1>4. \A s \in path_sgl : \A b \in Level(s) : b # {} /\ b \subseteq Nids /\ \E g \in groups[s] : b = Ids(g)
  BY <1>1 DEF Level, Ids, TypeOK
<1>5. ASSUME NEW G \in part, NEW H \in part, NEW b \in G, NEW c \in H, b \cap c # {}
      PROVE  b = c /\ G = H
  <2>1. PICK s \in path_sgl : G = Level(s)
    BY <1>3
  <2>2. PICK t \in path_sgl : H = Level(t)
    BY <1>3
  <2>3. PICK g \in groups[s] : b = Ids(g)
    BY <1>4, <2>1
  <2>4. PICK h \in groups[t] : c = Ids(h)
    BY <1>4, <2>2
  <2>5. PICK n \in b : n \in c
    BY <1>5
  <2>6. g = h /\ s = t
    BY <1>1, <2>3, <2>4, <2>5, SamePlace
  <2> QED BY <2>1, <2>2, <2>3, <2>4, <2>6
<1>6. Abstract!TwoLevel(part)
  BY <1>3, <1>4, <1>5 DEF Abstract!TwoLevel
<1>7. ASSUME NEW n \in Blocks PROVE n \in Abstract!Covered(part)
  <2>1. Holds(Roots, n) /\ Roots = path_sgl
    BY <1>1 DEF Complete, Roots
  <2>2. PICK s \in path_sgl : \E g \in groups[s] : \E d \in nodes[g] : nid[d] = n
    BY <2>1 DEF Holds
  <2>3. PICK g \in groups[s] : \E d \in nodes[g] : nid[d] = n
    BY <2>2
  <2>4. n \in Ids(g)
    BY <2>3 DEF Ids
  <2>5. Ids(g) \in Level(s)
    BY <2>4, LevelFact
  <2>6. Level(s) \in part
    BY <1>2, <2>5
  <2> QED BY <2>4, <2>5, <2>6 DEF Abstract!Covered
<1>8. 0 \in Blocks
  BY NidsAssumption DEF Blocks
<1>9. part # {}
  BY <1>7, <1>8 DEF Abstract!Covered
<1> QED BY <1>6, <1>7, <1>9 DEF Abstract!IsGrouping, Blocks

\* Grouping and GroupMan count alike.
LEMMA AbstractCardinality == \A S : Abstract!Cardinality(S) = Cardinality(S)
BY DEF Abstract!Cardinality, Cardinality, Abstract!IsFiniteSet, IsFiniteSet

\* Groups with distinct node ids are as big as the sets of their ids.
LEMMA IdsCardinality ==
  ASSUME TypeOK, Distinct, NEW g \in NGs
  PROVE  Cardinality(Ids(g)) = Cardinality(nodes[g])
<1> DEFINE f == [d \in nodes[g] |-> nid[d]]
<1>1. IsFiniteSet(nodes[g])
  BY PoolsAssumption, FS_Subset DEF TypeOK
<1>2. f \in [nodes[g] -> Ids(g)] /\ \A n \in Ids(g) : \E d \in nodes[g] : f[d] = n
  BY DEF Ids
<1>3. \A d, e \in nodes[g] : f[d] = f[e] => d = e
  BY DEF Distinct, Used, TypeOK
<1>4. f \in Bijection(nodes[g], Ids(g))
  <2> HIDE DEF f
  <2> QED BY <1>2, <1>3, Fun_IsBij, Zenon
<1>5. ExistsBijection(nodes[g], Ids(g))
  BY <1>4 DEF ExistsBijection
<1> QED BY <1>1, <1>5, FS_Bijection

\* "Combine nodes" in the grouped view is Grouping's Combine.
LEMMA CombineImplements ==
  ASSUME PublicInv, Distinct, NEW ngl \in SUBSET ShownNGs, combine_ngl(ngl)
  PROVE  \E S \in SUBSET UNION part : \E dest \in S : Abstract!Combine(S, dest)
<1>1. phase = "ready" /\ phase' = "ready" /\ TypeOK /\ nid' = nid
  BY DEF combine_ngl, PublicInv, TypeInv
<1>2. PICK dest \in find_biggest(ngl) : CombineClean(ngl, dest)
  BY CombineCleanFacts
<1>3. /\ dest \in ngl /\ ngl \subseteq NGs
      /\ \A g \in ngl : nodes[g] # {} /\ \E s \in path_sgl : g \in groups[s]
      /\ \A g \in NGs : g \notin ngl => nodes'[g] = nodes[g]
      /\ \A d : d \in nodes'[dest] <=> \E h \in ngl : d \in nodes[h]
      /\ \A s \in path_sgl : \A g : g \in groups'[s] <=> g \in groups[s] /\ (g \in ngl => g = dest)
      /\ path_sgl' \subseteq path_sgl
      /\ \A s \in path_sgl : s \notin path_sgl' => groups'[s] = {}
  BY <1>2 DEF CombineClean
<1> DEFINE Ids2(g) == {nid[d] : d \in nodes'[g]}
           Level2(s) == {Ids2(g) : g \in groups'[s]} \ {{}}
           S == {Ids(g) : g \in ngl}
           D == Ids(dest)
           V(b) == IF b = D THEN UNION S ELSE b
           A(G) == {V(b) : b \in G \ (S \ {D})}
<1>4. part = {Level(s) : s \in path_sgl} \ {{}}
  BY <1>1, PartFact DEF PublicInv
<1>5. part' = {Level2(s) : s \in path_sgl'} \ {{}}
  BY <1>1 DEF part, Level, Ids
<1>6. \A g \in ngl : Ids(g) # {}
  BY <1>3 DEF Ids
<1>7. S \subseteq UNION part
  <2> SUFFICES ASSUME NEW g \in ngl PROVE Ids(g) \in UNION part
    OBVIOUS
  <2>1. PICK s \in path_sgl : g \in groups[s]
    BY <1>3
  <2>2. Ids(g) \in Level(s)
    BY <1>6, <2>1, LevelFact
  <2> QED BY <1>4, <2>2
<1>8. \A b \in S : Cardinality(b) <= Cardinality(D)
  <2> SUFFICES ASSUME NEW g \in ngl PROVE Cardinality(Ids(g)) <= Cardinality(D)
    OBVIOUS
  <2>1. Cardinality(nodes[g]) <= Cardinality(nodes[dest])
    BY <1>2 DEF find_biggest
  <2> QED BY <1>1, <1>3, <2>1, IdsCardinality
<1>9. Ids2(dest) = UNION S
  BY <1>1, <1>3 DEF Ids
<1>10. \A g \in NGs : g \notin ngl => Ids2(g) = Ids(g)
  BY <1>1, <1>3 DEF Ids
<1>11. ASSUME NEW s \in path_sgl, NEW g \in groups[s], Ids(g) # {}, Ids(g) \in S PROVE g \in ngl
  <2>1. PICK h \in ngl : Ids(g) = Ids(h)
    BY <1>11
  <2>2. PICK t \in path_sgl : h \in groups[t]
    BY <1>3
  <2>3. PICK n \in Ids(g) : n \in Ids(h)
    BY <1>11, <2>1
  <2> QED BY <2>2, <2>3, SamePlace
<1>12. ASSUME NEW s \in path_sgl, NEW g \in groups[s], Ids(g) = D PROVE g = dest
  <2>2. PICK t \in path_sgl : dest \in groups[t]
    BY <1>3
  <2>3. PICK n \in Ids(g) : n \in Ids(dest)
    BY <1>3, <1>6, <1>12
  <2> QED BY <2>2, <2>3, SamePlace
<1>13. ASSUME NEW s \in path_sgl PROVE Level2(s) = A(Level(s)) \ {{}}
  <2>0. Level2(s) = {Ids2(g) : g \in groups'[s]} \ {{}} /\ \A g \in groups[s] : g \in NGs
    BY <1>1 DEF TypeOK
  <2> HIDE DEF S, D, Ids2, Level2
  <2>1. ASSUME NEW g \in groups'[s], Ids2(g) # {} PROVE Ids2(g) \in A(Level(s))
    <3>1. g \in groups[s] /\ (g \in ngl => g = dest)
      BY <1>3
    <3>2. CASE g = dest
      <4>1. D \in Level(s) \ (S \ {D})
        BY <1>3, <1>6, <3>1, <3>2, LevelFact DEF D
      <4> QED BY <1>9, <3>2, <4>1
    <3>3. CASE g # dest
      <4>1. Ids2(g) = Ids(g) /\ Ids(g) # {}
        BY <1>10, <2>0, <2>1, <3>1, <3>3
      <4>2. Ids(g) \in Level(s) \ S /\ Ids(g) # D
        BY <1>11, <1>12, <3>1, <3>3, <4>1, LevelFact
      <4> QED BY <4>1, <4>2
    <3> QED BY <3>2, <3>3
  <2>2. ASSUME NEW b \in Level(s) \ (S \ {D}) PROVE \E g \in groups'[s] : V(b) = Ids2(g)
    <3>1. PICK g \in groups[s] : b = Ids(g) /\ b # {}
      BY LevelFact
    <3>2. CASE b = D
      <4>1. g = dest
        BY <1>12, <3>1, <3>2
      <4> QED BY <1>3, <1>9, <3>1, <3>2, <4>1
    <3>3. CASE b # D
      <4>1. g \notin ngl
        BY <3>1, <3>3 DEF S
      <4> QED BY <1>3, <1>10, <2>0, <3>1, <3>3, <4>1
    <3> QED BY <3>2, <3>3
  <2>3. \A X : X \in A(Level(s)) <=> \E b \in Level(s) \ (S \ {D}) : X = V(b)
    OBVIOUS
  <2> HIDE DEF A, V
  <2>4. ASSUME NEW X PROVE X \in Level2(s) <=> X \in A(Level(s)) \ {{}}
    <3>1. X \in Level2(s) <=> X # {} /\ \E g \in groups'[s] : X = Ids2(g)
      BY <2>0
    <3>2. X \in Level2(s) => X \in A(Level(s))
      BY <2>1, <3>1, Zenon
    <3>3. X \in A(Level(s)) => \E g \in groups'[s] : X = Ids2(g)
      BY <2>2, <2>3, Zenon
    <3> QED BY <3>1, <3>2, <3>3
  <2> QED BY <2>4
<1>14. \A s \in path_sgl : s \notin path_sgl' => Level2(s) = {}
  BY <1>3 DEF Level
<1>15. A({}) = {}
  OBVIOUS
<1>16. part' = Abstract!Trim({A(G) : G \in part})
  <2> HIDE DEF A, Level2
  <2>1. Abstract!Trim({A(G) : G \in part}) = {A(G) \ {{}} : G \in part} \ {{}}
    BY DEF Abstract!Trim
  <2>2. \A X : X \in part' <=> X # {} /\ \E s \in path_sgl' : X = Level2(s)
    BY <1>5
  <2>3. \A X : X \in part' <=> X # {} /\ \E s \in path_sgl : X = Level2(s)
    BY <1>3, <1>14, <2>2
  <2>4. \A X : X \in part' <=> X # {} /\ \E s \in path_sgl : X = A(Level(s)) \ {{}}
    <3>1. \A s \in path_sgl : Level2(s) = A(Level(s)) \ {{}}
      BY <1>13
    <3> DEFINE B(s) == A(Level(s)) \ {{}}
    <3>2. \A s \in path_sgl : Level2(s) = B(s)
      BY <3>1
    <3> HIDE DEF B
    <3>3. \A X : X \in part' <=> X # {} /\ \E s \in path_sgl : X = B(s)
      BY <2>3, <3>2
    <3> QED BY <3>3 DEF B
  <2>5. \A X : X \in {A(G) \ {{}} : G \in part} \ {{}} <=> X # {} /\ \E s \in path_sgl : X = A(Level(s)) \ {{}}
    BY <1>4, <1>15
  <2> QED BY <2>1, <2>4, <2>5
<1>17. Abstract!Combine(S, D)
  <2>1. D \in S
    BY <1>3
  <2> HIDE DEF S, D
  <2> QED BY <1>8, <1>16, <2>1, AbstractCardinality, Zenon DEF Abstract!Combine
<1> QED BY <1>3, <1>7, <1>17

\* "Combine nodes" in the ungrouped view is Grouping's Gather.
LEMMA MoveImplements ==
  ASSUME PublicInv, Distinct, NEW sel \in SUBSET Nids, move_nodes_to_ng(sel)
  PROVE  \E found \in SUBSET Abstract!Covered(part) : \E G0 \in part : Abstract!Gather(found, G0)
<1> DEFINE found == sel \cap Located
<1>1. phase = "ready" /\ phase' = "ready" /\ TypeOK /\ nid' = nid
  BY DEF move_nodes_to_ng, PublicInv, TypeInv
<1>2. PICK n0 \in found : \E new \in NGs : \E s0 \in path_sgl : MoveClean(found, n0, new, s0)
  BY MoveCleanFacts
<1>3. PICK new \in NGs : \E s0 \in path_sgl : MoveClean(found, n0, new, s0)
  BY <1>2
<1>4. PICK s0 \in path_sgl : MoveClean(found, n0, new, s0)
  BY <1>3
<1> HIDE DEF found
<1> DEFINE Ids2(g) == {nid[d] : d \in nodes'[g]}
           Level2(s) == {Ids2(g) : g \in groups'[s]} \ {{}}
           G0 == Level(s0)
           A(G) == {b \ found : b \in G} \cup (IF G = G0 THEN {found} ELSE {})
<1>5. part = {Level(s) : s \in path_sgl} \ {{}}
  BY <1>1, PartFact DEF PublicInv
<1>6. part' = {Level2(s) : s \in path_sgl'} \ {{}}
  BY <1>1 DEF part
<1>7. \A s \in path_sgl : \A g \in groups[s] : Ids2(g) = Ids(g) \ found
  BY <1>4 DEF MoveClean, Ids
<1>8. Ids2(new) = found /\ found # {}
  BY <1>4 DEF MoveClean
<1>9. PICK g0 \in groups[s0] : n0 \in Ids(g0)
  BY <1>4 DEF MoveClean, Ids
<1>10. Ids(g0) \in G0
  BY <1>9, LevelFact
<1>11. G0 \in part
  BY <1>5, <1>10
<1>12. found \subseteq Abstract!Covered(part)
  <2> SUFFICES ASSUME NEW n \in found PROVE n \in Abstract!Covered(part)
    OBVIOUS
  <2>1. PICK s \in path_sgl : \E g \in groups[s] : \E d \in nodes[g] : nid[d] = n
    BY <1>4 DEF MoveClean
  <2>2. PICK g \in groups[s] : n \in Ids(g)
    BY <2>1 DEF Ids
  <2>3. Ids(g) \in Level(s)
    BY <2>2, LevelFact
  <2>4. Level(s) \in part
    BY <1>5, <2>3
  <2> QED BY <2>2, <2>3, <2>4 DEF Abstract!Covered
<1>13. ASSUME NEW s \in path_sgl PROVE Level2(s) = A(Level(s)) \ {{}}
  <2>0. \A X : X \in Level2(s) <=> X # {} /\ \E g \in groups'[s] : X = Ids2(g)
    OBVIOUS
  <2>1. \A X : X \in A(Level(s)) <=> (\E b \in Level(s) : X = b \ found) \/ (Level(s) = G0 /\ X = found)
    OBVIOUS
  <2>2. \A g \in groups[s] : Ids2(g) # {} => g \in groups'[s]
    BY <1>4 DEF MoveClean
  <2>3. \A g \in groups'[s] : g \in groups[s] \/ (s = s0 /\ g = new)
    BY <1>4 DEF MoveClean
  <2>4. new \in groups'[s0]
    BY <1>4 DEF MoveClean
  <2> HIDE DEF A, Ids2, Level2
  <2>5. ASSUME NEW g \in groups'[s], Ids2(g) # {} PROVE Ids2(g) \in A(Level(s))
    <3>1. CASE g \in groups[s]
      <4>1. Ids2(g) = Ids(g) \ found /\ Ids(g) # {}
        BY <1>7, <2>5, <3>1
      <4>2. Ids(g) \in Level(s)
        BY <3>1, <4>1, LevelFact
      <4> QED BY <2>1, <4>1, <4>2
    <3>2. CASE s = s0 /\ g = new
      BY <1>8, <2>1, <3>2
    <3> QED BY <2>3, <3>1, <3>2
  <2>6. ASSUME NEW b \in Level(s), b \ found # {} PROVE \E g \in groups'[s] : b \ found = Ids2(g)
    <3>1. PICK g \in groups[s] : b = Ids(g)
      BY LevelFact
    <3>2. Ids2(g) = b \ found
      BY <1>7, <3>1
    <3> QED BY <2>2, <2>6, <3>1, <3>2
  <2>7. ASSUME Level(s) = G0 PROVE s = s0
    <3>1. PICK g \in groups[s] : Ids(g0) = Ids(g)
      BY <1>10, <2>7, LevelFact
    <3> QED BY <1>9, <3>1, SamePlace
  <2>8. ASSUME NEW X PROVE X \in Level2(s) <=> X \in A(Level(s)) \ {{}}
    <3>1. X \in Level2(s) => X \in A(Level(s))
      BY <2>0, <2>5, Zenon
    <3>2. X \in A(Level(s)) /\ X # {} => \E g \in groups'[s] : X = Ids2(g)
      <4> SUFFICES ASSUME X \in A(Level(s)), X # {} PROVE \E g \in groups'[s] : X = Ids2(g)
        OBVIOUS
      <4>1. CASE \E b \in Level(s) : X = b \ found
        BY <2>6, <4>1, Zenon
      <4>2. CASE Level(s) = G0 /\ X = found
        BY <1>8, <2>4, <2>7, <4>2
      <4> QED BY <2>1, <4>1, <4>2
    <3> QED BY <2>0, <3>1, <3>2
  <2> QED BY <2>8
<1>14. path_sgl' \subseteq path_sgl /\ \A s \in path_sgl : s \notin path_sgl' => Level2(s) = {}
  BY <1>4 DEF MoveClean
<1>15. A({}) = {}
  BY <1>10
<1>16. part' = Abstract!Trim({A(G) : G \in part})
  <2> HIDE DEF A, Level2, G0
  <2>1. Abstract!Trim({A(G) : G \in part}) = {A(G) \ {{}} : G \in part} \ {{}}
    BY DEF Abstract!Trim
  <2>2. \A X : X \in part' <=> X # {} /\ \E s \in path_sgl' : X = Level2(s)
    BY <1>6
  <2>3. \A X : X \in part' <=> X # {} /\ \E s \in path_sgl : X = Level2(s)
    BY <1>14, <2>2
  <2>4. \A X : X \in part' <=> X # {} /\ \E s \in path_sgl : X = A(Level(s)) \ {{}}
    <3> DEFINE B(s) == A(Level(s)) \ {{}}
    <3>2. \A s \in path_sgl : Level2(s) = B(s)
      BY <1>13
    <3> HIDE DEF B
    <3>3. \A X : X \in part' <=> X # {} /\ \E s \in path_sgl : X = B(s)
      BY <2>3, <3>2
    <3> QED BY <3>3 DEF B
  <2>5. \A X : X \in {A(G) \ {{}} : G \in part} \ {{}} <=> X # {} /\ \E s \in path_sgl : X = A(Level(s)) \ {{}}
    BY <1>5, <1>15
  <2> QED BY <2>1, <2>4, <2>5
<1>17. \E n \in found \cap UNION G0 : \A m \in found : n <= m
  BY <1>4, <1>9, <1>10 DEF MoveClean
<1>18. Abstract!Gather(found, G0)
  <2> HIDE DEF G0
  <2> QED BY <1>11, <1>12, <1>16, <1>17, Zenon DEF Abstract!Gather
<1> QED BY <1>11, <1>12, <1>18

\* In the shipped build and on clean input the manager implements Grouping:
\* every load ends with a partition of the blocks of the function into groups
\* and of these into super groups, and "Combine nodes" does to it exactly what
\* it says, whatever order of loads and regroupings led there.
THEOREM ManagerImplements == ASSUME PublicBuild, CleanInput PROVE Spec => Refines
<1>1. Init => Abstract!Init
  BY DEF Init, Abstract!Init, part
<1>2. CleanInv' /\ phase' = "ready" => part' # {} /\ Abstract!IsGrouping(part')
  <2>1. (CleanInv /\ phase = "ready" => part # {} /\ Abstract!IsGrouping(part))'
    BY PartGrouping, PTL
  <2> QED BY <2>1 DEF Abstract!IsGrouping, Abstract!TwoLevel, Abstract!Covered
<1>3. ASSUME CleanInv, CleanInv', [Next]_vars PROVE [Abstract!Next]_part
  <2>1. PublicInv /\ Distinct /\ phase \in PublicPhases /\ phase' \in PublicPhases
    BY <1>3 DEF CleanInv, PublicInv
  <2>2. (phase # "ready" => part = {}) /\ (phase' # "ready" => part' = {})
    BY <2>1 DEF part, PublicPhases
  <2>3. CASE UNCHANGED vars
    BY <2>3 DEF vars, tree, heap, locals, part, Known
  <2>4. CASE FinishSanitize
    <3>1. phase = "sanitize" /\ phase' = "ready"
      BY <2>4 DEF FinishSanitize
    <3>2. Abstract!Load
      BY <1>2, <1>3, <2>2, <3>1 DEF Abstract!Load
    <3> QED BY <3>2 DEF Abstract!Next
  <2>5. CASE Load /\ ~FinishSanitize
    <3>1. phase' # "ready"
      BY <2>5 DEF Load, StartParse, StartBuild, StartLoad, Destroy, add_supergroup, add_nodegroup,
                  SwitchSection, add_node, BeginSanitize, SanitizeNode, Loading
    <3>2. Abstract!Unload
      BY <2>2, <3>1 DEF Abstract!Unload
    <3> QED BY <3>2 DEF Abstract!Next
  <2>6. CASE Regroup
    <3>1. ASSUME NEW ngl \in SUBSET ShownNGs, combine_ngl(ngl) PROVE Abstract!Next
      <4>1. \E S \in SUBSET UNION part : \E dest \in S : Abstract!Combine(S, dest)
        BY <2>1, <3>1, CombineImplements
      <4> QED BY <4>1, Zenon DEF Abstract!Next
    <3>2. ASSUME NEW sel \in SUBSET Nids, move_nodes_to_ng(sel) PROVE Abstract!Next
      <4>1. \E found \in SUBSET Abstract!Covered(part) : \E G0 \in part : Abstract!Gather(found, G0)
        BY <2>1, <3>2, MoveImplements
      <4> QED BY <4>1, Zenon DEF Abstract!Next
    <3> QED BY <2>1, <2>6, <3>1, <3>2, PublicRegroup
  <2> QED BY <1>3, <2>3, <2>4, <2>5, <2>6 DEF Next
<1> QED BY <1>1, <1>3, CleanAlways, PTL DEF Spec, Refines, Abstract!Spec
=============================================================================
