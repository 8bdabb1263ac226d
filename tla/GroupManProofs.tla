--------------------------- MODULE GroupManProofs ---------------------------
(* Theorems about GroupMan, for every value of its constants. *)
EXTENDS GroupMan, TLAPS

-----------------------------------------------------------------------------
(* Facts about the operators *)

\* A fresh address comes from the pool and is not in use.
LEMMA FreshSG == CanNewSG => FreeSG \in SGs /\ FreeSG \notin liveSG
BY DEF CanNewSG, FreeSG

\* The same for node groups.
LEMMA FreshNG == CanNewNG => FreeNG \in NGs /\ FreeNG \notin liveNG
BY DEF CanNewNG, FreeNG

\* The same for node definitions.
LEMMA FreshND == CanNewND => FreeND \in NDs /\ FreeND \notin liveND
BY DEF CanNewND, FreeND

\* A location initialize_lookups() meets is a place in the tree it walks.
LEMMA LocationsFact ==
  ASSUME NEW n, NEW path, NEW gr, NEW no, NEW id,
         NEW l \in Locations(n, path, gr, no, id)
  PROVE  /\ l = [sg |-> l.sg, ng |-> l.ng, nd |-> l.nd]
         /\ l.sg \in path /\ l.ng \in gr[l.sg] /\ l.ng \in NGs
         /\ l.nd \in no[l.ng] /\ id[l.nd] = n
<1>1. PICK p \in {q \in path \X NGs : q[2] \in gr[q[1]]} :
        l \in {[sg |-> p[1], ng |-> p[2], nd |-> d] : d \in {e \in no[p[2]] : id[e] = n}}
  BY DEF Locations
<1>2. PICK d \in {e \in no[p[2]] : id[e] = n} : l = [sg |-> p[1], ng |-> p[2], nd |-> d]
  BY <1>1
<1> QED BY <1>1, <1>2

\* What initialize_lookups() leaves satisfies IsLookup, and has its type.
LEMMA LookupsFact ==
  ASSUME NEW path \in SUBSET SGs, NEW gr \in [SGs -> SUBSET NGs],
         NEW no \in [NGs -> SUBSET NDs], NEW id,
         NEW m \in Lookups(path, gr, no, id)
  PROVE  IsLookup(m, path, gr, no, id) /\ m \in [Nids -> Loc \cup {NULL}]
<1>1. \A n \in Nids : m[n] \in LookupsOf(n, path, gr, no, id)
  <2> TAKE n \in Nids
  <2> DEFINE choices == {<<k, LookupsOf(k, path, gr, no, id)>> : k \in Nids}
  <2>1. \A c \in choices : m[c[1]] \in c[2]
    BY DEF Lookups
  <2>2. <<n, LookupsOf(n, path, gr, no, id)>> \in choices
    OBVIOUS
  <2> QED BY <2>1, <2>2
<1>2. m = [n \in Nids |-> m[n]]
  BY DEF Lookups
<1>3. \A n \in Nids : m[n] \in Loc \cup {NULL}
  <2> TAKE n \in Nids
  <2>1. CASE m[n] \in Locations(n, path, gr, no, id)
    BY <2>1, LocationsFact DEF Loc
  <2> QED BY <1>1, <2>1 DEF LookupsOf
<1> QED BY <1>1, <1>2, <1>3 DEF IsLookup

\* The groups combine_ngl empties into the destination.
Others(ngl, dest) == {g \in ngl \ {dest} : nodes[g] # {}}

\* What combine_ngl does to the tree, once the destination is chosen and a super
\* group is found for each of the others.
CombineInto(ngl, dest, home) ==
    /\ \A g \in Others(ngl, dest) : home[g] \in HomeOf(g)
    /\ nodes' = [g \in NGs |->
          IF g = dest THEN nodes[g] \cup UNION {nodes[h] : h \in Others(ngl, dest)}
          ELSE IF g \in Others(ngl, dest) THEN {} ELSE nodes[g]]
    /\ groups' = [s \in SGs |-> groups[s] \ RemovedFrom(s, Others(ngl, dest), home)]
    /\ path_sgl' = path_sgl \ {s \in SGs : /\ RemovedFrom(s, Others(ngl, dest), home) # {}
                                           /\ groups'[s] = {}}

\* combine_ngl picks one of its biggest groups and combines into it.
LEMMA CombineShape ==
  ASSUME NEW ngl, combine_ngl(ngl)
  PROVE  \E dest \in find_biggest(ngl) : \E home \in [Others(ngl, dest) -> SGs] : CombineInto(ngl, dest, home)
BY Zenon DEF combine_ngl, CombineInto, Others

\* The same, member by member.
Combined(ngl, dest, home) ==
    LET others == Others(ngl, dest) IN
    /\ dest \notin others
    /\ \A g \in others : home[g] \in HomeOf(g)
    /\ \A g \in NGs : g # dest /\ g \notin others => nodes'[g] = nodes[g]
    /\ \A g \in others : nodes'[g] = {}
    /\ \A d : d \in nodes'[dest] <=> d \in nodes[dest] \/ \E h \in others : d \in nodes[h]
    /\ \A s \in SGs : \A g : g \in groups'[s] <=> g \in groups[s] /\ ~(g \in others /\ home[g] = s)
    /\ \A s : s \in path_sgl' <=> s \in path_sgl /\ (groups'[s] = {} => \A g \in others : home[g] # s)

\* combine_ngl, member by member.
LEMMA CombineFacts ==
  ASSUME TypeOK, NEW ngl \in SUBSET NGs, NEW dest \in NGs,
         NEW home \in [Others(ngl, dest) -> SGs], CombineInto(ngl, dest, home)
  PROVE  Combined(ngl, dest, home)
<1> DEFINE O == Others(ngl, dest)
<1>1. O \subseteq NGs /\ dest \notin O
  BY DEF Others
<1>2. nodes' = [g \in NGs |-> IF g = dest THEN nodes[g] \cup UNION {nodes[h] : h \in O}
                              ELSE IF g \in O THEN {} ELSE nodes[g]]
  BY DEF CombineInto
<1>3. \A s \in SGs : groups'[s] = groups[s] \ RemovedFrom(s, O, home)
  BY DEF CombineInto
<1>4. path_sgl' = path_sgl \ {s \in SGs : RemovedFrom(s, O, home) # {} /\ groups'[s] = {}}
  BY DEF CombineInto
<1> HIDE DEF O
<1>5. \A g \in NGs : g # dest /\ g \notin O => nodes'[g] = nodes[g]
  BY <1>2
<1>6. \A g \in O : nodes'[g] = {}
  BY <1>1, <1>2
<1>7. nodes'[dest] = nodes[dest] \cup UNION {nodes[h] : h \in O}
  BY <1>2
<1>8. \A d : d \in nodes'[dest] <=> d \in nodes[dest] \/ \E h \in O : d \in nodes[h]
  BY <1>7
<1>9. \A s \in SGs : \A g : g \in groups'[s] <=> g \in groups[s] /\ ~(g \in O /\ home[g] = s)
  BY <1>3 DEF RemovedFrom
<1>10. \A s : s \in path_sgl' <=> s \in path_sgl /\ (groups'[s] = {} => \A g \in O : home[g] # s)
  BY <1>4 DEF RemovedFrom, TypeOK
<1>11. \A g \in O : home[g] \in HomeOf(g)
  BY DEF CombineInto, O
<1> QED BY <1>1, <1>5, <1>6, <1>8, <1>9, <1>10, <1>11 DEF O, Combined

-----------------------------------------------------------------------------
(* Type correctness *)

\* TypeOK is not inductive: a handler that runs must find no location in freed
\* memory, the reset only visits node ids that are mapped, and sanitize has
\* made missing_sg.
TypeInv ==
    /\ TypeOK
    /\ phase \notin {"new", "parse", "build", "sanitize"} => \A n \in Nids : nid2loc[n] # Dangling
    /\ phase = "reset" => \A n \in todo : all_nodes[n] # NULL
    /\ phase = "sanitize" => cur_sg # NULL

\* The initial state is well typed.
LEMMA TypeInit == Init => TypeInv
BY NidsAssumption DEF Init, TypeInv, TypeOK, Phases, Blocks

\* Every step preserves the types.
LEMMA TypeStep == TypeInv /\ [Next]_vars => TypeInv'
<1> SUFFICES ASSUME TypeInv, [Next]_vars PROVE TypeInv'
  OBVIOUS
<1> USE DEF TypeInv, TypeOK
<1>0. NBlocks \in Nat /\ 0 \in Nids
  BY NidsAssumption DEF Blocks
<1>1. ASSUME NEW p \in {"parse", "build"}, StartLoad(p) PROVE TypeInv'
  <2>1. (Loc \cup {NULL, Dangling})' = Loc \cup {NULL, Dangling}
    OBVIOUS
  <2>2. groups' \in [SGs -> SUBSET NGs] /\ nodes' \in [NGs -> SUBSET NDs] /\ nid' \in [NDs -> Nids]
    BY <1>0, <1>1 DEF StartLoad, clear, DeleteSGs
  <2> QED BY <1>0, <1>1, <2>2 DEF StartLoad, clear, DeleteSGs, ResetLocals, Phases
<1>2. CASE Destroy
  <2>1. groups' \in [SGs -> SUBSET NGs] /\ nodes' \in [NGs -> SUBSET NDs] /\ nid' \in [NDs -> Nids]
    BY <1>0, <1>2 DEF Destroy, clear, DeleteSGs
  <2> QED BY <1>0, <1>2, <2>1 DEF Destroy, clear, DeleteSGs, ResetLocals, Phases
<1>3. CASE add_supergroup
  BY <1>3, FreshSG DEF add_supergroup, Loading
<1>4. CASE add_nodegroup
  BY <1>4, FreshNG DEF add_nodegroup, Loading
<1>5. ASSUME NEW x \in {"path", "similar"}, SwitchSection(x) PROVE TypeInv'
  BY <1>5 DEF SwitchSection, tree, heap
<1>6. ASSUME NEW n \in Nids, add_node(n) PROVE TypeInv'
  BY <1>6, FreshND DEF add_node, locals, Loading
<1>7. CASE BeginSanitize
  BY <1>0, <1>7, FreshSG, NullAssumption DEF BeginSanitize, Phases, Loading
<1>8. CASE SanitizeNode
  <2>1. cursor \in Nids /\ cursor' \in 0 .. NBlocks
    BY <1>0, <1>8, NidsAssumption DEF SanitizeNode, Blocks
  <2>2. CASE all_nodes[cursor] # NULL
    BY <1>8, <2>1, <2>2 DEF SanitizeNode
  <2>3. CASE all_nodes[cursor] = NULL
    <3>1. groups' \in [SGs -> SUBSET NGs] /\ nodes' \in [NGs -> SUBSET NDs] /\ nid' \in [NDs -> Nids]
      BY <1>8, <2>1, <2>3, FreshNG, FreshND DEF SanitizeNode
    <3> QED BY <1>8, <2>1, <2>3, <3>1, FreshNG, FreshND DEF SanitizeNode
  <2> QED BY <2>2, <2>3
<1>9. CASE FinishSanitize
  <2>1. path_sgl' \in SUBSET SGs /\ UNCHANGED <<groups, nodes, nid>>
    BY <1>9 DEF FinishSanitize
  <2>2. nid2loc' \in [Nids -> Loc \cup {NULL}]
    BY <1>9, <2>1, LookupsFact DEF FinishSanitize, initialize_lookups
  <2>3. \A n \in Nids : nid2loc'[n] # Dangling
    BY <2>2, NullAssumption
  <2> QED BY <1>0, <1>9, <2>1, <2>2, <2>3 DEF FinishSanitize, ResetLocals, Phases
<1>10. ASSUME NEW ngl \in SUBSET ShownNGs, combine_ngl(ngl) PROVE TypeInv'
  <2>1. path_sgl' \in SUBSET SGs /\ groups' \in [SGs -> SUBSET NGs] /\ nodes' \in [NGs -> SUBSET NDs]
    <3>0. PICK dest \in find_biggest(ngl) : \E home \in [Others(ngl, dest) -> SGs] : CombineInto(ngl, dest, home)
      BY <1>10, CombineShape
    <3>1. PICK home \in [Others(ngl, dest) -> SGs] : CombineInto(ngl, dest, home)
      BY <3>0
    <3>2. Others(ngl, dest) \subseteq NGs
      BY <1>10 DEF ShownNGs, Located, combine_ngl, Loc, Others
    <3> QED BY <3>1, <3>2 DEF CombineInto
  <2>2. nid2loc' \in [Nids -> Loc \cup {NULL}]
    BY <1>10, <2>1, LookupsFact DEF combine_ngl, initialize_lookups
  <2>3. \A n \in Nids : nid2loc'[n] # Dangling
    BY <2>2, NullAssumption
  <2> QED BY <1>10, <2>1, <2>2, <2>3 DEF combine_ngl, heap, locals
<1>11. ASSUME NEW sel \in SUBSET Nids, move_nodes_to_ng(sel) PROVE TypeInv'
  <2> DEFINE found == sel \cap Located
  <2>1. \A n \in found : nid2loc[n] \in Loc
    BY <1>11 DEF move_nodes_to_ng, Located
  <2>2. FreeNG \in NGs
    BY <1>11, FreshNG DEF move_nodes_to_ng
  <2>3. nodes' \in [NGs -> SUBSET NDs]
    <3>1. nodes' = [g \in NGs |-> IF g = FreeNG THEN {nid2loc[n].nd : n \in found}
                                       ELSE nodes[g] \ TakenFrom(g, found)]
      BY <1>11 DEF move_nodes_to_ng
    <3>2. {nid2loc[n].nd : n \in found} \subseteq NDs
      BY <2>1 DEF Loc
    <3> QED BY <3>1, <3>2
  <2>4. groups' \in [SGs -> SUBSET NGs]
    BY <1>11, <2>2 DEF move_nodes_to_ng
  <2>5. path_sgl' \in SUBSET SGs /\ liveSG' \in SUBSET SGs /\ liveNG' \in SUBSET NGs
    BY <1>11, <2>2 DEF move_nodes_to_ng
  <2>6. nid2loc' \in [Nids -> Loc \cup {NULL}]
    BY <1>11, <2>3, <2>4, <2>5, LookupsFact DEF move_nodes_to_ng, initialize_lookups
  <2>7. \A n \in Nids : nid2loc'[n] # Dangling
    BY <2>6, NullAssumption
  <2> QED BY <1>11, <2>3, <2>4, <2>5, <2>6, <2>7 DEF move_nodes_to_ng, locals
<1>12. ASSUME NEW sel \in SUBSET Blocks, BeginOwn(sel) PROVE TypeInv'
  BY <1>12, NidsAssumption DEF BeginOwn, tree, heap, Phases
<1>13. ASSUME NEW n \in todo, OwnNode(n) PROVE TypeInv'
  <2>1. nid2loc[n] \in Loc \cup {NULL} /\ phase = "own"
    BY <1>13 DEF OwnNode
  <2>2. CASE phase' = "ready" /\ todo' = {} /\ UNCHANGED <<groups, nodes, liveNG>>
    BY <1>13, <2>1, <2>2 DEF OwnNode, Phases
  <2>3. CASE UNCHANGED <<groups, nodes, liveNG, phase>> /\ todo' = todo \ {n}
    BY <1>13, <2>1, <2>3 DEF OwnNode, Phases
  <2>4. CASE /\ nid2loc[n] # NULL /\ CanNewNG /\ todo' = todo \ {n} /\ UNCHANGED phase
             /\ liveNG' = liveNG \cup {FreeNG}
             /\ nodes' = [nodes EXCEPT ![nid2loc[n].ng] = @ \ {nid2loc[n].nd},
                                       ![FreeNG] = {nid2loc[n].nd}]
             /\ groups' = [groups EXCEPT ![nid2loc[n].sg] = @ \cup {FreeNG}]
    <3>1. nid2loc[n].sg \in SGs /\ nid2loc[n].ng \in NGs /\ nid2loc[n].nd \in NDs
      BY <2>1, <2>4 DEF Loc
    <3>2. groups' \in [SGs -> SUBSET NGs] /\ nodes' \in [NGs -> SUBSET NDs]
      BY <2>4, <3>1, FreshNG
    <3> QED BY <1>13, <2>1, <2>4, <3>2, FreshNG DEF OwnNode, Phases
  <2> QED BY <1>13, <2>2, <2>3, <2>4 DEF OwnNode
<1>14. ASSUME NEW p \in {"ownc", "promote"}, NEW ngl \in SUBSET ShownNGs, BeginNGLoop(p, ngl)
       PROVE  TypeInv'
  <2>1. ngl \subseteq NGs
    BY <1>14 DEF ShownNGs, Located, BeginNGLoop, Loc
  <2>2. found_ng' \in SUBSET (NGs \X SGs)
    BY <1>14, <2>1 DEF BeginNGLoop
  <2> QED BY <1>14, <2>2 DEF BeginNGLoop, tree, heap, Phases
<1>15. ASSUME NEW q \in found_ng, OwnCombined(q[1], q[2]) PROVE TypeInv'
  <2>1. q[1] \in NGs /\ q[2] \in SGs
    OBVIOUS
  <2>2. groups' \in [SGs -> SUBSET NGs] /\ nodes' \in [NGs -> SUBSET NDs] /\ liveNG' \in SUBSET NGs
    BY <1>15, <2>1, FreshNG DEF OwnCombined
  <2> QED BY <1>15, <2>2 DEF OwnCombined
<1>16. ASSUME NEW q \in found_ng, Promote(q[1], q[2]) PROVE TypeInv'
  <2>1. q[1] \in NGs /\ q[2] \in SGs
    OBVIOUS
  <2>2. groups' \in [SGs -> SUBSET NGs] /\ path_sgl' \in SUBSET SGs /\ liveSG' \in SUBSET SGs
    BY <1>16, <2>1, FreshSG DEF Promote
  <2> QED BY <1>16, <2>2 DEF Promote
<1>17. CASE BeginReset
  <2>1. groups' \in [SGs -> SUBSET NGs] /\ nodes' \in [NGs -> SUBSET NDs]
    BY <1>17 DEF BeginReset
  <2> QED BY <1>17, <2>1 DEF BeginReset, Known, Phases
<1>18. ASSUME NEW n \in todo, ResetNode(n) PROVE TypeInv'
  <2>1. all_nodes[n] \in NDs
    BY <1>18 DEF ResetNode
  <2>2. groups' \in [SGs -> SUBSET NGs] /\ nodes' \in [NGs -> SUBSET NDs]
    BY <1>18, <2>1, FreshSG, FreshNG DEF ResetNode
  <2> QED BY <1>18, <2>2, FreshSG, FreshNG DEF ResetNode
<1>19. CASE FinishLoop
  <2>1. nid2loc' \in [Nids -> Loc \cup {NULL}]
    BY <1>19, LookupsFact DEF FinishLoop, initialize_lookups, tree
  <2>2. \A n \in Nids : nid2loc'[n] # Dangling
    BY <2>1, NullAssumption
  <2> QED BY <1>19, <2>1, <2>2 DEF FinishLoop, tree, heap, locals, Phases
<1>20. CASE UNCHANGED vars
  BY <1>20 DEF vars, tree, heap, locals
<1>21. CASE Load
  BY <1>1, <1>2, <1>3, <1>4, <1>5, <1>6, <1>7, <1>8, <1>9, <1>21 DEF Load, StartParse, StartBuild
<1>21f. CASE phase = "ready" /\ Fault
  BY <1>21f DEF Fault, tree, heap, locals, Phases
<1>22. CASE Regroup
  BY <1>10, <1>11, <1>12, <1>13, <1>14, <1>15, <1>16, <1>17, <1>18, <1>19, <1>21f, <1>22
     DEF Regroup, BeginOwnCombined, BeginPromote, move_nodes_to_ng_fault, BeginReset_fault
<1> QED BY <1>20, <1>21, <1>22 DEF Next

\* Type correctness, whatever menu items are compiled in and whatever is loaded.
THEOREM TypeCorrect == Spec => []TypeOK
<1>1. TypeInv => TypeOK
  BY DEF TypeInv
<1> QED BY <1>1, TypeInit, TypeStep, PTL DEF Spec

-----------------------------------------------------------------------------
(* Ownership and the lookups, in the build that is shipped *)

\* The build with PUBLIC defined: of the regrouping items only "combine" is left.
PublicBuild == Menu \subseteq {"combine"}

\* The super groups somebody owns: those of the lists, and missing_sg while
\* sanitize_groupman fills it.
Held == Roots \cup (IF phase = "sanitize" THEN {cur_sg} ELSE {})

\* What is owned is allocated, and nothing else has contents.
Owned ==
    /\ Held \subseteq liveSG
    /\ \A s \in SGs : groups[s] \subseteq liveNG /\ (s \notin Held => groups[s] = {})
    /\ \A g \in NGs : nodes[g] \subseteq liveND /\ (nodes[g] # {} => \E s \in SGs : g \in groups[s])
    /\ \A n \in Nids : all_nodes[n] # NULL => all_nodes[n] \in liveND

\* Nothing has two owners.
Disjoint ==
    /\ path_sgl \cap similar_sgl = {}
    /\ phase = "sanitize" => cur_sg \notin Roots
    /\ \A s, t \in SGs : \A g \in NGs : g \in groups[s] /\ g \in groups[t] => s = t
    /\ \A g, h \in NGs : \A d \in NDs : d \in nodes[g] /\ d \in nodes[h] => g = h

\* The objects a loader fills are owned.
Filling ==
    Loading => /\ cur_sg # NULL => cur_sg \in Roots
               /\ cur_ng # NULL => cur_sg # NULL /\ cur_ng \in groups[cur_sg]

PublicPhases == {"new", "parse", "build", "sanitize", "ready"}

\* The inductive invariant: HeapSafe, SingleOwner and LookupsCoherent follow.
PublicInv ==
    /\ TypeInv /\ phase \in PublicPhases /\ todo = {} /\ found_ng = {}
    /\ Owned /\ Disjoint /\ Filling /\ LookupsCoherent

\* A coherent lookup that finds n names a place in the path list that holds n.
LEMMA LocFact ==
  ASSUME TypeOK, IsLookup(nid2loc, path_sgl, groups, nodes, nid),
         NEW n \in Nids, nid2loc[n] # NULL
  PROVE  /\ nid2loc[n] \in Loc
         /\ nid2loc[n].sg \in path_sgl /\ nid2loc[n].ng \in groups[nid2loc[n].sg]
         /\ nid2loc[n].nd \in nodes[nid2loc[n].ng] /\ nid[nid2loc[n].nd] = n
<1>1. nid2loc[n] \in Locations(n, path_sgl, groups, nodes, nid)
  BY DEF IsLookup, LookupsOf
<1> QED BY <1>1, LocationsFact DEF TypeOK, Loc

\* The rebuilt cache is coherent with the tree the step leaves.
LEMMA LookupsRebuilt ==
  ASSUME TypeOK', initialize_lookups PROVE LookupsCoherent'
<1>1. IsLookup(nid2loc', path_sgl', groups', nodes', nid')
  BY LookupsFact DEF TypeOK, initialize_lookups
<1> QED BY <1>1 DEF LookupsCoherent

\* The initial state.
LEMMA PublicInit == Init => PublicInv
BY TypeInit DEF Init, PublicInv, PublicPhases, Owned, Disjoint, Filling, LookupsCoherent,
                Held, Roots, Loading

\* clear() deletes all that is owned and leaves nothing behind.
LEMMA ClearStep ==
  ASSUME PublicInv, clear, phase # "sanitize", phase' \in {"new", "parse", "build"}
  PROVE  Owned' /\ Disjoint'
<1> USE DEF PublicInv, TypeInv, TypeOK
<1>1. \A s \in SGs : groups'[s] = {}
  BY DEF clear, DeleteSGs, Owned, Held, Roots
<1>2. \A g \in NGs : nodes'[g] = {}
  <2> SUFFICES ASSUME NEW g \in NGs, nodes[g] # {} PROVE nodes'[g] = {}
    BY DEF clear, DeleteSGs
  <2>1. PICK s \in SGs : g \in groups[s]
    BY DEF Owned
  <2>2. s \in path_sgl \cup similar_sgl
    BY <2>1 DEF Owned, Held, Roots
  <2>3. g \in NGsOf(path_sgl \cup similar_sgl)
    BY <2>1, <2>2 DEF NGsOf
  <2> QED BY <2>3 DEF clear, DeleteSGs
<1>3. path_sgl' = {} /\ similar_sgl' = {} /\ all_nodes' = [n \in Nids |-> NULL]
  BY DEF clear
<1> QED BY <1>1, <1>2, <1>3 DEF Owned, Disjoint, Held, Roots

\* parse() and the builders start from nothing.
LEMMA StartLoadStep ==
  ASSUME PublicInv, NEW p \in {"parse", "build"}, phase \in {"new", "ready"}, StartLoad(p), TypeInv'
  PROVE  PublicInv'
<1>1. Owned' /\ Disjoint'
  BY ClearStep DEF StartLoad
<1> QED BY <1>1 DEF StartLoad, ResetLocals, PublicInv, PublicPhases, Filling, LookupsCoherent

\* The manager is deleted.
LEMMA DestroyStep == ASSUME PublicInv, Destroy, TypeInv' PROVE PublicInv'
<1>1. Owned' /\ Disjoint'
  BY ClearStep DEF Destroy
<1> QED BY <1>1 DEF Destroy, ResetLocals, PublicInv, PublicPhases, Filling, LookupsCoherent, Loading

\* A new super group is empty and owned by one list.
LEMMA add_supergroupStep == ASSUME PublicInv, add_supergroup, TypeInv' PROVE PublicInv'
<1> USE DEF PublicInv, TypeInv, TypeOK
<1>1. FreeSG \in SGs /\ FreeSG \notin liveSG
  BY FreshSG DEF add_supergroup
<1>2. FreeSG \notin Roots /\ Roots' = Roots \cup {FreeSG}
  BY <1>1 DEF add_supergroup, Owned, Held, Roots
<1>3. groups' = groups
  BY <1>1, <1>2 DEF add_supergroup, Owned, Held, Loading
<1>4. Owned'
  BY <1>1, <1>2, <1>3 DEF add_supergroup, Owned, Held, Loading
<1>5. Disjoint'
  BY <1>1, <1>2, <1>3 DEF add_supergroup, Disjoint, Roots, Loading
<1>6. Filling' /\ LookupsCoherent'
  BY <1>2 DEF add_supergroup, Filling, LookupsCoherent, Loading
<1> QED BY <1>4, <1>5, <1>6 DEF add_supergroup, PublicPhases

\* A new node group is empty and owned by the current super group.
LEMMA add_nodegroupStep == ASSUME PublicInv, add_nodegroup, TypeInv' PROVE PublicInv'
<1> USE DEF PublicInv, TypeInv, TypeOK
<1>1. FreeNG \in NGs /\ FreeNG \notin liveNG /\ cur_sg \in SGs
  BY FreshNG DEF add_nodegroup
<1>2. \A s \in SGs : FreeNG \notin groups[s]
  BY <1>1 DEF Owned
<1>3. nodes' = nodes
  BY <1>1, <1>2 DEF add_nodegroup, Owned
<1>4. \A s \in SGs : groups'[s] = IF s = cur_sg THEN groups[s] \cup {FreeNG} ELSE groups[s]
  BY <1>1 DEF add_nodegroup
<1>5. Owned'
  BY <1>1, <1>3, <1>4 DEF add_nodegroup, Owned, Held, Roots, Loading, Filling
<1>6. Disjoint'
  BY <1>1, <1>2, <1>3, <1>4 DEF add_nodegroup, Disjoint, Roots, Loading
<1> QED BY <1>1, <1>4, <1>5, <1>6
        DEF add_nodegroup, Filling, LookupsCoherent, PublicPhases, Loading, Roots

\* A new node definition is owned by the current node group.
LEMMA add_nodeStep == ASSUME PublicInv, NEW n \in Nids, add_node(n), TypeInv' PROVE PublicInv'
<1> USE DEF PublicInv, TypeInv, TypeOK
<1>1. FreeND \in NDs /\ FreeND \notin liveND /\ cur_ng \in NGs /\ cur_sg \in SGs /\ Loading
  BY FreshND DEF add_node, Filling
<1>2. \A g \in NGs : FreeND \notin nodes[g]
  BY <1>1 DEF Owned
<1>3. \A g \in NGs : nodes'[g] = IF g = cur_ng THEN nodes[g] \cup {FreeND} ELSE nodes[g]
  <2>1. nodes' = [nodes EXCEPT ![cur_ng] = @ \cup {FreeND}] /\ nodes \in [NGs -> SUBSET NDs]
    BY DEF add_node
  <2> HIDE DEF PublicInv
  <2> QED BY <2>1
<1>4. Owned'
  <2>1. \A g \in NGs : nodes'[g] \subseteq liveND' /\ (nodes'[g] # {} => \E s \in SGs : g \in groups'[s])
    BY <1>1, <1>3 DEF add_node, Owned, Filling
  <2>2. \A m \in Nids : all_nodes'[m] # NULL => all_nodes'[m] \in liveND'
    BY <1>1 DEF add_node, Owned
  <2>3. Held' = Held
    BY DEF add_node, Held, Roots, locals
  <2> QED BY <2>1, <2>2, <2>3 DEF add_node, Owned
<1>5. Disjoint'
  BY <1>1, <1>2, <1>3 DEF add_node, Disjoint, Roots, Loading, locals
<1> QED BY <1>1, <1>4, <1>5
        DEF add_node, Filling, LookupsCoherent, PublicPhases, Loading, Roots, locals

\* missing_sg is owned by sanitize_groupman alone.
LEMMA BeginSanitizeStep == ASSUME PublicInv, BeginSanitize, TypeInv' PROVE PublicInv'
<1> USE DEF PublicInv, TypeInv, TypeOK
<1>1. FreeSG \in SGs /\ FreeSG \notin liveSG
  BY FreshSG DEF BeginSanitize
<1>2. Roots' = Roots /\ FreeSG \notin Roots /\ Held = Roots /\ Held' = Roots \cup {FreeSG}
  BY <1>1 DEF BeginSanitize, Owned, Held, Roots, Loading
<1>3. groups' = groups
  BY <1>1, <1>2 DEF BeginSanitize, Owned
<1>4. Owned'
  BY <1>1, <1>2, <1>3 DEF BeginSanitize, Owned
<1>5. Disjoint'
  BY <1>2, <1>3 DEF BeginSanitize, Disjoint
<1> QED BY <1>4, <1>5 DEF BeginSanitize, Filling, Loading, LookupsCoherent, PublicPhases

\* A missing block gets a node definition of its own in a group of its own.
LEMMA SanitizeNodeStep == ASSUME PublicInv, SanitizeNode, TypeInv' PROVE PublicInv'
<1> USE DEF PublicInv, TypeInv, TypeOK
<1>0. Filling' /\ LookupsCoherent' /\ phase' \in PublicPhases /\ todo' = {} /\ found_ng' = {}
  BY DEF SanitizeNode, Filling, Loading, LookupsCoherent, PublicPhases
<1>1. Held' = Held /\ Roots' = Roots /\ cur_sg \in Held /\ cur_sg \in SGs
  BY DEF SanitizeNode, Held, Roots
<1>2. CASE all_nodes[cursor] # NULL
  BY <1>0, <1>1, <1>2 DEF SanitizeNode, Owned, Disjoint
<1>3. CASE all_nodes[cursor] = NULL
  <2>1. /\ FreeNG \in NGs /\ FreeNG \notin liveNG
        /\ FreeND \in NDs /\ FreeND \notin liveND
    BY <1>3, FreshNG, FreshND DEF SanitizeNode
  <2>2. /\ \A s \in SGs : FreeNG \notin groups[s]
        /\ \A g \in NGs : FreeND \notin nodes[g]
    BY <2>1 DEF Owned
  <2>3. \A s \in SGs : groups'[s] = IF s = cur_sg THEN groups[s] \cup {FreeNG} ELSE groups[s]
    BY <1>1, <1>3, <2>1 DEF SanitizeNode
  <2>4. \A g \in NGs : nodes'[g] = IF g = FreeNG THEN {FreeND} ELSE nodes[g]
    BY <1>3, <2>1 DEF SanitizeNode
  <2>5. Owned'
    BY <1>1, <1>3, <2>1, <2>3, <2>4 DEF SanitizeNode, Owned
  <2>6. Disjoint'
    BY <1>1, <2>1, <2>2, <2>3, <2>4 DEF SanitizeNode, Disjoint
  <2> QED BY <1>0, <2>5, <2>6
<1> QED BY <1>2, <1>3

\* missing_sg passes to the path list, or is deleted if it stayed empty.
LEMMA FinishSanitizeStep == ASSUME PublicInv, FinishSanitize, TypeInv' PROVE PublicInv'
<1> USE DEF PublicInv, TypeInv, TypeOK
<1>1. LookupsCoherent'
  BY LookupsRebuilt DEF FinishSanitize
<1>2. cur_sg \in SGs /\ cur_sg \notin Roots /\ Held = Roots \cup {cur_sg} /\ Held' = Roots'
  BY DEF FinishSanitize, Held, Disjoint
<1>3. UNCHANGED <<similar_sgl, groups, nodes, nid, all_nodes, liveNG, liveND>>
  BY DEF FinishSanitize
<1>4. CASE groups[cur_sg] = {}
  <2>1. Roots' = Roots /\ liveSG' = liveSG \ {cur_sg} /\ path_sgl' = path_sgl
    BY <1>4 DEF FinishSanitize, Roots
  <2> QED BY <1>1, <1>2, <1>3, <1>4, <2>1
          DEF FinishSanitize, ResetLocals, Owned, Disjoint, Filling, Loading, PublicPhases
<1>5. CASE groups[cur_sg] # {}
  <2>1. Roots' = Held /\ liveSG' = liveSG /\ path_sgl' = path_sgl \cup {cur_sg}
    BY <1>2, <1>5 DEF FinishSanitize, Roots
  <2> QED BY <1>1, <1>2, <1>3, <2>1
          DEF FinishSanitize, ResetLocals, Owned, Disjoint, Roots, Filling, Loading, PublicPhases
<1> QED BY <1>4, <1>5

\* The shown node groups are node groups of the path list.
LEMMA ShownFact ==
  ASSUME PublicInv, phase = "ready", NEW g \in ShownNGs
  PROVE  g \in NGs /\ \E s \in path_sgl : g \in groups[s]
<1>1. PICK n \in Nids : nid2loc[n] # NULL /\ g = nid2loc[n].ng
  BY DEF ShownNGs, Located
<1> QED BY <1>1, LocFact DEF PublicInv, TypeInv, TypeOK, LookupsCoherent, Loc

\* Combining moves nodes between node groups, and drops groups that are empty.
LEMMA combine_nglStep ==
  ASSUME PublicInv, NEW ngl \in SUBSET ShownNGs, combine_ngl(ngl), TypeInv'
  PROVE  PublicInv'
<1> USE DEF PublicInv, TypeInv, TypeOK
<1>1. phase = "ready" /\ LookupsCoherent'
  BY LookupsRebuilt DEF combine_ngl
<1>2. UNCHANGED <<similar_sgl, nid, all_nodes, liveSG, liveNG, liveND, phase,
                  section, cur_sg, cur_ng, cursor, todo, found_ng>>
  BY DEF combine_ngl, heap, locals
<1>0. PICK dest \in find_biggest(ngl) : \E home \in [Others(ngl, dest) -> SGs] : CombineInto(ngl, dest, home)
  BY CombineShape
<1>3. PICK home \in [Others(ngl, dest) -> SGs] : CombineInto(ngl, dest, home)
  BY <1>0
<1> DEFINE others == Others(ngl, dest)
<1>4. ngl \subseteq NGs /\ dest \in NGs /\ others \subseteq NGs /\ \E s \in path_sgl : dest \in groups[s]
  BY <1>1, ShownFact DEF find_biggest, Others
<1>5. Combined(ngl, dest, home)
  <2> HIDE DEF PublicInv, TypeInv, TypeOK
  <2>1. TypeOK /\ ngl \in SUBSET NGs
    BY <1>4 DEF PublicInv, TypeInv
  <2> QED BY <1>3, <1>4, <2>1, CombineFacts
<1> HIDE DEF others
<1>6. \A s \in SGs : groups'[s] \subseteq groups[s] /\ \A g \in groups[s] : g \notin groups'[s] => g \in others
  BY <1>5 DEF Combined, others
<1>7. \A g \in NGs : \A d \in nodes'[g] :
        (d \in nodes[g] /\ g \notin others) \/ (g = dest /\ \E h \in others : d \in nodes[h])
  BY <1>5 DEF Combined, others
<1>8. Owned'
  <2>1. Held' \subseteq liveSG' /\ \A s \in SGs : groups'[s] \subseteq liveNG'
    BY <1>1, <1>2, <1>5, <1>6 DEF Owned, Held, Roots, Combined
  <2>2. \A s \in SGs : s \notin Held' => groups'[s] = {}
    BY <1>1, <1>2, <1>5, <1>6 DEF Owned, Held, Roots, Combined
  <2>3. \A g \in NGs : nodes'[g] \subseteq liveND'
    BY <1>2, <1>4, <1>7 DEF Owned
  <2>4. \A g \in NGs : nodes'[g] # {} => \E s \in SGs : g \in groups'[s]
    <3> SUFFICES ASSUME NEW g \in NGs, nodes'[g] # {} PROVE \E s \in SGs : g \in groups'[s]
      OBVIOUS
    <3>1. g \notin others
      BY <1>5, <1>7 DEF Combined, others
    <3>2. PICK s \in SGs : g \in groups[s]
      BY <1>4, <1>7 DEF Owned
    <3> QED BY <1>6, <3>1, <3>2
  <2> QED BY <1>2, <2>1, <2>2, <2>3, <2>4 DEF Owned
<1>9. Disjoint'
  <2>1. \A g, h \in NGs : \A d \in NDs : d \in nodes'[g] /\ d \in nodes'[h] => g = h
    BY <1>4, <1>7 DEF Disjoint
  <2> QED BY <1>1, <1>2, <1>5, <1>6, <2>1 DEF Disjoint, Combined
<1> QED BY <1>1, <1>2, <1>8, <1>9 DEF Filling, Loading, PublicPhases

\* What move_nodes_to_ng does to the tree, member by member: the nodes found
\* leave their groups for the new one in the super group of the first of them,
\* n0. A group goes when this empties it, a super group when its last group goes.
Moved(found, n0) ==
    /\ n0 \in found /\ \A n \in found : n0 <= n
    /\ FreeNG \in NGs \ liveNG /\ nodes[FreeNG] = {} /\ \A s \in SGs : FreeNG \notin groups[s]
    /\ \A n \in found : /\ n \in Nids /\ nid2loc[n].sg \in path_sgl /\ nid2loc[n].ng \in groups[nid2loc[n].sg]
                        /\ nid2loc[n].nd \in nodes[nid2loc[n].ng] /\ nid[nid2loc[n].nd] = n
                        /\ nid2loc[n] \in Loc
    /\ \A d : d \in nodes'[FreeNG] <=> \E n \in found : d = nid2loc[n].nd
    /\ \A g \in NGs \ {FreeNG} : \A d :
          d \in nodes'[g] <=> d \in nodes[g] /\ ~\E n \in found : nid2loc[n].ng = g /\ nid2loc[n].nd = d
    /\ \A s \in SGs : \A g :
          g \in groups'[s] <=>
            \/ /\ g \in groups[s]
               /\ ~\E n \in found : nid2loc[n].sg = s /\ nid2loc[n].ng = g /\ nodes'[g] = {}
            \/ s = nid2loc[n0].sg /\ g = FreeNG
    /\ \A s : s \in path_sgl' <=>
          s \in path_sgl /\ ~(groups'[s] = {} /\ \E n \in found : nid2loc[n].sg = s /\ nodes'[nid2loc[n].ng] = {})
    /\ \A g : g \in liveNG' <=> (g \in liveNG \/ g = FreeNG) /\ ~\E n \in found : nid2loc[n].ng = g /\ nodes'[g] = {}
    /\ \A s : s \in liveSG' <=>
          s \in liveSG /\ ~(groups'[s] = {} /\ \E n \in found : nid2loc[n].sg = s /\ nodes'[nid2loc[n].ng] = {})

\* move_nodes_to_ng, member by member: the located blocks leave their groups for
\* the new one, and what that empties is deleted.
LEMMA MoveFacts ==
  ASSUME PublicInv, NEW sel \in SUBSET Nids, move_nodes_to_ng(sel)
  PROVE  \E n0 \in sel \cap Located : Moved(sel \cap Located, n0)
<1> DEFINE found == sel \cap Located
           sg(n) == nid2loc[n].sg
           ng(n) == nid2loc[n].ng
           nd(n) == nid2loc[n].nd
           new_ng == FreeNG
           gone(n) == TakenFrom(ng(n), found) # {} /\ nodes'[ng(n)] = {}
           goneNG == {ng(m) : m \in {n \in found : gone(n)}}
           goneSG == {s \in {sg(m) : m \in {n \in found : gone(n)}} : groups'[s] = {}}
<1>1. phase = "ready" /\ TypeOK /\ Owned
  BY DEF move_nodes_to_ng, PublicInv, TypeInv
<1>2. PICK n0 \in found :
        /\ \A n \in found : n0 <= n
        /\ nodes' = [g \in NGs |-> IF g = new_ng THEN {nd(n) : n \in found}
                                   ELSE nodes[g] \ TakenFrom(g, found)]
        /\ groups' = [s \in SGs |-> (groups[s] \ {ng(m) : m \in {n \in found : gone(n) /\ sg(n) = s}})
                                    \cup (IF s = sg(n0) THEN {new_ng} ELSE {})]
        /\ path_sgl' = path_sgl \ goneSG
        /\ liveNG' = (liveNG \cup {new_ng}) \ goneNG
        /\ liveSG' = liveSG \ goneSG
  BY Zenon DEF move_nodes_to_ng
<1>3. \A n \in found : /\ n \in Nids /\ sg(n) \in path_sgl /\ ng(n) \in groups[sg(n)]
                       /\ nd(n) \in nodes[ng(n)] /\ nid[nd(n)] = n /\ nid2loc[n] \in Loc
  BY <1>1, LocFact DEF PublicInv, LookupsCoherent, Located
<1>4. new_ng \in NGs /\ new_ng \notin liveNG
  BY FreshNG DEF move_nodes_to_ng
<1>5. \A s \in SGs : new_ng \notin groups[s]
  BY <1>1, <1>4 DEF Owned
<1>6. nodes[new_ng] = {}
  BY <1>1, <1>4, <1>5 DEF Owned
<1>7. \A n \in found : gone(n) <=> nodes'[ng(n)] = {}
  BY DEF TakenFrom
<1> HIDE DEF found, sg, ng, nd, new_ng, gone, goneNG, goneSG
<1>8. \A d : d \in nodes'[new_ng] <=> \E n \in found : d = nd(n)
  BY <1>2, <1>4
<1>9. \A g \in NGs \ {new_ng} : \A d : d \in nodes'[g] <=> d \in nodes[g] /\ ~\E n \in found : ng(n) = g /\ nd(n) = d
  BY <1>2 DEF TakenFrom, ng, nd
<1>10. \A s \in SGs : \A g :
         g \in groups'[s] <=> \/ g \in groups[s] /\ ~\E n \in found : sg(n) = s /\ ng(n) = g /\ nodes'[g] = {}
                              \/ s = sg(n0) /\ g = new_ng
  BY <1>2, <1>7
<1>11. \A s : s \in goneSG <=> groups'[s] = {} /\ \E n \in found : sg(n) = s /\ nodes'[ng(n)] = {}
  BY <1>7 DEF goneSG
<1>12. \A g : g \in goneNG <=> \E n \in found : ng(n) = g /\ nodes'[g] = {}
  BY <1>7 DEF goneNG
<1>13. /\ \A s : s \in path_sgl' <=> s \in path_sgl /\ s \notin goneSG
       /\ \A s : s \in liveSG' <=> s \in liveSG /\ s \notin goneSG
       /\ \A g : g \in liveNG' <=> (g \in liveNG \/ g = new_ng) /\ g \notin goneNG
  BY <1>2
<1>14. /\ \A s : s \in path_sgl' <=>
              s \in path_sgl /\ ~(groups'[s] = {} /\ \E n \in found : sg(n) = s /\ nodes'[ng(n)] = {})
       /\ \A s : s \in liveSG' <=>
              s \in liveSG /\ ~(groups'[s] = {} /\ \E n \in found : sg(n) = s /\ nodes'[ng(n)] = {})
       /\ \A g : g \in liveNG' <=> (g \in liveNG \/ g = new_ng) /\ ~\E n \in found : ng(n) = g /\ nodes'[g] = {}
  BY <1>11, <1>12, <1>13
<1>15. n0 \in found /\ \A n \in found : n0 <= n
  BY <1>2
<1>16. Moved(found, n0)
  BY <1>3, <1>4, <1>5, <1>6, <1>8, <1>9, <1>10, <1>14, <1>15, Zenon DEF Moved, sg, ng, nd, new_ng
<1> QED BY <1>16 DEF found

\* Moving nodes to a new group deletes exactly the groups this empties.
LEMMA move_nodes_to_ngStep ==
  ASSUME PublicInv, NEW sel \in SUBSET Nids, move_nodes_to_ng(sel), TypeInv'
  PROVE  PublicInv'
<1> DEFINE found == sel \cap Located
           sg(n) == nid2loc[n].sg
           ng(n) == nid2loc[n].ng
           nd(n) == nid2loc[n].nd
           new_ng == FreeNG
<1>1. phase = "ready" /\ LookupsCoherent'
  BY LookupsRebuilt DEF move_nodes_to_ng, TypeInv
<1>2. UNCHANGED <<similar_sgl, nid, all_nodes, liveND, phase,
                  section, cur_sg, cur_ng, cursor, todo, found_ng>>
  BY DEF move_nodes_to_ng, locals
<1>3. PICK n0 \in found : Moved(found, n0)
  BY MoveFacts
<1>4. /\ TypeOK /\ Owned /\ Disjoint
      /\ n0 \in found /\ new_ng \in NGs \ liveNG
      /\ \A s \in SGs : new_ng \notin groups[s]
      /\ \A n \in found : /\ sg(n) \in path_sgl /\ sg(n) \in SGs /\ ng(n) \in groups[sg(n)]
                          /\ ng(n) \in NGs /\ nd(n) \in nodes[ng(n)]
  BY <1>3 DEF Moved, PublicInv, TypeInv, Loc
<1> HIDE DEF found, sg, ng, nd, new_ng
<1>5. /\ \A d : d \in nodes'[new_ng] <=> \E n \in found : d = nd(n)
      /\ \A g \in NGs \ {new_ng} : \A d :
            d \in nodes'[g] <=> d \in nodes[g] /\ ~\E n \in found : ng(n) = g /\ nd(n) = d
  BY <1>3 DEF Moved, found, sg, ng, nd, new_ng
<1>6. \A s \in SGs : \A g :
        g \in groups'[s] <=> \/ g \in groups[s] /\ ~\E n \in found : sg(n) = s /\ ng(n) = g /\ nodes'[g] = {}
                             \/ s = sg(n0) /\ g = new_ng
  BY <1>3 DEF Moved, found, sg, ng, new_ng
<1>7. /\ \A s : s \in path_sgl' <=>
              s \in path_sgl /\ ~(groups'[s] = {} /\ \E n \in found : sg(n) = s /\ nodes'[ng(n)] = {})
      /\ \A s : s \in liveSG' <=>
              s \in liveSG /\ ~(groups'[s] = {} /\ \E n \in found : sg(n) = s /\ nodes'[ng(n)] = {})
      /\ \A g : g \in liveNG' <=> (g \in liveNG \/ g = new_ng) /\ ~\E n \in found : ng(n) = g /\ nodes'[g] = {}
  BY <1>3 DEF Moved, found, sg, ng, new_ng
<1>8. Held = Roots /\ Held' = Roots' /\ Roots \subseteq SGs
  BY <1>1, <1>2, <1>4 DEF Held, Roots, TypeOK
<1>9. Owned'
  <2>1. Held' \subseteq liveSG'
    BY <1>2, <1>4, <1>7, <1>8 DEF Owned, Disjoint, Roots
  <2>2. \A s \in SGs : groups'[s] \subseteq liveNG'
    <3> SUFFICES ASSUME NEW s \in SGs, NEW g, g \in groups'[s] PROVE g \in liveNG'
      OBVIOUS
    <3>1. CASE g = new_ng
      BY <1>4, <1>7, <3>1
    <3>2. CASE g # new_ng
      <4>1. g \in groups[s] /\ g \in NGs /\ ~\E n \in found : sg(n) = s /\ ng(n) = g /\ nodes'[g] = {}
        BY <1>4, <1>6, <3>2 DEF TypeOK
      <4>2. ~\E n \in found : ng(n) = g /\ nodes'[g] = {}
        BY <1>4, <4>1 DEF Disjoint
      <4> QED BY <1>4, <1>7, <4>1, <4>2 DEF Owned
    <3> QED BY <3>1, <3>2
  <2>3. \A s \in SGs : s \notin Held' => groups'[s] = {}
    <3> SUFFICES ASSUME NEW s \in SGs, groups'[s] # {} PROVE s \in Roots'
      BY <1>8
    <3>1. s \in Roots
      BY <1>4, <1>6, <1>8 DEF Owned, Roots
    <3> QED BY <1>2, <1>7, <3>1 DEF Roots
  <2>4. \A g \in NGs : nodes'[g] \subseteq liveND'
    BY <1>2, <1>4, <1>5 DEF Owned
  <2>5. \A g \in NGs : nodes'[g] # {} => \E s \in SGs : g \in groups'[s]
    <3> SUFFICES ASSUME NEW g \in NGs, nodes'[g] # {} PROVE \E s \in SGs : g \in groups'[s]
      OBVIOUS
    <3>1. CASE g = new_ng
      BY <1>4, <1>6, <3>1
    <3>2. CASE g # new_ng
      <4>1. nodes[g] # {}
        BY <1>5, <3>2
      <4>2. PICK s \in SGs : g \in groups[s]
        BY <1>4, <4>1 DEF Owned
      <4> QED BY <1>6, <4>2
    <3> QED BY <3>1, <3>2
  <2>6. \A n \in Nids : all_nodes'[n] # NULL => all_nodes'[n] \in liveND'
    BY <1>2, <1>4 DEF Owned
  <2> QED BY <2>1, <2>2, <2>3, <2>4, <2>5, <2>6 DEF Owned
<1>10. Disjoint'
  <2>1. \A s, t \in SGs : \A g \in NGs : g \in groups'[s] /\ g \in groups'[t] => s = t
    BY <1>4, <1>6 DEF Disjoint
  <2>2. \A g, h \in NGs : \A d \in NDs : d \in nodes'[g] /\ d \in nodes'[h] => g = h
    BY <1>4, <1>5 DEF Disjoint
  <2> QED BY <1>1, <1>2, <1>4, <1>7, <2>1, <2>2 DEF Disjoint
<1> QED BY <1>1, <1>2, <1>9, <1>10 DEF Filling, Loading, PublicPhases, PublicInv

\* With lookups that agree with the tree move_nodes_to_ng does not use what it has
\* deleted: nodes of one group that have different ids are different nodes.
LEMMA NothingFreedUsed ==
  ASSUME PublicInv, phase = "ready", NEW sel \in SUBSET Nids PROVE ~UsesFreed(sel)
<1> SUFFICES ASSUME NEW n \in sel \cap Located, NEW m \in sel \cap Located,
                    m < n, nid2loc[m].ng = nid2loc[n].ng,
                    nodes[nid2loc[n].ng] \subseteq {nid2loc[k].nd : k \in
                        {j \in sel \cap Located : j < n /\ nid2loc[j].ng = nid2loc[n].ng}}
             PROVE  FALSE
  BY DEF UsesFreed
<1>1. \A k \in Located : k \in Nat /\ nid2loc[k].nd \in nodes[nid2loc[k].ng] /\ nid[nid2loc[k].nd] = k
  BY LocFact, NidsAssumption DEF PublicInv, TypeInv, LookupsCoherent, Located
<1>2. PICK k \in Located : k < n /\ nid2loc[k].nd = nid2loc[n].nd
  BY <1>1
<1> QED BY <1>1, <1>2

\* In the shipped build combining is all the regrouping there is.
LEMMA PublicRegroup ==
  ASSUME PublicBuild, PublicInv, Regroup
  PROVE  \/ \E ngl \in SUBSET ShownNGs : combine_ngl(ngl)
         \/ \E sel \in SUBSET Nids : move_nodes_to_ng(sel)
<1>1. "own" \notin Menu /\ "promote" \notin Menu /\ "reset" \notin Menu
  BY DEF PublicBuild
<1>2. phase \notin {"own", "ownc", "promote", "reset"}
  BY DEF PublicInv, PublicPhases
<1> QED BY <1>1, <1>2, NothingFreedUsed
        DEF Regroup, BeginOwn, BeginOwnCombined, BeginPromote, BeginReset, OwnNode, ResetNode,
            OwnCombined, Promote, FinishLoop, move_nodes_to_ng_fault, BeginReset_fault

\* In the shipped build every step preserves the invariant.
LEMMA PublicStep == ASSUME PublicBuild PROVE PublicInv /\ [Next]_vars => PublicInv'
<1> SUFFICES ASSUME PublicInv, [Next]_vars PROVE PublicInv'
  OBVIOUS
<1>1. TypeInv'
  BY TypeStep DEF PublicInv
<1>2. CASE UNCHANGED vars
  BY <1>2, <1>1 DEF vars, tree, heap, locals, PublicInv, Owned, Disjoint, Filling, LookupsCoherent,
                    Held, Roots, Loading
<1>3. ASSUME NEW x \in {"path", "similar"}, SwitchSection(x) PROVE PublicInv'
  BY <1>1, <1>3 DEF SwitchSection, tree, heap, PublicInv, Owned, Disjoint, Filling, LookupsCoherent,
                    Held, Roots, Loading
<1>4. CASE Load
  BY <1>1, <1>3, <1>4, StartLoadStep, DestroyStep, add_supergroupStep, add_nodegroupStep, add_nodeStep,
     BeginSanitizeStep, SanitizeNodeStep, FinishSanitizeStep DEF Load, StartParse, StartBuild
<1>5. CASE Regroup
  BY <1>1, <1>5, PublicRegroup, combine_nglStep, move_nodes_to_ngStep
<1> QED BY <1>2, <1>4, <1>5 DEF Next

\* The invariant implies the three properties.
LEMMA PublicInvImplies == PublicInv => HeapSafe /\ SingleOwner /\ LookupsCoherent
<1> SUFFICES ASSUME PublicInv PROVE HeapSafe /\ SingleOwner /\ LookupsCoherent
  OBVIOUS
<1> USE DEF PublicInv, TypeInv, TypeOK
<1>1. Roots \subseteq liveSG /\ NGsOf(Roots) \subseteq liveNG /\ NDsOf(Roots) \subseteq liveND
  BY DEF Owned, Held, Roots, NGsOf, NDsOf
<1>2. phase = "ready" => \A n \in Located : /\ nid2loc[n] # Dangling
                                            /\ nid2loc[n].sg \in liveSG
                                            /\ nid2loc[n].ng \in liveNG
                                            /\ nid2loc[n].nd \in liveND
  <2> SUFFICES ASSUME phase = "ready", NEW n \in Located
               PROVE  /\ nid2loc[n] # Dangling /\ nid2loc[n].sg \in liveSG
                      /\ nid2loc[n].ng \in liveNG /\ nid2loc[n].nd \in liveND
    OBVIOUS
  <2>1. /\ n \in Nids /\ nid2loc[n] \in Loc
        /\ nid2loc[n].sg \in path_sgl /\ nid2loc[n].ng \in groups[nid2loc[n].sg]
        /\ nid2loc[n].nd \in nodes[nid2loc[n].ng]
    BY LocFact DEF LookupsCoherent, Located
  <2> QED BY <2>1 DEF Owned, Held, Roots, Loc
<1>3. SingleOwner
  BY DEF SingleOwner, Disjoint, Roots, NGsOf
<1>4. phase # "crashed"
  BY DEF PublicPhases
<1> QED BY <1>1, <1>2, <1>3, <1>4 DEF HeapSafe, Owned

\* The three theorems are about the shipped build and whatever a file or the
\* analyzer brings: node ids repeated, outside the flowchart or in a SIMILARINFO
\* section.
LEMMA PublicAlways == ASSUME PublicBuild PROVE Spec => []PublicInv
<1>1. PublicInv /\ [Next]_vars => PublicInv'
  BY PublicStep
<1> QED BY <1>1, PublicInit, PTL DEF Spec

\* Nothing has two owners: clear() deletes every object once, however combine_ngl
\* and move_nodes_to_ng moved it about.
THEOREM PublicSingleOwner == ASSUME PublicBuild PROVE Spec => []SingleOwner
BY PublicAlways, PublicInvImplies, PTL

\* No pointer of the tree, of all_nodes or (between two handlers) of nid2loc
\* points to an object that was deleted.
THEOREM PublicHeapSafe == ASSUME PublicBuild PROVE Spec => []HeapSafe
BY PublicAlways, PublicInvImplies, PTL

\* Between two handlers nid2loc says where each node is in the tree.
THEOREM PublicLookups == ASSUME PublicBuild PROVE Spec => []LookupsCoherent
BY PublicAlways, PublicInvImplies, PTL

-----------------------------------------------------------------------------
(* No block is lost *)

\* Some node definition below the super groups S has the node id n.
Holds(S, n) == \E s \in S : \E g \in groups[s] : \E d \in nodes[g] : nid[d] = n

\* What all_nodes maps is in one of the lists; sanitize_groupman has seen to the
\* blocks below its cursor; and so, in use, every block is in one of the lists.
Complete ==
    /\ phase \in {"parse", "build", "sanitize"} => \A n \in Nids : all_nodes[n] # NULL => Holds(Roots, n)
    /\ phase = "sanitize" => \A n \in Blocks : n < cursor => all_nodes[n] # NULL \/ Holds({cur_sg}, n)
    /\ phase = "ready" => \A n \in Blocks : Holds(Roots, n)

\* A step that only adds to the tree loses nothing.
LEMMA HoldsGrows ==
  ASSUME TypeOK, NEW S \in SUBSET SGs, NEW T, S \subseteq T, NEW n, Holds(S, n),
         \A s \in SGs : groups[s] \subseteq groups'[s],
         \A g \in NGs : nodes[g] \subseteq nodes'[g],
         \A g \in NGs : \A d \in nodes[g] : nid'[d] = nid[d]
  PROVE  \E s \in T : \E g \in groups'[s] : \E d \in nodes'[g] : nid'[d] = n
<1>1. PICK s \in S : \E g \in groups[s] : \E d \in nodes[g] : nid[d] = n
  BY DEF Holds
<1>2. PICK g \in groups[s] : \E d \in nodes[g] : nid[d] = n
  BY <1>1
<1>3. s \in SGs /\ g \in NGs /\ g \in groups'[s] /\ s \in T
  BY <1>2 DEF TypeOK
<1> QED BY <1>2, <1>3

\* Loading only adds to the tree, and enters in all_nodes what it adds.
LEMMA LoadComplete ==
  ASSUME PublicInv, Complete, Loading, phase' = phase,
         add_supergroup \/ add_nodegroup \/ \E m \in Nids : add_node(m)
  PROVE  Complete'
<1> USE DEF PublicInv, TypeInv
<1>1. TypeOK /\ Owned /\ Filling
  OBVIOUS
<1> HIDE DEF PublicInv, TypeInv
<1> SUFFICES ASSUME NEW n \in Nids, all_nodes'[n] # NULL PROVE Holds(Roots, n)'
  BY DEF Complete, Loading
<1>2. Roots \subseteq SGs /\ Held = Roots
  BY <1>1 DEF Roots, TypeOK, Held, Loading
<1>3. CASE add_supergroup
  <2>1. FreeSG \in SGs \ liveSG /\ groups[FreeSG] = {}
    BY <1>1, <1>2, <1>3, FreshSG DEF add_supergroup, Owned
  <2>2. /\ Roots \subseteq Roots' /\ UNCHANGED <<all_nodes, nodes, nid>>
        /\ \A s \in SGs : groups[s] \subseteq groups'[s]
    BY <1>1, <1>3, <2>1 DEF add_supergroup, Roots, TypeOK
  <2>3. Holds(Roots, n)
    BY <2>2 DEF Complete, Loading
  <2> QED BY <1>1, <1>2, <2>2, <2>3, HoldsGrows DEF Holds
<1>4. CASE add_nodegroup
  <2>1. FreeNG \in NGs \ liveNG /\ cur_sg \in SGs
    BY <1>1, <1>4, FreshNG DEF add_nodegroup, TypeOK
  <2>2. nodes[FreeNG] = {}
    BY <1>1, <2>1 DEF Owned
  <2>3. /\ Roots' = Roots /\ UNCHANGED <<all_nodes, nid>>
        /\ \A s \in SGs : groups[s] \subseteq groups'[s]
        /\ \A g \in NGs : nodes[g] \subseteq nodes'[g]
    BY <1>1, <1>4, <2>1, <2>2 DEF add_nodegroup, Roots, TypeOK
  <2>4. Holds(Roots, n)
    BY <2>3 DEF Complete, Loading
  <2> QED BY <1>1, <1>2, <2>3, <2>4, HoldsGrows DEF Holds
<1>5. ASSUME NEW m \in Nids, add_node(m) PROVE Holds(Roots, n)'
  <2>1. FreeND \in NDs \ liveND /\ cur_ng \in NGs /\ cur_sg \in SGs /\ cur_sg \in Roots /\ cur_ng \in groups[cur_sg]
    BY <1>1, <1>5, FreshND, NullAssumption DEF add_node, TypeOK, Filling
  <2>2. /\ nodes' = [nodes EXCEPT ![cur_ng] = @ \cup {FreeND}] /\ nid' = [nid EXCEPT ![FreeND] = m]
        /\ all_nodes' = [all_nodes EXCEPT ![m] = FreeND] /\ groups' = groups /\ Roots' = Roots
    BY <1>5 DEF add_node, Roots
  <2>3. CASE n = m
    <3>1. FreeND \in nodes'[cur_ng] /\ nid'[FreeND] = n
      BY <1>1, <2>1, <2>2, <2>3 DEF TypeOK
    <3> QED BY <2>1, <2>2, <3>1 DEF Holds
  <2>4. CASE n # m
    <3>1. Holds(Roots, n)
      BY <1>1, <2>2, <2>4 DEF Complete, Loading, TypeOK
    <3>2. /\ \A g \in NGs : nodes[g] \subseteq nodes'[g]
          /\ \A g \in NGs : \A d \in nodes[g] : nid'[d] = nid[d]
      BY <1>1, <2>1, <2>2 DEF TypeOK, Owned
    <3> QED BY <1>1, <1>2, <2>2, <3>1, <3>2, HoldsGrows DEF Holds
  <2> QED BY <2>3, <2>4
<1> QED BY <1>3, <1>4, <1>5

\* sanitize_groupman adds what all_nodes lacks.
LEMMA SanitizeComplete ==
  ASSUME PublicInv, Complete, BeginSanitize \/ SanitizeNode \/ FinishSanitize
  PROVE  Complete'
<1>1. TypeOK /\ Owned /\ Disjoint /\ NBlocks \in Nat /\ Blocks \subseteq Nids /\ \A n \in Blocks : n \in Nat /\ n < NBlocks
  BY NidsAssumption DEF PublicInv, TypeInv, Blocks
<1>2. CASE BeginSanitize
  <2>1. FreeSG \in SGs \ liveSG /\ groups[FreeSG] = {}
    BY <1>1, <1>2, FreshSG DEF BeginSanitize, Owned, Held, Loading
  <2>2. /\ Roots' = Roots /\ groups' = groups /\ nodes' = nodes /\ nid' = nid /\ all_nodes' = all_nodes
        /\ phase' = "sanitize" /\ cursor' = 0 /\ phase \in {"parse", "build"}
    BY <1>1, <1>2, <2>1 DEF BeginSanitize, Roots, TypeOK, Loading
  <2> QED BY <1>1, <2>2 DEF Complete, Holds
<1>3. CASE SanitizeNode
  <2>1. /\ phase = "sanitize" /\ cursor \in Nat /\ cursor' = cursor + 1 /\ cur_sg \in SGs /\ cur_sg' = cur_sg
        /\ Roots' = Roots /\ phase' = phase /\ all_nodes' = all_nodes /\ Roots \subseteq SGs
    BY <1>1, <1>3 DEF SanitizeNode, PublicInv, TypeInv, TypeOK, Roots
  <2>2. CASE all_nodes[cursor] # NULL
    BY <1>1, <1>3, <2>1, <2>2 DEF SanitizeNode, Complete, Holds
  <2>3. CASE all_nodes[cursor] = NULL
    <3>1. /\ FreeNG \in NGs \ liveNG /\ FreeND \in NDs \ liveND
          /\ groups' = [groups EXCEPT ![cur_sg] = @ \cup {FreeNG}]
          /\ nodes' = [nodes EXCEPT ![FreeNG] = {FreeND}] /\ nid' = [nid EXCEPT ![FreeND] = cursor]
      BY <1>3, <2>3, FreshNG, FreshND DEF SanitizeNode
    <3>2. nodes[FreeNG] = {}
      BY <1>1, <3>1 DEF Owned
    <3>3. /\ \A s \in SGs : groups[s] \subseteq groups'[s]
          /\ \A g \in NGs : nodes[g] \subseteq nodes'[g]
          /\ \A g \in NGs : \A d \in nodes[g] : nid'[d] = nid[d]
      BY <1>1, <2>1, <3>1, <3>2 DEF TypeOK, Owned
    <3>4. ASSUME NEW n, Holds(Roots, n) PROVE Holds(Roots, n)'
      <4>1. \E s \in Roots : \E g \in groups'[s] : \E d \in nodes'[g] : nid'[d] = n
        <5>1. Roots \in SUBSET SGs /\ Roots \subseteq Roots
          BY <2>1
        <5> QED BY <1>1, <3>3, <3>4, <5>1, HoldsGrows DEF Holds
      <4> QED BY <2>1, <4>1 DEF Holds
    <3>5. ASSUME NEW n, Holds({cur_sg}, n) PROVE Holds({cur_sg}, n)'
      <4>1. PICK g \in groups[cur_sg] : \E d \in nodes[g] : nid[d] = n
        BY <3>5 DEF Holds
      <4>2. g \in NGs /\ g \in groups'[cur_sg]
        BY <1>1, <2>1, <3>3, <4>1 DEF TypeOK
      <4>3. \E d \in nodes'[g] : nid'[d] = n
        BY <3>3, <4>1, <4>2
      <4> QED BY <2>1, <4>2, <4>3 DEF Holds
    <3>6. ASSUME NEW n, n = cursor PROVE Holds({cur_sg}, n)'
      <4>1. FreeNG \in groups'[cur_sg] /\ FreeND \in nodes'[FreeNG] /\ nid'[FreeND] = n
        BY <1>1, <2>1, <3>1, <3>6 DEF TypeOK
      <4> QED BY <2>1, <4>1 DEF Holds
    <3>7. \A n \in Blocks : n < cursor' => n < cursor \/ n = cursor
      BY <1>1, <2>1
    <3>8. ASSUME NEW n \in Blocks, n < cursor' PROVE all_nodes'[n] # NULL \/ Holds({cur_sg}, n)'
      BY <2>1, <3>5, <3>6, <3>7, <3>8 DEF Complete
    <3>9. ASSUME NEW n \in Nids, all_nodes'[n] # NULL PROVE Holds(Roots, n)'
      BY <2>1, <3>4, <3>9 DEF Complete
    <3> QED BY <2>1, <3>8, <3>9 DEF Complete
  <2> QED BY <2>2, <2>3
<1>4. CASE FinishSanitize
  <2>1. /\ phase = "sanitize" /\ phase' = "ready" /\ cursor = NBlocks /\ cur_sg \in SGs
        /\ UNCHANGED <<groups, nodes, nid>>
    BY <1>4 DEF FinishSanitize, PublicInv, TypeInv, TypeOK
  <2>2. Roots' = IF groups[cur_sg] = {} THEN Roots ELSE Roots \cup {cur_sg}
    BY <1>4 DEF FinishSanitize, Roots
  <2>3. \A n \in Blocks : Holds(Roots, n) \/ Holds({cur_sg}, n)
    BY <1>1, <2>1 DEF Complete
  <2>4. \A n \in Blocks : Holds(Roots, n)'
    BY <2>1, <2>2, <2>3 DEF Holds
  <2> QED BY <2>1, <2>4 DEF Complete
<1> QED BY <1>2, <1>3, <1>4

\* Combining loses no node: what leaves a group is in the destination, which
\* stays in the tree with its super group.
LEMMA CombineComplete ==
  ASSUME PublicInv, Complete, NEW ngl \in SUBSET ShownNGs, combine_ngl(ngl)
  PROVE  Complete'
<1>1. /\ phase = "ready" /\ phase' = "ready" /\ similar_sgl' = similar_sgl /\ nid' = nid /\ TypeOK
      /\ Disjoint
  BY DEF combine_ngl, PublicInv, TypeInv
<1>2. PICK dest \in find_biggest(ngl) : \E home \in [Others(ngl, dest) -> SGs] : CombineInto(ngl, dest, home)
  BY CombineShape
<1>3. PICK home \in [Others(ngl, dest) -> SGs] : CombineInto(ngl, dest, home)
  BY <1>2
<1>4. ngl \in SUBSET NGs /\ dest \in NGs /\ \E s \in path_sgl : dest \in groups[s]
  BY <1>1, ShownFact DEF find_biggest
<1>5. Combined(ngl, dest, home)
  BY <1>1, <1>3, <1>4, CombineFacts
<1> DEFINE others == Others(ngl, dest)
<1> SUFFICES ASSUME NEW n \in Blocks PROVE Holds(Roots, n)'
  BY <1>1 DEF Complete
<1>6a. PICK s \in Roots : \E g \in groups[s] : \E d \in nodes[g] : nid[d] = n
  <2>1. Holds(Roots, n)
    BY <1>1 DEF Complete
  <2> QED BY <2>1 DEF Holds
<1>6b. PICK g \in groups[s] : \E d \in nodes[g] : nid[d] = n
  BY <1>6a
<1>6. PICK d \in nodes[g] : nid[d] = n
  BY <1>6b
<1>7. s \in SGs /\ g \in NGs /\ d \in NDs
  BY <1>1, <1>6 DEF TypeOK, Roots
<1>8. PICK t \in path_sgl : dest \in groups[t]
  BY <1>4
<1>9. t \in SGs /\ dest \in groups'[t] /\ t \in path_sgl'
  BY <1>1, <1>5, <1>8 DEF Combined, TypeOK
<1>10. CASE g \in others
  BY <1>1, <1>5, <1>6, <1>9, <1>10 DEF Combined, Holds, Roots
<1>11. CASE g \notin others
  <2>1. g \in groups'[s] /\ s \in Roots'
    BY <1>1, <1>5, <1>6, <1>7, <1>11 DEF Combined, Roots
  <2>2. d \in nodes'[g]
    BY <1>5, <1>6, <1>7, <1>11 DEF Combined
  <2> QED BY <1>1, <1>6, <2>1, <2>2 DEF Holds
<1> QED BY <1>10, <1>11

\* Neither does moving: a node is in the new group or where it was.
LEMMA MoveComplete ==
  ASSUME PublicInv, Complete, NEW sel \in SUBSET Nids, move_nodes_to_ng(sel)
  PROVE  Complete'
<1> DEFINE found == sel \cap Located
<1>1. /\ phase = "ready" /\ phase' = "ready" /\ similar_sgl' = similar_sgl /\ nid' = nid /\ TypeOK
      /\ Disjoint
  BY DEF move_nodes_to_ng, PublicInv, TypeInv
<1>2. PICK n0 \in found : Moved(found, n0)
  BY MoveFacts
<1> HIDE DEF found
<1> SUFFICES ASSUME NEW n \in Blocks PROVE Holds(Roots, n)'
  BY <1>1 DEF Complete
<1>3a. PICK s \in Roots : \E g \in groups[s] : \E d \in nodes[g] : nid[d] = n
  <2>1. Holds(Roots, n)
    BY <1>1 DEF Complete
  <2> QED BY <2>1 DEF Holds
<1>3b. PICK g \in groups[s] : \E d \in nodes[g] : nid[d] = n
  BY <1>3a
<1>3. PICK d \in nodes[g] : nid[d] = n
  BY <1>3b
<1>4. s \in SGs /\ g \in NGs /\ d \in NDs
  BY <1>1, <1>3 DEF TypeOK, Roots
<1>5. CASE \E m \in found : nid2loc[m].ng = g /\ nid2loc[m].nd = d
  <2>1. d \in nodes'[FreeNG]
    BY <1>2, <1>5 DEF Moved
  <2>2. nid2loc[n0].sg \in SGs /\ nid2loc[n0].sg \in path_sgl /\ FreeNG \in groups'[nid2loc[n0].sg]
    BY <1>1, <1>2 DEF Moved, TypeOK
  <2>3. nid2loc[n0].sg \in Roots'
    BY <1>2, <2>2 DEF Moved, Roots
  <2> QED BY <1>1, <1>3, <2>1, <2>2, <2>3 DEF Holds
<1>6. CASE ~\E m \in found : nid2loc[m].ng = g /\ nid2loc[m].nd = d
  <2>1. g # FreeNG
    BY <1>2, <1>3, <1>4 DEF Moved
  <2>2. d \in nodes'[g]
    BY <1>2, <1>3, <1>4, <1>6, <2>1 DEF Moved
  <2>3. g \in groups'[s]
    BY <1>2, <1>3, <1>4, <2>2 DEF Moved
  <2>4. s \in Roots'
    BY <1>1, <1>2, <1>3, <2>3 DEF Moved, Roots
  <2> QED BY <1>1, <1>3, <2>2, <2>3, <2>4 DEF Holds
<1> QED BY <1>5, <1>6

\* In the shipped build every step preserves it.
LEMMA CompleteStep == ASSUME PublicBuild PROVE PublicInv /\ Complete /\ [Next]_vars => Complete'
<1> SUFFICES ASSUME PublicInv, Complete, [Next]_vars PROVE Complete'
  OBVIOUS
<1>1. CASE UNCHANGED vars
  BY <1>1 DEF vars, tree, heap, locals, Complete, Holds, Roots
<1>2. ASSUME NEW x \in {"path", "similar"}, SwitchSection(x) PROVE Complete'
  BY <1>2 DEF SwitchSection, tree, heap, Complete, Holds, Roots
<1>3. ASSUME NEW p \in {"new", "parse", "build"}, clear, phase' = p PROVE Complete'
  BY <1>3 DEF clear, Complete
<1>4. CASE Load
  <2>1. CASE StartParse \/ StartBuild \/ Destroy
    BY <1>3, <2>1 DEF StartParse, StartBuild, StartLoad, Destroy
  <2>2. CASE add_supergroup \/ add_nodegroup \/ \E n \in Nids : add_node(n)
    BY <2>2, LoadComplete DEF add_supergroup, add_nodegroup, add_node
  <2> QED BY <1>2, <1>4, <2>1, <2>2, SanitizeComplete DEF Load
<1>5. CASE Regroup
  BY <1>5, PublicRegroup, CombineComplete, MoveComplete
<1> QED BY <1>1, <1>4, <1>5 DEF Next

\* A block in one of the lists that the lookups do not find is in the similar
\* list.
LEMMA CompleteImplies == PublicInv /\ Complete => OnlySimilarUnlocated
<1> SUFFICES ASSUME PublicInv, Complete, phase = "ready", NEW n \in Blocks \ Located
             PROVE  \E d \in NDsOf(similar_sgl) : nid[d] = n
  BY DEF OnlySimilarUnlocated
<1>1. TypeOK /\ n \in Nids /\ nid2loc[n] = NULL
  BY NidsAssumption DEF PublicInv, TypeInv, Located
<1>2. nid2loc[n] \in LookupsOf(n, path_sgl, groups, nodes, nid)
  BY <1>1 DEF PublicInv, LookupsCoherent, IsLookup
<1>3. Locations(n, path_sgl, groups, nodes, nid) = {}
  <2>1. \A l \in Locations(n, path_sgl, groups, nodes, nid) : l # NULL
    <3> TAKE l \in Locations(n, path_sgl, groups, nodes, nid)
    <3>1. l = [sg |-> l.sg, ng |-> l.ng, nd |-> l.nd] /\ l.sg \in path_sgl /\ l.ng \in NGs /\ l.nd \in nodes[l.ng]
      BY LocationsFact
    <3>2. l \in Loc
      BY <1>1, <3>1 DEF Loc, TypeOK
    <3> QED BY <3>2, NullAssumption
  <2> QED BY <1>1, <1>2, <2>1 DEF LookupsOf
<1>4a. PICK s \in Roots : \E g \in groups[s] : \E d \in nodes[g] : nid[d] = n
  <2>1. Holds(Roots, n)
    BY DEF Complete
  <2> QED BY <2>1 DEF Holds
<1>4b. PICK g \in groups[s] : \E d \in nodes[g] : nid[d] = n
  BY <1>4a
<1>4. PICK d \in nodes[g] : nid[d] = n
  BY <1>4b
<1>5. s \notin path_sgl
  <2> SUFFICES ASSUME s \in path_sgl PROVE FALSE
    OBVIOUS
  <2>1. <<s, g>> \in {q \in path_sgl \X NGs : q[2] \in groups[q[1]]}
    BY <1>1, <1>4 DEF TypeOK
  <2>2. [sg |-> s, ng |-> g, nd |-> d] \in Locations(n, path_sgl, groups, nodes, nid)
    BY <1>4, <2>1 DEF Locations
  <2> QED BY <1>3, <2>2
<1>6. d \in NDsOf(similar_sgl)
  BY <1>4, <1>5 DEF Roots, NDsOf, NGsOf
<1> QED BY <1>4, <1>6

\* In the shipped build no regrouping loses a basic block, and the only blocks
\* that cannot be found between two handlers are those that the file names in
\* its similar section alone.
THEOREM PublicBlocksFound == ASSUME PublicBuild PROVE Spec => []OnlySimilarUnlocated
<1>1. Init => PublicInv /\ Complete
  BY PublicInit DEF Init, Complete
<1>2. PublicInv /\ Complete /\ [Next]_vars => PublicInv' /\ Complete'
  BY PublicStep, CompleteStep
<1> QED BY <1>1, <1>2, CompleteImplies, PTL DEF Spec
=============================================================================
