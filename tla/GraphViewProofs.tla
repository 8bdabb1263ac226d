-------------------------- MODULE GraphViewProofs --------------------------
(* Theorems about GraphView, for every function and every set of commands. *)
EXTENDS GraphView, FiniteSetTheorems, FunctionTheorems, TLAPS

\* A set of numbers that is not empty has a least one.
LEMMA MinFact ==
  ASSUME NEW S \in SUBSET Nat, S # {}
  PROVE  Min(S) \in S /\ \A m \in S : Min(S) <= m
<1>1. PICK x \in S : \A y \in S : ~(<<y, x>> \in OpToRel(<, Nat))
  BY NatLessThanWellFounded, WFMin
<1>2. \A y \in S : x <= y
  <2> TAKE y \in S
  <2>1. x \in Nat /\ y \in Nat
    OBVIOUS
  <2>2. ~(y < x)
    <3>1. y < x => <<y, x>> \in OpToRel(<, Nat)
      BY <2>1 DEF OpToRel
    <3> QED BY <1>1, <3>1
  <2> QED BY <2>1, <2>2
<1> QED BY <1>2 DEF Min

-----------------------------------------------------------------------------
(* Partitions *)

\* A grouping, member by member: every block is in one group and every group in
\* one super group.
LEMMA GroupingFacts ==
  ASSUME NEW p, Manager!IsGrouping(p)
  PROVE  /\ \A G \in p : G # {} /\ UNION G \subseteq Blocks
         /\ \A b \in UNION p : b # {} /\ b \subseteq Blocks
         /\ \A b, c \in UNION p : \A n : n \in b /\ n \in c => b = c
         /\ \A G, H \in p : \A b : b \in G /\ b \in H => G = H
         /\ \A n \in Blocks : \E b \in UNION p : n \in b
<1>1. /\ {} \notin p /\ \A G \in p : G \subseteq SUBSET Blocks /\ {} \notin G
      /\ \A G, H \in p : \A b \in G, c \in H : b \cap c # {} => b = c /\ G = H
      /\ Blocks \subseteq UNION UNION p
  BY DEF Manager!IsGrouping, Manager!TwoLevel, Manager!Covered, Blocks
<1>2. \A b, c \in UNION p : \A n : n \in b /\ n \in c => b = c
  <2> SUFFICES ASSUME NEW b \in UNION p, NEW c \in UNION p, NEW n \in b, n \in c PROVE b = c
    OBVIOUS
  <2>1. PICK G \in p : b \in G
    OBVIOUS
  <2>2. PICK H \in p : c \in H
    OBVIOUS
  <2>3. b \cap c # {}
    OBVIOUS
  <2> QED BY <1>1, <2>1, <2>2, <2>3
<1>3. \A G, H \in p : \A b : b \in G /\ b \in H => G = H
  <2> SUFFICES ASSUME NEW G \in p, NEW H \in p, NEW b, b \in G, b \in H PROVE G = H
    OBVIOUS
  <2>1. b # {} /\ b \cap b = b
    BY <1>1
  <2> QED BY <1>1, <2>1
<1>4. \A G \in p : G # {} /\ UNION G \subseteq Blocks
  BY <1>1
<1>5. \A b \in UNION p : b # {} /\ b \subseteq Blocks
  <2> TAKE b \in UNION p
  <2>1. PICK G \in p : b \in G
    OBVIOUS
  <2> QED BY <1>1, <2>1
<1>6. \A n \in Blocks : \E b \in UNION p : n \in b
  BY <1>1
<1> QED BY <1>2, <1>3, <1>4, <1>5, <1>6

\* And the other way round.
LEMMA MakeGrouping ==
  ASSUME NEW p,
         \A G \in p : G # {} /\ \A b \in G : b # {} /\ b \subseteq Blocks,
         \A G, H \in p : \A b \in G, c \in H : \A n : n \in b /\ n \in c => b = c /\ G = H,
         \A n \in Blocks : \E G \in p : \E b \in G : n \in b
  PROVE  Manager!IsGrouping(p)
<1>1. Manager!TwoLevel(p)
  BY DEF Manager!TwoLevel
<1>2. Blocks \subseteq Manager!Covered(p)
  BY DEF Manager!Covered
<1> QED BY <1>1, <1>2 DEF Manager!IsGrouping, Blocks

\* There are at most as many groups as blocks.
LEMMA GroupCount ==
  ASSUME NEW p, Manager!IsGrouping(p)
  PROVE  /\ IsFiniteSet(UNION p) /\ Cardinality(UNION p) \in Nat
         /\ 0 .. (Cardinality(UNION p) - 1) \subseteq Blocks
<1> DEFINE f == [b \in UNION p |-> CHOOSE n \in b : TRUE]
<1>1. \A b \in UNION p : f[b] \in b
  BY GroupingFacts
<1>2. f \in [UNION p -> Blocks]
  BY <1>1, GroupingFacts
<1>3. \A b, c \in UNION p : f[b] = f[c] => b = c
  <2> HIDE DEF f
  <2> QED BY <1>1, GroupingFacts
<1> HIDE DEF f
<1>4. f \in Injection(UNION p, Blocks)
  BY <1>2, <1>3, Fun_IsInj
<1>5. NBlocks \in Nat /\ NBlocks - 1 \in Int /\ 0 <= NBlocks - 1
  BY ViewAssumption
<1>6. IsFiniteSet(Blocks) /\ Cardinality(Blocks) = NBlocks
  BY <1>5, FS_Interval DEF Blocks
<1>7. IsFiniteSet(UNION p) /\ Cardinality(UNION p) <= NBlocks
  BY <1>4, <1>6, FS_Injection
<1>8. Cardinality(UNION p) \in Nat
  BY <1>7, FS_CardinalityType
<1> QED BY <1>5, <1>7, <1>8 DEF Blocks

\* What the analyzer brings is a grouping.
LEMMA PartsGrouping == ASSUME NEW p \in Parts PROVE Manager!IsGrouping(p)
<1>1. PICK f \in [Blocks -> Blocks], h \in [Blocks -> Blocks] : p = PartOf(f, h)
  BY DEF Parts
<1> DEFINE C(i) == {n \in Blocks : f[n] = i}
           L(k) == {C(i) : i \in {j \in Range(f) : h[j] = k}}
<1>2. p = {L(k) : k \in {h[j] : j \in Range(f)}}
  BY <1>1 DEF PartOf
<1>3. \A i : i \in Range(f) <=> \E n \in Blocks : f[n] = i
  BY DEF Range
<1>4. \A n, i : n \in C(i) <=> n \in Blocks /\ f[n] = i
  OBVIOUS
<1>5. \A k, b : b \in L(k) <=> \E i \in Range(f) : h[i] = k /\ b = C(i)
  OBVIOUS
<1> HIDE DEF C, L
<1>6. \A G \in p : \E i \in Range(f) : G = L(h[i])
  BY <1>2
<1>7. \A G \in p : G # {} /\ \A b \in G : b # {} /\ b \subseteq Blocks
  <2> SUFFICES ASSUME NEW i \in Range(f) PROVE L(h[i]) # {} /\ \A b \in L(h[i]) : b # {} /\ b \subseteq Blocks
    BY <1>6
  <2>1. C(i) \in L(h[i])
    BY <1>5
  <2>2. \A j \in Range(f) : C(j) # {} /\ C(j) \subseteq Blocks
    BY <1>3, <1>4
  <2> QED BY <1>5, <2>1, <2>2
<1>8. ASSUME NEW G \in p, NEW H \in p, NEW b \in G, NEW c \in H, NEW n, n \in b, n \in c
      PROVE  b = c /\ G = H
  <2>1. PICK i \in Range(f) : G = L(h[i])
    BY <1>6
  <2>2. PICK j \in Range(f) : H = L(h[j])
    BY <1>6
  <2>3. PICK k \in Range(f) : h[k] = h[i] /\ b = C(k)
    BY <1>5, <2>1
  <2>4. PICK l \in Range(f) : h[l] = h[j] /\ c = C(l)
    BY <1>5, <2>2
  <2>5. k = l
    BY <1>4, <1>8, <2>3, <2>4
  <2> QED BY <2>1, <2>2, <2>3, <2>4, <2>5
<1>9. ASSUME NEW n \in Blocks PROVE \E G \in p : \E b \in G : n \in b
  <2>1. f[n] \in Range(f) /\ n \in C(f[n])
    BY <1>3, <1>4
  <2>2. C(f[n]) \in L(h[f[n]]) /\ L(h[f[n]]) \in p
    BY <1>2, <1>5, <2>1
  <2> QED BY <2>1, <2>2
<1>10. \A G, H \in p : \A b \in G, c \in H : \A n : n \in b /\ n \in c => b = c /\ G = H
  BY <1>8
<1>11. \A n \in Blocks : \E G \in p : \E b \in G : n \in b
  BY <1>9
<1> QED BY <1>7, <1>10, <1>11, MakeGrouping

\* q is a grouping with the new group b, and its super groups are, but for that of
\* b, made of blocks that were together before.
Regrouped(p, q, b) ==
    /\ Manager!IsGrouping(q) /\ b \in UNION q
    /\ \A H \in q : b \in H \/ \E G \in p : UNION H \subseteq UNION G

\* Combining groups of a partition makes a partition.
LEMMA CombineKeeps ==
  ASSUME Manager!IsGrouping(part), NEW S \in SUBSET UNION part, NEW dest, Manager!Combine(S, dest)
  PROVE  Regrouped(part, part', UNION S)
<1> DEFINE V(b) == IF b = dest THEN UNION S ELSE b
           A(G) == {V(b) : b \in G \ (S \ {dest})}
           U == UNION S
<1>1. dest \in S /\ part' = Manager!Trim({A(G) : G \in part})
  BY Zenon DEF Manager!Combine
<1>2. \A b \in UNION part : b # {} /\ b \subseteq Blocks
  BY GroupingFacts
<1>3. U # {} /\ U \subseteq Blocks
  BY <1>1, <1>2
<1>4. ASSUME NEW G \in part, NEW c PROVE c \in A(G) \ {{}} <=> (c \in G /\ c \notin S) \/ (dest \in G /\ c = U)
  <2>1. c \in A(G) <=> (c \in G /\ c \notin S) \/ (dest \in G /\ c = U)
    BY <1>1
  <2>2. c \in A(G) => c # {}
    BY <1>2, <1>3, <2>1
  <2> QED BY <2>1, <2>2
<1> DEFINE B(G) == A(G) \ {{}}
<1> HIDE DEF A, V, U
<1>5. \A H : H \in part' <=> H # {} /\ \E G \in part : H = B(G)
  <2> HIDE DEF A
  <2> DEFINE Z == {A(G) : G \in part}
  <2>1. part' = Manager!Trim(Z)
    BY <1>1
  <2> HIDE DEF Z
  <2>2. \A H : H \in part' <=> H # {} /\ \E Y \in Z : H = Y \ {{}}
    BY <2>1 DEF Manager!Trim
  <2>3. \A H : (\E Y \in Z : H = Y \ {{}}) <=> \E G \in part : H = B(G)
    BY DEF Z
  <2> QED BY <2>2, <2>3
<1>6. \A G \in part : \A c : c \in B(G) <=> (c \in G /\ c \notin S) \/ (dest \in G /\ c = U)
  BY <1>4
<1> HIDE DEF B
<1>7. \A H \in part' : H # {} /\ \A b \in H : b # {} /\ b \subseteq Blocks
  BY <1>2, <1>3, <1>5, <1>6
<1>8. ASSUME NEW H \in part', NEW K \in part', NEW b \in H, NEW c \in K, NEW n, n \in b, n \in c
      PROVE  b = c /\ H = K
  <2>1. PICK G \in part : H = B(G)
    BY <1>5
  <2>2. PICK F \in part : K = B(F)
    BY <1>5
  <2>3. CASE b \in G /\ b \notin S /\ c \in F /\ c \notin S
    BY <1>8, <2>1, <2>2, <2>3, GroupingFacts
  <2>4. CASE b = U /\ c = U /\ dest \in G /\ dest \in F
    BY <2>1, <2>2, <2>4, GroupingFacts
  <2>5. ASSUME NEW x \in UNION part, x \notin S, n \in x, n \in U PROVE FALSE
    <3>1. PICK y \in S : n \in y
      BY <2>5 DEF U
    <3> QED BY <2>5, <3>1, GroupingFacts
  <2> QED BY <1>6, <1>8, <2>1, <2>2, <2>3, <2>4, <2>5
<1>9. PICK D \in part : dest \in D
  BY <1>1
<1>10. U \in B(D) /\ B(D) \in part'
  BY <1>5, <1>6, <1>9
<1>11. ASSUME NEW n \in Blocks PROVE \E H \in part' : \E b \in H : n \in b
  <2>1. PICK b \in UNION part : n \in b
    BY GroupingFacts
  <2>2. CASE b \in S
    BY <1>10, <2>1, <2>2 DEF U
  <2>3. CASE b \notin S
    <3>1. PICK G \in part : b \in G
      BY <2>1
    <3>2. b \in B(G) /\ B(G) \in part'
      BY <1>5, <1>6, <2>3, <3>1
    <3> QED BY <2>1, <3>2
  <2> QED BY <2>2, <2>3
<1>12. \A H, K \in part' : \A b \in H, c \in K : \A n : n \in b /\ n \in c => b = c /\ H = K
  BY <1>8
<1>13. Manager!IsGrouping(part')
  BY <1>7, <1>11, <1>12, MakeGrouping
<1>14. ASSUME NEW H \in part' PROVE U \in H \/ \E G \in part : UNION H \subseteq UNION G
  <2>1. PICK G \in part : H = B(G)
    BY <1>5
  <2>2. dest \notin G => H \subseteq G
    BY <1>6, <2>1
  <2> QED BY <1>6, <2>1, <2>2
<1> QED BY <1>10, <1>13, <1>14 DEF U, Regrouped

\* So does gathering blocks.
LEMMA GatherKeeps ==
  ASSUME Manager!IsGrouping(part), NEW S, NEW G0, Manager!Gather(S, G0)
  PROVE  Regrouped(part, part', S)
<1> DEFINE A(G) == {b \ S : b \in G} \cup (IF G = G0 THEN {S} ELSE {})
<1>1. G0 \in part /\ S # {} /\ S \subseteq Manager!Covered(part) /\ part' = Manager!Trim({A(G) : G \in part})
  BY DEF Manager!Gather
<1>2. \A b \in UNION part : b # {} /\ b \subseteq Blocks
  BY GroupingFacts
<1>3. S \subseteq Blocks
  BY <1>1, <1>2 DEF Manager!Covered
<1> DEFINE B(G) == A(G) \ {{}}
<1>4. ASSUME NEW G, NEW c PROVE c \in B(G) <=> c # {} /\ ((\E b \in G : c = b \ S) \/ (G = G0 /\ c = S))
  OBVIOUS
<1>5. \A H : H \in part' <=> H # {} /\ \E G \in part : H = B(G)
  <2> HIDE DEF A
  <2> DEFINE Z == {A(G) : G \in part}
  <2>1. part' = Manager!Trim(Z)
    BY <1>1
  <2> HIDE DEF Z
  <2>2. \A H : H \in part' <=> H # {} /\ \E Y \in Z : H = Y \ {{}}
    BY <2>1 DEF Manager!Trim
  <2>3. \A H : (\E Y \in Z : H = Y \ {{}}) <=> \E G \in part : H = B(G)
    BY DEF Z
  <2> QED BY <2>2, <2>3
<1> HIDE DEF A, B
<1>7. \A H \in part' : H # {} /\ \A b \in H : b # {} /\ b \subseteq Blocks
  <2> SUFFICES ASSUME NEW G \in part, NEW c \in B(G) PROVE c # {} /\ c \subseteq Blocks
    BY <1>5
  <2> QED BY <1>2, <1>3, <1>4
<1>8. ASSUME NEW H \in part', NEW K \in part', NEW b \in H, NEW c \in K, NEW n, n \in b, n \in c
      PROVE  b = c /\ H = K
  <2>1. PICK G \in part : H = B(G)
    BY <1>5
  <2>2. PICK F \in part : K = B(F)
    BY <1>5
  <2>3. (\E x \in G : b = x \ S) \/ (G = G0 /\ b = S)
    BY <1>4, <2>1
  <2>4. (\E x \in F : c = x \ S) \/ (F = G0 /\ c = S)
    BY <1>4, <2>2
  <2>5. CASE n \in S
    BY <1>8, <2>1, <2>2, <2>3, <2>4, <2>5
  <2>6. CASE n \notin S
    <3>1. PICK x \in G : b = x \ S
      BY <1>8, <2>3, <2>6
    <3>2. PICK y \in F : c = y \ S
      BY <1>8, <2>4, <2>6
    <3>3. x = y
      BY <1>8, <3>1, <3>2, GroupingFacts
    <3>4. G = F
      BY <3>3, GroupingFacts
    <3> QED BY <2>1, <2>2, <3>1, <3>2, <3>3, <3>4
  <2> QED BY <2>5, <2>6
<1>10. S \in B(G0) /\ B(G0) \in part'
  BY <1>1, <1>4, <1>5
<1>11. ASSUME NEW n \in Blocks PROVE \E H \in part' : \E b \in H : n \in b
  <2>1. CASE n \in S
    BY <1>10, <2>1
  <2>2. CASE n \notin S
    <3>1. PICK b \in UNION part : n \in b
      BY GroupingFacts
    <3>2. PICK G \in part : b \in G
      BY <3>1
    <3>3. b \ S \in B(G)
      BY <1>4, <2>2, <3>1, <3>2
    <3>4. B(G) \in part'
      BY <1>5, <3>2, <3>3
    <3> QED BY <2>2, <3>1, <3>3, <3>4
  <2> QED BY <2>1, <2>2
<1>12. \A H, K \in part' : \A b \in H, c \in K : \A n : n \in b /\ n \in c => b = c /\ H = K
  BY <1>8
<1>13. Manager!IsGrouping(part')
  BY <1>7, <1>11, <1>12, MakeGrouping
<1>14. ASSUME NEW H \in part' PROVE S \in H \/ \E G \in part : UNION H \subseteq UNION G
  <2>1. PICK G \in part : H = B(G)
    BY <1>5
  <2>2. CASE G = G0
    BY <1>10, <2>1, <2>2
  <2>3. CASE G # G0
    <3>1. \A c \in H : \E b \in G : c = b \ S
      BY <1>4, <2>1, <2>3
    <3>2. UNION H \subseteq UNION G
      BY <3>1
    <3> QED BY <3>2
  <2> QED BY <2>2, <2>3
<1> QED BY <1>10, <1>13, <1>14 DEF Regrouped

-----------------------------------------------------------------------------
(* The invariant *)

\* The graph on display: blocks in the single view, and in the combined one the
\* groups that exist, numbered without gaps or repetitions.
Drawn ==
    /\ node_map \in [DOMAIN node_map -> Texts] /\ DOMAIN node_map \subseteq Blocks
    /\ cur_view_mode = "single" => DOMAIN ng2id = {} /\ DOMAIN node_map = Blocks
    /\ cur_view_mode = "combined" => ng2id \in Bijection(UNION part, DOMAIN node_map)

\* What refers to nodes of the graph. An iterator over the selection dangles
\* only as a value: it never stands at a node that is not selected.
Marks ==
    /\ selected_nodes \subseteq Blocks /\ highlighted_nodes \subseteq DOMAIN node_map
    /\ it_selected_node \in selected_nodes \cup {End, Dangling}
    /\ HighlightIteratorValid
    /\ cur_node \in Blocks \cup {NoNode}
    /\ "select_all" \notin Commands => IdsDisplayed

\* The inductive invariant. Two blocks of one super group have one name, so the
\* title of a group does not depend on the block it is read from.
ViewInv ==
    /\ Manager!IsGrouping(part) /\ name \in [Blocks -> Names] /\ Named(part, name)
    /\ null_nodes \subseteq Blocks \ Mentioned
    /\ {cur_view_mode, refresh_mode} \subseteq Modes /\ in_sel_mode \in BOOLEAN
    /\ fault \in {"none", "search", "similar", "iterator", "null_group", "null_node"}
    /\ Drawn /\ TitlesCurrent /\ Marks

\* It implies the properties.
LEMMA ViewInvImplies ==
  ViewInv => TypeOK /\ GroupIdsCurrent /\ TitlesCurrent /\ HighlightIteratorValid
             /\ ("select_all" \notin Commands => IdsDisplayed)
<1> SUFFICES ASSUME ViewInv PROVE TypeOK /\ GroupIdsCurrent
  BY DEF ViewInv, Marks
<1>1. TypeOK
  BY DEF ViewInv, Drawn, Marks, TypeOK, HighlightIteratorValid
<1>2. GroupIdsCurrent
  BY DEF ViewInv, Drawn, GroupIdsCurrent, Bijection, Injection
<1> QED BY <1>1, <1>2

-----------------------------------------------------------------------------
(* Rebuilding the graph *)

\* What user_refresh leaves is the graph of the manager as it now is.
Redrawn ==
    /\ node_map' \in [DOMAIN node_map' -> Texts] /\ DOMAIN node_map' \subseteq Blocks
    /\ cur_view_mode' = "single" => DOMAIN ng2id' = {} /\ DOMAIN node_map' = Blocks
    /\ cur_view_mode' = "combined" =>
          /\ ng2id' \in Bijection(UNION part', DOMAIN node_map')
          /\ \A b \in UNION part' : node_map'[ng2id'[b]] = TextOf(b, name')

\* The text of a node is a title or a disassembly, whatever block of the group
\* comes first.
LEMMA TextFact ==
  ASSUME NEW p, Manager!IsGrouping(p), NEW nm \in [Blocks -> Names], NEW b \in UNION p
  PROVE  TextOf(b, nm) \in Texts
<1>1. b # {} /\ b \subseteq Blocks
  BY GroupingFacts
<1> DEFINE n == CHOOSE m \in b : TRUE
<1>2. n \in Blocks
  BY <1>1
<1> HIDE DEF n
<1>3. Disasm(n) \in Texts /\ Title(nm[n]) \in Texts
  BY <1>2 DEF Disasm, Title, Texts
<1> QED BY <1>3 DEF TextOf, n

\* The callback of refresh_viewer() builds the graph and ng2id of the partition
\* at hand, in either view.
LEMMA Redraws ==
  ASSUME Manager!IsGrouping(part'), name' \in [Blocks -> Names], NEW mode \in Modes, user_refresh(mode)
  PROVE  Redrawn
<1>1. CASE mode = "single"
  <2>1. cur_view_mode' = "single" /\ ng2id' = [b \in {} |-> 0] /\ node_map' = [n \in Blocks |-> Disasm(n)]
    BY <1>1 DEF user_refresh, switch_to_single_view_mode
  <2>2. \A n \in Blocks : Disasm(n) \in Texts
    BY DEF Disasm, Texts
  <2> QED BY <2>1, <2>2 DEF Redrawn
<1>2. CASE mode = "combined"
  <2> DEFINE ids == 0 .. (Cardinality(UNION part') - 1)
             At(i) == CHOOSE b \in UNION part' : ng2id'[b] = i
  <2>1. /\ cur_view_mode' = "combined" /\ ng2id' \in Bijection(UNION part', ids)
        /\ node_map' = [i \in ids |-> TextOf(At(i), name')]
    BY <1>2 DEF user_refresh, switch_to_combined_view_mode
  <2>2. ids \subseteq Blocks
    BY GroupCount
  <2> HIDE DEF ids
  <2>3. /\ ng2id' \in [UNION part' -> ids]
        /\ \A b, c \in UNION part' : ng2id'[b] = ng2id'[c] => b = c
        /\ \A i \in ids : \E b \in UNION part' : ng2id'[b] = i
    BY <2>1, Fun_BijectionProperties
  <2>4. \A i \in ids : At(i) \in UNION part' /\ ng2id'[At(i)] = i
    BY <2>3
  <2> HIDE DEF At
  <2>5. \A i \in ids : TextOf(At(i), name') \in Texts
    BY <2>4, TextFact
  <2>6. \A b \in UNION part' : At(ng2id'[b]) = b /\ ng2id'[b] \in ids
    BY <2>3, <2>4
  <2> QED BY <2>1, <2>2, <2>5, <2>6 DEF Redrawn
<1> QED BY <1>1, <1>2 DEF Modes

\* Such a graph shows the right titles.
LEMMA RedrawnTitles ==
  ASSUME Manager!IsGrouping(part'), Named(part', name'), Redrawn
  PROVE  TitlesCurrent'
<1> SUFFICES ASSUME cur_view_mode' = "combined", NEW b \in DOMAIN ng2id', Cardinality(b) > 1, NEW n \in b
             PROVE  node_map'[ng2id'[b]] = Title(name'[n])
  BY DEF TitlesCurrent
<1>1. b \in UNION part'
  BY DEF Redrawn, Bijection, Injection
<1> DEFINE m == CHOOSE k \in b : TRUE
<1>2. m \in b
  OBVIOUS
<1>3. b # {m}
  <2>1. Cardinality({m}) = 1
    BY FS_Singleton
  <2> HIDE DEF m
  <2>2. Cardinality({m}) # Cardinality(b)
    BY <2>1
  <2> QED BY <2>2
<1>4. node_map'[ng2id'[b]] = Title(name'[m])
  BY <1>1, <1>3 DEF Redrawn, TextOf
<1>5. name'[m] = name'[n]
  BY <1>1, <1>2 DEF Named
<1> QED BY <1>4, <1>5

\* After a rebuild nothing refers to the old graph, and a current node is one of
\* the new one.
LEMMA RebuiltInv ==
  ASSUME Manager!IsGrouping(part'), name' \in [Blocks -> Names], Named(part', name'),
         NEW mode \in Modes, refresh_mode' \in Modes, user_refresh(mode),
         cur_node' \in DOMAIN node_map' \cup {NoNode}, in_sel_mode' \in BOOLEAN, fault' = "none",
         null_nodes' \subseteq Blocks \ Mentioned
  PROVE  ViewInv'
<1>1. Redrawn
  BY Redraws
<1>2. TitlesCurrent'
  BY <1>1, RedrawnTitles
<1>3. Drawn'
  BY <1>1 DEF Redrawn, Drawn
<1>4. Marks'
  BY <1>1 DEF user_refresh, reset_states, Marks, HighlightIteratorValid, IdsDisplayed, Redrawn
<1>5. Manager!IsGrouping(part)' /\ Named(part, name)'
  BY DEF Manager!IsGrouping, Manager!TwoLevel, Manager!Covered, Named
<1>6. cur_view_mode' \in Modes
  BY DEF user_refresh
<1> QED BY <1>2, <1>3, <1>4, <1>5, <1>6 DEF ViewInv

-----------------------------------------------------------------------------
(* Marks *)

\* A handler that keeps the manager and the graph has to see to the marks alone.
LEMMA MarkStep ==
  ASSUME ViewInv, UNCHANGED <<part, name, graph>>, null_nodes' \subseteq Blocks \ Mentioned,
         in_sel_mode' \in BOOLEAN,
         fault' \in {"none", "search", "similar", "iterator", "null_group", "null_node"}, Marks'
  PROVE  ViewInv'
<1>1. UNCHANGED <<part, name, cur_view_mode, refresh_mode, ng2id, node_map>>
  BY DEF graph
<1>2. Manager!IsGrouping(part)' /\ Named(part, name)'
  BY <1>1 DEF ViewInv, Manager!IsGrouping, Manager!TwoLevel, Manager!Covered, Named
<1>3. Drawn' /\ TitlesCurrent'
  BY <1>1 DEF ViewInv, Drawn, TitlesCurrent
<1> QED BY <1>1, <1>2, <1>3 DEF ViewInv

\* What highlight_nodes() colors is on display.
LEMMA ColoredShown ==
  ASSUME ViewInv, NEW b \in UNION part PROVE ColoredBy(b) \subseteq DOMAIN node_map
<1>1. b \subseteq Blocks
  BY GroupingFacts DEF ViewInv
<1>2. CASE cur_view_mode = "single"
  BY <1>1, <1>2 DEF ColoredBy, ViewInv, Drawn
<1>3. CASE cur_view_mode = "combined"
  <2>1. ng2id \in [UNION part -> DOMAIN node_map]
    BY <1>3 DEF ViewInv, Drawn, Bijection, Injection
  <2> QED BY <1>3, <2>1 DEF ColoredBy
<1> QED BY <1>2, <1>3 DEF ViewInv, Modes

\* An iterator that is rewound or advanced stays in its container.
LEMMA IteratorFact ==
  ASSUME NEW cont \in SUBSET Blocks, cont # {}, NEW it \in cont \cup {End}
  PROVE  Target(it, cont) \in cont /\ \A n : Advanced(n, cont) \in cont \cup {End}
<1>1. cont \subseteq Nat
  BY DEF Blocks
<1>2. Target(it, cont) \in cont
  BY <1>1, MinFact DEF Target
<1>3. ASSUME NEW n PROVE Advanced(n, cont) \in cont \cup {End}
  <2> DEFINE later == {m \in cont : m > n}
  <2>1. later # {} => Min(later) \in later
    <3>1. later \in SUBSET Nat
      BY <1>1
    <3> QED BY <3>1, MinFact
  <2> QED BY <2>1 DEF Advanced
<1> QED BY <1>2, <1>3

\* Selecting, highlighting, jumping and moving about.
Marking ==
    \/ set_sel_mode \/ \E n \in DOMAIN node_map : toggle_select_node(n) \/ changed_current(n)
    \/ select_all_nodes \/ clear_selection \/ clear_highlighting
    \/ \E B \in SUBSET UNION part : highlight_node(B)
    \/ \E b \in UNION part : on_enter(b)
    \/ \E M \in SUBSET part : find_and_highlight_nodes(M)
    \/ \E found \in SUBSET Blocks : highlight_similar_selection(found)
    \/ merge_highlight_with_selection
    \/ jump_next_selected_node \/ jump_next_highlighted_node

\* The commands that only select, highlight or move to a node keep the invariant.
LEMMA MarkingStep == ASSUME ViewInv, Marking PROVE ViewInv'
<1> USE DEF sel, high, gm
<1>0. /\ null_nodes \subseteq Blocks \ Mentioned
      /\ selected_nodes \subseteq Blocks /\ highlighted_nodes \subseteq DOMAIN node_map
      /\ it_selected_node \in selected_nodes \cup {End, Dangling}
      /\ it_highlighted_node \in highlighted_nodes \cup {End}
      /\ cur_node \in Blocks \cup {NoNode} /\ DOMAIN node_map \subseteq Blocks
      /\ in_sel_mode \in BOOLEAN /\ fault \in {"none", "search", "similar", "iterator", "null_group", "null_node"}
      /\ "select_all" \notin Commands =>
            selected_nodes \subseteq DOMAIN node_map /\ cur_node \in DOMAIN node_map \cup {NoNode}
  BY DEF ViewInv, Drawn, Marks, HighlightIteratorValid, IdsDisplayed
<1>1. ASSUME node_map' = node_map,
             selected_nodes' \subseteq Blocks, highlighted_nodes' \subseteq DOMAIN node_map,
             it_selected_node' \in selected_nodes' \cup {End, Dangling},
             it_highlighted_node' \in highlighted_nodes' \cup {End},
             cur_node' \in Blocks \cup {NoNode},
             "select_all" \notin Commands =>
                selected_nodes' \subseteq DOMAIN node_map /\ cur_node' \in DOMAIN node_map \cup {NoNode}
      PROVE  Marks'
  BY <1>1 DEF Marks, HighlightIteratorValid, IdsDisplayed
<1>2. CASE set_sel_mode
  BY <1>0, <1>1, <1>2, MarkStep DEF set_sel_mode, Command, graph
<1>3. ASSUME NEW n \in DOMAIN node_map, toggle_select_node(n) PROVE ViewInv'
  <2>1. UNCHANGED <<gm, graph, high, cur_node, in_sel_mode, fault>> /\ node_map' = node_map
    BY <1>3 DEF toggle_select_node, graph
  <2>2. CASE n \in selected_nodes
    <3>1. /\ selected_nodes' = selected_nodes \ {n}
          /\ it_selected_node' = IF it_selected_node = n THEN Dangling ELSE it_selected_node
      BY <1>3, <2>2 DEF toggle_select_node
    <3> QED BY <1>0, <1>1, <2>1, <3>1, MarkStep
  <2>3. CASE n \notin selected_nodes
    <3>1. selected_nodes' = selected_nodes \cup {n} /\ it_selected_node' = it_selected_node
      BY <1>3, <2>3 DEF toggle_select_node
    <3> QED BY <1>0, <1>1, <2>1, <3>1, MarkStep
  <2> QED BY <2>2, <2>3
<1>4. ASSUME NEW n \in DOMAIN node_map, changed_current(n) PROVE ViewInv'
  BY <1>0, <1>1, <1>4, MarkStep DEF changed_current, graph
<1>5. CASE select_all_nodes
  <2>1. "select_all" \in Commands /\ Mentioned \subseteq Blocks
    BY <1>5, ViewAssumption DEF select_all_nodes, Command
  <2>2. CASE null_nodes # {} /\ Crash("null_node")
    BY <1>0, <1>1, <2>2, MarkStep DEF Crash, graph
  <2>3. CASE ~(null_nodes # {} /\ Crash("null_node"))
    BY <1>0, <1>1, <1>5, <2>1, <2>3, MarkStep DEF select_all_nodes, graph
  <2> QED BY <2>2, <2>3
<1>6. CASE clear_selection
  BY <1>0, <1>1, <1>6, MarkStep DEF clear_selection, graph
<1>7. CASE clear_highlighting
  BY <1>0, <1>1, <1>7, MarkStep DEF clear_highlighting, Cleared, graph
<1>8. ASSUME NEW B \in SUBSET UNION part, highlight_node(B) PROVE ViewInv'
  <2>1. UNION {ColoredBy(b) : b \in B} \subseteq DOMAIN node_map
    BY ColoredShown
  <2>2. UNION B \subseteq Blocks
    BY GroupingFacts DEF ViewInv
  <2>3. null_nodes' \subseteq Blocks \ Mentioned
    BY <1>0, <1>8, <2>2 DEF highlight_node, LazyHighlight
  <2> QED BY <1>0, <1>1, <1>8, <2>1, <2>3, MarkStep DEF highlight_node, graph
<1>9. ASSUME NEW b \in UNION part, on_enter(b) PROVE ViewInv'
  <2>1. cur_node' \in DOMAIN node_map \cup {cur_node}
    BY <1>9, ColoredShown DEF on_enter, get_ngid_from_ng, jump_to_node
  <2> QED BY <1>0, <1>1, <1>9, <2>1, MarkStep DEF on_enter, graph
<1>10. ASSUME NEW M \in SUBSET part, find_and_highlight_nodes(M) PROVE ViewInv'
  <2>1. CASE M = {}
    BY <1>0, <1>1, <1>10, <2>1, MarkStep DEF find_and_highlight_nodes, Crash, graph
  <2>2. CASE M # {}
    <3>1. /\ highlighted_nodes' = UNION {ColoredBy(b) : b \in UNION M} /\ it_highlighted_node' = End
          /\ \E G \in M : \E b \in G : \E n \in ColoredBy(b) : cur_node' \in {cur_node, n}
          /\ UNCHANGED <<part, name, graph, sel, in_sel_mode, fault>> /\ node_map' = node_map
          /\ LazyHighlight(UNION UNION M)
      BY <1>10, <2>2 DEF find_and_highlight_nodes, get_ngid_from_ng, jump_to_node, graph
    <3>2. \A b \in UNION M : ColoredBy(b) \subseteq DOMAIN node_map
      BY ColoredShown
    <3>3. highlighted_nodes' \subseteq DOMAIN node_map /\ cur_node' \in DOMAIN node_map \cup {cur_node}
      BY <3>1, <3>2
    <3>4. UNION UNION M \subseteq Blocks
      BY GroupingFacts DEF ViewInv
    <3>5. null_nodes' \subseteq Blocks \ Mentioned
      BY <1>0, <3>1, <3>4 DEF LazyHighlight
    <3> QED BY <1>0, <1>1, <3>1, <3>3, <3>5, MarkStep
  <2> QED BY <2>1, <2>2
<1>11. ASSUME NEW found \in SUBSET Blocks, highlight_similar_selection(found) PROVE ViewInv'
  <2>1. DOMAIN node_map = Blocks
    BY <1>11 DEF highlight_similar_selection, ViewInv, Drawn
  <2>2. CASE found = {}
    BY <1>0, <1>1, <1>11, <2>2, MarkStep DEF highlight_similar_selection, Crash, graph
  <2>3. CASE found # {}
    <3>1. null_nodes' \subseteq Blocks \ Mentioned
      BY <1>0, <1>11, <2>3 DEF highlight_similar_selection, LazyHighlight
    <3> QED BY <1>0, <1>1, <1>11, <2>1, <2>3, <3>1, MarkStep DEF highlight_similar_selection, graph
  <2> QED BY <2>2, <2>3
<1>12. CASE merge_highlight_with_selection
  BY <1>0, <1>1, <1>12, MarkStep DEF merge_highlight_with_selection, graph
<1>13. CASE jump_next_selected_node
  <2>1. CASE it_selected_node = Dangling
    BY <1>0, <1>1, <1>13, <2>1, MarkStep DEF jump_next_selected_node, Crash, graph
  <2>2. CASE it_selected_node # Dangling
    <3>1. /\ Target(it_selected_node, selected_nodes) \in selected_nodes
          /\ \A n : Advanced(n, selected_nodes) \in selected_nodes \cup {End}
      BY <1>0, <1>13, <2>2, IteratorFact DEF jump_next_selected_node
    <3>2. /\ UNCHANGED <<gm, graph, selected_nodes, high, in_sel_mode, fault>> /\ node_map' = node_map
          /\ it_selected_node' \in selected_nodes \cup {End} /\ cur_node' \in selected_nodes \cup {cur_node}
      BY <1>13, <2>2, <3>1 DEF jump_next_selected_node, jump_to_node, graph
    <3> QED BY <1>0, <1>1, <3>2, MarkStep
  <2> QED BY <2>1, <2>2
<1>14. CASE jump_next_highlighted_node
  <2>1. /\ Target(it_highlighted_node, highlighted_nodes) \in highlighted_nodes
        /\ \A n : Advanced(n, highlighted_nodes) \in highlighted_nodes \cup {End}
    BY <1>0, <1>14, IteratorFact DEF jump_next_highlighted_node
  <2>2. /\ UNCHANGED <<gm, graph, highlighted_nodes, sel, in_sel_mode, fault>> /\ node_map' = node_map
        /\ it_highlighted_node' \in highlighted_nodes \cup {End} /\ cur_node' \in highlighted_nodes \cup {cur_node}
    BY <1>14, <2>1 DEF jump_next_highlighted_node, jump_to_node, graph
  <2> QED BY <1>0, <1>1, <2>2, MarkStep
<1> QED BY <1>2, <1>3, <1>4, <1>5, <1>6, <1>7, <1>8, <1>9, <1>10, <1>11, <1>12, <1>13, <1>14 DEF Marking

-----------------------------------------------------------------------------
(* Names *)

\* Naming a super group retitles its nodes and no other.
LEMMA EditStep ==
  ASSUME ViewInv, NEW G \in part, edit_sg_description(G) PROVE ViewInv'
<1> USE DEF sel, high
<1>1. PICK x \in Names : \E ids \in SUBSET DOMAIN node_map :
        /\ \A S \in Retitled(G) : Cardinality(ids \cap S) = 1
        /\ ids \subseteq UNION Retitled(G)
        /\ name' = [n \in Blocks |-> IF n \in UNION G THEN x ELSE name[n]]
        /\ node_map' = [i \in DOMAIN node_map |-> IF i \in ids THEN Title(x) ELSE node_map[i]]
  BY DEF edit_sg_description
<1>2. PICK ids \in SUBSET DOMAIN node_map :
        /\ \A S \in Retitled(G) : Cardinality(ids \cap S) = 1
        /\ ids \subseteq UNION Retitled(G)
        /\ name' = [n \in Blocks |-> IF n \in UNION G THEN x ELSE name[n]]
        /\ node_map' = [i \in DOMAIN node_map |-> IF i \in ids THEN Title(x) ELSE node_map[i]]
  BY <1>1
<1>3. UNCHANGED <<part, null_nodes, cur_view_mode, refresh_mode, ng2id, selected_nodes, it_selected_node,
                  highlighted_nodes, it_highlighted_node, cur_node, in_sel_mode, fault>>
  BY DEF edit_sg_description
<1>4. Manager!IsGrouping(part) /\ name \in [Blocks -> Names] /\ Drawn
  BY DEF ViewInv
<1>5. name' \in [Blocks -> Names]
  BY <1>2, <1>4
<1>6. Named(part, name)'
  <2> SUFFICES ASSUME NEW H \in part, NEW n \in UNION H, NEW m \in UNION H PROVE name'[n] = name'[m]
    BY <1>3 DEF Named
  <2>1. n \in Blocks /\ m \in Blocks
    BY <1>4, GroupingFacts
  <2>2. CASE H = G
    BY <1>2, <2>1, <2>2
  <2>3. CASE H # G
    <3>1. \A k \in UNION H : k \notin UNION G
      BY <1>4, <2>3, GroupingFacts
    <3>2. name[n] = name[m]
      BY DEF ViewInv, Named
    <3> QED BY <1>2, <2>1, <3>1, <3>2
  <2> QED BY <2>2, <2>3
<1>7. DOMAIN node_map' = DOMAIN node_map /\ node_map' \in [DOMAIN node_map -> Texts]
  <2>1. Title(x) \in Texts
    BY DEF Title, Texts
  <2> QED BY <1>2, <1>4, <2>1 DEF Drawn
<1>8. Drawn'
  BY <1>3, <1>4, <1>7 DEF Drawn
<1>9. TitlesCurrent'
  <2> SUFFICES ASSUME cur_view_mode = "combined", NEW b \in DOMAIN ng2id, Cardinality(b) > 1, NEW n \in b
               PROVE  node_map'[ng2id[b]] = Title(name'[n])
    BY <1>3 DEF TitlesCurrent
  <2>1. /\ ng2id \in [UNION part -> DOMAIN node_map] /\ \A c, d \in UNION part : ng2id[c] = ng2id[d] => c = d
    BY <1>4, Fun_BijectionProperties DEF Drawn
  <2>2. b \in UNION part /\ n \in Blocks
    BY <1>4, <2>1, GroupingFacts
  <2>3. \A c \in G : ColoredBy(c) = {ng2id[c]}
    BY <2>1 DEF ColoredBy
  <2>4. Retitled(G) = {{ng2id[c]} : c \in G}
    BY <2>3 DEF Retitled, get_ngid_from_ng
  <2>5. CASE b \in G
    <3>1. Cardinality(ids \cap {ng2id[b]}) = 1
      BY <1>2, <2>4, <2>5
    <3>2. ng2id[b] \in ids
      <4>1. Cardinality({}) = 0
        BY FS_EmptySet
      <4> QED BY <3>1, <4>1
    <3>3. n \in UNION G
      BY <2>5
    <3> QED BY <1>2, <2>2, <3>2, <3>3
  <2>6. CASE b \notin G
    <3>1. ng2id[b] \notin ids
      BY <1>2, <2>1, <2>2, <2>4, <2>6
    <3>2. n \notin UNION G
      BY <1>4, <2>2, <2>6, GroupingFacts
    <3>3. node_map[ng2id[b]] = Title(name[n])
      BY DEF ViewInv, TitlesCurrent
    <3> QED BY <1>2, <2>1, <2>2, <3>1, <3>2, <3>3
  <2> QED BY <2>5, <2>6
<1>10. Marks'
  BY <1>3, <1>7 DEF ViewInv, Marks, HighlightIteratorValid, IdsDisplayed
<1>11. Manager!IsGrouping(part)'
  BY <1>3, <1>4 DEF Manager!IsGrouping, Manager!TwoLevel, Manager!Covered
<1> QED BY <1>3, <1>5, <1>6, <1>8, <1>9, <1>10, <1>11 DEF ViewInv

-----------------------------------------------------------------------------
(* Regrouping *)

\* The node of the rebuilt graph that redo_layout centers on: that of the block n.
LEMMA FocusFact ==
  ASSUME Manager!IsGrouping(part'), Redrawn, cur_view_mode' \in Modes, NEW b \in UNION part', NEW n \in b
  PROVE  /\ get_gvnid_from_nid(n) \in DOMAIN node_map'
         /\ cur_view_mode' = "single" => get_gvnid_from_nid(n) = n
         /\ cur_view_mode' = "combined" => get_gvnid_from_nid(n) = ng2id'[b]
<1>1. n \in Blocks /\ GroupOf(n, part') = b
  <2>1. \A c \in UNION part' : n \in c => c = b
    BY GroupingFacts
  <2>2. n \in Blocks
    BY GroupingFacts
  <2> QED BY <2>1, <2>2 DEF GroupOf
<1>2. cur_view_mode' = "combined" => ng2id' \in [UNION part' -> DOMAIN node_map']
  BY DEF Redrawn, Bijection, Injection
<1> QED BY <1>1, <1>2 DEF get_gvnid_from_nid, Redrawn, Modes

\* After a combination the new group is named, the graph rebuilt and the focus on
\* the new group.
LEMMA EditAndFocusStep ==
  ASSUME ViewInv, NEW b, Regrouped(part, part', b), NEW first, first \subseteq b, EditAndFocus(b, first),
         UNCHANGED <<in_sel_mode, fault>>, fault = "none"
  PROVE  /\ ViewInv'
         /\ cur_node' # NoNode => IF cur_view_mode = "single" THEN cur_node' \in first ELSE cur_node' = ng2id'[b]
<1>1. Manager!IsGrouping(part') /\ b \in UNION part' /\ name \in [Blocks -> Names] /\ Named(part, name)
      /\ null_nodes' \subseteq Blocks \ Mentioned
  BY DEF Regrouped, ViewInv, EditAndFocus
<1>2. PICK x \in Names : name' = [n \in Blocks |-> IF n \in UNION HomeOf(b, part') THEN x ELSE name[n]]
  BY DEF EditAndFocus
<1>3. PICK n \in first : redo_layout_on(cur_view_mode, n)
  BY DEF EditAndFocus
<1> DEFINE home == HomeOf(b, part')
<1>4. home \in part' /\ b \in home
  BY <1>1 DEF HomeOf
<1> HIDE DEF home
<1>5. name' \in [Blocks -> Names]
  BY <1>1, <1>2
<1>6. Named(part', name')
  <2> SUFFICES ASSUME NEW H \in part', NEW k \in UNION H, NEW m \in UNION H PROVE name'[k] = name'[m]
    BY DEF Named
  <2>1. k \in Blocks /\ m \in Blocks
    BY <1>1, GroupingFacts
  <2>2. CASE H = home
    BY <1>2, <2>1, <2>2 DEF home
  <2>3. CASE H # home
    <3>1. \A l \in UNION H : l \notin UNION home
      BY <1>1, <1>4, <2>3, GroupingFacts
    <3>2. b \notin H
      BY <1>1, <1>4, <2>3, GroupingFacts
    <3>3. PICK G \in part : UNION H \subseteq UNION G
      BY <3>2 DEF Regrouped
    <3>4. name[k] = name[m]
      BY <1>1, <3>3 DEF Named
    <3> QED BY <1>2, <2>1, <3>1, <3>4 DEF home
  <2> QED BY <2>2, <2>3
<1>7. /\ refresh_mode' = cur_view_mode /\ user_refresh(cur_view_mode) /\ cur_view_mode \in Modes
      /\ cur_node' \in {NoNode, get_gvnid_from_nid(n)} /\ cur_view_mode' = cur_view_mode
  BY <1>3 DEF redo_layout_on, user_refresh, ViewInv
<1>8. Redrawn
  BY <1>1, <1>5, <1>7, Redraws
<1>9. /\ get_gvnid_from_nid(n) \in DOMAIN node_map'
      /\ cur_view_mode' = "single" => get_gvnid_from_nid(n) = n
      /\ cur_view_mode' = "combined" => get_gvnid_from_nid(n) = ng2id'[b]
  BY <1>1, <1>3, <1>7, <1>8, FocusFact
<1>10. ViewInv'
  <2>1. in_sel_mode' \in BOOLEAN /\ fault' = "none"
    BY DEF ViewInv
  <2> QED BY <1>1, <1>5, <1>6, <1>7, <1>9, <2>1, RebuiltInv
<1> QED BY <1>3, <1>7, <1>9, <1>10 DEF Modes

\* "Combine nodes", with what FocusFollows says of it.
LEMMA CombineStep ==
  ASSUME ViewInv, combine_node_groups
  PROVE  /\ ViewInv'
         /\ fault' = "none" /\ cur_node' # NoNode =>
               IF cur_view_mode = "single" THEN cur_node' \in selected_nodes
               ELSE \E b \in UNION part' : ng2id'[b] = cur_node' /\ UNION SelectedNGs \subseteq b
<1>0. Manager!IsGrouping(part) /\ fault = "none" /\ selected_nodes \subseteq Blocks /\ selected_nodes # {}
  <2>1. Cardinality({}) = 0
    BY FS_EmptySet
  <2>2. Cardinality(selected_nodes) > 1 /\ fault = "none"
    BY DEF combine_node_groups, Command
  <2> QED BY <2>1, <2>2 DEF ViewInv, Marks
<1>1. CASE /\ cur_view_mode = "combined" /\ SelectedNGs = {}
           /\ UNCHANGED <<gm, in_sel_mode, fault>> /\ redo_layout(cur_view_mode)
  <2>1. /\ UNCHANGED <<part, name>> /\ user_refresh(cur_view_mode) /\ refresh_mode' = cur_view_mode
        /\ cur_view_mode \in Modes /\ cur_node' = NoNode /\ in_sel_mode' \in BOOLEAN /\ fault' = "none"
        /\ null_nodes' \subseteq Blocks \ Mentioned
    BY <1>0, <1>1 DEF redo_layout, gm, ViewInv
  <2>2. Manager!IsGrouping(part') /\ Named(part', name') /\ name' \in [Blocks -> Names]
    BY <2>1 DEF ViewInv
  <2> QED BY <2>1, <2>2, RebuiltInv
<1>2. CASE cur_view_mode = "combined" /\ Crash("null_group")
  <2>1. /\ UNCHANGED <<part, name, null_nodes, graph, selected_nodes, it_selected_node,
                       highlighted_nodes, it_highlighted_node, node_map, cur_node, in_sel_mode>> /\ fault' = "null_group"
    BY <1>2 DEF Crash, gm, sel, high, graph
  <2>2. Marks' /\ in_sel_mode' \in BOOLEAN /\ null_nodes' \subseteq Blocks \ Mentioned
    BY <2>1 DEF ViewInv, Marks, HighlightIteratorValid, IdsDisplayed
  <2> QED BY <2>1, <2>2, MarkStep
<1>3. ASSUME cur_view_mode = "combined", UNCHANGED <<in_sel_mode, fault>>,
             NEW dest \in SelectedNGs, Manager!Combine(SelectedNGs, dest), EditAndFocus(UNION SelectedNGs, dest)
      PROVE  /\ ViewInv'
             /\ cur_node' # NoNode => \E b \in UNION part' : ng2id'[b] = cur_node' /\ UNION SelectedNGs \subseteq b
  <2>1. SelectedNGs \in SUBSET UNION part
    BY <1>3 DEF ViewInv, Drawn, Bijection, Injection, SelectedNGs
  <2>2. Regrouped(part, part', UNION SelectedNGs)
    BY <1>0, <1>3, <2>1, CombineKeeps
  <2>3. dest \subseteq UNION SelectedNGs
    BY <1>3
  <2>4. ViewInv' /\ (cur_node' # NoNode => cur_node' = ng2id'[UNION SelectedNGs])
    BY <1>0, <1>3, <2>2, <2>3, EditAndFocusStep
  <2>5. UNION SelectedNGs \in UNION part'
    BY <2>2 DEF Regrouped
  <2> QED BY <2>4, <2>5
<1>4. ASSUME cur_view_mode = "single", UNCHANGED <<in_sel_mode, fault>>,
             NEW G \in part, Manager!Gather(selected_nodes, G),
             EditAndFocus(selected_nodes, {Min(selected_nodes)})
      PROVE  ViewInv' /\ (cur_node' # NoNode => cur_node' \in selected_nodes)
  <2>1. Regrouped(part, part', selected_nodes)
    BY <1>0, <1>4, GatherKeeps
  <2>2. {Min(selected_nodes)} \subseteq selected_nodes
    <3>1. selected_nodes \in SUBSET Nat
      BY <1>0 DEF Blocks
    <3> QED BY <1>0, <3>1, MinFact
  <2> QED BY <1>0, <1>4, <2>1, <2>2, EditAndFocusStep
<1> QED BY <1>0, <1>1, <1>2, <1>3, <1>4 DEF combine_node_groups

-----------------------------------------------------------------------------
(* The theorems *)

\* The initial states.
LEMMA ViewInit == Init => ViewInv
<1> SUFFICES ASSUME Init PROVE ViewInv
  OBVIOUS
<1> DEFINE ids == 0 .. (Cardinality(UNION part) - 1)
           At(i) == CHOOSE b \in UNION part : ng2id[b] = i
<1>1. /\ Manager!IsGrouping(part) /\ name \in [Blocks -> Names] /\ Named(part, name)
      /\ ng2id \in Bijection(UNION part, ids) /\ cur_view_mode = "combined"
  BY PartsGrouping DEF Init
<1>2. ids \subseteq Blocks
  BY <1>1, GroupCount
<1> HIDE DEF ids
<1>3. /\ ng2id \in [UNION part -> ids] /\ Range(ng2id) = ids
      /\ \A b, c \in UNION part : ng2id[b] = ng2id[c] => b = c
      /\ \A i \in ids : \E b \in UNION part : ng2id[b] = i
  <2>1. ng2id \in Surjection(UNION part, ids)
    BY <1>1 DEF Bijection
  <2> QED BY <1>1, <2>1, Fun_BijectionProperties, Fun_SurjectionProperties
<1>4. node_map = [i \in ids |-> TextOf(At(i), name)]
  BY <1>3 DEF Init
<1>5. \A i \in ids : At(i) \in UNION part /\ ng2id[At(i)] = i
  BY <1>3
<1> HIDE DEF At
<1>6. \A i \in ids : TextOf(At(i), name) \in Texts
  BY <1>1, <1>5, TextFact
<1>7. Drawn
  BY <1>1, <1>2, <1>4, <1>6 DEF Drawn
<1>8. TitlesCurrent
  <2> SUFFICES ASSUME NEW b \in DOMAIN ng2id, Cardinality(b) > 1, NEW n \in b
               PROVE  node_map[ng2id[b]] = Title(name[n])
    BY DEF TitlesCurrent
  <2>1. b \in UNION part /\ ng2id[b] \in ids
    BY <1>3
  <2>2. At(ng2id[b]) = b
    BY <1>3, <1>5, <2>1
  <2> DEFINE m == CHOOSE k \in b : TRUE
  <2>3. m \in b
    OBVIOUS
  <2>4. b # {m}
    <3>1. Cardinality({m}) = 1
      BY FS_Singleton
    <3> HIDE DEF m
    <3>2. Cardinality({m}) # Cardinality(b)
      BY <3>1
    <3> QED BY <3>2
  <2>5. node_map[ng2id[b]] = Title(name[m])
    BY <1>4, <2>1, <2>2, <2>4 DEF TextOf
  <2>6. name[m] = name[n]
    BY <1>1, <2>1, <2>3 DEF Named
  <2> QED BY <2>5, <2>6
<1>9. Marks
  BY DEF Init, Marks, HighlightIteratorValid, IdsDisplayed
<1> QED BY <1>1, <1>7, <1>8, <1>9 DEF Init, ViewInv, Modes

\* Every step preserves the invariant.
LEMMA ViewStep == ViewInv /\ [Next]_vars => ViewInv'
<1> SUFFICES ASSUME ViewInv, [Next]_vars PROVE ViewInv'
  OBVIOUS
<1>0. Manager!IsGrouping(part) /\ name \in [Blocks -> Names] /\ Named(part, name) /\ in_sel_mode \in BOOLEAN
      /\ null_nodes \subseteq Blocks \ Mentioned
      /\ cur_view_mode \in Modes /\ refresh_mode \in Modes
  BY DEF ViewInv
<1>1. CASE UNCHANGED vars
  <2>1. UNCHANGED <<part, name, null_nodes, graph, selected_nodes, it_selected_node,
                    highlighted_nodes, it_highlighted_node, node_map, cur_node, in_sel_mode, fault>>
    BY <1>1 DEF vars, gm, sel, high, graph
  <2>2. Marks'
    BY <2>1 DEF ViewInv, Marks, HighlightIteratorValid, IdsDisplayed
  <2>3. /\ null_nodes' \subseteq Blocks \ Mentioned /\ in_sel_mode' \in BOOLEAN
        /\ fault' \in {"none", "search", "similar", "iterator", "null_group", "null_node"}
    BY <2>1 DEF ViewInv
  <2> QED BY <2>1, <2>2, <2>3, MarkStep
<1>2. CASE Marking
  BY <1>2, MarkingStep
<1>3. ASSUME NEW G \in part, on_edit_line(G) PROVE ViewInv'
  BY <1>3, EditStep DEF on_edit_line
<1>4. CASE menu_edit_sg_desc
  <2>1. PICK b \in DOMAIN ng2id : edit_sg_description(HomeOf(b, part))
    BY <1>4 DEF menu_edit_sg_desc
  <2>2. b \in UNION part
    BY <1>4 DEF menu_edit_sg_desc, ViewInv, Drawn, Bijection, Injection
  <2>3. HomeOf(b, part) \in part
    BY <2>2 DEF HomeOf
  <2> QED BY <2>1, <2>3, EditStep
<1>5. ASSUME NEW mode \in Modes, switch_view(mode) PROVE ViewInv'
  <2>1. /\ UNCHANGED <<part, name, null_nodes, in_sel_mode>> /\ fault' = "none" /\ refresh_mode' = mode
        /\ user_refresh(mode) /\ cur_node' = NoNode
    BY <1>5 DEF switch_view, Command, redo_layout, gm
  <2>2. Manager!IsGrouping(part') /\ Named(part', name') /\ name' \in [Blocks -> Names] /\ in_sel_mode' \in BOOLEAN
        /\ null_nodes' \subseteq Blocks \ Mentioned
    BY <1>0, <2>1
  <2> QED BY <2>1, <2>2, RebuiltInv
<1>6. CASE refresh
  <2>1. /\ UNCHANGED <<part, name, null_nodes, in_sel_mode>> /\ fault' = "none" /\ refresh_mode' = refresh_mode
        /\ user_refresh(refresh_mode) /\ cur_node' = NoNode
    BY <1>6 DEF refresh, Command, gm
  <2>2. Manager!IsGrouping(part') /\ Named(part', name') /\ name' \in [Blocks -> Names] /\ in_sel_mode' \in BOOLEAN
        /\ null_nodes' \subseteq Blocks \ Mentioned
    BY <1>0, <2>1
  <2> QED BY <1>0, <2>1, <2>2, RebuiltInv
<1>7. CASE Analyze
  <2>1. /\ part' \in Parts /\ name' \in [Blocks -> Names] /\ Named(part', name') /\ fault' = "none"
        /\ refresh_mode' = cur_view_mode /\ user_refresh(cur_view_mode) /\ cur_node' = NoNode
        /\ in_sel_mode' \in BOOLEAN /\ null_nodes' = {}
    BY <1>0, <1>7 DEF Analyze, Command, redo_layout
  <2>2. Manager!IsGrouping(part')
    BY <2>1, PartsGrouping
  <2> QED BY <1>0, <2>1, <2>2, RebuiltInv
<1>8. ASSUME NEW G \in part,
             highlight_node(G) \/ \E b \in G : highlight_node({b}) \/ on_enter(b)
      PROVE  Marking
  <2>1. G \in SUBSET UNION part /\ \A b \in G : {b} \in SUBSET UNION part /\ b \in UNION part
    OBVIOUS
  <2> QED BY <1>8, <2>1 DEF Marking
<1>9. ASSUME NEW M \in SUBSET part, highlight_node(UNION M) \/ find_and_highlight_nodes(M) PROVE Marking
  <2>1. UNION M \in SUBSET UNION part
    OBVIOUS
  <2> QED BY <1>9, <2>1 DEF Marking
<1>10. ASSUME NEW n \in DOMAIN node_map, toggle_select_node(n) \/ changed_current(n) PROVE Marking
  BY <1>10 DEF Marking
<1>11. CASE \/ set_sel_mode \/ select_all_nodes \/ clear_selection \/ clear_highlighting
            \/ \E found \in SUBSET Blocks : highlight_similar_selection(found)
            \/ merge_highlight_with_selection \/ jump_next_selected_node \/ jump_next_highlighted_node
  BY <1>2, <1>11 DEF Marking
<1>12. CASE combine_node_groups
  BY <1>12, CombineStep
<1> QED BY <1>1, <1>2, <1>3, <1>4, <1>5, <1>6, <1>7, <1>8, <1>9, <1>10, <1>11, <1>12 DEF Next

\* The invariant always holds.
LEMMA ViewAlways == Spec => []ViewInv
BY ViewInit, ViewStep, PTL DEF Spec

\* Types, among them that no combination, load or edit breaks the partition.
THEOREM ViewTypes == Spec => []TypeOK
BY ViewAlways, ViewInvImplies, PTL

\* ng2id, keyed by pointers to node groups, knows exactly the groups that exist
\* whenever a handler has returned.
THEOREM GroupIdsFresh == Spec => []GroupIdsCurrent
BY ViewAlways, ViewInvImplies, PTL

\* Every node of several blocks shows the name its super group has now.
THEOREM TitlesFollow == Spec => []TitlesCurrent
BY ViewAlways, ViewInvImplies, PTL

\* The highlighting iterator never outlives what it points to.
THEOREM HighlightIteratorSafe == Spec => []HighlightIteratorValid
BY ViewAlways, ViewInvImplies, PTL

\* Without "Select all", which selects block ids in both views, no id of an
\* earlier graph is ever selected, highlighted or current.
THEOREM MarksDisplayed == ASSUME "select_all" \notin Commands PROVE Spec => []IdsDisplayed
<1>1. ViewInv => IdsDisplayed
  BY ViewInvImplies
<1> QED BY <1>1, ViewAlways, PTL

\* "Combine nodes" centers the rebuilt graph on the group it made.
THEOREM FocusOnNewGroup == Spec => FocusFollows
<1>1. ViewInv /\ [Next]_vars =>
        [combine_node_groups /\ fault' = "none" /\ cur_node' # NoNode =>
           IF cur_view_mode = "single" THEN cur_node' \in selected_nodes
           ELSE \E b \in UNION part' : ng2id'[b] = cur_node' /\ UNION SelectedNGs \subseteq b]_vars
  BY CombineStep
<1> QED BY <1>1, ViewAlways, PTL DEF Spec, FocusFollows
=============================================================================
