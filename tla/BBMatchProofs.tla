--------------------------- MODULE BBMatchProofs ---------------------------
(***************************************************************************)
(* The matcher, for every program and every number of analyses. First one   *)
(* walk: the two subgraphs it collects stay in step and keep one shape, on  *)
(* every graph and whatever blocks match. Then the tables: what Analyze()   *)
(* walks, what it enters in the classes of matched paths, and what          *)
(* FindSimilar() makes of them. Last the answers: analyses of one function  *)
(* all find the same instances, none of them inside another taken before.   *)
(***************************************************************************)
EXTENDS BBMatch, FiniteSetTheorems, FunctionTheorems, WellFoundedInduction, TLAPS

-----------------------------------------------------------------------------
(* A walk *)

\* e is a pair of corresponding blocks of the paths p and q.
Paired(e, p, q) == \E j \in DOMAIN p : e = <<p[j], q[j]>>

WalkType ==
    /\ blocks \subseteq Node /\ succs \in [blocks -> Seq(Node)]
    /\ path1 \in Seq(Node) /\ path2 \in Seq(Node) /\ kinds \in Seq(HashTypes)
    /\ q1 \in Seq(Node \X Node) /\ ls \in Seq(Node)

\* Between two walks there are no paths; what is queued or at work is a pair of
\* the paths; what is still to be tried are successors of the block at work.
Queued ==
    /\ pc = "ready" => path1 = <<>>
    /\ \A i \in DOMAIN q1 : Paired(q1[i], path1, path2)
    /\ pc = "visit" => /\ Paired(cur, path1, path2)
                       /\ \A i \in DOMAIN ls : ls[i] \in Elems(Succs(cur[1]))

WalkInv == WalkType /\ Queued /\ InStep /\ SameShape

\* The successors of a block are a sequence of blocks.
LEMMA SuccsType ==
  ASSUME WalkType, NEW n
  PROVE  Succs(n) \in Seq(Node)
BY DEF WalkType, Succs

\* The elements of a tail are elements of the sequence.
LEMMA TailElems ==
  ASSUME NEW S, NEW s \in Seq(S), s # <<>>
  PROVE  /\ Head(s) \in S /\ Head(s) = s[1] /\ 1 \in DOMAIN s
         /\ Tail(s) \in Seq(S)
         /\ \A i \in DOMAIN Tail(s) : i + 1 \in DOMAIN s /\ Tail(s)[i] = s[i + 1]
OBVIOUS

\* Appending keeps the elements there are and adds one at the end.
LEMMA AppendElems ==
  ASSUME NEW S, NEW s \in Seq(S), NEW e \in S
  PROVE  /\ Append(s, e) \in Seq(S) /\ Len(Append(s, e)) = Len(s) + 1
         /\ DOMAIN Append(s, e) = 1 .. (Len(s) + 1)
         /\ \A i \in DOMAIN s : Append(s, e)[i] = s[i]
         /\ Append(s, e)[Len(s) + 1] = e
OBVIOUS

\* Before the first walk nothing was collected.
LEMMA WalkInitInv == WalkInit => WalkInv
BY DEF WalkInit, WalkInv, WalkType, Queued, InStep, SameShape, HashTypes

\* Steps that leave the paths and the graph alone keep InStep and SameShape.
LEMMA SamePaths ==
  ASSUME InStep, SameShape, UNCHANGED <<graph, path1, path2, kinds>>
  PROVE  InStep' /\ SameShape'
<1>1. blocks' = blocks /\ succs' = succs /\ sim' = sim /\ path1' = path1 /\ path2' = path2 /\ kinds' = kinds
  BY DEF graph
<1>2. InStep'
  BY <1>1 DEF InStep
<1>3. \A n : Elems(Succs(n))' = Elems(Succs(n))
  BY <1>1 DEF Elems, Succs
<1>4. SameShape'
  BY <1>1, <1>3, Zenon DEF SameShape
<1> QED BY <1>2, <1>4

\* A match appends a pair of blocks reached from the pair at work.
LEMMA MatchSuccInv ==
  ASSUME WalkInv, NEW t \in HashTypes, MatchSucc(t)
  PROVE  WalkInv'
<1> DEFINE l == Head(ls)
           y == cur[2]
<1>0. WalkType /\ Queued /\ InStep /\ SameShape
  BY DEF WalkInv
<1>1. PICK k \in Hits(l, y, t) \cap Tried(l, y, t) :
          path2' = Append(path2, Succs(y)[k]) /\ q1' = Append(q1, <<l, Succs(y)[k]>>)
  BY DEF MatchSucc
<1> DEFINE m == Succs(y)[k]
<1>2. /\ pc = "visit" /\ ls # <<>> /\ ~Skipped(l)
      /\ path1' = Append(path1, l) /\ kinds' = Append(kinds, t) /\ ls' = Tail(ls)
      /\ UNCHANGED <<graph, pc, cur>>
  BY DEF MatchSucc
<1>3. l \in Node /\ l = ls[1] /\ 1 \in DOMAIN ls /\ ls' \in Seq(Node)
  BY <1>0, <1>2, TailElems DEF WalkType
<1>4. /\ k \in DOMAIN Succs(y) /\ m # l /\ m \notin Elems(path2) /\ <<l, m>> \in sim[t]
  BY DEF Hits, Eligible
<1>5. m \in Node
  <2>1. Succs(y) \in Seq(Node)
    BY <1>0, SuccsType
  <2> QED BY <2>1, <1>4
<1>6. l \notin Elems(path1) /\ l \in Elems(Succs(cur[1])) /\ m \in Elems(Succs(y))
  BY <1>0, <1>2, <1>3, <1>4 DEF Skipped, Queued, Elems
<1>7. PICK j \in DOMAIN path1 : cur = <<path1[j], path2[j]>>
  BY <1>0, <1>2 DEF Queued, Paired
<1>8. /\ path1' \in Seq(Node) /\ path2' \in Seq(Node) /\ kinds' \in Seq(HashTypes)
      /\ q1' \in Seq(Node \X Node)
  <2>1. <<l, m>> \in Node \X Node
    BY <1>3, <1>5
  <2> QED BY <1>0, <1>1, <1>2, <1>3, <1>5, <2>1, AppendElems DEF WalkType
<1>9. /\ Len(path1') = Len(path1) + 1 /\ DOMAIN path1' = 1 .. (Len(path1) + 1)
      /\ \A i \in DOMAIN path1 : path1'[i] = path1[i]
      /\ path1'[Len(path1) + 1] = l
  BY <1>0, <1>2, <1>3, AppendElems DEF WalkType
<1>10. /\ Len(path2') = Len(path2) + 1
       /\ \A i \in DOMAIN path2 : path2'[i] = path2[i]
       /\ path2'[Len(path2) + 1] = m
  BY <1>0, <1>1, <1>5, AppendElems DEF WalkType
<1>11. /\ Len(kinds') = Len(kinds) + 1
       /\ \A i \in DOMAIN kinds : kinds'[i] = kinds[i]
       /\ kinds'[Len(kinds) + 1] = t
  BY <1>0, <1>2, AppendElems DEF WalkType
<1>12. /\ Len(path1) = Len(path2) /\ Len(kinds) = Len(path1) /\ Len(path1) \in Nat
       /\ DOMAIN path1 = 1 .. Len(path1) /\ DOMAIN path2 = 1 .. Len(path1) /\ DOMAIN kinds = 1 .. Len(path1)
  BY <1>0 DEF WalkType, InStep
<1>13. WalkType'
  BY <1>0, <1>2, <1>3, <1>8 DEF WalkType, graph
<1>14. InStep'
  <2>1. \A i \in DOMAIN path1 : l # path1[i] /\ m # path2[i]
    BY <1>4, <1>6, <1>12 DEF Elems
  <2>2. Len(path1') = Len(path2') /\ Len(kinds') = Len(path1')
    BY <1>9, <1>10, <1>11, <1>12
  <2>3. ASSUME NEW i \in DOMAIN path1', NEW n \in DOMAIN path1', i # n
        PROVE  path1'[i] # path1'[n] /\ path2'[i] # path2'[n]
    <3>1. i \in DOMAIN path1 \/ i = Len(path1) + 1
      BY <1>9, <1>12
    <3>2. n \in DOMAIN path1 \/ n = Len(path1) + 1
      BY <1>9, <1>12
    <3> QED BY <3>1, <3>2, <2>1, <2>3, <1>0, <1>9, <1>10, <1>12 DEF InStep
  <2>4. ASSUME NEW i \in DOMAIN path1' PROVE path1'[i] # path2'[i]
    <3>1. i \in DOMAIN path1 \/ i = Len(path1) + 1
      BY <1>9, <1>12
    <3> QED BY <3>1, <1>0, <1>4, <1>9, <1>10, <1>12 DEF InStep
  <2> QED BY <2>2, <2>3, <2>4 DEF InStep
<1>15. SameShape'
  <2> SUFFICES ASSUME NEW i \in DOMAIN path1', i > 1
               PROVE  /\ <<path1'[i], path2'[i]>> \in sim[kinds'[i]]
                      /\ \E n \in 1 .. (i - 1) : /\ path1'[i] \in Elems(Succs(path1'[n]))
                                                 /\ path2'[i] \in Elems(Succs(path2'[n]))
    <3>1. blocks' = blocks /\ succs' = succs /\ sim' = sim
      BY <1>2 DEF graph
    <3>2. \A n : Elems(Succs(n))' = Elems(Succs(n))
      BY <3>1 DEF Elems, Succs
    <3> QED BY <3>1, <3>2, Zenon DEF SameShape
  <2>1. CASE i \in DOMAIN path1
    <3>1. path1'[i] = path1[i] /\ path2'[i] = path2[i] /\ kinds'[i] = kinds[i]
      BY <2>1, <1>9, <1>10, <1>11, <1>12
    <3>2. PICK n \in 1 .. (i - 1) : path1[i] \in Elems(Succs(path1[n])) /\ path2[i] \in Elems(Succs(path2[n]))
      BY <2>1, <1>0 DEF SameShape
    <3>3. path1'[n] = path1[n] /\ path2'[n] = path2[n]
      BY <2>1, <1>9, <1>10, <1>12
    <3> QED BY <2>1, <3>1, <3>2, <3>3, <1>0 DEF SameShape
  <2>2. CASE i = Len(path1) + 1
    <3>1. path1'[i] = l /\ path2'[i] = m /\ kinds'[i] = t
      BY <2>2, <1>9, <1>10, <1>11, <1>12
    <3>2. path1'[j] = cur[1] /\ path2'[j] = y /\ j \in 1 .. (i - 1)
      BY <2>2, <1>7, <1>9, <1>10, <1>12
    <3> QED BY <3>1, <3>2, <1>4, <1>6
  <2> QED BY <2>1, <2>2, <1>9, <1>12
<1>16. Queued'
  <2>1. ASSUME NEW e, Paired(e, path1, path2) PROVE Paired(e, path1', path2')
    BY <2>1, <1>9, <1>10, <1>12 DEF Paired
  <2>2. Paired(<<l, m>>, path1', path2')
    BY <1>9, <1>10, <1>12 DEF Paired
  <2>3. \A i \in DOMAIN q1' : Paired(q1'[i], path1', path2')
    <3>1. <<l, m>> \in Node \X Node
      BY <1>3, <1>5
    <3>2. /\ DOMAIN q1' = 1 .. (Len(q1) + 1) /\ DOMAIN q1 = 1 .. Len(q1) /\ Len(q1) \in Nat
          /\ \A i \in DOMAIN q1 : q1'[i] = q1[i]
          /\ q1'[Len(q1) + 1] = <<l, m>>
      <4>1. q1 \in Seq(Node \X Node) /\ q1' = Append(q1, <<l, m>>)
        BY <1>0, <1>1 DEF WalkType
      <4> HIDE DEF l, m
      <4> QED BY <4>1, <3>1, AppendElems
    <3> QED BY <3>2, <2>1, <2>2, <1>0 DEF Queued
  <2>4. Paired(cur', path1', path2')
    BY <2>1, <1>2, <1>7 DEF Paired
  <2>5. \A i \in DOMAIN ls' : ls'[i] \in Elems(Succs(cur[1]))'
    <3>1. \A i \in DOMAIN ls' : i + 1 \in DOMAIN ls /\ ls'[i] = ls[i + 1]
      BY <1>0, <1>2, TailElems DEF WalkType
    <3>2. Elems(Succs(cur[1]))' = Elems(Succs(cur[1]))
      BY <1>2 DEF Elems, Succs, graph
    <3> QED BY <3>1, <3>2, <1>0, <1>2 DEF Queued
  <2> QED BY <2>3, <2>4, <2>5, <1>2 DEF Queued
<1> QED BY <1>13, <1>14, <1>15, <1>16 DEF WalkInv

\* A new walk starts with one pair of different blocks.
LEMMA StartPairInv ==
  ASSUME WalkInv, NEW a \in Node, NEW b \in Node, a # b, StartPair(a, b)
  PROVE  WalkInv'
<1>1. /\ blocks' = blocks /\ succs' = succs /\ path1' = <<a>> /\ path2' = <<b>> /\ kinds' = <<"hash_itype2">>
      /\ q1' = <<<<a, b>>>> /\ ls' = <<>> /\ pc' \in {"dequeue", "raised"}
  BY DEF StartPair, graph
<1>2. WalkType'
  BY <1>1 DEF WalkInv, WalkType, HashTypes
<1>3. Queued'
  <2>1. Paired(<<a, b>>, path1', path2')
    <3>1. 1 \in DOMAIN path1' /\ path1'[1] = a /\ path2'[1] = b
      BY <1>1
    <3> QED BY <3>1 DEF Paired
  <2>2. \A i \in DOMAIN q1' : q1'[i] = <<a, b>>
    BY <1>1
  <2>3. \A i \in DOMAIN q1' : Paired(q1'[i], path1', path2')
    BY <2>1, <2>2
  <2>4. pc' # "ready" /\ pc' # "visit"
    BY <1>1
  <2> QED BY <2>3, <2>4 DEF Queued
<1>4. InStep' /\ SameShape'
  BY <1>1 DEF InStep, SameShape
<1> QED BY <1>2, <1>3, <1>4 DEF WalkInv

\* Dequeuing makes a pair of the paths the one at work.
LEMMA DequeueInv ==
  ASSUME WalkInv, Dequeue
  PROVE  WalkInv'
<1>1. WalkType /\ Queued /\ InStep /\ SameShape
  BY DEF WalkInv
<1>2. /\ q1 # <<>> /\ cur' = Head(q1) /\ q1' = Tail(q1) /\ ls' = Succs(Head(q1)[1]) /\ pc' = "visit"
      /\ UNCHANGED <<graph, path1, path2, kinds>>
  BY DEF Dequeue
<1>3. blocks' = blocks /\ succs' = succs /\ path1' = path1 /\ path2' = path2 /\ kinds' = kinds
  BY <1>2 DEF graph
<1>4. /\ Head(q1) = q1[1] /\ 1 \in DOMAIN q1 /\ q1' \in Seq(Node \X Node)
      /\ \A i \in DOMAIN q1' : i + 1 \in DOMAIN q1 /\ q1'[i] = q1[i + 1]
  BY <1>1, <1>2, TailElems DEF WalkType
<1>5. ls' \in Seq(Node)
  BY <1>1, <1>2, SuccsType
<1>6. WalkType'
  BY <1>1, <1>3, <1>4, <1>5 DEF WalkType
<1>7. Succs(cur[1])' = ls'
  BY <1>2, <1>3 DEF Succs
<1>8. Queued'
  <2>1. \A i \in DOMAIN ls' : ls'[i] \in Elems(Succs(cur[1]))'
    BY <1>7 DEF Elems
  <2> QED BY <2>1, <1>1, <1>2, <1>3, <1>4 DEF Queued
<1> QED BY <1>1, <1>2, <1>6, <1>8, SamePaths DEF WalkInv

\* A successor that is passed over leaves fewer to be tried.
LEMMA PassOverInv ==
  ASSUME WalkInv, SkipSucc \/ NoMatch
  PROVE  WalkInv'
<1>1. WalkType /\ Queued /\ InStep /\ SameShape
  BY DEF WalkInv
<1>2. pc = "visit" /\ ls # <<>> /\ ls' = Tail(ls) /\ UNCHANGED <<graph, pc, q1, cur, path1, path2, kinds>>
  BY DEF SkipSucc, NoMatch
<1>3. blocks' = blocks /\ succs' = succs
  BY <1>2 DEF graph
<1>4. ls' \in Seq(Node) /\ \A i \in DOMAIN ls' : i + 1 \in DOMAIN ls /\ ls'[i] = ls[i + 1]
  BY <1>1, <1>2, TailElems DEF WalkType
<1>5. WalkType'
  BY <1>1, <1>2, <1>3, <1>4 DEF WalkType
<1>6. Elems(Succs(cur[1]))' = Elems(Succs(cur[1]))
  BY <1>2, <1>3 DEF Elems, Succs
<1>7. Queued'
  BY <1>1, <1>2, <1>4, <1>6 DEF Queued
<1> QED BY <1>1, <1>2, <1>5, <1>7, SamePaths DEF WalkInv

\* The steps that end something touch no path.
LEMMA EndInv ==
  ASSUME WalkInv, RaiseSucc \/ EndSuccs \/ EndWalk
  PROVE  WalkInv'
<1>1. WalkType /\ Queued /\ InStep /\ SameShape
  BY DEF WalkInv
<1>2. /\ pc' \in {"raised", "dequeue", "done"} /\ UNCHANGED <<graph, q1, ls, path1, path2, kinds>>
  BY DEF RaiseSucc, EndSuccs, EndWalk
<1>3. WalkType' /\ Queued'
  BY <1>1, <1>2 DEF WalkType, Queued, graph
<1> QED BY <1>1, <1>2, <1>3, SamePaths DEF WalkInv

\* The next walk, or another graph, starts with nothing.
LEMMA ResetInv ==
  ASSUME WalkInv, Reset
  PROVE  WalkInv'
BY DEF WalkInv, WalkType, Queued, InStep, SameShape, Reset, graph, HashTypes

\* Another graph is loaded only while there are no paths.
LEMMA LoadGraphInv ==
  ASSUME WalkInv, NEW B \in SUBSET Node, NEW S \in [B -> Seq(Node)], NEW R, NEW V, LoadGraph(B, S, R, V)
  PROVE  WalkInv'
<1>1. /\ pc = "ready" /\ pc' = pc /\ blocks' = B /\ succs' = S /\ q1' = q1 /\ ls' = ls /\ path1' = path1
      /\ path2' = path2 /\ kinds' = kinds
  BY DEF LoadGraph, walk
<1>2. path1 = <<>>
  BY <1>1 DEF WalkInv, Queued
<1>3. WalkType'
  BY <1>1 DEF WalkInv, WalkType
<1>4. Queued' /\ InStep' /\ SameShape'
  BY <1>1, <1>2 DEF WalkInv, Queued, InStep, SameShape
<1> QED BY <1>3, <1>4 DEF WalkInv

\* Every step of the walk keeps the invariant.
LEMMA WalkNextInv ==
  ASSUME WalkInv, [WalkNext]_svars
  PROVE  WalkInv'
<1>1. CASE UNCHANGED svars
  <2>1. UNCHANGED <<graph, pc, q1, cur, ls, path1, path2, kinds>>
    BY <1>1 DEF svars, walk
  <2>2. WalkType' /\ Queued'
    <3>1. Elems(Succs(cur[1]))' = Elems(Succs(cur[1]))
      BY <2>1 DEF Elems, Succs, graph
    <3> QED BY <2>1, <3>1 DEF WalkInv, WalkType, Queued, graph
  <2> QED BY <2>1, <2>2, SamePaths DEF WalkInv
<1>2. CASE \E B, V \in SUBSET Node : \E S \in [B -> Seq(Node)] : \E R \in [HashTypes -> SUBSET (Node \X Node)] :
              LoadGraph(B, S, R, V)
  BY <1>2, LoadGraphInv
<1>3. CASE \E a, b \in Node : a # b /\ StartPair(a, b)
  BY <1>3, StartPairInv
<1>4. CASE WalkStep
  BY <1>4, DequeueInv, PassOverInv, EndInv, MatchSuccInv DEF WalkStep
<1>5. CASE Reset
  BY <1>5, ResetInv
<1> QED BY <1>1, <1>2, <1>3, <1>4, <1>5 DEF WalkNext

\* The two paths of every walk of findSubGraphs() are equally long, have no block
\* twice and no block as its own counterpart, whatever the graph and the hashes.
THEOREM WalkInStep == WalkSpec => []InStep
<1>1. WalkInit => WalkInv
  BY WalkInitInv
<1>2. WalkInv /\ [WalkNext]_svars => WalkInv'
  BY WalkNextInv
<1>3. WalkInv => InStep
  BY DEF WalkInv
<1> QED BY <1>1, <1>2, <1>3, PTL DEF WalkSpec

\* The two subgraphs have one shape: every later pair matches and was reached by
\* edges from the two blocks of one earlier pair.
THEOREM WalkSameShape == WalkSpec => []SameShape
<1>1. WalkInit => WalkInv
  BY WalkInitInv
<1>2. WalkInv /\ [WalkNext]_svars => WalkInv'
  BY WalkNextInv
<1>3. WalkInv => SameShape
  BY DEF WalkInv
<1> QED BY <1>1, <1>2, <1>3, PTL DEF WalkSpec

-----------------------------------------------------------------------------
(* Lists made of a set by its order *)

\* When the elements of S come one after the other, below[x] being those up to x,
\* every position from 1 to the number of them is that of one element.
LEMMA RankFact ==
  ASSUME NEW S, IsFiniteSet(S), NEW below \in [S -> SUBSET S],
         \A x \in S : x \in below[x],
         \A x, y \in S : x # y => \/ below[x] \subseteq below[y] /\ y \notin below[x]
                                  \/ below[y] \subseteq below[x] /\ x \notin below[y]
  PROVE  /\ Cardinality(S) \in Nat
         /\ \A x \in S : Cardinality(below[x]) \in 1 .. Cardinality(S)
         /\ \A k \in 1 .. Cardinality(S) : \E x \in S : Cardinality(below[x]) = k
         /\ \A x, y \in S : x \notin below[y] => Cardinality(below[y]) < Cardinality(below[x])
<1> DEFINE n == Cardinality(S)
           rank == [x \in S |-> Cardinality(below[x])]
<1>1. n \in Nat
  BY FS_CardinalityType
<1>2. ASSUME NEW x \in S PROVE IsFiniteSet(below[x]) /\ Cardinality(below[x]) \in Nat /\ Cardinality(below[x]) <= n
  <2>1. below[x] \in SUBSET S
    OBVIOUS
  <2> QED BY <2>1, FS_Subset, FS_CardinalityType
<1>3. ASSUME NEW x \in S PROVE Cardinality(below[x]) # 0
  <2>1. x \in below[x]
    OBVIOUS
  <2> QED BY <2>1, <1>2, FS_EmptySet
<1>4. ASSUME NEW x \in S, NEW y \in S, x \notin below[y] PROVE Cardinality(below[y]) < Cardinality(below[x])
  <2>1. x # y
    BY <1>4
  <2>2. x \in below[x] /\ y \in below[y]
    OBVIOUS
  <2>3. below[y] \subseteq below[x] /\ below[y] # below[x]
    BY <1>4, <2>1, <2>2
  <2>4. Cardinality(below[y]) <= Cardinality(below[x]) /\ Cardinality(below[y]) # Cardinality(below[x])
    BY <2>3, <1>2, FS_Subset
  <2> QED BY <2>4, <1>2
<1>5. rank \in Injection(S, 1 .. n)
  <2>1. \A x \in S : rank[x] \in 1 .. n
    BY <1>1, <1>2, <1>3
  <2>2. ASSUME NEW x \in S, NEW y \in S, x # y PROVE rank[x] # rank[y]
    BY <2>2, <1>2, <1>4
  <2> HIDE DEF n
  <2>3. rank \in [S -> 1 .. n]
    BY <2>1
  <2> HIDE DEF rank
  <2> QED BY <2>2, <2>3, Zenon DEF Injection, IsInjective
<1>6. IsFiniteSet(1 .. n) /\ Cardinality(1 .. n) = n
  BY <1>1, FS_Interval
<1>7. rank \in Surjection(S, 1 .. n)
  BY <1>5, <1>6, FS_Injection
<1>8. \A k \in 1 .. n : \E x \in S : rank[x] = k
  BY <1>7 DEF Surjection
<1> QED BY <1>1, <1>2, <1>3, <1>4, <1>8

\* A finite set of numbers in ascending order, each of them at one place.
LEMMA AscendingFact ==
  ASSUME NEW B \in SUBSET Nat, IsFiniteSet(B)
  PROVE  /\ AscendingFrom(B) \in Seq(B)
         /\ \A i, j \in DOMAIN AscendingFrom(B) : i # j => AscendingFrom(B)[i] # AscendingFrom(B)[j]
<1> DEFINE n == Cardinality(B)
           below == [x \in B |-> {y \in B : y <= x}]
           s == AscendingFrom(B)
           Asc(t) == \A i, j \in DOMAIN t : i < j => t[i] < t[j]
<1>0. \A x \in B : x \in Nat
  OBVIOUS
<1>1. /\ n \in Nat
      /\ \A k \in 1 .. n : \E x \in B : Cardinality(below[x]) = k
      /\ \A x, y \in B : x \notin below[y] => Cardinality(below[y]) < Cardinality(below[x])
      /\ \A x \in B : Cardinality(below[x]) \in 1 .. n
  <2>1. below \in [B -> SUBSET B] /\ \A x \in B : x \in below[x]
    OBVIOUS
  <2>2. ASSUME NEW x \in B, NEW y \in B, x # y
        PROVE  \/ below[x] \subseteq below[y] /\ y \notin below[x]
               \/ below[y] \subseteq below[x] /\ x \notin below[y]
    <3>1. x \in Nat /\ y \in Nat
      BY <1>0
    <3>2. x < y \/ y < x
      BY <2>2, <3>1
    <3>3. below[x] \in SUBSET B /\ below[y] \in SUBSET B
      OBVIOUS
    <3>4. \A z \in B : (z \in below[x] <=> z <= x) /\ (z \in below[y] <=> z <= y)
      OBVIOUS
    <3> HIDE DEF below
    <3>5. CASE x < y
      <4>1. y \notin below[x]
        BY <3>1, <3>4, <3>5
      <4>2. ASSUME NEW z \in below[x] PROVE z \in below[y]
        <5>1. z \in B /\ z \in Nat /\ z <= x
          BY <3>3, <3>4, <1>0
        <5> QED BY <5>1, <3>1, <3>4, <3>5
      <4> QED BY <4>1, <4>2
    <3>6. CASE y < x
      <4>1. x \notin below[y]
        BY <3>1, <3>4, <3>6
      <4>2. ASSUME NEW z \in below[y] PROVE z \in below[x]
        <5>1. z \in B /\ z \in Nat /\ z <= y
          BY <3>3, <3>4, <1>0
        <5> QED BY <5>1, <3>1, <3>4, <3>6
      <4> QED BY <4>1, <4>2
    <3> QED BY <3>2, <3>5, <3>6
  <2> HIDE DEF below
  <2> QED BY <2>1, <2>2, RankFact
<1>2. \A x, y \in B : x \in below[y] <=> x <= y
  OBVIOUS
<1>3. s \in [1 .. n -> B] /\ \A k \in 1 .. n : Cardinality(below[s[k]]) = k
  <2>1. \A x \in B : below[x] = {y \in B : y <= x}
    OBVIOUS
  <2>2. s = [k \in 1 .. n |-> CHOOSE x \in B : Cardinality({y \in B : y <= x}) = k]
    BY DEF AscendingFrom
  <2> HIDE DEF s, n, below
  <2>3. \A k \in 1 .. n : s[k] \in B /\ Cardinality({y \in B : y <= s[k]}) = k
    BY <2>1, <2>2, <1>1
  <2> QED BY <2>1, <2>2, <2>3
<1> HIDE DEF n, below
<1>4. Asc(s)
  <2> SUFFICES ASSUME NEW i \in 1 .. n, NEW j \in 1 .. n, i < j PROVE s[i] < s[j]
    BY <1>3
  <2>1. s[i] \in B /\ s[j] \in B /\ Cardinality(below[s[i]]) = i /\ Cardinality(below[s[j]]) = j
    BY <1>3
  <2> HIDE DEF s
  <2>2. s[i] \in Nat /\ s[j] \in Nat /\ i \in Nat /\ j \in Nat
    <3>1. s[i] \in Nat /\ s[j] \in Nat
      BY <2>1, <1>0
    <3>2. n \in Nat
      BY <1>1
    <3> QED BY <3>1, <3>2
  <2>3. ~(s[j] <= s[i])
    <3> SUFFICES ASSUME s[j] <= s[i] PROVE FALSE
      OBVIOUS
    <3>1. s[j] = s[i] \/ ~(s[i] <= s[j])
      BY <2>2
    <3>2. CASE s[j] = s[i]
      BY <3>2, <2>1, <2>2
    <3>3. CASE ~(s[i] <= s[j])
      BY <3>3, <2>1, <2>2, <1>1, <1>2
    <3> QED BY <3>1, <3>2, <3>3
  <2> QED BY <2>2, <2>3
<1> HIDE DEF s
<1>5. s \in Seq(B) /\ DOMAIN s = 1 .. n
  BY <1>1, <1>3
<1>6. ASSUME NEW i \in DOMAIN s, NEW j \in DOMAIN s, i # j PROVE s[i] # s[j]
  <2>1. i \in 1 .. n /\ j \in 1 .. n
    BY <1>5
  <2> QED BY <2>1, <1>3, <1>6
<1> QED BY <1>5, <1>6 DEF s

\* The pairs that findSubGraphs() tries are of two places of the list.
LEMMA PairsFact ==
  ASSUME NEW T, NEW s \in Seq(T)
  PROVE  /\ PairsOf(s) \in Seq(T \X T)
         /\ \A k \in DOMAIN PairsOf(s) : \E i, j \in DOMAIN s : i # j /\ PairsOf(s)[k] = <<s[i], s[j]>>
<1> DEFINE ps == {p \in (DOMAIN s) \X (DOMAIN s) : p[1] < p[2]}
           below == [p \in ps |-> {q \in ps : q[1] < p[1] \/ (q[1] = p[1] /\ q[2] <= p[2])}]
           n == Cardinality(ps)
           at(k) == CHOOSE q \in ps : Cardinality(below[q]) = k
<1>0. DOMAIN s \subseteq Nat /\ IsFiniteSet(DOMAIN s)
  <2>1. Len(s) \in Nat /\ DOMAIN s = 1 .. Len(s)
    OBVIOUS
  <2> QED BY <2>1, FS_Interval
<1>1. IsFiniteSet(ps)
  <2>1. ps \in SUBSET ((DOMAIN s) \X (DOMAIN s))
    OBVIOUS
  <2> QED BY <2>1, <1>0, FS_Product, FS_Subset
<1>2. \A p \in ps : p[1] \in DOMAIN s /\ p[2] \in DOMAIN s /\ p[1] < p[2] /\ p = <<p[1], p[2]>>
  OBVIOUS
<1> HIDE DEF ps
<1>3. n \in Nat /\ \A k \in 1 .. n : \E p \in ps : Cardinality(below[p]) = k
  <2>1. below \in [ps -> SUBSET ps]
    OBVIOUS
  <2>2. \A p \in ps : p \in below[p]
    BY <1>0, <1>2
  <2>3. ASSUME NEW x \in ps, NEW y \in ps, x # y
        PROVE  \/ below[x] \subseteq below[y] /\ y \notin below[x]
               \/ below[y] \subseteq below[x] /\ x \notin below[y]
    <3>1. /\ x[1] \in Nat /\ x[2] \in Nat /\ y[1] \in Nat /\ y[2] \in Nat
          /\ x[1] # y[1] \/ x[2] # y[2]
      BY <1>0, <1>2, <2>3
    <3>2. \A p \in ps : p[1] \in Nat /\ p[2] \in Nat
      BY <1>0, <1>2
    <3> QED BY <3>1, <3>2
  <2> HIDE DEF below
  <2> QED BY <2>1, <2>2, <2>3, <1>1, RankFact
<1>4. \A k \in 1 .. n : at(k) \in ps
  BY <1>3
<1>5. PairsOf(s) = [k \in 1 .. n |-> <<s[at(k)[1]], s[at(k)[2]]>>]
  <2> DEFINE Rank(p) == Cardinality({q \in ps : q[1] < p[1] \/ (q[1] = p[1] /\ q[2] <= p[2])})
  <2>1. \A q \in ps : Cardinality(below[q]) = Rank(q)
    OBVIOUS
  <2>2. PairsOf(s) = [k \in 1 .. n |-> LET p == CHOOSE q \in ps : Rank(q) = k IN <<s[p[1]], s[p[2]]>>]
    BY Zenon DEF PairsOf, ps
  <2> HIDE DEF Rank, below
  <2>3. \A k : at(k) = CHOOSE q \in ps : Rank(q) = k
    BY <2>1
  <2> QED BY <2>2, <2>3
<1> HIDE DEF n, at
<1>6. \A k \in 1 .. n : /\ s[at(k)[1]] \in T /\ s[at(k)[2]] \in T
                        /\ at(k)[1] \in DOMAIN s /\ at(k)[2] \in DOMAIN s /\ at(k)[1] # at(k)[2]
  BY <1>0, <1>2, <1>4
<1>7. PairsOf(s) \in Seq(T \X T) /\ DOMAIN PairsOf(s) = 1 .. n
  BY <1>3, <1>5, <1>6
<1> QED BY <1>5, <1>6, <1>7

-----------------------------------------------------------------------------
(* The invariant *)

\* A call of Analyze() was made.
Started == phase # "idle" \/ answers # <<>>

\* The graph at hand is that of the function asked about last.
Loaded ==
    /\ fn \in DOMAIN program /\ blocks = program[fn].blocks
    /\ sim = [t \in HashTypes |-> {e \in blocks \X blocks : match(Code(e[1]), Code(e[2]), t)}]

\* The answers are a list, and between two calls one of them is about fn.
Answered ==
    /\ \E k \in DOMAIN Programs : program \in Programs[k]
    /\ Len(answers) \in Nat /\ answers = [k \in 1 .. Len(answers) |-> answers[k]]
    /\ phase = "idle" /\ answers # <<>> => \E k \in DOMAIN answers : answers[k].func = fn
    /\ Started => Loaded
    /\ ~Started => M = Empty /\ pathPerNodeHashFull = Empty

\* The list of a hash has no block twice and, as long as one function was
\* analysed, only blocks that have the hash.
TwinList(x, L) ==
    /\ L \in Seq(Node)
    /\ \A i, j \in DOMAIN L : i # j => L[i] # L[j]
    /\ OneFunction => \A i \in DOMAIN L : L[i] \in blocks /\ hash_itype2(Code(L[i])) = x

Twins == \A x \in DOMAIN M : TwinList(x, M[x])

Alike(a, b) == a \in blocks /\ b \in blocks /\ hash_itype2(Code(a)) = hash_itype2(Code(b))

\* What is still to be walked, and what is being walked, starts at two different
\* blocks of one hash, by which they match.
HeadsAlike ==
    /\ pairs \in Seq(Node \X Node)
    /\ \A i \in DOMAIN pairs : pairs[i][1] # pairs[i][2]
    /\ OneFunction => \A i \in DOMAIN pairs : Alike(pairs[i][1], pairs[i][2])
    /\ OneFunction /\ path1 # <<>> => Alike(path1[1], path2[1])
    /\ path1 # <<>> => kinds[1] = "hash_itype2"
    /\ phase = "idle" => pairs = <<>>
    /\ todo \subseteq DOMAIN M

\* The part h of a path's hash is true of a block with this code.
Says(h, code) ==
    \/ h[1] = "hash_itype1" /\ hash_itype1(code) = h[2]
    \/ h[1] = "hash_itype2" /\ hash_itype2(code) = h[2]
    \/ h[1] = "freq" /\ h[2] # {} /\ h[2] \subseteq InstrsOf(code)

Apart(p, q) == Len(p) = Len(q) /\ \A i \in DOMAIN p : p[i] # q[i]

\* A class has paths of the length of its hash, each with a counterpart that has
\* no block at the same place, and the hash is true of all of them.
Class(c, L) ==
    /\ L \in Seq(Seq(Node))
    /\ \A p \in Elems(L) : Len(p) = Len(c[2]) /\ \E q \in Elems(L) : Apart(p, q)
    /\ OneFunction => \A p \in Elems(L) : \A i \in DOMAIN p : p[i] \in blocks /\ Says(c[2][i], Code(p[i]))

Classes ==
    /\ IsFiniteSet(DOMAIN pathPerNodeHashFull)
    /\ \A c \in DOMAIN pathPerNodeHashFull : Class(c, pathPerNodeHashFull[c])

Inv == WalkInv /\ Answered /\ Twins /\ HeadsAlike /\ Classes

-----------------------------------------------------------------------------
(* The steps of an analysis *)

\* Nothing is known before the first call.
LEMMA InvInit == Init => Inv
<1> SUFFICES ASSUME Init PROVE Inv
  OBVIOUS
<1>1. WalkInv
  BY WalkInitInv DEF Init
<1>2. /\ M = Empty /\ pathPerNodeHashFull = Empty /\ phase = "idle" /\ answers = <<>>
      /\ pairs = <<>> /\ todo = {} /\ path1 = <<>>
      /\ \E k \in DOMAIN Programs : program \in Programs[k]
  BY DEF Init, WalkInit
<1>3. Answered
  BY <1>2 DEF Answered, Started
<1>4. DOMAIN Empty = {}
  BY DEF Empty
<1>5. Twins /\ HeadsAlike
  BY <1>2, <1>4 DEF Twins, HeadsAlike
<1>6. Classes
  BY <1>2, <1>4, FS_EmptySet DEF Classes
<1> QED BY <1>1, <1>3, <1>5, <1>6 DEF Inv

\* The graph of a function of the program is a graph over the block ids.
LEMMA ProgramFact ==
  ASSUME Answered, NEW f \in DOMAIN program
  PROVE  /\ program[f].blocks \in SUBSET Node /\ IsFiniteSet(program[f].blocks)
         /\ program[f].succs \in [program[f].blocks -> Seq(Node)]
BY ProgramsAssumption DEF Answered

\* What hashBBMatch() puts into the list of a hash was there or has the hash.
LEMMA TwinsFact ==
  ASSUME NEW B \in SUBSET Node, IsFiniteSet(B), NEW h, DOMAIN h = B,
         \A x \in DOMAIN M : M[x] \in Seq(Node) /\ \A i, j \in DOMAIN M[x] : i # j => M[x][i] # M[x][j],
         NEW x \in DOMAIN hashBBMatch(h, B), NEW L, L = hashBBMatch(h, B)[x]
  PROVE  /\ L \in Seq(Node) /\ \A i, j \in DOMAIN L : i # j => L[i] # L[j]
         /\ \A i \in DOMAIN L : \/ L[i] \in B /\ h[L[i]] = x
                                \/ x \in DOMAIN M /\ L[i] \in Elems(M[x])
<1> DEFINE W == {n \in B : h[n] = x}
           twins == {y \in {h[n] : n \in B} : Cardinality({n \in B : h[n] = y}) > 1}
<1>1. DOMAIN hashBBMatch(h, B) = DOMAIN M \cup twins
  BY Zenon DEF hashBBMatch
<1>2. L = IF x \notin DOMAIN M THEN AscendingFrom(W)
          ELSE IF x \in twins THEN M[x] \o NewTwins(W, M[x]) ELSE M[x]
  BY <1>1, Zenon DEF hashBBMatch
<1> HIDE DEF twins
<1>3. \A V : V \subseteq W => V \in SUBSET Nat /\ IsFiniteSet(V)
  <2> SUFFICES ASSUME NEW V, V \subseteq W PROVE V \in SUBSET Nat /\ IsFiniteSet(V)
    OBVIOUS
  <2>1. V \in SUBSET B
    OBVIOUS
  <2> QED BY <2>1, FS_Subset, NodeAssumption
<1>4. \A n \in W : n \in B /\ h[n] = x /\ n \in Node
  OBVIOUS
<1> HIDE DEF W
<1>5. CASE x \notin DOMAIN M
  <2>1. W \in SUBSET Nat /\ IsFiniteSet(W)
    BY <1>3
  <2>2. L = AscendingFrom(W) /\ L \in Seq(W) /\ \A i, j \in DOMAIN L : i # j => L[i] # L[j]
    BY <2>1, <1>2, <1>5, AscendingFact
  <2>3. \A i \in DOMAIN L : L[i] \in W
    BY <2>2
  <2>4. L \in Seq(Node)
    BY <2>2, <1>4
  <2> QED BY <2>2, <2>3, <2>4, <1>4
<1>6. CASE x \in DOMAIN M /\ x \notin twins
  <2>1. L = M[x]
    BY <1>2, <1>6
  <2> QED BY <2>1, <1>6 DEF Elems
<1>7. CASE x \in DOMAIN M /\ x \in twins
  <2> DEFINE V == (W \ {Least(W)}) \ Elems(M[x])
             N == AscendingFrom(V)
  <2>1. V \in SUBSET Nat /\ IsFiniteSet(V)
    BY <1>3
  <2>2. L = M[x] \o N
    BY <1>2, <1>7 DEF NewTwins
  <2>3. N \in Seq(V) /\ \A i, j \in DOMAIN N : i # j => N[i] # N[j]
    BY <2>1, AscendingFact
  <2>4. M[x] \in Seq(Node) /\ \A i, j \in DOMAIN M[x] : i # j => M[x][i] # M[x][j]
    BY <1>7
  <2>5. \A n \in V : n \in W /\ n \notin Elems(M[x])
    OBVIOUS
  <2> HIDE DEF V, N
  <2>6. N \in Seq(Node) /\ \A i \in DOMAIN N : N[i] \in V
    BY <2>3, <2>5, <1>4
  <2> DEFINE m == Len(M[x])
  <2>7. /\ m \in Nat /\ DOMAIN M[x] = 1 .. m /\ Len(N) \in Nat /\ DOMAIN N = 1 .. Len(N)
        /\ L \in Seq(Node) /\ DOMAIN L = 1 .. (m + Len(N))
        /\ \A i \in DOMAIN L : IF i <= m THEN L[i] = M[x][i] ELSE L[i] = N[i - m]
    BY <2>2, <2>4, <2>6
  <2> HIDE DEF m
  <2>8. \A i \in DOMAIN L : \/ i <= m /\ i \in DOMAIN M[x] /\ L[i] = M[x][i]
                            \/ i > m /\ i - m \in DOMAIN N /\ L[i] = N[i - m]
    BY <2>7
  <2>9. ASSUME NEW i \in DOMAIN M[x] PROVE M[x][i] \in Elems(M[x])
    BY DEF Elems
  <2>10. ASSUME NEW i \in DOMAIN L, NEW j \in DOMAIN L, i # j PROVE L[i] # L[j]
    <3>1. i \in Nat /\ j \in Nat /\ m \in Nat
      BY <2>7
    <3>2. CASE i <= m /\ j <= m
      BY <3>1, <3>2, <2>8, <2>10, <2>4
    <3>3. CASE i > m /\ j > m
      <4>1. i - m # j - m
        BY <3>1, <2>10
      <4> QED BY <3>1, <3>3, <4>1, <2>8, <2>3
    <3>4. CASE i <= m /\ j > m
      BY <3>1, <3>4, <2>5, <2>6, <2>8, <2>9
    <3>5. CASE i > m /\ j <= m
      BY <3>1, <3>5, <2>5, <2>6, <2>8, <2>9
    <3> QED BY <3>1, <3>2, <3>3, <3>4, <3>5
  <2>11. \A i \in DOMAIN L : (L[i] \in B /\ h[L[i]] = x) \/ L[i] \in Elems(M[x])
    BY <2>5, <2>6, <2>8, <2>9, <1>4
  <2> QED BY <2>7, <2>10, <2>11, <1>7
<1> QED BY <1>5, <1>6, <1>7

\* On the variables of the walk an analysis takes the steps of a walk: the graph
\* it loads is a graph, and the blocks it pairs are two.
LEMMA StepWalks ==
  ASSUME Inv, [Next]_vars
  PROVE  [WalkNext]_svars
<1>1. CASE UNCHANGED vars
  BY <1>1 DEF vars
<1>2. ASSUME NEW f \in DOMAIN program, Analyze(f) PROVE WalkNext
  <2> DEFINE g == program[f]
             R == [t \in HashTypes |-> {e \in g.blocks \X g.blocks : match(g.code[e[1]], g.code[e[2]], t)}]
             V == {n \in g.blocks : g.code[n] = <<>>}
  <2>1. LoadGraph(g.blocks, g.succs, R, V)
    BY <1>2, Zenon DEF Analyze
  <2>2. g.blocks \in SUBSET Node /\ g.succs \in [g.blocks -> Seq(Node)]
    BY ProgramFact DEF Inv
  <2>3. V \in SUBSET Node /\ R \in [HashTypes -> SUBSET (Node \X Node)]
    BY <2>2
  <2> HIDE DEF g, R, V
  <2> QED BY <2>1, <2>2, <2>3, Zenon DEF WalkNext
<1>3. CASE NextPair
  <2>1. pairs # <<>> /\ StartPair(Head(pairs)[1], Head(pairs)[2])
    BY <1>3 DEF NextPair
  <2>2. Head(pairs) = pairs[1] /\ pairs[1] \in Node \X Node /\ 1 \in DOMAIN pairs
    BY <2>1, TailElems DEF Inv, HeadsAlike
  <2>3. pairs[1][1] # pairs[1][2] /\ pairs[1][1] \in Node /\ pairs[1][2] \in Node
    BY <2>2 DEF Inv, HeadsAlike
  <2> QED BY <2>1, <2>2, <2>3 DEF WalkNext
<1>4. CASE Walk
  BY <1>4 DEF Walk, WalkNext
<1>5. CASE Record \/ RaisedInWalk
  BY <1>5, Zenon DEF Record, RaisedInWalk, WalkNext
<1>6. CASE (\E x \in todo : NextHash(x)) \/ Sort \/ Normalize \/ Return \/ RaisedInNormalize
  <2>1. UNCHANGED svars
    BY <1>6, Zenon DEF NextHash, Sort, Normalize, Return, RaisedInNormalize
  <2> QED BY <2>1
<1> QED BY <1>1, <1>2, <1>3, <1>4, <1>5, <1>6 DEF Next, Step

\* As long as the function at hand and the answers about it stay, so does what
\* is known of lists and classes that stay.
Still == UNCHANGED <<program, fn, graph>> /\ (OneFunction' <=> OneFunction)

\* What is known of a list, a pair or a class stays.
LEMMA StillFact ==
  ASSUME Still
  PROVE  /\ \A x, L : TwinList(x, L)' <=> TwinList(x, L)
         /\ \A a, b : Alike(a, b)' <=> Alike(a, b)
         /\ \A c, L : Class(c, L)' <=> Class(c, L)
         /\ Loaded' <=> Loaded
<1>1. program' = program /\ fn' = fn /\ blocks' = blocks /\ sim' = sim
  BY DEF Still, graph
<1>2. \A n : Code(n)' = Code(n)
  BY <1>1 DEF Code
<1>3. ASSUME NEW x, NEW L PROVE TwinList(x, L)' <=> TwinList(x, L)
  BY <1>1, <1>2, Zenon DEF TwinList, Still
<1>4. ASSUME NEW a, NEW b PROVE Alike(a, b)' <=> Alike(a, b)
  BY <1>1, <1>2, Zenon DEF Alike
<1>5. ASSUME NEW c, NEW L PROVE Class(c, L)' <=> Class(c, L)
  BY <1>1, <1>2, Zenon DEF Class, Still
<1>6. Loaded' <=> Loaded
  BY <1>1 DEF Loaded, Code
<1> QED BY <1>3, <1>4, <1>5, <1>6
Rest == Answered /\ Twins /\ HeadsAlike /\ Classes

\* A call about the function of all calls so far meets its own tables; one about
\* another function ends OneFunction, unless the tables are empty.
LEMMA AnalyzeStep ==
  ASSUME Inv, NEW f \in DOMAIN program, Analyze(f)
  PROVE  Rest'
<1> DEFINE g == program[f]
           h == [n \in g.blocks |-> hash_itype2(g.code[n])]
           R == [t \in HashTypes |-> {e \in g.blocks \X g.blocks : match(g.code[e[1]], g.code[e[2]], t)}]
           V == {n \in g.blocks : g.code[n] = <<>>}
<1>0. WalkInv /\ Answered /\ Twins /\ HeadsAlike /\ Classes
  BY DEF Inv
<1>1. /\ phase = "idle" /\ phase' = "pairs" /\ fn' = f /\ M' = hashBBMatch(h, g.blocks) /\ todo' = DOMAIN M'
      /\ program' = program /\ pathPerNodeHashFull' = pathPerNodeHashFull /\ pairs' = pairs /\ answers' = answers
      /\ LoadGraph(g.blocks, g.succs, R, V)
  BY Zenon DEF Analyze
<1>2. /\ pc = "ready" /\ blocks' = g.blocks /\ sim' = R /\ path1' = path1 /\ path1 = <<>> /\ pairs = <<>>
  BY <1>0, <1>1 DEF LoadGraph, walk, WalkInv, Queued, HeadsAlike
<1>3. \A n : Code(n)' = g.code[n]
  BY <1>1 DEF Code
<1>4. Answered'
  <2>1. Started'
    BY <1>1 DEF Started
  <2>2. Loaded'
    <3>1. fn' \in DOMAIN program' /\ blocks' = program'[fn'].blocks
      BY <1>1, <1>2
    <3>2. sim' = [t \in HashTypes |-> {e \in blocks' \X blocks' :
                     match(program'[fn'].code[e[1]], program'[fn'].code[e[2]], t)}]
      BY <1>1, <1>2
    <3> QED BY <3>1, <3>2 DEF Loaded, Code
  <2> QED BY <2>1, <2>2, <1>0, <1>1 DEF Answered
<1>5. CASE ~OneFunction'
  <2>1. Twins'
    <3> SUFFICES ASSUME NEW x \in DOMAIN M' PROVE TwinList(x, M[x])'
      BY Zenon DEF Twins
    <3>1. \A y \in DOMAIN M : M[y] \in Seq(Node) /\ \A i, j \in DOMAIN M[y] : i # j => M[y][i] # M[y][j]
      BY <1>0 DEF Twins, TwinList
    <3>2. g.blocks \in SUBSET Node /\ IsFiniteSet(g.blocks) /\ DOMAIN h = g.blocks
      BY <1>0, ProgramFact
    <3> HIDE DEF g, h
    <3>3. M'[x] \in Seq(Node) /\ \A i, j \in DOMAIN M'[x] : i # j => M'[x][i] # M'[x][j]
      BY <1>1, <3>1, <3>2, TwinsFact
    <3> QED BY <3>3, <1>5 DEF TwinList
  <2>2. HeadsAlike'
    BY <1>0, <1>1, <1>2, <1>5 DEF HeadsAlike
  <2>3. Classes'
    <3> SUFFICES ASSUME NEW c \in DOMAIN pathPerNodeHashFull PROVE Class(c, pathPerNodeHashFull[c])'
      BY <1>0, <1>1, Zenon DEF Classes
    <3>1. Class(c, pathPerNodeHashFull[c])
      BY <1>0 DEF Classes
    <3> QED BY <3>1, <1>1, <1>5 DEF Class
  <2> QED BY <1>4, <2>1, <2>2, <2>3 DEF Rest
<1>6. CASE OneFunction'
  <2>1. \/ M = Empty /\ pathPerNodeHashFull = Empty
        \/ fn = f /\ blocks = g.blocks /\ OneFunction
    <3>1. CASE answers = <<>>
      BY <3>1, <1>0, <1>1 DEF Answered, Started
    <3>2. CASE answers # <<>>
      <4>1. PICK k \in DOMAIN answers : answers[k].func = fn
        BY <3>2, <1>0, <1>1 DEF Answered
      <4>2. \A j \in DOMAIN answers : answers[j].func = f
        BY <1>1, <1>6 DEF OneFunction
      <4>3. fn = f
        BY <4>1, <4>2
      <4>4. Started
        BY <3>2 DEF Started
      <4> QED BY <4>2, <4>3, <4>4, <1>0 DEF OneFunction, Answered, Loaded
    <3> QED BY <3>1, <3>2
  <2>2. DOMAIN Empty = {}
    BY DEF Empty
  <2>3. Twins'
    <3> SUFFICES ASSUME NEW x \in DOMAIN M' PROVE TwinList(x, M[x])'
      BY Zenon DEF Twins
    <3>1. \A y \in DOMAIN M : M[y] \in Seq(Node) /\ \A i, j \in DOMAIN M[y] : i # j => M[y][i] # M[y][j]
      BY <1>0 DEF Twins, TwinList
    <3>2. g.blocks \in SUBSET Node /\ IsFiniteSet(g.blocks) /\ DOMAIN h = g.blocks
      BY <1>0, ProgramFact
    <3>3. \A n \in g.blocks : h[n] = hash_itype2(g.code[n])
      OBVIOUS
    <3>4. ASSUME x \in DOMAIN M, NEW i \in DOMAIN M[x]
          PROVE  M[x][i] \in g.blocks /\ hash_itype2(g.code[M[x][i]]) = x
      <4>1. fn = f /\ blocks = g.blocks /\ OneFunction
        BY <3>4, <2>1, <2>2
      <4>2. M[x][i] \in blocks /\ hash_itype2(Code(M[x][i])) = x
        BY <3>4, <4>1, <1>0 DEF Twins, TwinList
      <4> QED BY <4>1, <4>2 DEF Code
    <3> HIDE DEF g, h
    <3>5. /\ M'[x] \in Seq(Node) /\ \A i, j \in DOMAIN M'[x] : i # j => M'[x][i] # M'[x][j]
          /\ \A i \in DOMAIN M'[x] : \/ M'[x][i] \in g.blocks /\ h[M'[x][i]] = x
                                     \/ x \in DOMAIN M /\ M'[x][i] \in Elems(M[x])
      BY <1>1, <3>1, <3>2, TwinsFact
    <3>6. \A i \in DOMAIN M'[x] : M'[x][i] \in g.blocks /\ hash_itype2(g.code[M'[x][i]]) = x
      <4> TAKE i \in DOMAIN M'[x]
      <4>1. CASE M'[x][i] \in g.blocks /\ h[M'[x][i]] = x
        BY <4>1, <3>3
      <4>2. CASE x \in DOMAIN M /\ M'[x][i] \in Elems(M[x])
        <5>1. PICK j \in DOMAIN M[x] : M'[x][i] = M[x][j]
          BY <4>2 DEF Elems
        <5> QED BY <4>2, <5>1, <3>4
      <4> QED BY <3>5, <4>1, <4>2
    <3>7. \A i \in DOMAIN M'[x] : M'[x][i] \in blocks' /\ hash_itype2(Code(M[x][i]))' = x
      BY <3>6, <1>1, <1>2 DEF g, Code
    <3> QED BY <3>5, <3>7 DEF TwinList
  <2>4. HeadsAlike'
    BY <1>0, <1>1, <1>2 DEF HeadsAlike
  <2>5. Classes'
    <3>1. CASE pathPerNodeHashFull = Empty
      BY <3>1, <2>2, <1>1, FS_EmptySet DEF Classes
    <3>2. CASE fn = f /\ blocks = g.blocks /\ OneFunction
      <4>1. blocks' = blocks /\ \A n : Code(n)' = Code(n)
        BY <3>2, <1>1, <1>2 DEF Code
      <4>2. \A c, L : Class(c, L) => Class(c, L)'
        BY <4>1, <3>2, Zenon DEF Class
      <4> QED BY <4>2, <1>0, <1>1 DEF Classes
    <3> QED BY <3>1, <3>2, <2>1
  <2> QED BY <1>4, <2>3, <2>4, <2>5 DEF Rest
<1> QED BY <1>5, <1>6

\* The pairs of the next hash are of two places of its list.
LEMMA NextHashStep ==
  ASSUME Inv, NEW x \in todo, NextHash(x)
  PROVE  Rest'
<1>0. Answered /\ Twins /\ HeadsAlike /\ Classes
  BY DEF Inv
<1>1. /\ phase = "pairs" /\ phase' = phase /\ todo' = todo \ {x} /\ pairs' = PairsOf(M[x]) /\ x \in todo
      /\ UNCHANGED <<path1, path2, kinds, program, fn, graph, M, pathPerNodeHashFull, answers>>
  BY DEF NextHash, svars, walk, tables
<1>2. Still
  BY <1>1 DEF Still, OneFunction
<1>3. x \in DOMAIN M /\ TwinList(x, M[x])
  BY <1>0, <1>1 DEF HeadsAlike, Twins
<1>4. /\ pairs' \in Seq(Node \X Node)
      /\ \A k \in DOMAIN pairs' : \E i, j \in DOMAIN M[x] : i # j /\ pairs'[k] = <<M[x][i], M[x][j]>>
  BY <1>1, <1>3, PairsFact DEF TwinList
<1>5. ASSUME NEW k \in DOMAIN pairs'
      PROVE  pairs'[k][1] # pairs'[k][2] /\ (OneFunction => Alike(pairs'[k][1], pairs'[k][2]))
  <2>1. PICK i \in DOMAIN M[x], j \in DOMAIN M[x] : i # j /\ pairs'[k] = <<M[x][i], M[x][j]>>
    BY <1>4
  <2> QED BY <2>1, <1>3 DEF TwinList, Alike
<1>6. HeadsAlike'
  <2>1. OneFunction' => \A k \in DOMAIN pairs' : Alike(pairs[k][1], pairs[k][2])'
    BY <1>2, <1>5, StillFact DEF Still
  <2>2. OneFunction' /\ path1' # <<>> => Alike(path1[1], path2[1])'
    BY <1>0, <1>1, <1>2, StillFact DEF Still, HeadsAlike
  <2>3. todo' \subseteq DOMAIN M' /\ phase' # "idle"
    BY <1>0, <1>1 DEF HeadsAlike
  <2>4. path1' # <<>> => kinds'[1] = "hash_itype2"
    BY <1>0, <1>1 DEF HeadsAlike
  <2> QED BY <1>4, <1>5, <2>1, <2>2, <2>3, <2>4 DEF HeadsAlike
<1>7. Answered' /\ Twins' /\ Classes'
  BY <1>0, <1>1, <1>2, StillFact DEF Answered, Started, Twins, Classes
<1> QED BY <1>6, <1>7 DEF Rest

\* A walk starts at the blocks of the next pair.
LEMMA NextPairStep ==
  ASSUME Inv, NextPair
  PROVE  Rest'
<1>0. Answered /\ Twins /\ HeadsAlike /\ Classes
  BY DEF Inv
<1>1. /\ phase = "pairs" /\ phase' = phase /\ pairs # <<>> /\ pairs' = Tail(pairs)
      /\ path1' = <<Head(pairs)[1]>> /\ path2' = <<Head(pairs)[2]>> /\ kinds' = <<"hash_itype2">>
      /\ UNCHANGED <<todo, program, fn, graph, M, pathPerNodeHashFull, answers>>
  BY DEF NextPair, StartPair, tables
<1>2. Still
  BY <1>1 DEF Still, OneFunction
<1>3. /\ Head(pairs) = pairs[1] /\ 1 \in DOMAIN pairs /\ pairs' \in Seq(Node \X Node)
      /\ \A i \in DOMAIN pairs' : i + 1 \in DOMAIN pairs /\ pairs'[i] = pairs[i + 1]
  BY <1>0, <1>1, TailElems DEF HeadsAlike
<1>4. HeadsAlike'
  <2>1. OneFunction' => \A k \in DOMAIN pairs' : Alike(pairs[k][1], pairs[k][2])'
    <3>1. OneFunction => \A k \in DOMAIN pairs' : Alike(pairs'[k][1], pairs'[k][2])
      BY <1>0, <1>3 DEF HeadsAlike
    <3> QED BY <3>1, <1>2, StillFact DEF Still
  <2>2. OneFunction' => Alike(path1[1], path2[1])'
    <3>1. path1'[1] = pairs[1][1] /\ path2'[1] = pairs[1][2]
      BY <1>1, <1>3
    <3>2. OneFunction => Alike(path1'[1], path2'[1])
      BY <3>1, <1>0, <1>3 DEF HeadsAlike
    <3> QED BY <3>2, <1>2, StillFact DEF Still
  <2>3. todo' \subseteq DOMAIN M' /\ phase' # "idle"
    BY <1>0, <1>1 DEF HeadsAlike
  <2>4. \A i \in DOMAIN pairs' : pairs'[i][1] # pairs'[i][2]
    BY <1>0, <1>3 DEF HeadsAlike
  <2>5. kinds'[1] = "hash_itype2"
    BY <1>1
  <2> QED BY <1>3, <2>1, <2>2, <2>3, <2>4, <2>5 DEF HeadsAlike
<1>5. Answered' /\ Twins' /\ Classes'
  BY <1>0, <1>1, <1>2, StillFact DEF Answered, Started, Twins, Classes
<1> QED BY <1>4, <1>5 DEF Rest

\* A walk leaves the first blocks of its paths alone.
LEMMA WalkHeads ==
  ASSUME WalkInv, WalkStep
  PROVE  path1' # <<>> =>
            path1 # <<>> /\ path1'[1] = path1[1] /\ path2'[1] = path2[1] /\ kinds'[1] = kinds[1]
<1>1. ASSUME NEW t \in HashTypes, MatchSucc(t)
      PROVE  path1 # <<>> /\ path1'[1] = path1[1] /\ path2'[1] = path2[1] /\ kinds'[1] = kinds[1]
  <2>1. WalkType /\ Queued /\ InStep
    BY DEF WalkInv
  <2>2. pc = "visit" /\ ls # <<>> /\ path1' = Append(path1, Head(ls)) /\ kinds' = Append(kinds, t)
    BY <1>1 DEF MatchSucc
  <2>3. PICK k \in Hits(Head(ls), cur[2], t) : path2' = Append(path2, Succs(cur[2])[k])
    BY <1>1 DEF MatchSucc
  <2>4. k \in DOMAIN Succs(cur[2]) /\ Succs(cur[2]) \in Seq(Node)
    BY <2>1, SuccsType DEF Hits, Eligible
  <2>5. Head(ls) \in Node /\ Succs(cur[2])[k] \in Node
    BY <2>1, <2>2, <2>4, TailElems DEF WalkType
  <2>6. PICK j \in DOMAIN path1 : cur = <<path1[j], path2[j]>>
    BY <2>1, <2>2 DEF Queued, Paired
  <2>7. /\ path1 \in Seq(Node) /\ path2 \in Seq(Node) /\ kinds \in Seq(HashTypes)
        /\ Len(path1) = Len(path2) /\ Len(kinds) = Len(path1)
    BY <2>1 DEF WalkType, InStep
  <2>8. 1 \in DOMAIN path1 /\ 1 \in DOMAIN path2 /\ 1 \in DOMAIN kinds
    BY <2>6, <2>7
  <2> QED BY <2>2, <2>3, <2>5, <2>7, <2>8, AppendElems
<1>2. CASE Dequeue \/ SkipSucc \/ RaiseSucc \/ NoMatch \/ EndSuccs \/ EndWalk
  BY <1>2 DEF Dequeue, SkipSucc, RaiseSucc, NoMatch, EndSuccs, EndWalk
<1> QED BY <1>1, <1>2 DEF WalkStep

\* So the tables stay true of what is walked.
LEMMA WalkStepKeeps ==
  ASSUME Inv, Walk
  PROVE  Rest'
<1>0. WalkInv /\ Answered /\ Twins /\ HeadsAlike /\ Classes
  BY DEF Inv
<1>1. /\ phase = "pairs" /\ WalkStep
      /\ UNCHANGED <<phase, pairs, todo, program, fn, M, pathPerNodeHashFull, answers>>
  BY DEF Walk, tables, locals
<1>2. UNCHANGED graph
  BY <1>1 DEF WalkStep, Dequeue, SkipSucc, RaiseSucc, NoMatch, EndSuccs, EndWalk, MatchSucc
<1>3. Still
  BY <1>1, <1>2 DEF Still, OneFunction
<1>4. HeadsAlike'
  <2>1. OneFunction' => \A k \in DOMAIN pairs' : Alike(pairs[k][1], pairs[k][2])'
    BY <1>0, <1>1, <1>3, StillFact DEF Still, HeadsAlike
  <2>2. OneFunction' /\ path1' # <<>> => Alike(path1[1], path2[1])'
    <3>1. path1' # <<>> => path1 # <<>> /\ path1'[1] = path1[1] /\ path2'[1] = path2[1]
      BY <1>0, <1>1, WalkHeads
    <3> QED BY <3>1, <1>0, <1>3, StillFact DEF Still, HeadsAlike
  <2>3. path1' # <<>> => kinds'[1] = "hash_itype2"
    BY <1>0, <1>1, WalkHeads DEF HeadsAlike
  <2> QED BY <2>1, <2>2, <2>3, <1>0, <1>1 DEF HeadsAlike
<1>5. Answered' /\ Twins' /\ Classes'
  BY <1>0, <1>1, <1>3, StillFact DEF Answered, Started, Twins, Classes
<1> QED BY <1>4, <1>5 DEF Rest

\* Sorting and normalizing touch neither the lists nor the full classes.
LEMMA TailSteps ==
  ASSUME Inv, Sort \/ Normalize
  PROVE  Rest'
<1>0. WalkInv /\ Answered /\ Twins /\ HeadsAlike /\ Classes
  BY DEF Inv
<1>1. /\ phase # "idle" /\ phase' # "idle"
      /\ UNCHANGED <<svars, pairs, todo, program, fn, M, pathPerNodeHashFull, answers>>
  <2>1. CASE Sort
    BY <2>1, Zenon DEF Sort
  <2>2. CASE Normalize
    BY <2>2, Zenon DEF Normalize
  <2> QED BY <2>1, <2>2
<1>2. UNCHANGED <<graph, path1, path2, kinds>>
  BY <1>1 DEF svars, walk
<1>3. Still
  BY <1>1, <1>2 DEF Still, OneFunction
<1>4. HeadsAlike'
  <2>1. OneFunction' => \A k \in DOMAIN pairs' : Alike(pairs[k][1], pairs[k][2])'
    BY <1>0, <1>1, <1>3, StillFact DEF Still, HeadsAlike
  <2>2. OneFunction' /\ path1' # <<>> => Alike(path1[1], path2[1])'
    BY <1>0, <1>2, <1>3, StillFact DEF Still, HeadsAlike
  <2> QED BY <2>1, <2>2, <1>0, <1>1, <1>2 DEF HeadsAlike
<1>5. Answered' /\ Twins' /\ Classes'
  BY <1>0, <1>1, <1>3, StillFact DEF Answered, Started, Twins, Classes
<1> QED BY <1>4, <1>5 DEF Rest

\* A call that returns, or that an exception ends, answers about the function at
\* hand.
LEMMA AnswerStep ==
  ASSUME Inv, Return \/ RaisedInWalk \/ RaisedInNormalize
  PROVE  Rest'
<1>0. WalkInv /\ Answered /\ Twins /\ HeadsAlike /\ Classes
  BY DEF Inv
<1>1. /\ phase # "idle" /\ \E got : Answer(got)
      /\ UNCHANGED <<program, fn, M, pathPerNodeHashFull>>
      /\ UNCHANGED svars \/ Reset
  <2>1. CASE Return
    BY <2>1, Zenon DEF Return, tables
  <2>2. CASE RaisedInWalk
    BY <2>2, Zenon DEF RaisedInWalk, tables
  <2>3. CASE RaisedInNormalize
    BY <2>3, Zenon DEF RaisedInNormalize
  <2> QED BY <2>1, <2>2, <2>3
<1>2. PICK got : Answer(got)
  BY <1>1
<1> DEFINE e == [func |-> fn, got |-> got]
<1>3. answers' = Append(answers, e) /\ phase' = "idle" /\ todo' = {} /\ pairs' = <<>>
  BY <1>2 DEF Answer
<1>4. UNCHANGED graph /\ (path1' = <<>> \/ UNCHANGED <<path1, path2, kinds>>)
  BY <1>1 DEF svars, walk, Reset
<1>5. /\ answers' \in Seq({answers[k] : k \in 1 .. Len(answers)} \cup {e})
      /\ Len(answers') = Len(answers) + 1 /\ Len(answers) \in Nat
      /\ DOMAIN answers = 1 .. Len(answers) /\ DOMAIN answers' = 1 .. (Len(answers) + 1)
      /\ \A k \in DOMAIN answers : answers'[k] = answers[k]
      /\ answers'[Len(answers) + 1] = e
  <2> DEFINE S == {answers[k] : k \in 1 .. Len(answers)} \cup {e}
  <2> HIDE DEF e
  <2>1. answers \in Seq(S) /\ e \in S /\ Len(answers) \in Nat
    BY <1>0 DEF Answered
  <2> HIDE DEF S
  <2> QED BY <2>1, <1>3, AppendElems DEF S
<1>6. e.func = fn
  OBVIOUS
<1> HIDE DEF e
<1>7. OneFunction' <=> OneFunction
  BY <1>1, <1>5, <1>6 DEF OneFunction
<1>8. Still
  BY <1>1, <1>4, <1>7 DEF Still
<1>9. Answered'
  <2>1. Len(answers') \in Nat /\ answers' = [k \in 1 .. Len(answers') |-> answers'[k]]
    BY <1>5
  <2>2. \E k \in DOMAIN answers' : answers'[k].func = fn'
    <3>1. Len(answers) + 1 \in DOMAIN answers' /\ answers'[Len(answers) + 1].func = fn'
      BY <1>1, <1>5, <1>6
    <3> QED BY <3>1
  <2>3. Started' /\ Loaded'
    <3>1. Started
      BY <1>1 DEF Started
    <3>2. answers' # <<>>
      BY <1>5
    <3> QED BY <3>1, <3>2, <1>0, <1>8, StillFact DEF Answered, Started
  <2> QED BY <2>1, <2>2, <2>3, <1>0, <1>1 DEF Answered
<1>10. HeadsAlike'
  <2>1. OneFunction' /\ path1' # <<>> => Alike(path1[1], path2[1])'
    BY <1>0, <1>4, <1>8, StillFact DEF Still, HeadsAlike
  <2>2. path1' # <<>> => kinds'[1] = "hash_itype2"
    BY <1>0, <1>4 DEF HeadsAlike
  <2> QED BY <2>1, <2>2, <1>3 DEF HeadsAlike
<1>11. Twins' /\ Classes'
  BY <1>0, <1>1, <1>8, StillFact DEF Twins, Classes
<1> QED BY <1>9, <1>10, <1>11 DEF Rest

\* The paths of the class c.
PathsOf(table, c) == IF c \in DOMAIN table THEN Elems(table[c]) ELSE {}

\* Entering two paths adds them to their class and nothing else.
Entered(new, table, c, p, q, T) ==
    /\ DOMAIN new = DOMAIN table \cup {c}
    /\ \A d \in DOMAIN table : d # c => new[d] = table[d]
    /\ new[c] \in Seq(T)
    /\ Elems(new[c]) = PathsOf(table, c) \cup {p, q}

\* That is what Enter does.
LEMMA EnterFact ==
  ASSUME NEW T, NEW table, NEW c, NEW p \in T, NEW q \in T, c \in DOMAIN table => table[c] \in Seq(T)
  PROVE  Entered(Enter(table, c, p, q), table, c, p, q, T)
<1> DEFINE old == IF c \in DOMAIN table THEN table[c] ELSE <<>>
           New(r) == IF r \in Elems(old) THEN <<>> ELSE <<r>>
           L == old \o New(p) \o New(q)
<1>1. Enter(table, c, p, q) = Put(table, c, L)
  BY Zenon DEF Enter
<1>2. ASSUME NEW s1 \in Seq(T), NEW s2 \in Seq(T)
      PROVE  s1 \o s2 \in Seq(T) /\ Elems(s1 \o s2) = Elems(s1) \cup Elems(s2)
  <2> DEFINE s == s1 \o s2
             m == Len(s1)
  <2>1. /\ s \in Seq(T) /\ m \in Nat /\ DOMAIN s1 = 1 .. m /\ Len(s2) \in Nat /\ DOMAIN s2 = 1 .. Len(s2)
        /\ DOMAIN s = 1 .. (m + Len(s2))
        /\ \A i \in DOMAIN s : IF i <= m THEN s[i] = s1[i] ELSE s[i] = s2[i - m]
    OBVIOUS
  <2> HIDE DEF s, m
  <2>2. \A i \in DOMAIN s1 : i \in DOMAIN s /\ s[i] = s1[i]
    BY <2>1
  <2>3. \A i \in DOMAIN s2 : m + i \in DOMAIN s /\ s[m + i] = s2[i]
    <3> TAKE i \in DOMAIN s2
    <3>1. i \in Nat /\ i >= 1 /\ i <= Len(s2) /\ m \in Nat
      BY <2>1
    <3>2. m + i \in DOMAIN s /\ ~(m + i <= m) /\ (m + i) - m = i
      BY <3>1, <2>1
    <3> QED BY <3>2, <2>1
  <2>4. \A i \in DOMAIN s : s[i] \in Elems(s1) \cup Elems(s2)
    <3> TAKE i \in DOMAIN s
    <3>1. i \in DOMAIN s1 \/ i - m \in DOMAIN s2
      BY <2>1
    <3> QED BY <3>1, <2>1 DEF Elems
  <2>5. Elems(s1) \cup Elems(s2) \subseteq Elems(s)
    BY <2>2, <2>3 DEF Elems
  <2>6. Elems(s) \subseteq Elems(s1) \cup Elems(s2)
    BY <2>4, Zenon DEF Elems
  <2> QED BY <2>1, <2>5, <2>6 DEF s
<1>3. old \in Seq(T) /\ Elems(old) = PathsOf(table, c)
  BY DEF Elems, PathsOf
<1> HIDE DEF old
<1>4. ASSUME NEW r \in T PROVE New(r) \in Seq(T) /\ Elems(New(r)) = {r} \ Elems(old)
  <2>1. CASE r \in Elems(old)
    BY <2>1 DEF Elems
  <2>2. CASE r \notin Elems(old)
    <3>1. New(r) = <<r>>
      BY <2>2
    <3>2. Elems(<<r>>) = {r}
      BY DEF Elems
    <3> QED BY <2>2, <3>1, <3>2
  <2> QED BY <2>1, <2>2
<1> HIDE DEF New
<1>5. L \in Seq(T) /\ Elems(L) = Elems(old) \cup {p, q}
  <2>1. old \o New(p) \in Seq(T) /\ Elems(old \o New(p)) = Elems(old) \cup Elems(New(p))
    BY <1>2, <1>3, <1>4
  <2>2. New(q) \in Seq(T)
    BY <1>4
  <2>3. L \in Seq(T) /\ Elems(L) = Elems(old \o New(p)) \cup Elems(New(q))
    BY <1>2, <2>1, <2>2
  <2> QED BY <2>1, <2>3, <1>4
<1> HIDE DEF L
<1>6. /\ DOMAIN Put(table, c, L) = DOMAIN table \cup {c} /\ Put(table, c, L)[c] = L
      /\ \A d \in DOMAIN table : d # c => Put(table, c, L)[d] = table[d]
  BY DEF Put
<1> QED BY <1>1, <1>3, <1>5, <1>6 DEF Entered

\* Blocks that match by frequency have an instruction in common.
LEMMA FreqFact ==
  ASSUME NEW c1, NEW c2, match(c1, c2, "freq")
  PROVE  Common(c1, c2) # {}
<1>1. match_block_frequencies(c1, c2, Coverage(Len(c1), Len(c2)), 95)
  BY DEF match
<1> QED BY <1>1 DEF match_block_frequencies

\* The hash of a walk is true of both of its paths, block by block.
LEMMA PathHash ==
  ASSUME Inv, Started, OneFunction, NEW i \in DOMAIN path1
  PROVE  /\ path1[i] \in blocks /\ path2[i] \in blocks
         /\ Says(PathNodeHash(i), Code(path1[i])) /\ Says(PathNodeHash(i), Code(path2[i]))
<1> DEFINE k == kinds[i]
           c1 == Code(path1[i])
           c2 == Code(path2[i])
<1>0. WalkInv /\ Answered /\ HeadsAlike
  BY DEF Inv
<1>1. path1 \in Seq(Node) /\ kinds \in Seq(HashTypes) /\ Len(kinds) = Len(path1)
  BY <1>0 DEF WalkInv, WalkType, InStep
<1>2. k \in HashTypes /\ i \in Nat /\ i >= 1 /\ path1 # <<>>
  BY <1>1
<1>3. path1[i] \in blocks /\ path2[i] \in blocks /\ match(c1, c2, k)
  <2>1. CASE i = 1
    <3>1. Alike(path1[1], path2[1]) /\ kinds[1] = "hash_itype2"
      BY <1>0, <1>2 DEF HeadsAlike
    <3> QED BY <2>1, <3>1 DEF Alike, match
  <2>2. CASE i > 1
    <3>1. <<path1[i], path2[i]>> \in sim[k]
      BY <2>2, <1>0 DEF WalkInv, SameShape
    <3>2. sim[k] = {e \in blocks \X blocks : match(Code(e[1]), Code(e[2]), k)}
      BY <1>0, <1>2 DEF Answered, Loaded
    <3>3. PICK e \in blocks \X blocks : e = <<path1[i], path2[i]>> /\ match(Code(e[1]), Code(e[2]), k)
      BY <3>1, <3>2
    <3>4. e[1] = path1[i] /\ e[2] = path2[i] /\ e[1] \in blocks /\ e[2] \in blocks
      BY <3>3
    <3>5. match(Code(e[1]), Code(e[2]), k)
      BY <3>3
    <3>6. path1[i] \in blocks /\ path2[i] \in blocks
      BY <3>4
    <3>7. match(c1, c2, k)
      BY <3>4, <3>5
    <3> HIDE DEF k, c1, c2
    <3> QED BY <3>6, <3>7
  <2>3. i = 1 \/ i > 1
    BY <1>2
  <2> QED BY <2>1, <2>2, <2>3, Zenon
<1> HIDE DEF k, c1, c2
<1>4. CASE k = "hash_itype1"
  <2>1. PathNodeHash(i) = <<k, hash_itype1(c1)>>
    BY <1>4 DEF PathNodeHash, k, c1
  <2>2. hash_itype1(c1) = hash_itype1(c2)
    BY <1>3, <1>4 DEF match
  <2> QED BY <2>1, <2>2, <1>3, <1>4 DEF Says, c1, c2
<1>5. CASE k = "hash_itype2"
  <2>1. PathNodeHash(i) = <<k, hash_itype2(c1)>>
    BY <1>5 DEF PathNodeHash, k, c1
  <2>2. hash_itype2(c1) = hash_itype2(c2)
    BY <1>3, <1>5 DEF match
  <2> QED BY <2>1, <2>2, <1>3, <1>5 DEF Says, c1, c2
<1>6. CASE k = "freq"
  <2>1. PathNodeHash(i) = <<k, Common(c1, c2)>>
    BY <1>6 DEF PathNodeHash, k, c1, c2
  <2>2. Common(c1, c2) # {}
    BY <1>3, <1>6, FreqFact
  <2>3. Common(c1, c2) \subseteq InstrsOf(c1) /\ Common(c1, c2) \subseteq InstrsOf(c2)
    BY DEF Common
  <2> QED BY <2>1, <2>2, <2>3, <1>3, <1>6 DEF Says, c1, c2
<1> QED BY <1>2, <1>4, <1>5, <1>6 DEF HashTypes

\* Whatever a class held, the two paths of a finished walk fit in.
LEMMA RecordStep ==
  ASSUME Inv, Record
  PROVE  Rest'
<1> DEFINE full == [i \in DOMAIN path1 |-> PathNodeHash(i)]
           c == ClassOf(full)
<1>0. WalkInv /\ Answered /\ Twins /\ HeadsAlike /\ Classes
  BY DEF Inv
<1>1. /\ phase = "pairs" /\ Reset
      /\ pathPerNodeHashFull' =
            IF Len(path1) > 1 THEN Enter(pathPerNodeHashFull, c, path1, path2) ELSE pathPerNodeHashFull
      /\ UNCHANGED <<program, fn, M, answers, locals>>
  BY Zenon DEF Record
<1> HIDE DEF c, full
<1>2. UNCHANGED <<phase, pairs, todo, graph>> /\ path1' = <<>>
  BY <1>1 DEF locals, Reset
<1>3. Still
  BY <1>1, <1>2 DEF Still, OneFunction
<1>4. HeadsAlike'
  <2>1. OneFunction' => \A k \in DOMAIN pairs' : Alike(pairs[k][1], pairs[k][2])'
    BY <1>0, <1>2, <1>3, StillFact DEF Still, HeadsAlike
  <2> QED BY <2>1, <1>0, <1>1, <1>2 DEF HeadsAlike
<1>5. Answered' /\ Twins'
  <2>1. Started /\ Started'
    BY <1>1, <1>2 DEF Started
  <2> QED BY <2>1, <1>0, <1>1, <1>2, <1>3, StillFact DEF Answered, Twins
<1>6. CASE ~(Len(path1) > 1)
  <2>1. Classes'
    BY <1>0, <1>1, <1>3, <1>6, StillFact DEF Classes
  <2> QED BY <1>4, <1>5, <2>1 DEF Rest
<1>7. CASE Len(path1) > 1
  <2> DEFINE table == pathPerNodeHashFull
             new == Enter(table, c, path1, path2)
             old == PathsOf(table, c)
  <2>1. /\ path1 \in Seq(Node) /\ path2 \in Seq(Node) /\ Len(path1) = Len(path2)
        /\ \A i \in DOMAIN path1 : path1[i] # path2[i]
    BY <1>0 DEF WalkInv, WalkType, InStep
  <2>2. \A d \in DOMAIN table : Class(d, table[d])
    BY <1>0 DEF Classes
  <2>3. c \in DOMAIN table => table[c] \in Seq(Seq(Node))
    BY <2>2 DEF Class
  <2>4. /\ DOMAIN new = DOMAIN table \cup {c} /\ \A d \in DOMAIN table : d # c => new[d] = table[d]
        /\ new[c] \in Seq(Seq(Node)) /\ Elems(new[c]) = old \cup {path1, path2}
    <3> DEFINE T == Seq(Node)
    <3>1. path1 \in T /\ path2 \in T /\ (c \in DOMAIN table => table[c] \in Seq(T))
      BY <2>1, <2>3
    <3> HIDE DEF table, T
    <3>2. Entered(Enter(table, c, path1, path2), table, c, path1, path2, T)
      BY <3>1, EnterFact
    <3> QED BY <3>2 DEF T, Entered
  <2> HIDE DEF new
  <2>5. c[2] = full /\ Len(full) = Len(path1)
    <3>1. Len(path1) \in Nat /\ DOMAIN path1 = 1 .. Len(path1)
      BY <2>1
    <3>2. Len(full) = Len(path1)
      BY <3>1 DEF full
    <3> QED BY <3>2 DEF c, ClassOf
  <2>6. Apart(path1, path2) /\ Apart(path2, path1)
    <3>1. DOMAIN path1 = DOMAIN path2
      BY <2>1
    <3> QED BY <2>1, <3>1 DEF Apart
  <2>7. ASSUME NEW p \in Elems(new[c])
        PROVE  Len(p) = Len(c[2]) /\ \E q \in Elems(new[c]) : Apart(p, q)
    <3>1. CASE p \in old
      <4>1. c \in DOMAIN table /\ p \in Elems(table[c])
        BY <3>1 DEF PathsOf
      <4>2. Len(p) = Len(c[2]) /\ \E q \in Elems(table[c]) : Apart(p, q)
        BY <4>1, <2>2 DEF Class
      <4>3. PICK q \in Elems(table[c]) : Apart(p, q)
        BY <4>2
      <4>4. q \in Elems(new[c])
        BY <4>1, <2>4 DEF PathsOf
      <4> QED BY <4>2, <4>3, <4>4
    <3>2. CASE p \in {path1, path2}
      BY <3>2, <2>1, <2>4, <2>5, <2>6
    <3> QED BY <3>1, <3>2, <2>4
  <2>8. ASSUME OneFunction, NEW p \in Elems(new[c]), NEW i \in DOMAIN p
        PROVE  p[i] \in blocks /\ Says(c[2][i], Code(p[i]))
    <3>1. CASE p \in old
      <4>1. c \in DOMAIN table /\ p \in Elems(table[c])
        BY <3>1 DEF PathsOf
      <4> QED BY <4>1, <2>2, <2>8 DEF Class
    <3>2. CASE p \in {path1, path2}
      <4>1. i \in DOMAIN path1
        BY <3>2, <2>1, <2>8
      <4>2. c[2][i] = PathNodeHash(i)
        BY <4>1, <2>5 DEF full
      <4>3. Started
        BY <1>1 DEF Started
      <4> QED BY <3>2, <4>1, <4>2, <4>3, <2>8, PathHash
    <3> QED BY <3>1, <3>2, <2>4
  <2>9. Class(c, new[c])
    BY <2>4, <2>7, <2>8 DEF Class
  <2>10. \A d \in DOMAIN new : Class(d, new[d])
    BY <2>2, <2>4, <2>9
  <2>11. IsFiniteSet(DOMAIN new)
    <3>1. IsFiniteSet(DOMAIN table)
      BY <1>0 DEF Classes
    <3>2. IsFiniteSet(DOMAIN table \cup {c})
      BY <3>1, FS_AddElement
    <3> QED BY <3>2, <2>4, Zenon
  <2>12. pathPerNodeHashFull' = new
    BY <1>1, <1>7 DEF new
  <2>13. Classes'
    BY <2>10, <2>11, <2>12, <1>3, StillFact DEF Classes
  <2> QED BY <1>4, <1>5, <2>13 DEF Rest
<1> QED BY <1>6, <1>7

\* Every step keeps the invariant.
LEMMA InvStep == Inv /\ [Next]_vars => Inv'
<1> SUFFICES ASSUME Inv, [Next]_vars PROVE Inv'
  OBVIOUS
<1>1. WalkInv'
  <2>1. [WalkNext]_svars
    BY StepWalks
  <2> QED BY <2>1, WalkNextInv DEF Inv
<1>2. Rest'
  <2>1. CASE UNCHANGED vars
    <3>1. UNCHANGED <<program, fn, graph, M, pathPerNodeHashFull, answers, phase, pairs, todo, path1, path2, kinds>>
      BY <2>1 DEF vars, svars, walk, tables, locals
    <3>2. Still
      BY <3>1 DEF Still, OneFunction
    <3>3. Answered /\ Twins /\ HeadsAlike /\ Classes
      BY DEF Inv
    <3>4. Answered' /\ Twins' /\ Classes'
      BY <3>1, <3>2, <3>3, StillFact DEF Answered, Started, Twins, Classes
    <3>5. HeadsAlike'
      <4>1. OneFunction' => \A k \in DOMAIN pairs' : Alike(pairs[k][1], pairs[k][2])'
        BY <3>1, <3>2, <3>3, StillFact DEF Still, HeadsAlike
      <4>2. OneFunction' /\ path1' # <<>> => Alike(path1[1], path2[1])'
        BY <3>1, <3>2, <3>3, StillFact DEF Still, HeadsAlike
      <4> QED BY <4>1, <4>2, <3>1, <3>3 DEF HeadsAlike
    <3> QED BY <3>4, <3>5 DEF Rest
  <2>2. CASE Next
    BY <2>2, AnalyzeStep, NextHashStep, NextPairStep, WalkStepKeeps, RecordStep, TailSteps, AnswerStep DEF Next, Step
  <2> QED BY <2>1, <2>2
<1> QED BY <1>1, <1>2 DEF Inv, Rest

\* The invariant holds in every state of every sequence of analyses.
LEMMA InvAlways == Spec => []Inv
BY InvInit, InvStep, PTL DEF Spec

-----------------------------------------------------------------------------
(* Theorems *)

\* Analyze() takes only steps of the walk of SubGraphs, whatever the program and
\* however often it is called: it pairs two different blocks of the program, never
\* changes the graph under a walk, and starts one with the last one's locals gone.
THEOREM AnalysisWalks == Spec => WalkSpec
<1>1. Init => WalkInit
  BY DEF Init
<1>2. Inv /\ [Next]_vars => [WalkNext]_svars
  BY StepWalks
<1> QED BY <1>1, <1>2, InvAlways, PTL DEF Spec, WalkSpec

\* For every program the paths of an analysis stay in step.
THEOREM AnalysisInStep == Spec => []InStep
BY AnalysisWalks, WalkInStep, PTL

\* For every program the subgraphs an analysis finds have one shape.
THEOREM AnalysisSameShape == Spec => []SameShape
BY AnalysisWalks, WalkSameShape, PTL

\* Every path of a class is as long as the class's hash and has its parts, block by
\* block, so that places of one path can be looked up in all (FindSimilar() does).
THEOREM ClassesHold == Spec => []ClassesHomogeneous
<1>1. Inv => ClassesHomogeneous
  <2> SUFFICES ASSUME Inv, NEW c \in DOMAIN pathPerNodeHashFull, NEW p \in Elems(pathPerNodeHashFull[c])
               PROVE  /\ Len(p) = Len(c[2])
                      /\ OneFunction => \A i \in DOMAIN p :
                            CASE c[2][i][1] = "hash_itype1" -> hash_itype1(Code(p[i])) = c[2][i][2]
                              [] c[2][i][1] = "hash_itype2" -> hash_itype2(Code(p[i])) = c[2][i][2]
                              [] c[2][i][1] = "freq" -> c[2][i][2] \subseteq InstrsOf(Code(p[i]))
    BY DEF ClassesHomogeneous
  <2>1. Class(c, pathPerNodeHashFull[c])
    BY DEF Inv, Classes
  <2>2. Len(p) = Len(c[2])
    BY <2>1 DEF Class
  <2>3. ASSUME OneFunction, NEW i \in DOMAIN p
        PROVE  Says(c[2][i], Code(p[i]))
    BY <2>1, <2>3 DEF Class
  <2> QED BY <2>2, <2>3 DEF Says
<1> QED BY <1>1, InvAlways, PTL

-----------------------------------------------------------------------------
(* FindSimilar() *)

\* A set of numbers that is not empty has a least one.
LEMMA LeastFact ==
  ASSUME NEW S \in SUBSET Nat, S # {}
  PROVE  Least(S) \in S /\ \A y \in S : Least(S) <= y
<1>1. PICK x \in S : \A y \in S : ~(<<y, x>> \in OpToRel(<, Nat))
  BY NatLessThanWellFounded, WFMin
<1>2. \A y \in S : x <= y
  <2> TAKE y \in S
  <2>1. x \in Nat /\ y \in Nat
    OBVIOUS
  <2>2. y < x => <<y, x>> \in OpToRel(<, Nat)
    BY <2>1 DEF OpToRel
  <2>3. ~(y < x)
    BY <1>1, <2>2
  <2> QED BY <2>1, <2>3
<1> QED BY <1>2 DEF Least

\* A function of a finite set has finitely many values.
LEMMA ImageFinite ==
  ASSUME NEW S, IsFiniteSet(S), NEW F, F = [x \in S |-> F[x]]
  PROVE  IsFiniteSet({F[x] : x \in S})
<1> DEFINE T == {F[x] : x \in S}
<1>1. F \in Surjection(S, T)
  <2>1. \A x \in S : F[x] \in T
    OBVIOUS
  <2>2. \A t \in T : \E x \in S : F[x] = t
    OBVIOUS
  <2> HIDE DEF T
  <2>3. F \in [S -> T]
    BY <2>1
  <2> QED BY <2>2, <2>3 DEF Surjection
<1> QED BY <1>1, FS_Surjection

\* Two elements are more than one.
LEMMA TwoElements ==
  ASSUME NEW S, IsFiniteSet(S), NEW a \in S, NEW b \in S, a # b
  PROVE  Cardinality(S) > 1
<1>1. IsFiniteSet({a}) /\ Cardinality({a}) = 1
  BY FS_Singleton
<1>2. {a} \in SUBSET S /\ {a} # S
  OBVIOUS
<1>3. Cardinality({a}) <= Cardinality(S) /\ Cardinality(S) # Cardinality({a}) /\ Cardinality(S) \in Nat
  BY <1>2, FS_Subset, FS_CardinalityType
<1> QED BY <1>1, <1>3

\* Two blocks are like each other: they match, or share an instruction.
Like(a, b) == (\E t \in HashTypes : <<a, b>> \in sim[t]) \/ Common(Code(a), Code(b)) # {}

\* One part of a hash is true only of blocks that are like each other.
LEMMA SaysLike ==
  ASSUME Loaded, NEW a \in blocks, NEW b \in blocks, NEW h, Says(h, Code(a)), Says(h, Code(b))
  PROVE  Like(a, b)
<1>1. ASSUME NEW t \in HashTypes, match(Code(a), Code(b), t) PROVE <<a, b>> \in sim[t]
  <2>1. sim[t] = {e \in blocks \X blocks : match(Code(e[1]), Code(e[2]), t)}
    BY DEF Loaded
  <2>2. <<a, b>> \in blocks \X blocks /\ <<a, b>>[1] = a /\ <<a, b>>[2] = b
    OBVIOUS
  <2> QED BY <1>1, <2>1, <2>2
<1>2. CASE h[1] = "hash_itype1" /\ hash_itype1(Code(a)) = h[2] /\ hash_itype1(Code(b)) = h[2]
  <2>1. match(Code(a), Code(b), "hash_itype1")
    BY <1>2 DEF match
  <2> QED BY <1>1, <2>1 DEF Like, HashTypes
<1>3. CASE h[1] = "hash_itype2" /\ hash_itype2(Code(a)) = h[2] /\ hash_itype2(Code(b)) = h[2]
  <2>1. match(Code(a), Code(b), "hash_itype2")
    BY <1>3 DEF match
  <2> QED BY <1>1, <2>1 DEF Like, HashTypes
<1>4. CASE h[2] # {} /\ h[2] \subseteq InstrsOf(Code(a)) /\ h[2] \subseteq InstrsOf(Code(b))
  BY <1>4 DEF Like, Common
<1> QED BY <1>2, <1>3, <1>4 DEF Says

\* What a class says of the blocks nl, when it says something.
LEMMA ProjectedFact ==
  ASSUME Inv, OneFunction, NEW m \in Nat \ {0}, NEW nl \in [1 .. m -> blocks],
         NEW c \in DOMAIN pathPerNodeHashFull, NEW h, Projected(c, nl, h) # {}
  PROVE  /\ nl \in Projected(c, nl, h) /\ IsFiniteSet(Projected(c, nl, h))
         /\ \E r \in Projected(c, nl, h) : r # nl
         /\ \A r \in Projected(c, nl, h) : \A k \in DOMAIN nl : Like(nl[k], r[k])
<1> DEFINE paths == pathPerNodeHashFull[c]
           hits  == {i \in DOMAIN paths : paths[i][1] = h /\ Elems(nl) \subseteq Elems(paths[i])}
           path  == paths[Least(hits)]
           at    == matchIndex(path, nl)
           Row(p) == [k \in DOMAIN nl |-> p[at[k]]]
<1>1. hits # {} /\ Projected(c, nl, h) = {Row(p) : p \in Elems(paths)}
  BY Zenon DEF Projected
<1>2. Class(c, paths)
  BY DEF Inv, Classes
<1>3. paths \in Seq(Seq(Node)) /\ DOMAIN paths = 1 .. Len(paths) /\ Len(paths) \in Nat
  BY <1>2 DEF Class
<1>4. Least(hits) \in hits
  <2>1. hits \in SUBSET Nat
    BY <1>3
  <2> QED BY <2>1, <1>1, LeastFact
<1>5. path \in Elems(paths) /\ path \in Seq(Node) /\ Elems(nl) \subseteq Elems(path)
  <2>1. Least(hits) \in DOMAIN paths /\ Elems(nl) \subseteq Elems(paths[Least(hits)])
    BY <1>4
  <2>2. \A i \in DOMAIN paths : paths[i] \in Seq(Node) /\ paths[i] \in Elems(paths)
    BY <1>3 DEF Elems
  <2> QED BY <2>1, <2>2, Zenon
<1> HIDE DEF hits, path
<1>6. \A k \in DOMAIN nl : at[k] \in DOMAIN path /\ path[at[k]] = nl[k]
  <2> TAKE k \in DOMAIN nl
  <2>1. nl[k] \in Elems(path)
    BY <1>5 DEF Elems
  <2>2. \E i \in DOMAIN path : path[i] = nl[k]
    BY <2>1 DEF Elems
  <2>3. at[k] = CHOOSE i \in DOMAIN path : path[i] = nl[k]
    BY DEF matchIndex
  <2> QED BY <2>2, <2>3
<1> HIDE DEF at
<1>7. Row(path) = nl
  BY <1>6
<1>8. nl \in Projected(c, nl, h)
  <2>1. Row(path) \in {Row(p) : p \in Elems(paths)}
    BY <1>5
  <2> QED BY <1>1, <1>7, <2>1
<1>9. \E r \in Projected(c, nl, h) : r # nl
  <2>1. PICK q \in Elems(paths) : Apart(path, q)
    BY <1>2, <1>5 DEF Class
  <2>2. 1 \in DOMAIN nl
    OBVIOUS
  <2>3. path[at[1]] # q[at[1]]
    BY <2>1, <2>2, <1>6 DEF Apart
  <2>4. Row(q)[1] # nl[1]
    BY <2>2, <2>3, <1>6
  <2>5. Row(q) # nl
    BY <2>4
  <2>6. Row(q) \in Projected(c, nl, h)
    BY <2>1, <1>1
  <2> HIDE DEF Row
  <2> QED BY <2>5, <2>6
<1>10. IsFiniteSet(Projected(c, nl, h))
  <2> DEFINE F == [p \in Elems(paths) |-> Row(p)]
             G == [i \in DOMAIN paths |-> paths[i]]
  <2>1. IsFiniteSet(Elems(paths))
    <3>1. IsFiniteSet(DOMAIN paths)
      BY <1>3, FS_Interval
    <3>2. G = [i \in DOMAIN paths |-> G[i]] /\ {G[i] : i \in DOMAIN paths} = Elems(paths)
      BY DEF Elems
    <3> HIDE DEF G, paths
    <3>3. IsFiniteSet({G[i] : i \in DOMAIN paths})
      BY <3>1, <3>2, ImageFinite
    <3> QED BY <3>2, <3>3
  <2>2. F = [p \in Elems(paths) |-> F[p]] /\ {F[p] : p \in Elems(paths)} = {Row(p) : p \in Elems(paths)}
    OBVIOUS
  <2> HIDE DEF F, Row, paths
  <2>3. IsFiniteSet({F[p] : p \in Elems(paths)})
    BY <2>1, <2>2, ImageFinite
  <2> QED BY <2>2, <2>3, <1>1
<1>11. ASSUME NEW r \in Projected(c, nl, h), NEW k \in DOMAIN nl PROVE Like(nl[k], r[k])
  <2>1. PICK p \in Elems(paths) : r = Row(p)
    BY <1>1
  <2>2. r[k] = p[at[k]] /\ at[k] \in DOMAIN path /\ path[at[k]] = nl[k]
    BY <2>1, <1>6
  <2>3. p \in Seq(Node) /\ Len(p) = Len(c[2]) /\ Len(path) = Len(c[2])
    BY <2>1, <1>2, <1>3, <1>5 DEF Class, Elems
  <2>4. at[k] \in DOMAIN p
    BY <2>2, <2>3, <1>5
  <2>5. /\ nl[k] \in blocks /\ Says(c[2][at[k]], Code(nl[k]))
        /\ r[k] \in blocks /\ Says(c[2][at[k]], Code(r[k]))
    BY <2>1, <2>2, <2>4, <1>2, <1>5 DEF Class
  <2>6. Loaded
    <3>1. DOMAIN Empty = {}
      BY DEF Empty
    <3> QED BY <3>1 DEF Inv, Answered
  <2> QED BY <2>5, <2>6, SaysLike
<1> QED BY <1>8, <1>9, <1>10, <1>11

\* Whatever was selected, what `Highlight similar' finds contains the selection, at
\* least one other list of blocks, and only blocks that are like those they stand
\* for: for every program, as long as only one function was analysed.
THEOREM FindSimilarSound == Spec => []SimilarFound
<1>1. Inv => SimilarFound
  <2> SUFFICES ASSUME Inv, OneFunction, NEW nl \in Selections
               PROVE  /\ FindSimilar(nl) # {} => nl \in FindSimilar(nl) /\ Cardinality(FindSimilar(nl)) > 1
                      /\ \A r \in FindSimilar(nl) : \A k \in DOMAIN nl : Like(nl[k], r[k])
    BY Zenon DEF SimilarFound, Like
  <2>1. PICK m \in 2 .. 3 : nl \in [1 .. m -> blocks]
    BY DEF Selections
  <2>2. m \in Nat \ {0}
    OBVIOUS
  <2>3. FindSimilar(nl) = {} \/ \E h : FindSimilar(nl) = SimilarFrom(nl, h)
    BY Zenon DEF FindSimilar
  <2>4. CASE FindSimilar(nl) = {}
    BY <2>4
  <2>5. CASE FindSimilar(nl) # {}
    <3>1. PICK h : FindSimilar(nl) = SimilarFrom(nl, h)
      BY <2>3, <2>5
    <3> DEFINE D == {d \in DOMAIN pathPerNodeHashFull : d[1] = nodeHashes[h]}
               P == [c \in D |-> Projected(c, nl, h)]
               found == UNION {P[c] : c \in D}
    <3>2. FindSimilar(nl) = found
      BY <3>1 DEF SimilarFrom
    <3>3. ASSUME NEW c \in D, P[c] # {}
          PROVE  /\ nl \in P[c] /\ IsFiniteSet(P[c]) /\ \E r \in P[c] : r # nl
                 /\ \A r \in P[c] : \A k \in DOMAIN nl : Like(nl[k], r[k])
      <4>1. P[c] = Projected(c, nl, h) /\ c \in DOMAIN pathPerNodeHashFull
        OBVIOUS
      <4> QED BY <4>1, <3>3, <2>1, <2>2, ProjectedFact
    <3>4. IsFiniteSet(found)
      <4>1. IsFiniteSet(D)
        <5>1. D \in SUBSET DOMAIN pathPerNodeHashFull
          OBVIOUS
        <5>2. IsFiniteSet(DOMAIN pathPerNodeHashFull)
          BY DEF Inv, Classes
        <5> QED BY <5>1, <5>2, FS_Subset
      <4>2. P = [c \in D |-> P[c]]
        OBVIOUS
      <4> HIDE DEF P, D
      <4>3. IsFiniteSet({P[c] : c \in D})
        BY <4>1, <4>2, ImageFinite
      <4>4. \A T \in {P[c] : c \in D} : IsFiniteSet(T)
        BY <3>3, FS_EmptySet
      <4> QED BY <4>3, <4>4, FS_UNION
    <3> HIDE DEF P, D
    <3>5. PICK c \in D : P[c] # {}
      BY <3>2, <2>5
    <3>6. PICK r \in P[c] : r # nl
      BY <3>3, <3>5
    <3>7. nl \in found /\ r \in found
      BY <3>3, <3>5, <3>6
    <3>8. Cardinality(found) > 1
      BY <3>4, <3>6, <3>7, TwoElements
    <3>9. ASSUME NEW s \in found, NEW k \in DOMAIN nl PROVE Like(nl[k], s[k])
      <4>1. PICK d \in D : s \in P[d]
        OBVIOUS
      <4> QED BY <4>1, <3>3
    <3> QED BY <3>2, <3>7, <3>8, <3>9
  <2> QED BY <2>4, <2>5
<1> QED BY <1>1, InvAlways, PTL

-----------------------------------------------------------------------------
(* The classes of single-entry paths and their sizes *)

\* The walk has a pair from its start to its end.
Headed == pc # "ready" => path1 # <<>>

\* The classes of single-entry paths are finitely many and have paths; what is
\* entered by size are such classes.
Sized ==
    /\ IsFiniteSet(DOMAIN pathPerNodeHash)
    /\ \A c \in DOMAIN pathPerNodeHash : pathPerNodeHash[c] \in Seq(Seq(Node)) /\ pathPerNodeHash[c] # <<>>
    /\ order \in Seq(DOMAIN pathPerNodeHash) /\ size_dic \in Seq(DOMAIN pathPerNodeHash)

\* The entry i is taken before j.
Precedes(i, j) == Larger(i, j) \/ (~Larger(j, i) /\ i < j)

\* The size of a class is a number.
LEMMA SizeType ==
  ASSUME Sized, NEW c \in DOMAIN pathPerNodeHash
  PROVE  SizeOf(c) \in Nat
<1>1. pathPerNodeHash[c] \in Seq(Seq(Node)) /\ pathPerNodeHash[c] # <<>>
  BY DEF Sized
<1>2. pathPerNodeHash[c][1] \in Seq(Node)
  <2> DEFINE T == Seq(Node)
  <2>1. pathPerNodeHash[c] \in Seq(T)
    BY <1>1
  <2> HIDE DEF T
  <2>2. pathPerNodeHash[c][1] \in T
    BY <2>1, <1>1
  <2> QED BY <2>2 DEF T
<1> QED BY <1>2 DEF SizeOf

\* A walk has a pair as soon as it started.
LEMMA HeadedStep ==
  ASSUME WalkInv, Headed, [WalkNext]_svars
  PROVE  Headed'
<1>1. CASE UNCHANGED svars
  BY <1>1 DEF Headed, svars, walk
<1>2. ASSUME NEW B, NEW V, NEW S, NEW R, LoadGraph(B, S, R, V) PROVE Headed'
  BY <1>2 DEF LoadGraph, Headed, walk
<1>3. ASSUME NEW a, NEW b, StartPair(a, b) PROVE Headed'
  BY <1>3 DEF StartPair, Headed
<1>4. ASSUME NEW t \in HashTypes, MatchSucc(t) PROVE Headed'
  <2>1. ls # <<>> /\ path1' = Append(path1, Head(ls)) /\ ls \in Seq(Node) /\ path1 \in Seq(Node)
    BY <1>4 DEF MatchSucc, WalkInv, WalkType
  <2>2. Len(path1') = Len(path1) + 1 /\ Len(path1) \in Nat
    BY <2>1, TailElems, AppendElems
  <2>3. path1' # <<>>
    BY <2>2
  <2> QED BY <2>3 DEF Headed
<1>5. CASE Dequeue \/ SkipSucc \/ RaiseSucc \/ NoMatch \/ EndSuccs \/ EndWalk \/ Reset
  BY <1>5 DEF Headed, Dequeue, SkipSucc, RaiseSucc, NoMatch, EndSuccs, EndWalk, Reset
<1> QED BY <1>1, <1>2, <1>3, <1>4, <1>5 DEF WalkNext, WalkStep

\* makeSubgraphSingleEntryPoint() leaves the head at least.
LEMMA EntryLength ==
  ASSUME path1 \in Seq(Node), path1 # <<>>
  PROVE  SingleEntryLength \in 1 .. Len(path1)
<1> DEFINE n == Len(path1)
           Good(k) == EntryAtHead(SubSeq(path1, 1, k))
           S == {m \in Nat : m < n /\ Good(n - m)}
<1>1. n \in Nat /\ n >= 1
  OBVIOUS
<1>2. Good(1)
  <2>1. Len(SubSeq(path1, 1, 1)) = 1
    BY <1>1
  <2>2. 2 .. 1 = {}
    OBVIOUS
  <2> QED BY <2>1, <2>2 DEF EntryAtHead
<1> HIDE DEF Good, n
<1>3. S \in SUBSET Nat /\ n - 1 \in S
  <2>1. n - 1 \in Nat /\ n - 1 < n /\ n - (n - 1) = 1
    BY <1>1
  <2> QED BY <2>1, <1>2
<1>4. Least(S) \in S /\ \A y \in S : Least(S) <= y
  BY <1>3, LeastFact
<1> DEFINE k == n - Least(S)
<1>5. k \in 1 .. n /\ Good(k)
  BY <1>1, <1>4
<1>6. ASSUME NEW j \in (k + 1) .. n PROVE ~Good(j)
  <2>1. j \in Nat /\ k \in Nat /\ j > k /\ j <= n /\ Least(S) \in Nat
    BY <1>1, <1>4, <1>5
  <2>2. n - j \in Nat /\ n - j < n /\ n - (n - j) = j /\ ~(Least(S) <= n - j)
    BY <2>1, <1>1, <1>5
  <2>3. n - j \notin S
    BY <2>2, <1>4
  <2> QED BY <2>2, <2>3
<1> HIDE DEF k, S
<1>7. \E m \in 1 .. n : Good(m) /\ \A j \in (m + 1) .. n : ~Good(j)
  BY <1>5, <1>6
<1>8. SingleEntryLength = CHOOSE m \in 1 .. n : Good(m) /\ \A j \in (m + 1) .. n : ~Good(j)
  BY DEF SingleEntryLength, Good, n
<1> QED BY <1>7, <1>8 DEF n

\* The entry that is taken next is there, and precedes all others.
LEMMA NextFact ==
  ASSUME Sized, pending \subseteq DOMAIN size_dic, pending # {}
  PROVE  NextEntry \in pending /\ \A j \in pending \ {NextEntry} : Precedes(NextEntry, j)
<1> DEFINE below == [i \in pending |-> {j \in pending : j = i \/ Precedes(j, i)}]
           n == Cardinality(pending)
<1>1. /\ DOMAIN size_dic = 1 .. Len(size_dic) /\ Len(size_dic) \in Nat
      /\ \A i \in DOMAIN size_dic : size_dic[i] \in DOMAIN pathPerNodeHash
  BY DEF Sized
<1>2. \A i \in pending : i \in Nat /\ SizeOf(size_dic[i]) \in Nat
  BY <1>1, SizeType
<1>3. IsFiniteSet(pending)
  <2>1. IsFiniteSet(DOMAIN size_dic)
    BY <1>1, FS_Interval
  <2> QED BY <2>1, FS_Subset
<1>4. below \in [pending -> SUBSET pending] /\ \A i \in pending : i \in below[i]
  OBVIOUS
<1>5. ASSUME NEW x \in pending, NEW y \in pending, x # y
      PROVE  \/ below[x] \subseteq below[y] /\ y \notin below[x]
             \/ below[y] \subseteq below[x] /\ x \notin below[y]
  <2>1. (Precedes(x, y) /\ ~Precedes(y, x)) \/ (Precedes(y, x) /\ ~Precedes(x, y))
    BY <1>2, <1>5 DEF Precedes, Larger
  <2>2. \A z \in pending : Precedes(z, x) /\ Precedes(x, y) => Precedes(z, y)
    BY <1>2 DEF Precedes, Larger
  <2>3. \A z \in pending : Precedes(z, y) /\ Precedes(y, x) => Precedes(z, x)
    BY <1>2 DEF Precedes, Larger
  <2>4. \A z \in pending : /\ z \in below[x] <=> z = x \/ Precedes(z, x)
                           /\ z \in below[y] <=> z = y \/ Precedes(z, y)
    OBVIOUS
  <2>5. below[x] \subseteq pending /\ below[y] \subseteq pending
    OBVIOUS
  <2> HIDE DEF below
  <2>6. CASE Precedes(x, y) /\ ~Precedes(y, x)
    BY <2>2, <2>4, <2>5, <2>6, <1>5, Zenon
  <2>7. CASE Precedes(y, x) /\ ~Precedes(x, y)
    BY <2>3, <2>4, <2>5, <2>7, <1>5, Zenon
  <2> QED BY <2>1, <2>6, <2>7
<1>6. \A j, i \in pending : j \in below[i] <=> j = i \/ Precedes(j, i)
  OBVIOUS
<1> HIDE DEF below
<1>7. /\ n \in Nat
      /\ \A x \in pending : Cardinality(below[x]) \in 1 .. n
      /\ \A k \in 1 .. n : \E x \in pending : Cardinality(below[x]) = k
      /\ \A x, y \in pending : x \notin below[y] => Cardinality(below[y]) < Cardinality(below[x])
  BY <1>3, <1>4, <1>5, RankFact
<1>8. PICK i \in pending : Cardinality(below[i]) = 1
  <2>1. PICK x \in pending : TRUE
    OBVIOUS
  <2>2. 1 \in 1 .. n
    BY <2>1, <1>7
  <2> QED BY <2>2, <1>7
<1>9. \A j \in pending \ {i} : Precedes(i, j)
  <2> TAKE j \in pending \ {i}
  <2>1. ~(Cardinality(below[j]) < Cardinality(below[i]))
    BY <1>7, <1>8
  <2>2. i \in below[j]
    BY <2>1, <1>7
  <2> QED BY <2>2, <1>6
<1>10. NextEntry = CHOOSE k \in pending : \A j \in pending \ {k} : Precedes(k, j)
  BY DEF NextEntry, Precedes
<1> QED BY <1>9, <1>10

\* Recording a walk adds to the classes.
LEMMA RecordSized ==
  ASSUME WalkInv, Headed, Sized, Record
  PROVE  Sized'
<1> DEFINE full == [i \in DOMAIN path1 |-> PathNodeHash(i)]
           k == SingleEntryLength
           c == ClassOf(full \o SubSeq(full, 1, k))
           p == SubSeq(path1, 1, k)
           q == SubSeq(path2, 1, k)
           table == pathPerNodeHash
           T == Seq(Node)
<1>1. /\ pc = "done" /\ table' = IF k > 1 THEN Enter(table, c, p, q) ELSE table
      /\ UNCHANGED <<order, size_dic>>
  BY Zenon DEF Record
<1>2. path1 \in Seq(Node) /\ path2 \in Seq(Node) /\ Len(path1) = Len(path2) /\ path1 # <<>>
  BY <1>1 DEF WalkInv, WalkType, InStep, Headed
<1>3. k \in 1 .. Len(path1)
  BY <1>2, EntryLength
<1> HIDE DEF k, c
<1>4. p \in T /\ q \in T
  BY <1>2, <1>3
<1>5. CASE ~(k > 1)
  <2>1. UNCHANGED <<pathPerNodeHash, order, size_dic>>
    BY <1>1, <1>5
  <2> QED BY <2>1 DEF Sized
<1>6. CASE k > 1
  <2>1. table' = Enter(table, c, p, q)
    BY <1>1, <1>6
  <2>2. \A d \in DOMAIN table : table[d] \in Seq(T) /\ table[d] # <<>>
    BY DEF Sized
  <2> HIDE DEF T, p, q
  <2>3. Entered(Enter(table, c, p, q), table, c, p, q, T)
    BY <2>2, <1>4, EnterFact
  <2>4. /\ DOMAIN table' = DOMAIN table \cup {c} /\ \A d \in DOMAIN table : d # c => table'[d] = table[d]
        /\ table'[c] \in Seq(T) /\ p \in Elems(table'[c])
    BY <2>1, <2>3 DEF Entered
  <2>5. table'[c] # <<>>
    BY <2>4 DEF Elems
  <2>6. IsFiniteSet(DOMAIN table')
    <3>1. IsFiniteSet(DOMAIN table \cup {c})
      BY FS_AddElement DEF Sized
    <3> QED BY <3>1, <2>4, Zenon
  <2>7. \A d \in DOMAIN table' : table'[d] \in Seq(T) /\ table'[d] # <<>>
    BY <2>2, <2>4, <2>5
  <2>8. order \in Seq(DOMAIN table') /\ size_dic \in Seq(DOMAIN table')
    BY <2>4 DEF Sized
  <2> QED BY <2>6, <2>7, <2>8, <1>1 DEF Sized, T
<1> QED BY <1>5, <1>6

\* Every class is entered, and by the first analysis once.
LEMMA IterationsFact ==
  ASSUME Sized, NEW s \in Iterations
  PROVE  /\ s \in Seq(DOMAIN pathPerNodeHash)
         /\ order = <<>> => \A i, j \in DOMAIN s : i # j => s[i] # s[j]
<1> DEFINE C == DOMAIN pathPerNodeHash
           n == Cardinality(C)
<1>0. IsFiniteSet(C) /\ n \in Nat
  BY FS_CardinalityType DEF Sized
<1>1. CASE Elems(order) = C
  <2>1. s = order
    BY <1>1, Zenon DEF Iterations
  <2> QED BY <2>1 DEF Sized
<1>2. CASE Elems(order) # C
  <2>1. s \in [1 .. n -> C] /\ Elems(s) = C
    BY <1>2, Zenon DEF Iterations
  <2> HIDE DEF C, n
  <2>2. s \in Surjection(1 .. n, C)
    <3>1. \A x \in C : \E i \in 1 .. n : s[i] = x
      BY <2>1 DEF Elems
    <3> QED BY <2>1, <3>1 DEF Surjection
  <2>3. IsFiniteSet(1 .. n) /\ Cardinality(1 .. n) = n
    BY <1>0, FS_Interval
  <2>4. s \in Injection(1 .. n, C)
    <3>1. Cardinality(1 .. n) = Cardinality(C)
      BY <2>3 DEF n
    <3> QED BY <3>1, <2>2, <2>3, FS_Surjection
  <2>5. \A i, j \in 1 .. n : s[i] = s[j] => i = j
    BY <2>4, Zenon DEF Injection, IsInjective
  <2>6. s \in Seq(C) /\ DOMAIN s = 1 .. n
    BY <2>1, <1>0
  <2> QED BY <2>5, <2>6 DEF C
<1> QED BY <1>1, <1>2

\* Sorting enters classes that are there.
LEMMA SortSized ==
  ASSUME Sized, Sort
  PROVE  Sized'
<1>1. order' \in Iterations /\ size_dic' = size_dic \o order' /\ pathPerNodeHash' = pathPerNodeHash
  BY Zenon DEF Sort
<1>2. order' \in Seq(DOMAIN pathPerNodeHash) /\ size_dic \in Seq(DOMAIN pathPerNodeHash)
  BY <1>1, IterationsFact DEF Sized
<1> QED BY <1>1, <1>2 DEF Sized

\* The tables are empty at first.
LEMMA SizedInit == Init => Headed /\ Sized
<1> SUFFICES ASSUME Init PROVE Headed /\ Sized
  OBVIOUS
<1>1. pathPerNodeHash = Empty /\ order = <<>> /\ size_dic = <<>> /\ pc = "ready"
  BY DEF Init, WalkInit
<1>2. DOMAIN Empty = {} /\ IsFiniteSet({})
  BY FS_EmptySet DEF Empty
<1>3. Sized
  BY <1>1, <1>2 DEF Sized
<1> QED BY <1>1, <1>3 DEF Headed

\* Only Record adds to the table, and only Sort to the lists of its classes.
LEMMA SizedStep == Inv /\ Headed /\ Sized /\ [Next]_vars => Headed' /\ Sized'
<1> SUFFICES ASSUME Inv, Headed, Sized, [Next]_vars PROVE Headed' /\ Sized'
  OBVIOUS
<1>0. WalkInv
  BY DEF Inv
<1>1. Headed'
  BY <1>0, StepWalks, HeadedStep
<1>2. ASSUME UNCHANGED <<pathPerNodeHash, order, size_dic>> PROVE Sized'
  BY <1>2 DEF Sized
<1>3. CASE UNCHANGED vars
  <2>1. UNCHANGED <<pathPerNodeHash, order, size_dic>>
    BY <1>3 DEF vars, tables
  <2> QED BY <2>1, <1>1, <1>2
<1>4. ASSUME NEW f \in DOMAIN program, Analyze(f) PROVE Sized'
  <2>1. UNCHANGED <<pathPerNodeHash, order, size_dic>>
    BY <1>4, Zenon DEF Analyze
  <2> QED BY <2>1, <1>2
<1>5. CASE (\E x \in todo : NextHash(x)) \/ NextPair \/ Walk
  <2>1. UNCHANGED <<pathPerNodeHash, order, size_dic>>
    BY <1>5 DEF NextHash, NextPair, Walk, tables
  <2> QED BY <2>1, <1>1, <1>2
<1>6. CASE Record
  BY <1>0, <1>1, <1>6, RecordSized
<1>7. CASE Sort
  BY <1>1, <1>7, SortSized
<1>8. CASE Normalize \/ Return \/ RaisedInWalk \/ RaisedInNormalize
  <2>1. UNCHANGED <<pathPerNodeHash, order, size_dic>>
    <3>1. CASE Normalize
      BY <3>1, Zenon DEF Normalize
    <3>2. CASE Return
      BY <3>2, Zenon DEF Return, tables
    <3>3. CASE RaisedInWalk
      BY <3>3, Zenon DEF RaisedInWalk, tables
    <3>4. CASE RaisedInNormalize
      BY <3>4, Zenon DEF RaisedInNormalize
    <3> QED BY <1>8, <3>1, <3>2, <3>3, <3>4
  <2> QED BY <2>1, <1>1, <1>2
<1> QED BY <1>1, <1>3, <1>4, <1>5, <1>6, <1>7, <1>8 DEF Next, Step

-----------------------------------------------------------------------------
(* What a walk finds is a function of the pair it starts from *)

State(p, q, c, l, a, b, k, v, u, t) ==
    [pc |-> p, q1 |-> q, cur |-> c, ls |-> l, path1 |-> a, path2 |-> b, kinds |-> k,
     visited1 |-> v, visited2 |-> u, tmp_visited2 |-> t]

\* Where the walk is.
Now == State(pc, q1, cur, ls, path1, path2, kinds, visited1, visited2, tmp_visited2)

\* Where a walk of the pair e starts.
StartOf(e) ==
    State(IF e[1] \in blocks THEN "dequeue" ELSE "raised", <<<<e[1], e[2]>>>>, <<e[1], e[2]>>, <<>>,
          <<e[1]>>, <<e[2]>>, <<"hash_itype2">>, {}, {}, {})

\* Eligible, Hits, Tried, Raises and Skipped for the next successor in the state w.
EligibleAt(w) ==
    {k \in DOMAIN Succs(w.cur[2]) : /\ Succs(w.cur[2])[k] \notin w.visited2 /\ Succs(w.cur[2])[k] # w.cur[2]
                                    /\ Succs(w.cur[2])[k] \notin Elems(w.path2)}
HitsAt(w, t) ==
    {k \in EligibleAt(w) : /\ Succs(w.cur[2])[k] # Head(w.ls)
                           /\ <<Head(w.ls), Succs(w.cur[2])[k]>> \in sim[t]}
TriedAt(w, t) == {k \in EligibleAt(w) : \A j \in HitsAt(w, t) : k <= j}
RaisesAt(w) ==
    \/ Succs(w.cur[2]) = <<>>
    \/ /\ \A t \in Before("freq") : HitsAt(w, t) = {}
       /\ \E k \in TriedAt(w, "freq") : Head(w.ls) \in void \/ Succs(w.cur[2])[k] \in void
SkippedAt(w) == Head(w.ls) \in w.visited1 \/ Head(w.ls) = w.cur[1] \/ Head(w.ls) \in Elems(w.path1)

\* The first hash type by which something matches.
KindAt(w) ==
    IF HitsAt(w, "hash_itype1") # {} THEN "hash_itype1"
    ELSE IF HitsAt(w, "hash_itype2") # {} THEN "hash_itype2"
    ELSE IF HitsAt(w, "freq") # {} THEN "freq" ELSE "none"

\* The match with the k-th successor by the hash type t.
Matched(w, t, k) ==
    State(w.pc, Append(w.q1, <<Head(w.ls), Succs(w.cur[2])[k]>>), w.cur, Tail(w.ls),
          Append(w.path1, Head(w.ls)), Append(w.path2, Succs(w.cur[2])[k]), Append(w.kinds, t),
          w.visited1 \cup {Head(w.ls)}, w.visited2 \cup {Succs(w.cur[2])[k]},
          w.tmp_visited2 \cup {Succs(w.cur[2])[j] : j \in UNION {TriedAt(w, u) : u \in Before(t) \cup {t}}})

\* One of the steps from the state w in which a successor is at hand.
VisitOf(w) ==
    IF SkippedAt(w) THEN
        State(w.pc, w.q1, w.cur, Tail(w.ls), w.path1, w.path2, w.kinds, w.visited1, w.visited2, w.tmp_visited2)
    ELSE IF RaisesAt(w) THEN
        State("raised", w.q1, w.cur, w.ls, w.path1, w.path2, w.kinds, w.visited1, w.visited2, w.tmp_visited2)
    ELSE IF KindAt(w) = "none" THEN
        State(w.pc, w.q1, w.cur, Tail(w.ls), w.path1, w.path2, w.kinds, w.visited1 \cup {Head(w.ls)}, w.visited2,
              w.tmp_visited2 \cup {Succs(w.cur[2])[k] : k \in EligibleAt(w)})
    ELSE Matched(w, KindAt(w), Least(HitsAt(w, KindAt(w))))

\* The state after w; a walk that is over stays where it is.
NextOf(w) ==
    IF w.pc = "visit" THEN
        IF w.ls # <<>> THEN VisitOf(w)
        ELSE State("dequeue", w.q1, w.cur, w.ls, w.path1, w.path2, w.kinds, w.visited1,
                   w.visited2 \cup w.tmp_visited2, w.tmp_visited2)
    ELSE IF w.pc = "dequeue" THEN
        IF w.q1 # <<>> THEN State("visit", Tail(w.q1), Head(w.q1), Succs(Head(w.q1)[1]), w.path1, w.path2, w.kinds,
                                  w.visited1, w.visited2, {})
        ELSE State("done", w.q1, w.cur, w.ls, w.path1, w.path2, w.kinds, w.visited1, w.visited2, w.tmp_visited2)
    ELSE w

\* t are the states of a walk of the pair e, n steps long.
Trace(t, n, e) ==
    /\ DOMAIN t = 0 .. n /\ t[0] = StartOf(e)
    /\ \A i \in 0 .. n : i < n => t[i + 1] = NextOf(t[i])

\* A walk of the pair e is at some time in the state w.
Reaches(e, w) == \E n, t : n \in Nat /\ Trace(t, n, e) /\ t[n] = w

-----------------------------------------------------------------------------
(* What Record enters for it *)

\* PathNodeHash, SingleEntryLength and the class for the walk that ended in w.
HashAt(w, i) ==
    <<w.kinds[i], CASE w.kinds[i] = "hash_itype1" -> hash_itype1(Code(w.path1[i]))
                    [] w.kinds[i] = "hash_itype2" -> hash_itype2(Code(w.path1[i]))
                    [] w.kinds[i] = "freq" -> Common(Code(w.path1[i]), Code(w.path2[i]))>>
FullOf(w) == [i \in DOMAIN w.path1 |-> HashAt(w, i)]
LengthOf(w) ==
    CHOOSE k \in 1 .. Len(w.path1) :
        /\ EntryAtHead(SubSeq(w.path1, 1, k))
        /\ \A j \in (k + 1) .. Len(w.path1) : ~EntryAtHead(SubSeq(w.path1, 1, j))
KeyOf(x, w) == <<x, FullOf(w) \o SubSeq(FullOf(w), 1, LengthOf(w))>>

\* The two single-entry paths of the walk are in the class they belong to.
Stored(x, w) ==
    LengthOf(w) > 1 => /\ SubSeq(w.path1, 1, LengthOf(w)) \in PathsOf(pathPerNodeHash, KeyOf(x, w))
                       /\ SubSeq(w.path2, 1, LengthOf(w)) \in PathsOf(pathPerNodeHash, KeyOf(x, w))

\* The walk of the pair e of the hash x comes to its end and is in the table.
Filed(x, e) == \E w : Reaches(e, w) /\ w.pc = "done" /\ Stored(x, w)

\* The pairs of blocks that have the hash x.
PairsAt(x) == Elems(PairsOf(M[x]))

AllFiled == \A x \in DOMAIN M : \A e \in PairsAt(x) : Filed(x, e)

\* The walk of some pair ends in an exception.
Failed == \E x \in DOMAIN M : \E e \in PairsAt(x) : \E w : Reaches(e, w) /\ w.pc = "raised"

\* The pair at work.
AtWork == <<path1[1], path2[1]>>

\* The pair e of the hash at work is to come, or at work.
Coming(x, e) == x = head /\ (e \in Elems(pairs) \/ (pc # "ready" /\ e = AtWork))

\* The pairs of the hashes that are not to come are in the table, but for those
\* of the hash at work that are to come, or at work.
Progress ==
    /\ \A x \in (DOMAIN M) \ todo : \A e \in PairsAt(x) :
          Filed(x, e) \/ Coming(x, e)
    /\ pairs # <<>> \/ pc # "ready" => head \in (DOMAIN M) \ todo
    /\ pairs # <<>> => Elems(pairs) \subseteq PairsAt(head)
    /\ pc # "ready" => AtWork \in PairsAt(head) /\ Reaches(AtWork, Now)

\* Every block that shares its hash is in the list of the hash.
AllTwins ==
    \A n \in blocks : Cardinality({m \in blocks : hash_itype2(Code(m)) = hash_itype2(Code(n))}) > 1 =>
        hash_itype2(Code(n)) \in DOMAIN M /\ n \in Elems(M[hash_itype2(Code(n))])

\* The graph is all that of the function asked about last.
Drawn == succs = program[fn].succs /\ void = {n \in blocks : Code(n) = <<>>}

\* The single-entry paths are of blocks of the graph.
Inside == \A c \in DOMAIN pathPerNodeHash : \A p \in Elems(pathPerNodeHash[c]) : Elems(p) \subseteq blocks

-----------------------------------------------------------------------------
(* What the normalization makes of the table *)

\* The classes that are large enough.
Big == {c \in DOMAIN pathPerNodeHash : SizeOf(c) >= MinSize}

\* The class c is taken before d, by the order the table is iterated in.
Ahead(c, d) ==
    SizeOf(c) > SizeOf(d) \/ (SizeOf(c) = SizeOf(d) /\ \E i, j \in DOMAIN order : i < j /\ order[i] = c /\ order[j] = d)

\* p lies in an instance that the table N has of the class c.
Within(N, c, p) == \E q \in PathsOf(N, c) : Elems(p) \subseteq Elems(q)

\* The places of the paths of d that lie in no instance of a class taken before.
FreeOf(N, d) ==
    {i \in DOMAIN pathPerNodeHash[d] : \A c \in Big : Ahead(c, d) => ~Within(N, c, pathPerNodeHash[d][i])}

\* The instances of the class d that are returned: what is free, when the class
\* has one entry and two are free. The table N has them.
Wanted(N, d) ==
    IF EntryAtHead(pathPerNodeHash[d][1]) /\ Cardinality(FreeOf(N, d)) >= 2
    THEN {pathPerNodeHash[d][i] : i \in FreeOf(N, d)} ELSE {}
Right(N, d) == PathsOf(N, d) = Wanted(N, d)

\* Every class has one place in the order, and the entries by size begin with
\* them; what follows was entered before.
Sorted ==
    /\ Elems(order) = DOMAIN pathPerNodeHash
    /\ \A i, j \in DOMAIN order : i # j => order[i] # order[j]
    /\ \A i \in DOMAIN order : i \in DOMAIN size_dic /\ size_dic[i] = order[i]
    /\ \A i \in DOMAIN size_dic : \E j \in DOMAIN order : j <= i /\ order[j] = size_dic[i]

\* The instances are of large classes, and a class has none or two.
Listed ==
    /\ DOMAIN normalizedPathPerNodeHash \subseteq Big
    /\ \A c \in Big : c \in DOMAIN normalizedPathPerNodeHash =>
          /\ normalizedPathPerNodeHash[c] \in Seq(Seq(Node))
          /\ normalizedPathPerNodeHash[c] = <<>> \/ Len(normalizedPathPerNodeHash[c]) >= 2

\* The entries and the classes taken so far.
TakenAt == {i \in DOMAIN size_dic : size_dic[i] \in Big /\ i \notin pending}
Took == {size_dic[i] : i \in TakenAt}

\* The normalization of a call: what was taken is right, and has moved.
Normalizing ==
    /\ pending \subseteq {i \in DOMAIN size_dic : size_dic[i] \in Big}
    /\ \A i \in TakenAt, j \in pending : Precedes(i, j)
    /\ \A s : s \in moved <=> \E c \in Took : \E q \in PathsOf(normalizedPathPerNodeHash, c) : s = Elems(q)
    /\ \A c \in Took : Right(normalizedPathPerNodeHash, c)
    /\ answers = <<>> => DOMAIN normalizedPathPerNodeHash \subseteq Took

\* The answer says what the table of instances has.
Agrees(got) ==
    \A c : /\ c \in DOMAIN got <=> PathsOf(normalizedPathPerNodeHash, c) # {}
           /\ PathsOf(got, c) = PathsOf(normalizedPathPerNodeHash, c)

\* From the first answer on all is as it was.
Settled ==
    /\ AllFiled /\ Sorted /\ Listed
    /\ \A c \in Big : Right(normalizedPathPerNodeHash, c)
    /\ \A k \in DOMAIN answers : Agrees(answers[k].got)

\* No call came to an end.
Empties == Failed /\ \A k \in DOMAIN answers : answers[k].got = Empty

Again ==
    /\ Drawn /\ AllTwins /\ Inside
    /\ phase = "pairs" => Progress
    /\ phase = "normalize" => AllFiled /\ Sorted /\ Listed /\ Normalizing
    /\ answers = <<>> /\ phase = "pairs" => order = <<>> /\ size_dic = <<>> /\ normalizedPathPerNodeHash = Empty
    /\ answers # <<>> => Settled \/ Empties

\* The invariant of analyses of one function.
Steady ==
    /\ M = [x \in DOMAIN M |-> M[x]]
    /\ pathPerNodeHash = [c \in DOMAIN pathPerNodeHash |-> pathPerNodeHash[c]]
    /\ ~Started => pathPerNodeHash = Empty /\ order = <<>> /\ size_dic = <<>> /\ normalizedPathPerNodeHash = Empty
    /\ Started /\ OneFunction => Again

-----------------------------------------------------------------------------
(* The walk takes the steps of NextOf *)

\* The fields of the state at hand are the variables.
LEMMA NowIs ==
  /\ Now.pc = pc /\ Now.q1 = q1 /\ Now.cur = cur /\ Now.ls = ls /\ Now.path1 = path1 /\ Now.path2 = path2
  /\ Now.kinds = kinds /\ Now.visited1 = visited1 /\ Now.visited2 = visited2 /\ Now.tmp_visited2 = tmp_visited2
BY DEF Now, State

\* What is looked up in the state at hand is what the walk looks up.
LEMMA AtNow ==
  /\ EligibleAt(Now) = Eligible(cur[2])
  /\ \A t : HitsAt(Now, t) = Hits(Head(ls), cur[2], t) /\ TriedAt(Now, t) = Tried(Head(ls), cur[2], t)
  /\ RaisesAt(Now) <=> Raises(Head(ls), cur[2])
  /\ SkippedAt(Now) <=> Skipped(Head(ls))
<1>1. EligibleAt(Now) = Eligible(cur[2])
  BY NowIs DEF EligibleAt, Eligible
<1>2. \A t : HitsAt(Now, t) = Hits(Head(ls), cur[2], t)
  BY NowIs, <1>1 DEF HitsAt, Hits
<1>3. \A t : TriedAt(Now, t) = Tried(Head(ls), cur[2], t)
  BY <1>1, <1>2 DEF TriedAt, Tried
<1>4. RaisesAt(Now) <=> Raises(Head(ls), cur[2])
  BY NowIs, <1>2, <1>3 DEF RaisesAt, Raises
<1>5. SkippedAt(Now) <=> Skipped(Head(ls))
  BY NowIs DEF SkippedAt, Skipped
<1> QED BY <1>1, <1>2, <1>3, <1>4, <1>5

\* The hash type a successor matches by is the first by which something does.
LEMMA KindFact ==
  ASSUME NEW w, NEW t \in HashTypes, HitsAt(w, t) # {}, \A u \in Before(t) : HitsAt(w, u) = {}
  PROVE  KindAt(w) = t /\ KindAt(w) # "none"
<1>1. CASE t = "hash_itype1"
  BY <1>1 DEF KindAt
<1>2. CASE t = "hash_itype2"
  BY <1>2 DEF KindAt, Before
<1>3. CASE t = "freq"
  BY <1>3 DEF KindAt, Before
<1> QED BY <1>1, <1>2, <1>3 DEF HashTypes

\* A match is with the first successor that matches.
LEMMA MatchIsNext ==
  ASSUME WalkType, NEW t \in HashTypes, MatchSucc(t)
  PROVE  Now' = VisitOf(Now)
<1> DEFINE l == Head(ls)
           y == cur[2]
           S == Hits(l, y, t)
<1>1. /\ pc = "visit" /\ ls # <<>> /\ ~Skipped(l) /\ ~Raises(l, y)
      /\ \A u \in Before(t) : Hits(l, y, u) = {}
      /\ visited1' = visited1 \cup {l} /\ path1' = Append(path1, l) /\ kinds' = Append(kinds, t)
      /\ tmp_visited2' = tmp_visited2 \cup {Succs(y)[k] : k \in UNION {Tried(l, y, u) : u \in Before(t) \cup {t}}}
      /\ ls' = Tail(ls) /\ pc' = pc /\ cur' = cur
  BY Zenon DEF MatchSucc
<1>2. PICK k \in S \cap Tried(l, y, t) :
         /\ visited2' = visited2 \cup {Succs(y)[k]}
         /\ path2' = Append(path2, Succs(y)[k])
         /\ q1' = Append(q1, <<l, Succs(y)[k]>>)
  BY Zenon DEF MatchSucc
<1>3. S \in SUBSET Nat
  <2>1. DOMAIN Succs(y) \subseteq Nat
    BY SuccsType
  <2> QED BY <2>1 DEF Hits, Eligible
<1>4. k \in S /\ \A j \in S : k <= j
  BY <1>2 DEF Tried
<1> HIDE DEF S
<1>5. Least(S) = k
  <2>1. Least(S) \in S /\ \A j \in S : Least(S) <= j
    BY <1>3, <1>4, LeastFact
  <2>2. Least(S) \in Nat /\ k \in Nat /\ k <= Least(S) /\ Least(S) <= k
    BY <2>1, <1>3, <1>4
  <2> QED BY <2>2
<1>6. KindAt(Now) = t /\ KindAt(Now) # "none"
  <2>1. HitsAt(Now, t) # {} /\ \A u \in Before(t) : HitsAt(Now, u) = {}
    BY <1>1, <1>4, AtNow DEF S
  <2> QED BY <2>1, KindFact
<1>7. VisitOf(Now) = Matched(Now, t, k)
  <2>1. ~SkippedAt(Now) /\ ~RaisesAt(Now) /\ HitsAt(Now, t) = S
    BY <1>1, AtNow DEF S
  <2> QED BY <2>1, <1>5, <1>6 DEF VisitOf
<1>8. {Succs(Now.cur[2])[j] : j \in UNION {TriedAt(Now, u) : u \in Before(t) \cup {t}}}
        = {Succs(y)[j] : j \in UNION {Tried(l, y, u) : u \in Before(t) \cup {t}}}
  <2>1. \A u : TriedAt(Now, u) = Tried(l, y, u)
    BY AtNow
  <2>2. Now.cur = cur
    BY NowIs
  <2> QED BY <2>1, <2>2
<1>9. Matched(Now, t, k)
        = State(pc, Append(q1, <<l, Succs(y)[k]>>), cur, Tail(ls), Append(path1, l), Append(path2, Succs(y)[k]),
                Append(kinds, t), visited1 \cup {l}, visited2 \cup {Succs(y)[k]},
                tmp_visited2 \cup {Succs(y)[j] : j \in UNION {Tried(l, y, u) : u \in Before(t) \cup {t}}})
  BY <1>8, NowIs DEF Matched
<1>10. Now' = State(pc', q1', cur', ls', path1', path2', kinds', visited1', visited2', tmp_visited2')
  BY DEF Now, State
<1> QED BY <1>1, <1>2, <1>7, <1>9, <1>10

\* So does every step of the walk.
LEMMA WalkIsNext ==
  ASSUME WalkType, WalkStep
  PROVE  Now' = NextOf(Now)
<1>0. Now' = State(pc', q1', cur', ls', path1', path2', kinds', visited1', visited2', tmp_visited2')
  BY DEF Now, State
<1>1. CASE Dequeue
  <2>1. /\ pc = "dequeue" /\ q1 # <<>> /\ cur' = Head(q1) /\ q1' = Tail(q1) /\ ls' = Succs(Head(q1)[1])
        /\ tmp_visited2' = {} /\ pc' = "visit" /\ UNCHANGED <<path1, path2, kinds, visited1, visited2>>
    BY <1>1 DEF Dequeue
  <2>2. NextOf(Now) = State("visit", Tail(q1), Head(q1), Succs(Head(q1)[1]), path1, path2, kinds, visited1, visited2, {})
    BY <2>1, NowIs DEF NextOf
  <2> QED BY <2>1, <2>2, <1>0
<1>2. CASE EndWalk
  <2>1. /\ pc = "dequeue" /\ q1 = <<>> /\ pc' = "done"
        /\ UNCHANGED <<q1, cur, ls, path1, path2, kinds, visited1, visited2, tmp_visited2>>
    BY <1>2 DEF EndWalk
  <2>2. NextOf(Now) = State("done", q1, cur, ls, path1, path2, kinds, visited1, visited2, tmp_visited2)
    BY <2>1, NowIs DEF NextOf
  <2> QED BY <2>1, <2>2, <1>0
<1>3. CASE EndSuccs
  <2>1. /\ pc = "visit" /\ ls = <<>> /\ pc' = "dequeue" /\ visited2' = visited2 \cup tmp_visited2
        /\ UNCHANGED <<q1, cur, ls, path1, path2, kinds, visited1, tmp_visited2>>
    BY <1>3 DEF EndSuccs
  <2>2. NextOf(Now) = State("dequeue", q1, cur, ls, path1, path2, kinds, visited1, visited2 \cup tmp_visited2, tmp_visited2)
    BY <2>1, NowIs DEF NextOf
  <2> QED BY <2>1, <2>2, <1>0
<1>4. ASSUME pc = "visit", ls # <<>> PROVE NextOf(Now) = VisitOf(Now)
  BY <1>4, NowIs DEF NextOf
<1>5. CASE SkipSucc
  <2>1. /\ pc = "visit" /\ ls # <<>> /\ Skipped(Head(ls)) /\ ls' = Tail(ls)
        /\ UNCHANGED <<pc, q1, cur, path1, path2, kinds, visited1, visited2, tmp_visited2>>
    BY <1>5 DEF SkipSucc
  <2>2. VisitOf(Now) = State(pc, q1, cur, Tail(ls), path1, path2, kinds, visited1, visited2, tmp_visited2)
    BY <2>1, NowIs, AtNow DEF VisitOf
  <2> QED BY <2>1, <2>2, <1>0, <1>4
<1>6. CASE RaiseSucc
  <2>1. /\ pc = "visit" /\ ls # <<>> /\ ~Skipped(Head(ls)) /\ Raises(Head(ls), cur[2]) /\ pc' = "raised"
        /\ UNCHANGED <<q1, cur, ls, path1, path2, kinds, visited1, visited2, tmp_visited2>>
    BY <1>6 DEF RaiseSucc
  <2>2. VisitOf(Now) = State("raised", q1, cur, ls, path1, path2, kinds, visited1, visited2, tmp_visited2)
    BY <2>1, NowIs, AtNow DEF VisitOf
  <2> QED BY <2>1, <2>2, <1>0, <1>4
<1>7. CASE NoMatch
  <2>1. /\ pc = "visit" /\ ls # <<>> /\ ~Skipped(Head(ls)) /\ ~Raises(Head(ls), cur[2])
        /\ \A t \in HashTypes : Hits(Head(ls), cur[2], t) = {}
        /\ visited1' = visited1 \cup {Head(ls)} /\ ls' = Tail(ls)
        /\ tmp_visited2' = tmp_visited2 \cup {Succs(cur[2])[k] : k \in Eligible(cur[2])}
        /\ UNCHANGED <<pc, q1, cur, path1, path2, kinds, visited2>>
    BY <1>7 DEF NoMatch
  <2>2. KindAt(Now) = "none"
    BY <2>1, AtNow DEF KindAt, HashTypes
  <2>3. VisitOf(Now) = State(pc, q1, cur, Tail(ls), path1, path2, kinds, visited1 \cup {Head(ls)}, visited2,
                             tmp_visited2 \cup {Succs(cur[2])[k] : k \in Eligible(cur[2])})
    BY <2>1, <2>2, NowIs, AtNow DEF VisitOf
  <2> QED BY <2>1, <2>3, <1>0, <1>4
<1>8. ASSUME NEW t \in HashTypes, MatchSucc(t) PROVE Now' = NextOf(Now)
  <2>1. pc = "visit" /\ ls # <<>>
    BY <1>8, Zenon DEF MatchSucc
  <2>2. Now' = VisitOf(Now)
    BY <1>8, MatchIsNext
  <2> QED BY <2>1, <2>2, <1>4
<1> QED BY <1>1, <1>2, <1>3, <1>5, <1>6, <1>7, <1>8, Zenon DEF WalkStep

\* A walk is at its start.
LEMMA ReachesStart ==
  ASSUME NEW e
  PROVE  Reaches(e, StartOf(e))
<1> DEFINE t == [i \in 0 .. 0 |-> StartOf(e)]
<1>1. DOMAIN t = 0 .. 0 /\ t[0] = StartOf(e) /\ \A i \in 0 .. 0 : ~(i < 0)
  OBVIOUS
<1> HIDE DEF t
<1>2. Trace(t, 0, e)
  BY <1>1 DEF Trace
<1> QED BY <1>1, <1>2 DEF Reaches

\* Where a walk can be, it can take one more step.
LEMMA ReachesNext ==
  ASSUME NEW e, NEW w, Reaches(e, w)
  PROVE  Reaches(e, NextOf(w))
<1>1. PICK n, t : n \in Nat /\ Trace(t, n, e) /\ t[n] = w
  BY DEF Reaches
<1> DEFINE u == [i \in 0 .. (n + 1) |-> IF i <= n THEN t[i] ELSE NextOf(w)]
<1>2. /\ DOMAIN u = 0 .. (n + 1) /\ \A i \in 0 .. n : u[i] = t[i]
      /\ u[n + 1] = NextOf(w) /\ 0 \in 0 .. n /\ n + 1 \in Nat
  BY <1>1
<1> HIDE DEF u
<1>3. ASSUME NEW i \in 0 .. (n + 1), i < n + 1 PROVE u[i + 1] = NextOf(u[i])
  <2>1. i \in 0 .. n /\ (i = n \/ (i < n /\ i + 1 \in 0 .. n))
    BY <1>1, <1>3
  <2>2. CASE i = n
    BY <2>1, <2>2, <1>1, <1>2
  <2>3. CASE i < n /\ i + 1 \in 0 .. n
    <3>1. u[i + 1] = t[i + 1] /\ u[i] = t[i]
      BY <2>1, <2>3, <1>2
    <3>2. t[i + 1] = NextOf(t[i])
      BY <2>1, <2>3, <1>1 DEF Trace
    <3> QED BY <3>1, <3>2
  <2> QED BY <2>1, <2>2, <2>3
<1>4. u[0] = StartOf(e)
  BY <1>1, <1>2 DEF Trace
<1>5. Trace(u, n + 1, e)
  BY <1>2, <1>3, <1>4 DEF Trace
<1> QED BY <1>2, <1>5 DEF Reaches

\* A walk that is over stays where it is.
LEMMA OverStays ==
  ASSUME NEW w, w.pc \in {"done", "raised"}
  PROVE  NextOf(w) = w
BY DEF NextOf

\* The first place, of those up to n, of which P does not hold: before it P does.
LEMMA FirstWrong ==
  ASSUME NEW n \in Nat, NEW S \in SUBSET (0 .. n), S # {}
  PROVE  \E m \in S : m \in Nat /\ m <= n /\ (m = 0 \/ (m - 1 \in 0 .. n /\ m - 1 \notin S))
<1>1. S \in SUBSET Nat
  OBVIOUS
<1>2. Least(S) \in S /\ \A y \in S : Least(S) <= y
  BY <1>1, LeastFact
<1>3. PICK m \in S : \A y \in S : m <= y
  BY <1>2
<1>4. m \in Nat /\ m <= n
  OBVIOUS
<1>5. m = 0 \/ (m - 1 \in 0 .. n /\ m - 1 \notin S)
  BY <1>3, <1>4
<1> QED BY <1>4, <1>5

\* Two walks of one pair agree as long as both last.
LEMMA TracesAgree ==
  ASSUME NEW e, NEW n1 \in Nat, NEW n2 \in Nat, n1 <= n2, NEW t1, NEW t2, Trace(t1, n1, e), Trace(t2, n2, e)
  PROVE  \A i \in 0 .. n1 : t1[i] = t2[i]
<1> DEFINE S == {i \in 0 .. n1 : t1[i] # t2[i]}
<1> SUFFICES ASSUME S # {} PROVE FALSE
  OBVIOUS
<1>1. PICK m \in S : m \in Nat /\ m <= n1 /\ (m = 0 \/ (m - 1 \in 0 .. n1 /\ m - 1 \notin S))
  <2>1. S \in SUBSET (0 .. n1)
    OBVIOUS
  <2> HIDE DEF S
  <2> QED BY <2>1, FirstWrong
<1>2. CASE m = 0
  BY <1>1, <1>2 DEF Trace
<1>3. CASE m # 0
  <2>1. m - 1 \in 0 .. n1 /\ t1[m - 1] = t2[m - 1] /\ m - 1 < n1 /\ m - 1 \in 0 .. n2 /\ m - 1 < n2 /\ (m - 1) + 1 = m
    BY <1>1, <1>3
  <2>2. t1[m] = NextOf(t1[m - 1]) /\ t2[m] = NextOf(t2[m - 1])
    <3>1. t1[(m - 1) + 1] = NextOf(t1[m - 1])
      BY <2>1 DEF Trace
    <3>2. t2[(m - 1) + 1] = NextOf(t2[m - 1])
      BY <2>1 DEF Trace
    <3> QED BY <3>1, <3>2, <2>1
  <2> QED BY <1>1, <2>1, <2>2
<1> QED BY <1>2, <1>3

\* A trace that is longer than a walk that is over repeats its last state.
LEMMA TraceRests ==
  ASSUME NEW e, NEW n \in Nat, NEW k \in 0 .. n, NEW t, Trace(t, n, e), t[k].pc \in {"done", "raised"}
  PROVE  t[n] = t[k]
<1> DEFINE w == t[k]
           S == {i \in 0 .. n : i >= k /\ t[i] # w}
<1>0. NextOf(w) = w
  BY OverStays
<1> HIDE DEF w
<1> SUFFICES ASSUME n \in S PROVE FALSE
  BY DEF w
<1>1. PICK m \in S : m \in Nat /\ m <= n /\ (m = 0 \/ (m - 1 \in 0 .. n /\ m - 1 \notin S))
  <2>1. S \in SUBSET (0 .. n) /\ S # {}
    OBVIOUS
  <2> HIDE DEF S
  <2> QED BY <2>1, FirstWrong
<1>2. m # k /\ m > k
  BY <1>1 DEF w
<1>3. m - 1 \in 0 .. n /\ m - 1 < n /\ m - 1 >= k /\ (m - 1) + 1 = m
  BY <1>1, <1>2
<1>4. t[m - 1] = w
  BY <1>1, <1>2, <1>3
<1>5. t[(m - 1) + 1] = NextOf(t[m - 1])
  BY <1>3 DEF Trace
<1> QED BY <1>0, <1>1, <1>3, <1>4, <1>5

\* A walk of a pair ends in one state, whenever it is made.
LEMMA OneEnd ==
  ASSUME NEW e, NEW v, NEW w, Reaches(e, v), Reaches(e, w),
         v.pc \in {"done", "raised"}, w.pc \in {"done", "raised"}
  PROVE  v = w
<1>1. PICK n1, t1 : n1 \in Nat /\ Trace(t1, n1, e) /\ t1[n1] = v
  BY DEF Reaches
<1>2. PICK n2, t2 : n2 \in Nat /\ Trace(t2, n2, e) /\ t2[n2] = w
  BY DEF Reaches
<1>3. CASE n1 <= n2
  <2>1. n1 \in 0 .. n1 /\ n1 \in 0 .. n2
    BY <1>1, <1>2, <1>3
  <2>2. t1[n1] = t2[n1]
    BY <2>1, <1>1, <1>2, <1>3, TracesAgree
  <2>3. t2[n2] = t2[n1]
    BY <2>1, <2>2, <1>1, <1>2, TraceRests
  <2> QED BY <2>2, <2>3, <1>1, <1>2
<1>4. CASE n2 <= n1
  <2>1. n2 \in 0 .. n2 /\ n2 \in 0 .. n1
    BY <1>1, <1>2, <1>4
  <2>2. t1[n2] = t2[n2]
    BY <2>1, <1>1, <1>2, <1>4, TracesAgree
  <2>3. t1[n1] = t1[n2]
    BY <2>1, <2>2, <1>1, <1>2, TraceRests
  <2> QED BY <2>2, <2>3, <1>1, <1>2
<1> QED BY <1>1, <1>2, <1>3, <1>4

-----------------------------------------------------------------------------
(* Walking the pairs *)

\* The function at hand, its graph and its code stay.
LEMMA WalkSame ==
  ASSUME UNCHANGED <<program, fn, graph>>
  PROVE  /\ \A e, w : Reaches(e, w)' <=> Reaches(e, w)
         /\ \A s : EntryAtHead(s)' <=> EntryAtHead(s)
         /\ \A w : LengthOf(w)' = LengthOf(w)
         /\ \A x, w : KeyOf(x, w)' = KeyOf(x, w)
<1>0. blocks' = blocks /\ succs' = succs /\ sim' = sim /\ void' = void /\ program' = program /\ fn' = fn
  BY DEF graph
<1>1. \A n : Succs(n)' = Succs(n) /\ Code(n)' = Code(n)
  BY <1>0 DEF Succs, Code
<1>2. \A w : EligibleAt(w)' = EligibleAt(w)
  BY <1>1 DEF EligibleAt, Elems
<1>3. \A w, t : HitsAt(w, t)' = HitsAt(w, t)
  BY <1>0, <1>1, <1>2 DEF HitsAt
<1>4. \A w, t : TriedAt(w, t)' = TriedAt(w, t)
  BY <1>2, <1>3 DEF TriedAt
<1>5. \A w : RaisesAt(w)' <=> RaisesAt(w)
  BY <1>0, <1>1, <1>3, <1>4 DEF RaisesAt, Before
<1>6. \A w : SkippedAt(w)' <=> SkippedAt(w)
  BY DEF SkippedAt, Elems
<1>7. \A w : KindAt(w)' = KindAt(w)
  BY <1>3 DEF KindAt
<1>8. \A w, t, k : Matched(w, t, k)' = Matched(w, t, k)
  <2> SUFFICES ASSUME NEW w, NEW t, NEW k PROVE Matched(w, t, k)' = Matched(w, t, k)
    OBVIOUS
  <2>1. {Succs(w.cur[2])[j] : j \in UNION {TriedAt(w, u) : u \in Before(t) \cup {t}}}'
          = {Succs(w.cur[2])[j] : j \in UNION {TriedAt(w, u) : u \in Before(t) \cup {t}}}
    BY <1>1, <1>4
  <2> QED BY <1>1, <2>1, Zenon DEF Matched
<1>9. \A w : VisitOf(w)' = VisitOf(w)
  <2> SUFFICES ASSUME NEW w PROVE VisitOf(w)' = VisitOf(w)
    OBVIOUS
  <2>1. {Succs(w.cur[2])[k] : k \in EligibleAt(w)}' = {Succs(w.cur[2])[k] : k \in EligibleAt(w)}
    BY <1>1, <1>2
  <2>2. Matched(w, KindAt(w), Least(HitsAt(w, KindAt(w))))' = Matched(w, KindAt(w), Least(HitsAt(w, KindAt(w))))
    BY <1>3, <1>7, <1>8
  <2> QED BY <2>1, <2>2, <1>5, <1>6, <1>7 DEF VisitOf
<1>10. \A w : NextOf(w)' = NextOf(w)
  BY <1>1, <1>9 DEF NextOf, State
<1>11. \A e : StartOf(e)' = StartOf(e)
  BY <1>0 DEF StartOf, State
<1>12. \A t, n, e : Trace(t, n, e)' <=> Trace(t, n, e)
  BY <1>10, <1>11 DEF Trace
<1>13. \A e, w : Reaches(e, w)' <=> Reaches(e, w)
  BY <1>12, Zenon DEF Reaches
<1>14. \A n : Preds(n)' = Preds(n)
  BY <1>0 DEF Preds, Elems
<1>15. \A s : EntryAtHead(s)' <=> EntryAtHead(s)
  BY <1>14 DEF EntryAtHead, Elems
<1>16. \A w : LengthOf(w)' = LengthOf(w)
  BY <1>15 DEF LengthOf
<1>17. \A w, i : HashAt(w, i)' = HashAt(w, i)
  BY <1>1 DEF HashAt
<1>18. \A w : FullOf(w)' = FullOf(w)
  BY <1>17 DEF FullOf
<1>19. \A x, w : KeyOf(x, w)' = KeyOf(x, w)
  BY <1>16, <1>18 DEF KeyOf
<1> QED BY <1>13, <1>15, <1>16, <1>19

\* The lists of blocks stay.
LEMMA PairsSame ==
  ASSUME M' = M
  PROVE  \A x : PairsAt(x)' = PairsAt(x)
BY DEF PairsAt, Elems, PairsOf

\* Nothing is taken out of the classes of single-entry paths.
Grows == \A c : PathsOf(pathPerNodeHash, c) \subseteq PathsOf(pathPerNodeHash', c)

\* What is in the table stays in the table.
LEMMA FiledGrows ==
  ASSUME UNCHANGED <<program, fn, graph>>, Grows, NEW x, NEW e, Filed(x, e)
  PROVE  Filed(x, e)'
<1>1. PICK w : Reaches(e, w) /\ w.pc = "done" /\ Stored(x, w)
  BY DEF Filed
<1>2. Reaches(e, w)' /\ LengthOf(w)' = LengthOf(w) /\ KeyOf(x, w)' = KeyOf(x, w)
  BY <1>1, WalkSame
<1>3. \A c : PathsOf(pathPerNodeHash, c)' = PathsOf(pathPerNodeHash', c)
  BY DEF PathsOf, Elems
<1>4. Stored(x, w)'
  BY <1>1, <1>2, <1>3 DEF Stored, Grows
<1> QED BY <1>1, <1>2, <1>4, Zenon DEF Filed

\* What fails fails again.
LEMMA FailedStays ==
  ASSUME UNCHANGED <<program, fn, graph, M>>, Failed
  PROVE  Failed'
<1>1. \A x : PairsAt(x)' = PairsAt(x)
  BY PairsSame
<1>2. \A e, w : Reaches(e, w)' <=> Reaches(e, w)
  BY WalkSame
<1> QED BY <1>1, <1>2 DEF Failed

\* So does what is all in the table.
LEMMA AllFiledStays ==
  ASSUME UNCHANGED <<program, fn, graph, M>>, Grows, AllFiled
  PROVE  AllFiled'
<1>1. \A x : PairsAt(x)' = PairsAt(x)
  BY PairsSame
<1>2. ASSUME NEW x \in DOMAIN M, NEW e \in PairsAt(x) PROVE Filed(x, e)'
  BY FiledGrows DEF AllFiled
<1> QED BY <1>1, <1>2 DEF AllFiled

\* When all walks came to an end, none fails.
LEMMA FiledNotFailed ==
  ASSUME AllFiled
  PROVE  ~Failed
<1> SUFFICES ASSUME NEW x \in DOMAIN M, NEW e \in PairsAt(x), NEW w, Reaches(e, w), w.pc = "raised" PROVE FALSE
  BY DEF Failed
<1>1. PICK v : Reaches(e, v) /\ v.pc = "done"
  BY DEF AllFiled, Filed
<1>2. v = w
  BY <1>1, OneEnd
<1> QED BY <1>1, <1>2

\* Entering what is there changes nothing.
LEMMA EnterAgain ==
  ASSUME NEW T, NEW table, table = [c \in DOMAIN table |-> table[c]], NEW c \in DOMAIN table, table[c] \in Seq(T),
         NEW p \in Elems(table[c]), NEW q \in Elems(table[c])
  PROVE  Enter(table, c, p, q) = table
<1> DEFINE New(r) == IF r \in Elems(table[c]) THEN <<>> ELSE <<r>>
<1>1. Enter(table, c, p, q) = Put(table, c, table[c] \o New(p) \o New(q))
  BY Zenon DEF Enter
<1>2. New(p) = <<>> /\ New(q) = <<>>
  OBVIOUS
<1> HIDE DEF New
<1>3. \A s \in Seq(T) : s \o <<>> = s
  OBVIOUS
<1>4. table[c] \o New(p) \o New(q) = table[c]
  BY <1>2, <1>3
<1>5. DOMAIN table \cup {c} = DOMAIN table
  OBVIOUS
<1>6. Put(table, c, table[c]) = table
  BY <1>5 DEF Put
<1> QED BY <1>1, <1>4, <1>6

\* What Record does to the table, in terms of the state at hand.
LEMMA RecordNow ==
  ASSUME Record
  PROVE  /\ LengthOf(Now) = SingleEntryLength
         /\ pathPerNodeHash' =
              IF LengthOf(Now) > 1 THEN Enter(pathPerNodeHash, KeyOf(head, Now), SubSeq(path1, 1, LengthOf(Now)),
                                              SubSeq(path2, 1, LengthOf(Now)))
              ELSE pathPerNodeHash
<1> DEFINE full == [i \in DOMAIN path1 |-> PathNodeHash(i)]
           k == SingleEntryLength
<1>1. pathPerNodeHash' = IF k > 1 THEN Enter(pathPerNodeHash, ClassOf(full \o SubSeq(full, 1, k)), SubSeq(path1, 1, k), SubSeq(path2, 1, k))
                         ELSE pathPerNodeHash
  BY Zenon DEF Record
<1>2. LengthOf(Now) = k
  BY NowIs DEF LengthOf, SingleEntryLength
<1>3. \A i : HashAt(Now, i) = PathNodeHash(i)
  BY NowIs DEF HashAt, PathNodeHash
<1>4. FullOf(Now) = full
  BY NowIs, <1>3 DEF FullOf
<1> HIDE DEF k, full
<1>5. KeyOf(head, Now) = ClassOf(full \o SubSeq(full, 1, k))
  BY <1>2, <1>4 DEF KeyOf, ClassOf
<1> QED BY <1>1, <1>2, <1>5 DEF k

\* The walk that is over is entered, and when it was in the table nothing changes.
LEMMA RecordFiles ==
  ASSUME WalkInv, Headed, Sized, Record, pathPerNodeHash = [c \in DOMAIN pathPerNodeHash |-> pathPerNodeHash[c]]
  PROVE  /\ Grows
         /\ pathPerNodeHash' = [c \in DOMAIN pathPerNodeHash' |-> pathPerNodeHash'[c]]
         /\ \A x, w : x = head /\ w = Now => Stored(x, w)'
         /\ Stored(head, Now) => pathPerNodeHash' = pathPerNodeHash
         /\ \A c \in DOMAIN pathPerNodeHash' : \A p \in Elems(pathPerNodeHash'[c]) :
               p \in PathsOf(pathPerNodeHash, c) \/ Elems(p) \subseteq Elems(path1) \cup Elems(path2)
<1> DEFINE k == LengthOf(Now)
           c == KeyOf(head, Now)
           p == SubSeq(path1, 1, k)
           q == SubSeq(path2, 1, k)
           table == pathPerNodeHash
           T == Seq(Node)
<1>1. table' = IF k > 1 THEN Enter(table, c, p, q) ELSE table
  BY RecordNow
<1>2. path1 \in Seq(Node) /\ path2 \in Seq(Node) /\ Len(path1) = Len(path2) /\ path1 # <<>>
  <2>1. pc = "done"
    BY Zenon DEF Record
  <2> QED BY <2>1 DEF WalkInv, WalkType, InStep, Headed
<1>3. k \in 1 .. Len(path1)
  BY <1>2, EntryLength, RecordNow
<1>4. UNCHANGED <<program, fn, graph>>
  BY Zenon DEF Record, Reset
<1>5. \A x, w : KeyOf(x, w)' = KeyOf(x, w) /\ LengthOf(w)' = LengthOf(w)
  BY <1>4, WalkSame
<1> HIDE DEF k, c
<1>6. p \in T /\ q \in T /\ Elems(p) \subseteq Elems(path1) /\ Elems(q) \subseteq Elems(path2)
  <2>1. p \in T /\ q \in T
    BY <1>2, <1>3
  <2>2. \A i \in DOMAIN p : i \in DOMAIN path1 /\ p[i] = path1[i]
    BY <1>2, <1>3
  <2>3. \A i \in DOMAIN q : i \in DOMAIN path2 /\ q[i] = path2[i]
    BY <1>2, <1>3
  <2> HIDE DEF p, q
  <2>4. Elems(p) \subseteq Elems(path1)
    BY <2>2 DEF Elems
  <2>5. Elems(q) \subseteq Elems(path2)
    BY <2>3 DEF Elems
  <2> QED BY <2>1, <2>4, <2>5
<1>7. \A d : PathsOf(table, d)' = PathsOf(table', d)
  BY DEF PathsOf, Elems
<1>8. \A d \in DOMAIN table : table[d] \in Seq(T)
  BY DEF Sized
<1>9. ASSUME NEW x, NEW w, x = head, w = Now,
             k > 1 => p \in PathsOf(table', c) /\ q \in PathsOf(table', c)
      PROVE  Stored(x, w)'
  <2>1. KeyOf(x, w)' = c /\ LengthOf(w)' = k /\ w.path1 = path1 /\ w.path2 = path2
    BY <1>5, <1>9, NowIs DEF c, k
  <2> QED BY <2>1, <1>7, <1>9 DEF Stored
<1>10. CASE ~(k > 1)
  <2>1. table' = table
    BY <1>1, <1>10
  <2>2. \A d \in DOMAIN table' : \A r \in Elems(table'[d]) : r \in PathsOf(table, d)
    BY <2>1 DEF PathsOf
  <2> QED BY <2>1, <2>2, <1>9, <1>10 DEF Grows
<1>11. CASE k > 1
  <2>1. table' = Enter(table, c, p, q)
    BY <1>1, <1>11
  <2> HIDE DEF T, p, q
  <2>2. Entered(Enter(table, c, p, q), table, c, p, q, T)
    BY <1>6, <1>8, EnterFact
  <2>3. /\ DOMAIN table' = DOMAIN table \cup {c} /\ \A d \in DOMAIN table : d # c => table'[d] = table[d]
        /\ Elems(table'[c]) = PathsOf(table, c) \cup {p, q}
    BY <2>1, <2>2 DEF Entered
  <2>4. p \in PathsOf(table', c) /\ q \in PathsOf(table', c)
    BY <2>3 DEF PathsOf
  <2>5. Grows
    <3> SUFFICES ASSUME NEW d PROVE PathsOf(table, d) \subseteq PathsOf(table', d)
      BY DEF Grows
    <3>1. CASE d = c
      BY <3>1, <2>3 DEF PathsOf
    <3>2. CASE d # c
      BY <3>2, <2>3 DEF PathsOf
    <3> QED BY <3>1, <3>2
  <2>6. table' = [d \in DOMAIN table' |-> table'[d]]
    <3>1. \E L : table' = Put(table, c, L)
      BY <2>1 DEF Enter
    <3> QED BY <3>1 DEF Put
  <2>7. ASSUME Stored(head, Now) PROVE table' = table
    <3>1. p \in PathsOf(table, c) /\ q \in PathsOf(table, c)
      BY <2>7, <1>11, NowIs DEF Stored, c, k, p, q
    <3>2. c \in DOMAIN table /\ p \in Elems(table[c]) /\ q \in Elems(table[c]) /\ table[c] \in Seq(T)
      BY <3>1, <1>8 DEF PathsOf
    <3> QED BY <3>2, <2>1, EnterAgain
  <2>8. ASSUME NEW d \in DOMAIN table', NEW r \in Elems(table'[d])
        PROVE  r \in PathsOf(table, d) \/ Elems(r) \subseteq Elems(path1) \cup Elems(path2)
    <3>1. CASE d = c
      BY <3>1, <2>3, <1>6
    <3>2. CASE d # c
      BY <3>2, <2>3 DEF PathsOf
    <3> QED BY <3>1, <3>2
  <2> QED BY <2>4, <2>5, <2>6, <2>7, <2>8, <1>9
<1> QED BY <1>10, <1>11

\* The pairs of the next hash are all to come.
LEMMA ProgressNextHash ==
  ASSUME Inv, Progress, NEW y \in todo, NextHash(y)
  PROVE  Progress'
<1>1. /\ pc = "ready" /\ pairs = <<>> /\ y \in todo /\ todo' = todo \ {y} /\ head' = y /\ pairs' = PairsOf(M[y])
      /\ UNCHANGED <<svars, program, fn, M, pathPerNodeHash>>
  BY DEF NextHash, tables
<1>2. UNCHANGED <<program, fn, graph>> /\ pc' = pc /\ Grows
  BY <1>1 DEF svars, walk, Grows
<1>3. \A x : PairsAt(x)' = PairsAt(x)
  BY <1>1, PairsSame
<1>4. todo \subseteq DOMAIN M
  BY DEF Inv, HeadsAlike
<1>5. Elems(pairs') = PairsAt(y)
  BY <1>1 DEF PairsAt
<1>6. ASSUME NEW x \in (DOMAIN M') \ todo', NEW e \in PairsAt(x) PROVE (Filed(x, e) \/ Coming(x, e))'
  <2>1. CASE x = y
    <3>1. e \in Elems(pairs') /\ x = head'
      BY <2>1, <1>1, <1>5
    <3> QED BY <3>1 DEF Coming, Elems
  <2>2. CASE x # y
    <3>1. x \in (DOMAIN M) \ todo
      BY <2>2, <1>1
    <3>2. ~Coming(x, e)
      <4>1. Elems(<<>>) = {}
        BY DEF Elems
      <4> QED BY <4>1, <1>1 DEF Coming
    <3>3. Filed(x, e)
      BY <3>1, <3>2 DEF Progress
    <3> QED BY <3>3, <1>2, FiledGrows
  <2> QED BY <2>1, <2>2
<1>7. head' \in (DOMAIN M') \ todo'
  BY <1>1, <1>4
<1>8. Elems(pairs') = PairsAt(head)'
  <2>1. PairsAt(head)' = Elems(PairsOf(M'[head']))
    BY DEF PairsAt, Elems, PairsOf
  <2> QED BY <2>1, <1>1
<1>9. Elems(pairs)' = Elems(pairs')
  BY DEF Elems
<1> QED BY <1>1, <1>2, <1>3, <1>6, <1>7, <1>8, <1>9 DEF Progress

\* The pair that is next is at work.
LEMMA ProgressNextPair ==
  ASSUME Inv, Progress, NextPair
  PROVE  Progress'
<1> DEFINE e == Head(pairs)
<1>1. /\ pairs # <<>> /\ StartPair(e[1], e[2]) /\ pairs' = Tail(pairs)
      /\ UNCHANGED <<program, fn, M, pathPerNodeHash, todo, head>>
  BY DEF NextPair, tables
<1>2. UNCHANGED <<program, fn, graph>> /\ Grows /\ pc = "ready" /\ pc' # "ready"
  BY <1>1 DEF StartPair, Grows
<1>3. /\ e \in Node \X Node /\ e = pairs[1] /\ pairs' \in Seq(Node \X Node)
      /\ pairs \in Seq(Node \X Node) /\ Len(pairs) \in Nat /\ DOMAIN pairs = 1 .. Len(pairs)
      /\ \A i \in DOMAIN pairs' : i + 1 \in DOMAIN pairs /\ pairs'[i] = pairs[i + 1]
      /\ DOMAIN pairs' = 1 .. (Len(pairs) - 1) /\ 1 \in DOMAIN pairs
  <2>1. pairs \in Seq(Node \X Node)
    BY DEF Inv, HeadsAlike
  <2>2. /\ e \in Node \X Node /\ e = pairs[1] /\ pairs' \in Seq(Node \X Node) /\ 1 \in DOMAIN pairs
        /\ \A i \in DOMAIN pairs' : i + 1 \in DOMAIN pairs /\ pairs'[i] = pairs[i + 1]
    BY <2>1, <1>1, TailElems
  <2>3. DOMAIN pairs' = 1 .. (Len(pairs) - 1) /\ Len(pairs) \in Nat /\ DOMAIN pairs = 1 .. Len(pairs)
    BY <2>1, <1>1
  <2> QED BY <2>1, <2>2, <2>3
<1>4. /\ path1' = <<e[1]>> /\ path2' = <<e[2]>> /\ kinds' = <<"hash_itype2">>
      /\ pc' = (IF e[1] \in blocks THEN "dequeue" ELSE "raised")
      /\ q1' = <<<<e[1], e[2]>>>> /\ cur' = <<e[1], e[2]>> /\ ls' = <<>>
      /\ visited1' = {} /\ visited2' = {} /\ tmp_visited2' = {}
  BY <1>1 DEF StartPair
<1> HIDE DEF e
<1>5. AtWork' = e
  <2>1. path1'[1] = e[1] /\ path2'[1] = e[2] /\ e = <<e[1], e[2]>>
    BY <1>3, <1>4
  <2> QED BY <2>1 DEF AtWork
<1>6. Now' = StartOf(e)
  <2>1. Now' = State(pc', q1', cur', ls', path1', path2', kinds', visited1', visited2', tmp_visited2')
    BY DEF Now, State
  <2> QED BY <2>1, <1>4 DEF StartOf
<1>7. Reaches(AtWork, Now)'
  <2>1. PICK a, w : a = AtWork' /\ w = Now'
    OBVIOUS
  <2>2. Reaches(a, w)
    BY <2>1, <1>5, <1>6, ReachesStart
  <2>3. Reaches(a, w)'
    BY <2>2, <1>2, WalkSame
  <2> QED BY <2>1, <2>3, Zenon DEF Reaches
<1>8. \A x : PairsAt(x)' = PairsAt(x)
  BY <1>1, PairsSame
<1>9. PairsAt(head)' = PairsAt(head)
  BY <1>1 DEF PairsAt, Elems, PairsOf
<1>10. head \in (DOMAIN M) \ todo /\ Elems(pairs) \subseteq PairsAt(head)
  BY <1>1 DEF Progress
<1>11. Elems(pairs') \subseteq Elems(pairs) /\ e \in Elems(pairs) /\ \A d \in Elems(pairs) : d = e \/ d \in Elems(pairs')
  <2>1. Elems(pairs') \subseteq Elems(pairs) /\ e \in Elems(pairs)
    BY <1>3 DEF Elems
  <2>2. ASSUME NEW i \in DOMAIN pairs PROVE pairs[i] = e \/ pairs[i] \in Elems(pairs')
    <3>1. i = 1 \/ (i - 1 \in DOMAIN pairs' /\ (i - 1) + 1 = i)
      BY <1>3
    <3>2. CASE i = 1
      BY <3>2, <1>3
    <3>3. CASE i - 1 \in DOMAIN pairs' /\ (i - 1) + 1 = i
      <4>1. pairs'[i - 1] = pairs[i]
        BY <3>3, <1>3
      <4> QED BY <4>1, <3>3 DEF Elems
    <3> QED BY <3>1, <3>2, <3>3
  <2> QED BY <2>1, <2>2 DEF Elems
<1>12. Elems(pairs)' = Elems(pairs')
  BY DEF Elems
<1>13. ASSUME NEW x \in (DOMAIN M) \ todo, NEW d \in PairsAt(x) PROVE (Filed(x, d) \/ Coming(x, d))'
  <2>1. CASE Filed(x, d)
    BY <2>1, <1>2, FiledGrows
  <2>2. CASE Coming(x, d)
    <3>1. x = head' /\ d \in Elems(pairs)
      BY <2>2, <1>1, <1>2 DEF Coming
    <3>2. d = AtWork' \/ d \in Elems(pairs')
      BY <3>1, <1>5, <1>11
    <3> QED BY <3>1, <3>2, <1>2, <1>12 DEF Coming
  <2> QED BY <2>1, <2>2 DEF Progress
<1> QED BY <1>1, <1>2, <1>5, <1>7, <1>8, <1>9, <1>10, <1>11, <1>12, <1>13 DEF Progress

\* A step of the walk takes the pair at work one state on.
LEMMA ProgressWalk ==
  ASSUME Inv, Headed, Progress, Walk
  PROVE  Progress'
<1>1. WalkStep /\ UNCHANGED <<program, fn, M, pathPerNodeHash, todo, head, pairs>>
  BY DEF Walk, tables, locals
<1>2. UNCHANGED <<program, fn, graph>> /\ Grows /\ pc # "ready" /\ pc' # "ready"
  <2>1. UNCHANGED graph /\ pc # "ready" /\ pc' # "ready"
    BY <1>1 DEF WalkStep, Dequeue, SkipSucc, RaiseSucc, NoMatch, EndSuccs, EndWalk, MatchSucc
  <2> QED BY <1>1, <2>1 DEF Grows
<1>3. AtWork' = AtWork
  <2>1. Headed'
    <3>1. WalkInv /\ [WalkNext]_svars
      BY <1>1 DEF Inv, WalkNext
    <3> QED BY <3>1, HeadedStep
  <2>2. path1'[1] = path1[1] /\ path2'[1] = path2[1]
    BY <2>1, <1>1, <1>2, WalkHeads DEF Inv, Headed
  <2> QED BY <2>2 DEF AtWork
<1>4. Reaches(AtWork, Now)'
  <2>1. PICK a, w : a = AtWork /\ w = NextOf(Now)
    OBVIOUS
  <2>2. Reaches(a, w)
    BY <2>1, <1>2, ReachesNext DEF Progress
  <2>3. Reaches(a, w)'
    BY <2>2, <1>2, WalkSame
  <2>4. a = AtWork' /\ w = Now'
    BY <2>1, <1>1, <1>3, WalkIsNext DEF Inv, WalkInv
  <2> QED BY <2>3, <2>4, Zenon DEF Reaches
<1>5. \A x : PairsAt(x)' = PairsAt(x)
  BY <1>1, PairsSame
<1>6. PairsAt(head)' = PairsAt(head) /\ Elems(pairs)' = Elems(pairs)
  BY <1>1 DEF PairsAt, Elems, PairsOf
<1>7. ASSUME NEW x \in (DOMAIN M) \ todo, NEW d \in PairsAt(x) PROVE (Filed(x, d) \/ Coming(x, d))'
  <2>1. CASE Filed(x, d)
    BY <2>1, <1>2, FiledGrows
  <2>2. CASE Coming(x, d)
    BY <2>2, <1>1, <1>2, <1>3, <1>6 DEF Coming
  <2> QED BY <2>1, <2>2 DEF Progress
<1>8. /\ head' \in (DOMAIN M') \ todo' /\ AtWork' \in PairsAt(head)'
      /\ pairs' # <<>> => Elems(pairs)' \subseteq PairsAt(head)'
  BY <1>1, <1>2, <1>3, <1>6 DEF Progress
<1> QED BY <1>1, <1>4, <1>5, <1>7, <1>8 DEF Progress

\* A walk that is over is in the table.
LEMMA ProgressRecord ==
  ASSUME Inv, Headed, Sized, Progress, Record,
         pathPerNodeHash = [c \in DOMAIN pathPerNodeHash |-> pathPerNodeHash[c]]
  PROVE  Progress'
<1>1. pc = "done" /\ pc' = "ready" /\ UNCHANGED <<program, fn, graph, M, todo, head, pairs>>
  <2>1. pc = "done" /\ Reset /\ UNCHANGED <<program, fn, M, locals>>
    BY Zenon DEF Record
  <2> QED BY <2>1 DEF Reset, locals
<1>2. Grows /\ \A x, w : x = head /\ w = Now => Stored(x, w)'
  BY RecordFiles DEF Inv
<1>3. ASSUME NEW x, NEW e, x = head, e = AtWork PROVE Filed(x, e)'
  <2>1. PICK w : w = Now
    OBVIOUS
  <2>2. Reaches(e, w) /\ w.pc = "done"
    BY <2>1, <1>1, <1>3, NowIs DEF Progress
  <2>3. Reaches(e, w)' /\ Stored(x, w)'
    BY <2>1, <2>2, <1>1, <1>2, <1>3, WalkSame
  <2> QED BY <2>2, <2>3, Zenon DEF Filed
<1>4. \A x : PairsAt(x)' = PairsAt(x)
  BY <1>1, PairsSame
<1>5. PairsAt(head)' = PairsAt(head) /\ Elems(pairs)' = Elems(pairs)
  BY <1>1 DEF PairsAt, Elems, PairsOf
<1>7. ASSUME NEW x \in (DOMAIN M) \ todo, NEW d \in PairsAt(x) PROVE (Filed(x, d) \/ Coming(x, d))'
  <2>1. CASE Filed(x, d)
    BY <2>1, <1>1, <1>2, FiledGrows
  <2>2. CASE x = head /\ d = AtWork
    BY <2>2, <1>3
  <2>3. CASE x = head /\ d \in Elems(pairs)
    BY <2>3, <1>1, <1>5 DEF Coming
  <2> QED BY <2>1, <2>2, <2>3 DEF Progress, Coming
<1>8. /\ pairs' # <<>> => head' \in (DOMAIN M') \ todo'
      /\ pairs' # <<>> => Elems(pairs)' \subseteq PairsAt(head)'
  BY <1>1, <1>5 DEF Progress
<1> QED BY <1>1, <1>4, <1>7, <1>8 DEF Progress

\* When no hash and no pair is to come, all pairs are in the table.
LEMMA ProgressEnds ==
  ASSUME Progress, pc = "ready", todo = {}, pairs = <<>>
  PROVE  AllFiled
<1>1. Elems(<<>>) = {}
  BY DEF Elems
<1>2. \A x, e : ~Coming(x, e)
  BY <1>1 DEF Coming
<1> QED BY <1>2 DEF Progress, AllFiled

\* A walk that raised fails.
LEMMA ProgressFails ==
  ASSUME Progress, pc = "raised"
  PROVE  Failed
<1>1. PICK w : w = Now
  OBVIOUS
<1>2. head \in DOMAIN M /\ AtWork \in PairsAt(head) /\ Reaches(AtWork, w) /\ w.pc = "raised"
  BY <1>1, NowIs DEF Progress
<1> QED BY <1>2 DEF Failed

-----------------------------------------------------------------------------
(* Calling Analyze() again *)

\* A finite set of numbers in ascending order: all of them.
LEMMA AscendingAll ==
  ASSUME NEW B \in SUBSET Nat, IsFiniteSet(B)
  PROVE  /\ Elems(AscendingFrom(B)) = B
         /\ Cardinality(B) \in Nat /\ DOMAIN AscendingFrom(B) = 1 .. Cardinality(B)
<1> DEFINE n == Cardinality(B)
           s == AscendingFrom(B)
<1>1. s \in Seq(B) /\ \A i, j \in DOMAIN s : i # j => s[i] # s[j]
  BY AscendingFact
<1>2. n \in Nat /\ IsFiniteSet(1 .. n) /\ Cardinality(1 .. n) = n
  BY FS_CardinalityType, FS_Interval
<1>3. DOMAIN s = 1 .. n
  BY DEF AscendingFrom
<1> HIDE DEF s, n
<1>4. s \in [1 .. n -> B]
  <2>1. s \in [1 .. Len(s) -> B] /\ DOMAIN s = 1 .. Len(s)
    BY <1>1
  <2> QED BY <2>1, <1>3
<1>5. s \in Injection(1 .. n, B)
  <2>1. \A i, j \in 1 .. n : s[i] = s[j] => i = j
    BY <1>1, <1>3
  <2> QED BY <2>1, <1>4, Zenon DEF Injection, IsInjective
<1>6. s \in Surjection(1 .. n, B)
  <2>1. Cardinality(1 .. n) = Cardinality(B)
    BY <1>2 DEF n
  <2> QED BY <2>1, <1>2, <1>5, FS_Injection
<1>7. \A x \in B : \E i \in 1 .. n : s[i] = x
  BY <1>6 DEF Surjection
<1>8. Elems(s) = B
  BY <1>3, <1>4, <1>7 DEF Elems
<1> QED BY <1>2, <1>3, <1>8 DEF n, s

\* The blocks B that have the hash x by h.
TwinSet(h, B, x) == {n \in B : h[n] = x}

\* The first analysis lists every block that shares its hash.
LEMMA TwinsFirst ==
  ASSUME NEW B \in SUBSET Node, IsFiniteSet(B), NEW h, DOMAIN M = {},
         NEW n \in B, Cardinality(TwinSet(h, B, h[n])) > 1
  PROVE  h[n] \in DOMAIN hashBBMatch(h, B) /\ n \in Elems(hashBBMatch(h, B)[h[n]])
<1> DEFINE W(x) == {m \in B : h[m] = x}
           twins == {x \in {h[m] : m \in B} : Cardinality(W(x)) > 1}
<1>1. h[n] \in twins
  BY DEF TwinSet
<1>2. W(h[n]) \in SUBSET Nat /\ IsFiniteSet(W(h[n])) /\ n \in W(h[n])
  <2>1. W(h[n]) \in SUBSET B
    OBVIOUS
  <2> QED BY <2>1, FS_Subset, NodeAssumption
<1>3. Elems(AscendingFrom(W(h[n]))) = W(h[n])
  BY <1>2, AscendingAll
<1>4. DOMAIN hashBBMatch(h, B) = DOMAIN M \cup twins
  BY Zenon DEF hashBBMatch
<1>5. hashBBMatch(h, B)[h[n]] = AscendingFrom(W(h[n]))
  <2>1. h[n] \in DOMAIN M \cup twins /\ h[n] \notin DOMAIN M
    BY <1>1
  <2>2. hashBBMatch(h, B) = [x \in DOMAIN M \cup twins |->
            IF x \notin DOMAIN M THEN AscendingFrom(W(x))
            ELSE IF x \in twins THEN M[x] \o NewTwins(W(x), M[x]) ELSE M[x]]
    BY Zenon DEF hashBBMatch
  <2> HIDE DEF W, twins
  <2> QED BY <2>1, <2>2
<1> QED BY <1>1, <1>2, <1>3, <1>4, <1>5

\* Later ones find nothing to add.
LEMMA TwinsAgain ==
  ASSUME NEW B \in SUBSET Node, IsFiniteSet(B), NEW h, M = [x \in DOMAIN M |-> M[x]],
         \A x \in DOMAIN M : M[x] \in Seq(Node),
         \A n \in B : Cardinality(TwinSet(h, B, h[n])) > 1 => h[n] \in DOMAIN M /\ n \in Elems(M[h[n]])
  PROVE  hashBBMatch(h, B) = M
<1> DEFINE W(x) == {m \in B : h[m] = x}
           twins == {x \in {h[m] : m \in B} : Cardinality(W(x)) > 1}
<1>1. ASSUME NEW x \in twins PROVE x \in DOMAIN M /\ W(x) \subseteq Elems(M[x])
  <2>1. PICK n \in B : x = h[n] /\ Cardinality(TwinSet(h, B, x)) > 1
    BY DEF TwinSet
  <2>2. \A m \in W(x) : m \in B /\ h[m] = x
    OBVIOUS
  <2> QED BY <2>1, <2>2
<1>2. ASSUME NEW x \in twins PROVE M[x] \o NewTwins(W(x), M[x]) = M[x]
  <2> DEFINE V == (W(x) \ {Least(W(x))}) \ Elems(M[x])
  <2>1. V = {}
    BY <1>1
  <2>2. AscendingFrom({}) = <<>>
    <3>1. {} \in SUBSET Nat /\ IsFiniteSet({}) /\ Cardinality({}) = 0
      BY FS_EmptySet
    <3>2. DOMAIN AscendingFrom({}) = 1 .. 0 /\ AscendingFrom({}) \in Seq({})
      BY <3>1, AscendingAll, AscendingFact
    <3> QED BY <3>2
  <2>3. NewTwins(W(x), M[x]) = <<>>
    BY <2>1, <2>2 DEF NewTwins
  <2>4. M[x] \in Seq(Node)
    BY <1>1
  <2> HIDE DEF W
  <2> QED BY <2>3, <2>4
<1>3. hashBBMatch(h, B) = [x \in DOMAIN M \cup twins |->
            IF x \notin DOMAIN M THEN AscendingFrom(W(x))
            ELSE IF x \in twins THEN M[x] \o NewTwins(W(x), M[x]) ELSE M[x]]
  BY Zenon DEF hashBBMatch
<1>4. DOMAIN M \cup twins = DOMAIN M
  BY <1>1
<1> HIDE DEF W, twins
<1>5. hashBBMatch(h, B) = [x \in DOMAIN M |-> M[x]]
  BY <1>2, <1>3, <1>4
<1> QED BY <1>5

\* A call about the function of all calls so far finds the graph and the lists as
\* they are.
LEMMA AnalyzeAgain ==
  ASSUME Inv, Steady, NEW f \in DOMAIN program, Analyze(f), OneFunction', Started
  PROVE  /\ OneFunction /\ answers # <<>>
         /\ UNCHANGED <<program, fn, graph, M>>
<1> DEFINE g == program[f]
           h == [n \in g.blocks |-> hash_itype2(g.code[n])]
           R == [t \in HashTypes |-> {e \in g.blocks \X g.blocks : match(g.code[e[1]], g.code[e[2]], t)}]
           V == {n \in g.blocks : g.code[n] = <<>>}
<1>1. /\ phase = "idle" /\ fn' = f /\ M' = hashBBMatch(h, g.blocks)
      /\ program' = program /\ answers' = answers /\ LoadGraph(g.blocks, g.succs, R, V)
  BY Zenon DEF Analyze
<1>2. answers # <<>>
  BY <1>1 DEF Started
<1>3. fn = f /\ OneFunction
  <2>1. PICK k \in DOMAIN answers : answers[k].func = fn
    BY <1>1, <1>2 DEF Inv, Answered
  <2>2. \A j \in DOMAIN answers : answers[j].func = f
    BY <1>1 DEF OneFunction
  <2> QED BY <2>1, <2>2 DEF OneFunction
<1>4. Loaded /\ Drawn /\ AllTwins
  BY <1>3 DEF Inv, Answered, Steady, Again
<1>5. \A n : Code(n) = g.code[n]
  BY <1>3 DEF Code
<1>6. blocks = g.blocks /\ succs = g.succs
  BY <1>3, <1>4 DEF Loaded, Drawn
<1>7. sim = R
  BY <1>4, <1>5, <1>6 DEF Loaded
<1>8. void = V
  BY <1>4, <1>5, <1>6 DEF Drawn
<1>9. UNCHANGED graph
  BY <1>1, <1>6, <1>7, <1>8 DEF LoadGraph, graph
<1>10. M' = M
  <2>1. g.blocks \in SUBSET Node /\ IsFiniteSet(g.blocks)
    BY ProgramFact DEF Inv
  <2>2. M = [x \in DOMAIN M |-> M[x]] /\ \A x \in DOMAIN M : M[x] \in Seq(Node)
    BY DEF Steady, Inv, Twins, TwinList
  <2>3. \A n \in g.blocks : h[n] = hash_itype2(Code(n))
    BY <1>5
  <2>4. ASSUME NEW n \in g.blocks, Cardinality(TwinSet(h, g.blocks, h[n])) > 1
        PROVE  h[n] \in DOMAIN M /\ n \in Elems(M[h[n]])
    <3>1. TwinSet(h, g.blocks, h[n]) = {m \in blocks : hash_itype2(Code(m)) = hash_itype2(Code(n))}
      BY <2>3, <1>6 DEF TwinSet
    <3> QED BY <2>3, <2>4, <3>1, <1>4, <1>6 DEF AllTwins
  <2> HIDE DEF h, g
  <2> QED BY <2>1, <2>2, <2>4, <1>1, TwinsAgain
<1> QED BY <1>1, <1>2, <1>3, <1>9, <1>10

-----------------------------------------------------------------------------
(* The normalization *)

\* As long as the table, the order and the graph stay, so does what is wanted.
LEMMA TableSame ==
  ASSUME UNCHANGED <<program, fn, graph, pathPerNodeHash, order>>
  PROVE  /\ \A c : SizeOf(c)' = SizeOf(c)
         /\ Big' = Big
         /\ \A N, d : Wanted(N, d)' = Wanted(N, d) /\ (Right(N, d)' <=> Right(N, d))
         /\ \A N, d : FreeOf(N, d)' = FreeOf(N, d)
<1>1. \A c : SizeOf(c)' = SizeOf(c)
  BY DEF SizeOf
<1>2. Big' = Big
  BY <1>1 DEF Big
<1>3. \A c, d : Ahead(c, d)' <=> Ahead(c, d)
  BY <1>1 DEF Ahead
<1>4. \A N, c, p : Within(N, c, p)' <=> Within(N, c, p)
  BY DEF Within, PathsOf, Elems
<1>5. \A N, d : FreeOf(N, d)' = FreeOf(N, d)
  BY <1>2, <1>3, <1>4 DEF FreeOf
<1>6. \A s : EntryAtHead(s)' <=> EntryAtHead(s)
  BY WalkSame
<1>7. \A N, d : Wanted(N, d)' = Wanted(N, d)
  BY <1>5, <1>6 DEF Wanted
<1>8. \A N, d : Right(N, d)' <=> Right(N, d)
  BY <1>7 DEF Right, PathsOf, Elems
<1> QED BY <1>1, <1>2, <1>5, <1>7, <1>8

\* What is wanted of a class depends on the classes taken before it.
LEMMA WantedSame ==
  ASSUME NEW N1, NEW N2, NEW d, \A c \in Big : Ahead(c, d) => PathsOf(N1, c) = PathsOf(N2, c)
  PROVE  Wanted(N1, d) = Wanted(N2, d)
<1>1. \A c \in Big : Ahead(c, d) => \A p : Within(N1, c, p) <=> Within(N2, c, p)
  BY DEF Within
<1>2. FreeOf(N1, d) = FreeOf(N2, d)
  BY <1>1 DEF FreeOf
<1> QED BY <1>2 DEF Wanted

\* The places in the lists of classes are numbers.
LEMMA SizedPlaces ==
  ASSUME Sized
  PROVE  DOMAIN order \subseteq Nat /\ DOMAIN size_dic \subseteq Nat
<1> DEFINE C == DOMAIN pathPerNodeHash
<1>1. order \in Seq(C) /\ size_dic \in Seq(C)
  BY DEF Sized
<1> HIDE DEF C
<1> QED BY <1>1

\* Of two classes one is taken before the other.
LEMMA AheadOnce ==
  ASSUME Sized, Sorted, NEW c \in DOMAIN pathPerNodeHash, NEW d \in DOMAIN pathPerNodeHash, Ahead(c, d)
  PROVE  ~Ahead(d, c) /\ c # d
<1>1. SizeOf(c) \in Nat /\ SizeOf(d) \in Nat
  BY SizeType
<1>2. DOMAIN order \subseteq Nat /\ \A i, j \in DOMAIN order : order[i] = order[j] => i = j
  BY SizedPlaces DEF Sorted
<1>3. ASSUME NEW i \in DOMAIN order, NEW j \in DOMAIN order, i < j, order[i] = c, order[j] = d
      PROVE  c # d /\ ~(\E k, l \in DOMAIN order : k < l /\ order[k] = d /\ order[l] = c)
  <2>1. i # j
    BY <1>2, <1>3
  <2> SUFFICES ASSUME NEW k \in DOMAIN order, NEW l \in DOMAIN order, k < l, order[k] = d, order[l] = c PROVE FALSE
    BY <2>1, <1>2, <1>3
  <2>2. k = j /\ l = i
    BY <1>2, <1>3
  <2> QED BY <2>2, <1>2, <1>3
<1>4. CASE SizeOf(c) > SizeOf(d)
  BY <1>1, <1>4 DEF Ahead
<1>5. CASE SizeOf(c) = SizeOf(d) /\ \E i, j \in DOMAIN order : i < j /\ order[i] = c /\ order[j] = d
  <2>1. c # d /\ ~(\E k, l \in DOMAIN order : k < l /\ order[k] = d /\ order[l] = c)
    BY <1>3, <1>5
  <2> QED BY <2>1, <1>1, <1>5 DEF Ahead
<1> QED BY <1>4, <1>5 DEF Ahead

\* The entry that is next: what is ahead of its class was taken, and when its
\* class was not taken what was taken is ahead of it.
LEMMA NextAhead ==
  ASSUME Sized, Sorted, Normalizing, pending # {}, NEW e, e = NextEntry, NEW c, c = size_dic[e]
  PROVE  /\ e \in pending /\ c \in Big /\ e \in DOMAIN size_dic
         /\ \A j \in pending \ {e} : Precedes(e, j)
         /\ \A d \in Big : Ahead(d, c) => d \in Took
         /\ c \notin Took => \A d \in Took : Ahead(d, c)
<1>0. pending \subseteq DOMAIN size_dic /\ \A i \in pending : size_dic[i] \in Big
  BY DEF Normalizing
<1>1. e \in pending /\ \A j \in pending \ {e} : Precedes(e, j)
  BY <1>0, NextFact
<1>2. e \in DOMAIN size_dic /\ c \in Big
  BY <1>0, <1>1
<1>3. \A d \in Big : d \in DOMAIN pathPerNodeHash /\ SizeOf(d) \in Nat
  BY SizeType DEF Big
<1>4. DOMAIN size_dic \subseteq Nat /\ DOMAIN order \subseteq Nat
  BY SizedPlaces
<1>5. /\ \A i, j \in DOMAIN order : order[i] = order[j] => i = j
      /\ \A i \in DOMAIN order : i \in DOMAIN size_dic /\ size_dic[i] = order[i]
      /\ \A i \in DOMAIN size_dic : \E j \in DOMAIN order : j <= i /\ order[j] = size_dic[i]
      /\ Elems(order) = DOMAIN pathPerNodeHash
  BY DEF Sorted
<1>6. PICK k \in DOMAIN order : k <= e /\ order[k] = c
  BY <1>2, <1>5
<1>7. ASSUME NEW d \in Big, Ahead(d, c) PROVE d \in Took
  <2>1. PICK i \in DOMAIN order : order[i] = d
    BY <1>3, <1>5 DEF Elems
  <2>2. i \in DOMAIN size_dic /\ size_dic[i] = d
    BY <2>1, <1>5
  <2>3. i \notin pending
    <3> SUFFICES ASSUME i \in pending PROVE FALSE
      OBVIOUS
    <3>1. c # d
      BY <1>2, <1>3, <1>7, AheadOnce
    <3>2. Precedes(e, i)
      BY <3>1, <2>2, <1>1
    <3>3. ~(SizeOf(c) > SizeOf(d)) /\ e < i /\ SizeOf(c) \in Nat /\ SizeOf(d) \in Nat /\ ~(SizeOf(d) > SizeOf(c))
      BY <3>2, <2>2, <1>2, <1>3, <1>7 DEF Precedes, Larger, Ahead
    <3>4. PICK m \in DOMAIN order, l \in DOMAIN order : m < l /\ order[m] = d /\ order[l] = c
      BY <3>3, <1>7 DEF Ahead
    <3>5. m = i /\ l = k
      BY <3>4, <2>1, <1>5, <1>6
    <3>6. i \in Nat /\ k \in Nat /\ e \in Nat
      BY <1>2, <1>4
    <3> QED BY <3>3, <3>4, <3>5, <3>6, <1>6
  <2> QED BY <2>2, <2>3 DEF Took, TakenAt
<1>8. ASSUME c \notin Took, NEW d \in Took PROVE Ahead(d, c)
  <2>1. PICK i \in TakenAt : d = size_dic[i]
    BY DEF Took
  <2>2. i \in DOMAIN size_dic /\ d \in Big /\ Precedes(i, e)
    BY <2>1, <1>1 DEF TakenAt, Normalizing
  <2>3. PICK j \in DOMAIN order : j <= i /\ order[j] = d
    BY <2>1, <2>2, <1>5
  <2>4. size_dic[k] = c /\ k \in DOMAIN size_dic /\ k \in pending
    BY <1>2, <1>5, <1>6, <1>8 DEF Took, TakenAt
  <2>5. k = e
    <3> SUFFICES ASSUME k # e PROVE FALSE
      OBVIOUS
    <3>1. Precedes(e, k)
      BY <2>4, <1>1
    <3> QED BY <3>1, <2>4, <1>2, <1>3, <1>4, <1>6 DEF Precedes, Larger
  <2>6. SizeOf(d) \in Nat /\ SizeOf(c) \in Nat /\ i \in Nat /\ j \in Nat /\ e \in Nat
    BY <2>2, <1>2, <1>3, <1>4
  <2>7. SizeOf(d) > SizeOf(c) \/ (SizeOf(d) = SizeOf(c) /\ i < e)
    BY <2>1, <2>2, <2>6 DEF Precedes, Larger
  <2>8. i < e => j < k
    BY <2>3, <2>5, <2>6
  <2> QED BY <2>3, <2>7, <2>8, <1>6 DEF Ahead
<1> QED BY <1>1, <1>2, <1>7, <1>8

\* What is kept of a class are all of its paths that lie in nothing moved.
LEMMA NotMovedAll ==
  ASSUME Sized, NEW c \in DOMAIN pathPerNodeHash,
         NEW free, free = {i \in DOMAIN pathPerNodeHash[c] : \A s \in moved : ~(Elems(pathPerNodeHash[c][i]) \subseteq s)}
  PROVE  /\ NotMoved(c) \in Seq(Seq(Node)) /\ IsFiniteSet(free)
         /\ Elems(NotMoved(c)) = {pathPerNodeHash[c][i] : i \in free}
         /\ Len(NotMoved(c)) = Cardinality(free)
<1> DEFINE paths == pathPerNodeHash[c]
           at == AscendingFrom(free)
           T == Seq(Node)
<1>1. NotMoved(c) = [k \in DOMAIN at |-> paths[at[k]]]
  BY Zenon DEF NotMoved
<1>2. paths \in Seq(T)
  BY DEF Sized
<1> HIDE DEF T
<1>3. free \in SUBSET Nat /\ IsFiniteSet(free) /\ \A i \in free : i \in DOMAIN paths
  <2>1. DOMAIN paths = 1 .. Len(paths) /\ Len(paths) \in Nat
    BY <1>2
  <2>2. free \in SUBSET DOMAIN paths
    OBVIOUS
  <2> HIDE DEF paths
  <2>3. IsFiniteSet(DOMAIN paths)
    BY <2>1, FS_Interval
  <2> QED BY <2>1, <2>2, <2>3, FS_Subset
<1>4. /\ Elems(at) = free /\ Cardinality(free) \in Nat /\ DOMAIN at = 1 .. Cardinality(free)
  BY <1>3, AscendingAll
<1> HIDE DEF at, paths
<1>5. \A k \in DOMAIN at : at[k] \in free /\ paths[at[k]] \in T
  <2>1. \A k \in DOMAIN at : at[k] \in free
    BY <1>4 DEF Elems
  <2> QED BY <2>1, <1>2, <1>3
<1>6. NotMoved(c) \in Seq(T) /\ Len(NotMoved(c)) = Cardinality(free)
  <2>1. PICK n \in Nat : n = Cardinality(free)
    BY <1>4
  <2>2. NotMoved(c) = [k \in 1 .. n |-> paths[at[k]]] /\ \A k \in 1 .. n : paths[at[k]] \in T
    BY <2>1, <1>1, <1>4, <1>5
  <2>3. NotMoved(c) \in [1 .. n -> T]
    BY <2>2
  <2>4. \A f \in [1 .. n -> T] : f \in Seq(T) /\ Len(f) = n
    OBVIOUS
  <2> QED BY <2>1, <2>3, <2>4
<1>7. \A i \in free : \E k \in DOMAIN at : at[k] = i
  BY <1>4 DEF Elems
<1>8. Elems(NotMoved(c)) = {paths[i] : i \in free}
  <2>1. DOMAIN NotMoved(c) = DOMAIN at /\ \A k \in DOMAIN at : NotMoved(c)[k] = paths[at[k]]
    BY <1>1
  <2>2. Elems(NotMoved(c)) \subseteq {paths[i] : i \in free}
    BY <2>1, <1>5 DEF Elems
  <2>3. {paths[i] : i \in free} \subseteq Elems(NotMoved(c))
    BY <2>1, <1>7 DEF Elems
  <2> QED BY <2>2, <2>3
<1> QED BY <1>3, <1>6, <1>8 DEF T, paths

\* The elements of two lists, one after the other.
LEMMA ConcatElems ==
  ASSUME NEW T, NEW s1 \in Seq(T), NEW s2 \in Seq(T)
  PROVE  s1 \o s2 \in Seq(T) /\ Len(s1 \o s2) = Len(s1) + Len(s2) /\ Elems(s1 \o s2) = Elems(s1) \cup Elems(s2)
<1> DEFINE s == s1 \o s2
           m == Len(s1)
<1>1. /\ s \in Seq(T) /\ m \in Nat /\ DOMAIN s1 = 1 .. m /\ Len(s2) \in Nat /\ DOMAIN s2 = 1 .. Len(s2)
      /\ DOMAIN s = 1 .. (m + Len(s2)) /\ Len(s) = m + Len(s2)
      /\ \A i \in DOMAIN s : IF i <= m THEN s[i] = s1[i] ELSE s[i] = s2[i - m]
  OBVIOUS
<1> HIDE DEF s, m
<1>2. \A i \in DOMAIN s1 : i \in DOMAIN s /\ s[i] = s1[i]
  BY <1>1
<1>3. \A i \in DOMAIN s2 : m + i \in DOMAIN s /\ s[m + i] = s2[i]
  <2> TAKE i \in DOMAIN s2
  <2>1. i \in Nat /\ i >= 1 /\ i <= Len(s2) /\ m \in Nat
    BY <1>1
  <2>2. m + i \in DOMAIN s /\ ~(m + i <= m) /\ (m + i) - m = i
    BY <2>1, <1>1
  <2> QED BY <2>2, <1>1
<1>4. \A i \in DOMAIN s : s[i] \in Elems(s1) \cup Elems(s2)
  <2> TAKE i \in DOMAIN s
  <2>1. i \in DOMAIN s1 \/ i - m \in DOMAIN s2
    BY <1>1
  <2> QED BY <2>1, <1>1 DEF Elems
<1>5. Elems(s1) \cup Elems(s2) \subseteq Elems(s)
  BY <1>2, <1>3 DEF Elems
<1>6. Elems(s) \subseteq Elems(s1) \cup Elems(s2)
  BY <1>4, Zenon DEF Elems
<1> QED BY <1>1, <1>5, <1>6 DEF s, m

\* The class that is taken gets what is wanted of it, the first time and again.
LEMMA NormalizeNew ==
  ASSUME Sized, Sorted, Listed, Normalizing, Normalize, NEW c, c = size_dic[NextEntry],
         answers # <<>> => Right(normalizedPathPerNodeHash, c)
  PROVE  \E new : /\ new \in Seq(Seq(Node)) /\ (new = <<>> \/ Len(new) >= 2)
                  /\ Elems(new) = Wanted(normalizedPathPerNodeHash, c)
                  /\ normalizedPathPerNodeHash' = Put(normalizedPathPerNodeHash, c, new)
                  /\ \A s : s \in moved' <=> s \in moved \/ \E q \in Elems(new) : s = Elems(q)
<1> DEFINE N == normalizedPathPerNodeHash
           T == Seq(Node)
           L == pathPerNodeHash[c]
           old == IF c \in DOMAIN N THEN N[c] ELSE <<>>
           kept == old \o NotMoved(c)
           new == IF ~EntryAtHead(L[1]) THEN old ELSE IF Len(kept) < 2 THEN <<>> ELSE kept
           free == {i \in DOMAIN L : \A s \in moved : ~(Elems(L[i]) \subseteq s)}
           F == FreeOf(N, c)
<1>1. /\ pending # {} /\ N' = Put(N, c, new)
      /\ moved' = IF EntryAtHead(L[1]) THEN moved \cup {Elems(p) : p \in Elems(new)} ELSE moved
  BY Zenon DEF Normalize
<1>2. /\ c \in Big /\ \A d \in Big : Ahead(d, c) => d \in Took
      /\ c \notin Took => \A d \in Took : Ahead(d, c)
  BY <1>1, NextAhead
<1>3. c \in DOMAIN pathPerNodeHash
  BY <1>2 DEF Big
<1>4. /\ NotMoved(c) \in Seq(T) /\ IsFiniteSet(free) /\ Elems(NotMoved(c)) = {L[i] : i \in free}
      /\ Len(NotMoved(c)) = Cardinality(free)
  BY <1>3, NotMovedAll
<1>5. old \in Seq(T) /\ (old = <<>> \/ Len(old) >= 2) /\ Elems(old) = PathsOf(N, c)
  BY <1>2 DEF Listed, PathsOf, Elems
<1>6. \A s : s \in moved <=> \E d \in Took : \E q \in PathsOf(N, d) : s = Elems(q)
  BY DEF Normalizing
<1>7. \A d \in Took : d \in Big
  BY DEF Took, TakenAt
<1>8. free \subseteq F
  <2> SUFFICES ASSUME NEW i \in free, NEW d \in Big, Ahead(d, c), NEW q \in PathsOf(N, d), Elems(L[i]) \subseteq Elems(q)
               PROVE  FALSE
    BY DEF FreeOf, Within
  <2>1. Elems(q) \in moved
    BY <1>2, <1>6
  <2> QED BY <2>1
<1>9. c \notin Took => F \subseteq free
  <2> SUFFICES ASSUME c \notin Took, NEW i \in F, NEW s \in moved, Elems(L[i]) \subseteq s PROVE FALSE
    BY DEF FreeOf
  <2>1. PICK d \in Took : \E q \in PathsOf(N, d) : s = Elems(q)
    BY <1>6
  <2>2. Ahead(d, c) /\ d \in Big
    BY <1>2, <1>7
  <2> QED BY <2>1, <2>2 DEF FreeOf, Within
<1>10. IsFiniteSet(F) /\ Cardinality(F) \in Nat /\ Cardinality(free) \in Nat /\ Cardinality(free) <= Cardinality(F)
  <2>1. IsFiniteSet(DOMAIN L)
    <3>1. L \in Seq(T)
      BY <1>3 DEF Sized
    <3>2. DOMAIN L = 1 .. Len(L) /\ Len(L) \in Nat
      BY <3>1
    <3> QED BY <3>2, FS_Interval
  <2>2. F \in SUBSET DOMAIN L
    BY DEF FreeOf
  <2> HIDE DEF F, L, free
  <2>3. IsFiniteSet(F)
    BY <2>1, <2>2, FS_Subset
  <2> QED BY <2>3, <1>4, <1>8, FS_Subset, FS_CardinalityType
<1>11. Wanted(N, c) = IF EntryAtHead(L[1]) /\ Cardinality(F) >= 2 THEN {L[i] : i \in F} ELSE {}
  BY DEF Wanted
<1>12. c \in Took \/ answers # <<>> => Elems(old) = Wanted(N, c)
  BY <1>5 DEF Normalizing, Right
<1>13. c \notin Took /\ answers = <<>> => old = <<>>
  BY DEF Normalizing
<1>14. \A i \in free : i \in F
  BY <1>8
<1>15. Elems(<<>>) = {} /\ Len(<<>>) = 0
  BY DEF Elems
<1> HIDE DEF free, F, L, old, T, N
<1>16. kept \in Seq(T) /\ Len(kept) = Len(old) + Cardinality(free) /\ Elems(kept) = Elems(old) \cup {L[i] : i \in free}
  BY <1>4, <1>5, ConcatElems
<1>17. Len(old) \in Nat /\ (Len(old) = 0 => old = <<>>)
  BY <1>5
<1>18. \A q \in Seq(T) : Elems(q) = {} => q = <<>>
  <2> SUFFICES ASSUME NEW q \in Seq(T), q # <<>> PROVE Elems(q) # {}
    OBVIOUS
  <2>1. 1 \in DOMAIN q
    OBVIOUS
  <2> QED BY <2>1 DEF Elems
<1> HIDE DEF kept
<1>19. CASE ~EntryAtHead(L[1])
  <2>1. new = old /\ Wanted(N, c) = {}
    BY <1>11, <1>19
  <2>2. Elems(old) = {}
    BY <2>1, <1>12, <1>13, <1>15
  <2>3. moved' = moved
    BY <1>1, <1>19
  <2> HIDE DEF new
  <2> QED BY <2>1, <2>2, <2>3, <1>1, <1>5 DEF T, N
<1>20. CASE EntryAtHead(L[1])
  <2>1. moved' = moved \cup {Elems(p) : p \in Elems(new)}
    BY <1>1, <1>20
  <2>2. new \in Seq(T) /\ (new = <<>> \/ Len(new) >= 2) /\ Elems(new) = Wanted(N, c)
    <3>1. CASE Len(kept) < 2
      <4>1. new = <<>> /\ old = <<>> /\ Cardinality(free) < 2
        BY <3>1, <1>5, <1>10, <1>16, <1>17, <1>20
      <4>2. Wanted(N, c) = {}
        <5>1. CASE c \in Took \/ answers # <<>>
          BY <5>1, <4>1, <1>12, <1>15
        <5>2. CASE c \notin Took
          <6>1. F = free
            BY <5>2, <1>8, <1>9 DEF F, free
          <6> QED BY <6>1, <4>1, <1>10, <1>11
        <5> QED BY <5>1, <5>2
      <4> QED BY <4>1, <4>2, <1>15
    <3>2. CASE ~(Len(kept) < 2)
      <4>1. new = kept /\ Len(kept) >= 2
        BY <3>2, <1>10, <1>16, <1>17, <1>20
      <4>2. Elems(kept) = Wanted(N, c)
        <5>1. CASE c \in Took \/ answers # <<>>
          <6>1. Elems(old) = Wanted(N, c)
            BY <5>1, <1>12
          <6>2. CASE Cardinality(F) >= 2
            <7>1. Wanted(N, c) = {L[i] : i \in F}
              BY <6>2, <1>11, <1>20
            <7> QED BY <7>1, <6>1, <1>14, <1>16
          <6>3. CASE ~(Cardinality(F) >= 2)
            <7>1. Elems(old) = {}
              BY <6>1, <6>3, <1>11
            <7>2. old = <<>>
              BY <7>1, <1>5, <1>18
            <7> QED BY <7>2, <6>3, <3>2, <1>10, <1>15, <1>16
          <6> QED BY <6>2, <6>3
        <5>2. CASE c \notin Took /\ answers = <<>>
          <6>1. F = free
            BY <5>2, <1>8, <1>9 DEF F, free
          <6>2. old = <<>>
            BY <5>2, <1>13
          <6>3. Cardinality(F) >= 2
            BY <6>1, <6>2, <3>2, <1>10, <1>15, <1>16
          <6> QED BY <6>1, <6>2, <6>3, <1>11, <1>15, <1>16, <1>20
        <5> QED BY <5>1, <5>2
      <4> QED BY <4>1, <4>2, <1>16
    <3> QED BY <3>1, <3>2
  <2> HIDE DEF new
  <2> QED BY <2>1, <2>2, <1>1 DEF T, N
<1> QED BY <1>19, <1>20

\* Taking a class keeps the classes taken right, and from the second call on it
\* changes nothing.
LEMMA NormalizeStep ==
  ASSUME Sized, Sorted, Listed, Normalizing, Normalize,
         answers # <<>> => \A d \in Big : Right(normalizedPathPerNodeHash, d)
  PROVE  /\ Sorted' /\ Listed' /\ Normalizing'
         /\ answers # <<>> => \A d : PathsOf(normalizedPathPerNodeHash', d) = PathsOf(normalizedPathPerNodeHash, d)
         /\ Took' = Took \cup {size_dic[NextEntry]}
         /\ \A d \in Took', b \in Big : Ahead(b, d) =>
               PathsOf(normalizedPathPerNodeHash', b) = PathsOf(normalizedPathPerNodeHash, b)
<1> DEFINE N == normalizedPathPerNodeHash
<1>1. PICK e, c : e = NextEntry /\ c = size_dic[e]
  OBVIOUS
<1>2. /\ pending # {} /\ pending' = pending \ {e}
      /\ UNCHANGED <<svars, program, fn, pathPerNodeHash, order, size_dic, answers>>
  BY <1>1, Zenon DEF Normalize
<1>3. /\ e \in pending /\ c \in Big /\ e \in DOMAIN size_dic
      /\ \A j \in pending \ {e} : Precedes(e, j)
      /\ c \notin Took => \A d \in Took : Ahead(d, c)
  BY <1>1, <1>2, NextAhead
<1>4. PICK new : /\ new \in Seq(Seq(Node)) /\ (new = <<>> \/ Len(new) >= 2)
                 /\ Elems(new) = Wanted(N, c) /\ N' = Put(N, c, new)
                 /\ \A s : s \in moved' <=> s \in moved \/ \E q \in Elems(new) : s = Elems(q)
  BY <1>1, <1>3, NormalizeNew
<1>5. UNCHANGED <<program, fn, graph, pathPerNodeHash, order>>
  BY <1>2 DEF svars
<1>6. /\ Big' = Big /\ \A n, d : Right(n, d)' <=> Right(n, d)
      /\ \A d : SizeOf(d)' = SizeOf(d)
  BY <1>5, TableSame
<1>7. /\ DOMAIN N' = DOMAIN N \cup {c} /\ N'[c] = new /\ \A d \in DOMAIN N : d # c => N'[d] = N[d]
  BY <1>4 DEF Put
<1>8. /\ PathsOf(N', c) = Wanted(N, c) /\ \A d : d # c => PathsOf(N', d) = PathsOf(N, d)
  BY <1>4, <1>7 DEF PathsOf
<1>9. c \in Took \/ answers # <<>> => PathsOf(N', c) = PathsOf(N, c)
  BY <1>3, <1>8 DEF Normalizing, Right
<1>10. \A d \in Took : d \in Big
  BY DEF Took, TakenAt
<1>11. \A d \in Big : d \in DOMAIN pathPerNodeHash
  BY DEF Big
<1> HIDE DEF N
<1>24. ASSUME NEW d \in Took \cup {c}, NEW b \in Big, Ahead(b, d) PROVE PathsOf(N', b) = PathsOf(N, b)
  <2>1. CASE b # c
    BY <2>1, <1>8
  <2>2. CASE b = c /\ (c \in Took \/ answers # <<>>)
    BY <2>2, <1>9
  <2>3. CASE b = c /\ c \notin Took
    <3>1. c # d
      BY <2>3, <1>24, <1>3, <1>11, AheadOnce
    <3>2. Ahead(d, c) /\ d \in Big
      BY <3>1, <2>3, <1>3, <1>10
    <3> QED BY <3>2, <2>3, <1>24, <1>3, <1>11, AheadOnce
  <2> QED BY <2>1, <2>2, <2>3
<1>12. ASSUME NEW d \in Took \cup {c} PROVE Right(N', d)
  <2>1. \A b \in Big : Ahead(b, d) => PathsOf(N', b) = PathsOf(N, b)
    BY <1>24
  <2>2. Wanted(N', d) = Wanted(N, d)
    BY <2>1, WantedSame
  <2>3. CASE d = c
    BY <2>2, <2>3, <1>8 DEF Right
  <2>4. CASE d # c
    <3>1. Right(N, d)
      BY <2>4 DEF Normalizing, N
    <3> QED BY <3>1, <2>2, <2>4, <1>8 DEF Right
  <2> QED BY <2>3, <2>4
<1>13. TakenAt' = TakenAt \cup {e}
  BY <1>1, <1>2, <1>3, <1>6 DEF TakenAt
<1>14. Took' = Took \cup {c}
  BY <1>1, <1>2, <1>13 DEF Took
<1>15. Sorted'
  BY <1>2 DEF Sorted, Elems
<1>16. Listed'
  <2> SUFFICES ASSUME NEW d \in DOMAIN N'
               PROVE  d \in Big /\ N'[d] \in Seq(Seq(Node)) /\ (N'[d] = <<>> \/ Len(N'[d]) >= 2)
    BY <1>6 DEF Listed, N
  <2>1. CASE d = c
    BY <2>1, <1>3, <1>4, <1>7
  <2>2. CASE d # c
    <3>1. d \in DOMAIN N /\ N'[d] = N[d]
      BY <2>2, <1>7
    <3>2. d \in Big
      BY <3>1 DEF Listed, N
    <3>3. N[d] \in Seq(Seq(Node)) /\ (N[d] = <<>> \/ Len(N[d]) >= 2)
      BY <3>1, <3>2 DEF Listed, N
    <3> QED BY <3>1, <3>2, <3>3
  <2> QED BY <2>1, <2>2
<1>17. ASSUME NEW i \in TakenAt', NEW j \in pending' PROVE Precedes(i, j)'
  <2>1. Precedes(i, j)
    BY <1>2, <1>3, <1>13 DEF Normalizing
  <2> QED BY <2>1, <1>2, <1>6 DEF Precedes, Larger
<1>18. ASSUME NEW s PROVE s \in moved' <=> \E d \in Took' : \E q \in PathsOf(N', d) : s = Elems(q)
  <2>1. s \in moved <=> \E d \in Took : \E q \in PathsOf(N, d) : s = Elems(q)
    BY DEF Normalizing, N
  <2>2. s \in moved' <=> s \in moved \/ \E q \in PathsOf(N', c) : s = Elems(q)
    BY <1>4, <1>8
  <2>3. \A d \in Took : PathsOf(N', d) = PathsOf(N, d)
    BY <1>8, <1>9
  <2> QED BY <2>1, <2>2, <2>3, <1>14
<1>19. answers' = <<>> => DOMAIN N' \subseteq Took'
  BY <1>2, <1>7, <1>14 DEF Normalizing, N
<1>20. pending' \subseteq {i \in DOMAIN size_dic' : size_dic'[i] \in Big'}
  BY <1>2, <1>6 DEF Normalizing
<1>21. \A d \in Took' : Right(normalizedPathPerNodeHash, d)'
  <2>1. PICK n : n = N'
    OBVIOUS
  <2>2. \A d \in Took' : Right(n, d)'
    BY <2>1, <1>6, <1>12, <1>14
  <2>3. PathsOf(n, c)' = PathsOf(n, c)
    BY DEF PathsOf, Elems
  <2> QED BY <2>1, <2>2 DEF N
<1>22. Normalizing'
  <2>1. \A s : s \in moved' <=> \E d \in Took' : \E q \in PathsOf(normalizedPathPerNodeHash, d)' : s = Elems(q)
    BY <1>18 DEF N, PathsOf, Elems
  <2> QED BY <2>1, <1>17, <1>19, <1>20, <1>21 DEF Normalizing, N
<1>23. answers # <<>> => \A d : PathsOf(N', d) = PathsOf(N, d)
  BY <1>8, <1>9
<1> QED BY <1>1, <1>14, <1>15, <1>16, <1>22, <1>23, <1>24 DEF N

-----------------------------------------------------------------------------
(* What a step leaves alone *)

\* As long as the function and its graph stay, so does what was drawn of it.
LEMMA DrawnSame ==
  ASSUME UNCHANGED <<program, fn, graph, M>>
  PROVE  (Drawn' <=> Drawn) /\ (AllTwins' <=> AllTwins)
<1>0. blocks' = blocks /\ succs' = succs /\ void' = void /\ program' = program /\ fn' = fn /\ M' = M
  BY DEF graph
<1>1. \A n : Code(n)' = Code(n)
  BY <1>0 DEF Code
<1>2. Drawn' <=> Drawn
  BY <1>0, <1>1 DEF Drawn
<1>3. \A n : {m \in blocks' : hash_itype2(Code(m)') = hash_itype2(Code(n)')}
               = {m \in blocks : hash_itype2(Code(m)) = hash_itype2(Code(n))}
  BY <1>0, <1>1
<1>4. \A n : hash_itype2(Code(n))' = hash_itype2(Code(n))
  BY <1>1 DEF hash_itype2
<1>5. AllTwins' <=> AllTwins
  BY <1>0, <1>4 DEF AllTwins, Elems
<1> QED BY <1>2, <1>5

\* The instances may be listed anew, as long as they are the same.
LEMMA SettledSame ==
  ASSUME UNCHANGED <<program, fn, graph, M, pathPerNodeHash, order, size_dic>>,
         \A d : PathsOf(normalizedPathPerNodeHash', d) = PathsOf(normalizedPathPerNodeHash, d), Listed'
  PROVE  /\ AllFiled => AllFiled'
         /\ Sorted => Sorted'
         /\ (\A c \in Big : Right(normalizedPathPerNodeHash, c)) => (\A c \in Big : Right(normalizedPathPerNodeHash, c))'
         /\ \A got : Agrees(got) => Agrees(got)'
         /\ Settled /\ answers' = answers => Settled'
<1>1. AllFiled => AllFiled'
  BY AllFiledStays DEF Grows, PathsOf, Elems
<1>2. Sorted => Sorted'
  BY DEF Sorted, Elems
<1>3. PICK n : n = normalizedPathPerNodeHash'
  OBVIOUS
<1>4. Big' = Big /\ \A c : Right(n, c)' <=> Right(n, c)
  BY TableSame
<1>5. \A c : Right(normalizedPathPerNodeHash, c) => Right(n, c)
  BY <1>3, WantedSame DEF Right
<1>6. (\A c \in Big : Right(normalizedPathPerNodeHash, c)) => (\A c \in Big : Right(normalizedPathPerNodeHash, c))'
  BY <1>3, <1>4, <1>5 DEF Right, PathsOf
<1>7. \A c : PathsOf(normalizedPathPerNodeHash, c)' = PathsOf(normalizedPathPerNodeHash, c)
  BY DEF PathsOf, Elems
<1>8. \A got, c : PathsOf(got, c)' = PathsOf(got, c)
  BY DEF PathsOf, Elems
<1>9. \A got : Agrees(got) => Agrees(got)'
  BY <1>7, <1>8 DEF Agrees
<1>10. ASSUME Settled, answers' = answers PROVE Settled'
  <2>1. \A k \in DOMAIN answers : Agrees(answers[k].got)
    BY <1>10 DEF Settled
  <2>2. ASSUME NEW k \in DOMAIN answers' PROVE Agrees(answers[k].got)'
    <3>1. PICK g : g = answers[k].got
      OBVIOUS
    <3>2. Agrees(g)'
      BY <3>1, <2>1, <2>2, <1>9, <1>10
    <3> QED BY <3>1, <3>2, <1>10 DEF Agrees
  <2>3. AllFiled' /\ Sorted' /\ (\A c \in Big : Right(normalizedPathPerNodeHash, c))'
    BY <1>1, <1>2, <1>6, <1>10 DEF Settled
  <2> QED BY <2>2, <2>3 DEF Settled
<1> QED BY <1>1, <1>2, <1>6, <1>9, <1>10

\* The same when nothing of the tables changes.
LEMMA TablesSame ==
  ASSUME UNCHANGED <<program, fn, graph, M, pathPerNodeHash, order, size_dic, normalizedPathPerNodeHash>>, Listed
  PROVE  Listed' /\ \A d : PathsOf(normalizedPathPerNodeHash', d) = PathsOf(normalizedPathPerNodeHash, d)
<1>1. Big' = Big
  BY TableSame
<1> QED BY <1>1 DEF Listed

\* What was said to come to nothing still does.
LEMMA EmptiesSame ==
  ASSUME UNCHANGED <<program, fn, graph, M, answers>>, Empties
  PROVE  Empties'
BY FailedStays DEF Empties

\* The classes in the order they are iterated in.
LEMMA IterationsAll ==
  ASSUME NEW s \in Iterations
  PROVE  Elems(s) = DOMAIN pathPerNodeHash /\ (Elems(order) = DOMAIN pathPerNodeHash => s = order)
<1>1. CASE Elems(order) = DOMAIN pathPerNodeHash
  BY <1>1, Zenon DEF Iterations
<1>2. CASE Elems(order) # DOMAIN pathPerNodeHash
  BY <1>2, Zenon DEF Iterations
<1> QED BY <1>1, <1>2

\* One more answer.
LEMMA OneMore ==
  ASSUME Answered, NEW e, answers' = Append(answers, e)
  PROVE  /\ answers' # <<>> /\ \E k \in DOMAIN answers' : answers'[k] = e
         /\ \A k \in DOMAIN answers' : (k \in DOMAIN answers /\ answers'[k] = answers[k]) \/ answers'[k] = e
         /\ \A k \in DOMAIN answers : k \in DOMAIN answers' /\ answers'[k] = answers[k]
<1> DEFINE S == {answers[k] : k \in 1 .. Len(answers)} \cup {e}
<1>1. answers \in Seq(S) /\ e \in S
  BY DEF Answered
<1> HIDE DEF S
<1>2. /\ Len(answers') = Len(answers) + 1 /\ Len(answers) \in Nat /\ answers' \in Seq(S)
      /\ answers'[Len(answers) + 1] = e
      /\ DOMAIN answers = 1 .. Len(answers) /\ DOMAIN answers' = 1 .. Len(answers')
      /\ \A k \in 1 .. Len(answers) : answers'[k] = answers[k]
  BY <1>1, AppendElems
<1>3. Len(answers) + 1 \in DOMAIN answers'
  BY <1>2
<1> QED BY <1>2, <1>3

-----------------------------------------------------------------------------
(* The steps of an analysis of the one function *)

\* The steps that walk.
LEMMA WalkAgain ==
  ASSUME Again, UNCHANGED <<program, fn, graph, M, pathPerNodeHash, order, size_dic, normalizedPathPerNodeHash, answers>>,
         phase' = "pairs", Progress', answers # <<>> \/ phase = "pairs"
  PROVE  Again'
<1>1. Drawn' /\ AllTwins'
  BY DrawnSame DEF Again
<1>2. Inside'
  BY DEF Again, Inside, graph, Elems
<1>3. answers # <<>> => (Settled \/ Empties)'
  <2>1. Settled => Settled'
    BY SettledSame, TablesSame DEF Settled
  <2> QED BY <2>1, EmptiesSame DEF Again
<1>4. answers' = <<>> => order' = <<>> /\ size_dic' = <<>> /\ normalizedPathPerNodeHash' = Empty
  BY DEF Again
<1> QED BY <1>1, <1>2, <1>3, <1>4 DEF Again

\* Record: the table grows, and from the first answer that came to an end it stays.
LEMMA RecordAgain ==
  ASSUME Inv, Headed, Sized, OneFunction, Again, Record,
         pathPerNodeHash = [c \in DOMAIN pathPerNodeHash |-> pathPerNodeHash[c]]
  PROVE  /\ Again' /\ pathPerNodeHash' = [c \in DOMAIN pathPerNodeHash' |-> pathPerNodeHash'[c]]
         /\ Settled => pathPerNodeHash' = pathPerNodeHash
<1>1. /\ phase = "pairs" /\ pc = "done" /\ Reset
      /\ UNCHANGED <<program, fn, M, order, size_dic, normalizedPathPerNodeHash, locals, answers>>
  BY Zenon DEF Record
<1>2. UNCHANGED <<program, fn, graph, M>> /\ phase' = "pairs"
  BY <1>1 DEF Reset, locals
<1>3. WalkInv
  BY DEF Inv
<1>4. Progress /\ Progress'
  BY <1>1, ProgressRecord DEF Again
<1>5. /\ pathPerNodeHash' = [c \in DOMAIN pathPerNodeHash' |-> pathPerNodeHash'[c]]
      /\ Stored(head, Now) => pathPerNodeHash' = pathPerNodeHash
      /\ \A c \in DOMAIN pathPerNodeHash' : \A p \in Elems(pathPerNodeHash'[c]) :
            p \in PathsOf(pathPerNodeHash, c) \/ Elems(p) \subseteq Elems(path1) \cup Elems(path2)
  BY <1>3, RecordFiles
<1>6. Drawn' /\ AllTwins'
  BY <1>2, DrawnSame DEF Again
<1>7. Inside'
  <2>1. Elems(path1) \cup Elems(path2) \subseteq blocks
    <3>1. Started /\ path1 \in Seq(Node) /\ path2 \in Seq(Node) /\ Len(path1) = Len(path2)
      BY <1>1, <1>3 DEF Started, WalkInv, WalkType, InStep
    <3>2. \A i \in DOMAIN path1 : path1[i] \in blocks /\ path2[i] \in blocks
      BY <3>1, PathHash
    <3>3. DOMAIN path1 = DOMAIN path2
      BY <3>1
    <3> QED BY <3>2, <3>3 DEF Elems
  <2>2. \A c : \A p \in PathsOf(pathPerNodeHash, c) : Elems(p) \subseteq blocks
    BY DEF Again, Inside, PathsOf
  <2>3. \A c \in DOMAIN pathPerNodeHash' : \A p \in Elems(pathPerNodeHash'[c]) : Elems(p) \subseteq blocks
    BY <1>5, <2>1, <2>2, Zenon
  <2> QED BY <2>3, <1>2 DEF Inside, graph, Elems
<1>8. answers' = <<>> => order' = <<>> /\ size_dic' = <<>> /\ normalizedPathPerNodeHash' = Empty
  BY <1>1 DEF Again
<1>11. ASSUME Settled PROVE pathPerNodeHash' = pathPerNodeHash
  <2>1. AtWork \in PairsAt(head) /\ head \in DOMAIN M /\ Reaches(AtWork, Now)
    BY <1>1, <1>4 DEF Progress
  <2>2. PICK w : Reaches(AtWork, w) /\ w.pc = "done" /\ Stored(head, w)
    BY <2>1, <1>11 DEF Settled, AllFiled, Filed
  <2>3. Now.pc = "done"
    BY <1>1, NowIs
  <2>4. w = Now
    BY <2>1, <2>2, <2>3, OneEnd
  <2> QED BY <2>2, <2>4, <1>5
<1>9. answers' # <<>> => (Settled \/ Empties)'
  <2>1. ASSUME Settled PROVE Settled'
    BY <1>11, <2>1, <1>1, <1>2, SettledSame, TablesSame DEF Settled
  <2>2. Empties => Empties'
    BY <1>1, <1>2, EmptiesSame
  <2> QED BY <2>1, <2>2, <1>1 DEF Again
<1>10. Again'
  BY <1>2, <1>4, <1>6, <1>7, <1>8, <1>9 DEF Again
<1> QED BY <1>5, <1>10, <1>11

\* Sort: the classes are all there, and those of earlier calls in the same order.
LEMMA SortAgain ==
  ASSUME Sized, Again, Sort
  PROVE  Again'
<1> DEFINE C == DOMAIN pathPerNodeHash
<1>1. /\ phase = "pairs" /\ pc = "ready" /\ todo = {} /\ pairs = <<>>
      /\ phase' = "normalize" /\ order' \in Iterations /\ size_dic' = size_dic \o order'
      /\ pending' = {i \in DOMAIN size_dic' : SizeOf(size_dic'[i]) >= MinSize} /\ moved' = {}
      /\ UNCHANGED <<svars, program, fn, M, pathPerNodeHash, normalizedPathPerNodeHash, answers>>
  BY Zenon DEF Sort
<1>2. UNCHANGED <<program, fn, graph, M>>
  BY <1>1 DEF svars
<1>3. AllFiled /\ ~Failed
  BY <1>1, ProgressEnds, FiledNotFailed DEF Again
<1>4. AllFiled'
  BY <1>1, <1>2, <1>3, AllFiledStays DEF Grows, PathsOf, Elems
<1>5. /\ order' \in Seq(C) /\ size_dic \in Seq(C) /\ Elems(order') = C
      /\ order = <<>> => \A i, j \in DOMAIN order' : i # j => order'[i] # order'[j]
      /\ Elems(order) = C => order' = order
  BY <1>1, IterationsFact, IterationsAll DEF Sized
<1> HIDE DEF C
<1>6. /\ size_dic' \in Seq(C) /\ Len(size_dic') = Len(size_dic) + Len(order')
      /\ \A i \in DOMAIN size_dic' : size_dic'[i] \in C
  BY <1>1, <1>5
<1>7. Sorted'
  <2>1. CASE answers = <<>>
    <3>1. order = <<>> /\ size_dic = <<>>
      BY <2>1, <1>1 DEF Again
    <3>2. size_dic' = order' /\ DOMAIN order' \subseteq Nat
      BY <3>1, <1>1, <1>5
    <3>3. \A i \in DOMAIN order' : i <= i
      BY <3>2
    <3> QED BY <3>1, <3>2, <3>3, <1>1, <1>5 DEF Sorted, C, Elems
  <2>2. CASE answers # <<>>
    <3>1. Sorted
      BY <2>2, <1>3 DEF Again, Settled, Empties
    <3>2. order' = order /\ size_dic' = size_dic \o order /\ order \in Seq(C)
      BY <3>1, <1>1, <1>5 DEF Sorted, C
    <3>3. /\ \A i \in DOMAIN order : i \in DOMAIN size_dic /\ size_dic[i] = order[i]
          /\ \A i \in DOMAIN size_dic : \E j \in DOMAIN order : j <= i /\ order[j] = size_dic[i]
      BY <3>1 DEF Sorted
    <3>4. /\ DOMAIN size_dic' = 1 .. (Len(size_dic) + Len(order)) /\ DOMAIN size_dic = 1 .. Len(size_dic)
          /\ DOMAIN order = 1 .. Len(order) /\ Len(order) \in Nat /\ Len(size_dic) \in Nat
          /\ \A i \in 1 .. Len(size_dic) : size_dic'[i] = size_dic[i]
          /\ \A i \in 1 .. Len(order) : size_dic'[Len(size_dic) + i] = order[i]
      BY <3>2, <1>5
    <3>5. \A i \in DOMAIN order : i \in DOMAIN size_dic' /\ size_dic'[i] = order[i]
      BY <3>3, <3>4
    <3>6. ASSUME NEW i \in DOMAIN size_dic' PROVE \E j \in DOMAIN order : j <= i /\ order[j] = size_dic'[i]
      <4>1. CASE i \in DOMAIN size_dic
        BY <4>1, <3>3, <3>4
      <4>2. CASE i \notin DOMAIN size_dic
        <5>1. i - Len(size_dic) \in 1 .. Len(order) /\ i = Len(size_dic) + (i - Len(size_dic)) /\ i - Len(size_dic) <= i
          BY <4>2, <3>4
        <5>2. PICK j : j = i - Len(size_dic)
          OBVIOUS
        <5>3. j \in DOMAIN order /\ j <= i /\ size_dic'[i] = order[j]
          BY <5>1, <5>2, <3>4
        <5> QED BY <5>3
      <4> QED BY <4>1, <4>2
    <3> QED BY <3>1, <3>2, <3>5, <3>6, <1>1 DEF Sorted, Elems
  <2> QED BY <2>1, <2>2
<1>8. \A c : SizeOf(c)' = SizeOf(c)
  BY <1>1 DEF SizeOf
<1>9. Big' = Big
  BY <1>1, <1>8 DEF Big
<1>10. Listed'
  <2>1. CASE answers = <<>>
    BY <2>1, <1>1 DEF Again, Listed, Empty
  <2>2. CASE answers # <<>>
    <3>1. Listed
      BY <2>2, <1>3 DEF Again, Settled, Empties
    <3> QED BY <3>1, <1>1, <1>9 DEF Listed
  <2> QED BY <2>1, <2>2
<1>11. pending' = {i \in DOMAIN size_dic' : size_dic'[i] \in Big'}
  BY <1>1, <1>6, <1>9 DEF Big, C
<1>12. TakenAt' = {} /\ Took' = {}
  BY <1>11 DEF TakenAt, Took
<1>13. answers' = <<>> => DOMAIN normalizedPathPerNodeHash' = {}
  BY <1>1 DEF Again, Empty
<1>14. Normalizing'
  BY <1>1, <1>11, <1>12, <1>13 DEF Normalizing
<1>15. answers' # <<>> => Settled'
  <2> SUFFICES ASSUME answers # <<>> PROVE Settled'
    BY <1>1
  <2>1. Settled
    BY <1>3 DEF Again, Empties
  <2>2. order' = order
    BY <2>1, <1>5 DEF Settled, Sorted, C
  <2>3. PICK n : n = normalizedPathPerNodeHash
    OBVIOUS
  <2>4. \A c : Right(n, c)' <=> Right(n, c)
    BY <2>2, <1>1, <1>2, TableSame
  <2>5. \A c \in Big' : Right(normalizedPathPerNodeHash, c)'
    BY <2>1, <2>3, <2>4, <1>1, <1>9 DEF Settled, Right, PathsOf
  <2>6. \A g : Agrees(g)' <=> Agrees(g)
    BY <1>1 DEF Agrees, PathsOf, Elems
  <2>7. ASSUME NEW k \in DOMAIN answers PROVE Agrees(answers[k].got)'
    <3>1. PICK g : g = answers[k].got
      OBVIOUS
    <3>2. Agrees(g)'
      BY <3>1, <2>1, <2>6 DEF Settled
    <3> QED BY <3>1, <3>2, <1>1 DEF Agrees
  <2> QED BY <2>5, <2>7, <1>1, <1>4, <1>7, <1>10 DEF Settled
<1>16. Drawn' /\ AllTwins'
  BY <1>2, DrawnSame DEF Again
<1>17. Inside'
  BY <1>1, <1>2 DEF Again, Inside, graph, Elems
<1> QED BY <1>1, <1>4, <1>7, <1>10, <1>14, <1>15, <1>16, <1>17 DEF Again

\* Normalize: the class taken is right and, from the second call on, was so before.
LEMMA NormalizeAgain ==
  ASSUME Sized, Again, Normalize
  PROVE  Again'
<1>1. /\ phase = "normalize" /\ phase' = "normalize"
      /\ UNCHANGED <<svars, program, fn, M, pathPerNodeHash, order, size_dic, answers>>
  BY Zenon DEF Normalize
<1>2. UNCHANGED <<program, fn, graph, M>>
  BY <1>1 DEF svars
<1>3. AllFiled /\ Sorted /\ Listed /\ Normalizing /\ ~Failed
  BY <1>1, FiledNotFailed DEF Again
<1>4. answers # <<>> => Settled
  BY <1>3 DEF Again, Empties
<1>5. /\ Sorted' /\ Listed' /\ Normalizing'
      /\ answers # <<>> => \A d : PathsOf(normalizedPathPerNodeHash', d) = PathsOf(normalizedPathPerNodeHash, d)
  BY <1>3, <1>4, NormalizeStep DEF Settled
<1>6. answers' # <<>> => Settled'
  BY <1>1, <1>2, <1>4, <1>5, SettledSame
<1>7. AllFiled'
  BY <1>1, <1>2, <1>3, AllFiledStays DEF Grows, PathsOf, Elems
<1>8. Drawn' /\ AllTwins'
  BY <1>2, DrawnSame DEF Again
<1>9. Inside'
  BY <1>1, <1>2 DEF Again, Inside, graph, Elems
<1> QED BY <1>1, <1>5, <1>6, <1>7, <1>8, <1>9 DEF Again

\* Return: every large class was taken, and the answer says what there is of it.
LEMMA ReturnAgain ==
  ASSUME Inv, Again, Return
  PROVE  Again' /\ answers' # <<>> /\ \E k \in DOMAIN answers' : answers'[k].func = fn
<1> DEFINE N == normalizedPathPerNodeHash
           got == [c \in {d \in DOMAIN N : N[d] # <<>>} |-> N[c]]
           e == [func |-> fn, got |-> got]
<1>1. /\ phase = "normalize" /\ pending = {} /\ phase' = "idle" /\ answers' = Append(answers, e)
      /\ UNCHANGED <<svars, program, fn, tables>>
  BY Zenon DEF Return, Answer
<1>2. UNCHANGED <<program, fn, graph, M, pathPerNodeHash, order, size_dic, normalizedPathPerNodeHash>>
  BY <1>1 DEF svars, tables
<1>3. AllFiled /\ Sorted /\ Listed /\ Normalizing /\ ~Failed
  BY <1>1, FiledNotFailed DEF Again
<1>4. ASSUME NEW c \in Big PROVE Right(N, c)
  <2>1. PICK i \in DOMAIN order : order[i] = c
    BY <1>3, <1>4 DEF Sorted, Big, Elems
  <2>2. i \in DOMAIN size_dic /\ size_dic[i] = c
    BY <2>1, <1>3 DEF Sorted
  <2>3. c \in Took
    BY <2>2, <1>1, <1>4 DEF Took, TakenAt
  <2> QED BY <2>3, <1>3 DEF Normalizing
<1>5. Agrees(got)
  <2> SUFFICES ASSUME NEW c
               PROVE  (c \in DOMAIN got <=> PathsOf(N, c) # {}) /\ PathsOf(got, c) = PathsOf(N, c)
    BY DEF Agrees
  <2>1. CASE c \in DOMAIN N
    <3> DEFINE T == Seq(Node)
    <3>1. N[c] \in Seq(T)
      BY <2>1, <1>3 DEF Listed
    <3> HIDE DEF T
    <3>2. \A s \in Seq(T) : s # <<>> => 1 \in DOMAIN s
      OBVIOUS
    <3>3. N[c] # <<>> <=> Elems(N[c]) # {}
      <4>1. N[c] = <<>> => Elems(N[c]) = {}
        BY DEF Elems
      <4>2. N[c] # <<>> => N[c][1] \in Elems(N[c])
        BY <3>1, <3>2 DEF Elems
      <4> QED BY <4>1, <4>2
    <3> QED BY <3>3, <2>1 DEF PathsOf
  <2>2. CASE c \notin DOMAIN N
    BY <2>2 DEF PathsOf
  <2> QED BY <2>1, <2>2
<1>6. e.got = got /\ e.func = fn
  OBVIOUS
<1>7. PICK g : g = got
  OBVIOUS
<1> HIDE DEF got, e
<1>8. /\ answers' # <<>> /\ \E k \in DOMAIN answers' : answers'[k] = e
      /\ \A k \in DOMAIN answers' : (k \in DOMAIN answers /\ answers'[k] = answers[k]) \/ answers'[k] = e
  BY <1>1, OneMore DEF Inv
<1>9. Listed' /\ \A d : PathsOf(N', d) = PathsOf(N, d)
  BY <1>2, <1>3, TablesSame DEF N
<1>10. /\ AllFiled' /\ Sorted' /\ (\A c \in Big : Right(normalizedPathPerNodeHash, c))'
       /\ \A h : Agrees(h) => Agrees(h)'
  BY <1>2, <1>3, <1>4, <1>9, SettledSame DEF N
<1>11. ASSUME NEW k \in DOMAIN answers' PROVE Agrees(answers[k].got)'
  <2>1. Agrees(answers'[k].got)
    <3>1. CASE answers'[k] = e
      BY <3>1, <1>5, <1>6
    <3>2. CASE k \in DOMAIN answers /\ answers'[k] = answers[k]
      <4>1. answers # <<>>
        BY <3>2
      <4>2. Settled
        BY <4>1, <1>3 DEF Again, Empties
      <4> QED BY <4>2, <3>2 DEF Settled
    <3> QED BY <3>1, <3>2, <1>8
  <2>2. PICK h : h = answers'[k].got
    OBVIOUS
  <2>3. Agrees(h)'
    BY <2>1, <2>2, <1>10
  <2> QED BY <2>2, <2>3 DEF Agrees
<1>12. Settled'
  BY <1>9, <1>10, <1>11 DEF Settled
<1>13. Drawn' /\ AllTwins'
  BY <1>2, DrawnSame DEF Again
<1>14. Inside'
  BY <1>2 DEF Again, Inside, graph, Elems
<1>15. Again'
  BY <1>1, <1>8, <1>12, <1>13, <1>14 DEF Again
<1> QED BY <1>6, <1>8, <1>15

\* An exception of the walk: the pair fails again in every call, so none comes to an end.
LEMMA RaisedAgain ==
  ASSUME Inv, Again, RaisedInWalk
  PROVE  Again' /\ Empties'
<1> DEFINE e == [func |-> fn, got |-> Empty]
<1>1. /\ phase = "pairs" /\ pc = "raised" /\ Reset /\ phase' = "idle" /\ answers' = Append(answers, e)
      /\ UNCHANGED <<program, fn, tables>>
  BY Zenon DEF RaisedInWalk, Answer
<1>2. UNCHANGED <<program, fn, graph, M, pathPerNodeHash>>
  BY <1>1 DEF Reset, tables
<1>3. Failed
  BY <1>1, ProgressFails DEF Again
<1>4. Failed'
  BY <1>2, <1>3, FailedStays
<1>5. e.got = Empty
  OBVIOUS
<1> HIDE DEF e
<1>6. /\ answers' # <<>>
      /\ \A k \in DOMAIN answers' : (k \in DOMAIN answers /\ answers'[k] = answers[k]) \/ answers'[k] = e
  BY <1>1, OneMore DEF Inv
<1>7. \A k \in DOMAIN answers : answers[k].got = Empty
  BY <1>3, FiledNotFailed DEF Again, Settled, Empties
<1>8. Empties'
  BY <1>4, <1>5, <1>6, <1>7 DEF Empties, Empty
<1>9. Drawn' /\ AllTwins'
  BY <1>2, DrawnSame DEF Again
<1>10. Inside'
  BY <1>2 DEF Again, Inside, graph, Elems
<1> QED BY <1>1, <1>6, <1>8, <1>9, <1>10 DEF Again

\* The classes of one function name no block that the graph has not.
LEMMA NeverRaises ==
  ASSUME Sized, Again
  PROVE  ~RaisedInNormalize
<1> SUFFICES ASSUME RaisedInNormalize PROVE FALSE
  OBVIOUS
<1>1. PICK c : c = size_dic[NextEntry]
  OBVIOUS
<1>2. phase = "normalize" /\ pending # {} /\ MeetsMissing(pathPerNodeHash[c][1])
  BY <1>1, Zenon DEF RaisedInNormalize
<1>3. c \in DOMAIN pathPerNodeHash
  BY <1>1, <1>2, NextAhead DEF Again, Big
<1>4. pathPerNodeHash[c][1] \in Seq(Node) /\ pathPerNodeHash[c][1] \in Elems(pathPerNodeHash[c])
  <2> DEFINE T == Seq(Node)
  <2>1. pathPerNodeHash[c] \in Seq(T) /\ pathPerNodeHash[c] # <<>>
    BY <1>3 DEF Sized
  <2> HIDE DEF T
  <2>2. 1 \in DOMAIN pathPerNodeHash[c] /\ pathPerNodeHash[c][1] \in T
    BY <2>1
  <2> QED BY <2>2 DEF T, Elems
<1>5. Elems(pathPerNodeHash[c][1]) \subseteq blocks
  BY <1>3, <1>4 DEF Again, Inside
<1>6. PICK i \in 2 .. Len(pathPerNodeHash[c][1]) : pathPerNodeHash[c][1][i] \notin blocks
  BY <1>2 DEF MeetsMissing
<1>7. i \in DOMAIN pathPerNodeHash[c][1]
  BY <1>4
<1> QED BY <1>5, <1>6, <1>7 DEF Elems

\* The first call draws the graph and lists the blocks of each hash.
LEMMA AnalyzeFirst ==
  ASSUME Inv, NEW f \in DOMAIN program, Analyze(f), ~Started,
         pathPerNodeHash = Empty, order = <<>>, size_dic = <<>>, normalizedPathPerNodeHash = Empty
  PROVE  Again'
<1> DEFINE g == program[f]
           h == [n \in g.blocks |-> hash_itype2(g.code[n])]
           V == {n \in g.blocks : g.code[n] = <<>>}
<1>1. /\ fn' = f /\ M' = hashBBMatch(h, g.blocks) /\ phase' = "pairs" /\ todo' = DOMAIN M'
      /\ pc = "ready" /\ pc' = pc /\ blocks' = g.blocks /\ succs' = g.succs /\ void' = V
      /\ UNCHANGED <<program, pathPerNodeHash, order, size_dic, normalizedPathPerNodeHash, pairs, answers>>
  <2>1. /\ fn' = f /\ M' = hashBBMatch(h, g.blocks) /\ phase' = "pairs" /\ todo' = DOMAIN M'
        /\ UNCHANGED <<program, pathPerNodeHash, order, size_dic, normalizedPathPerNodeHash, pairs, answers>>
    BY Zenon DEF Analyze
  <2>2. pc = "ready" /\ pc' = pc /\ blocks' = g.blocks /\ succs' = g.succs /\ void' = V
    BY Zenon DEF Analyze, LoadGraph, walk
  <2> QED BY <2>1, <2>2
<1>2. M = Empty /\ phase = "idle" /\ answers = <<>> /\ pairs = <<>>
  BY DEF Inv, Answered, Started, HeadsAlike
<1>3. DOMAIN M = {}
  BY <1>2 DEF Empty
<1>4. \A n : Code(n)' = g.code[n]
  BY <1>1 DEF Code
<1>5. Drawn'
  BY <1>1, <1>4 DEF Drawn
<1>6. AllTwins'
  <2>1. g.blocks \in SUBSET Node /\ IsFiniteSet(g.blocks)
    BY ProgramFact DEF Inv
  <2>2. \A n \in g.blocks : h[n] = hash_itype2(g.code[n])
    OBVIOUS
  <2>3. \A x : (hash_itype2(x))' = hash_itype2(x)
    BY DEF hash_itype2
  <2> SUFFICES ASSUME NEW n \in g.blocks,
                      Cardinality({m \in g.blocks : hash_itype2(g.code[m]) = hash_itype2(g.code[n])}) > 1
               PROVE  hash_itype2(g.code[n]) \in DOMAIN M' /\ n \in Elems(M'[hash_itype2(g.code[n])])
    BY <1>1, <1>4, <2>3 DEF AllTwins, Elems
  <2>4. TwinSet(h, g.blocks, h[n]) = {m \in g.blocks : hash_itype2(g.code[m]) = hash_itype2(g.code[n])}
    BY <2>2 DEF TwinSet
  <2>5. Cardinality(TwinSet(h, g.blocks, h[n])) > 1
    BY <2>4
  <2> HIDE DEF h, g
  <2>6. h[n] \in DOMAIN M' /\ n \in Elems(M'[h[n]])
    BY <2>1, <2>5, <1>1, <1>3, TwinsFirst
  <2> QED BY <2>6, <2>2
<1>7. Inside'
  BY <1>1 DEF Inside, Empty
<1>8. Progress'
  BY <1>1, <1>2 DEF Progress
<1> QED BY <1>1, <1>2, <1>5, <1>6, <1>7, <1>8 DEF Again

-----------------------------------------------------------------------------
(* All answers about one function *)

\* A step that changes nothing.
LEMMA StutterAgain ==
  ASSUME Again, UNCHANGED vars
  PROVE  Again'
<1>1. /\ UNCHANGED <<program, fn, graph, M, pathPerNodeHash, order, size_dic, normalizedPathPerNodeHash, answers>>
      /\ UNCHANGED <<phase, todo, head, pairs, pending, moved, pc, path1, path2>> /\ UNCHANGED walk
  BY DEF vars, svars, walk, tables, locals
<1>2. Drawn' /\ AllTwins'
  BY <1>1, DrawnSame DEF Again
<1>3. Inside'
  BY <1>1 DEF Again, Inside, graph, Elems
<1>4. Progress => Progress'
  <2> SUFFICES ASSUME Progress PROVE Progress'
    OBVIOUS
  <2>1. \A x, d : (Filed(x, d) => Filed(x, d)') /\ PairsAt(x)' = PairsAt(x)
    BY <1>1, FiledGrows, PairsSame DEF Grows, PathsOf, Elems
  <2>2. AtWork' = AtWork /\ Now' = Now
    BY <1>1 DEF AtWork, Now, walk
  <2>3. \A x, d : Coming(x, d)' <=> Coming(x, d)
    BY <1>1, <2>2 DEF Coming, Elems
  <2>4. Reaches(AtWork, Now) => Reaches(AtWork, Now)'
    <3>1. PICK a, w : a = AtWork /\ w = Now
      OBVIOUS
    <3>2. Reaches(a, w)' <=> Reaches(a, w)
      BY <1>1, WalkSame
    <3>3. \A b, v : b = a /\ v = w => (Reaches(b, v)' <=> Reaches(a, w)')
      OBVIOUS
    <3> QED BY <3>1, <3>2, <2>2 DEF Reaches
  <2>5. Elems(pairs)' = Elems(pairs)
    BY <1>1 DEF Elems
  <2> QED BY <2>1, <2>2, <2>3, <2>4, <2>5, <1>1 DEF Progress
<1>5. Listed => Listed' /\ \A d : PathsOf(normalizedPathPerNodeHash', d) = PathsOf(normalizedPathPerNodeHash, d)
  BY <1>1, TablesSame
<1>6. AllFiled /\ Sorted /\ Listed => AllFiled' /\ Sorted' /\ Listed'
  BY <1>1, <1>5, SettledSame
<1>7. Normalizing => Normalizing'
  <2> SUFFICES ASSUME Normalizing PROVE Normalizing'
    OBVIOUS
  <2>1. Big' = Big /\ (\A n, d : Right(n, d)' <=> Right(n, d)) /\ \A d : SizeOf(d)' = SizeOf(d)
    BY <1>1, TableSame
  <2>2. TakenAt' = TakenAt
    BY <2>1, <1>1 DEF TakenAt
  <2>3. Took' = Took
    BY <2>2, <1>1 DEF Took
  <2>4. \A i, j : Precedes(i, j)' <=> Precedes(i, j)
    BY <2>1, <1>1 DEF Precedes, Larger
  <2>5. \A c \in Took' : Right(normalizedPathPerNodeHash, c)'
    <3>1. PICK n : n = normalizedPathPerNodeHash
      OBVIOUS
    <3>2. \A c \in Took' : Right(n, c)'
      BY <3>1, <2>1, <2>3 DEF Normalizing
    <3> QED BY <3>1, <3>2, <1>1 DEF Right, PathsOf
  <2>6. \A s : s \in moved' <=> \E c \in Took' : \E q \in PathsOf(normalizedPathPerNodeHash, c)' : s = Elems(q)
    <3>1. \A c : PathsOf(normalizedPathPerNodeHash, c)' = PathsOf(normalizedPathPerNodeHash, c)
      BY <1>1 DEF PathsOf, Elems
    <3> QED BY <3>1, <2>3, <1>1 DEF Normalizing
  <2> QED BY <2>1, <2>2, <2>3, <2>4, <2>5, <2>6, <1>1 DEF Normalizing
<1>8. Settled \/ Empties => (Settled \/ Empties)'
  <2>1. Settled => Settled'
    BY <1>1, <1>5, SettledSame DEF Settled
  <2> QED BY <2>1, <1>1, EmptiesSame
<1> QED BY <1>1, <1>2, <1>3, <1>4, <1>6, <1>7, <1>8 DEF Again

\* Before the first call the tables are empty.
LEMMA SteadyInit == Init => Steady
<1> SUFFICES ASSUME Init PROVE Steady
  OBVIOUS
<1>1. /\ M = Empty /\ pathPerNodeHash = Empty /\ order = <<>> /\ size_dic = <<>>
      /\ normalizedPathPerNodeHash = Empty /\ phase = "idle" /\ answers = <<>>
  BY DEF Init
<1>2. Empty = [x \in DOMAIN Empty |-> Empty[x]]
  BY DEF Empty
<1> QED BY <1>1, <1>2 DEF Steady, Started

\* Every step keeps the tables as an analysis of one function leaves them.
LEMMA SteadyStep == Inv /\ Headed /\ Sized /\ Steady /\ [Next]_vars => Steady'
<1> SUFFICES ASSUME Inv, Headed, Sized, Steady, [Next]_vars PROVE Steady'
  OBVIOUS
<1> DEFINE Known(m, t) == m = [x \in DOMAIN m |-> m[x]] /\ t = [c \in DOMAIN t |-> t[c]]
<1>0. WalkInv /\ Answered /\ Known(M, pathPerNodeHash)
  BY DEF Inv, Steady
<1>1. CASE UNCHANGED vars
  <2>1. UNCHANGED <<M, pathPerNodeHash, order, size_dic, normalizedPathPerNodeHash, phase, answers, fn>>
    BY <1>1 DEF vars, tables, locals
  <2>2. (Started' <=> Started) /\ (OneFunction' <=> OneFunction)
    BY <2>1 DEF Started, OneFunction
  <2>3. Again => Again'
    BY <1>1, StutterAgain
  <2> QED BY <2>1, <2>2, <2>3 DEF Steady
<1>2. ASSUME NEW f \in DOMAIN program, Analyze(f) PROVE Steady'
  <2>1. /\ UNCHANGED <<pathPerNodeHash, order, size_dic, normalizedPathPerNodeHash, answers, head, pairs, pending, moved>>
        /\ phase = "idle" /\ phase' = "pairs" /\ todo' = DOMAIN M'
    BY <1>2, Zenon DEF Analyze
  <2>2. pc = "ready" /\ pc' = "ready"
    BY <1>2, Zenon DEF Analyze, LoadGraph, walk
  <2>3. M' = [x \in DOMAIN M' |-> M'[x]]
    <3>1. \A h, B : hashBBMatch(h, B) = [x \in DOMAIN hashBBMatch(h, B) |-> hashBBMatch(h, B)[x]]
      <4> TAKE h, B
      <4> DEFINE W(x) == {n \in B : h[n] = x}
                 twins == {x \in {h[n] : n \in B} : Cardinality(W(x)) > 1}
                 E(x) == IF x \notin DOMAIN M THEN AscendingFrom(W(x))
                         ELSE IF x \in twins THEN M[x] \o NewTwins(W(x), M[x]) ELSE M[x]
      <4>1. hashBBMatch(h, B) = [x \in DOMAIN M \cup twins |-> E(x)]
        BY Zenon DEF hashBBMatch
      <4> HIDE DEF W, twins, E
      <4> QED BY <4>1
    <3>2. \E h, B : M' = hashBBMatch(h, B)
      BY <1>2, Zenon DEF Analyze
    <3> QED BY <3>1, <3>2
  <2>4. ASSUME OneFunction' PROVE Again'
    <3>1. CASE ~Started
      BY <3>1, <1>2, AnalyzeFirst DEF Steady
    <3>2. CASE Started
      <4>1. OneFunction /\ answers # <<>> /\ UNCHANGED <<program, fn, graph, M>>
        BY <3>2, <2>4, <1>2, AnalyzeAgain
      <4>2. Again
        BY <4>1, <3>2 DEF Steady
      <4>3. pairs' = <<>>
        BY <2>1 DEF Inv, HeadsAlike
      <4>4. Progress'
        BY <2>1, <2>2, <4>3 DEF Progress
      <4> QED BY <4>1, <4>2, <4>4, <2>1, WalkAgain
    <3> QED BY <3>1, <3>2
  <2>5. Started'
    BY <2>1 DEF Started
  <2> QED BY <2>1, <2>3, <2>4, <2>5, <1>0 DEF Steady
<1>3. CASE Step
  <2>1. Started
    <3>1. phase # "idle"
      <4>1. CASE (\E x \in todo : NextHash(x)) \/ NextPair \/ Walk
        BY <4>1 DEF NextHash, NextPair, Walk
      <4>2. CASE Record \/ Sort \/ Normalize \/ Return \/ RaisedInWalk \/ RaisedInNormalize
        BY <4>2, Zenon DEF Record, Sort, Normalize, Return, RaisedInWalk, RaisedInNormalize
      <4> QED BY <1>3, <4>1, <4>2 DEF Step
    <3> QED BY <3>1 DEF Started
  <2>2. OneFunction => Again
    BY <2>1 DEF Steady
  <2> SUFFICES /\ Known(M', pathPerNodeHash') /\ Started' /\ (OneFunction' => Again')
    BY DEF Steady
  <2>3. CASE (\E x \in todo : NextHash(x)) \/ NextPair \/ Walk
    <3>1. /\ UNCHANGED <<program, fn, tables, answers>> /\ phase = "pairs" /\ phase' = "pairs"
          /\ UNCHANGED graph
      <4>1. CASE \E x \in todo : NextHash(x)
        BY <4>1 DEF NextHash, svars
      <4>2. CASE NextPair
        BY <4>2 DEF NextPair, StartPair
      <4>3. CASE Walk
        <5>1. UNCHANGED graph
          BY <4>3, Zenon DEF Walk, WalkStep, Dequeue, SkipSucc, RaiseSucc, MatchSucc, NoMatch, EndSuccs, EndWalk
        <5> QED BY <4>3, <5>1 DEF Walk, locals
      <4> QED BY <2>3, <4>1, <4>2, <4>3
    <3>2. /\ UNCHANGED <<program, fn, graph, M, pathPerNodeHash, order, size_dic, normalizedPathPerNodeHash, answers>>
          /\ (OneFunction' <=> OneFunction) /\ Started'
      BY <3>1 DEF tables, OneFunction, Started
    <3>3. ASSUME OneFunction PROVE Again'
      <4>1. Again /\ Progress
        BY <2>2, <3>1, <3>3 DEF Again
      <4>2. Progress'
        BY <2>3, <4>1, ProgressNextHash, ProgressNextPair, ProgressWalk
      <4> QED BY <4>1, <4>2, <3>1, <3>2, WalkAgain
    <3> QED BY <3>2, <3>3, <1>0
  <2>4. CASE Record
    <3>1. UNCHANGED <<M, fn, answers, phase>>
      BY <2>4, Zenon DEF Record, locals
    <3>2. (OneFunction' <=> OneFunction) /\ Started'
      BY <3>1, <2>1 DEF OneFunction, Started
    <3>3. pathPerNodeHash' = [c \in DOMAIN pathPerNodeHash' |-> pathPerNodeHash'[c]]
      BY <2>4, <1>0, RecordFiles
    <3>4. OneFunction => Again'
      BY <2>2, <2>4, <1>0, RecordAgain
    <3> QED BY <3>1, <3>2, <3>3, <3>4, <1>0
  <2>5. CASE Sort \/ Normalize
    <3>1. UNCHANGED <<M, pathPerNodeHash, fn, answers>> /\ phase' = "normalize"
      BY <2>5, Zenon DEF Sort, Normalize
    <3>2. (OneFunction' <=> OneFunction) /\ Started'
      BY <3>1 DEF OneFunction, Started
    <3>3. OneFunction => Again'
      BY <2>2, <2>5, SortAgain, NormalizeAgain
    <3> QED BY <3>1, <3>2, <3>3, <1>0
  <2>6. CASE Return \/ RaisedInWalk \/ RaisedInNormalize
    <3>1. UNCHANGED <<fn, M, pathPerNodeHash>> /\ \E e : answers' = Append(answers, e)
      <4>1. CASE Return
        BY <4>1, Zenon DEF Return, Answer, tables
      <4>2. CASE RaisedInWalk
        BY <4>2, Zenon DEF RaisedInWalk, Answer, tables
      <4>3. CASE RaisedInNormalize
        BY <4>3, Zenon DEF RaisedInNormalize, Answer
      <4> QED BY <2>6, <4>1, <4>2, <4>3
    <3>2. /\ answers' # <<>>
          /\ \A k \in DOMAIN answers : k \in DOMAIN answers' /\ answers'[k] = answers[k]
      BY <3>1, <1>0, OneMore
    <3>3. (OneFunction' => OneFunction) /\ Started'
      BY <3>1, <3>2 DEF OneFunction, Started
    <3>4. OneFunction => Again'
      BY <2>2, <2>6, ReturnAgain, RaisedAgain, NeverRaises
    <3> QED BY <3>1, <3>3, <3>4, <1>0
  <2> QED BY <1>3, <2>3, <2>4, <2>5, <2>6 DEF Step
<1> QED BY <1>1, <1>2, <1>3 DEF Next

\* It holds throughout, with what is known of one walk and of the tables.
LEMMA SteadyAlways == Spec => [](Headed /\ Sized /\ Steady)
BY InvAlways, SizedInit, SizedStep, SteadyInit, SteadyStep, PTL DEF Spec

\* In no answer, of the first analysis or a later one, does an instance lie inside
\* one of a class that GetMatchedWellFormedFunctions() took before, whatever the
\* program and the order the dictionaries are iterated in.
THEOREM AnswersUncontained == Spec => []NoneContained
<1>1. Headed /\ Sized /\ Steady => NoneContained
  <2> SUFFICES ASSUME Sized, Steady, OneFunction, NEW k \in DOMAIN answers
               PROVE  Uncontained(answers[k].got)
    BY DEF NoneContained
  <2>1. answers # <<>>
    OBVIOUS
  <2>2. Settled \/ Empties
    BY <2>1 DEF Steady, Started, Again
  <2>3. CASE Empties
    BY <2>3 DEF Empties, Empty, Uncontained
  <2>4. CASE Settled
    <3>0. PICK g : g = answers[k].got
      OBVIOUS
    <3>1. Agrees(g) /\ Sorted /\ Listed
      BY <2>4, <3>0 DEF Settled
    <3> SUFFICES ASSUME NEW c \in DOMAIN g, NEW d \in DOMAIN g, TakenBefore(c, d),
                        NEW p \in Elems(g[c]), NEW q \in Elems(g[d]), Elems(q) \subseteq Elems(p)
                 PROVE  FALSE
      BY <3>0 DEF Uncontained
    <3>2. p \in PathsOf(normalizedPathPerNodeHash, c) /\ q \in PathsOf(normalizedPathPerNodeHash, d)
      BY <3>1 DEF Agrees, PathsOf
    <3>3. c \in Big /\ d \in Big
      BY <3>1, <3>2 DEF PathsOf, Listed
    <3>4. Ahead(c, d)
      <4>1. PICK i \in DOMAIN size_dic : size_dic[i] = c /\ \A j \in DOMAIN size_dic : size_dic[j] = d =>
                    SizeOf(c) > SizeOf(d) \/ (SizeOf(c) = SizeOf(d) /\ i < j)
        BY DEF TakenBefore
      <4>2. PICK m \in DOMAIN order : m <= i /\ order[m] = c
        BY <4>1, <3>1 DEF Sorted
      <4>3. PICK l \in DOMAIN order : order[l] = d
        BY <3>1, <3>3 DEF Sorted, Big, Elems
      <4>4. l \in DOMAIN size_dic /\ size_dic[l] = d
        BY <4>3, <3>1 DEF Sorted
      <4>5. SizeOf(c) > SizeOf(d) \/ (SizeOf(c) = SizeOf(d) /\ i < l)
        BY <4>1, <4>4
      <4>6. i < l => m < l
        BY <4>1, <4>2, <4>3, SizedPlaces
      <4> QED BY <4>2, <4>3, <4>5, <4>6 DEF Ahead
    <3>5. Right(normalizedPathPerNodeHash, d)
      BY <2>4, <3>3 DEF Settled
    <3>6. q \in Wanted(normalizedPathPerNodeHash, d)
      BY <3>2, <3>5 DEF Right
    <3>7. PICK i \in FreeOf(normalizedPathPerNodeHash, d) : q = pathPerNodeHash[d][i]
      BY <3>6 DEF Wanted
    <3>8. ~Within(normalizedPathPerNodeHash, c, q)
      BY <3>3, <3>4, <3>7 DEF FreeOf
    <3> QED BY <3>2, <3>8 DEF Within
  <2> QED BY <2>2, <2>3, <2>4
<1> QED BY <1>1, SteadyAlways, PTL
-----------------------------------------------------------------------------
(* What each call returns, list by list *)

\* The free paths of the class d in their order, and what is found of it: those,
\* when there are two.
Picked(paths, free) == LET at == AscendingFrom(free) IN [k \in DOMAIN at |-> paths[at[k]]]
FreeList(N, d) == Picked(pathPerNodeHash[d], FreeOf(N, d))
Found(N, d) ==
    IF d \in Big /\ EntryAtHead(pathPerNodeHash[d][1]) /\ Cardinality(FreeOf(N, d)) >= 2 THEN FreeList(N, d) ELSE <<>>

\* The class d was taken in the call that is under way.
Done(d) == phase = "normalize" /\ d \in Took

\* What the last call returned of the class d.
Last(d) == Returned(Len(answers), d)

\* The table has what the last call returned and, of the classes taken since, what
\* is found once more; and so it was at the end of each call.
Counted ==
    /\ \A d : ListAt(normalizedPathPerNodeHash, d) =
                 IF Done(d) THEN Last(d) \o Found(normalizedPathPerNodeHash, d) ELSE Last(d)
    /\ \A k \in DOMAIN answers : \A d : Returned(k, d) = Returned(k - 1, d) \o Found(normalizedPathPerNodeHash, d)

Adding == Started /\ OneFunction => Empties \/ Counted

\* As long as the table, the order and the graph stay, so does what is found.
LEMMA FoundSame ==
  ASSUME UNCHANGED <<program, fn, graph, pathPerNodeHash, order>>
  PROVE  \A N, d : Found(N, d)' = Found(N, d)
<1>1. Big' = Big /\ \A N, d : FreeOf(N, d)' = FreeOf(N, d)
  BY TableSame
<1>2. \A s : EntryAtHead(s)' <=> EntryAtHead(s)
  BY WalkSame
<1>3. \A N, d : FreeList(N, d)' = FreeList(N, d)
  <2> TAKE N, d
  <2>1. PICK F, p : F = FreeOf(N, d) /\ p = pathPerNodeHash[d]
    OBVIOUS
  <2>2. FreeList(N, d) = Picked(p, F)
    BY <2>1 DEF FreeList
  <2>3. FreeList(N, d)' = Picked(p, F)'
    BY <2>1, <1>1, Zenon DEF FreeList
  <2>4. Picked(p, F)' = Picked(p, F)
    BY DEF Picked, AscendingFrom
  <2> QED BY <2>2, <2>3, <2>4
<1> QED BY <1>1, <1>2, <1>3 DEF Found

\* What is found of a class depends on the classes taken before it.
LEMMA FoundLike ==
  ASSUME NEW N1, NEW N2, NEW d, \A c \in Big : Ahead(c, d) => PathsOf(N1, c) = PathsOf(N2, c)
  PROVE  Found(N1, d) = Found(N2, d)
<1>1. \A c \in Big : Ahead(c, d) => \A p : Within(N1, c, p) <=> Within(N2, c, p)
  BY DEF Within
<1>2. FreeOf(N1, d) = FreeOf(N2, d)
  BY <1>1 DEF FreeOf
<1> QED BY <1>2 DEF Found, FreeList

\* What is found is a list of paths.
LEMMA FoundSeq ==
  ASSUME Sized, NEW N, NEW d
  PROVE  Found(N, d) \in Seq(Seq(Node))
<1> DEFINE T == Seq(Node)
           F == FreeOf(N, d)
           at == AscendingFrom(F)
           paths == pathPerNodeHash[d]
<1> SUFFICES ASSUME d \in Big PROVE FreeList(N, d) \in Seq(T)
  BY DEF Found
<1>1. FreeList(N, d) = [k \in DOMAIN at |-> paths[at[k]]]
  BY Zenon DEF FreeList, Picked
<1>2. paths \in Seq(T)
  BY DEF Sized, Big
<1> HIDE DEF T, paths
<1>3. DOMAIN paths = 1 .. Len(paths) /\ Len(paths) \in Nat
  BY <1>2
<1>4. F \in SUBSET DOMAIN paths
  BY DEF FreeOf, paths
<1> HIDE DEF F
<1>5. IsFiniteSet(F) /\ F \in SUBSET Nat
  <2>1. IsFiniteSet(DOMAIN paths) /\ DOMAIN paths \subseteq Nat
    BY <1>3, FS_Interval
  <2> QED BY <2>1, <1>4, FS_Subset
<1>6. Elems(at) = F /\ Cardinality(F) \in Nat /\ DOMAIN at = 1 .. Cardinality(F)
  BY <1>5, AscendingAll
<1> HIDE DEF at
<1>7. \A k \in DOMAIN at : paths[at[k]] \in T
  <2>1. \A k \in DOMAIN at : at[k] \in DOMAIN paths
    BY <1>4, <1>6 DEF Elems
  <2> QED BY <2>1, <1>2
<1>8. PICK n \in Nat : n = Cardinality(F)
  BY <1>6
<1>9. FreeList(N, d) \in [1 .. n -> T]
  BY <1>1, <1>6, <1>7, <1>8
<1> QED BY <1>8, <1>9

\* The class that is taken gets what is found of it, once in a call.
LEMMA NormalizeList ==
  ASSUME Sized, Sorted, Listed, Normalizing, Normalize, NEW c, c = size_dic[NextEntry],
         answers # <<>> => Right(normalizedPathPerNodeHash, c)
  PROVE  normalizedPathPerNodeHash' =
            Put(normalizedPathPerNodeHash, c,
                IF c \in Took THEN ListAt(normalizedPathPerNodeHash, c)
                ELSE ListAt(normalizedPathPerNodeHash, c) \o Found(normalizedPathPerNodeHash, c))
<1> DEFINE N == normalizedPathPerNodeHash
           T == Seq(Node)
           L == pathPerNodeHash[c]
           old == IF c \in DOMAIN N THEN N[c] ELSE <<>>
           kept == old \o NotMoved(c)
           new == IF ~EntryAtHead(L[1]) THEN old ELSE IF Len(kept) < 2 THEN <<>> ELSE kept
           free == {i \in DOMAIN L : \A s \in moved : ~(Elems(L[i]) \subseteq s)}
           F == FreeOf(N, c)
<1>1. pending # {} /\ N' = Put(N, c, new)
  BY Zenon DEF Normalize
<1>2. /\ c \in Big /\ \A d \in Big : Ahead(d, c) => d \in Took
      /\ c \notin Took => \A d \in Took : Ahead(d, c)
  BY <1>1, NextAhead
<1>3. c \in DOMAIN pathPerNodeHash
  BY <1>2 DEF Big
<1>4. /\ NotMoved(c) \in Seq(T) /\ IsFiniteSet(free) /\ Len(NotMoved(c)) = Cardinality(free)
  BY <1>3, NotMovedAll
<1>5. old \in Seq(T) /\ (old = <<>> \/ Len(old) >= 2) /\ Elems(old) = PathsOf(N, c)
  BY <1>2 DEF Listed, PathsOf, Elems
<1>6. \A s : s \in moved <=> \E d \in Took : \E q \in PathsOf(N, d) : s = Elems(q)
  BY DEF Normalizing
<1>7. \A d \in Took : d \in Big
  BY DEF Took, TakenAt
<1>8. free \subseteq F
  <2> SUFFICES ASSUME NEW i \in free, NEW d \in Big, Ahead(d, c), NEW q \in PathsOf(N, d), Elems(L[i]) \subseteq Elems(q)
               PROVE  FALSE
    BY DEF FreeOf, Within
  <2>1. Elems(q) \in moved
    BY <1>2, <1>6
  <2> QED BY <2>1
<1>9. c \notin Took => F \subseteq free
  <2> SUFFICES ASSUME c \notin Took, NEW i \in F, NEW s \in moved, Elems(L[i]) \subseteq s PROVE FALSE
    BY DEF FreeOf
  <2>1. PICK d \in Took : \E q \in PathsOf(N, d) : s = Elems(q)
    BY <1>6
  <2>2. Ahead(d, c) /\ d \in Big
    BY <1>2, <1>7
  <2> QED BY <2>1, <2>2 DEF FreeOf, Within
<1>10. IsFiniteSet(F) /\ Cardinality(F) \in Nat /\ Cardinality(free) \in Nat /\ Cardinality(free) <= Cardinality(F)
  <2>1. IsFiniteSet(DOMAIN L)
    <3>1. L \in Seq(T)
      BY <1>3 DEF Sized
    <3>2. DOMAIN L = 1 .. Len(L) /\ Len(L) \in Nat
      BY <3>1
    <3> QED BY <3>2, FS_Interval
  <2>2. F \in SUBSET DOMAIN L
    BY DEF FreeOf
  <2> HIDE DEF F, L, free
  <2>3. IsFiniteSet(F)
    BY <2>1, <2>2, FS_Subset
  <2> QED BY <2>3, <1>4, <1>8, FS_Subset, FS_CardinalityType
<1>11. c \notin Took => NotMoved(c) = FreeList(N, c)
  <2> SUFFICES ASSUME c \notin Took PROVE NotMoved(c) = FreeList(N, c)
    OBVIOUS
  <2>1. free = F
    BY <1>8, <1>9
  <2>2. FreeList(N, c) = [k \in DOMAIN AscendingFrom(F) |-> L[AscendingFrom(F)[k]]]
    BY Zenon DEF FreeList, Picked
  <2>3. NotMoved(c) = [k \in DOMAIN AscendingFrom(free) |-> L[AscendingFrom(free)[k]]]
    BY Zenon DEF NotMoved
  <2> HIDE DEF free, F
  <2> QED BY <2>1, <2>2, <2>3
<1>12. Elems(old) = {} => old = <<>>
  <2> HIDE DEF old, T
  <2>1. old # <<>> => 1 \in DOMAIN old
    BY <1>5
  <2> QED BY <2>1 DEF Elems
<1>13. Wanted(N, c) = IF EntryAtHead(L[1]) /\ Cardinality(F) >= 2 THEN {L[i] : i \in F} ELSE {}
  BY DEF Wanted
<1>14. c \in Took \/ answers # <<>> => Elems(old) = Wanted(N, c)
  BY <1>5 DEF Normalizing, Right
<1>15. c \notin Took /\ answers = <<>> => old = <<>>
  BY DEF Normalizing
<1>16. Found(N, c) = IF EntryAtHead(L[1]) /\ Cardinality(F) >= 2 THEN FreeList(N, c) ELSE <<>>
  BY <1>2 DEF Found
<1>17. ~(EntryAtHead(L[1]) /\ Cardinality(F) >= 2) => old = <<>>
  BY <1>12, <1>13, <1>14, <1>15
<1>18. c \in Took /\ EntryAtHead(L[1]) /\ Cardinality(F) >= 2 => free = {} /\ old # <<>>
  <2> SUFFICES ASSUME c \in Took, EntryAtHead(L[1]), Cardinality(F) >= 2 PROVE free = {} /\ old # <<>>
    OBVIOUS
  <2>1. \A i \in F : L[i] \in Elems(old)
    BY <1>13, <1>14
  <2>2. ASSUME NEW i \in free PROVE FALSE
    <3>0. i \in F /\ Elems(old) = PathsOf(N, c)
      BY <2>2, <1>5, <1>8, Zenon
    <3>1. L[i] \in PathsOf(N, c)
      BY <2>1, <3>0, Zenon
    <3>2. Elems(L[i]) \in moved
      BY <3>1, <1>6
    <3> QED BY <3>2
  <2>3. F # {}
    <3>1. Cardinality({}) = 0
      BY FS_EmptySet, Zenon
    <3>2. Cardinality(F) >= 2
      OBVIOUS
    <3> HIDE DEF F
    <3>3. F = {} => 0 >= 2
      BY <3>1, <3>2, Zenon
    <3> QED BY <3>3
  <2>4. Elems(<<>>) = {}
    BY DEF Elems
  <2> HIDE DEF F, old
  <2> QED BY <2>1, <2>2, <2>3, <2>4
<1>19. ListAt(N, c) = old
  BY DEF ListAt
<1>20. Cardinality({}) = 0
  BY FS_EmptySet
<1>21. \A q \in Seq(T) : Len(q) \in Nat /\ (Len(q) = 0 => q = <<>>) /\ q \o <<>> = q /\ <<>> \o q = q
  <2> HIDE DEF T
  <2> QED OBVIOUS
<1>22. Len(kept) = Len(old) + Len(NotMoved(c))
  <2> HIDE DEF T, old
  <2> QED BY <1>4, <1>5
<1> HIDE DEF free, F, L, old, T, N
<1>23. new = IF c \in Took THEN old ELSE old \o Found(N, c)
  <2>1. CASE ~EntryAtHead(L[1])
    <3>1. old = <<>> /\ Found(N, c) = <<>> /\ new = old
      BY <2>1, <1>16, <1>17
    <3> QED BY <3>1, <1>5, <1>21
  <2>2. CASE EntryAtHead(L[1]) /\ ~(Cardinality(F) >= 2)
    <3>1. old = <<>> /\ Found(N, c) = <<>> /\ Cardinality(free) < 2
      BY <2>2, <1>10, <1>16, <1>17
    <3>2. kept = NotMoved(c)
      BY <3>1, <1>4, <1>21
    <3>3. new = <<>>
      BY <3>1, <3>2, <2>2, <1>4
    <3> HIDE DEF new, kept
    <3> QED BY <3>1, <3>3, <1>5, <1>21
  <2>3. CASE EntryAtHead(L[1]) /\ Cardinality(F) >= 2 /\ c \in Took
    <3>1. Len(NotMoved(c)) = 0 /\ old # <<>>
      BY <2>3, <1>4, <1>18, <1>20
    <3>2. kept = old /\ Len(old) >= 2
      BY <3>1, <1>4, <1>5, <1>21
    <3>3. ~(Len(kept) < 2)
      BY <3>2, <1>5, <1>21
    <3> HIDE DEF kept
    <3> QED BY <3>2, <3>3, <2>3
  <2>4. CASE EntryAtHead(L[1]) /\ Cardinality(F) >= 2 /\ c \notin Took
    <3>1. free = F /\ Found(N, c) = NotMoved(c)
      <4>1. free = F
        BY <2>4, <1>8, <1>9 DEF F, free
      <4> QED BY <4>1, <2>4, <1>11, <1>16
    <3>2. kept = old \o Found(N, c)
      BY <3>1
    <3>3. ~(Len(kept) < 2)
      BY <3>1, <2>4, <1>4, <1>5, <1>10, <1>21, <1>22
    <3> HIDE DEF kept
    <3> QED BY <3>2, <3>3, <2>4
  <2> QED BY <2>1, <2>2, <2>3, <2>4
<1> HIDE DEF new
<1> QED BY <1>1, <1>19, <1>23 DEF N

\* A step that takes no class and returns nothing.
LEMMA CountedSame ==
  ASSUME Counted, UNCHANGED <<program, fn, graph, answers, normalizedPathPerNodeHash>>,
         answers # <<>> \/ phase = "normalize" => UNCHANGED <<pathPerNodeHash, order>>,
         \A d : Done(d)' <=> Done(d)
  PROVE  Counted'
<1>1. PICK n : n = normalizedPathPerNodeHash
  OBVIOUS
<1>2. answers # <<>> \/ phase = "normalize" => \A d : Found(n, d)' = Found(n, d)
  BY FoundSame
<1>3. \A k, d : Returned(k, d)' = Returned(k, d)
  BY DEF Returned, ListAt
<1>4. \A d : Last(d)' = Last(d)
  BY <1>3 DEF Last, Returned, ListAt
<1>5. \A d : ListAt(n, d)' = ListAt(n, d)
  BY DEF ListAt
<1>6. \A d : Done(d) => Found(n, d)' = Found(n, d)
  BY <1>2 DEF Done
<1>7. \A d : ListAt(n, d)' = (IF Done(d)' THEN Last(d)' \o Found(n, d)' ELSE Last(d)')
  BY <1>1, <1>4, <1>5, <1>6 DEF Counted
<1>8. ASSUME NEW k \in DOMAIN answers' PROVE \A d : Returned(k, d)' = Returned(k - 1, d)' \o Found(n, d)'
  <2>1. k \in DOMAIN answers /\ answers # <<>>
    BY <1>8
  <2> QED BY <2>1, <1>1, <1>2, <1>3 DEF Counted
<1> QED BY <1>1, <1>7, <1>8 DEF Counted

\* Normalize: the class taken gets what is found of it, the others keep what they have.
LEMMA NormalizeCounted ==
  ASSUME Sized, Again, Counted, Normalize
  PROVE  Counted'
<1> DEFINE N == normalizedPathPerNodeHash
<1>1. PICK c : c = size_dic[NextEntry]
  OBVIOUS
<1>2. /\ phase = "normalize" /\ phase' = "normalize"
      /\ UNCHANGED <<svars, program, fn, pathPerNodeHash, order, answers>>
  BY Zenon DEF Normalize
<1>3. UNCHANGED <<program, fn, graph, pathPerNodeHash, order>>
  BY <1>2 DEF svars
<1>4. Sorted /\ Listed /\ Normalizing /\ (answers # <<>> => \A d \in Big : Right(N, d))
  BY <1>2, FiledNotFailed DEF Again, Settled, Empties
<1>5. /\ answers # <<>> => \A d : PathsOf(N', d) = PathsOf(N, d)
      /\ Took' = Took \cup {c}
      /\ \A d \in Took', b \in Big : Ahead(b, d) => PathsOf(N', b) = PathsOf(N, b)
  BY <1>1, <1>4, NormalizeStep
<1>6. c \in Big
  BY <1>1, <1>4, NextAhead, Zenon DEF Normalize
<1>7. N' = Put(N, c, IF c \in Took THEN ListAt(N, c) ELSE ListAt(N, c) \o Found(N, c))
  BY <1>1, <1>4, <1>6, NormalizeList
<1>8. PICK m, n : m = N' /\ n = N
  OBVIOUS
<1>9. /\ ListAt(m, c) = IF c \in Took THEN ListAt(n, c) ELSE ListAt(n, c) \o Found(n, c)
      /\ \A d : d # c => ListAt(m, d) = ListAt(n, d)
  BY <1>7, <1>8 DEF Put, ListAt
<1>10. \A d : (d \in Took' \/ answers # <<>>) => Found(m, d) = Found(n, d)
  BY <1>5, <1>8, FoundLike
<1>11. \A d : Found(m, d)' = Found(m, d)
  BY <1>3, FoundSame
<1>12. \A k, d : Returned(k, d)' = Returned(k, d)
  BY <1>2 DEF Returned, ListAt
<1>13. \A d : Last(d)' = Last(d)
  BY <1>2, <1>12 DEF Last, Returned, ListAt
<1>14. \A d : (Done(d) <=> d \in Took) /\ (Done(d)' <=> d \in Took')
  BY <1>2 DEF Done
<1>15. \A d : ListAt(m, d)' = ListAt(m, d)
  BY DEF ListAt
<1>16. \A d : ListAt(n, d) = IF d \in Took THEN Last(d) \o Found(n, d) ELSE Last(d)
  BY <1>8, <1>14 DEF Counted
<1>17. ASSUME NEW d PROVE ListAt(m, d) = IF d \in Took' THEN Last(d) \o Found(m, d) ELSE Last(d)
  <2>1. CASE d = c
    BY <2>1, <1>5, <1>9, <1>10, <1>16
  <2>2. CASE d # c
    BY <2>2, <1>5, <1>9, <1>10, <1>16
  <2> QED BY <2>1, <2>2
<1>18. \A d : ListAt(m, d)' = (IF Done(d)' THEN Last(d)' \o Found(m, d)' ELSE Last(d)')
  BY <1>11, <1>13, <1>14, <1>15, <1>17
<1>19. ASSUME NEW k \in DOMAIN answers' PROVE \A d : Returned(k, d)' = Returned(k - 1, d)' \o Found(m, d)'
  <2>1. k \in DOMAIN answers /\ answers # <<>>
    BY <1>2, <1>19
  <2> QED BY <2>1, <1>8, <1>10, <1>11, <1>12 DEF Counted
<1> QED BY <1>8, <1>18, <1>19 DEF Counted

\* Return: every large class was taken, and what the table has is returned.
LEMMA ReturnCounted ==
  ASSUME Inv, Again, Counted, Return
  PROVE  Counted'
<1> DEFINE N == normalizedPathPerNodeHash
           got == [c \in {d \in DOMAIN N : N[d] # <<>>} |-> N[c]]
           e == [func |-> fn, got |-> got]
<1>1. /\ phase = "normalize" /\ pending = {} /\ phase' = "idle" /\ answers' = Append(answers, e)
      /\ UNCHANGED <<svars, program, fn, tables>>
  BY Zenon DEF Return, Answer
<1>2. UNCHANGED <<program, fn, graph, pathPerNodeHash, order, size_dic, normalizedPathPerNodeHash>>
  BY <1>1 DEF svars, tables
<1>3. Sorted /\ Listed
  BY <1>1 DEF Again
<1>4. \A d : d \in Took <=> d \in Big
  <2>1. ASSUME NEW d \in Big PROVE d \in Took
    <3>1. PICK i \in DOMAIN order : order[i] = d
      BY <1>3 DEF Sorted, Big, Elems
    <3>2. i \in DOMAIN size_dic /\ size_dic[i] = d
      BY <3>1, <1>3 DEF Sorted
    <3> QED BY <3>2, <1>1 DEF Took, TakenAt
  <2>2. \A d \in Took : d \in Big
    BY DEF Took, TakenAt
  <2> QED BY <2>1, <2>2
<1>5. \A d : ListAt(got, d) = ListAt(N, d)
  BY DEF ListAt
<1>6. \A d : ListAt(N, d) = Last(d) \o Found(N, d)
  <2> TAKE d
  <2>1. CASE d \in Big
    BY <2>1, <1>1, <1>4 DEF Counted, Done
  <2>2. CASE d \notin Big
    <3>1. ListAt(N, d) = <<>> /\ Found(N, d) = <<>>
      BY <2>2, <1>3 DEF Listed, ListAt, Found
    <3>2. Last(d) = <<>>
      BY <2>2, <3>1, <1>4 DEF Counted, Done
    <3>3. <<>> \o <<>> = <<>>
      OBVIOUS
    <3> QED BY <3>1, <3>2, <3>3
  <2> QED BY <2>1, <2>2
<1>7. e.got = got
  OBVIOUS
<1> HIDE DEF got, e
<1>8. /\ Len(answers') = Len(answers) + 1 /\ Len(answers) \in Nat /\ answers'[Len(answers) + 1] = e
      /\ DOMAIN answers = 1 .. Len(answers) /\ DOMAIN answers' = 1 .. Len(answers')
      /\ \A k \in 1 .. Len(answers) : answers'[k] = answers[k]
  <2> DEFINE S == {answers[k] : k \in 1 .. Len(answers)} \cup {e}
  <2>1. answers \in Seq(S) /\ e \in S
    BY DEF Inv, Answered
  <2> HIDE DEF S
  <2> QED BY <2>1, <1>1, AppendElems
<1>9. PICK n, l : n = N /\ l = Len(answers)
  OBVIOUS
<1>10. l \in Nat /\ Len(answers') = l + 1 /\ DOMAIN answers = 1 .. l /\ DOMAIN answers' = 1 .. (l + 1)
  BY <1>8, <1>9
<1>11. ASSUME NEW k, k \in Nat, k <= l PROVE \A d : Returned(k, d)' = Returned(k, d)
  <2>1. k \in DOMAIN answers' <=> k \in DOMAIN answers
    BY <1>10, <1>11
  <2>2. k \in DOMAIN answers => answers'[k] = answers[k]
    BY <1>8
  <2> QED BY <2>1, <2>2 DEF Returned, ListAt
<1>12. \A d : Returned(l + 1, d)' = ListAt(n, d)
  <2>1. l + 1 \in DOMAIN answers' /\ answers'[l + 1].got = got
    BY <1>7, <1>8, <1>9, <1>10
  <2>2. \A d : Returned(l + 1, d)' = ListAt(got, d)
    BY <2>1 DEF Returned, ListAt
  <2> QED BY <2>2, <1>5, <1>9
<1>13. \A d : Found(n, d)' = Found(n, d)
  BY <1>2, FoundSame
<1>14. \A d : Last(d)' = ListAt(n, d)
  BY <1>10, <1>12 DEF Last, Returned, ListAt
<1>15. \A d : ListAt(n, d)' = ListAt(n, d)
  BY DEF ListAt
<1>16. \A d : ~Done(d)'
  BY <1>1 DEF Done
<1>17. ASSUME NEW k \in 1 .. (l + 1) PROVE \A d : Returned(k, d)' = Returned(k - 1, d)' \o Found(n, d)'
  <2> TAKE d
  <2>1. CASE k = l + 1
    <3>1. k - 1 = l /\ k - 1 \in Nat /\ k - 1 <= l
      BY <2>1, <1>10
    <3>2. Returned(k, d)' = Returned(l, d) \o Found(n, d)
      BY <2>1, <1>6, <1>9, <1>12 DEF Last
    <3>3. Returned(k - 1, d)' = Returned(k - 1, d)
      BY <3>1, <1>11
    <3>4. Returned(k - 1, d) = Returned(l, d)
      BY <3>1
    <3> QED BY <3>2, <3>3, <3>4, <1>13
  <2>2. CASE k # l + 1
    <3>1. k \in 1 .. l /\ k \in Nat /\ k <= l /\ k - 1 \in Nat /\ k - 1 <= l
      BY <2>2, <1>10
    <3>2. Returned(k, d) = Returned(k - 1, d) \o Found(n, d)
      BY <3>1, <1>9, <1>10 DEF Counted
    <3> QED BY <3>1, <3>2, <1>11, <1>13
  <2> QED BY <2>1, <2>2
<1>18. \A d : ListAt(n, d)' = (IF Done(d)' THEN Last(d)' \o Found(n, d)' ELSE Last(d)')
  BY <1>14, <1>15, <1>16
<1> QED BY <1>2, <1>9, <1>10, <1>17, <1>18 DEF Counted

\* Sort takes nothing yet, and a later call iterates the classes as the first did.
LEMMA SortCounted ==
  ASSUME Sized, Again, Counted, Sort
  PROVE  Counted'
<1>1. /\ phase = "pairs" /\ pc = "ready" /\ todo = {} /\ pairs = <<>> /\ phase' = "normalize"
      /\ order' \in Iterations /\ size_dic' = size_dic \o order'
      /\ pending' = {i \in DOMAIN size_dic' : SizeOf(size_dic'[i]) >= MinSize}
      /\ UNCHANGED <<svars, program, fn, M, pathPerNodeHash, normalizedPathPerNodeHash, answers>>
  BY Zenon DEF Sort
<1>2. UNCHANGED <<program, fn, graph, M>>
  BY <1>1 DEF svars
<1>3. AllFiled /\ ~Failed
  BY <1>1, ProgressEnds, FiledNotFailed DEF Again
<1>4. answers # <<>> => order' = order
  BY <1>1, <1>3, IterationsAll DEF Again, Settled, Empties, Sorted
<1>5. \A d : ~Done(d) /\ ~Done(d)'
  <2>1. \A c : SizeOf(c)' = SizeOf(c)
    BY <1>1 DEF SizeOf
  <2>2. Big' = Big
    BY <2>1, <1>1 DEF Big
  <2>3. \A i \in DOMAIN size_dic' : size_dic'[i] \in Big' => i \in pending'
    BY <2>2, <1>1 DEF Big
  <2>4. Took' = {}
    BY <2>3 DEF Took, TakenAt
  <2> QED BY <2>4, <1>1 DEF Done
<1> QED BY <1>1, <1>2, <1>4, <1>5, CountedSame

\* Every step keeps the count.
LEMMA AddingStep == Inv /\ Headed /\ Sized /\ Steady /\ Adding /\ [Next]_vars => Adding'
<1> SUFFICES ASSUME Inv, Headed, Sized, Steady, Adding, [Next]_vars, Started', OneFunction'
             PROVE  Empties' \/ Counted'
  BY DEF Adding
<1>0. Answered
  BY DEF Inv
<1>1. CASE UNCHANGED vars
  <2>1. UNCHANGED <<program, fn, graph, M, pathPerNodeHash, order, size_dic, normalizedPathPerNodeHash, phase, pending, answers>>
    BY <1>1 DEF vars, svars, tables, locals
  <2>2. Started /\ OneFunction
    BY <2>1 DEF Started, OneFunction
  <2>3. Took' = Took
    <3>1. Big' = Big
      BY <2>1, TableSame
    <3>2. TakenAt' = TakenAt
      BY <3>1, <2>1 DEF TakenAt
    <3> QED BY <3>2, <2>1 DEF Took
  <2>4. \A d : Done(d)' <=> Done(d)
    BY <2>1, <2>3 DEF Done
  <2> QED BY <2>1, <2>2, <2>4, CountedSame, EmptiesSame DEF Adding
<1>2. ASSUME NEW f \in DOMAIN program, Analyze(f) PROVE Empties' \/ Counted'
  <2>1. /\ UNCHANGED <<pathPerNodeHash, order, size_dic, normalizedPathPerNodeHash, answers>>
        /\ phase = "idle" /\ phase' = "pairs"
    BY <1>2, Zenon DEF Analyze
  <2>2. CASE ~Started
    <3>1. answers' = <<>> /\ normalizedPathPerNodeHash' = Empty /\ phase' # "normalize"
      BY <2>1, <2>2 DEF Steady, Started
    <3>2. Counted'
      <4>1. Empty' = Empty
        BY DEF Empty
      <4>2. \A d : ListAt(normalizedPathPerNodeHash, d)' = <<>> /\ Last(d)' = <<>> /\ ~Done(d)'
        BY <3>1 DEF ListAt, Empty, Last, Returned, Done
      <4> QED BY <3>1, <4>2 DEF Counted
    <3> QED BY <3>2
  <2>3. CASE Started
    <3>1. OneFunction /\ UNCHANGED <<program, fn, graph, M>>
      BY <2>3, <1>2, AnalyzeAgain
    <3>2. \A d : Done(d)' <=> Done(d)
      BY <2>1 DEF Done
    <3> QED BY <2>1, <2>3, <3>1, <3>2, CountedSame, EmptiesSame DEF Adding
  <2> QED BY <2>2, <2>3
<1>3. CASE Step
  <2>1. Started
    <3>1. phase # "idle"
      <4>1. CASE (\E x \in todo : NextHash(x)) \/ NextPair \/ Walk
        BY <4>1 DEF NextHash, NextPair, Walk
      <4>2. CASE Record \/ Sort \/ Normalize \/ Return \/ RaisedInWalk \/ RaisedInNormalize
        BY <4>2, Zenon DEF Record, Sort, Normalize, Return, RaisedInWalk, RaisedInNormalize
      <4> QED BY <1>3, <4>1, <4>2 DEF Step
    <3> QED BY <3>1 DEF Started
  <2>2. CASE (\E x \in todo : NextHash(x)) \/ NextPair \/ Walk
    <3>1. UNCHANGED <<program, fn, tables, answers, graph>> /\ phase = "pairs" /\ phase' = "pairs"
      <4>1. CASE \E x \in todo : NextHash(x)
        BY <4>1 DEF NextHash, svars
      <4>2. CASE NextPair
        BY <4>2 DEF NextPair, StartPair
      <4>3. CASE Walk
        <5>1. UNCHANGED graph
          BY <4>3, Zenon DEF Walk, WalkStep, Dequeue, SkipSucc, RaiseSucc, MatchSucc, NoMatch, EndSuccs, EndWalk
        <5> QED BY <4>3, <5>1 DEF Walk, locals
      <4> QED BY <2>2, <4>1, <4>2, <4>3
    <3>2. /\ UNCHANGED <<program, fn, graph, M, pathPerNodeHash, order, normalizedPathPerNodeHash, answers>>
          /\ OneFunction /\ \A d : Done(d)' <=> Done(d)
      BY <3>1 DEF tables, OneFunction, Done
    <3> QED BY <3>2, <2>1, CountedSame, EmptiesSame DEF Adding
  <2>3. CASE Record
    <3>1. /\ phase = "pairs" /\ phase' = "pairs" /\ Reset
          /\ UNCHANGED <<program, fn, M, order, normalizedPathPerNodeHash, answers>>
      BY <2>3, Zenon DEF Record, locals
    <3>2. UNCHANGED graph /\ OneFunction /\ \A d : Done(d)' <=> Done(d)
      BY <3>1 DEF Reset, OneFunction, Done
    <3>3. Again /\ (Settled => pathPerNodeHash' = pathPerNodeHash)
      BY <2>1, <2>3, <3>2, RecordAgain DEF Steady
    <3>4. CASE Empties
      BY <3>1, <3>2, <3>4, EmptiesSame
    <3>5. CASE Counted /\ ~Empties
      <4>1. answers # <<>> => pathPerNodeHash' = pathPerNodeHash
        BY <3>3, <3>5 DEF Again
      <4> QED BY <3>1, <3>2, <3>5, <4>1, CountedSame
    <3> QED BY <3>2, <3>4, <3>5, <2>1 DEF Adding
  <2>4. CASE Sort \/ Normalize
    <3>1. UNCHANGED <<svars, program, fn, M, answers>> /\ (Sort => phase = "pairs") /\ (Normalize => phase = "normalize")
      BY <2>4, Zenon DEF Sort, Normalize
    <3>2. OneFunction /\ Again /\ UNCHANGED graph
      BY <2>1, <3>1 DEF OneFunction, Steady, svars
    <3>3. CASE Empties
      BY <3>1, <3>2, <3>3, EmptiesSame
    <3>4. CASE Counted
      BY <2>4, <3>2, <3>4, SortCounted, NormalizeCounted
    <3> QED BY <3>2, <3>3, <3>4, <2>1 DEF Adding
  <2>5. CASE Return \/ RaisedInWalk \/ RaisedInNormalize
    <3>1. UNCHANGED fn /\ \E e : answers' = Append(answers, e)
      <4>1. CASE Return
        BY <4>1, Zenon DEF Return, Answer
      <4>2. CASE RaisedInWalk
        BY <4>2, Zenon DEF RaisedInWalk, Answer
      <4>3. CASE RaisedInNormalize
        BY <4>3, Zenon DEF RaisedInNormalize, Answer
      <4> QED BY <2>5, <4>1, <4>2, <4>3
    <3>2. \A k \in DOMAIN answers : k \in DOMAIN answers' /\ answers'[k] = answers[k]
      BY <3>1, <1>0, OneMore
    <3>3. OneFunction /\ Again
      BY <3>1, <3>2, <2>1 DEF OneFunction, Steady
    <3>4. ~RaisedInNormalize
      BY <3>3, NeverRaises
    <3>5. RaisedInWalk => Empties'
      BY <3>3, RaisedAgain
    <3>6. ASSUME Return PROVE Counted'
      <4>1. AllFiled /\ ~Failed
        BY <3>3, <3>6, FiledNotFailed, Zenon DEF Return, Again
      <4>2. Counted
        BY <4>1, <3>3, <2>1 DEF Adding, Empties
      <4> QED BY <4>2, <3>3, <3>6, ReturnCounted
    <3> QED BY <2>5, <3>4, <3>5, <3>6
  <2> QED BY <1>3, <2>2, <2>3, <2>4, <2>5 DEF Step
<1> QED BY <1>1, <1>2, <1>3 DEF Next

\* However often one function is analysed, every call finds the same instances,
\* and returns them behind those of the calls before: a pair of blocks is walked the
\* same way each time, so the table of the first call that comes to an end is
\* complete and stays; the first entry of a class finds nothing of it moved and
\* appends what is free again, and its other entries find all of it moved; and
\* when a walk fails, it fails each time.
THEOREM AnalysesRepeat == Spec => []AddedAgain
<1>1. Init => Adding
  BY DEF Init, Adding, Started
<1>2. Inv /\ Headed /\ Sized /\ Steady /\ Adding => AddedAgain
  <2> SUFFICES ASSUME Inv, Sized, Steady, Adding, OneFunction, NEW k \in DOMAIN answers
               PROVE  /\ DOMAIN answers[k].got = DOMAIN answers[1].got
                      /\ \A c \in DOMAIN answers[k].got : Returned(k, c) = Returned(k - 1, c) \o Returned(1, c)
    BY DEF AddedAgain
  <2>1. answers # <<>> /\ Started /\ 1 \in DOMAIN answers
    BY DEF Inv, Answered, Started
  <2>2. Settled \/ Empties
    BY <2>1 DEF Steady, Again
  <2>3. CASE Settled /\ ~Empties
    <3>1. Agrees(answers[1].got) /\ Agrees(answers[k].got)
      BY <2>1, <2>3 DEF Settled
    <3>2. \A c : c \in DOMAIN answers[1].got <=> c \in DOMAIN answers[k].got
      BY <3>1 DEF Agrees
    <3>3. PICK S1, S2 : S1 = DOMAIN answers[1].got /\ S2 = DOMAIN answers[k].got
      OBVIOUS
    <3>4. S1 = S2
      BY <3>2, <3>3
    <3>5. Counted
      BY <2>1, <2>3 DEF Adding
    <3>6. ASSUME NEW c PROVE Returned(1, c) = Found(normalizedPathPerNodeHash, c)
      <4>1. Returned(1, c) = Returned(1 - 1, c) \o Found(normalizedPathPerNodeHash, c)
        BY <2>1, <3>5 DEF Counted
      <4>2. Returned(1 - 1, c) = <<>>
        BY DEF Returned, Inv, Answered
      <4> DEFINE T == Seq(Node)
      <4>3. Found(normalizedPathPerNodeHash, c) \in Seq(T)
        BY FoundSeq
      <4> HIDE DEF T
      <4>4. \A s \in Seq(T) : <<>> \o s = s
        OBVIOUS
      <4> QED BY <4>1, <4>2, <4>3, <4>4
    <3> QED BY <3>3, <3>4, <3>5, <3>6 DEF Counted
  <2>4. CASE Empties
    <3>1. answers[k].got = Empty /\ answers[1].got = Empty /\ DOMAIN Empty = {}
      BY <2>1, <2>4 DEF Empties, Empty
    <3> QED BY <3>1
  <2> QED BY <2>2, <2>3, <2>4
<1>3. Spec => []Adding
  BY <1>1, InvAlways, SteadyAlways, AddingStep, PTL DEF Spec
<1> QED BY <1>2, <1>3, InvAlways, SteadyAlways, PTL
=============================================================================
