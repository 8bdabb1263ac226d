----------------------------- MODULE SubGraphs -----------------------------
(***************************************************************************)
(* The walk at the heart of the matcher: from two blocks that match,        *)
(* findSubGraphs() of bbgroup/bb_match.py follows the edges of both in step *)
(* and collects two equally shaped subgraphs, path1 and path2. Dequeuing a  *)
(* pair and trying one of its successors are the steps.                     *)
(*                                                                         *)
(* sim[t] holds the pairs of blocks that match by the hash type t (module   *)
(* BlockHash), and `void' the blocks without an instruction, which make the *)
(* comparison of frequencies divide by zero.                                *)
(***************************************************************************)
EXTENDS Naturals, Sequences, FiniteSets

CONSTANT Node           \* block ids

ASSUME NodeAssumption == Node \subseteq Nat

VARIABLES
    blocks, succs, sim, void,   \* self.G: the graph under analysis
    pc,                         \* where the walk is
    q1,                         \* pairs whose successors are still to be tried
    cur,                        \* <<x, y>>, the pair at work
    ls,                         \* successors of x still to be tried
    path1, path2,               \* the two subgraphs, in the order they were found
    kinds,                      \* the hash type each pair of blocks matched by
    visited1, visited2, tmp_visited2

graph == <<blocks, succs, sim, void>>
walk  == <<pc, q1, cur, ls, path1, path2, kinds, visited1, visited2, tmp_visited2>>
svars == <<graph, walk>>

HashTypes == {"hash_itype1", "hash_itype2", "freq"}
Elems(s) == {s[i] : i \in DOMAIN s}

\* The successors of block n: none of a block that is not in the graph.
Succs(n) == IF n \in blocks THEN succs[n] ELSE <<>>

WalkInit ==
    /\ blocks = {} /\ succs = <<>> /\ void = {}
    /\ sim = [t \in HashTypes |-> {}]
    /\ pc = "ready" /\ q1 = <<>> /\ cur = <<>> /\ ls = <<>>
    /\ path1 = <<>> /\ path2 = <<>> /\ kinds = <<>>
    /\ visited1 = {} /\ visited2 = {} /\ tmp_visited2 = {}

\* buildGRaphFromFunc(): another function's graph replaces the one at hand.
LoadGraph(B, S, R, V) ==
    /\ pc = "ready"
    /\ blocks' = B /\ succs' = S /\ sim' = R /\ void' = V
    /\ UNCHANGED walk

\* The two blocks a # b start a walk; reading the hash of a block that is not in
\* the graph fails.
StartPair(a, b) ==
    /\ pc = "ready"
    /\ pc' = IF a \in blocks THEN "dequeue" ELSE "raised"
    /\ q1' = <<<<a, b>>>> /\ cur' = <<a, b>> /\ ls' = <<>>
    /\ path1' = <<a>> /\ path2' = <<b>> /\ kinds' = <<"hash_itype2">>
    /\ visited1' = {} /\ visited2' = {} /\ tmp_visited2' = {}
    /\ UNCHANGED graph

Mut_Dequeue ==
    /\ pc = "dequeue" /\ q1 # <<>>
    /\ cur' = Head(q1) /\ ls' = Succs(Head(q1)[1]) /\ tmp_visited2' = {} /\ pc' = "visit"
    /\ UNCHANGED <<graph, q1, path1, path2, kinds, visited1, visited2>>

Dequeue ==
    /\ pc = "dequeue" /\ q1 # <<>>
    /\ cur' = Head(q1) /\ q1' = Tail(q1)
    /\ ls' = Succs(Head(q1)[1]) /\ tmp_visited2' = {}
    /\ pc' = "visit"
    /\ UNCHANGED <<graph, path1, path2, kinds, visited1, visited2>>

-----------------------------------------------------------------------------
(* findMatchInSuccs(): a counterpart for l among the successors of y *)

Mut_Eligible(y) == {k \in DOMAIN Succs(y) : Succs(y)[k] # y /\ Succs(y)[k] \notin visited2}

\* Positions of the successors of y that are looked at.
Eligible(y) == {k \in DOMAIN Succs(y) : /\ Succs(y)[k] \notin visited2 /\ Succs(y)[k] # y
                                        /\ Succs(y)[k] \notin Elems(path2)}

Mut_Hits(l, y, t) == {k \in Eligible(y) : Succs(y)[k] # l}

\* Those that match l by the hash type t; l itself does not count.
Hits(l, y, t) == {k \in Eligible(y) : Succs(y)[k] # l /\ <<l, Succs(y)[k]>> \in sim[t]}

\* The search stops at the first hit.
Tried(l, y, t) == {k \in Eligible(y) : \A j \in Hits(l, y, t) : k <= j}

\* The hash types are tried in this order, each only when those before failed.
Before(t) == CASE t = "hash_itype1" -> {}
               [] t = "hash_itype2" -> {"hash_itype1"}
               [] t = "freq" -> {"hash_itype1", "hash_itype2"}

\* With no successor of y the variable that is returned was never assigned, and
\* the comparison by frequency divides by the length of both blocks.
Raises(l, y) ==
    \/ Succs(y) = <<>>
    \/ /\ \A t \in Before("freq") : Hits(l, y, t) = {}
       /\ \E k \in Tried(l, y, "freq") : l \in void \/ Succs(y)[k] \in void

-----------------------------------------------------------------------------
(* One successor l of x *)

Skipped(l) == l \in visited1 \/ l = cur[1] \/ l \in Elems(path1)

SkipSucc ==
    /\ pc = "visit" /\ ls # <<>> /\ Skipped(Head(ls))
    /\ ls' = Tail(ls)
    /\ UNCHANGED <<graph, pc, q1, cur, path1, path2, kinds, visited1, visited2, tmp_visited2>>

RaiseSucc ==
    /\ pc = "visit" /\ ls # <<>> /\ ~Skipped(Head(ls)) /\ Raises(Head(ls), cur[2])
    /\ pc' = "raised"
    /\ UNCHANGED <<graph, q1, cur, ls, path1, path2, kinds, visited1, visited2, tmp_visited2>>

\* The search by hash_itype1 adds what it tries to the same set as the others
\* (the backup is the set itself), so what it tried stays there.
MatchSucc(t) ==
    LET l == Head(ls)
        y == cur[2]
    IN  /\ pc = "visit" /\ ls # <<>> /\ ~Skipped(l) /\ ~Raises(l, y)
        /\ \A u \in Before(t) : Hits(l, y, u) = {}
        /\ \E k \in Hits(l, y, t) \cap Tried(l, y, t) :
              /\ visited2' = visited2 \cup {Succs(y)[k]}
              /\ path2' = Append(path2, Succs(y)[k])
              /\ q1' = Append(q1, <<l, Succs(y)[k]>>)
        /\ visited1' = visited1 \cup {l} /\ path1' = Append(path1, l) /\ kinds' = Append(kinds, t)
        /\ tmp_visited2' = tmp_visited2 \cup
               {Succs(y)[k] : k \in UNION {Tried(l, y, u) : u \in Before(t) \cup {t}}}
        /\ ls' = Tail(ls)
        /\ UNCHANGED <<graph, pc, cur>>

NoMatch ==
    /\ pc = "visit" /\ ls # <<>> /\ ~Skipped(Head(ls)) /\ ~Raises(Head(ls), cur[2])
    /\ \A t \in HashTypes : Hits(Head(ls), cur[2], t) = {}
    /\ visited1' = visited1 \cup {Head(ls)}
    /\ tmp_visited2' = tmp_visited2 \cup {Succs(cur[2])[k] : k \in Eligible(cur[2])}
    /\ ls' = Tail(ls)
    /\ UNCHANGED <<graph, pc, q1, cur, path1, path2, kinds, visited2>>

\* All successors of x were tried: what was tried of y's is not tried again.
EndSuccs ==
    /\ pc = "visit" /\ ls = <<>>
    /\ visited2' = visited2 \cup tmp_visited2
    /\ pc' = "dequeue"
    /\ UNCHANGED <<graph, q1, cur, ls, path1, path2, kinds, visited1, tmp_visited2>>

EndWalk ==
    /\ pc = "dequeue" /\ q1 = <<>>
    /\ pc' = "done"
    /\ UNCHANGED <<graph, q1, cur, ls, path1, path2, kinds, visited1, visited2, tmp_visited2>>

WalkStep == Dequeue \/ SkipSucc \/ RaiseSucc \/ NoMatch \/ EndSuccs \/ EndWalk \/ \E t \in HashTypes : MatchSucc(t)

\* The result was taken, or the exception caught: the walk's locals are gone.
Reset ==
    /\ pc \in {"done", "raised"}
    /\ pc' = "ready" /\ q1' = <<>> /\ cur' = <<>> /\ ls' = <<>>
    /\ path1' = <<>> /\ path2' = <<>> /\ kinds' = <<>>
    /\ visited1' = {} /\ visited2' = {} /\ tmp_visited2' = {}
    /\ UNCHANGED graph

WalkNext ==
    \/ \E B, V \in SUBSET Node : \E S \in [B -> Seq(Node)] : \E R \in [HashTypes -> SUBSET (Node \X Node)] :
          LoadGraph(B, S, R, V)
    \/ \E a, b \in Node : a # b /\ StartPair(a, b)
    \/ WalkStep \/ Reset

WalkSpec == WalkInit /\ [][WalkNext]_svars

-----------------------------------------------------------------------------
(* Properties *)

\* The two paths stay in step: they are equally long, neither has a block
\* twice, and no block is its own counterpart (makeSubgraphSingleEntryPoint()
\* ends IDA when the lengths differ).
InStep ==
    /\ Len(path1) = Len(path2) /\ Len(kinds) = Len(path1)
    /\ \A i, j \in DOMAIN path1 : i # j => path1[i] # path1[j] /\ path2[i] # path2[j]
    /\ \A i \in DOMAIN path1 : path1[i] # path2[i]

\* The two subgraphs have the same shape: every pair after the first was reached
\* by an edge from the two blocks of one earlier pair, and matches by its kind.
SameShape ==
    \A i \in DOMAIN path1 : i > 1 =>
        /\ <<path1[i], path2[i]>> \in sim[kinds[i]]
        /\ \E j \in 1 .. (i - 1) : /\ path1[i] \in Elems(Succs(path1[j]))
                                   /\ path2[i] \in Elems(Succs(path2[j]))
=============================================================================
