------------------------------ MODULE BBMatch ------------------------------
(***************************************************************************)
(* bbMatcherClass of bbgroup/bb_match.py, the object behind the plugin's    *)
(* `Analyze' and `Highlight similar': the tables it keeps from one call to  *)
(* the next (it is a module-level singleton), Analyze() step by step around *)
(* the walk of module SubGraphs, and FindSimilar().                         *)
(*                                                                         *)
(* A Python 2 dictionary is iterated in an order that depends on its keys   *)
(* and how they came in: any order, the same again while no key was added.  *)
(***************************************************************************)
EXTENDS SubGraphs, BlockHash

CONSTANTS
    Programs,       \* sets of programs: function name -> [blocks, succs, code]
    MinSize,        \* minFunctionSizeInBlocks (4 in the code)
    MaxAnalyses     \* bound on the calls of Analyze

ASSUME MatchAssumption == MinSize \in Nat /\ MaxAnalyses \in Nat

\* FromFlowchart() makes a graph of numbered blocks, finitely many.
ASSUME ProgramsAssumption ==
    \A k \in DOMAIN Programs : \A P \in Programs[k] : \A f \in DOMAIN P :
        /\ P[f].blocks \in SUBSET Node /\ IsFiniteSet(P[f].blocks)
        /\ P[f].succs \in [P[f].blocks -> Seq(Node)]

VARIABLES
    program,        \* what is disassembled
    fn,             \* self.address: the function whose graph is at hand
    M,              \* hash_itype2 -> its blocks, for hashes of two or more
    nodeHashes,     \* block -> hash_itype2
    pathPerNodeHashFull, pathPerNodeHash,   \* <<head hash, path hash>> -> paths
    order,          \* the order in which pathPerNodeHash is iterated
    size_dic,       \* its classes in the order they were entered by size
    normalizedPathPerNodeHash,
    phase,          \* idle, pairs (findSubGraphs), normalize
    todo, head, pairs,      \* hashes to come, the one at work and its pairs to come
    pending, moved, \* entries of size_dic to come; MovedSubgraph
    answers         \* what the calls so far returned, with the function asked about

tables == <<M, nodeHashes, pathPerNodeHashFull, pathPerNodeHash, order, size_dic, normalizedPathPerNodeHash>>
locals == <<phase, todo, head, pairs, pending, moved>>
vars   == <<svars, program, fn, tables, locals, answers>>

Empty == [x \in {} |-> {}]

\* The dictionary `table' with v at the key c.
Put(table, c, v) == [d \in DOMAIN table \cup {c} |-> IF d = c THEN v ELSE table[d]]

Init ==
    /\ WalkInit
    /\ (\E k \in DOMAIN Programs : program \in Programs[k]) /\ fn = "none"
    /\ M = Empty /\ nodeHashes = Empty
    /\ pathPerNodeHashFull = Empty /\ pathPerNodeHash = Empty
    /\ order = <<>> /\ size_dic = <<>> /\ normalizedPathPerNodeHash = Empty
    /\ phase = "idle" /\ todo = {} /\ head = {} /\ pairs = <<>> /\ pending = {} /\ moved = {}
    /\ answers = <<>>

Code(n) == program[fn].code[n]

Least(S) == CHOOSE k \in S : \A j \in S : k <= j

-----------------------------------------------------------------------------
(* Analyze(): the graph, the hashes and the blocks that share one *)

\* hashBBMatch(): the blocks B with the hash x, in ascending order. To an entry
\* that is there the least of them is never added.
AscendingFrom(B) == [k \in 1 .. Cardinality(B) |-> CHOOSE x \in B : Cardinality({y \in B : y <= x}) = k]
NewTwins(B, old) == AscendingFrom((B \ {Least(B)}) \ Elems(old))

hashBBMatch(h, B) ==
    LET With(x) == {n \in B : h[n] = x}
        twins   == {x \in {h[n] : n \in B} : Cardinality(With(x)) > 1}
    IN  [x \in DOMAIN M \cup twins |->
            IF x \notin DOMAIN M THEN AscendingFrom(With(x))
            ELSE IF x \in twins THEN M[x] \o NewTwins(With(x), M[x]) ELSE M[x]]

Analyze(f) ==
    LET g == program[f]
        h == [n \in g.blocks |-> hash_itype2(g.code[n])]
    IN  /\ phase = "idle" /\ Len(answers) < MaxAnalyses
        /\ LoadGraph(g.blocks, g.succs,
                     [t \in HashTypes |-> {e \in g.blocks \X g.blocks : match(g.code[e[1]], g.code[e[2]], t)}],
                     {n \in g.blocks : g.code[n] = <<>>})
        /\ fn' = f
        /\ nodeHashes' = [n \in DOMAIN nodeHashes \cup g.blocks |-> IF n \in g.blocks THEN h[n] ELSE nodeHashes[n]]
        /\ M' = hashBBMatch(h, g.blocks)
        /\ phase' = "pairs" /\ todo' = DOMAIN M'
        /\ UNCHANGED <<program, pathPerNodeHashFull, pathPerNodeHash, order, size_dic, normalizedPathPerNodeHash,
                       head, pairs, pending, moved, answers>>

-----------------------------------------------------------------------------
(* findSubGraphs(): every pair of blocks with the same hash *)

\* The pairs of the list s: each element with every later one, in order.
PairsOf(s) ==
    LET ps == {p \in (DOMAIN s) \X (DOMAIN s) : p[1] < p[2]}
        Rank(p) == Cardinality({q \in ps : q[1] < p[1] \/ (q[1] = p[1] /\ q[2] <= p[2])})
    IN  [k \in 1 .. Cardinality(ps) |-> LET p == CHOOSE q \in ps : Rank(q) = k IN <<s[p[1]], s[p[2]]>>]

NextHash(x) ==
    /\ phase = "pairs" /\ pc = "ready" /\ pairs = <<>> /\ x \in todo
    /\ todo' = todo \ {x} /\ head' = x /\ pairs' = PairsOf(M[x])
    /\ UNCHANGED <<svars, program, fn, tables, phase, pending, moved, answers>>

NextPair ==
    /\ phase = "pairs" /\ pairs # <<>>
    /\ StartPair(Head(pairs)[1], Head(pairs)[2])
    /\ pairs' = Tail(pairs)
    /\ UNCHANGED <<program, fn, tables, phase, todo, head, pending, moved, answers>>

Walk ==
    /\ phase = "pairs" /\ WalkStep
    /\ UNCHANGED <<program, fn, tables, locals, answers>>

Preds(n) == {p \in blocks : n \in Elems(succs[p])}

\* No edge from outside s enters a block of s other than its head.
EntryAtHead(s) == \A i \in 2 .. Len(s) : Preds(s[i]) \subseteq Elems(s)

\* subgraphHasExternalJumpsIntoIt() looks at the blocks of s one by one up to the
\* first that is entered from outside: it comes upon a block the graph has not.
MeetsMissing(s) ==
    \E i \in 2 .. Len(s) : s[i] \notin blocks /\ \A j \in 2 .. (i - 1) : Preds(s[j]) \subseteq Elems(s)

\* makeSubgraphSingleEntryPoint(): as long as a block of path1 is entered from
\* outside, the last one is removed, and with it its counterpart of path2.
SingleEntryLength ==
    CHOOSE k \in 1 .. Len(path1) :
        /\ EntryAtHead(SubSeq(path1, 1, k))
        /\ \A j \in (k + 1) .. Len(path1) : ~EntryAtHead(SubSeq(path1, 1, j))

\* path1NodeHashes: the hash by which the i-th blocks matched. By frequency it
\* is the hash of the instructions the two have in common.
PathNodeHash(i) ==
    <<kinds[i], CASE kinds[i] = "hash_itype1" -> hash_itype1(Code(path1[i]))
                  [] kinds[i] = "hash_itype2" -> hash_itype2(Code(path1[i]))
                  [] kinds[i] = "freq" -> Common(Code(path1[i]), Code(path2[i]))>>

Mut_ClassOf(x) == <<head, SubSeq(x, 1, 2)>>
ClassOf(x) == <<head, x>>

Mut_Enter(table, c, p, q) ==
    Put(table, c, (IF c \in DOMAIN table THEN table[c] ELSE <<>>) \o <<p, q>>)

\* Both paths enter the class c, unless they are there.
Enter(table, c, p, q) ==
    LET old    == IF c \in DOMAIN table THEN table[c] ELSE <<>>
        New(r) == IF r \in Elems(old) THEN <<>> ELSE <<r>>
    IN  Put(table, c, old \o New(p) \o New(q))

\* The walk is over. The hash object of the full path goes on to hash the
\* single-entry one.
Record ==
    LET full == [i \in DOMAIN path1 |-> PathNodeHash(i)]
        k    == SingleEntryLength
        bis  == SubSeq(full, 1, k)
    IN  /\ phase = "pairs" /\ pc = "done" /\ Reset
        /\ pathPerNodeHashFull' =
              IF Len(path1) > 1 THEN Enter(pathPerNodeHashFull, ClassOf(full), path1, path2) ELSE pathPerNodeHashFull
        /\ pathPerNodeHash' =
              IF k > 1 THEN Enter(pathPerNodeHash, ClassOf(full \o bis), SubSeq(path1, 1, k), SubSeq(path2, 1, k))
              ELSE pathPerNodeHash
        /\ UNCHANGED <<program, fn, M, nodeHashes, order, size_dic, normalizedPathPerNodeHash, locals, answers>>

-----------------------------------------------------------------------------
(* sortByPathLen(), GetMatchedWellFormedFunctions() *)

SizeOf(c) == Len(pathPerNodeHash[c][1])

\* Iterating the outer and then each inner dictionary.
Iterations ==
    LET C == DOMAIN pathPerNodeHash
    IN  IF Elems(order) = C THEN {order}
        ELSE {s \in [1 .. Cardinality(C) -> C] :
                /\ Elems(s) = C
                /\ \A i, j, k \in DOMAIN s : i < j /\ j < k /\ s[i][1] = s[k][1] => s[j][1] = s[i][1]}

\* Every class is entered again, whether or not an earlier call entered it.
Sort ==
    /\ phase = "pairs" /\ pc = "ready" /\ todo = {} /\ pairs = <<>>
    /\ order' \in Iterations
    /\ size_dic' = size_dic \o order'
    /\ pending' = {i \in DOMAIN size_dic' : SizeOf(size_dic'[i]) >= MinSize}
    /\ phase' = "normalize" /\ moved' = {}
    /\ UNCHANGED <<svars, program, fn, M, nodeHashes, pathPerNodeHashFull, pathPerNodeHash,
                   normalizedPathPerNodeHash, todo, head, pairs, answers>>

Mut_Larger(i, j) == SizeOf(size_dic[i]) < SizeOf(size_dic[j])
Larger(i, j) == SizeOf(size_dic[i]) > SizeOf(size_dic[j])

\* The entry that is next: the largest size first, in the order of entry.
NextEntry == CHOOSE i \in pending : \A j \in pending \ {i} : Larger(i, j) \/ (~Larger(j, i) /\ i < j)

\* The paths of the class c that lie in no instance taken before, in their order.
NotMoved(c) ==
    LET paths == pathPerNodeHash[c]
        at    == AscendingFrom({i \in DOMAIN paths : \A s \in moved : ~(Elems(paths[i]) \subseteq s)})
    IN  [k \in DOMAIN at |-> paths[at[k]]]

Normalize ==
    LET c    == size_dic[NextEntry]
        old  == IF c \in DOMAIN normalizedPathPerNodeHash THEN normalizedPathPerNodeHash[c] ELSE <<>>
        kept == old \o NotMoved(c)
        new  == IF ~EntryAtHead(pathPerNodeHash[c][1]) THEN old ELSE IF Len(kept) < 2 THEN <<>> ELSE kept
    IN  /\ phase = "normalize" /\ pending # {}
        /\ ~MeetsMissing(pathPerNodeHash[c][1])
        /\ pending' = pending \ {NextEntry}
        /\ normalizedPathPerNodeHash' = Put(normalizedPathPerNodeHash, c, new)
        /\ moved' = IF EntryAtHead(pathPerNodeHash[c][1]) THEN moved \cup {Elems(p) : p \in Elems(new)} ELSE moved
        /\ UNCHANGED <<svars, program, fn, M, nodeHashes, pathPerNodeHashFull, pathPerNodeHash, order, size_dic,
                       phase, todo, head, pairs, answers>>

Answer(got) ==
    /\ answers' = Append(answers, [func |-> fn, got |-> got])
    /\ phase' = "idle" /\ todo' = {} /\ pairs' = <<>> /\ pending' = {} /\ moved' = {}

Return ==
    /\ phase = "normalize" /\ pending = {}
    /\ Answer([c \in {d \in DOMAIN normalizedPathPerNodeHash : normalizedPathPerNodeHash[d] # <<>>} |->
                  normalizedPathPerNodeHash[c]])
    /\ UNCHANGED <<svars, program, fn, tables, head>>

\* An exception ends the call: the tables keep what was entered and
\* PyBBMatcher::Analyze() returns an empty result. A class of another function
\* may name a block that the graph has not.
RaisedInWalk ==
    /\ phase = "pairs" /\ pc = "raised" /\ Reset
    /\ Answer(Empty)
    /\ UNCHANGED <<program, fn, tables, head>>

RaisedInNormalize ==
    LET c == size_dic[NextEntry]
    IN  /\ phase = "normalize" /\ pending # {}
        /\ MeetsMissing(pathPerNodeHash[c][1])
        /\ normalizedPathPerNodeHash' =
              IF c \in DOMAIN normalizedPathPerNodeHash THEN normalizedPathPerNodeHash
              ELSE Put(normalizedPathPerNodeHash, c, <<>>)
        /\ Answer(Empty)
        /\ UNCHANGED <<svars, program, fn, M, nodeHashes, pathPerNodeHashFull, pathPerNodeHash, order, size_dic, head>>

Step ==
    \/ \E x \in todo : NextHash(x)
    \/ NextPair \/ Walk \/ Record \/ Sort \/ Normalize \/ Return \/ RaisedInWalk \/ RaisedInNormalize

Next == Step \/ \E f \in DOMAIN program : Analyze(f)

Spec == Init /\ [][Next]_vars /\ WF_vars(Step)

-----------------------------------------------------------------------------
(* FindSimilar() of two or more blocks nl, asked between two analyses. Of one *)
(* block it returns a flat list, which the bridge takes for empty groups.      *)

Mut_matchIndex(path, nl) == [k \in DOMAIN nl |-> k]

\* Where the blocks of nl are in the path.
matchIndex(path, nl) == [k \in DOMAIN nl |-> CHOOSE i \in DOMAIN path : path[i] = nl[k]]

\* What the class c has to say of nl with the head h: the blocks at the same
\* places in each of its paths, once one path starts at h and has all of nl.
Projected(c, nl, h) ==
    LET paths == pathPerNodeHashFull[c]
        hits  == {i \in DOMAIN paths : paths[i][1] = h /\ Elems(nl) \subseteq Elems(paths[i])}
        at    == matchIndex(paths[Least(hits)], nl)
    IN  IF hits = {} \/ Len(nl) > Len(paths[1]) THEN {}
        ELSE {[k \in DOMAIN nl |-> p[at[k]]] : p \in Elems(paths)}

SimilarFrom(nl, h) ==
    UNION {Projected(c, nl, h) : c \in {d \in DOMAIN pathPerNodeHashFull : d[1] = nodeHashes[h]}}

\* The first block of nl that heads a match decides.
FindSimilar(nl) ==
    LET heads == {k \in DOMAIN nl : SimilarFrom(nl, nl[k]) # {}}
    IN  IF heads = {} THEN {} ELSE SimilarFrom(nl, nl[Least(heads)])

-----------------------------------------------------------------------------
(* Properties *)

\* All analyses so far were of the function at hand.
OneFunction == \A k \in DOMAIN answers : answers[k].func = fn

\* A class holds what its hash says: every path of it is as long as the hash
\* has parts, and its i-th block has the i-th part, so that the places found in
\* one path can be looked up in the others (FindSimilar indexes them unchecked)
\* and hold corresponding blocks.
ClassesHomogeneous ==
    \A c \in DOMAIN pathPerNodeHashFull : \A p \in Elems(pathPerNodeHashFull[c]) :
        /\ Len(p) = Len(c[2])
        /\ OneFunction => \A i \in DOMAIN p :
              CASE c[2][i][1] = "hash_itype1" -> hash_itype1(Code(p[i])) = c[2][i][2]
                [] c[2][i][1] = "hash_itype2" -> hash_itype2(Code(p[i])) = c[2][i][2]
                [] c[2][i][1] = "freq" -> c[2][i][2] \subseteq InstrsOf(Code(p[i]))

\* What the user may select for `Highlight similar': two or three blocks.
Selections == {s \in UNION {[1 .. k -> blocks] : k \in 2 .. 3} : \A i, j \in DOMAIN s : i # j => s[i] # s[j]}

\* Whatever is selected between two analyses, and in whatever order: when
\* something is found, the selection is among it and so is another list of
\* blocks, and the blocks of each list are like those they stand for: they
\* match, or have an instruction in common.
SimilarFound ==
    phase = "idle" /\ OneFunction => \A nl \in Selections : LET found == FindSimilar(nl) IN
        /\ found # {} => nl \in found /\ Cardinality(found) > 1
        /\ \A r \in found : \A k \in DOMAIN nl :
              \/ \E t \in HashTypes : <<nl[k], r[k]>> \in sim[t]
              \/ Common(Code(nl[k]), Code(r[k])) # {}

\* The class c is taken before d: the first path of c is longer or, when the
\* two are equally long, c was entered first.
TakenBefore(c, d) ==
    \E i \in DOMAIN size_dic : size_dic[i] = c /\ \A j \in DOMAIN size_dic : size_dic[j] = d =>
        SizeOf(c) > SizeOf(d) \/ (SizeOf(c) = SizeOf(d) /\ i < j)

Uncontained(got) ==
    \A c, d \in DOMAIN got : TakenBefore(c, d) =>
        \A p \in Elems(got[c]), q \in Elems(got[d]) : ~(Elems(q) \subseteq Elems(p))

\* No instance of a class lies inside an instance of a class taken before it: the
\* classes are taken by falling size, and what is inside an instance taken is
\* dropped. (The other way round there may be one: the size is that of the first
\* path, and a class may have paths of several lengths.)
NoneContained == OneFunction => \A k \in DOMAIN answers : Uncontained(answers[k].got)

\* What the k-th call returned and, when there was none or it lacks the class, <<>>.
ListAt(got, c) == IF c \in DOMAIN got THEN got[c] ELSE <<>>
Returned(k, c) == IF k \in DOMAIN answers THEN ListAt(answers[k].got, c) ELSE <<>>

\* Analysing a function again finds neither more nor less than the first time,
\* although the tables of all calls before are still there and every class has
\* one more entry by size: what a call returns of a class is what the call before
\* it returned followed by what the first one found, in the same order. So the
\* k-th call returns each instance k times.
AddedAgain ==
    OneFunction => \A k \in DOMAIN answers :
        /\ DOMAIN answers[k].got = DOMAIN answers[1].got
        /\ \A c \in DOMAIN answers[k].got : Returned(k, c) = Returned(k - 1, c) \o Returned(1, c)

\* Every analysis ends, the walk over cycles of the graph included.
AnalyzeReturns == (phase # "idle") ~> (phase = "idle")

\* pybbmatcher.h: "the non-overlapping wellformed function instances".
NonOverlapping ==
    OneFunction => \A k \in DOMAIN answers : \A c \in DOMAIN answers[k].got :
        \A p, q \in Elems(answers[k].got[c]) : p # q => Elems(p) \cap Elems(q) = {}
=============================================================================
