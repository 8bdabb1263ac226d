---------------------------- MODULE CombinedGraph ----------------------------
(***************************************************************************)
(* The grouped graph: fc_to_combined_mg (algo.hpp) walks the flowchart and  *)
(* gives every node group it meets the next free graph node id, with an     *)
(* edge between two groups wherever a block of one precedes a block of the  *)
(* other. Node groups are given by their contents; `loc' is what            *)
(* find_nodeid_loc answers. Successors are visited in any order.            *)
(***************************************************************************)
EXTENDS Naturals, FiniteSets

CONSTANTS
    NGs,            \* the node groups of the path list
    NULL,
    NBlocks,        \* fc->size()
    Nids            \* node ids the groups may mention

Blocks == 0 .. (NBlocks - 1)

ASSUME GraphAssumption == /\ NBlocks \in Nat \ {0} /\ Nids \subseteq Nat /\ Blocks \subseteq Nids
                          /\ IsFiniteSet(NGs) /\ NULL \notin NGs

VARIABLES
    content,        \* node group -> the node ids in it
    loc,            \* block -> its node group, or NULL
    succ,           \* block -> successors in the flowchart
    group2id,       \* node group -> graph node id, for the groups met so far
    node_map,       \* graph node ids with text and hint
    edges,          \* edges of the mutable graph
    nid, pending,   \* the block being visited, and its successors still to visit
    pc              \* "group", "edges", or the result: "ok" or "failed"

input == <<content, loc, succ>>
vars  == <<input, group2id, node_map, edges, nid, pending, pc>>

\* mg->resize(node_count)
node_count == Cardinality(NGs)

Partition(c) ==
    /\ \A g \in NGs : c[g] # {}
    /\ \A g, h \in NGs : g # h => c[g] \cap c[h] = {}
    /\ UNION {c[g] : g \in NGs} = Blocks

Init ==
    /\ content \in [NGs -> SUBSET Nids]
    /\ loc \in [Blocks -> NGs \cup {NULL}]
    /\ \A n \in Blocks : IF \E g \in NGs : n \in content[g]
                         THEN loc[n] \in NGs /\ n \in content[loc[n]] ELSE loc[n] = NULL
    /\ succ \in [Blocks -> SUBSET Blocks]
    /\ group2id = [g \in {} |-> 0] /\ node_map = {} /\ edges = {}
    /\ nid = 0 /\ pending = {} /\ pc = "group"

-----------------------------------------------------------------------------
Mut_NextId == Cardinality(DOMAIN group2id) + 1

\* group2id->size()
NextId == Cardinality(DOMAIN group2id)

\* get_groupid(n) for a located n: a group met for the first time gets the
\* next id and its node data.
get_groupid(n) ==
    LET g == loc[n] IN
    IF g \in DOMAIN group2id
    THEN UNCHANGED <<group2id, node_map>>
    ELSE /\ group2id' = [h \in DOMAIN group2id \cup {g} |-> IF h = g THEN NextId ELSE group2id[h]]
         /\ node_map' = node_map \cup {NextId}

\* A block nobody located ends the build, with what was built so far.
Fail(n) ==
    /\ loc[n] = NULL
    /\ pc' = "failed"
    /\ UNCHANGED <<input, group2id, node_map, edges, nid, pending>>

Mut_VisitBlock ==
    /\ pc = "group" /\ nid < NBlocks
    /\ \/ Fail(nid)
       \/ /\ loc[nid] # NULL /\ get_groupid(nid)
          /\ pending' = IF loc[nid] \in DOMAIN group2id THEN {} ELSE succ[nid]
          /\ pc' = "edges"
          /\ UNCHANGED <<input, edges, nid>>

VisitBlock ==
    /\ pc = "group" /\ nid < NBlocks
    /\ \/ Fail(nid)
       \/ /\ loc[nid] # NULL /\ get_groupid(nid)
          /\ pending' = succ[nid] /\ pc' = "edges"
          /\ UNCHANGED <<input, edges, nid>>

Mut_VisitSucc(m) ==
    /\ pc = "edges" /\ m \in pending
    /\ \/ Fail(m)
       \/ /\ loc[m] # NULL /\ get_groupid(m)
          /\ edges' = edges \cup {<<group2id[loc[nid]], group2id'[loc[m]]>>}
          /\ pending' = pending \ {m}
          /\ UNCHANGED <<input, nid, pc>>

\* Successors in the same group give no edge: the group is one node.
VisitSucc(m) ==
    /\ pc = "edges" /\ m \in pending
    /\ \/ Fail(m)
       \/ /\ loc[m] # NULL /\ get_groupid(m)
          /\ edges' = IF loc[m] = loc[nid] THEN edges
                      ELSE edges \cup {<<group2id[loc[nid]], group2id'[loc[m]]>>}
          /\ pending' = pending \ {m}
          /\ UNCHANGED <<input, nid, pc>>

NextBlock ==
    /\ pc = "edges" /\ pending = {}
    /\ nid' = nid + 1 /\ pc' = "group"
    /\ UNCHANGED <<input, group2id, node_map, edges, pending>>

Finish ==
    /\ pc = "group" /\ nid = NBlocks
    /\ pc' = "ok"
    /\ UNCHANGED <<input, group2id, node_map, edges, nid, pending>>

Next == VisitBlock \/ (\E m \in Blocks : VisitSucc(m)) \/ NextBlock \/ Finish

Spec == Init /\ [][Next]_vars

-----------------------------------------------------------------------------
(* Properties *)

\* Every variable has its type.
TypeOK ==
    /\ content \in [NGs -> SUBSET Nids] /\ loc \in [Blocks -> NGs \cup {NULL}]
    /\ succ \in [Blocks -> SUBSET Blocks]
    /\ DOMAIN group2id \subseteq NGs /\ group2id \in [DOMAIN group2id -> Nat]
    /\ node_map \subseteq Nat /\ edges \subseteq Nat \X Nat
    /\ nid \in 0 .. NBlocks /\ pending \subseteq Blocks
    /\ pc \in {"group", "edges", "ok", "failed"}

\* At every moment the ids handed out are 0 .. k-1 for the k groups met, no two
\* groups share one (get_ng_from_ngid inverts the map), each has its node
\* data, and all of them are nodes of the graph that was sized before.
IdsDense ==
    LET k == Cardinality(DOMAIN group2id) IN
    /\ \A g, h \in DOMAIN group2id : group2id[g] = group2id[h] => g = h
    /\ \A g \in DOMAIN group2id : group2id[g] < k
    /\ node_map = {group2id[g] : g \in DOMAIN group2id}
    /\ k <= node_count

\* A finished build shows the quotient of the flowchart: an edge between two
\* nodes exactly when some block of one group precedes a block of the other.
EdgesAreQuotient ==
    pc = "ok" =>
      edges = {<<group2id[loc[p[1]]], group2id[loc[p[2]]]>> :
                 p \in {q \in Blocks \X Blocks : q[2] \in succ[q[1]] /\ loc[q[1]] # loc[q[2]]}}

\* The view ignores that build() failed and shows what there is: a part of the
\* quotient, where every edge is one of the flowchart's between two groups that
\* have node data, and no edge is missing of a block before the one it failed at.
FailedIsPrefix ==
    pc = "failed" =>
      /\ \A e \in edges : \E a, b \in Blocks :
            /\ b \in succ[a] /\ loc[a] # loc[b] /\ {loc[a], loc[b]} \subseteq DOMAIN group2id
            /\ e = <<group2id[loc[a]], group2id[loc[b]]>>
      /\ \A a, b \in Blocks : a < nid /\ b \in succ[a] =>
            /\ {loc[a], loc[b]} \subseteq DOMAIN group2id
            /\ loc[a] # loc[b] => <<group2id[loc[a]], group2id[loc[b]]>> \in edges

\* When the groups partition the blocks, the graph has no node without data:
\* every node of the resized graph was given to a group.
NoPhantomNodes == pc = "ok" /\ Partition(content) => node_map = 0 .. (node_count - 1)

\* What the view shows of a finished build is the quotient graph: its edges, and,
\* when the groups partition the blocks, one node for each group and no other.
FinishedIsQuotient == EdgesAreQuotient /\ NoPhantomNodes
=============================================================================
