------------------------------ MODULE GroupMan ------------------------------
(***************************************************************************)
(* The group manager of GraphSlick (groupman.h, groupman.cpp), the two     *)
(* builders and the sanitizer that fill it (algo.cpp) and the handlers of  *)
(* the graph view that rearrange it (plugin.cpp).                          *)
(*                                                                         *)
(* A groupman_t owns a tree of heap objects: lists of super groups, each a *)
(* list of node groups, each a list of node definitions. Objects are named *)
(* by their addresses; live* are the addresses now allocated. A container  *)
(* is the SET of the pointers in it: list order only decides what is shown *)
(* first, so "the first node" is any node. Loops that allocate are one     *)
(* action per iteration; `phase' says which handler is running and no      *)
(* other handler runs meanwhile, as everything happens on IDA's UI thread. *)
(***************************************************************************)
EXTENDS Naturals, FiniteSets

CONSTANTS
    SGs, NGs, NDs,     \* addresses the allocator can hand out, per class
    NULL,              \* the null pointer
    Dangling,          \* what a location that points into freed memory is worth
    Nids,              \* node ids a bbgroup file can mention
    NBlocks,           \* number of basic blocks of the function (fc->size())
    Menu,              \* the regrouping items of the view's menu; the shipped
                       \* build (PUBLIC, plugin.cpp:114) has "combine" alone
    RepeatedNids,      \* may an input mention one node id twice?
    SimilarSection     \* may a file have a SIMILARINFO section?

Blocks == 0 .. (NBlocks - 1)
Loc    == [sg : SGs, ng : NGs, nd : NDs]     \* nodeloc_t

ASSUME NullAssumption == NULL \notin SGs \cup NGs \cup NDs /\ {NULL, Dangling} \cap Loc = {} /\ NULL # Dangling
ASSUME PoolsAssumption == IsFiniteSet(SGs) /\ IsFiniteSet(NGs) /\ IsFiniteSet(NDs)
ASSUME NidsAssumption == NBlocks \in Nat \ {0} /\ Nids \subseteq Nat /\ Blocks \subseteq Nids
ASSUME FlagsAssumption == {RepeatedNids, SimilarSection} \subseteq BOOLEAN
ASSUME MenuAssumption == Menu \subseteq {"combine", "own", "promote", "reset"}

VARIABLES
    path_sgl, similar_sgl,  \* the super groups of the two lists
    groups,                 \* supergroup_t::groups
    nodes,                  \* the contents of a nodegroup_t
    nid,                    \* nodedef_t::nid
    all_nodes,              \* nid -> node definition (or NULL)
    nid2loc,                \* nid -> where it is (or NULL): a cache of the tree
    liveSG, liveNG, liveND, \* allocated and not yet deleted
    phase,                  \* the handler that is running
    section,                \* parse: the list being filled
    cur_sg, cur_ng,         \* the objects a loader is filling; missing_sg
    cursor,                 \* loop variable over node ids
    todo,                   \* selected node ids a loop still has to visit
    found_ng                \* <<ng, sg>> pairs a loop still has to visit

tree   == <<path_sgl, similar_sgl, groups, nodes, nid>>
heap   == <<liveSG, liveNG, liveND>>
locals == <<section, cur_sg, cur_ng, cursor, todo, found_ng>>
vars   == <<tree, all_nodes, nid2loc, heap, phase, locals>>

\* "crashed": a handler used memory that was freed, or the null pointer.
Phases == {"new", "parse", "build", "sanitize", "ready", "own", "ownc", "promote", "reset", "crashed"}

-----------------------------------------------------------------------------
(* What the containers hold *)

NGsOf(S) == UNION {groups[s] : s \in S}
NDsOf(S) == UNION {nodes[g] : g \in NGsOf(S)}

\* Every location initialize_lookups() meets for node id n, in the given tree.
Locations(n, path, gr, no, id) ==
    UNION {{[sg |-> p[1], ng |-> p[2], nd |-> d] : d \in {e \in no[p[2]] : id[e] = n}} :
              p \in {q \in path \X NGs : q[2] \in gr[q[1]]}}

\* What it can leave in nid2loc for n: of several locations the last one walked
\* stays, which is any of them here.
LookupsOf(n, path, gr, no, id) ==
    LET L == Locations(n, path, gr, no, id) IN IF L = {} THEN {NULL} ELSE L

IsLookup(m, path, gr, no, id) == \A n \in Nids : m[n] \in LookupsOf(n, path, gr, no, id)

Lookups(path, gr, no, id) ==
    LET choices == {<<n, LookupsOf(n, path, gr, no, id)>> : n \in Nids}
    IN  {m \in [Nids -> UNION {c[2] : c \in choices}] : \A c \in choices : m[c[1]] \in c[2]}

Mut_initialize_lookups == UNCHANGED nid2loc

\* nid2loc is rebuilt from the tree the action leaves.
initialize_lookups == nid2loc' \in Lookups(path_sgl', groups', nodes', nid')

\* The allocator returns some free address. Running out of memory is not
\* modelled: a handler starts only when the pools have Room for it, and a file
\* for which they have none reads as one without a node.
FreeSG == CHOOSE p \in SGs \ liveSG : TRUE
FreeNG == CHOOSE p \in NGs \ liveNG : TRUE
FreeND == CHOOSE p \in NDs \ liveND : TRUE
CanNewSG == SGs \ liveSG # {}
CanNewNG == NGs \ liveNG # {}
CanNewND == NDs \ liveND # {}
Room(pool, live, k) == Cardinality(pool \ live) >= k

-----------------------------------------------------------------------------
Init ==
    /\ path_sgl = {} /\ similar_sgl = {}
    /\ groups = [s \in SGs |-> {}] /\ nodes = [g \in NGs |-> {}]
    /\ nid = [d \in NDs |-> 0]
    /\ all_nodes = [n \in Nids |-> NULL] /\ nid2loc = [n \in Nids |-> NULL]
    /\ liveSG = {} /\ liveNG = {} /\ liveND = {}
    /\ phase = "new" /\ section = "path"
    /\ cur_sg = NULL /\ cur_ng = NULL /\ cursor = 0 /\ todo = {} /\ found_ng = {}

\* Delete the super groups S: their destructors delete their node groups and
\* the node definitions in them.
DeleteSGs(S) ==
    /\ liveSG' = liveSG \ S
    /\ liveNG' = liveNG \ NGsOf(S)
    /\ liveND' = liveND \ NDsOf(S)
    /\ groups' = [s \in SGs |-> IF s \in S THEN {} ELSE groups[s]]
    /\ nodes' = [g \in NGs |-> IF g \in NGsOf(S) THEN {} ELSE nodes[g]]
    /\ nid' = [d \in NDs |-> IF d \in NDsOf(S) THEN 0 ELSE nid[d]]

Mut_clear ==
    /\ DeleteSGs(path_sgl \cup similar_sgl)
    /\ path_sgl' = {} /\ similar_sgl' = {}
    /\ UNCHANGED all_nodes

\* groupman_t::clear()
clear ==
    /\ DeleteSGs(path_sgl \cup similar_sgl)
    /\ path_sgl' = {} /\ similar_sgl' = {}
    /\ all_nodes' = [n \in Nids |-> NULL]

ResetLocals ==
    /\ section' = "path" /\ cur_sg' = NULL /\ cur_ng' = NULL
    /\ cursor' = 0 /\ todo' = {} /\ found_ng' = {}

-----------------------------------------------------------------------------
(* Loading: groupman_t::parse and the two build_groupman functions *)

\* parse() fills a new manager (load_file), the analyzer's builders refill the
\* one in use: both drop what it held, but clear() keeps the entries of
\* nid2loc, which then point to what it deleted.
StartLoad(p) ==
    /\ Room(NDs, liveND \ NDsOf(path_sgl \cup similar_sgl), NBlocks)
    /\ clear /\ ResetLocals
    /\ phase' = p
    /\ nid2loc' = [n \in Nids |-> IF nid2loc[n] = NULL THEN NULL ELSE Dangling]

StartParse == phase = "new" /\ StartLoad("parse")
StartBuild ==
    /\ phase \in {"new", "ready"} /\ StartLoad("build")
    /\ Room(SGs, liveSG', 1) /\ Room(NGs, liveNG', NBlocks)

Loading == phase \in {"parse", "build"}

\* The node ids all_nodes has, and the blocks it lacks.
Known   == {n \in Nids : all_nodes[n] # NULL}
Missing == Blocks \ Known

Mut_SwitchSection(s) ==
    /\ phase = "parse" /\ SimilarSection /\ s # section
    /\ section' = NULL /\ cur_sg' = NULL /\ cur_ng' = NULL
    /\ UNCHANGED <<tree, all_nodes, nid2loc, heap, phase, cursor, todo, found_ng>>

\* A "--SIMILARINFO" or "--PATHINFO" line. Sections without lines are skipped.
SwitchSection(s) ==
    /\ phase = "parse" /\ SimilarSection /\ s # section
    /\ section = "path" \/ cur_sg # NULL
    /\ section' = s /\ cur_sg' = NULL /\ cur_ng' = NULL
    /\ UNCHANGED <<tree, all_nodes, nid2loc, heap, phase, cursor, todo, found_ng>>

\* Every line that is read (every element of the analyzer's result) makes a
\* super group in the current list.
add_supergroup ==
    /\ Loading /\ CanNewSG /\ Room(SGs, liveSG, 2)
    /\ liveSG' = liveSG \cup {FreeSG}
    /\ IF section = "path"
       THEN path_sgl' = path_sgl \cup {FreeSG} /\ UNCHANGED similar_sgl
       ELSE similar_sgl' = similar_sgl \cup {FreeSG} /\ UNCHANGED path_sgl
    /\ groups' = [groups EXCEPT ![FreeSG] = {}]
    /\ cur_sg' = FreeSG /\ cur_ng' = NULL
    /\ UNCHANGED <<nodes, nid, all_nodes, nid2loc, liveNG, liveND, phase,
                   section, cursor, todo, found_ng>>

\* Every "(...)" makes a node group in the current super group.
add_nodegroup ==
    /\ Loading /\ cur_sg # NULL /\ CanNewNG /\ Room(NGs, liveNG, Cardinality(Missing) + 1)
    /\ liveNG' = liveNG \cup {FreeNG}
    /\ groups' = [groups EXCEPT ![cur_sg] = @ \cup {FreeNG}]
    /\ nodes' = [nodes EXCEPT ![FreeNG] = {}]
    /\ cur_ng' = FreeNG
    /\ UNCHANGED <<path_sgl, similar_sgl, nid, all_nodes, nid2loc, liveSG, liveND,
                   phase, section, cur_sg, cursor, todo, found_ng>>

\* Every "nid : start : end" makes a node definition and maps it. The builders
\* index the flowchart with the node id, a file may name any.
add_node(n) ==
    /\ Loading /\ cur_ng # NULL /\ CanNewND /\ Room(NDs, liveND, Cardinality(Missing \ {n}) + 1)
    /\ phase = "build" => n \in Blocks
    /\ all_nodes[n] # NULL => RepeatedNids
    /\ liveND' = liveND \cup {FreeND}
    /\ nodes' = [nodes EXCEPT ![cur_ng] = @ \cup {FreeND}]
    /\ nid' = [nid EXCEPT ![FreeND] = n]
    /\ all_nodes' = [all_nodes EXCEPT ![n] = FreeND]
    /\ UNCHANGED <<path_sgl, similar_sgl, groups, nid2loc, liveSG, liveNG, phase, locals>>

\* load_file() gives up (no first node, no such function) and deletes the
\* manager it was filling; or the manager in use is deleted, when a file was
\* loaded into another one or the chooser closes.
Destroy ==
    /\ phase \in {"parse", "ready"}
    /\ clear /\ ResetLocals
    /\ nid2loc' = [n \in Nids |-> NULL]
    /\ phase' = "new"

-----------------------------------------------------------------------------
(* sanitize_groupman(): every block nobody mentioned joins missing_sg, the   *)
(* lookups are built and the manager is in use.                             *)

Mut_BeginSanitize ==
    /\ Loading /\ CanNewSG
    /\ phase = "parse" => NDsOf(path_sgl) # {}
    /\ liveSG' = liveSG \cup {FreeSG}
    /\ groups' = [groups EXCEPT ![FreeSG] = {}]
    /\ section' = "path" /\ cur_sg' = FreeSG /\ cur_ng' = NULL
    /\ cursor' = 1 /\ phase' = "sanitize"
    /\ UNCHANGED <<path_sgl, similar_sgl, nodes, nid, all_nodes, nid2loc, liveNG, liveND,
                   todo, found_ng>>

BeginSanitize ==
    /\ Loading /\ CanNewSG
    /\ phase = "parse" => NDsOf(path_sgl) # {}      \* get_first_nd()
    /\ liveSG' = liveSG \cup {FreeSG}
    /\ groups' = [groups EXCEPT ![FreeSG] = {}]
    /\ section' = "path" /\ cur_sg' = FreeSG /\ cur_ng' = NULL
    /\ cursor' = 0 /\ phase' = "sanitize"
    /\ UNCHANGED <<path_sgl, similar_sgl, nodes, nid, all_nodes, nid2loc, liveNG, liveND,
                   todo, found_ng>>

\* The new node definition is not entered in all_nodes.
SanitizeNode ==
    /\ phase = "sanitize" /\ cursor < NBlocks
    /\ cursor' = cursor + 1
    /\ \/ /\ all_nodes[cursor] # NULL
          /\ UNCHANGED <<groups, nodes, nid, liveNG, liveND>>
       \/ /\ all_nodes[cursor] = NULL /\ CanNewNG /\ CanNewND
          /\ liveNG' = liveNG \cup {FreeNG} /\ liveND' = liveND \cup {FreeND}
          /\ groups' = [groups EXCEPT ![cur_sg] = @ \cup {FreeNG}]
          /\ nodes' = [nodes EXCEPT ![FreeNG] = {FreeND}]
          /\ nid' = [nid EXCEPT ![FreeND] = cursor]
    /\ UNCHANGED <<path_sgl, similar_sgl, all_nodes, nid2loc, liveSG, phase,
                   section, cur_sg, cur_ng, todo, found_ng>>

FinishSanitize ==
    /\ phase = "sanitize" /\ cursor = NBlocks
    /\ IF groups[cur_sg] = {}
       THEN liveSG' = liveSG \ {cur_sg} /\ UNCHANGED path_sgl
       ELSE path_sgl' = path_sgl \cup {cur_sg} /\ UNCHANGED liveSG
    /\ ResetLocals /\ phase' = "ready"
    /\ UNCHANGED <<similar_sgl, groups, nodes, nid, all_nodes, liveNG, liveND>>
    /\ initialize_lookups

-----------------------------------------------------------------------------
(* "Combine nodes". In the grouped view the selected nodes are node groups,  *)
(* known to the view through nid2loc; in the ungrouped one they are blocks.  *)

Located   == {n \in Nids : nid2loc[n] # NULL}
ShownNGs  == {nid2loc[n].ng : n \in Located \cap Blocks}
\* The answers of get_sg_from_ng(g): the super group the lookups give for
\* g's first node.
HomeOf(g) == {nid2loc[nid[d]].sg : d \in nodes[g]}

find_biggest(ngl) == {g \in ngl : \A h \in ngl : Cardinality(nodes[h]) <= Cardinality(nodes[g])}

Mut_RemovedFrom(s, others, home) == {}

\* The node groups combine_ngl removes from s, given the super group it found
\* for each.
RemovedFrom(s, others, home) == {g \in others : home[g] = s}

\* Everything in the selected groups goes to the biggest of them. The others
\* leave the tree, and so does a super group that has no other: neither is freed.
combine_ngl(ngl) ==
    /\ phase = "ready" /\ "combine" \in Menu
    /\ \E dest_ng \in find_biggest(ngl) :
          LET others == {g \in ngl \ {dest_ng} : nodes[g] # {}}
          IN \E home \in [others -> SGs] :
                /\ \A g \in others : home[g] \in HomeOf(g)
                /\ nodes' = [g \in NGs |->
                      IF g = dest_ng THEN nodes[g] \cup UNION {nodes[h] : h \in others}
                      ELSE IF g \in others THEN {} ELSE nodes[g]]
                /\ groups' = [s \in SGs |-> groups[s] \ RemovedFrom(s, others, home)]
                /\ path_sgl' = path_sgl \ {s \in SGs : /\ RemovedFrom(s, others, home) # {}
                                                       /\ groups'[s] = {}}
    /\ UNCHANGED <<similar_sgl, nid, all_nodes, heap, phase, locals>>
    /\ initialize_lookups

Mut_TakenFrom(g, found) == {}

\* The node definitions move_nodes_to_ng removes from g.
TakenFrom(g, found) == {nid2loc[n].nd : n \in {m \in found : nid2loc[m].ng = g}}

\* The nodes are visited in ascending order, and a group is deleted as soon as it
\* is empty: for one of them the lookups give a group that is deleted by then.
UsesFreed(sel) ==
    \E n \in sel \cap Located :
        LET before == {m \in sel \cap Located : m < n /\ nid2loc[m].ng = nid2loc[n].ng}
        IN  before # {} /\ nodes[nid2loc[n].ng] \subseteq {nid2loc[m].nd : m \in before}

Fault ==
    /\ phase' = "crashed"
    /\ UNCHANGED <<tree, all_nodes, nid2loc, heap, locals>>

move_nodes_to_ng_fault(sel) ==
    phase = "ready" /\ "combine" \in Menu /\ UsesFreed(sel) /\ Fault

\* The selected nodes leave their groups for a new one in the super group of
\* the first of them; what that empties is deleted.
move_nodes_to_ng(sel) ==
    /\ phase = "ready" /\ "combine" \in Menu /\ CanNewNG /\ ~UsesFreed(sel)
    /\ LET found  == sel \cap Located
           new_ng == FreeNG
           Emptied(m) == /\ TakenFrom(nid2loc[m].ng, found) # {}
                         /\ nodes'[nid2loc[m].ng] = {}
           goneNG == {nid2loc[m].ng : m \in {n \in found : Emptied(n)}}
           goneSG == {s \in {nid2loc[m].sg : m \in {n \in found : Emptied(n)}} : groups'[s] = {}}
       IN \E n0 \in found :
            /\ \A n \in found : n0 <= n
            /\ nodes' = [g \in NGs |-> IF g = new_ng THEN {nid2loc[n].nd : n \in found}
                                       ELSE nodes[g] \ TakenFrom(g, found)]
            /\ groups' = [s \in SGs |->
                  (groups[s] \ {nid2loc[m].ng : m \in {n \in found : Emptied(n) /\ nid2loc[n].sg = s}})
                  \cup (IF s = nid2loc[n0].sg THEN {new_ng} ELSE {})]
            /\ path_sgl' = path_sgl \ goneSG
            /\ liveNG' = (liveNG \cup {new_ng}) \ goneNG
            /\ liveSG' = liveSG \ goneSG
    /\ UNCHANGED <<similar_sgl, nid, all_nodes, liveND, phase, locals>>
    /\ initialize_lookups

-----------------------------------------------------------------------------
(* The regrouping items a PUBLIC build compiles out *)

FirstTodo(n) == n \in todo /\ \A m \in todo : n <= m

\* "Move node(s) to their own group", ungrouped view.
BeginOwn(sel) ==
    /\ phase = "ready" /\ "own" \in Menu /\ Room(NGs, liveNG, Cardinality(sel))
    /\ phase' = "own" /\ todo' = sel
    /\ UNCHANGED <<tree, all_nodes, nid2loc, heap, section, cur_sg, cur_ng, cursor, found_ng>>

\* One selected node. One that is not located ends the handler at once, and
\* the lookups are not rebuilt.
OwnNode(n) ==
    /\ phase = "own" /\ FirstTodo(n)
    /\ LET loc == nid2loc[n] IN
       \/ /\ loc = NULL
          /\ phase' = "ready" /\ todo' = {}
          /\ UNCHANGED <<groups, nodes, liveNG>>
       \/ /\ loc # NULL /\ Cardinality(nodes[loc.ng]) = 1
          /\ todo' = todo \ {n}
          /\ UNCHANGED <<groups, nodes, liveNG, phase>>
       \/ /\ loc # NULL /\ Cardinality(nodes[loc.ng]) # 1 /\ CanNewNG
          /\ todo' = todo \ {n}
          /\ liveNG' = liveNG \cup {FreeNG}
          /\ nodes' = [nodes EXCEPT ![loc.ng] = @ \ {loc.nd}, ![FreeNG] = {loc.nd}]
          /\ groups' = [groups EXCEPT ![loc.sg] = @ \cup {FreeNG}]
          /\ UNCHANGED phase
    /\ UNCHANGED <<path_sgl, similar_sgl, nid, all_nodes, nid2loc, liveSG, liveND,
                   section, cur_sg, cur_ng, cursor, found_ng>>

\* The loops over node groups: each group with the super group the handler
\* believes it is in.
BeginNGLoop(p, ngl) ==
    /\ phase = "ready"
    /\ \E home \in [ngl -> SGs] :
          /\ \A g \in ngl : home[g] \in HomeOf(g)
          /\ found_ng' = {<<g, home[g]>> : g \in ngl}
    /\ phase' = p
    /\ UNCHANGED <<tree, all_nodes, nid2loc, heap, section, cur_sg, cur_ng, cursor, todo>>

\* "Move node(s) to their own group", grouped view: nodes are popped off the
\* group until one is left.
BeginOwnCombined(ngl) ==
    /\ "own" \in Menu /\ Room(NGs, liveNG, Cardinality(UNION {nodes[g] : g \in ngl}))
    /\ BeginNGLoop("ownc", ngl)

Mut_OwnCombined(ng, sg) ==
    /\ phase = "ownc" /\ <<ng, sg>> \in found_ng
    /\ \/ /\ Cardinality(nodes[ng]) <= 1
          /\ found_ng' = found_ng \ {<<ng, sg>>}
          /\ UNCHANGED <<groups, nodes, liveNG>>
       \/ /\ Cardinality(nodes[ng]) > 1 /\ CanNewNG
          /\ \E nd \in nodes[ng] : nodes' = [nodes EXCEPT ![FreeNG] = {nd}]
          /\ groups' = [groups EXCEPT ![sg] = @ \cup {FreeNG}]
          /\ liveNG' = liveNG \cup {FreeNG}
          /\ UNCHANGED found_ng
    /\ UNCHANGED <<path_sgl, similar_sgl, nid, all_nodes, nid2loc, liveSG, liveND, phase,
                   section, cur_sg, cur_ng, cursor, todo>>

OwnCombined(ng, sg) ==
    /\ phase = "ownc" /\ <<ng, sg>> \in found_ng
    /\ \/ /\ Cardinality(nodes[ng]) <= 1
          /\ found_ng' = found_ng \ {<<ng, sg>>}
          /\ UNCHANGED <<groups, nodes, liveNG>>
       \/ /\ Cardinality(nodes[ng]) > 1 /\ CanNewNG
          /\ \E nd \in nodes[ng] :
                nodes' = [nodes EXCEPT ![ng] = @ \ {nd}, ![FreeNG] = {nd}]
          /\ groups' = [groups EXCEPT ![sg] = @ \cup {FreeNG}]
          /\ liveNG' = liveNG \cup {FreeNG}
          /\ UNCHANGED found_ng
    /\ UNCHANGED <<path_sgl, similar_sgl, nid, all_nodes, nid2loc, liveSG, liveND, phase,
                   section, cur_sg, cur_ng, cursor, todo>>

\* "Promote node group"
BeginPromote(ngl) ==
    /\ "promote" \in Menu /\ Room(SGs, liveSG, Cardinality(ngl))
    /\ BeginNGLoop("promote", ngl)

Mut_Promote_Kept(ng, sg) ==
    /\ phase = "promote" /\ <<ng, sg>> \in found_ng
    /\ found_ng' = found_ng \ {<<ng, sg>>}
    /\ \/ /\ Cardinality(groups[sg]) = 1
          /\ UNCHANGED <<path_sgl, groups, liveSG>>
       \/ /\ Cardinality(groups[sg]) # 1 /\ CanNewSG
          /\ liveSG' = liveSG \cup {FreeSG}
          /\ path_sgl' = path_sgl \cup {FreeSG}
          /\ groups' = [groups EXCEPT ![FreeSG] = {ng}]
    /\ UNCHANGED <<similar_sgl, nodes, nid, all_nodes, nid2loc, liveNG, liveND, phase,
                   section, cur_sg, cur_ng, cursor, todo>>

Promote(ng, sg) ==
    /\ phase = "promote" /\ <<ng, sg>> \in found_ng
    /\ found_ng' = found_ng \ {<<ng, sg>>}
    /\ \/ /\ Cardinality(groups[sg]) = 1
          /\ UNCHANGED <<path_sgl, groups, liveSG>>
       \/ /\ Cardinality(groups[sg]) # 1 /\ CanNewSG
          /\ liveSG' = liveSG \cup {FreeSG}
          /\ path_sgl' = path_sgl \cup {FreeSG}
          /\ groups' = [groups EXCEPT ![sg] = @ \ {ng}, ![FreeSG] = {ng}]
    /\ UNCHANGED <<similar_sgl, nodes, nid, all_nodes, nid2loc, liveNG, liveND, phase,
                   section, cur_sg, cur_ng, cursor, todo>>

\* A debug message of highlight_nodes() looks the blocks it colors up in all_nodes
\* by operator[], which enters the null pointer for those that sanitize_groupman()
\* added; reset_groupping() uses every entry. Whether the user ever colored such
\* a block while it was shown is left open.
BeginReset_fault ==
    /\ phase = "ready" /\ "reset" \in Menu
    /\ \E n \in Located : all_nodes[n] = NULL
    /\ Fault

\* "Reset groupping": the tree is deleted but for the node definitions, then
\* each one all_nodes knows gets a super group of its own.
BeginReset ==
    /\ phase = "ready" /\ "reset" \in Menu
    /\ Room(SGs, liveSG \ path_sgl, Cardinality(Known))
    /\ Room(NGs, liveNG \ NGsOf(path_sgl), Cardinality(Known))
    /\ liveSG' = liveSG \ path_sgl
    /\ liveNG' = liveNG \ NGsOf(path_sgl)
    /\ groups' = [s \in SGs |-> IF s \in path_sgl THEN {} ELSE groups[s]]
    /\ nodes' = [g \in NGs |-> IF g \in NGsOf(path_sgl) THEN {} ELSE nodes[g]]
    /\ path_sgl' = {}
    /\ phase' = "reset" /\ todo' = Known
    /\ UNCHANGED <<similar_sgl, nid, all_nodes, nid2loc, liveND,
                   section, cur_sg, cur_ng, cursor, found_ng>>

Mut_ResetNode(n) ==
    /\ phase = "reset" /\ FirstTodo(n) /\ CanNewSG /\ CanNewNG
    /\ todo' = todo \ {n}
    /\ liveSG' = liveSG \cup {FreeSG} /\ liveNG' = liveNG \cup {FreeNG}
    /\ path_sgl' = path_sgl \cup {FreeSG}
    /\ groups' = [groups EXCEPT ![FreeSG] = {FreeNG}]
    /\ UNCHANGED <<similar_sgl, nodes, nid, all_nodes, nid2loc, liveND, phase,
                   section, cur_sg, cur_ng, cursor, found_ng>>

ResetNode(n) ==
    /\ phase = "reset" /\ FirstTodo(n) /\ CanNewSG /\ CanNewNG
    /\ todo' = todo \ {n}
    /\ liveSG' = liveSG \cup {FreeSG} /\ liveNG' = liveNG \cup {FreeNG}
    /\ path_sgl' = path_sgl \cup {FreeSG}
    /\ groups' = [groups EXCEPT ![FreeSG] = {FreeNG}]
    /\ nodes' = [nodes EXCEPT ![FreeNG] = {all_nodes[n]}]
    /\ UNCHANGED <<similar_sgl, nid, all_nodes, nid2loc, liveND, phase,
                   section, cur_sg, cur_ng, cursor, found_ng>>

Mut_FinishLoop ==
    /\ phase \in {"own", "ownc", "promote", "reset"} /\ todo = {} /\ found_ng = {}
    /\ phase' = "ready"
    /\ UNCHANGED <<tree, all_nodes, heap, locals, nid2loc>>

\* The end of the four loops.
FinishLoop ==
    /\ phase \in {"own", "ownc", "promote", "reset"} /\ todo = {} /\ found_ng = {}
    /\ phase' = "ready"
    /\ UNCHANGED <<tree, all_nodes, heap, locals>>
    /\ initialize_lookups

-----------------------------------------------------------------------------
Load ==
    \/ StartParse \/ StartBuild \/ Destroy
    \/ add_supergroup \/ add_nodegroup
    \/ \E s \in {"path", "similar"} : SwitchSection(s)
    \/ \E n \in Nids : add_node(n)
    \/ BeginSanitize \/ SanitizeNode \/ FinishSanitize

\* on_menu() refuses to combine fewer than two nodes.
Regroup ==
    \/ /\ phase = "ready"
       /\ \/ \E ngl \in SUBSET ShownNGs : Cardinality(ngl) > 1 /\ combine_ngl(ngl)
          \/ \E sel \in SUBSET Nids : Cardinality(sel) > 1 /\ move_nodes_to_ng(sel)
          \/ \E sel \in SUBSET Blocks \ {{}} : BeginOwn(sel)
          \/ \E ngl \in SUBSET ShownNGs \ {{}} : BeginOwnCombined(ngl) \/ BeginPromote(ngl)
          \/ BeginReset
          \/ \E sel \in SUBSET Nids : Cardinality(sel) > 1 /\ move_nodes_to_ng_fault(sel)
          \/ BeginReset_fault
    \/ \E n \in todo : OwnNode(n) \/ ResetNode(n)
    \/ \E p \in found_ng : OwnCombined(p[1], p[2]) \/ Promote(p[1], p[2])
    \/ FinishLoop

Next == Load \/ Regroup

\* The UI thread runs a handler it has entered to its end.
Running == phase \notin {"new", "ready"} /\ Next

Spec == Init /\ [][Next]_vars
FairSpec == Spec /\ WF_vars(Running)

-----------------------------------------------------------------------------
(* Properties *)

Roots == path_sgl \cup similar_sgl

\* Every variable has its type: pointers are addresses or NULL, node ids are
\* ids, and found_ng holds pairs of a node group and a super group.
TypeOK ==
    /\ path_sgl \in SUBSET SGs /\ similar_sgl \in SUBSET SGs
    /\ groups \in [SGs -> SUBSET NGs] /\ nodes \in [NGs -> SUBSET NDs]
    /\ nid \in [NDs -> Nids]
    /\ all_nodes \in [Nids -> NDs \cup {NULL}]
    /\ nid2loc \in [Nids -> Loc \cup {NULL, Dangling}]
    /\ liveSG \in SUBSET SGs /\ liveNG \in SUBSET NGs /\ liveND \in SUBSET NDs
    /\ phase \in Phases /\ section \in {"path", "similar"}
    /\ cur_sg \in SGs \cup {NULL} /\ cur_ng \in NGs \cup {NULL}
    /\ cursor \in 0 .. NBlocks
    /\ todo \in SUBSET Nids /\ found_ng \in SUBSET (NGs \X SGs)

\* No dangling pointer: whatever the manager can reach, through the two lists,
\* through all_nodes and, between handlers, through the cache nid2loc, has not
\* been deleted. combine_ngl and move_nodes_to_ng delete or drop groups and
\* must leave no reference to them behind. And no handler uses what it has itself
\* deleted a moment before, or a null entry of all_nodes.
HeapSafe ==
    /\ phase # "crashed"
    /\ Roots \subseteq liveSG
    /\ NGsOf(Roots) \subseteq liveNG
    /\ NDsOf(Roots) \subseteq liveND
    /\ \A n \in Nids : all_nodes[n] # NULL => all_nodes[n] \in liveND
    /\ phase = "ready" => \A n \in Located : /\ nid2loc[n] # Dangling
                                             /\ nid2loc[n].sg \in liveSG
                                             /\ nid2loc[n].ng \in liveNG
                                             /\ nid2loc[n].nd \in liveND

\* Every object has one owner, so clear() and the destructors, which delete
\* all that the lists hold, delete each object once.
SingleOwner ==
    /\ path_sgl \cap similar_sgl = {}
    /\ \A s, t \in Roots : s # t => groups[s] \cap groups[t] = {}
    /\ \A g, h \in NGsOf(Roots) : g # h => nodes[g] \cap nodes[h] = {}

\* Between handlers the cache nid2loc agrees with the tree: every handler that
\* moves a node ends with the lookups of the tree it leaves.
LookupsCoherent == phase = "ready" => IsLookup(nid2loc, path_sgl, groups, nodes, nid)

\* Between handlers every basic block of the function is in the path list and
\* can be found, save one that only the similar section of the file names:
\* sanitize_groupman() looks a block up in all_nodes, where parse_nodeset()
\* enters those of both sections, and adds only what is not there. Building the
\* grouped view depends on it; no regrouping may lose another block.
OnlySimilarUnlocated ==
    phase = "ready" => \A n \in Blocks \ Located : \E d \in NDsOf(similar_sgl) : nid[d] = n

\* No regrouping of well-formed input leaves an empty node group behind, or
\* an empty super group: both are removed where the last node leaves.
NoneEmpty(S, contents) == \A x \in S : contents[x] # {}
NoEmptyGroups ==
    [][phase = "ready" /\ phase' = "ready" =>
          /\ NoneEmpty(NGsOf(path_sgl), nodes) => NoneEmpty(NGsOf(path_sgl), nodes)'
          /\ NoneEmpty(path_sgl, groups) => NoneEmpty(path_sgl, groups)']_vars

\* What "Reset groupping" loses is never a block that the input names: those are in
\* all_nodes, from which reset_groupping() refills the path list, and each of them
\* can be found between handlers whatever was regrouped before, in an order and
\* on lookups that may be out of date.
NamedStayLocated == phase = "ready" => \A n \in Blocks : all_nodes[n] # NULL => n \in Located

\* The early return of move_nodes_to_own_ng() is the only way past
\* initialize_lookups(), and it takes a block that cannot be located: as long as
\* every block can, the lookups agree with the tree, resets included.
CompleteIsCoherent ==
    phase = "ready" /\ Blocks \subseteq Located => IsLookup(nid2loc, path_sgl, groups, nodes, nid)

\* The partition the tree stands for; a reset takes effect when it begins. While
\* a loader fills the tree, or after a crash, there is none.
part ==
    IF phase \in {"ready", "own", "ownc", "promote"}
    THEN {{{nid[d] : d \in nodes[g]} : g \in groups[s]} \ {{}} : s \in path_sgl} \ {{}}
    ELSE IF phase = "reset" THEN {{{n}} : n \in Known}
    ELSE {}

Abstract == INSTANCE Grouping WITH CanReset <- "reset" \in Menu

\* On input that names no node id twice, the manager implements Grouping: every
\* load ends with a two-level partition of the function's blocks, and every
\* regrouping does to it exactly what its menu item says.
Refines == Abstract!Spec

\* Every handler returns to the UI loop.
HandlersReturn == phase \notin {"new", "ready"} ~> phase \in {"new", "ready", "crashed"}
=============================================================================
