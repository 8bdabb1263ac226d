----------------------------- MODULE GraphView -----------------------------
(***************************************************************************)
(* The graph view (class gsgraphview_t of plugin.cpp) and the handlers of   *)
(* the chooser that act on it. The group manager is taken at its word:      *)
(* `part' is the partition of module Grouping, over the function's blocks.  *)
(*                                                                         *)
(* A graph node id means a basic block in the ungrouped ("single") view and *)
(* a node group in the grouped ("combined") one, where every rebuild of the *)
(* graph numbers the groups afresh. Selection, highlighting, the two        *)
(* iterators and cur_node hold such ids across handlers.                    *)
(*                                                                         *)
(* Options have the values of their constructor: nothing changes them, so   *)
(* manual_refresh_mode is true and refresh_view() is never called. The menu *)
(* is that of the shipped (PUBLIC) build. A handler is one step: all run on *)
(* IDA's UI thread and refresh_viewer() calls back before it returns.       *)
(***************************************************************************)
EXTENDS Integers, FiniteSets, Functions, FiniteSetsExt

CONSTANTS
    NBlocks,        \* basic blocks of the function
    Names,          \* descriptions of super groups (numbers)
    Mentioned,      \* the blocks in all_nodes: those the input named
    Commands        \* the commands the user gives

Blocks == 0 .. (NBlocks - 1)

AllCommands == {"select_all", "toggle", "clear", "jump", "highlight", "search", "similar",
                "merge", "switch", "combine", "edit", "current", "load"}

ASSUME ViewAssumption == NBlocks \in Nat \ {0} /\ Names \subseteq Nat /\ Names # {}
                         /\ Mentioned \subseteq Blocks /\ Commands \subseteq AllCommands

VARIABLES
    part,                    \* the group manager: see Grouping
    name,                    \* block -> name of the super group it is in
    null_nodes,              \* the blocks all_nodes maps to the null pointer
    cur_view_mode, refresh_mode,
    ng2id,                   \* node group -> graph node id (combined view)
    node_map,                \* graph node id -> text
    selected_nodes, highlighted_nodes,
    it_selected_node, it_highlighted_node,
    cur_node, in_sel_mode,
    fault                    \* what made the program crash, or "none"

gm    == <<part, name, null_nodes>>
graph == <<cur_view_mode, refresh_mode, ng2id, node_map>>
sel   == <<selected_nodes, it_selected_node>>
high  == <<highlighted_nodes, it_highlighted_node>>
vars  == <<gm, graph, sel, high, cur_node, in_sel_mode, fault>>

Manager == INSTANCE Grouping WITH Nids <- Blocks, CanReset <- FALSE

Modes == {"single", "combined"}
NoNode == -1                 \* "no node is selected"
End == -1                    \* iterator: end()
Dangling == -2               \* iterator: to an element that was erased

Disasm(n) == [kind |-> "disasm", of |-> n]
Title(x)  == [kind |-> "title", of |-> x]
Texts     == [kind : {"disasm", "title"}, of : Blocks \cup Names]

\* get_groupid(): a group of several blocks shows its super group's name, a block
\* that is alone shows its disassembly.
TextOf(b, nm) == LET n == CHOOSE m \in b : TRUE IN IF b = {n} THEN Disasm(n) ELSE Title(nm[n])

GroupOf(n, p) == CHOOSE b \in UNION p : n \in b
HomeOf(b, p)  == CHOOSE G \in p : b \in G

\* The partitions: block n is in group f[n], group i in super group h[i].
PartOf(f, h) ==
    {{{n \in Blocks : f[n] = i} : i \in {j \in Range(f) : h[j] = k}} : k \in {h[j] : j \in Range(f)}}
Parts == {PartOf(f, h) : f, h \in [Blocks -> Blocks]}
Named(p, nm) == \A G \in p : \A n, m \in UNION G : nm[n] = nm[m]

-----------------------------------------------------------------------------
(* Rebuilding the graph *)

Mut_reset_states ==
    /\ UNCHANGED <<selected_nodes, it_selected_node>>
    /\ highlighted_nodes' = {} /\ it_highlighted_node' = End

\* All but cur_node, which redo_layout may set again.
reset_states ==
    /\ selected_nodes' = {} /\ it_selected_node' = End
    /\ highlighted_nodes' = {} /\ it_highlighted_node' = End

switch_to_single_view_mode ==
    /\ ng2id' = [b \in {} |-> 0]
    /\ node_map' = [n \in Blocks |-> Disasm(n)]

Mut_switch_to_combined_view_mode ==
    LET ids == 1 .. Cardinality(UNION part') IN
    /\ ng2id' \in Bijection(UNION part', ids)
    /\ node_map' = [i \in ids |-> TextOf(CHOOSE b \in UNION part' : ng2id'[b] = i, name')]

\* fc_to_combined_mg numbers the groups from 0 in the order it meets them
\* (module CombinedGraph).
switch_to_combined_view_mode ==
    LET ids == 0 .. (Cardinality(UNION part') - 1) IN
    /\ ng2id' \in Bijection(UNION part', ids)
    /\ node_map' = [i \in ids |-> TextOf(CHOOSE b \in UNION part' : ng2id'[b] = i, name')]

\* grcode_user_refresh: no mode is "soft", so the graph is always rebuilt.
user_refresh(mode) ==
    /\ reset_states
    /\ cur_view_mode' = mode
    /\ IF mode = "single" THEN switch_to_single_view_mode ELSE switch_to_combined_view_mode

Mut_get_gvnid_from_nid(n) == n

\* In the graph just rebuilt.
get_gvnid_from_nid(n) == IF cur_view_mode' = "single" THEN n ELSE ng2id'[GroupOf(n, part')]

\* jump_to_node() makes n the current node, if the viewer has a place to
\* start from.
jump_to_node(n) == cur_node' \in {cur_node, n}

\* redo_layout() with no node to focus on, and with one.
redo_layout(mode) ==
    /\ refresh_mode' = mode /\ user_refresh(mode)
    /\ cur_node' = NoNode

Mut_redo_layout_on(mode, focus_node) ==
    /\ refresh_mode' = mode
    /\ UNCHANGED <<cur_view_mode, ng2id, node_map, sel, high, cur_node>>

redo_layout_on(mode, focus_node) ==
    /\ refresh_mode' = mode /\ user_refresh(mode)
    /\ cur_node' \in {NoNode, get_gvnid_from_nid(focus_node)}

-----------------------------------------------------------------------------
Init ==
    /\ part \in Parts /\ name \in [Blocks -> Names] /\ Named(part, name) /\ null_nodes = {}
    /\ cur_view_mode = "combined" /\ refresh_mode = "combined"
    /\ ng2id \in Bijection(UNION part, 0 .. (Cardinality(UNION part) - 1))
    /\ node_map = [i \in Range(ng2id) |-> TextOf(CHOOSE b \in UNION part : ng2id[b] = i, name)]
    /\ selected_nodes = {} /\ highlighted_nodes = {}
    /\ it_selected_node = End /\ it_highlighted_node = End
    /\ cur_node = NoNode /\ in_sel_mode = FALSE /\ fault = "none"

\* A command is given, and the program is there to obey it.
Command(c) == c \in Commands /\ fault = "none"

Crash(why) ==
    /\ fault' = why
    /\ UNCHANGED <<gm, graph, sel, high, cur_node, in_sel_mode>>

-----------------------------------------------------------------------------
(* Selecting and highlighting *)

set_sel_mode ==
    /\ Command("toggle") /\ in_sel_mode' = ~in_sel_mode
    /\ UNCHANGED <<gm, graph, sel, high, cur_node, fault>>

\* A click on node n in selection mode. Erasing a map entry invalidates the
\* iterators to it.
toggle_select_node(n) ==
    /\ Command("toggle") /\ in_sel_mode
    /\ IF n \in selected_nodes
       THEN /\ selected_nodes' = selected_nodes \ {n}
            /\ it_selected_node' = IF it_selected_node = n THEN Dangling ELSE it_selected_node
       ELSE selected_nodes' = selected_nodes \cup {n} /\ UNCHANGED it_selected_node
    /\ UNCHANGED <<gm, graph, high, cur_node, in_sel_mode, fault>>

\* Every node definition in all_nodes is selected by its node id, in both
\* views. all_nodes lacks the blocks sanitize_groupman() added, or maps them to
\* the null pointer, which is then used.
select_all_nodes ==
    /\ Command("select_all")
    /\ \/ null_nodes # {} /\ Crash("null_node")
       \/ /\ null_nodes = {} /\ selected_nodes' = Mentioned
          /\ it_selected_node' = IF it_selected_node = End THEN End ELSE Dangling
          /\ UNCHANGED <<gm, graph, high, cur_node, in_sel_mode, fault>>

clear_selection ==
    /\ Command("clear") /\ selected_nodes' = {} /\ it_selected_node' = End
    /\ UNCHANGED <<gm, graph, high, cur_node, in_sel_mode, fault>>

Mut_Cleared == highlighted_nodes' = {} /\ UNCHANGED it_highlighted_node

\* The assignments of clear_highlighting().
Cleared == highlighted_nodes' = {} /\ it_highlighted_node' = End

clear_highlighting ==
    /\ Command("clear") /\ Cleared
    /\ UNCHANGED <<gm, graph, sel, cur_node, in_sel_mode, fault>>

\* The ids highlight_nodes() colors for the node group b.
ColoredBy(b) == IF cur_view_mode = "single" THEN b ELSE IF b \in DOMAIN ng2id THEN {ng2id[b]} ELSE {}

\* The debug message of highlight_nodes() about the blocks ids, in the ungrouped
\* view: operator[] enters those that all_nodes lacks, with the null pointer.
LazyHighlight(ids) ==
    null_nodes' = IF cur_view_mode = "single" THEN null_nodes \cup (ids \ Mentioned) ELSE null_nodes

\* get_ngid_from_ng(b): in the single view the first node of b, any one here.
get_ngid_from_ng(b) == ColoredBy(b)

\* A line of the chooser is selected: the whole file (its synthetic super
\* groups are left out), a super group, or a node group.
highlight_node(ngs) ==
    /\ Command("highlight")
    /\ highlighted_nodes' = UNION {ColoredBy(b) : b \in ngs} /\ it_highlighted_node' = End
    /\ LazyHighlight(UNION ngs)
    /\ UNCHANGED <<part, name, graph, sel, cur_node, in_sel_mode, fault>>

\* "Find group": the super groups M match the pattern. With none of them the
\* list that is asked for its first group is the null pointer.
find_and_highlight_nodes(M) ==
    /\ Command("search")
    /\ \/ M = {} /\ Crash("search")
       \/ /\ M # {}
          /\ highlighted_nodes' = UNION {ColoredBy(b) : b \in UNION M} /\ it_highlighted_node' = End
          /\ LazyHighlight(UNION UNION M)
          /\ \E G \in M : \E b \in G : \E n \in get_ngid_from_ng(b) : jump_to_node(n)
          /\ UNCHANGED <<part, name, graph, sel, in_sel_mode, fault>>

\* "Highlight similar nodes": the matcher answers with blocks, or with nothing
\* and find_similar() returns the null pointer.
highlight_similar_selection(found) ==
    /\ Command("similar") /\ selected_nodes # {} /\ cur_view_mode = "single"
    /\ \/ found = {} /\ Crash("similar")
       \/ /\ found # {} /\ highlighted_nodes' = highlighted_nodes \cup found
          /\ LazyHighlight(found)
          /\ UNCHANGED <<part, name, graph, sel, it_highlighted_node, cur_node, in_sel_mode, fault>>

merge_highlight_with_selection ==
    /\ Command("merge") /\ selected_nodes' = selected_nodes \cup highlighted_nodes
    /\ UNCHANGED <<gm, graph, high, it_selected_node, cur_node, in_sel_mode, fault>>

-----------------------------------------------------------------------------
(* Jumping *)

\* The node an iterator gives, rewound when it is at the end, and ++it.
Target(it, cont) == IF it = End THEN Min(cont) ELSE it
Advanced(n, cont) == LET later == {m \in cont : m > n} IN IF later = {} THEN End ELSE Min(later)

jump_next_selected_node ==
    /\ Command("jump") /\ selected_nodes # {}
    /\ \/ it_selected_node = Dangling /\ Crash("iterator")
       \/ /\ it_selected_node # Dangling
          /\ LET n == Target(it_selected_node, selected_nodes) IN
             jump_to_node(n) /\ it_selected_node' = Advanced(n, selected_nodes)
          /\ UNCHANGED <<gm, graph, selected_nodes, high, in_sel_mode, fault>>

jump_next_highlighted_node ==
    /\ Command("jump") /\ highlighted_nodes # {}
    /\ LET n == Target(it_highlighted_node, highlighted_nodes) IN
       jump_to_node(n) /\ it_highlighted_node' = Advanced(n, highlighted_nodes)
    /\ UNCHANGED <<gm, graph, highlighted_nodes, sel, in_sel_mode, fault>>

\* ENTER on a chooser line.
on_enter(b) ==
    /\ Command("jump") /\ \E n \in get_ngid_from_ng(b) : jump_to_node(n)
    /\ UNCHANGED <<gm, graph, sel, high, in_sel_mode, fault>>

\* grcode_changed_current
changed_current(n) ==
    /\ Command("current") /\ cur_node' = n
    /\ UNCHANGED <<gm, graph, sel, high, in_sel_mode, fault>>

-----------------------------------------------------------------------------
(* Views, descriptions, regrouping *)

\* "Switch to (un)groupped view"; "Change graph layout" keeps the mode. Then a
\* refresh that IDA asks for.
switch_view(mode) ==
    /\ Command("switch")
    /\ UNCHANGED <<gm, in_sel_mode, fault>> /\ redo_layout(mode)

refresh ==
    /\ Command("switch")
    /\ UNCHANGED <<gm, refresh_mode, in_sel_mode, fault>>
    /\ user_refresh(refresh_mode) /\ cur_node' = NoNode

Mut_Retitled(G) == LET b == CHOOSE c \in G : TRUE IN {get_ngid_from_ng(b)}

\* What the nodes of the super group G are known by: one id for each group.
Retitled(G) == {get_ngid_from_ng(b) : b \in G}

\* The user names G; the texts of its nodes follow.
edit_sg_description(G) ==
    /\ \E x \in Names : \E ids \in SUBSET DOMAIN node_map :
          /\ \A S \in Retitled(G) : Cardinality(ids \cap S) = 1
          /\ ids \subseteq UNION Retitled(G)
          /\ name' = [n \in Blocks |-> IF n \in UNION G THEN x ELSE name[n]]
          /\ node_map' = [i \in DOMAIN node_map |-> IF i \in ids THEN Title(x) ELSE node_map[i]]
    /\ UNCHANGED <<part, null_nodes, cur_view_mode, refresh_mode, ng2id, sel, high, cur_node, in_sel_mode, fault>>

\* "Edit group description", for the group of the current node.
menu_edit_sg_desc ==
    /\ Command("edit") /\ cur_view_mode = "combined" /\ cur_node # NoNode
    /\ \E b \in DOMAIN ng2id : ng2id[b] = cur_node /\ edit_sg_description(HomeOf(b, part))

\* "Edit description" on a line of the chooser.
on_edit_line(G) == Command("edit") /\ edit_sg_description(G)

\* After a combination: the user may name the super group of the new group b,
\* the graph is laid out again and centered on one of its nodes.
EditAndFocus(b, first) ==
    /\ \E x \in Names :
          name' = [n \in Blocks |-> IF n \in UNION HomeOf(b, part') THEN x ELSE name[n]]
    /\ UNCHANGED null_nodes
    /\ \E n \in first : redo_layout_on(cur_view_mode, n)

\* get_ng_from_ngid() for the selection: the groups it finds, and whether it
\* also returned a null pointer.
SelectedNGs == {b \in DOMAIN ng2id : ng2id[b] \in selected_nodes}
NullSelected == \E i \in selected_nodes : \A b \in DOMAIN ng2id : ng2id[b] # i

\* "Combine nodes". Ids are in ascending order and those without a group come
\* last: find_biggest() meets the null pointer after a group, or only nulls.
combine_node_groups ==
    /\ Command("combine") /\ Cardinality(selected_nodes) > 1
    /\ \/ /\ cur_view_mode = "combined" /\ SelectedNGs = {}
          /\ UNCHANGED <<gm, in_sel_mode, fault>> /\ redo_layout(cur_view_mode)
       \/ /\ cur_view_mode = "combined" /\ SelectedNGs # {} /\ NullSelected /\ Crash("null_group")
       \/ /\ cur_view_mode = "combined" /\ SelectedNGs # {} /\ ~NullSelected
          /\ \E dest \in SelectedNGs : /\ Manager!Combine(SelectedNGs, dest)
                                       /\ EditAndFocus(UNION SelectedNGs, dest)
          /\ UNCHANGED <<in_sel_mode, fault>>
       \/ /\ cur_view_mode = "single"
          /\ \E G \in part : Manager!Gather(selected_nodes, G)
          /\ EditAndFocus(selected_nodes, {Min(selected_nodes)})
          /\ UNCHANGED <<in_sel_mode, fault>>

\* "Analyze" while the view is open: the manager is filled anew.
Analyze ==
    /\ Command("load")
    /\ part' \in Parts /\ name' \in [Blocks -> Names] /\ Named(part', name') /\ null_nodes' = {}
    /\ redo_layout(cur_view_mode)
    /\ UNCHANGED <<in_sel_mode, fault>>

Next ==
    \/ set_sel_mode \/ \E n \in DOMAIN node_map : toggle_select_node(n) \/ changed_current(n)
    \/ select_all_nodes \/ clear_selection \/ clear_highlighting
    \/ \E G \in part : highlight_node(G) \/ on_edit_line(G)
                       \/ \E b \in G : highlight_node({b}) \/ on_enter(b)
    \/ \E M \in SUBSET part : highlight_node(UNION M) \/ find_and_highlight_nodes(M)
    \/ \E found \in SUBSET Blocks : highlight_similar_selection(found)
    \/ merge_highlight_with_selection
    \/ jump_next_selected_node \/ jump_next_highlighted_node
    \/ \E mode \in Modes : switch_view(mode)
    \/ refresh \/ menu_edit_sg_desc \/ combine_node_groups \/ Analyze

Spec == Init /\ [][Next]_vars

-----------------------------------------------------------------------------
(* Properties *)

\* Every variable has its type, and the manager keeps the promise of Grouping.
TypeOK ==
    /\ Manager!IsGrouping(part) /\ name \in [Blocks -> Names] /\ null_nodes \subseteq Blocks \ Mentioned
    /\ {cur_view_mode, refresh_mode} \subseteq Modes
    /\ node_map \in [DOMAIN node_map -> Texts]
    /\ DOMAIN node_map \cup selected_nodes \cup highlighted_nodes \subseteq Blocks
    /\ {it_selected_node, it_highlighted_node} \subseteq Blocks \cup {End, Dangling}
    /\ cur_node \in Blocks \cup {NoNode} /\ in_sel_mode \in BOOLEAN
    /\ fault \in {"none", "search", "similar", "iterator", "null_group", "null_node"}

\* No id outlives its graph: what is selected, highlighted or current is a node
\* of the graph on display, though every rebuild gives the ids new meanings.
\* ("Select all" breaks this in the grouped view, where it selects block ids.)
IdsDisplayed == selected_nodes \cup highlighted_nodes \cup ({cur_node} \ {NoNode}) \subseteq DOMAIN node_map

\* ng2id, which is keyed by node group pointers, knows exactly the groups that
\* exist: combine_ngl and move_nodes_to_ng drop groups it still maps, and the
\* handler must rebuild the graph before it returns.
GroupIdsCurrent == cur_view_mode = "combined" => DOMAIN ng2id = UNION part

\* In the grouped view a node of several blocks shows at all times the name of
\* its super group: edit_sg_description() finds all nodes it must retitle.
TitlesCurrent ==
    cur_view_mode = "combined" =>
        \A b \in DOMAIN ng2id : Cardinality(b) > 1 => \A n \in b : node_map[ng2id[b]] = Title(name[n])

\* The iterator of "Jump to next highlighted node" is at the end of the map or at
\* one of its nodes, whatever happened to the highlighting since.
HighlightIteratorValid == it_highlighted_node \in highlighted_nodes \cup {End}

\* "Combine nodes" centers the new graph on the group it made: focus_node is a
\* node id taken before the rebuild and becomes a graph node id after it.
FocusFollows ==
    [][combine_node_groups /\ fault' = "none" /\ cur_node' # NoNode =>
         IF cur_view_mode = "single" THEN cur_node' \in selected_nodes
         ELSE \E b \in UNION part' : ng2id'[b] = cur_node' /\ UNION SelectedNGs \subseteq b]_vars

\* A jump to the next selected node goes to an item in the container.
JumpsInside == fault # "iterator"
=============================================================================
