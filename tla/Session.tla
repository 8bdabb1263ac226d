------------------------------ MODULE Session ------------------------------
(***************************************************************************)
(* The life of the plugin's objects (plugin.cpp): the chooser singleton,    *)
(* the group manager it owns, the graph view it opens and the form that     *)
(* hosts the view. They refer to each other by raw pointers and are         *)
(* deleted by callbacks of IDA: the user may close the chooser or the graph *)
(* at any time, and loading a file replaces the manager under an open view. *)
(*                                                                         *)
(* Objects are named by their addresses. A manager is known by the function *)
(* it describes, and a bbgroup file by the function it is for. Each handler *)
(* is one step, with the callbacks it provokes: close_tform() calls         *)
(* grcode_destroyed before it returns.                                      *)
(***************************************************************************)
EXTENDS Naturals, FiniteSets

CONSTANTS
    Choosers, Managers, Views,   \* addresses
    Funcs,                       \* functions of the database
    NULL,
    Bare,                        \* the form, when no viewer could be created
    MaxId                        \* bound on the menu ids handed out

ASSUME SessionAssumption == /\ NULL \notin Choosers \cup Managers \cup Views \cup Funcs
                            /\ Bare \notin Views \cup {NULL} /\ MaxId \in Nat

\* What PyBBMatcher holds: the module, its bbMatcher and four methods of it.
Methods == {"py_meth_find_similar", "py_meth_save_state", "py_meth_load_state", "py_meth_analyze"}
Refs    == {"py_matcher_module", "py_instref"} \cup Methods

VARIABLES
    singleton,          \* the chooser, or NULL
    gm,                 \* its group manager
    gsgv,               \* its graph view
    func_fc,            \* the function of its flowchart, shared with the view
    ch_nodes,           \* its lines: [gm, func] they were populated from, or NULL
    last_loaded_file,
    liveGM, liveV,      \* managers and views now allocated
    func,               \* manager -> function, NULL when it is empty
    view_gm, actions,   \* view -> its gm and its callback object
    shown,              \* view -> function of the graph on display
    form,               \* the form STR_GS_VIEW: NULL, Bare, or the view in it
    menu_ids, next_id,  \* static: menu id -> view, and the ids handed out
    items,              \* view -> menu ids in its viewer's menu
    idm_set_sel_mode,   \* view -> id of its selection mode item, NoItem for -1
    refcount,           \* the references to Python objects the matcher took
    orphans,            \* managers that failed starts of the plugin left behind
    crashed             \* a null file name was opened

chooser == <<singleton, gm, gsgv, func_fc, ch_nodes, last_loaded_file>>
view    == <<liveV, view_gm, actions, shown, form>>
menu    == <<menu_ids, next_id, items, idm_set_sel_mode>>
python  == <<refcount, orphans>>
vars    == <<chooser, liveGM, func, view, menu, python, crashed>>

NoItem == 0

Init ==
    /\ singleton = NULL /\ gm = NULL /\ gsgv = NULL /\ func_fc = NULL
    /\ ch_nodes = NULL /\ last_loaded_file = NULL
    /\ liveGM = {} /\ liveV = {} /\ form = NULL
    /\ func = [m \in Managers |-> NULL]
    /\ view_gm = [v \in Views |-> NULL] /\ actions = [v \in Views |-> NULL]
    /\ shown = [v \in Views |-> NULL]
    /\ menu_ids = [i \in 1 .. MaxId |-> NULL] /\ next_id = 0
    /\ items = [v \in Views |-> {}] /\ idm_set_sel_mode = [v \in Views |-> NoItem]
    /\ refcount = [r \in Refs |-> 0] /\ orphans = {} /\ crashed = FALSE

-----------------------------------------------------------------------------
(* The view *)

\* The view whose viewer is in the form, if any: closing the form destroys it.
Hosted == {form} \cap Views

\* A field of the views, once the hosted one is deleted.
Without(field, nothing) == [v \in Views |-> IF v \in Hosted THEN nothing ELSE field[v]]

\* The next k ids of the static counter of add_menu().
NewIds(k) == next_id + 1 .. next_id + k

\* k items are added to the menu of the view v, and its viewer takes those of got:
\* their ids are mapped to v. del_menu() removes the ids of del.
add_menu(v, k, got, del) ==
    /\ next_id + k <= MaxId /\ next_id' = next_id + k
    /\ menu_ids' = [i \in 1 .. MaxId |-> IF i \in got THEN v
                                         ELSE IF i \in NewIds(k) \cup del THEN NULL ELSE menu_ids[i]]

\* The selection mode item is the last one added, if the viewer took it.
SelModeIn(got, k) == IF next_id + k \in got THEN next_id + k ELSE NoItem

\* grcode_destroyed: the view deletes itself, and its viewer goes with its menu.
\* Its entries in menu_ids stay.
Destroyed ==
    /\ liveV' = liveV \ Hosted /\ form' = NULL
    /\ view_gm' = Without(view_gm, NULL) /\ actions' = Without(actions, NULL)
    /\ shown' = Without(shown, NULL)
    /\ items' = Without(items, {}) /\ idm_set_sel_mode' = Without(idm_set_sel_mode, NoItem)
    /\ UNCHANGED <<menu_ids, next_id>>

\* A new view in a new form. When no viewer can be created the view has neither
\* viewer nor form. Of its menu, the fixed items are one id here, the selection
\* mode item is another.
NewView(c, v, ok) ==
    /\ liveV' = (liveV \ Hosted) \cup {v}
    /\ gsgv' = v
    /\ view_gm' = [Without(view_gm, NULL) EXCEPT ![v] = gm']
    /\ actions' = [Without(actions, NULL) EXCEPT ![v] = c]
    /\ form' = IF ok THEN v ELSE Bare
    /\ shown' = [Without(shown, NULL) EXCEPT ![v] = IF ok THEN func_fc' ELSE NULL]
    /\ \E got \in SUBSET NewIds(2) :
          /\ got = {} \/ ok
          /\ items' = [Without(items, {}) EXCEPT ![v] = got]
          /\ idm_set_sel_mode' = [Without(idm_set_sel_mode, NoItem) EXCEPT ![v] = SelModeIn(got, 2)]
          /\ IF ok THEN add_menu(v, 2, got, {}) ELSE UNCHANGED <<menu_ids, next_id>>

\* gsgraphview_t::show_graph() for the chooser c: a form that is already there
\* is closed and made again, if a window can be had for it.
show_graph(c) ==
    \/ \E v \in Views \ (liveV \ Hosted) : \E ok \in BOOLEAN : NewView(c, v, ok)
    \/ Destroyed /\ gsgv' = NULL

Mut_notify_close == UNCHANGED gsgv

\* The chooser is told not to rely on the view any more.
notify_close == gsgv' = NULL

\* The user closes the graph's form.
CloseGraph ==
    /\ form # NULL
    /\ Destroyed
    /\ IF Hosted # {} THEN notify_close ELSE UNCHANGED gsgv
    /\ UNCHANGED <<singleton, gm, func_fc, ch_nodes, last_loaded_file, liveGM, func, python>>

Mut_set_sel_mode(v) ==
    /\ v \in Hosted /\ idm_set_sel_mode[v] \in items[v]
    /\ \E got \in SUBSET NewIds(1) :
          /\ add_menu(v, 1, got, {})
          /\ items' = [items EXCEPT ![v] = @ \cup got]
          /\ idm_set_sel_mode' = [idm_set_sel_mode EXCEPT ![v] = SelModeIn(got, 1)]
    /\ UNCHANGED <<chooser, liveGM, func, view, python>>

\* The selection mode item is deleted and added anew with the other label. The
\* user gets here by that item.
set_sel_mode(v) ==
    /\ v \in Hosted /\ idm_set_sel_mode[v] \in items[v]
    /\ \E got \in SUBSET NewIds(1) :
          /\ add_menu(v, 1, got, {idm_set_sel_mode[v]})
          /\ items' = [items EXCEPT ![v] = (@ \ {idm_set_sel_mode[v]}) \cup got]
          /\ idm_set_sel_mode' = [idm_set_sel_mode EXCEPT ![v] = SelModeIn(got, 1)]
    /\ UNCHANGED <<chooser, liveGM, func, view, python>>

-----------------------------------------------------------------------------
(* The Python matcher *)

\* PyBBMatcher::init() takes one reference after the other; when a method is
\* missing it has taken the others.
init(count, S) == [r \in Refs |-> IF r \in S THEN count[r] + 1 ELSE count[r]]
Incomplete == {{}, {"py_matcher_module"}} \cup
              {{"py_matcher_module", "py_instref"} \cup S : S \in (SUBSET Methods) \ {Methods}}

Mut_deinit(count, S) == [r \in Refs |-> IF r \in S \ {"py_instref"} THEN count[r] - 1 ELSE count[r]]

\* PyBBMatcher::deinit(), by the destructor: what was taken (S) is released.
deinit(count, S) == [r \in Refs |-> IF r \in S THEN count[r] - 1 ELSE count[r]]

-----------------------------------------------------------------------------
(* The chooser *)

populate_chooser_lines == ch_nodes' = [gm |-> gm', func |-> func'[gm']]

Mut_redo_current_layout == UNCHANGED shown

\* The open graph is rebuilt from the manager and the flowchart.
redo_current_layout == shown' = [v \in Views |-> IF v \in Hosted THEN func_fc' ELSE shown[v]]

\* load_file_show_graph() on a good file for f: a new manager replaces the one
\* in use, which is deleted while an open view still points to it.
load_file_show_graph(f) ==
    /\ \E m \in Managers \ liveGM : /\ gm' = m
                                    /\ liveGM' = (liveGM \ {gm}) \cup {m}
                                    /\ func' = [k \in Managers |-> IF k = m THEN f ELSE IF k = gm THEN NULL ELSE func[k]]
    /\ func_fc' = f
    /\ populate_chooser_lines
    /\ show_graph(singleton')
    /\ last_loaded_file' = f

\* onmenu_analyze() for the function f at the cursor: the manager in use is
\* filled anew.
onmenu_analyze(f) ==
    /\ func_fc' = f
    /\ func' = [func EXCEPT ![gm'] = f]
    /\ populate_chooser_lines
    /\ IF gsgv = NULL THEN show_graph(singleton')
       ELSE redo_current_layout /\ UNCHANGED <<gsgv, liveV, view_gm, actions, form, menu>>

\* The plugin is invoked and there is no chooser. choose3() calls on_init(): the
\* file of the function at the cursor is loaded, else the function is
\* analyzed.
show(c) ==
    /\ singleton = NULL /\ singleton' = c
    /\ refcount' = init(refcount, Refs) /\ UNCHANGED orphans
    /\ \E f \in Funcs :
          \/ load_file_show_graph(f)
          \/ /\ \E m \in Managers \ liveGM : gm' = m /\ liveGM' = liveGM \cup {m}
             /\ onmenu_analyze(f) /\ last_loaded_file' = f

\* The same with the cursor in no function. The name of the file to load is the
\* null pointer, and what std::ifstream does with it is undefined: the program
\* stops, or the file cannot be opened and onmenu_analyze() returns at once.
show_no_function(c) ==
    /\ singleton = NULL /\ singleton' = c
    /\ \E m \in Managers \ liveGM : gm' = m /\ liveGM' = liveGM \cup {m}
    /\ refcount' = init(refcount, Refs) /\ last_loaded_file' = NULL
    /\ crashed' \in BOOLEAN
    /\ UNCHANGED <<gsgv, func_fc, ch_nodes, func, view, menu, orphans>>

\* The same, when init_python() fails: matcher and chooser are deleted at once,
\* and the chooser's destructor leaves its manager alone.
show_no_python ==
    /\ singleton = NULL
    /\ \E m \in Managers \ liveGM : liveGM' = liveGM \cup {m} /\ orphans' = orphans \cup {m}
    /\ \E S \in Incomplete : refcount' = deinit(init(refcount, S), S)
    /\ UNCHANGED <<chooser, func, view, menu>>

\* "Load bbgroup file"; "Reload bbgroup file" takes the last one. A file that
\* cannot be used changes nothing: the new manager is deleted again.
on_insert(f) == singleton # NULL /\ UNCHANGED <<singleton, python>> /\ load_file_show_graph(f)

on_delete == last_loaded_file # NULL /\ on_insert(last_loaded_file)

menu_analyze(f) ==
    /\ singleton # NULL
    /\ UNCHANGED <<singleton, gm, last_loaded_file, liveGM, python>> /\ onmenu_analyze(f)

menu_show_graph ==
    /\ singleton # NULL /\ gsgv = NULL /\ func[gm] # NULL
    /\ UNCHANGED <<singleton, gm, func_fc, ch_nodes, last_loaded_file, liveGM, func, python>>
    /\ show_graph(singleton)

Mut_close_graph == UNCHANGED <<view, menu>>

\* The form of the view is closed, unless there is no view or it has no form.
close_graph == IF gsgv \in Hosted THEN Destroyed ELSE UNCHANGED <<view, menu>>

\* The chooser is closed: graph, manager, chooser and matcher go, in this order.
on_destroy ==
    /\ singleton # NULL
    /\ close_graph
    /\ liveGM' = liveGM \ {gm} /\ func' = [func EXCEPT ![gm] = NULL]
    /\ singleton' = NULL /\ gm' = NULL /\ gsgv' = NULL
    /\ func_fc' = NULL /\ ch_nodes' = NULL /\ last_loaded_file' = NULL
    /\ refcount' = deinit(refcount, Refs) /\ UNCHANGED orphans

Handler ==
    \/ \E c \in Choosers : show(c)
    \/ show_no_python \/ on_delete \/ menu_show_graph \/ on_destroy \/ CloseGraph
    \/ \E f \in Funcs : on_insert(f) \/ menu_analyze(f)
    \/ \E v \in Views : set_sel_mode(v)

Next == ~crashed /\ ((Handler /\ UNCHANGED crashed) \/ \E c \in Choosers : show_no_function(c))

Spec == Init /\ [][Next]_vars

-----------------------------------------------------------------------------
(* Properties *)

\* Every variable has its type.
TypeOK ==
    /\ singleton \in Choosers \cup {NULL} /\ gm \in Managers \cup {NULL}
    /\ gsgv \in Views \cup {NULL}
    /\ {func_fc, last_loaded_file} \subseteq Funcs \cup {NULL}
    /\ ch_nodes = NULL \/ ch_nodes \in [gm : Managers, func : Funcs]
    /\ liveGM \subseteq Managers /\ liveV \subseteq Views /\ form \in Views \cup {NULL, Bare}
    /\ func \in [Managers -> Funcs \cup {NULL}] /\ shown \in [Views -> Funcs \cup {NULL}]
    /\ view_gm \in [Views -> Managers \cup {NULL}] /\ actions \in [Views -> Choosers \cup {NULL}]
    /\ menu_ids \in [1 .. MaxId -> Views \cup {NULL}] /\ next_id \in 0 .. MaxId
    /\ items \in [Views -> SUBSET (1 .. MaxId)]
    /\ idm_set_sel_mode \in [Views -> 0 .. MaxId] /\ crashed \in BOOLEAN
    /\ refcount \in [Refs -> Nat] /\ orphans \subseteq Managers

\* The pointers of the chooser are good: its manager is allocated, and so is its
\* view, until the close notification makes it forget the view. And its lines,
\* which hold pointers into the manager, come from the one in use and from what
\* it holds now.
LinesCurrent ==
    singleton # NULL => ch_nodes = IF func[gm] = NULL THEN NULL ELSE [gm |-> gm, func |-> func[gm]]
ChooserPointersLive ==
    /\ singleton # NULL => gm \in liveGM
    /\ gsgv # NULL => gsgv \in liveV
    /\ LinesCurrent

\* A view that gets callbacks (it has a viewer) is the chooser's, and the
\* pointers it follows in them are good: the chooser it notifies is there and
\* its manager is the one in use, also after another file was loaded.
ViewBacked ==
    \A v \in Hosted : /\ v \in liveV /\ gsgv = v
                      /\ actions[v] = singleton /\ singleton # NULL
                      /\ view_gm[v] = gm /\ gm \in liveGM

\* Manager, flowchart and displayed graph are of the same function: the builders
\* index the flowchart with the node ids of the manager.
FlowchartAgrees ==
    singleton # NULL => /\ func_fc = func[gm]
                        /\ \A v \in Hosted : shown[v] = func[gm]

\* Every item in the menu of an open viewer is dispatched to the view behind it,
\* though menu_ids keeps the items of views long deleted. And the menu has no
\* selection mode item but the one the view knows of, whatever the viewer refused.
MenuReachesView ==
    \A v \in Hosted : /\ \A i \in items[v] : menu_ids[i] = v
                      /\ Cardinality(items[v] \ {idm_set_sel_mode[v]}) <= 1

\* What a run of the plugin takes it gives back, however far its start got: with
\* no chooser no Python reference is held and no manager is allocated, but for
\* the one each failed start leaves; with one, each reference is held once.
Released ==
    /\ \A r \in Refs : refcount[r] = IF singleton = NULL THEN 0 ELSE 1
    /\ liveGM = orphans \cup ({gm} \ {NULL})
=============================================================================
