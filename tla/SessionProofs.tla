--------------------------- MODULE SessionProofs ---------------------------
(* Theorems about Session, for every number of objects, functions and menu ids. *)
EXTENDS Session, FiniteSetTheorems, TLAPS

-----------------------------------------------------------------------------
(* The inductive invariant *)

\* TypeOK in two halves: the chooser and its managers, the views and their menus.
ChooserTypes ==
    /\ singleton \in Choosers \cup {NULL} /\ gm \in Managers \cup {NULL}
    /\ func_fc \in Funcs \cup {NULL} /\ last_loaded_file \in Funcs \cup {NULL}
    /\ ch_nodes = NULL \/ ch_nodes \in [gm : Managers, func : Funcs]
    /\ liveGM \subseteq Managers /\ func \in [Managers -> Funcs \cup {NULL}]
    /\ refcount \in [Refs -> Nat] /\ orphans \subseteq Managers

ViewTypes ==
    /\ gsgv \in Views \cup {NULL} /\ liveV \subseteq Views /\ form \in Views \cup {NULL, Bare}
    /\ shown \in [Views -> Funcs \cup {NULL}] /\ view_gm \in [Views -> Managers \cup {NULL}]
    /\ actions \in [Views -> Choosers \cup {NULL}]
    /\ menu_ids \in [1 .. MaxId -> Views \cup {NULL}] /\ next_id \in 0 .. MaxId
    /\ items \in [Views -> SUBSET (1 .. MaxId)] /\ idm_set_sel_mode \in [Views -> 0 .. MaxId]

\* Without a chooser nothing of it is left; with one it has a manager.
Idle ==
    IF singleton = NULL
    THEN gm = NULL /\ gsgv = NULL /\ func_fc = NULL /\ ch_nodes = NULL /\ last_loaded_file = NULL
    ELSE gm \in liveGM

\* The managers of failed starts are never the one in use, and what is not
\* allocated describes no function.
Managed ==
    /\ liveGM = orphans \cup ({gm} \ {NULL}) /\ gm \notin orphans
    /\ \A m \in Managers \ liveGM : func[m] = NULL

\* The references, as Released has them.
Counted == \A r \in Refs : refcount[r] = IF singleton = NULL THEN 0 ELSE 1

\* Chooser, manager and flowchart agree.
ChooserAgrees ==
    singleton # NULL => /\ func_fc = func[gm]
                        /\ ch_nodes = IF func[gm] = NULL THEN NULL ELSE [gm |-> gm, func |-> func[gm]]

\* The hosted view shows the chooser's flowchart.
ShownAgrees == \A v \in Hosted : shown[v] = func_fc

\* The menu of the hosted view has the selection mode item and at most one more,
\* all handed out before and mapped to it.
MenuKnown ==
    \A v \in Hosted : /\ items[v] \subseteq 1 .. next_id /\ \A i \in items[v] : menu_ids[i] = v
                      /\ \E a : items[v] \subseteq {a, idm_set_sel_mode[v]}

\* The chooser's view is allocated.
ViewLive == gsgv # NULL => gsgv \in liveV

\* The invariant.
ChooserInv == ChooserTypes /\ Idle /\ Managed /\ Counted /\ ChooserAgrees
ViewInv    == ViewTypes /\ ViewLive /\ ViewBacked /\ ShownAgrees /\ MenuKnown
Inv        == ChooserInv /\ ViewInv
SessionInv == Inv /\ crashed \in BOOLEAN

\* The invariant gives all that the runs check.
LEMMA InvImplies ==
  SessionInv => /\ TypeOK /\ ChooserPointersLive /\ ViewBacked
                /\ FlowchartAgrees /\ MenuReachesView /\ Released
<1> SUFFICES ASSUME SessionInv
             PROVE  /\ TypeOK /\ ChooserPointersLive /\ ViewBacked
                    /\ FlowchartAgrees /\ MenuReachesView /\ Released
  OBVIOUS
<1> USE DEF SessionInv, Inv, ChooserInv, ViewInv
<1>1. TypeOK
  BY DEF TypeOK, ChooserTypes, ViewTypes
<1>2. ChooserPointersLive /\ ViewBacked
  BY DEF ChooserPointersLive, LinesCurrent, Idle, ViewLive, ChooserAgrees
<1>3. FlowchartAgrees
  BY DEF FlowchartAgrees, ChooserAgrees, ShownAgrees
<1>4. MenuReachesView
  <2> SUFFICES ASSUME NEW v \in Hosted
               PROVE  (\A i \in items[v] : menu_ids[i] = v) /\ Cardinality(items[v] \ {idm_set_sel_mode[v]}) <= 1
    BY DEF MenuReachesView
  <2>1. PICK a : items[v] \subseteq {a, idm_set_sel_mode[v]}
    BY DEF MenuKnown
  <2>2. IsFiniteSet({a}) /\ Cardinality({a}) = 1
    BY FS_Singleton
  <2>3. items[v] \ {idm_set_sel_mode[v]} \subseteq {a}
    BY <2>1
  <2>4. Cardinality(items[v] \ {idm_set_sel_mode[v]}) <= Cardinality({a})
    BY <2>2, <2>3, FS_Subset
  <2> QED BY <2>2, <2>4 DEF MenuKnown
<1>5. Released
  BY DEF Released, Counted, Managed
<1> QED BY <1>1, <1>2, <1>3, <1>4, <1>5

\* The initial state.
LEMMA InvInit == Init => SessionInv
<1> SUFFICES ASSUME Init PROVE SessionInv
  OBVIOUS
<1>1. Hosted = {}
  BY SessionAssumption DEF Init, Hosted
<1>2. ChooserInv
  BY SessionAssumption DEF Init, ChooserInv, ChooserTypes, Idle, Managed, Counted, ChooserAgrees
<1>3. ViewInv
  <2>1. idm_set_sel_mode \in [Views -> 0 .. MaxId]
    BY SessionAssumption DEF Init, NoItem
  <2> QED BY <1>1, <2>1, SessionAssumption DEF Init, ViewInv, ViewTypes, ViewLive, ViewBacked, ShownAgrees, MenuKnown
<1> QED BY <1>2, <1>3 DEF Init, Inv, SessionInv

-----------------------------------------------------------------------------
(* The view *)

\* The form is closed and the chooser forgets the view, if there was one.
LEMMA DestroyedStep ==
  ASSUME ViewInv, Destroyed, gsgv' \in Views \cup {NULL}, gsgv' # NULL => gsgv' \in liveV \ Hosted
  PROVE  ViewInv'
<1> USE DEF ViewInv, ViewTypes, Destroyed
<1>1. Hosted' = {}
  BY SessionAssumption DEF Hosted
<1>2. ViewTypes'
  BY SessionAssumption DEF Without, NoItem
<1> QED BY <1>1, <1>2 DEF ViewLive, ViewBacked, ShownAgrees, MenuKnown

\* show_graph() leaves the chooser with an allocated view of its own or with none,
\* whatever view was hosted before.
LEMMA show_graphStep ==
  ASSUME ViewInv, NEW c \in Choosers, singleton' = c, gm' \in Managers, gm' \in liveGM',
         func_fc' \in Funcs, show_graph(c)
  PROVE  ViewInv'
<1>0. CASE Destroyed /\ gsgv' = NULL
  BY <1>0, DestroyedStep
<1> SUFFICES ASSUME NEW v \in Views \ (liveV \ Hosted), NEW ok \in BOOLEAN, NewView(c, v, ok)
             PROVE  ViewInv'
  BY <1>0 DEF show_graph
<1> USE DEF ViewInv, ViewTypes
<1>1. /\ liveV' = (liveV \ Hosted) \cup {v}
      /\ gsgv' = v
      /\ view_gm' = [Without(view_gm, NULL) EXCEPT ![v] = gm']
      /\ actions' = [Without(actions, NULL) EXCEPT ![v] = c]
      /\ form' = IF ok THEN v ELSE Bare
      /\ shown' = [Without(shown, NULL) EXCEPT ![v] = IF ok THEN func_fc' ELSE NULL]
  BY DEF NewView
<1>2. MaxId \in Nat /\ Bare \notin Views /\ NULL \notin Views /\ NULL \notin Choosers
  BY SessionAssumption
<1>3. Hosted' = IF ok THEN {v} ELSE {}
  BY <1>1, <1>2 DEF Hosted
<1>4. PICK got \in SUBSET NewIds(2) :
        /\ got = {} \/ ok
        /\ items' = [Without(items, {}) EXCEPT ![v] = got]
        /\ idm_set_sel_mode' = [Without(idm_set_sel_mode, NoItem) EXCEPT ![v] = SelModeIn(got, 2)]
        /\ IF ok THEN add_menu(v, 2, got, {}) ELSE UNCHANGED <<menu_ids, next_id>>
  BY DEF NewView
<1>5. next_id \in Nat /\ NewIds(2) = {next_id + 1, next_id + 2}
  BY <1>2 DEF NewIds
<1>6. ok => /\ next_id' = next_id + 2 /\ next_id' <= MaxId
            /\ menu_ids' = [i \in 1 .. MaxId |-> IF i \in got THEN v ELSE IF i \in NewIds(2) THEN NULL ELSE menu_ids[i]]
  BY <1>4, <1>5 DEF add_menu
<1>7. got \subseteq 1 .. MaxId /\ SelModeIn(got, 2) \in 0 .. MaxId
  <2>1. CASE ok
    <3>1. next_id + 2 <= MaxId
      BY <1>6, <2>1
    <3>2. got \subseteq {next_id + 1, next_id + 2}
      BY <1>5
    <3>3. next_id + 1 \in 1 .. MaxId /\ next_id + 2 \in 1 .. MaxId
      BY <1>2, <1>5, <3>1
    <3>4. got \subseteq 1 .. MaxId
      BY <3>2, <3>3
    <3>5. next_id + 2 \in 0 .. MaxId /\ 0 \in 0 .. MaxId
      BY <1>2, <3>3
    <3> QED BY <3>4, <3>5 DEF SelModeIn, NoItem
  <2>2. CASE ~ok
    <3>1. got = {}
      BY <1>4, <2>2
    <3> QED BY <1>2, <3>1 DEF SelModeIn, NoItem
  <2> QED BY <2>1, <2>2
<1>8. ViewTypes'
  <2>1. shown' \in [Views -> Funcs \cup {NULL}] /\ view_gm' \in [Views -> Managers \cup {NULL}]
        /\ actions' \in [Views -> Choosers \cup {NULL}]
    BY <1>1 DEF Without
  <2>2. next_id' \in 0 .. MaxId /\ menu_ids' \in [1 .. MaxId -> Views \cup {NULL}]
    <3>1. CASE ok
      <4>1. next_id' \in 0 .. MaxId
        BY <1>2, <1>5, <1>6, <3>1
      <4> QED BY <1>6, <3>1, <4>1
    <3>2. CASE ~ok
      BY <1>4, <3>2
    <3> QED BY <3>1, <3>2
  <2>3. items' \in [Views -> SUBSET (1 .. MaxId)]
    BY <1>4, <1>7 DEF Without
  <2>4. idm_set_sel_mode' \in [Views -> 0 .. MaxId]
    <3>1. Without(idm_set_sel_mode, NoItem) \in [Views -> 0 .. MaxId]
      BY <1>2 DEF Without, NoItem
    <3> QED BY <1>4, <1>7, <3>1
  <2> QED BY <1>1, <2>1, <2>2, <2>3, <2>4
<1>9. ViewLive' /\ ViewBacked' /\ ShownAgrees'
  <2>1. view_gm'[v] = gm' /\ actions'[v] = c /\ (ok => shown'[v] = func_fc')
    BY <1>1 DEF Without
  <2> QED BY <1>1, <1>2, <1>3, <2>1 DEF ViewLive, ViewBacked, ShownAgrees
<1>10. MenuKnown'
  <2> SUFFICES ASSUME ok
               PROVE  /\ items'[v] \subseteq 1 .. next_id' /\ \A i \in items'[v] : menu_ids'[i] = v
                      /\ \E a : items'[v] \subseteq {a, idm_set_sel_mode'[v]}
    BY <1>3 DEF MenuKnown
  <2>1. items'[v] = got /\ idm_set_sel_mode'[v] = SelModeIn(got, 2)
    BY <1>4 DEF Without
  <2>2. got \subseteq 1 .. next_id' /\ \A i \in got : menu_ids'[i] = v
    <3>1. got \subseteq {next_id + 1, next_id + 2}
      BY <1>5
    <3>2. next_id + 1 \in 1 .. next_id' /\ next_id + 2 \in 1 .. next_id'
      BY <1>5, <1>6
    <3>3. menu_ids' = [i \in 1 .. MaxId |-> IF i \in got THEN v ELSE IF i \in NewIds(2) THEN NULL ELSE menu_ids[i]]
      BY <1>6
    <3> QED BY <1>7, <3>1, <3>2, <3>3
  <2>3. got \subseteq {next_id + 1, SelModeIn(got, 2)}
    BY <1>5 DEF SelModeIn
  <2> QED BY <2>1, <2>2, <2>3
<1> QED BY <1>8, <1>9, <1>10

\* The user closes the graph.
LEMMA CloseGraphStep == ASSUME Inv, CloseGraph PROVE Inv'
<1>1. ChooserInv'
  BY DEF Inv, ChooserInv, CloseGraph, python, ChooserTypes, Idle, Managed, Counted, ChooserAgrees, notify_close
<1>2. gsgv' \in Views \cup {NULL} /\ (gsgv' # NULL => gsgv' \in liveV \ Hosted)
  BY DEF Inv, ViewInv, ViewTypes, CloseGraph, notify_close, ViewLive
<1>3. ViewInv'
  BY <1>2, DestroyedStep DEF Inv, CloseGraph
<1> QED BY <1>1, <1>3 DEF Inv

\* The selection mode item is replaced: the greater of the two ids goes, an id
\* never handed out before comes.
LEMMA set_sel_modeStep == ASSUME Inv, NEW v \in Views, set_sel_mode(v) PROVE Inv'
<1> USE DEF Inv, ViewInv, ViewTypes
<1>1. UNCHANGED <<chooser, liveGM, func, view, python>> /\ v \in Hosted /\ Hosted' = Hosted
  BY DEF set_sel_mode, view, Hosted
<1>2. ChooserInv'
  BY <1>1 DEF chooser, python, ChooserInv, ChooserTypes, Idle, Managed, Counted, ChooserAgrees
<1>3. ViewLive' /\ ViewBacked' /\ ShownAgrees'
  BY <1>1 DEF chooser, view, ViewLive, ViewBacked, ShownAgrees
<1> DEFINE idm == idm_set_sel_mode[v]
<1>4. PICK got \in SUBSET NewIds(1) :
        /\ add_menu(v, 1, got, {idm})
        /\ items' = [items EXCEPT ![v] = (items[v] \ {idm}) \cup got]
        /\ idm_set_sel_mode' = [idm_set_sel_mode EXCEPT ![v] = SelModeIn(got, 1)]
  BY DEF set_sel_mode
<1>5. PICK a : items[v] \subseteq {a, idm}
  BY <1>1 DEF MenuKnown
<1>6. MaxId \in Nat /\ next_id \in Nat /\ NewIds(1) = {next_id + 1}
  BY SessionAssumption DEF NewIds
<1> HIDE DEF idm
<1>7. /\ next_id' = next_id + 1 /\ next_id' <= MaxId
      /\ menu_ids' = [i \in 1 .. MaxId |-> IF i \in got THEN v
                                           ELSE IF i \in {next_id + 1} \cup {idm} THEN NULL ELSE menu_ids[i]]
  BY <1>4, <1>6 DEF add_menu
<1>8. v \in Views
  OBVIOUS
<1>9. ViewTypes'
  <2>1. got \subseteq 1 .. MaxId /\ SelModeIn(got, 1) \in 0 .. MaxId
    BY <1>6, <1>7 DEF SelModeIn, NoItem
  <2>2. items' \in [Views -> SUBSET (1 .. MaxId)] /\ idm_set_sel_mode' \in [Views -> 0 .. MaxId]
    BY <1>4, <2>1
  <2>3. next_id' \in 0 .. MaxId /\ menu_ids' \in [1 .. MaxId -> Views \cup {NULL}]
    BY <1>6, <1>7
  <2> QED BY <1>1, <2>2, <2>3 DEF chooser, view
<1>10. MenuKnown'
  <2>1. Hosted' = {v} /\ items'[v] = (items[v] \ {idm}) \cup got /\ idm_set_sel_mode'[v] = SelModeIn(got, 1)
    BY <1>1, <1>4 DEF Hosted
  <2>2. ASSUME NEW i \in items'[v] PROVE i \in 1 .. next_id' /\ menu_ids'[i] = v
    <3>1. CASE i \in got
      BY <1>6, <1>7, <3>1
    <3>2. CASE i \in items[v] /\ i # idm /\ i \notin got
      <4>1. i \in 1 .. next_id /\ menu_ids[i] = v
        BY <1>1, <3>2 DEF MenuKnown
      <4> QED BY <1>6, <1>7, <3>2, <4>1
    <3> QED BY <2>1, <3>1, <3>2
  <2>3. items'[v] \subseteq {a, idm_set_sel_mode'[v]}
    BY <1>5, <1>6, <2>1 DEF SelModeIn
  <2> QED BY <2>1, <2>2, <2>3 DEF MenuKnown
<1> QED BY <1>2, <1>3, <1>9, <1>10

-----------------------------------------------------------------------------
(* The chooser *)

\* Another file is loaded, by a chooser that is there or just made: the manager
\* in use is deleted, and the view that pointed to it with it.
LEMMA LoadFileStep ==
  ASSUME Inv, NEW f \in Funcs, singleton' \in Choosers, load_file_show_graph(f),
         UNCHANGED orphans, Counted', refcount' \in [Refs -> Nat]
  PROVE  Inv'
<1> USE DEF Inv
<1>1. NULL \notin Managers \cup Funcs \cup Choosers
  BY SessionAssumption
<1>2. PICK m \in Managers \ liveGM :
        /\ gm' = m /\ liveGM' = (liveGM \ {gm}) \cup {m}
        /\ func' = [k \in Managers |-> IF k = m THEN f ELSE IF k = gm THEN NULL ELSE func[k]]
  BY DEF load_file_show_graph
<1>3. /\ func_fc' = f /\ last_loaded_file' = f /\ func'[gm'] = f
      /\ ch_nodes' = [gm |-> gm', func |-> f] /\ show_graph(singleton')
  BY <1>2 DEF load_file_show_graph, populate_chooser_lines
<1>4. ChooserTypes'
  BY <1>2, <1>3 DEF ChooserInv, ChooserTypes
<1>5. Idle' /\ ChooserAgrees'
  BY <1>1, <1>2, <1>3 DEF Idle, ChooserAgrees
<1>6. Managed'
  <2>1. liveGM' = orphans \cup {m} /\ m \notin orphans
    BY <1>1, <1>2 DEF ChooserInv, ChooserTypes, Managed
  <2> QED BY <1>1, <1>2, <2>1 DEF ChooserInv, ChooserTypes, Managed
<1>7. ViewInv'
  BY <1>2, <1>3, show_graphStep
<1> QED BY <1>4, <1>5, <1>6, <1>7 DEF ChooserInv

\* The manager, old or just made, is filled for f. A view that is open is laid
\* out again, else one is opened.
LEMMA AnalyzeStep ==
  ASSUME Inv, NEW f \in Funcs, singleton' \in Choosers, onmenu_analyze(f),
         gm' \in Managers, liveGM' = liveGM \cup {gm'},
         IF singleton = NULL THEN gm' \notin liveGM ELSE gm' = gm /\ singleton' = singleton,
         last_loaded_file' \in Funcs \cup {NULL}, UNCHANGED orphans, Counted', refcount' \in [Refs -> Nat]
  PROVE  Inv'
<1> USE DEF Inv
<1>1. NULL \notin Managers \cup Funcs \cup Choosers \cup Views
  BY SessionAssumption
<1>2. /\ func_fc' = f /\ func' = [func EXCEPT ![gm'] = f] /\ func'[gm'] = f
      /\ ch_nodes' = [gm |-> gm', func |-> f]
  BY DEF onmenu_analyze, populate_chooser_lines, ChooserInv, ChooserTypes
<1>3. ChooserTypes'
  BY <1>2 DEF ChooserInv, ChooserTypes
<1>4. Idle' /\ ChooserAgrees'
  BY <1>1, <1>2 DEF Idle, ChooserAgrees
<1>5. Managed'
  BY <1>1, <1>2 DEF ChooserInv, ChooserTypes, Managed, Idle
<1>6. ViewInv'
  <2>1. CASE gsgv = NULL
    BY <1>2, <2>1, show_graphStep DEF onmenu_analyze
  <2>2. CASE gsgv # NULL
    <3>1. /\ shown' = [v \in Views |-> IF v \in Hosted THEN f ELSE shown[v]]
          /\ UNCHANGED <<gsgv, liveV, view_gm, actions, form, menu_ids, next_id, items, idm_set_sel_mode>>
      BY <1>2, <2>2 DEF onmenu_analyze, redo_current_layout, menu
    <3>2. Hosted' = Hosted /\ Hosted \subseteq Views /\ singleton # NULL
      BY <2>2, <3>1 DEF Hosted, ChooserInv, Idle
    <3>3. ViewTypes' /\ ViewLive'
      BY <3>1 DEF ViewInv, ViewTypes, ViewLive
    <3>4. ViewBacked' /\ ShownAgrees' /\ MenuKnown'
      BY <1>2, <3>1, <3>2 DEF ViewInv, ViewBacked, ShownAgrees, MenuKnown
    <3> QED BY <3>3, <3>4 DEF ViewInv
  <2> QED BY <2>1, <2>2
<1> QED BY <1>3, <1>4, <1>5, <1>6 DEF ChooserInv

\* The plugin is started.
LEMMA showStep == ASSUME Inv, NEW c \in Choosers, show(c) PROVE Inv'
<1> USE DEF Inv
<1>1. NULL \notin Managers \cup Funcs \cup Choosers \cup Views
  BY SessionAssumption
<1>2. singleton = NULL /\ singleton' = c /\ UNCHANGED orphans
  BY DEF show
<1>3. Counted' /\ refcount' \in [Refs -> Nat]
  BY <1>1, <1>2 DEF show, init, Counted, ChooserInv, ChooserTypes
<1>4. PICK f \in Funcs :
        \/ load_file_show_graph(f)
        \/ /\ \E m \in Managers \ liveGM : gm' = m /\ liveGM' = liveGM \cup {m}
           /\ onmenu_analyze(f) /\ last_loaded_file' = f
  BY DEF show
<1>5. CASE load_file_show_graph(f)
  BY <1>2, <1>3, <1>5, LoadFileStep
<1>6. ASSUME NEW m \in Managers \ liveGM, gm' = m, liveGM' = liveGM \cup {m},
             onmenu_analyze(f), last_loaded_file' = f
      PROVE  Inv'
  BY <1>2, <1>3, <1>6, AnalyzeStep
<1> QED BY <1>4, <1>5, <1>6

\* It is started in no function, and survives it or not.
LEMMA show_no_functionStep == ASSUME Inv, NEW c \in Choosers, show_no_function(c) PROVE Inv'
<1> USE DEF Inv
<1>1. NULL \notin Managers \cup Funcs \cup Choosers \cup Views
  BY SessionAssumption
<1>2. singleton = NULL /\ singleton' = c /\ UNCHANGED orphans
  BY DEF show_no_function
<1>3. Counted' /\ refcount' \in [Refs -> Nat]
  BY <1>1, <1>2 DEF show_no_function, init, Counted, ChooserInv, ChooserTypes
<1>4. PICK m \in Managers \ liveGM : gm' = m /\ liveGM' = liveGM \cup {m}
  BY DEF show_no_function
<1>5. last_loaded_file' = NULL /\ UNCHANGED <<gsgv, func_fc, ch_nodes, func, view, menu>>
  BY DEF show_no_function
<1>6. func'[gm'] = NULL /\ func_fc' = NULL /\ ch_nodes' = NULL
  BY <1>2, <1>4, <1>5 DEF ChooserInv, Managed, Idle
<1>7. ChooserTypes' /\ Idle' /\ ChooserAgrees'
  BY <1>1, <1>2, <1>3, <1>4, <1>5, <1>6 DEF ChooserInv, ChooserTypes, Idle, ChooserAgrees
<1>8. Managed'
  BY <1>1, <1>2, <1>4, <1>5 DEF ChooserInv, ChooserTypes, Managed, Idle
<1>9. Hosted = {} /\ Hosted' = {}
  BY <1>2, <1>5 DEF ViewInv, ViewBacked, Hosted, view
<1>10. ViewInv'
  BY <1>5, <1>9 DEF ViewInv, ViewTypes, ViewLive, ViewBacked, ShownAgrees, MenuKnown, view, menu
<1> QED BY <1>3, <1>7, <1>8, <1>10 DEF ChooserInv

\* A start that fails releases the references it took, and leaves one manager.
LEMMA show_no_pythonStep == ASSUME Inv, show_no_python PROVE Inv'
<1> USE DEF Inv
<1>1. NULL \notin Managers
  BY SessionAssumption
<1>2. singleton = NULL /\ UNCHANGED <<chooser, func, view, menu>>
  BY DEF show_no_python
<1>3. PICK S \in Incomplete : refcount' = deinit(init(refcount, S), S)
  BY DEF show_no_python
<1>4. refcount' = refcount
  <2>1. refcount = [r \in Refs |-> refcount[r]] /\ \A r \in Refs : refcount[r] \in Nat
    BY DEF ChooserInv, ChooserTypes
  <2>2. \A r \in Refs : deinit(init(refcount, S), S)[r] = refcount[r]
    BY <2>1 DEF deinit, init
  <2>3. deinit(init(refcount, S), S) = [r \in Refs |-> deinit(init(refcount, S), S)[r]]
    BY DEF deinit
  <2> QED BY <1>3, <2>1, <2>2, <2>3
<1>5. PICK m \in Managers \ liveGM : liveGM' = liveGM \cup {m} /\ orphans' = orphans \cup {m}
  BY DEF show_no_python
<1>6. ChooserInv'
  BY <1>1, <1>2, <1>4, <1>5 DEF ChooserInv, ChooserTypes, Idle, Managed, Counted, ChooserAgrees, chooser
<1>7. ViewInv'
  <2>1. Hosted = {} /\ Hosted' = {}
    BY <1>2 DEF ViewInv, ViewBacked, Hosted, view
  <2> QED BY <1>2, <2>1 DEF ViewInv, ViewTypes, ViewLive, ViewBacked, ShownAgrees, MenuKnown, view, menu, chooser
<1> QED BY <1>6, <1>7

\* A file is loaded by the user, or the last one again.
LEMMA on_insertStep == ASSUME Inv, NEW f \in Funcs, on_insert(f) PROVE Inv'
<1>1. Counted' /\ refcount' \in [Refs -> Nat] /\ singleton' \in Choosers
  BY DEF on_insert, python, Inv, ChooserInv, Counted, ChooserTypes
<1> QED BY <1>1, LoadFileStep DEF on_insert, python

\* The function at the cursor is analyzed.
LEMMA menu_analyzeStep == ASSUME Inv, NEW f \in Funcs, menu_analyze(f) PROVE Inv'
<1>1. Counted' /\ refcount' \in [Refs -> Nat] /\ singleton' \in Choosers
  BY DEF menu_analyze, python, Inv, ChooserInv, Counted, ChooserTypes
<1>2. gm' = gm /\ gm \in liveGM /\ gm \in Managers /\ liveGM' = liveGM \cup {gm'}
  BY DEF menu_analyze, Inv, ChooserInv, Idle, ChooserTypes
<1> QED BY <1>1, <1>2, AnalyzeStep DEF menu_analyze, python, Inv, ChooserInv, ChooserTypes

\* The graph that was closed is opened again.
LEMMA menu_show_graphStep == ASSUME Inv, menu_show_graph PROVE Inv'
<1> USE DEF Inv
<1>1. UNCHANGED <<singleton, gm, func_fc, ch_nodes, last_loaded_file, liveGM, func, python>> /\ gsgv = NULL
  BY DEF menu_show_graph
<1>2. ChooserInv'
  <2>1. singleton # NULL
    BY DEF menu_show_graph
  <2> QED BY <1>1, <2>1 DEF ChooserInv, ChooserTypes, Idle, Managed, Counted, ChooserAgrees, python
<1>3. singleton' \in Choosers /\ gm' \in Managers /\ gm' \in liveGM' /\ func_fc' \in Funcs
  BY <1>1 DEF menu_show_graph, ChooserInv, ChooserTypes, Idle, ChooserAgrees
<1>4. ViewInv'
  BY <1>1, <1>3, show_graphStep DEF menu_show_graph
<1> QED BY <1>2, <1>4

\* The chooser is closed, and with it a view that is hosted: nothing that gets
\* callbacks is left.
LEMMA on_destroyStep == ASSUME Inv, on_destroy PROVE Inv'
<1> USE DEF Inv
<1>1. NULL \notin Managers \cup Funcs \cup Choosers \cup Views
  BY SessionAssumption
<1>2. /\ singleton # NULL /\ close_graph /\ UNCHANGED orphans
      /\ liveGM' = liveGM \ {gm} /\ func' = [func EXCEPT ![gm] = NULL]
      /\ singleton' = NULL /\ gm' = NULL /\ gsgv' = NULL
      /\ func_fc' = NULL /\ ch_nodes' = NULL /\ last_loaded_file' = NULL
  BY DEF on_destroy
<1>3. Counted' /\ refcount' \in [Refs -> Nat]
  BY <1>2 DEF on_destroy, deinit, Counted, ChooserInv, ChooserTypes
<1>4. ChooserTypes' /\ Idle' /\ ChooserAgrees'
  BY <1>2, <1>3 DEF ChooserInv, ChooserTypes, Idle, ChooserAgrees
<1>5. Managed'
  BY <1>1, <1>2 DEF ChooserInv, ChooserTypes, Managed, Idle
<1>6. ViewInv'
  <2>1. CASE gsgv \in Hosted
    BY <1>2, <2>1, DestroyedStep DEF close_graph
  <2>2. CASE gsgv \notin Hosted
    <3>1. Hosted = {} /\ Hosted' = {} /\ UNCHANGED <<view, menu>>
      BY <1>2, <2>2 DEF close_graph, ViewInv, ViewBacked, Hosted, view
    <3> QED BY <1>2, <3>1 DEF ViewInv, ViewTypes, ViewLive, ViewBacked, ShownAgrees, MenuKnown, view, menu
  <2> QED BY <2>1, <2>2
<1> QED BY <1>3, <1>4, <1>5, <1>6 DEF ChooserInv

-----------------------------------------------------------------------------
\* Every step preserves the invariant.
LEMMA InvStep == SessionInv /\ [Next]_vars => SessionInv'
<1> SUFFICES ASSUME SessionInv, [Next]_vars PROVE SessionInv'
  OBVIOUS
<1> USE DEF SessionInv
<1>1. CASE UNCHANGED vars
  BY <1>1 DEF vars, chooser, view, menu, python, Inv, ChooserInv, ViewInv, ChooserTypes, ViewTypes, Idle,
              Managed, Counted, ChooserAgrees, ViewLive, ViewBacked, ShownAgrees, MenuKnown, Hosted
<1>2. ASSUME on_delete PROVE Inv'
  BY <1>2, on_insertStep DEF on_delete, Inv, ChooserInv, ChooserTypes
<1>3. CASE Handler /\ UNCHANGED crashed
  BY <1>2, <1>3, showStep, show_no_pythonStep, menu_show_graphStep, on_destroyStep, CloseGraphStep,
     on_insertStep, menu_analyzeStep, set_sel_modeStep DEF Handler
<1>4. ASSUME NEW c \in Choosers, show_no_function(c) PROVE SessionInv'
  BY <1>4, show_no_functionStep DEF show_no_function
<1> QED BY <1>1, <1>3, <1>4 DEF Next

\* The invariant holds throughout.
LEMMA Always == Spec => []SessionInv
BY InvInit, InvStep, PTL DEF Spec

\* Every variable keeps its type, for any number of objects.
THEOREM SessionTypes == Spec => []TypeOK
BY Always, InvImplies, PTL

\* The chooser never holds a pointer to a manager or a view that was deleted,
\* whatever is closed, loaded or replaced in whatever order, and its lines never
\* outlive the manager they point into.
THEOREM ChooserSafe == Spec => []ChooserPointersLive
BY Always, InvImplies, PTL

\* A view that gets callbacks follows good pointers in them: on_destroy closes
\* it before it deletes manager and chooser, and a load that deletes the manager
\* under it deletes the view as well.
THEOREM CallbacksSafe == Spec => []ViewBacked
BY Always, InvImplies, PTL

\* Manager, flowchart and displayed graph are of one function at all times.
THEOREM OneFunctionShown == Spec => []FlowchartAgrees
BY Always, InvImplies, PTL

\* A menu item of an open viewer is dispatched to the view behind it, although
\* the static table keeps the items of views long deleted.
THEOREM MenusReach == Spec => []MenuReachesView
BY Always, InvImplies, PTL

\* What a start of the plugin takes is given back, however far it got; only the
\* managers of failed starts are left.
THEOREM AllReleased == Spec => []Released
BY Always, InvImplies, PTL
=============================================================================
