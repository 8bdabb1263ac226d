# GraphSlick in TLA+

GraphSlick is an IDA Pro plugin. It shows the flowchart of a function with its
basic blocks gathered into groups that the user, a file, or a matcher written in
Python proposes, and lets the user rearrange, name, select and highlight them.
This directory holds TLA+ models of its core, the TLC runs that check them on
small instances, and proofs that TLAPS checks for every instance.

`PROJECT.json` lists components, runs, the source lines behind each definition,
hazards, findings and theorems. Operators named `Mut_X` are variants of `X` with
a plausible bug in it; no specification uses them, they show that a property can
fail.

## 1. The system

| part | source | state | operations |
|---|---|---|---|
| group manager | `groupman.cpp/.h` | `path_sgl`, `similar_sgl`: lists of super groups (SG), each a list of node groups (NG), each a list of node definitions (ND), all owned raw pointers; `all_nodes`: node id -> ND; `nid2loc`: node id -> (SG, NG, ND), a cache of the tree | `clear`, `parse`, `emit`, `initialize_lookups`, `combine_ngl`, `move_nodes_to_ng`, `reset_groupping`, finders |
| builders | `algo.cpp`, `algo.hpp` | none of their own | `build_groupman_from_fc`, `build_groupman_from_3dvec`, `sanitize_groupman`, `func_to_mgraph`, `fc_to_combined_mg` |
| graph view | `plugin.cpp`, `gsgraphview_t` | view mode, `ng2id`, node texts, selection, highlighting, an iterator into each, current node, selection mode; static `menu_ids` | the context menu, the callbacks of the graph viewer |
| chooser | `plugin.cpp`, `gschooser_t` | singleton, manager, view, flowchart, lines, last file | load, reload, analyze, show graph, edit, highlight, close |
| colors | `colorgen.cpp/.h` | hue, saturation; luminance of a variant | `get_colorvar`, `get_color`, `get_color_anyway`, `rewind` |
| bbgroup file | `groupman.cpp` | a text file, written in place | `emit`, `parse`; save, load, reload of the chooser |
| matcher | `bbgroup/bb_match.py`, `bb_ida.py` | one object for all functions: the graph at hand, blocks by hash (`M`), classes of matched paths, classes by size, the normalized ones | `Analyze`, `FindSimilar` |
| Python bridge | `pybbmatcher.cpp`, `pywraps.hpp` | Python object handles | `init`, `Analyze`, `FindSimilar` |

The chooser owns the manager and opens the view; the view keeps raw pointers to
manager and chooser and shares the flowchart; both are told of their deaths by
IDA's callbacks. Builders and parser fill the manager, the view's menu
rearranges it, and `fc_to_combined_mg` turns it into the graph on display. The
chooser asks the matcher through the Python bridge; what it answers goes into the
builders, an exception in it counts as an empty answer.

Everything runs on IDA's UI thread: there is no concurrency. What is hard is
- **ownership**: NDs move between lists, emptied NGs and SGs are deleted or
  dropped, and a second owner means a double delete later;
- **caches**: `nid2loc`, `ng2id`, the graph's texts, the chooser's lines and the
  iterators all hold pointers or ids that a later command invalidates;
- **two meanings of an id**: a graph node id is a block in the ungrouped view and
  a node group, numbered afresh by every rebuild, in the grouped one;
- **lifetimes**: chooser, view and form can be closed in any order, and loading
  replaces the manager under an open view;
- **inputs**: a file may omit blocks, name one twice, or name it only in its
  similar section;
- **loops** that shrink what they walk, or that draw from an exhausted generator;
- **the matcher's walk** over two subgraphs that may meet, in a graph with cycles,
  and its tables, which survive every call, also one that raised;
- **the file**: overwritten in place, so a crash leaves a part of it;
- **refusals**: a window, a viewer or a menu item that cannot be had, Python
  missing, the cursor outside of any function.

## 2. The modules

### Grouping (abstract)
What the manager promises: `part` is a set of super groups, each a set of groups,
each a set of node ids; every loaded `part` is a two-level partition that covers
the function's blocks, and each menu item is one rearrangement of it. `Scatter`,
"Reset groupping", gives every block a group and super group of its own, as
`groupman.h:366` says; the code does not do that (section 5), so the refinement is
checked for the menus without it.

### GroupMan
The manager at the level of heap objects. Objects are addresses, `live*` the
allocated ones, `groups`, `nodes` and `nid` the fields. Containers are sets: list
order only decides what is shown first, so "the first node" is any node. The
loaders (`StartParse`, `StartBuild`, `add_supergroup`, `add_nodegroup`,
`add_node`, `SwitchSection`) build the tree line by line, so that any file and
any result of an analysis is reached; `BeginSanitize` .. `FinishSanitize` is
`sanitize_groupman` followed by `initialize_lookups`; `combine_ngl` and
`move_nodes_to_ng` are "Combine nodes" in the two views; `BeginOwn`/`OwnNode`,
`BeginOwnCombined`/`OwnCombined`, `BeginPromote`/`Promote`, `BeginReset`/`ResetNode`
are the items that a `PUBLIC` build (the shipped one, `plugin.cpp:114`) compiles
out. Loops that allocate take one step per iteration; `phase` tells which handler
runs, or that one used memory that it had freed (`move_nodes_to_ng_fault`) or a null
entry of `all_nodes` (`BeginReset_fault`): then it is "crashed". After `clear()` the entries of `nid2loc` are `Dangling`. When a node id
occurs twice, which location `initialize_lookups` keeps is any of them.

Memory never runs out: a handler starts only with `Room` in the pools and a loader
leaves what sanitize will need. `combine_ngl` leaks groups; when too few are left for
another load, an analysis does not start and a file reads as one without a node.

### CombinedGraph
`fc_to_combined_mg::build` and `get_groupid`: one step per block and per
successor, for an arbitrary flowchart and arbitrary contents of the groups.

### ColorGen
`colorgen_t` and `colorvargen_t` with unsigned arithmetic modulo `W`, as
`highlight_nodes` uses them. `HSLtoRGB` is not computed: a color is the triple
handed to it.

### GraphView
The view and the chooser's handlers that act on it, over the partition of
`Grouping`: it reuses that module's `Combine` and `Gather`, which GroupMan is
shown to implement. One step per handler, since `refresh_viewer()` calls back
before it returns. `null_nodes` are the blocks that a debug message entered in
`all_nodes` with a null pointer (`LazyHighlight`). A dereferenced null pointer or
invalid iterator sets `fault`, after which nothing happens.

The options keep the values of their constructor, as nothing changes them:
`manual_refresh_mode` is true, so the `refresh_view()` path is dead code.

### Session
The lifetimes: singleton, manager, view, form, flowchart, chooser lines and menu
ids through show, load, reload, analyze, show graph, selection mode and closing
either window. A manager is known by the function it describes. A viewer that
cannot be created leaves the form `Bare`, a window that cannot be had leaves the
chooser without a view, and of the items of a menu the viewer takes any
(`NewView`, `add_menu`); `idm_set_sel_mode` is what the view notes of its last one.
A start with the cursor in no function opens a file named by the null pointer,
after which the program may be `crashed` (`show_no_function`). The references that
`PyBBMatcher::init` takes, all or up to the first failure, and `deinit` releases are
counted.

### BBGroupFile
What a file says of a manager: two lists of super groups in order. A file is a
sequence of lines, a line a section switch or a sequence of fields. `emit_sg`,
`emit`, `parse_line`, `parse` are translated as conversions: blanks that lead a
value are skipped, of several names the last stays, several node sets add up, the
lines of an unknown section are skipped. Commands: load (refused without a first
node), analyze, combine in either view, name, save, and `CrashInSave`, which leaves
any beginning of the file (`Beginnings`), cut in the middle of a line or a field too.
`Words` are the words of ids and names, `FileAssumption` the types of what files, names and
answers of the analysis hold. A node definition is a place in a group, and what
`nid2loc` has of an id is the last place that names it (`Loc`), as
`initialize_lookups()` walks the list at the end of every command. `combine_ngl`
removes a group from the super group that the lookup of its first node gives, and
`move_nodes_to_ng` moves the located definition alone, so an id that is named twice
takes the ways it takes in the code. `tidy` and `once` say of what the manager was
made from that it had no empty group and that it named no id twice.

### BlockHash, SubGraphs, BBMatch
`BlockHash` has the comparisons of two blocks: the sequence of instruction types,
the product of primes, the frequencies. SHA-1 is injective here and a product of
primes is the bag of its factors; instruction types are digit sequences, since
the code joins them without a separator.

`SubGraphs` is the walk of `findSubGraphs` from one pair of blocks: one step per
pair taken from the queue and per successor, with the outcome of the comparisons
as a relation per hash type. What raises (no successor on the other side, a block
without instructions) ends it. It is a specification of its own, `WalkSpec`, over
any graph, which the proofs are about.

`BBMatch` extends both: `Analyze` loads a function's graph, hashes it, walks every
pair (`NextHash`, `NextPair`, `Walk`, `Record`), enters the classes by size
(`Sort`) and keeps what is not inside something taken before (`Normalize`). The tables
stay for the next call, of the same or of another function. A dictionary is
iterated in any order, in the same one as long as no key was added. `FindSimilar`
is an operator on the tables.

### MC modules
`MCGroupMan`, `MCCombinedGraph`, `MCColorGen`, `MCGraphView`, `MCSession`,
`MCBBGroupFile` and `MCBBMatch` give the constants their values.

## 3. The runs

| run | what it shows | bounds |
|---|---|---|
| `manager_any_input` | the shipped build on any input: types, no dangling pointer, one owner per object, lookups agree with the tree, no block unlocated but one that only the similar section names | 2 blocks, 3 SGs, 4 NGs, 4 NDs, repeated ids, similar section |
| `manager_handlers` | with "Move to own group" and "Promote" besides, in both views, on input that names no id twice: no dangling pointer, one owner, lookups that agree with the tree, no combination leaves an empty group, and `Grouping` is implemented | 3 blocks, 3 SGs, 4 NGs, 3 NDs, no reset |
| `manager_reset` | with "Reset groupping" among the items a block that the input names stays located, lookups are stale only while some block cannot be located, and every handler returns or crashes | as `manager_handlers`, with "Combine", "Move to own group" and the reset |
| `combined_graph` | ids dense and unique, edges of the quotient graph, of a failed build exactly those of the blocks before the failure, no node without data | all flowcharts over 3 blocks, all contents of 2 groups over 4 ids |
| `colors` | no counter wraps, the endless loop of `get_color_anyway` ends | the shipped settings; `W` = 65536 |
| `view_regrouping` | `ng2id` and the titles follow selecting, highlighting, combining, naming and switching; the view centers on what was combined | 3 blocks, 2 of them named by the input, 2 names, all partitions |
| `view_marks` | selection, highlighting, current node and the highlight iterator do not outlive their graph | 3 blocks, all partitions, all commands but "Select all" and naming |
| `session` | no pointer between chooser, manager, view, lines and flowchart goes stale; menu ids reach their view; every reference and manager is given back; windows, viewers and menu items may be refused | 2 choosers, 3 managers, 2 views, 2 functions, 6 menu ids |
| `bbgroup_file` | a file says what the manager held, is accepted again if no block was named twice, and a torn one is refused or loads soundly; a group that combining emptied stays only if it shared a block with another | 3 blocks, 4 commands, a few files and answers with empty groups, repeated fields, both sections and blocks in two groups |
| `matcher` | the walk stays in step and finds equal shapes, classes hold what their hash says, `FindSimilar` finds the selection and its like, no instance inside one taken before, a second analysis returns what the first did once more and nothing else, every analysis ends | all flowcharts over 3 blocks with out-degree up to 2, those over 4 with one branching block, two functions of 3 and 2; 2 analyses; blocks alike by each hash type, and empty ones |
| `view_jump` | violation: the jump iterator dangles after its node is deselected | 2 blocks |
| `matcher_overlap` | violation: two instances of one answer share a block | as `matcher` |

Why the bounds are enough. Three blocks give every shape of two-level partition
that matters here: alone, together in a group, in groups of one SG, in two SGs;
with repeated ids two blocks suffice for two NDs of one id in one or two groups.
They do not for the items that do not ship: what goes wrong after a reset needs one
block to be moved, one that stays and one that was lost, hence three in
`manager_handlers` and `manager_reset`. The pools allow a load, a sanitize and a
regrouping after leaks; addresses are reused after deletion, so stale pointers meet
new objects. A second view replaces the first, a third manager lets one be in use,
one be loaded and one leak, and six menu ids are those of two views and two changes
of the mode. Four commands are a load or an analysis, two changes and a save, or a
change, a save and the load of what was saved. Four blocks give the walk two
subgraphs of two blocks, cycles, subgraphs that meet, a branch and every way to
raise; `MinSize` is 2 where the code has 4, so that such small instances count.
TLC's integers have 32 bits, hence `W` = 65536: as `InRange` shows no counter gets
near it; the proof covers 2^32.

`CHECK_DEADLOCK FALSE` is set where the system may stop: the builder when it is
done, the view after a fault, the manager after a crash, the session after one or
when its bounded menu ids are used up, the file and the matcher when the bounded
commands are.

**Fairness.** `FairSpec` of GroupMan has `WF(Running)`: the UI thread runs a
handler it entered to its end, one step after the other (a handler that crashes
has ended too: `HandlersReturn` is about the loops). Nothing makes the user
give a command or the file have more lines; a loader's last step is always
enabled once the input has its first node, or it gives up. `ColorGen` has weak
fairness of the steps of the loop in `get_color_anyway`, and `BBMatch` of the steps
of a call of `Analyze`, for the same reason; nothing makes the user ask for one.

`Session` uses symmetry in addresses and functions; it has no CHOOSE and no
liveness property.

## 4. The proofs

All are checked by TLAPS, for every value of the constants, from the named
assumptions alone. Every `...Inv` below that TLC can evaluate was checked by it first.

### The group manager

- **`GroupManProofs!TypeCorrect`**: `Spec => []TypeOK`, any menu, any input.
  `TypeOK` alone is not inductive: handlers read fields of `nid2loc[n]`, so
  `TypeInv` adds that outside loading no location is `Dangling`, that the reset
  visits only mapped ids and that sanitize has made its super group.
- **`PublicSingleOwner`, `PublicHeapSafe`, `PublicLookups`**: with
  `PublicBuild` (`Menu \subseteq {"combine"}`, what ships) and any input,
  `Spec => []SingleOwner`, `[]HeapSafe`, `[]LookupsCoherent`. The invariant
  `PublicInv` speaks of every address, not only of the reachable ones: what is
  owned is allocated and nothing else has contents (`Owned`), no NG is in two
  lists and no ND in two groups (`Disjoint`), the objects a loader is filling are
  owned (`Filling`), and between handlers the lookups are those of the tree. It is
  needed because combining takes groups out of the tree without freeing them: a
  leaked group that still listed an ND would give it a second owner. The lookups
  being current is also why no handler uses what it deleted (`NothingFreedUsed`). The hard
  steps are `combine_ngl`, where a repeated id makes the handler look in the
  wrong SG, and `move_nodes_to_ng`, which deletes what it emptied.
- **`PublicBlocksFound`**: in that build a block without a location is one that
  only a similar section names. `Complete` adds where each block is while
  sanitize is still at work, so that the tree it leaves has them all.
- **`GroupManRefinement!ManagerImplements`**: `Spec => Refines`. Under `CleanInput`
  (no id twice, no similar section) and `PublicBuild` the manager implements
  `Grouping`: a load ends in a two-level partition of the blocks, each of the two
  "Combine nodes" is one `Combine` or `Gather` of it, every other step leaves it
  alone. `CleanInv` adds `Distinct`: no two NDs of the tree have one id. Without it
  the group that leaves a list and the group that is combined need not be the same,
  and the abstract step is false. `CleanInput` is what a file that
  was saved after an analysis, or the analyzer without overlaps, brings; on other
  input the other theorems of this section hold.
- **`RegroupLeavesNoneEmpty`**: there no regrouping leaves a group or super group
  empty.

`PoolsAssumption` (finite sets of addresses) is what lets `Room` count free ones.

### The grouped graph and the colors

- **`CombinedGraphProofs!DenseIds`, `QuotientGraph`, `FailureLeavesPrefix`,
  `CombinedTypes`**: for every flowchart and every content of the groups the ids
  are dense and unique, a finished build has exactly the quotient's edges, and one
  that failed has edges of the quotient alone and all those of the blocks before the
  one it failed at: its result is ignored and the view shows what there is. The
  invariant says which pairs (block, successor) were visited, that their groups have
  ids, and that the edges are theirs.
- `QuotientGraph` also says that, when the groups partition the blocks, no node of a finished
  graph is without data, though the graph is sized by the number of groups beforehand. A
  counting argument: when all groups got an id, an injection into as many ids is
  onto.
- **`ColorGenProofs!NeverWraps`**: `Spec => []InRange` for every setting within
  `RangeAssumption`: adding `W - d` modulo `W` subtracts `d` wherever the
  generator does it.

### The view

`GraphViewProofs` has one invariant, `ViewInv`, over all commands: `part` is a
two-level partition (with the lemmas that `Combine` and `Gather` of `Grouping` keep
one), in the grouped view `ng2id` is a bijection between its groups and the ids of
the graph (`Named`, `Drawn`), titles are current, marks are ids of the graph
(`Marks`).
- **`ViewTypes`, `GroupIdsFresh`, `TitlesFollow`, `HighlightIteratorSafe`**:
  any function, any commands.
- **`MarksDisplayed`**: `IdsDisplayed`, when "Select all" is not among the commands;
  with it the property is false (section 5).
- **`FocusOnNewGroup`**: the action property `FocusFollows`: a combination centers
  the view on the id its result has after the rebuild, not before.

### The session

`SessionProofs`: `SessionTypes`, `ChooserSafe`, `CallbacksSafe`,
`OneFunctionShown`, `MenusReach`, `AllReleased` prove types and every invariant of the run for
any number of windows, managers, functions and menu ids. The invariant has a
chooser's half (its manager is allocated and described by lines and flowchart, the
Python references are counted) and a view's half (what has a viewer is alive, its
menu ids are known). They are separate because every handler disturbs only one,
except loading under an open view, which must hand the new manager to the view.

### The matcher

- **`BBMatchProofs!WalkInStep`, `WalkSameShape`**: `WalkSpec => []InStep` and
  `[]SameShape`, for every graph over any set of block ids and every outcome of the
  comparisons. `WalkInv` adds to the two what makes them inductive (`Queued`): the
  pairs in the queue and the pair at work are at one place of the two paths, and
  the successors still to be tried are successors of the first of the pair.
  Without it an edge found from the pair at work would say nothing about the
  paths.
- **`BBMatchProofs!AnalysisWalks`**: `Spec => WalkSpec`, so `BBMatch` implements the
  walk, and with it **`AnalysisInStep`**, **`AnalysisSameShape`**. What has to be
  shown is that the lists of `M`, which calls about other functions filled too,
  never pair a block with itself; that `AscendingFrom` and `PairsOf` list what they
  should is a counting argument (`RankFact`).
- **`ClassesHold`**: `Spec => []ClassesHomogeneous`. The invariant follows the hash
  from the tables to the classes: lists hold blocks of their hash (`Twins`), the
  pairs to come and the pair being walked start at two blocks of one hash
  (`HeadsAlike`), a class is true of all its paths (`Classes`). It is conditional on
  `OneFunction`; `Answered` says why that cannot become true again: between two
  calls one answer is about the function at hand, so a call about another one
  ends it, unless all tables are empty.
- **`FindSimilarSound`**: `Spec => []SimilarFound`. `Classes` also keeps, for every
  path, a counterpart that differs at each place: that is why the answer has
  something besides the selection.

- **`AnalysesRepeat`**: `Spec => []AddedAgain`, and **`AnswersUncontained`**:
  `Spec => []NoneContained`, for any number of analyses of one function, any iteration
  order of the dictionaries, and analyses that raise. The invariant `Steady` rests
  on three arguments:
  - *A walk is a function of its pair.* `NextOf` is one step of the walk as an
    operator on its locals, `WalkIsNext` shows that every `Walk` step is one, and
    `Reaches` says that a trace of such steps leads from the start of a pair to a
    state. Two traces agree as far as both go (`TracesAgree`, by a first
    disagreement instead of an induction), so a pair has at most one end (`OneEnd`).
  - *A table that is complete stays.* `Progress` says that every pair that is
    neither to come nor at work is filed where its walk ends. So a call that gets
    to `Sort` has filed all pairs (`AllFiled`), and what a later call records is in
    the table already. If instead a walk raises, it raises in every call
    (`Failed`), no call gets to `Sort`, and all answers are empty (`Empties`).
  - *Normalizing again adds the same again.* `Wanted` says what the instances of a
    class are, in terms of the classes ahead of it; `NormalizeStep` shows that a class
    taken first gets them, and `NormalizeList` that the next entry of the class
    appends the same list once more. Every call adds one entry per class, so that a
    class has as many copies of its list as entries were taken of it
    (`SortCounted`, `NormalizeCounted`, `ReturnCounted`: the invariant `Adding`). That depends
    on the order being the same while no key is added, and on a class having no
    instance or two at least (`Listed`).
  `RaisedInNormalize` never happens as long as one function is analysed
  (`NeverRaises`). `Steady` speaks of traces of any length, so that TLC cannot
  evaluate it; the run checks the two properties it implies.

`ProgramsAssumption` says that a program has finite graphs of numbered blocks.

### The file

`BBGroupFileProofs` is about files, managers and histories of any length. The
conversions work on sequences, and the library's induction theorems cannot be
used, so the module starts with one that can: `SeqInduction` speaks of a set
instead of a predicate (a set with the empty sequence that is closed under
`Append` has all sequences) and follows from the least length of a
counterexample. On it rest the facts about `FlattenSeq` and `Pick`, by which the
model writes every loop over a list.

- **`FileKeepsAll`**: `Spec => []RoundTrip`. The lemma behind it is `ParseEmit`:
  `parse(emit(m))` is `Kept` of both lists, for every manager. It follows the file
  line by line: what a line reads as (`ParseEmitted`), what lines without a switch
  add to the section they are in (`ParsePlain`), what a switch does (`ParseSwitch`).
- **`SavedIsReloadable`**: `Spec => []Reloadable`, about tidy input that names no
  id twice. The invariant needed is stronger
  than a first node: `Solid`, no super group of the path list is without groups
  and no group is empty, because regrouping may make any super group the first; and
  no id is named twice (`NamedOnce`), which regrouping keeps.
  `CombineFact` and `MoveFact` show that both "Combine nodes" keep them: there the
  lookup of a group's first node leads to the group itself, so that each deletes
  what it emptied. With repeated ids it is false (section 5).
- **`TornSavesLoad`**: `Spec => SavesTearSafely`. The invariant `SavedInv` says that
  the file is a beginning of what was written of some manager with every block
  once. `TornFact` goes through every place a file can be cut at: what is read has
  all groups of the path list, or the first of them and nothing of the other
  list (`Torn`). So the blocks that are missing are exactly those that
  `sanitize_groupman()` then adds, each alone and once (`OnceAfter`). Had the cut
  left a part of the similar list without all of the path list, the blocks it
  names would be lost.

`FileInv`, the invariant of all three, quantifies over all managers, so that TLC
cannot evaluate it; the run checks the three properties it implies.

### Only model-checked

- Liveness (`HandlersReturn`, `DrawReturns`, `AnalyzeReturns`): this prover does not
  do liveness under fairness.
- The menu items that do not ship (`manager_handlers`, `manager_reset`), with
  `NamedStayLocated` and `CompleteIsCoherent`. On input that repeats ids, and after a
  reset, the refinement is false.
- `EmptiedStaysByRepeat` (`bbgroup_file`).

## 5. Where code and comments disagree

Shown by a run that TLC finds violated:
- The analysis returns instances that overlap, against `pybbmatcher.h:60`: only
  what lies wholly inside another instance is dropped (`NonOverlapping`). The
  builder then puts a block into two groups, the case `manager_any_input` allows.
- `toggle_select_node()` and `select_all_nodes()` leave `it_selected_node`
  dangling (`JumpsInside`).

Stated by a property that says what does hold:
- The second analysis of a function returns every instance twice, against the same
  `pybbmatcher.h:60`, since the tables of the first stay and each list starts with
  the old one (`bb_match.py:284`). Every block of an instance then is in two groups.
  `AddedAgain` says that the k-th call returns what the first did k times, and nothing
  else; `SerializeMatchedInlineFunctions`, which nothing calls, drops such repetitions.
- When two groups share a block, `combine_ngl` may remove an emptied group from a
  super group that does not contain it, against `groupman.cpp:463`. The emptied group
  stays, may come first, and the file that is saved then is refused (`()` has no
  first node). So `Reloadable` needs input that names no id twice, which two
  overlapping instances, or a second analysis, are not. `EmptiedStaysByRepeat` says
  that no group stays but one whose first node another super group names.
- `reset_groupping()` loses the blocks that `sanitize_groupman()` added, against "Move
  all nodes to their own SG/NG" (`groupman.h:366`): their NDs leak and the grouped
  graph cannot be built. `NamedStayLocated` says which blocks stay.
- "Move to own group" returns at a block it cannot locate, after it may have moved
  others, and leaves stale lookups (`plugin.cpp:1479` against `1533`). The block may
  be one that a reset lost, or one that only a SIMILARINFO section names; input
  without that section is enough. On three blocks: a file names 0 and 1, a reset
  loses 2, 0 and 1 are combined and 0, 1 and 2 moved to their own groups; another
  combination of 0 and 1 then leaves 0 in two groups or uses a group that was just
  deleted. `CompleteIsCoherent` says that lookups are stale only while a block
  cannot be located, `LookupsCoherent` in `manager_handlers` that without a reset
  they never are on such input.
- A block named only by a SIMILARINFO section is in no path group and the grouped
  graph cannot be built (`algo.cpp:177`): `OnlySimilarUnlocated` excepts it.

Seen in the models, without a run of their own:
- A message that should "just print" (`plugin.cpp:1036`) looks blocks up with
  `operator[]` (`1045`), which enters null pointers in `all_nodes` for those that
  sanitize added. "Select all" and a reset then use them: `null_node` in GraphView,
  `BeginReset_fault` in GroupMan.
- A start with the cursor in no function hands a null file name to
  `std::ifstream`, ahead of the message that there is no function
  (`plugin.cpp:2604`, `2050`): `show_no_function`.
- `pathPerNodeHash` "contains paths matched, that have entries only to the head
  node" (`bb_match.py:38`): that is made so for `path1` alone; its counterpart may
  be entered anywhere.
- The classes of `pathPerNodeHash` may hold paths of several lengths: the hash object
  of the full path goes on to hash the single-entry one (`bb_match.py:234`), so a
  path of 4 blocks cut to 2 and one of 3 left whole have one hash when all their
  blocks have. The class is then sorted by its first path alone (`bb_match.py:261`)
  and an instance of a class taken later may contain one taken before: on 15
  blocks with two chains of 4 and two of 3, more than the run enumerates, the
  answer has both `8, 9` and `8, 9, 10` (with `MinSize` 2; the code's 4 needs longer
  chains). `NoneContained` says which direction the
  code guarantees.
- The tables of the matcher are never reset: after another function was analyzed
  its classes are in the answer too, or name blocks the new one has not, and the
  call raises.
- A counterpart without successors (`bb_match.py:142`, an unassigned variable) or a
  block without instructions (`bb_ida.py:221`, a division by zero) makes an
  analysis raise; the plugin then shows each block alone.
- `FindSimilar` of one block returns a flat list, which the bridge takes for empty
  groups; of one without a twin it raises.
- Which twins `FindSimilar` reports depends on the order of the selection: asked
  for one of the lists it found it need not find the first one again.
- `hash_itype1` joins numbers without a separator: types 1, 12 and 11, 2 are equal.
- "Select all" selects node ids in the grouped view too, where they are not the
  ids of its nodes (`plugin.cpp:1190`); combining then meets a null group. It is
  why `view_marks` leaves the command out.
- A search, or a similarity query, without a result follows a null pointer
  (`plugin.cpp:1269`, `1172`): `fault`.
- Naming a group replaces the disassembly of nodes that are one block
  (`plugin.cpp:1593`).
- The first hue after a saturation step is given to two super groups in a row
  (`colorgen.cpp:135`).
- When Python cannot be initialised the deleted chooser leaks its manager
  (`plugin.cpp:2827`): `show_no_python`; and its `popup_names`, which only
  `on_destroy()` frees.
- `combine_ngl` frees neither the groups nor the super groups it takes out.

## 6. Not modelled

- The matcher's `SaveState`, `LoadState` and `SerializeMatchedInlineFunctions`, which
  nothing calls, and `minFunctionHeadSize > 0`, which nothing selects.
- The cache of `FromFlowchart` (a pickled file per address) and how IDA makes
  flowcharts and decodes instructions: I/O and IDA; BBMatch starts from any graph.
- The list conversions of `pywraps.hpp`, which copy integers, and the Python error
  indicator that a failed call leaves set.
- Repaints while a modal dialog is up (`plugin.cpp:1364`): whether IDA does so is not
  visible in this source.
- `build_cache.py`, `ida_stats.py`, the samples and the test scripts.
- Drawing, hints, colors as RGB values, dialogs, file names.
- `refresh_view()` and the other dead branches of options nobody can change; the
  "Test" menu item; the view side of the unshipped menu items.
- Node ids that the function does not have, as indexes of `fc->blocks`
  (`algo.hpp:87`): the code does not check them.

## 7. Plan

All modules and the theorems of section 4 are done. Left to prove:

1. `HeapSafe`, `SingleOwner` and the steps of `Refines` for "Move to own group" and
   "Promote", on clean input; `NamedStayLocated` and
   `CompleteIsCoherent` with a reset.
2. `SimilarFound`, `NoneContained` and `AddedAgain` say nothing once a second
   function was analysed; what the tables still guarantee then is open.
