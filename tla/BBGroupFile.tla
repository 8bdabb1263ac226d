---------------------------- MODULE BBGroupFile ----------------------------
(***************************************************************************)
(* The bbgroup file: groupman_t::emit() and groupman_t::parse()             *)
(* (groupman.cpp), and the commands of the plugin that save and load one    *)
(* (plugin.cpp). Here the manager is what a file can say of it: two lists   *)
(* of super groups in order, each with its id, its name and its groups of   *)
(* node ids. A node definition is a place in a group; the lookup of an id   *)
(* is the last place that names it, as every command ends by walking the    *)
(* list anew. What is allocated and deleted is in module GroupMan.          *)
(*                                                                         *)
(* A file is a sequence of lines. A line switches the section, or is a      *)
(* sequence of "key:value" fields; a blank line or a comment has none. A    *)
(* token without a colon is the field "none". A string is a word and        *)
(* whether blanks lead it: blanks before a value are what the parser skips. *)
(* Every file is one of the function in view, which module Session is about.*)
(***************************************************************************)
EXTENDS Naturals, Sequences, SequencesExt, FiniteSets, FiniteSetsExt

CONSTANTS
    NBlocks,        \* basic blocks of the function
    Words,          \* the words of ids and names
    Names,          \* the names the user gives to super groups
    Files,          \* the files that may be there before the plugin starts
    Results,        \* the answers of the analysis: groups of each super group
    MaxCommands,    \* bound on the commands the user gives
    NULL            \* no manager, no file

Blocks == 0 .. (NBlocks - 1)
Orphans == "orphan_nodes"
Word(w) == [blank |-> FALSE, word |-> w]
Empty == Word("")

\* What a super group and a line hold: a line switches the section, or has fields.
Strings == [blank : BOOLEAN, word : Words]
Groups  == Seq(Seq(Nat))
SuperGroups == [id : Strings, name : Strings, is_synthetic : BOOLEAN, groups : Groups]
FieldTypes ==
    [key : {"ID", "GROUPNAME"}, val : Strings] \cup [key : {"NODESET"}, val : Groups] \cup [key : {"none"}, val : {Empty}]
LineTypes == [section : {"PATHINFO", "SIMILARINFO", "other"}, fields : {<<>>}] \cup [section : {""}, fields : Seq(FieldTypes)]

\* The matcher returns paths with blocks in classes with paths.
ASSUME FileAssumption ==
    /\ {NBlocks, MaxCommands} \subseteq Nat \ {0}
    /\ {"", "ID", "SG", Orphans} \subseteq Words
    /\ \A s \in Names : s \in Strings
    /\ \A f \in Files : f \in Seq(LineTypes)
    /\ \A r \in Results : r \in Seq(Groups) /\ \A gs \in Range(r) : gs # <<>> /\ <<>> \notin Range(gs)

VARIABLES
    mem,        \* the manager in use: [path, similar], or NULL
    disk,       \* the file, or NULL
    saved,      \* the groups of the manager that was saved last, whole or in
                \* part, if it was Complete; else NULL
    tidy,       \* the input of mem had no super group without groups and no empty group
    once,       \* the path list of mem named no id twice when mem was made
    left        \* commands the user may still give

vars == <<mem, disk, saved, tidy, once, left>>

SuperGroup(id, name, syn, groups) == [id |-> id, name |-> name, is_synthetic |-> syn, groups |-> groups]

\* The elements of s at the positions P, in the order of s.
Pick(s, P) == FlattenSeq([i \in DOMAIN s |-> IF i \in P THEN <<s[i]>> ELSE <<>>])

GroupsIn(sgl) == FlattenSeq([i \in DOMAIN sgl |-> sgl[i].groups])
NodesIn(sgl)  == UNION {Range(g) : g \in Range(GroupsIn(sgl))}

\* The group and the position in it of every mention of n in groups.
Places(groups, n) == {p \in UNION {{k} \X DOMAIN groups[k] : k \in DOMAIN groups} : groups[p[1]][p[2]] = n}

\* Every block of the function is in one group of the path list, once.
Complete(m) == \A n \in Blocks : \E p \in Places(GroupsIn(m.path), n) : Places(GroupsIn(m.path), n) = {p}

SavedOf(m) == IF Complete(m) THEN Range(GroupsIn(m.path)) ELSE NULL

Tidy(m) == \A sg \in Range(m.path) : sg.groups # <<>> /\ <<>> \notin Range(sg.groups)

\* The places of the groups in a list of super groups, and the group at one.
Positions(sgl)  == UNION {{i} \X DOMAIN sgl[i].groups : i \in DOMAIN sgl}
GroupAt(sgl, p) == sgl[p[1]].groups[p[2]]

\* No id is named by two groups, nor twice by one.
NamedOnce(sgl) ==
    \A p \in Positions(sgl) :
       /\ IsInjective(GroupAt(sgl, p))
       /\ \A q \in Positions(sgl) \ {p} : Range(GroupAt(sgl, p)) \cap Range(GroupAt(sgl, q)) = {}

-----------------------------------------------------------------------------
(* Writing *)

Field(k, v) == [key |-> k, val |-> v]
Section(s)  == [section |-> s, fields |-> <<>>]
Fields(f)   == [section |-> "", fields |-> f]

Mut_emit_sg(sg) ==
    Fields((IF sg.id = Empty THEN <<>> ELSE <<Field("ID", sg.id)>>)
           \o (IF sg.groups = <<>> THEN <<>> ELSE <<Field("NODESET", sg.groups)>>))

\* One line for a super group, with the fields that are not empty: the line is
\* blank when there is none.
emit_sg(sg) ==
    Fields((IF sg.id = Empty THEN <<>> ELSE <<Field("ID", sg.id)>>)
           \o (IF sg.name = Empty THEN <<>> ELSE <<Field("GROUPNAME", sg.name)>>)
           \o (IF sg.groups = <<>> THEN <<>> ELSE <<Field("NODESET", sg.groups)>>))

emit_sgl(sgl) == [i \in DOMAIN sgl |-> emit_sg(sgl[i])]

emit(m) == <<Section("PATHINFO")>> \o emit_sgl(m.path) \o <<Section("SIMILARINFO")>> \o emit_sgl(m.similar)

-----------------------------------------------------------------------------
(* Reading *)

skip_spaces(s) == Word(s.word)

\* The values a line gives to a key. Of several ids or names the last one
\* stays, several node sets add up.
ValuesOf(line, k) ==
    Pick([i \in DOMAIN line.fields |-> line.fields[i].val], {i \in DOMAIN line.fields : line.fields[i].key = k})
LastOf(vals) == IF vals = <<>> THEN Empty ELSE skip_spaces(Last(vals))

parse_line(line) ==
    SuperGroup(LastOf(ValuesOf(line, "ID")), LastOf(ValuesOf(line, "GROUPNAME")), FALSE,
               FlattenSeq(ValuesOf(line, "NODESET")))

\* The section line i is in: that of the last switch, PATHINFO before any. The
\* lines of a section of another name are skipped.
SectionAt(file, i) ==
    LET switches == {j \in 1 .. i : file[j].section # ""}
    IN  IF switches = {} THEN "PATHINFO" ELSE file[Max(switches)].section

\* The super groups of a section: one for each of its lines that is neither
\* blank nor a comment.
parse_sgl(file, s) ==
    Pick([i \in DOMAIN file |-> parse_line(file[i])],
         {i \in DOMAIN file : file[i].fields # <<>> /\ SectionAt(file, i) = s})

parse(file) == [path |-> parse_sgl(file, "PATHINFO"), similar |-> parse_sgl(file, "SIMILARINFO")]

\* The first node of the first group of the first super group, without which
\* load_file() takes the file for invalid.
HasFirstNode(m) == m.path # <<>> /\ m.path[1].groups # <<>> /\ m.path[1].groups[1] # <<>>

Mut_sanitize_groupman(m) == m

\* The blocks no node definition stands for, in either list, become groups of
\* their own in one more super group.
sanitize_groupman(m) ==
    LET missing == {n \in Blocks : n \notin NodesIn(m.path) /\ n \notin NodesIn(m.similar)}
        orphans == SuperGroup(Word(Orphans), Word(Orphans), TRUE,
                              Pick([k \in 1 .. NBlocks |-> <<k - 1>>], {n + 1 : n \in missing}))
    IN  IF missing = {} THEN m ELSE [m EXCEPT !.path = Append(@, orphans)]

-----------------------------------------------------------------------------
(* The commands *)

Init == mem = NULL /\ disk \in Files \cup {NULL} /\ saved = NULL /\ tidy = FALSE /\ once = FALSE /\ left = MaxCommands

\* A file that is refused leaves everything as it was.
load_file ==
    /\ disk # NULL /\ HasFirstNode(parse(disk))
    /\ mem' = sanitize_groupman(parse(disk)) /\ tidy' = Tidy(parse(disk)) /\ once' = NamedOnce(mem'.path)
    /\ UNCHANGED <<disk, saved>>

\* build_groupman_from_3dvec(), and build_groupman_from_fc() when the analysis
\* finds nothing: then each block is a super group.
build_groupman(result) ==
    /\ LET sgs == IF result = <<>> THEN [k \in 1 .. NBlocks |-> <<<<k - 1>>>>] ELSE result
       IN  mem' = sanitize_groupman([similar |-> <<>>,
                    path |-> [k \in DOMAIN sgs |-> SuperGroup(Word("ID"), Word("SG"), FALSE, sgs[k])]])
    /\ tidy' = TRUE /\ once' = NamedOnce(mem'.path)
    /\ UNCHANGED <<disk, saved>>

\* initialize_lookups(): the place of the last node definition of an id.
NamedBy(i) == UNION {Range(g) : g \in Range(mem.path[i].groups)}
Loc(n) ==
    LET i == Max({h \in DOMAIN mem.path : n \in NamedBy(h)})
        j == Max({h \in DOMAIN mem.path[i].groups : n \in Range(mem.path[i].groups[h])})
    IN  <<i, j, Max({h \in DOMAIN mem.path[i].groups[j] : mem.path[i].groups[j][h] = n})>>
Located == Blocks \cap NodesIn(mem.path)

\* The groups that are nodes of the grouped view: those the lookups lead to.
At(p) == GroupAt(mem.path, p)
Shown == {<<Loc(n)[1], Loc(n)[2]>> : n \in Located}

Mut_KeptSGs(sgl, S) == sgl

\* The super groups that stay when those at the positions S have lost groups.
KeptSGs(sgl, S) == Pick(sgl, {i \in DOMAIN sgl : i \in S => sgl[i].groups # <<>>})

Mut_combine_ngl(S, dest) ==
    /\ dest \in S /\ \A p \in S : Len(At(p)) <= Len(At(dest))
    /\ \E others \in SetToSeqs(S \ {dest}) :
       LET moved    == FlattenSeq([k \in DOMAIN others |-> At(others[k])])
           After(p) == IF p = dest THEN At(p) \o moved ELSE IF p \in S THEN <<>> ELSE At(p)
       IN  mem' = [mem EXCEPT !.path = [i \in DOMAIN mem.path |->
                      [mem.path[i] EXCEPT !.groups = [j \in DOMAIN mem.path[i].groups |-> After(<<i, j>>)]]]]
    /\ UNCHANGED <<disk, saved, tidy, once>>

\* "Combine nodes" in the grouped view: see combine_ngl of module GroupMan. The
\* groups are taken in the order of their graph nodes, which is any order here.
\* Each gives its nodes to dest and is removed from the super group of its first
\* node's lookup, which goes if it has no group left. That need not be the super
\* group that has the group: then the emptied group stays where it is.
combine_ngl(S, dest) ==
    /\ dest \in S /\ \A p \in S : Len(At(p)) <= Len(At(dest))
    /\ \E others \in SetToSeqs(S \ {dest}) :
       LET moved   == FlattenSeq([k \in DOMAIN others |-> At(others[k])])
           sg(p)   == Loc(At(p)[1])[1]
           After(p) == IF p = dest THEN At(p) \o moved ELSE IF p \in S THEN <<>> ELSE At(p)
           Left(i) == Pick([j \in DOMAIN mem.path[i].groups |-> After(<<i, j>>)],
                           {j \in DOMAIN mem.path[i].groups : <<i, j>> \in S \ {dest} => sg(<<i, j>>) # i})
           sgl == [i \in DOMAIN mem.path |-> [mem.path[i] EXCEPT !.groups = Left(i)]]
       IN  mem' = [mem EXCEPT !.path = KeptSGs(sgl, {sg(p) : p \in S \ {dest}})]
    /\ UNCHANGED <<disk, saved, tidy, once>>

\* "Combine nodes" in the ungrouped view: the node definitions the lookups have
\* for the selected blocks, in the order of their ids, become a new last group
\* in the super group of the first of them. What they leave empty goes.
move_nodes_to_ng(sel) ==
    /\ LET nodes   == Pick([k \in 1 .. NBlocks |-> k - 1], {n + 1 : n \in sel \cap Located})
           Taken(i, j) == {k \in DOMAIN mem.path[i].groups[j] : \E n \in sel \cap Located : Loc(n) = <<i, j, k>>}
           Rest(i, j) == Pick(mem.path[i].groups[j], DOMAIN mem.path[i].groups[j] \ Taken(i, j))
           Holding == {Loc(n)[1] : n \in sel \cap Located}
           Left(i) == Pick([j \in DOMAIN mem.path[i].groups |-> Rest(i, j)],
                           {j \in DOMAIN mem.path[i].groups : Taken(i, j) = {} \/ Rest(i, j) # <<>>})
           New(i) == IF Loc(nodes[1])[1] = i THEN <<nodes>> ELSE <<>>
           sgl == [i \in DOMAIN mem.path |-> [mem.path[i] EXCEPT !.groups = Left(i) \o New(i)]]
       IN  nodes # <<>> /\ mem' = [mem EXCEPT !.path = KeptSGs(sgl, Holding)]
    /\ UNCHANGED <<disk, saved, tidy, once>>

\* The user may lead a name with blanks; "();:" are refused.
edit_sg_description(i, name) ==
    /\ mem' = [mem EXCEPT !.path[i].name = name]
    /\ UNCHANGED <<disk, saved, tidy, once>>

\* "Save bbgroup file". That the file cannot be opened goes unnoticed: nothing
\* happens.
onmenu_save_bbfile ==
    /\ disk' = emit(mem) /\ saved' = SavedOf(mem)
    /\ UNCHANGED <<mem, tidy, once>>

\* What a field, and a line, cut off in the middle read as: a token without
\* colon, no word, fewer groups (the parser takes a group only with its closing
\* parenthesis); a section of another name, fewer fields.
CutField(f) ==
    {Field("none", Empty)}
    \cup IF f.key = "NODESET" THEN {[f EXCEPT !.val = SubSeq(@, 1, n)] : n \in 0 .. Len(f.val)}
         ELSE {[f EXCEPT !.val = Empty], f}
Cut(line) ==
    IF line.section # "" THEN {Fields(<<Field("none", Empty)>>), Section("other")}
    ELSE {Fields(SubSeq(line.fields, 1, k)) : k \in 0 .. Len(line.fields)}
         \cup UNION {{Fields(Append(SubSeq(line.fields, 1, k - 1), c)) : c \in CutField(line.fields[k])} :
                        k \in DOMAIN line.fields}

\* What a file reads as whose end is missing: some lines, the next one cut off
\* or not there.
Beginnings(file) ==
    {SubSeq(file, 1, k) : k \in 0 .. Len(file)}
    \cup UNION {{Append(SubSeq(file, 1, k - 1), l) : l \in Cut(file[k])} : k \in DOMAIN file}

\* The file is written in place, so IDA's end during a save leaves a beginning
\* of it.
CrashInSave ==
    /\ disk' \in Beginnings(emit(mem))
    /\ saved' = SavedOf(mem)
    /\ mem' = NULL /\ tidy' = FALSE /\ once' = FALSE

Commands ==
    \/ load_file \/ \E r \in Results : build_groupman(r)
    \/ /\ mem # NULL
       /\ \/ \E S \in SUBSET Shown : \E dest \in S : Cardinality(S) > 1 /\ combine_ngl(S, dest)
          \/ \E sel \in SUBSET Blocks : Cardinality(sel) > 1 /\ move_nodes_to_ng(sel)
          \/ \E i \in DOMAIN mem.path : \E s \in Names : edit_sg_description(i, s)
          \/ onmenu_save_bbfile \/ CrashInSave

Next == left > 0 /\ left' = left - 1 /\ Commands

Spec == Init /\ [][Next]_vars

-----------------------------------------------------------------------------
(* Properties *)

\* What a file keeps of a super group: everything but blanks that lead a string
\* and the synthetic mark. A super group with neither id, name nor group is
\* not kept at all.
Kept(sgl) ==
    Pick([i \in DOMAIN sgl |-> SuperGroup(skip_spaces(sgl[i].id), skip_spaces(sgl[i].name), FALSE, sgl[i].groups)],
         {i \in DOMAIN sgl : ~(sgl[i].id = Empty /\ sgl[i].name = Empty /\ sgl[i].groups = <<>>)})

\* Whatever the manager holds, parse() reads from what emit() writes the same
\* two lists of super groups with the same groups of nodes in the same order.
RoundTrip == mem # NULL => parse(emit(mem)) = [path |-> Kept(mem.path), similar |-> Kept(mem.similar)]

\* What was read from tidy input that names no id twice, regrouped and saved is
\* not refused when it is loaded again: load_file() looks for the first node of
\* the first super group.
Reloadable == mem # NULL /\ tidy /\ once => HasFirstNode(parse(emit(mem)))

\* Of other tidy input, also of instances that share a block, a file can be
\* saved that is refused, as a group that a combination empties may stay: but
\* only one whose first node another super group names too, since combine_ngl()
\* finds the super group to remove it from by that node.
Empties(sgl) == Cardinality({p \in Positions(sgl) : GroupAt(sgl, p) = <<>>})
EmptiedStaysByRepeat ==
    [][mem # NULL /\ mem' # NULL /\ tidy' =>
          Empties(mem'.path) <= Empties(mem.path) +
              Cardinality({p \in Shown : \E i \in DOMAIN mem.path \ {p[1]} : At(p)[1] \in NamedBy(i)})]_vars

\* A save that was cut off anywhere leaves a file that is refused or loads as a
\* manager with every block once, in a group that was saved or alone.
SavesTearSafely ==
    [][load_file /\ saved # NULL
         => /\ Complete(mem')
            /\ \A g \in Range(GroupsIn(mem'.path)) : Len(g) > 1 => g \in saved]_vars
=============================================================================
