------------------------------ MODULE Grouping ------------------------------
(***************************************************************************)
(* What the group manager promises (groupman.h): the basic blocks of the   *)
(* function are partitioned into node groups and these into super groups,  *)
(* and each regrouping command is one rearrangement of that partition.     *)
(* `part' is the set of super groups, a super group the set of its node    *)
(* groups, a node group the set of its node ids; {} when nothing is loaded.*)
(***************************************************************************)
EXTENDS Naturals, FiniteSets

CONSTANTS
    Nids, NBlocks,
    CanReset        \* is there a command that resets the grouping?

VARIABLE part

Covered(p) == UNION UNION p

\* A partition of Covered(p) into non-empty groups, these into non-empty super
\* groups.
TwoLevel(p) ==
    /\ {} \notin p
    /\ \A G \in p : G \subseteq SUBSET Nids /\ {} \notin G
    /\ \A G, H \in p : \A b \in G, c \in H : b \cap c # {} => b = c /\ G = H

IsGrouping(p) == TwoLevel(p) /\ 0 .. (NBlocks - 1) \subseteq Covered(p)

\* Emptied groups and super groups go away.
Trim(p) == {G \ {{}} : G \in p} \ {{}}

Init == part = {}

\* A file or an analysis is loaded: blocks nobody mentioned are added.
Load == part = {} /\ part' # {} /\ IsGrouping(part')

Unload == part' = {}

\* The groups S become one, in the place of the biggest.
Combine(S, dest) ==
    /\ dest \in S /\ \A b \in S : Cardinality(b) <= Cardinality(dest)
    /\ part' = Trim({{IF b = dest THEN UNION S ELSE b : b \in G \ (S \ {dest})} : G \in part})

\* The blocks sel leave their groups and become one, in the super group of the
\* first of them.
Gather(sel, G0) ==
    /\ G0 \in part /\ \E n \in sel \cap UNION G0 : \A m \in sel : n <= m
    /\ sel \subseteq Covered(part)
    /\ part' = Trim({{b \ sel : b \in G} \cup (IF G = G0 THEN {sel} ELSE {}) : G \in part})

\* One block leaves its group for a new one in the same super group.
SplitOff(G, b, n) ==
    /\ n \in b /\ b # {n}
    /\ part' = (part \ {G}) \cup {(G \ {b}) \cup {b \ {n}, {n}}}

\* One group leaves its super group for a new one.
Promote(G, b) ==
    /\ G # {b}
    /\ part' = (part \ {G}) \cup {G \ {b}, {b}}

\* Every block is moved to a group and a super group of its own.
Scatter == CanReset /\ part' = {{{n}} : n \in Covered(part)}

Next ==
    \/ Scatter
    \/ Load \/ Unload
    \/ \E S \in SUBSET UNION part : \E dest \in S : Combine(S, dest)
    \/ \E sel \in SUBSET Covered(part) : \E G0 \in part : Gather(sel, G0)
    \/ \E G \in part : \E b \in G : Promote(G, b) \/ \E n \in b : SplitOff(G, b, n)

Spec == Init /\ [][Next]_part

=============================================================================
