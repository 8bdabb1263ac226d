----------------------------- MODULE MCBBMatch -----------------------------
(* Small programs for BBMatch. *)
EXTENDS BBMatch

Mov == [itype |-> <<1>>, ops |-> {1}]
Add == [itype |-> <<2>>, ops |-> {1}]
Inc == [itype |-> <<2>>, ops |-> {2}]
Jmp == [itype |-> <<1, 2>>, ops |-> {}]

X == <<Mov, Add>>           \* the block the others are like:
Y == <<Mov, Inc>>           \* by hash_itype1
W == <<Add, Mov>>           \* by hash_itype2
Z == <<Mov, Add, Jmp>>      \* by frequency
E == <<>>

\* At most two successors of each block, in every order or in one.
AnyOrder(B)  == {<<>>} \cup {<<a>> : a \in B} \cup {s \in B \X B : s[1] # s[2]}
Ascending(B) == {s \in AnyOrder(B) : Len(s) = 2 => s[1] < s[2]}

\* The blocks of a function have the codes of a tuple, from block 0 on.
Codes(C) == {[n \in 0 .. (Len(c) - 1) |-> c[n + 1]] : c \in C}

Two   == [blocks : {0 .. 1}, succs : [0 .. 1 -> AnyOrder(0 .. 1)], code : Codes({<<X, X>>})]
Three == [blocks : {0 .. 2}, succs : [0 .. 2 -> AnyOrder(0 .. 2)],
          code : Codes({<<X, W, Y>>, <<W, X, Z>>, <<X, X, E>>})]
Four  == [blocks : {0 .. 3}, succs : {s \in [0 .. 3 -> Ascending(0 .. 3)] : \A n \in 1 .. 3 : Len(s[n]) < 2},
          code : Codes({<<X, X, X, X>>, <<X, Y, X, Z>>})]
Line  == [blocks : {0 .. 2}, succs : {s \in [0 .. 2 -> AnyOrder(0 .. 2)] : \A n \in 0 .. 2 : Len(s[n]) = 1},
          code : Codes({<<X, X, X>>})]

MCNode == 0 .. 3
MCPrograms == <<[{"f"} -> Three], [{"f"} -> Four], [f : Line, g : Two]>>
=============================================================================
