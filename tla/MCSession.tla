----------------------------- MODULE MCSession -----------------------------
(* Session for TLC: addresses and functions are model values. *)
EXTENDS Session, TLC

CONSTANTS c1, c2, m1, m2, m3, v1, v2, f1, f2

\* Addresses and functions are interchangeable.
Symmetry == Permutations(Choosers) \cup Permutations(Managers) \cup Permutations(Views) \cup Permutations(Funcs)
=============================================================================
