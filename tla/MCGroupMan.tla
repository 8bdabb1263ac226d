----------------------------- MODULE MCGroupMan -----------------------------
(* GroupMan for TLC: addresses are model values, node ids small numbers. *)
EXTENDS GroupMan

CONSTANTS s1, s2, s3, s4, s5, g1, g2, g3, g4, g5, g6, g7, g8, d1, d2, d3, d4, d5, d6

MCNids2 == 0 .. 1
MCNids3 == 0 .. 2
=============================================================================
