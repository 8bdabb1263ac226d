--------------------------- MODULE MCCombinedGraph ---------------------------
(* CombinedGraph for TLC. *)
EXTENDS CombinedGraph

CONSTANTS g1, g2

MCNids4 == 0 .. 3
=============================================================================
