---------------------------- MODULE MCGraphView ----------------------------
(* GraphView for TLC. *)
EXTENDS GraphView

MCNames == 1 .. 2
AllBlocks == Blocks
=============================================================================
