----------------------------- MODULE MCColorGen -----------------------------
(* The generator with the bounds of colorgen.h and the L_INT of DECL_CG. *)
EXTENDS ColorGen
=============================================================================
