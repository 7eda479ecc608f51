--------------------------- MODULE MCChildReader ---------------------------
(***************************************************************************)
(* Model checking of ChildReader: one child through several lifetimes of   *)
(* its binding, and one reader.                                            *)
(***************************************************************************)
EXTENDS ChildReader, TLC

Symmetry == Permutations(Leads)
=============================================================================
