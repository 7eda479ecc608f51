-------------------------- MODULE MCActivityReader --------------------------
(***************************************************************************)
(* Model checking of ActivityReader: commands are interchangeable model    *)
(* values.                                                                 *)
(***************************************************************************)
EXTENDS ActivityReader, TLC

Symmetry == Permutations(Hooks)
=============================================================================
