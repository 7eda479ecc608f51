--------------------------- MODULE MCLeadActivity ---------------------------
(***************************************************************************)
(* Model checking of LeadActivity: commands are interchangeable model      *)
(* values.                                                                 *)
(***************************************************************************)
EXTENDS LeadActivity, TLC

Symmetry == Permutations(Hooks)
=============================================================================
