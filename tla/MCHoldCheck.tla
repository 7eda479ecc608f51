----------------------------- MODULE MCHoldCheck -----------------------------
(***************************************************************************)
(* TLC instances of HoldCheck.                                             *)
(***************************************************************************)
EXTENDS HoldCheck, TLC

HookSymmetry == Permutations(Stops) \cup Permutations(Others)
=============================================================================
