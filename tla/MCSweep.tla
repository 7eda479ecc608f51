------------------------------- MODULE MCSweep -------------------------------
(***************************************************************************)
(* TLC instances of Sweep.                                                 *)
(***************************************************************************)
EXTENDS Sweep, TLC

Runs == Permutations(Run)
=============================================================================
