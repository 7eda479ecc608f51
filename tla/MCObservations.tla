--------------------------- MODULE MCObservations ---------------------------
(***************************************************************************)
(* TLC instances of Observations: the questions are alike.                 *)
(***************************************************************************)
EXTENDS Observations, TLC

Questions == Permutations(Question)
=============================================================================
