---------------------------- MODULE MCReviewCarry ----------------------------
(* An instance of ReviewCarry for TLC. *)
EXTENDS ReviewCarry, TLC

Alike == Permutations(Pane) \cup Permutations(Hook)
=============================================================================
