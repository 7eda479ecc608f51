--------------------------- MODULE MCTurnFollower ---------------------------
(***************************************************************************)
(* TLC instances of TurnFollower.                                          *)
(***************************************************************************)
EXTENDS TurnFollower
=============================================================================
