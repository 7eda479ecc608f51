---------------------------- MODULE MCStateLocks ----------------------------
(* An instance of StateLocks for TLC. *)
EXTENDS StateLocks

CONSTANTS x1, x2, l1, s1, s2
=============================================================================
