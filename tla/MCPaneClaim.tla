---------------------------- MODULE MCPaneClaim ----------------------------
(***************************************************************************)
(* Model checking of PaneClaim: commands, pids and terminals are model     *)
(* values; commands of a kind and pids are interchangeable.                *)
(***************************************************************************)
EXTENDS PaneClaim, TLC

Symmetry == Permutations(Claimers) \cup Permutations(Hooks)
              \cup Permutations(Publishers) \cup Permutations(Pids)
=============================================================================
