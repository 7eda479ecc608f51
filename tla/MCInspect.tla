------------------------------ MODULE MCInspect ------------------------------
(* Instances of Inspect for TLC: two Codex agents share the launch. *)
EXTENDS Inspect, TLC

CONSTANTS p1, p2, s1, s2, h1, h2

BothCodex == [x \in {p1, p2, s1, s2} |-> "codex"]
AgentsAlike == Permutations({p1, p2})
Alike == Permutations({p1, p2}) \cup Permutations({h1, h2})
=============================================================================
