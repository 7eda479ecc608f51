------------------------------ MODULE EventFeed ------------------------------
(***************************************************************************)
(* What a caller of `attention observe` is promised: along one chain of    *)
(* cursors it is given events that were recorded, each at most once, and   *)
(* the chain ends when the observer can no longer account for the records. *)
(***************************************************************************)
VARIABLES
  recorded,   \* the events hooks recorded
  delivered,  \* what this chain of calls was given, and by which call
  open        \* the caller holds a cursor of the chain

vars == <<recorded, delivered, open>>

Init == recorded = {} /\ delivered = {} /\ ~open

Record == recorded \subseteq recorded' /\ UNCHANGED <<delivered, open>>

Start == /\ ~open
         /\ open' /\ delivered' = {}
         /\ UNCHANGED recorded

\* One call: what is new was recorded, and no call gave it before.
Deliver ==
  /\ open
  /\ delivered \subseteq delivered'
  /\ \A d \in delivered' \ delivered : d[1] \in recorded /\ \A c \in delivered : c[1] # d[1]
  /\ \A c, d \in delivered' \ delivered : c[2] = d[2]
  /\ UNCHANGED <<recorded, open>>

Break == open /\ ~open' /\ UNCHANGED <<recorded, delivered>>

Next == Record \/ Start \/ Deliver \/ Break

Spec == Init /\ [][Next]_vars
=============================================================================
