------------------------------ MODULE TabScreen ------------------------------
(***************************************************************************)
(* What the activity of one binding promises whoever looks at its tab: the *)
(* tab shows the latest word said, and only ever a later word takes it.    *)
(* What was hidden - dismissed, withdrawn, or cleared - does not come      *)
(* back.  Only a word said for a time may, if it is said again while       *)
(* nothing else was.                                                       *)
(***************************************************************************)
EXTENDS Naturals

CONSTANTS Words, None

VARIABLES
  top,     \* the stamp nothing said before can get past any more
  shown,   \* what the tab shows
  lapsing  \* a word said for a time, which nothing but time hides

Init == top = 0 /\ shown = None /\ lapsing = None

\* A word is shown only if it was said after all there was to see; one said
\* for a time may have lapsed by then.
Show(w) ==
  /\ top' \in Nat /\ top' > top
  /\ lapsing' \in {w, None}
  /\ shown' \in {w, None}

\* Anything may be hidden.
Hide ==
  /\ shown' = None
  /\ lapsing' \in {lapsing, None}
  /\ top' \in Nat /\ top' >= top

\* A lapsed word is said again.
Renew == lapsing # None /\ shown' = lapsing /\ UNCHANGED <<top, lapsing>>

Next == Hide \/ Renew \/ \E w \in Words : Show(w)

Spec == Init /\ [][Next]_<<top, shown, lapsing>>
=============================================================================
