----------------------------- MODULE ChildReader -----------------------------
(***************************************************************************)
(* A reader of the sub-agents of one binding, `attention inspect` or the   *)
(* plugin's poll, beside the hooks that change them.  It takes no lock: it *)
(* reads binding.json, then end.json, then children.json, each replaced    *)
(* whole, and counts by what it read.                                      *)
(***************************************************************************)
EXTENDS ChildPresence

VARIABLES
  at,       \* what the reader reads next
  read,     \* the binding and the end it read
  answer,   \* the children it counted
  real      \* history: every count that was right since the reader began

readerVars == <<at, read, answer, real>>


ReaderTypeOK ==
  /\ at \in {"binding", "end", "set", "answered"}
  /\ read \in [binding : Stamp, end : [obs : Stamp, of : Stamp] \cup {None}]
  /\ answer \subseteq Children
  /\ real \subseteq SUBSET Children

ReaderInit ==
  /\ Init
  /\ at = "binding"
  /\ read = [binding |-> 0, end |-> None]
  /\ answer = {}
  /\ real = {}

Steps(from, to) == at = from /\ at' = to /\ UNCHANGED vars

ReadBinding ==
  /\ Steps("binding", "end")
  /\ read' = [read EXCEPT !.binding = binding]
  /\ real' = {Counted}
  /\ UNCHANGED answer

\* Mutant: the binding event the end names is not read.
ReadEndOfNothing ==
  /\ Steps("end", "set")
  /\ read' = [read EXCEPT !.end = IF end = None THEN None ELSE [end EXCEPT !.of = None]]
  /\ UNCHANGED <<answer, real>>

ReadEnd ==
  /\ Steps("end", "set")
  /\ read' = [read EXCEPT !.end = end]
  /\ UNCHANGED <<answer, real>>

\* Mutant: an end a later start replaced is passed over, as it is elsewhere.
ReadSetByStandingEnd ==
  /\ Steps("set", "answered")
  /\ answer' = CountedBy(IF EndsBinding(read.end, read.binding) THEN read.end ELSE None,
                         read.binding)
  /\ UNCHANGED <<read, real>>

\* ChildrenFacet::of, and the plugin's children_facet.
ReadSet ==
  /\ Steps("set", "answered")
  /\ answer' = CountedBy(read.end, read.binding)
  /\ UNCHANGED <<read, real>>

HooksGoOn ==
  /\ Next
  /\ real' = IF at \in {"end", "set"} THEN real \cup {Counted'} ELSE real
  /\ UNCHANGED <<at, read, answer>>

ReaderNext == HooksGoOn \/ ReadBinding \/ ReadEnd \/ ReadSet

ReaderSpec == ReaderInit /\ [][ReaderNext]_<<vars, readerVars>>

-----------------------------------------------------------------------------
\* The reader's count is one that was right at some moment of its read: what
\* it pieced together from three files never counts a lifetime's children
\* beside an end of another, nor hides children that ran all along.
AnswerWasRight == at = "answered" => answer \in real

\* The types, and the answer.
ReaderOK == ReaderTypeOK /\ AnswerWasRight
=============================================================================
