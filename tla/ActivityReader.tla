--------------------------- MODULE ActivityReader ---------------------------
(***************************************************************************)
(* The GUI's poll of one binding's activity, beside the commands that      *)
(* change it.  It takes no lock: it reads the clock, then                  *)
(* activity-clear.json, activity.json and ack.json, each replaced whole,   *)
(* and shows what they add up to.  A word written after the clock was read *)
(* makes it read the clock and the files once more.                        *)
(***************************************************************************)
EXTENDS LeadActivity

VARIABLES
  at,      \* what the poll reads next
  read,    \* the clock, watermark and activity it read, and whether once more
  answer,  \* the event it shows; "unsure" if it says so of its clock
  right,   \* history: what was right to show since it read its clock
  lost     \* history: acknowledgements overwritten since

readerVars == <<at, read, answer, right, lost>>

Answers == Hooks \cup {None, "unsure"}

ReaderTypeOK ==
  /\ at \in {"idle", "clear", "slot", "ack", "answered"}
  /\ read \in [now : Stamp, clear : Stamp, slot : Activity \cup {None}, again : BOOLEAN]
  /\ answer \in Answers
  /\ right \subseteq Hooks \cup {None}
  /\ lost \subseteq Hooks

ReaderInit ==
  /\ Init
  /\ at = "idle"
  /\ read = [now |-> 0, clear |-> 0, slot |-> None, again |-> FALSE]
  /\ answer = None
  /\ right = {}
  /\ lost = {}

\* What whoever holds the locks would show by a clock that says `now`.
Shown(now) == IF Visible(now) THEN slot.id ELSE None

\* Mutant: the clock is rounded up.
StartReadAhead(again) ==
  /\ bound # "away"
  /\ at' = "clear"
  /\ read' = [now |-> clock + 1, clear |-> 0, slot |-> None, again |-> again]
  /\ right' = {Shown(clock)}
  /\ lost' = {}
  /\ UNCHANGED <<vars, answer>>

\* The poll finds the pointer on this binding.  It read the clock before.
StartRead(again) ==
  /\ bound # "away"
  /\ at' = "clear"
  /\ read' = [now |-> clock, clear |-> 0, slot |-> None, again |-> again]
  /\ right' = {Shown(clock)}
  /\ lost' = {}
  /\ UNCHANGED <<vars, answer>>

Poll == at = "idle" /\ StartRead(FALSE)

Steps(from, to) == at = from /\ at' = to /\ UNCHANGED <<vars, right, lost>>

\* Mutant: the poll reads the watermark as it was when it last looked.
ReadClearOnce == Steps("clear", "slot") /\ UNCHANGED <<read, answer>>

ReadClear ==
  /\ Steps("clear", "slot")
  /\ read' = [read EXCEPT !.clear = clear]
  /\ UNCHANGED answer

ReadSlot ==
  /\ Steps("slot", "ack")
  /\ read' = [read EXCEPT !.slot = slot]
  /\ UNCHANGED answer

\* What is left of the activity it read once its watermark is applied.
Left == IF read.slot # None /\ read.slot.obs > read.clear THEN read.slot ELSE None

\* age_exceeds_ms: clock_skew, the word is younger than the clock.
Skewed == Left # None /\ Left.word = "timed" /\ read.now < Left.at

Lapsed == Left # None /\ Left.word = "timed" /\ read.now > Left.at + Limit

\* The view of a poll whose clock is not behind, or that has had its second.
ReadAck ==
  /\ ~ (Skewed /\ ~ read.again /\ clock > read.now)
  /\ Steps("ack", "answered")
  /\ answer' = IF Skewed THEN "unsure"
               ELSE IF Left = None \/ Lapsed THEN None
               ELSE IF ack = Left.id THEN None ELSE Left.id
  /\ UNCHANGED read

\* read_attention_view: clock and files once more.
ReadAgain ==
  /\ at = "ack" /\ Skewed /\ ~ read.again /\ clock > read.now
  /\ StartRead(TRUE)

\* The commands go on until the poll is over: one poll is looked at.
CommandsGoOn ==
  /\ at # "answered"
  /\ Next
  /\ UNCHANGED <<at, read, answer>>
  /\ IF at \in {"clear", "slot", "ack"}
     THEN /\ right' = right \cup {Shown(read.now)'}
          /\ lost' = lost \cup ({ack} \ {ack', None})
     ELSE UNCHANGED <<right, lost>>

ReaderNext == CommandsGoOn \/ Poll \/ ReadClear \/ ReadSlot \/ ReadAck \/ ReadAgain

ReaderSpec == ReaderInit /\ [][ReaderNext]_<<vars, readerVars>>

-----------------------------------------------------------------------------
\* What the poll shows was right by its clock at some moment of its read: three
\* files read apart neither bring back a word that was cleared or withdrawn,
\* nor hide one that stood throughout.  There is one exception: a word dismissed
\* before comes back for this poll if another was dismissed between the reads
\* of the activity and of the acknowledgement, which names only the last.
TabWasRight == at = "answered" /\ answer # "unsure" => answer \in right \cup lost

\* The types, and the tab.
ReaderOK == ReaderTypeOK /\ TabWasRight
=============================================================================
