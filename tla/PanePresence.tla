---------------------------- MODULE PanePresence ----------------------------
(***************************************************************************)
(* What the socket, the panes a server lists and the processes of the user *)
(* say of one recorded pane, as `sweep` and the readers ask it: the server *)
(* may exit, hang, refuse or lose its socket file, and another server may  *)
(* take the path, before and between the steps of a look.                  *)
(***************************************************************************)
EXTENDS Naturals

CONSTANT MaxChanges  \* bound: changes of the server, the socket and other processes

ASSUME PresenceAssumption == MaxChanges \in Nat

VARIABLES
  gui,        \* the server is a GUI, whose socket's name has its pid
  server,     \* it accepts and answers, accepts only, refuses, or exited
  pidTaken,   \* another process has its pid
  path,       \* what is at the socket's path: its own socket, the same with a new ctime,
              \* another server's, nothing
  readable,   \* the socket's identity can be read
  otherHas,   \* the other server has a pane of the same id
  pane,       \* the pane is there
  shell,      \* its process: it runs and can be read, cannot be read, exited
  bystander,  \* another process of the user: none, one of this pane id at another socket,
              \* one whose socket cannot be compared, one that cannot be read
  listable,   \* the processes can be listed
  changes,
  look,       \* the look at the pane
  kept,       \* what the command keeps of its listings
  wasThere    \* history: the pane, or its process, was there when the command began

presenceVars == <<gui, server, pidTaken, path, readable, otherHas, pane, shell, bystander, listable,
                  changes, look, kept, wasThere>>
world == <<gui, server, pidTaken, path, readable, otherHas, pane, shell, bystander, listable, changes>>

Verdict == {"present", "absent", "unavailable", "kept"}
Nothing == [rows |-> "none", processes |-> "none", refuses |-> "none"]
NoLook == [at |-> "idle", rule |-> "apply", again |-> FALSE, found |-> "unavailable"]

PresenceInit ==
  /\ gui \in BOOLEAN /\ server = "serves" /\ pidTaken = FALSE /\ path = "own" /\ readable = TRUE
  /\ otherHas \in BOOLEAN /\ pane = TRUE /\ shell \in {"seen", "hidden"} /\ bystander = "none" /\ listable = TRUE
  /\ changes = 0 /\ look = NoLook /\ kept = Nothing /\ wasThere = TRUE

-----------------------------------------------------------------------------
(***************************************************************************)
(* The world.                                                              *)
(***************************************************************************)
Changes ==
  /\ changes < MaxChanges /\ changes' = changes + 1
  /\ UNCHANGED <<gui, otherHas, look, kept, wasThere>>

ServerChanges ==
  /\ Changes
  /\ server # "exited" /\ server' \in {"serves", "hangs", "refuses", "exited"} \ {server}
  /\ pane' = (pane /\ server' # "exited")
  /\ UNCHANGED <<pidTaken, path, readable, shell, bystander, listable>>

TakePid ==
  /\ Changes /\ server = "exited" /\ pidTaken' = ~pidTaken
  /\ UNCHANGED <<server, path, readable, pane, shell, bystander, listable>>

\* A socket file that went never comes back: an identity holds its ctime.
PathChanges ==
  /\ Changes
  /\ path' \in {"touched", "other", "gone"} \ {path}
  /\ path' = "touched" => path = "own"
  /\ UNCHANGED <<server, pidTaken, readable, pane, shell, bystander, listable>>

AccessChanges ==
  /\ Changes
  /\ \/ readable' = ~readable /\ UNCHANGED listable
     \/ listable' = ~listable /\ UNCHANGED readable
  /\ UNCHANGED <<server, pidTaken, path, pane, shell, bystander>>

BystanderChanges ==
  /\ Changes
  /\ bystander' \in {"none", "elsewhere", "unresolved", "hidden"} \ {bystander}
  /\ UNCHANGED <<server, pidTaken, path, readable, pane, shell, listable>>

\* The pane's own process runs as long as the pane, and may outlive it.
PaneCloses ==
  /\ pane /\ pane' = FALSE
  /\ UNCHANGED <<gui, server, pidTaken, path, readable, otherHas, shell, bystander, listable,
                 changes, look, kept, wasThere>>

ShellExits ==
  /\ shell # "none" /\ ~pane /\ shell' = "none"
  /\ UNCHANGED <<gui, server, pidTaken, path, readable, otherHas, pane, bystander, listable,
                 changes, look, kept, wasThere>>

-----------------------------------------------------------------------------
(***************************************************************************)
(* What the parts of a look read.                                          *)
(***************************************************************************)
RecordedServer ==
  IF path = "gone" THEN "replaced"
  ELSE IF ~readable THEN "unreadable"
  ELSE IF path = "own" THEN "current" ELSE "replaced"

\* pid_state: a pid that answers may be another process.
GuiProcessExited == gui /\ server = "exited" /\ ~pidTaken

\* Mutant: processes that could not be read or compared are not counted.
ProcessesRead ==
  IF ~listable THEN "unavailable" ELSE IF shell = "seen" THEN "present" ELSE "absent"

\* Mutant: a process of the same pane id at another socket leaves the answer open.
ProcessesByPaneId ==
  IF ~listable THEN "unavailable" ELSE IF shell = "seen" THEN "present"
  ELSE IF shell = "hidden" \/ bystander # "none" THEN "unseen" ELSE "absent"

Processes ==
  IF ~listable THEN "unavailable" ELSE IF shell = "seen" THEN "present"
  ELSE IF shell = "hidden" \/ bystander \in {"unresolved", "hidden"} THEN "unseen" ELSE "absent"

\* Whoever listens at the path answers.
Rows ==
  CASE path \in {"own", "touched"} /\ server = "serves" -> IF pane THEN "has" ELSE "lacks"
    [] path = "other" -> IF otherHas THEN "has" ELSE "lacks"
    [] OTHER -> "error"

\* A socket file without a listener refuses too.
ListenerRefuses == path \in {"own", "touched"} /\ server \in {"refuses", "exited"}

\* A command that only reads keeps every answer; one that acts on them keeps failed listings
\* and refusals, the last for the socket that gave them.
KeptRows == IF kept.rows # "none" THEN kept.rows ELSE Rows
KeptProcesses == IF kept.processes # "none" THEN kept.processes ELSE Processes
KeptRefuses == IF kept.refuses # "none" THEN kept.refuses = <<path, TRUE>> ELSE ListenerRefuses

KeepsRows == IF look.rule = "reader" \/ KeptRows = "error" THEN KeptRows ELSE "none"
KeepsProcesses == IF look.rule = "reader" THEN KeptProcesses ELSE "none"

-----------------------------------------------------------------------------
(***************************************************************************)
(* A look.                                                                 *)
(***************************************************************************)
GoesTo(at) == look' = [look EXCEPT !.at = at]
Finds(verdict, at) == look' = [look EXCEPT !.at = at, !.found = verdict]

\* A command starts with nothing kept; it may look again, for another binding of the pane.
BeginLook ==
  /\ look.at \in {"idle", "done"}
  /\ \E rule \in {"apply", "reader"} : look' = [NoLook EXCEPT !.at = "identity", !.rule = rule]
  /\ kept' = Nothing /\ wasThere' = (pane \/ shell # "none")
  /\ UNCHANGED world

LookAgain ==
  /\ look.at = "done" /\ ~look.again
  /\ look' = [NoLook EXCEPT !.at = "identity", !.rule = look.rule, !.again = TRUE]
  /\ UNCHANGED <<world, kept, wasThere>>

\* Mutant: another server's answer stands.
ReadIdentityOnce ==
  /\ look.at \in {"identity", "recheck"}
  /\ CASE look.at = "recheck" -> GoesTo("done")
       [] RecordedServer = "unreadable" -> Finds("unavailable", "done")
       [] RecordedServer = "replaced"   -> GoesTo("gui")
       [] RecordedServer = "current"    -> GoesTo("list")
  /\ UNCHANGED <<world, kept, wasThere>>

\* evidence_unless_current, before the look and after it.
ReadIdentity ==
  /\ look.at \in {"identity", "recheck"}
  /\ CASE RecordedServer = "unreadable" -> Finds("unavailable", "done")
       [] RecordedServer = "replaced"   -> GoesTo("gui")
       [] RecordedServer = "current"    -> GoesTo(IF look.at = "identity" THEN "list" ELSE "done")
  /\ UNCHANGED <<world, kept, wasThere>>

\* replaced_server_pane_gone, asked of a replaced socket or of one that refuses.
AskGui ==
  /\ look.at \in {"gui", "refusedGui"}
  /\ IF GuiProcessExited THEN Finds("absent", IF look.at = "gui" THEN "done" ELSE "recheck")
     ELSE GoesTo(IF look.at = "gui" THEN "processes" ELSE "refusedProcesses")
  /\ UNCHANGED <<world, kept, wasThere>>

AskProcesses ==
  /\ look.at \in {"processes", "refusedProcesses"}
  /\ Finds(IF KeptProcesses = "absent" THEN "absent" ELSE "kept",
           IF look.at = "processes" THEN "done" ELSE "recheck")
  /\ kept' = [kept EXCEPT !.processes = KeepsProcesses]
  /\ UNCHANGED <<world, wasThere>>

List ==
  /\ look.at = "list"
  /\ kept' = [kept EXCEPT !.rows = KeepsRows]
  /\ CASE KeptRows = "has"   -> Finds("present", "recheck")
       [] KeptRows = "lacks" -> GoesTo("unlisted")
       [] KeptRows = "error" -> GoesTo("failed")
  /\ UNCHANGED <<world, wasThere>>

\* Mutant: a process listing's answer is the look's.
AskUnlistedRaw ==
  /\ look.at = "unlisted"
  /\ Finds(KeptProcesses, "recheck")
  /\ kept' = [kept EXCEPT !.processes = KeepsProcesses]
  /\ UNCHANGED <<world, wasThere>>

\* A server that answers shows its pane gone; a process that still carries it is asked for.
AskUnlisted ==
  /\ look.at = "unlisted"
  /\ Finds(CASE KeptProcesses = "present" -> "present"
             [] KeptProcesses = "unavailable" -> "unavailable"
             [] KeptProcesses \in {"absent", "unseen"} -> "absent", "recheck")
  /\ kept' = [kept EXCEPT !.processes = KeepsProcesses]
  /\ UNCHANGED <<world, wasThere>>

\* Each of the two answers counts only if the socket is still the server's own.
AskExit ==
  /\ look.at = "failed"
  /\ GoesTo(IF GuiProcessExited THEN "exited" ELSE "listener")
  /\ UNCHANGED <<world, kept, wasThere>>

StillExited ==
  /\ look.at = "exited"
  /\ IF RecordedServer = "current" THEN Finds("absent", "recheck") ELSE GoesTo("listener")
  /\ UNCHANGED <<world, kept, wasThere>>

\* Mutant: a refusal shows the server gone.
AfterRefusal == Finds("absent", "recheck")

Refused == GoesTo("refusedGui")

AskListener ==
  /\ look.at = "listener"
  /\ IF KeptRefuses THEN GoesTo("refused") ELSE Finds("unavailable", "recheck")
  /\ kept' = [kept EXCEPT !.refuses = IF @ = "none" THEN <<path, ListenerRefuses>> ELSE @]
  /\ UNCHANGED <<world, wasThere>>

StillRefused ==
  /\ look.at = "refused"
  /\ IF RecordedServer = "current" THEN Refused ELSE Finds("unavailable", "recheck")
  /\ UNCHANGED <<world, kept, wasThere>>

LookStep ==
  \/ ReadIdentity \/ List \/ AskUnlisted \/ AskExit \/ StillExited \/ AskListener \/ StillRefused
  \/ AskGui \/ AskProcesses

PresenceNext ==
  \/ ServerChanges \/ TakePid \/ PathChanges \/ AccessChanges \/ BystanderChanges
  \/ PaneCloses \/ ShellExits
  \/ BeginLook \/ LookAgain \/ LookStep

PresenceSpec == PresenceInit /\ [][PresenceNext]_presenceVars

\* A look ends, for each of its calls has a deadline, and readers poll.
FairSpec == PresenceSpec /\ WF_presenceVars(LookStep) /\ WF_presenceVars(BeginLook)

-----------------------------------------------------------------------------
PresenceTypeOK ==
  /\ {gui, pidTaken, readable, otherHas, pane, listable, wasThere} \subseteq BOOLEAN
  /\ server \in {"serves", "hangs", "refuses", "exited"}
  /\ path \in {"own", "touched", "other", "gone"}
  /\ bystander \in {"none", "elsewhere", "unresolved", "hidden"}
  /\ changes \in 0..MaxChanges
  /\ look.at \in {"idle", "identity", "list", "unlisted", "failed", "exited", "listener", "refused",
                  "refusedGui", "refusedProcesses", "gui", "processes", "recheck", "done"}
  /\ look.rule \in {"apply", "reader"} /\ look.found \in Verdict
  /\ kept.rows \in {"none", "has", "lacks", "error"}
  /\ kept.processes \in {"none", "present", "absent", "unseen", "unavailable"}
  /\ shell \in {"seen", "hidden", "none"}
  /\ pane => shell # "none" /\ server # "exited"

Found(verdict) == look.at = "done" /\ look.found = verdict

\* A pane that runs is never shown gone, whatever became of its server's socket: sweep ends
\* its binding and removes its records on that answer.
AbsentIsGone == Found("absent") => ~pane

\* A pane is shown present only if it or its process was there when the command began; the
\* panes of another server at the path do not count.
PresentWasThere == Found("present") => wasThere

\* Neither answer of a look is wrong.
LookIsRight == PresenceTypeOK /\ AbsentIsGone /\ PresentWasThere

\* Once a pane, its server and its process are gone, and no process hides, a look that
\* readers keep taking finds it absent.
Quiet ==
  /\ server = "exited" /\ shell = "none" /\ readable /\ listable
  /\ bystander \in {"none", "elsewhere"}

GoneIsFound == <>[]Quiet => []<>Found("absent")
=============================================================================
