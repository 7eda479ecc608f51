------------------------------- MODULE Inspect -------------------------------
(***************************************************************************)
(* `attention inspect` of one launch, beside the hooks of its sessions.    *)
(* It takes no lock.  It reads the pointer, then the selected session's    *)
(* binding, end and host record, looks at the host's process, and reads    *)
(* the pointer again: one that changed discards the answer.  The claim,    *)
(* the server's socket and the pane's presence are read between the same   *)
(* brackets; they are PaneClaim's and PanePresence's.                      *)
(***************************************************************************)
EXTENDS SessionBinding

VARIABLES
  at,      \* what the reader does next
  read,    \* the records it read
  vouched, \* the process it found to be the host as recorded
  phases,  \* history: phases the selected session was in since the read began; once its
           \* end is read, the one read if it is among them
  hosted   \* history: processes that were its recorded host since, and ran; once its
           \* process is looked at, the one vouched for if it is among them

inspectVars == <<at, read, vouched, phases, hosted>>

Unread == [session |-> None, binding |-> 0, ended |-> FALSE, host |-> None]

\* Types; and the binding a read pointer names is there to be read (query.rs takes an
\* absent one for an invalid record and answers nothing).
InspectTypeOK ==
  /\ at \in {"pointer", "binding", "end", "host", "process", "again", "answered", "discarded"}
  /\ read \in [session : Session \cup {None}, binding : 0..clock, ended : BOOLEAN,
               host : {None} \cup [owner : Process, contested : BOOLEAN]]
  /\ at # "pointer" => read.session # None
  /\ at = "end" => read.binding # 0
  /\ vouched \in Process \cup {None}
  /\ phases \subseteq BOOLEAN
  /\ hosted \subseteq Process

InspectInit ==
  /\ Init
  /\ at = "pointer"
  /\ read = Unread
  /\ vouched = None
  /\ phases = {}
  /\ hosted = {}

\* The recorded host of a session, if it could be vouched for.
HostNow(s) ==
  IF pointer = s /\ host[s] # None /\ ~ host[s].contested /\ host[s].owner \in alive
  THEN {host[s].owner} ELSE {}

Goes(from, to) == at = from /\ at' = to /\ UNCHANGED vars

ReadPointer ==
  /\ at = "pointer" /\ pointer # None
  /\ at' = "binding"
  /\ read' = [read EXCEPT !.session = pointer]
  /\ phases' = {Ended(pointer)}
  /\ hosted' = HostNow(pointer)
  /\ UNCHANGED <<vars, vouched>>

ReadBinding ==
  /\ Goes("binding", "end")
  /\ read' = [read EXCEPT !.binding = binding[read.session]]
  /\ UNCHANGED <<vouched, phases, hosted>>

\* Mutant: a session with an end record has ended.
ReadAnyEnd ==
  LET ended == at = "end" /\ end[read.session] # None IN
  /\ Goes("end", IF ended THEN "again" ELSE "host")
  /\ read' = [read EXCEPT !.binding = 0, !.ended = ended]
  /\ phases' = phases \cap {ended}
  /\ hosted' = IF ended THEN {} ELSE hosted
  /\ UNCHANGED vouched

\* An end that a later start replaced is read as absent; the host of an ended
\* session is not asked for.
ReadEnd ==
  LET ended == at = "end" /\ EndsBinding(end[read.session], read.binding) IN
  /\ Goes("end", IF ended THEN "again" ELSE "host")
  /\ read' = [read EXCEPT !.binding = 0, !.ended = ended]
  /\ phases' = phases \cap {ended}
  /\ hosted' = IF ended THEN {} ELSE hosted
  /\ UNCHANGED vouched

ReadHost ==
  /\ Goes("host", "process")
  /\ read' = [read EXCEPT !.host = host[read.session]]
  /\ UNCHANGED <<vouched, phases, hosted>>

\* Mutant: the recorded process runs, whoever else proved itself.
CheckProcessAlone ==
  /\ Goes("process", "again")
  /\ vouched' = IF read.host # None /\ read.host.owner \in alive THEN read.host.owner ELSE None
  /\ read' = [read EXCEPT !.host = None]
  /\ hosted' = hosted \cap {vouched'}
  /\ UNCHANGED phases

\* check_host: the recorded process runs, and no second one was proved.
CheckHost ==
  /\ Goes("process", "again")
  /\ vouched' = IF read.host # None /\ read.host.owner \in alive /\ ~ read.host.contested
                THEN read.host.owner ELSE None
  /\ read' = [read EXCEPT !.host = None]
  /\ hosted' = hosted \cap {vouched'}
  /\ UNCHANGED phases

ReadPointerAgain ==
  /\ Goes("again", IF pointer = read.session THEN "answered" ELSE "discarded")
  /\ UNCHANGED <<read, vouched, phases, hosted>>

\* The agents and their hooks go on until the answer.
SessionsGoOn ==
  /\ at \notin {"answered", "discarded"}
  /\ Next
  /\ UNCHANGED <<at, read, vouched>>
  /\ phases' = IF at \in {"binding", "end"} THEN phases \cup {Ended(read.session)'} ELSE phases
  /\ hosted' = IF at \in {"binding", "end", "host", "process"}
               THEN hosted \cup HostNow(read.session)' ELSE hosted

InspectNext ==
  SessionsGoOn \/ ReadPointer \/ ReadBinding \/ ReadEnd \/ ReadHost \/ CheckHost \/ ReadPointerAgain

InspectSpec == InspectInit /\ [][InspectNext]_<<vars, inspectVars>>

-----------------------------------------------------------------------------
\* The phase an answer gives is one its session was in while it was read, though
\* the binding may be of one lifetime of the session and the end of another.
PhaseWasRight == at = "answered" => read.ended \in phases

\* The process an answer vouches for was, at a moment of the read, the host of
\* the session the pane shows: recorded, running, and no other proved beside it.
VouchedWasHost == at = "answered" /\ vouched # None => vouched \in hosted

\* What an inspection answers, of the phase and of the process, was so while it read.
InspectionWasRight == InspectTypeOK /\ PhaseWasRight /\ VouchedWasHost
=============================================================================
