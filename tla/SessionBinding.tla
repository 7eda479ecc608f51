--------------------------- MODULE SessionBinding ---------------------------
(***************************************************************************)
(* The sessions of one launch: which session the pane shows (the launch's  *)
(* current-binding pointer), the binding, end and host record of each, and *)
(* the index that names every binding.  Several agent processes of the     *)
(* pane start, resume and end sessions; each event is a hook process of    *)
(* its own, stamped when it begins, and the hooks reach the locks in any   *)
(* order.  A commit replaces its files one at a time, in the order of its  *)
(* plan, and its process may be killed after any of them.                  *)
(***************************************************************************)
EXTENDS Naturals, Sequences, FiniteSets

CONSTANTS
  Process,      \* agent processes
  Session,      \* provider sessions
  ProviderOf,   \* the provider of each process and session
  Ephemeral,    \* sessions that name no transcript
  Proved,       \* processes whose hooks carry the proof of their host
  Hook,         \* hooks that run at the same time
  MaxHooks,     \* bound of this model: how many hooks the agents run
  None

ASSUME SessionAssumption ==
  /\ ProviderOf \in [Process \cup Session -> {"claude", "codex", "pi"}]
  /\ Ephemeral \subseteq Session
  /\ Proved \subseteq Process
  /\ MaxHooks \in Nat
  /\ None \notin Process \cup Session \cup Hook
  /\ None \notin [of : Nat, obs : Nat] \cup [owner : Process, contested : BOOLEAN]

VARIABLES
  clock,     \* CLOCK_MONOTONIC_RAW
  begun,     \* how many hooks began
  alive,     \* the processes that run
  ran,       \* the processes that ever ran a session
  binding,   \* observed_mono_ns of a session's binding record, 0 for none; every write of
             \* one has a later stamp, so the stamp also stands for its event id
  end,       \* a session's end record: the binding event it names and its own stamp
  host,      \* a session's host record
  pointer,   \* the current-binding record
  index,     \* the sessions the session index names
  hooks,     \* the hook each slot runs
  lock       \* the commit that holds the launch and claim locks, with its writes left

vars == <<clock, begun, alive, ran, binding, end, host, pointer, index, hooks, lock>>

Idle == [at |-> "idle"]
Free == [hook |-> None, writes |-> << >>]

Sources(p) ==
  CASE ProviderOf[p] = "claude" -> {"startup", "resume", "clear", "compact"}
    [] ProviderOf[p] = "codex"  -> {"startup", "resume", "clear", "compact"}
    [] ProviderOf[p] = "pi"     -> {"startup", "new", "resume", "fork", "reload"}

\* A source that names the session's first start, as against one the provider continues.
Opens(source) == source \in {"startup", "new", "clear", "fork"}

Init ==
  /\ clock = 1 /\ begun = 0 /\ alive = Process
  /\ ran = [s \in Session |-> {}]
  /\ binding = [s \in Session |-> 0]
  /\ end = [s \in Session |-> None]
  /\ host = [s \in Session |-> None]
  /\ pointer = None /\ index = {}
  /\ hooks = [h \in Hook |-> Idle]
  /\ lock = Free

\* Mutant: an end ends the binding event it names, and no other.
EndsNamed(e, b) == e # None /\ e.of = b

\* records::ends_binding
EndsBinding(e, b) == e # None /\ (e.of = b \/ e.obs >= b)
Ended(s) == EndsBinding(end[s], binding[s])

(***************************************************************************)
(* The agents.                                                             *)
(***************************************************************************)
Begin(h, action, p, s, source, obs) ==
  /\ hooks[h] = Idle /\ begun < MaxHooks
  /\ begun' = begun + 1 /\ clock' = obs
  /\ hooks' = [hooks EXCEPT ![h] = [at |-> "begun", action |-> action, from |-> p,
                                    session |-> s, source |-> source, obs |-> obs]]
  /\ UNCHANGED <<alive, binding, end, host, pointer, index, lock>>

\* A process runs the start hook of a session: a new one, or one it resumes or goes on with.
StartSession(h, p, s, source, obs) ==
  /\ p \in alive /\ ProviderOf[p] = ProviderOf[s] /\ source \in Sources(p)
  /\ CASE Opens(source) -> ran[s] = {}
       [] source = "resume" -> ran[s] # {}
       [] OTHER -> p \in ran[s]
  /\ ran' = [ran EXCEPT ![s] = @ \cup {p}]
  /\ Begin(h, "binding", p, s, source, obs)

\* A process runs the end hook of a session it ran.
EndSession(h, p, s, obs) ==
  /\ p \in ran[s] \cap alive
  /\ UNCHANGED ran
  /\ Begin(h, "end", p, s, None, obs)

ExitAgent(p) ==
  /\ p \in alive
  /\ alive' = alive \ {p}
  /\ UNCHANGED <<clock, begun, ran, binding, end, host, pointer, index, hooks, lock>>

-----------------------------------------------------------------------------
(***************************************************************************)
(* The hooks.                                                              *)
(***************************************************************************)
Return(h) == hooks' = [hooks EXCEPT ![h] = Idle]
Accept(h) == hooks' = [hooks EXCEPT ![h] = [at |-> "host", from |-> @.from, session |-> @.session]]

\* ResolvedLaunch::lapsed: the claim is the shell's throughout, so only the proof can lapse.
Lapsed(e) == e.from \in Proved /\ e.from \notin alive

\* host::proves_recorded_host
ProvesRecordedHost(p, s) == host[s] # None /\ host[s].owner = p /\ ~host[s].contested

\* Mutant: any start of a Codex session replaces the one the pane shows.
AnyCodexStart(e, current) == e.source = "startup" /\ e.session \notin Ephemeral

\* started_by_recorded_host, with the conditions on Codex's startup.
CodexStartsAnew(e, current) ==
  /\ e.source = "startup" /\ e.session \notin Ephemeral
  /\ e.from \in Proved /\ ProvesRecordedHost(e.from, current)

MayReplace(e, current) ==
  /\ e.source \notin {"compact", "reload"}
  /\ \/ Ended(current)
     \/ /\ ProviderOf[e.session] = "claude"
        /\ e.source \in {"resume", "clear", "fork"}
     \/ /\ ProviderOf[e.session] = "codex"
        /\ e.source \in {"resume", "clear", "fork"} \/ CodexStartsAnew(e, current)
     \/ /\ ProviderOf[e.session] = "pi"
        /\ e.source \in {"new", "resume", "fork"}

\* Mutant: the selection is decided by the source alone.
RefusedBySource(e) == pointer \notin {None, e.session} /\ ~MayReplace(e, pointer)

\* The start may not take the pane from the binding the pointer selects.
RefusesSelection(e) ==
  /\ pointer \notin {None, e.session}
  /\ e.obs <= binding[pointer] \/ ~MayReplace(e, pointer)

\* Mutant: the pointer is written before the binding it names.
PointerFirst(e) ==
  << [file |-> "index"], [file |-> "pointer"], [file |-> "binding"] >>

\* The files a registration replaces, in the order the plan writes them.
Registration(e) ==
  << [file |-> "index"], [file |-> "binding"], [file |-> "pointer"] >>

\* What a repeated start with the binding's own stamp replaces.
Repetition(e) ==
  IF pointer = e.session THEN << [file |-> "index"] >>
  ELSE << [file |-> "index"], [file |-> "pointer"] >>

\* The plans a start may have: one with equal stamps is a repetition or, when its
\* facts differ, a conflict that writes nothing; an older one writes nothing.
StartPlans(e) ==
  IF e.obs > binding[e.session] THEN {Registration(e)}
  ELSE IF e.obs = binding[e.session] THEN {Repetition(e), << >>}
  ELSE {<< >>}

\* binding_mutation_for_session, up to the plan.
ApplyBinding(h) ==
  LET e == hooks[h] IN
  /\ e.at = "begun" /\ e.action = "binding" /\ lock = Free
  /\ IF Lapsed(e) \/ RefusesSelection(e)
     THEN Return(h) /\ UNCHANGED lock
     ELSE \E plan \in StartPlans(e) :
            IF plan = << >> THEN Return(h) /\ UNCHANGED lock
            ELSE lock' = [hook |-> h, writes |-> plan] /\ UNCHANGED hooks
  /\ UNCHANGED <<clock, begun, alive, ran, binding, end, host, pointer, index>>

\* Replace the next file of the plan; the locks are released after the last.
WriteFile(h) ==
  LET e == hooks[h]
      file == Head(lock.writes).file IN
  /\ lock.hook = h
  /\ index' = IF file = "index" THEN index \cup {e.session} ELSE index
  /\ binding' = IF file = "binding" THEN [binding EXCEPT ![e.session] = e.obs] ELSE binding
  /\ pointer' = IF file = "pointer" THEN e.session ELSE pointer
  /\ IF Len(lock.writes) = 1
     THEN lock' = Free /\ Accept(h)
     ELSE lock' = [lock EXCEPT !.writes = Tail(@)] /\ UNCHANGED hooks
  /\ UNCHANGED <<clock, begun, alive, ran, end, host>>

\* Mutant: the end of a session without a binding is recorded.
EndsUnbound(e) ==
  /\ e.obs >= binding[e.session]
  /\ end[e.session] # None => e.obs > end[e.session].obs /\ ~Ended(e.session)

\* The end is news: the binding is no newer, and no end as late as it stands.
IsNewEnd(e) ==
  /\ binding[e.session] # 0 /\ e.obs >= binding[e.session]
  /\ end[e.session] # None => e.obs > end[e.session].obs /\ ~Ended(e.session)

\* An end of a session that an end as early has ended: skipped, which is accepted.
RepeatsEnd(e) ==
  /\ ~Lapsed(e) /\ binding[e.session] # 0 /\ e.obs >= binding[e.session]
  /\ end[e.session] # None /\ e.obs >= end[e.session].obs /\ Ended(e.session)

\* apply_end
ApplyEnd(h) ==
  LET e == hooks[h] IN
  /\ e.at = "begun" /\ e.action = "end" /\ lock = Free
  /\ IF ~Lapsed(e) /\ IsNewEnd(e)
     THEN /\ end' = [end EXCEPT ![e.session] = [of |-> binding[e.session], obs |-> e.obs]]
          /\ Accept(h)
     ELSE UNCHANGED end /\ IF RepeatsEnd(e) THEN Accept(h) ELSE Return(h)
  /\ UNCHANGED <<clock, begun, alive, ran, binding, host, pointer, index, lock>>

\* Mutant: the last process that proved itself is the host.
LastProved(stored, p) == [owner |-> p, contested |-> FALSE]

\* host::recorded_host.  Whether an owner runs may be unreadable; it is then taken to run.
RecordedHost(stored, p) ==
  IF stored = None THEN [owner |-> p, contested |-> FALSE]
  ELSE IF stored.owner = p THEN stored
  ELSE IF stored.owner \notin alive THEN [owner |-> p, contested |-> FALSE]
  ELSE [stored EXCEPT !.contested = TRUE]

\* record_host writes for an event whose proof holds and whose binding is current.
KeepsHost(e) == e.from \in Proved /\ pointer = e.session /\ ~Lapsed(e)

\* record_host, in a commit of its own after the event's.
RecordHost(h) ==
  LET e == hooks[h] IN
  /\ e.at = "host" /\ lock = Free
  /\ host' = IF KeepsHost(e)
             THEN [host EXCEPT ![e.session] = RecordedHost(@, e.from)]
             ELSE host
  /\ Return(h)
  /\ UNCHANGED <<clock, begun, alive, ran, binding, end, pointer, index, lock>>

\* The hook's process is killed; its locks go with it and its plan stays half written.
\* One killed before its commit is one that never reaches the locks.
KillHook(h) ==
  /\ lock.hook = h \/ hooks[h].at = "host"
  /\ Return(h)
  /\ lock' = IF lock.hook = h THEN Free ELSE lock
  /\ UNCHANGED <<clock, begun, alive, ran, binding, end, host, pointer, index>>

HookStep(h) ==
  \/ ApplyBinding(h) \/ WriteFile(h) \/ ApplyEnd(h) \/ RecordHost(h) \/ KillHook(h)

Next ==
  \/ \E h \in Hook, p \in Process, s \in Session :
       \/ \E source \in Sources(p), obs \in {clock, clock + 1} :
            StartSession(h, p, s, source, obs)
       \/ EndSession(h, p, s, clock + 1)
  \/ \E p \in Process : ExitAgent(p)
  \/ \E h \in Hook : HookStep(h)

Spec == Init /\ [][Next]_vars

-----------------------------------------------------------------------------
(***************************************************************************)
(* Properties.                                                             *)
(***************************************************************************)
\* Hooks that began, and hooks whose event was taken and may prove their host.
Begun == [at : {"begun"}, action : {"binding", "end"}, from : Process, session : Session,
          source : (UNION {Sources(p) : p \in Process}) \cup {None}, obs : 1..clock]
Accepted == [at : {"host"}, from : Process, session : Session]

TypeOK ==
  /\ begun \in 0..MaxHooks /\ clock \in 1..begun + 1 /\ alive \subseteq Process
  /\ ran \in [Session -> SUBSET Process]
  /\ binding \in [Session -> 0..clock]
  /\ end \in [Session -> {None} \cup [of : 1..clock, obs : 1..clock]]
  /\ host \in [Session -> {None} \cup [owner : Process, contested : BOOLEAN]]
  /\ pointer \in Session \cup {None} /\ index \subseteq Session
  /\ hooks \in [Hook -> {Idle} \cup Accepted \cup Begun]
  /\ lock.hook \in Hook \cup {None}

\* Whatever file a commit was interrupted after, the pointer names a binding that exists
\* (read_current reports one that does not as an invalid record), and the session index
\* names every binding, so that a resume elsewhere finds it.
InterruptedCommitIsReadable ==
  /\ pointer # None => binding[pointer] # 0
  /\ \A s \in Session : binding[s] # 0 => s \in index

\* At every crash point the records have their form and are readable together.
RecordsOK == TypeOK /\ InterruptedCommitIsReadable

\* The pane's selection only moves forward: a start whose hook was delayed past another
\* session's start never takes the pane back, in whatever order the hooks reach the locks.
SelectionMovesForward ==
  [][pointer # None /\ pointer' # pointer => binding'[pointer'] > binding[pointer]]_vars

\* A session that ended stays ended until a start observed after its end: a start that was
\* under way when the session ended does not bring it back.
EndedUntilLaterStart ==
  [][\A s \in Session : Ended(s) /\ binding[s] # 0 /\ ~Ended(s)' => binding'[s] > end[s].obs]_vars

\* An agent that opens a session of its own does not take the pane from a session that has
\* not ended and that it never ran: two Codex agents that share a launch are told apart.
FreshAgentTakesNoLivePane ==
  [][\A h \in Hook :
       /\ lock.hook = h /\ hooks[h].source = "startup"
       /\ pointer # None /\ pointer' # pointer /\ ~Ended(pointer)
       => hooks[h].from \in ran[pointer]]_vars

\* A recorded host ran the session it is recorded for, and gives way to another process only
\* after it exited; a second process that proved itself meanwhile leaves it contested.
HostIsKept ==
  [][\A s \in Session :
       host'[s] # host[s] =>
         /\ host'[s].owner \in ran[s]
         /\ host[s] # None /\ host[s].owner \in alive =>
              host'[s] = [host[s] EXCEPT !.contested = TRUE]]_vars
=============================================================================
