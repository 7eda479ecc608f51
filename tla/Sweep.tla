-------------------------------- MODULE Sweep --------------------------------
(***************************************************************************)
(* `attention sweep --apply` over the bindings of one pane: it ends the    *)
(* current binding of a pane it saw gone twice, removes bindings that      *)
(* ended long ago or beyond the cap, and at last the pane's whole tree.    *)
(* Runs overlap with each other and with the pane's hooks: a run reads the *)
(* records and looks at the pane without locks, and decides under the      *)
(* launch and claim locks.  The monotonic clock restarts at boot.          *)
(***************************************************************************)
EXTENDS Integers, FiniteSets, FiniteSetsExt

CONSTANTS
  Binding,      \* the pane's bindings
  Legacy,       \* those an earlier build registered, without a session index entry
  Run,          \* sweep runs that overlap
  Interval,     \* ABSENCE_INTERVAL_NS
  Age,          \* RETENTION_AGE_NS
  Cap,          \* RETENTION_CAP
  MaxTime,      \* bound: how long the model looks on
  MaxRuns,      \* bound: sweep runs
  MaxEvents,    \* bound: registrations, ends and claims of hooks
  MaxWrong,     \* bound: looks that take a pane for gone that is there
  None

ASSUME SweepAssumption ==
  /\ Legacy \subseteq Binding
  /\ {Interval, Age, MaxTime, MaxRuns, MaxEvents, MaxWrong, Cap} \subseteq Nat
  /\ Interval > 0 /\ MaxTime > 0
  /\ None \notin Binding \cup Run \cup Nat
  /\ None \notin [obs : Nat, event : Nat] \cup [of : Nat, obs : Nat, wall : Nat]

VARIABLES
  now, boot,   \* the time, and that of the last boot
  live,        \* the pane is there
  binding,     \* binding.json: its stamp and event, None without one
  end,         \* binding-end.json: the event it names, its stamp and its wall time
  current,     \* the binding that claim and pointer name, None for none
  claimed,     \* the pane's tree has a claim
  probe,       \* absence-probe.json: its stamp
  index,       \* the session index entries
  marked,      \* the index is marked complete
  foreign,     \* bindings whose directory holds a file or link sweep does not recognise
  lock,        \* the run that is in the middle of a removal under the locks
  runs,
  begun, events, wrong,  \* counters of the bounds
  sighted,     \* history: when the run began whose sighting of the pane's absence stands, 0 for none
  endedAt,     \* history: when each binding's end is stamped
  grounds      \* history: on which two runs sweep ended bindings and removed the tree

vars == <<now, boot, live, binding, end, current, claimed, probe, index, marked, foreign, lock, runs,
          begun, events, wrong, sighted, endedAt, grounds>>
records == <<binding, end, current, claimed, index, marked, foreign>>

Mono == now - boot
Idle == [at |-> "idle"]
Stamps == 0..MaxTime

\* The pane has its first claim; one that starts a store, with no binding in it, marks the
\* index complete.
Init ==
  /\ now = 1 /\ boot = 0 /\ live = TRUE
  /\ \E old \in SUBSET Legacy :
       /\ binding = [b \in Binding |-> IF b \in old THEN [obs |-> 0, event |-> 0] ELSE None]
       /\ current \in old \cup {None} /\ foreign \in SUBSET old
       /\ marked \in {FALSE, old = {}}
  /\ end = [b \in Binding |-> None]
  /\ claimed = TRUE /\ probe = None /\ index = {}
  /\ lock = None /\ runs = [r \in Run |-> Idle]
  /\ begun = 0 /\ events = 0 /\ wrong = 0 /\ sighted = 0 /\ grounds = {}
  /\ endedAt = [b \in Binding |-> 0]

\* records::ends_binding
EndsBinding(e, b) == e # None /\ (e.of = b.event \/ e.obs >= b.obs)
Ended(b) == binding[b] # None /\ EndsBinding(end[b], binding[b])

-----------------------------------------------------------------------------
(***************************************************************************)
(* Time, the pane and its hooks; each hook's commit holds both locks.      *)
(***************************************************************************)
Pass ==
  /\ now < MaxTime /\ now' = now + 1
  /\ UNCHANGED <<boot, live, records, probe, lock, runs, begun, events, wrong, sighted, endedAt, grounds>>

ClosePane ==
  /\ live /\ live' = FALSE
  /\ UNCHANGED <<now, boot, records, probe, lock, runs, begun, events, wrong, sighted, endedAt, grounds>>

\* A restart ends panes, hooks and runs.
Reboot ==
  /\ boot = 0 /\ now < MaxTime
  /\ boot' = now /\ live' = FALSE
  /\ lock' = None /\ runs' = [r \in Run |-> Idle]
  /\ UNCHANGED <<now, records, probe, begun, events, wrong, sighted, endedAt, grounds>>

\* Somebody puts a file among a binding's records, or damages one of them; no lock is taken.
Misplace(b) ==
  /\ binding[b] # None /\ b \notin foreign
  /\ events < MaxEvents /\ events' = events + 1
  /\ foreign' = foreign \cup {b}
  /\ UNCHANGED <<now, boot, live, binding, end, current, claimed, index, marked, probe, lock, runs,
                 begun, wrong, sighted, endedAt, grounds>>

HookCommits ==
  /\ live /\ lock = None /\ claimed
  /\ events < MaxEvents /\ events' = events + 1
  /\ now < MaxTime /\ now' = now + 1
  /\ UNCHANGED <<boot, live, claimed, marked, foreign, lock, runs, begun, wrong>>

Register(b) ==
  /\ HookCommits
  /\ index' = index \cup {b}
  /\ binding' = [binding EXCEPT ![b] = [obs |-> now + 1 - boot, event |-> events + 1]]
  /\ current' = b
  /\ UNCHANGED <<end, probe, sighted, endedAt, grounds>>

EndHook(b) ==
  /\ HookCommits
  /\ binding[b] # None /\ ~Ended(b)
  /\ end' = [end EXCEPT ![b] = [of |-> binding[b].event, obs |-> now + 1 - boot, wall |-> now + 1]]
  /\ endedAt' = [endedAt EXCEPT ![b] = now + 1]
  /\ UNCHANGED <<binding, current, index, probe, sighted, grounds>>

\* A claim drops the absence probe, whether it keeps the one that is there, names a new launch,
\* which has no current binding yet, or returns to the launch of an earlier binding.
Claim ==
  /\ HookCommits
  /\ current' \in {None} \cup {b \in Binding : binding[b] # None}
  /\ probe' = None /\ sighted' = 0
  /\ UNCHANGED <<binding, end, index, endedAt, grounds>>

-----------------------------------------------------------------------------
(***************************************************************************)
(* A run.                                                                  *)
(***************************************************************************)
Goes(r, run) == runs' = [runs EXCEPT ![r] = run]
World == UNCHANGED <<now, boot, live, events>>

NoCase == [of |-> None, saw |-> None, sawEnd |-> None, verdict |-> None]

\* It takes its time and its stamp at the start, and lists the bindings; a directory it
\* cannot read hides those below it.
Begin(r) ==
  /\ runs[r].at = "idle" /\ begun < MaxRuns /\ begun' = begun + 1
  /\ \E files \in SUBSET {b \in Binding : binding[b] # None} :
       Goes(r, [at |-> "index", obs |-> Mono, began |-> now, files |-> files, case |-> NoCase,
                ended |-> {}, old |-> {}, capped |-> {}, prune |-> {},
                walked |-> files = {b \in Binding : binding[b] # None}])
  /\ World /\ UNCHANGED <<records, probe, lock, wrong, sighted, endedAt, grounds>>

\* Mutant: the marker is written whatever the walk reached.
MarksWritten(run, written) == written = run.files

Marks(run, written) == run.walked /\ written = run.files

\* complete_session_index; it takes no locks, and each write may fail.
CompleteIndex(r) ==
  /\ runs[r].at = "index"
  /\ \E written \in SUBSET {b \in runs[r].files : binding[b] # None} :
       /\ index' = index \cup written
       /\ marked' = (marked \/ Marks(runs[r], written))
  /\ Goes(r, [runs[r] EXCEPT !.at = "look"])
  /\ World /\ UNCHANGED <<binding, end, current, claimed, foreign, probe, lock, begun, wrong,
                          sighted, endedAt, grounds>>

\* What pane_evidence may answer: it may fail, and find a process that outlived the pane.
\* Both the pane and such a process are found through the server, which a restart ends.
Verdicts ==
  {"unavailable"} \cup (IF boot = 0 THEN {"present"} ELSE {})
                  \cup (IF live /\ wrong = MaxWrong THEN {} ELSE {"absent"})

\* wall_age_exceeds; an end of a later time than the run's is passed over.
Old(e, run) == run.began - e.wall > Age
LaterThan(e, run) == e.wall > run.began

\* One binding of the list: what it is, and the look at the pane that it asks for.
Look(r, b) ==
  LET run == runs[r]
      next == [run EXCEPT !.files = @ \ {b}]
      looked(at, verdict) ==
        [next EXCEPT !.at = at, !.case = [of |-> b, saw |-> binding[b], sawEnd |-> end[b],
                                          verdict |-> verdict]]
  IN /\ run.at = "look" /\ b \in run.files
     /\ IF binding[b] = None \/ ~claimed THEN Goes(r, next) /\ UNCHANGED wrong
        ELSE IF b # current
        THEN /\ Goes(r, IF ~Ended(b) \/ LaterThan(end[b], run) THEN next
                        ELSE [next EXCEPT !.ended = @ \cup {[of |-> b, wall |-> end[b].wall]},
                                          !.old = IF Old(end[b], run) THEN @ \cup {b} ELSE @])
             /\ UNCHANGED wrong
        ELSE IF Ended(b) /\ ~Old(end[b], run) THEN Goes(r, next) /\ UNCHANGED wrong
        ELSE \E verdict \in Verdicts :
               /\ Goes(r, looked(IF Ended(b) THEN "tree" ELSE "absence", verdict))
               /\ wrong' = IF live /\ verdict = "absent" THEN wrong + 1 ELSE wrong
     /\ World /\ UNCHANGED <<records, probe, lock, begun, sighted, endedAt, grounds>>

\* Mutant: a probe of a later stamp is measured all the same.
ActionIgnoringReboot(verdict, p, obs) ==
  CASE verdict = "unavailable" -> "unavailable"
    [] verdict = "present"     -> IF p = None THEN "present" ELSE "clear_absence"
    [] verdict = "absent"      -> IF p = None THEN "first_absence" ELSE "end"

AbsenceAction(verdict, p, obs) ==
  CASE verdict = "unavailable" -> "unavailable"
    [] verdict = "present"     -> IF p = None THEN "present" ELSE "clear_absence"
    [] verdict = "absent"      -> IF p = None THEN "first_absence"
                                  ELSE IF p > obs THEN "first_absence"
                                  ELSE IF obs - p < Interval THEN "too_soon" ELSE "end"

\* Mutant: any probe of the pane counts toward the removal of its tree.
AnyProbe(e, obs) == probe

RetentionProbe(e, obs) == IF probe # None /\ probe <= obs /\ probe > e.obs THEN probe ELSE None

Decided(r) == Goes(r, [runs[r] EXCEPT !.at = "look", !.case = NoCase])

\* Mutant: a pane seen again leaves the probe.
ForgetsNothing(action, run) ==
  probe' = IF action = "first_absence" THEN run.obs ELSE probe

\* What a decision leaves of the absence probe.
KeepsProbe(action, run) ==
  probe' = IF action = "clear_absence" THEN None ELSE IF action = "first_absence" THEN run.obs ELSE probe

\* A sighting of the pane takes back one of its absence, unless that is not after `since`.
Sights(action, run, since) ==
  sighted' = IF run.case.verdict = "present" /\ run.began >= sighted /\ sighted > since THEN 0
             ELSE IF action = "first_absence" THEN run.began ELSE sighted

Ground(kind, run) == [kind |-> kind, of |-> run.case.of, event |-> run.case.saw.event,
                      first |-> sighted, second |-> run.began, after |-> endedAt[run.case.of]]

\* The absence of a binding that runs.  Under the locks only the records are read again.
CommitAbsence(r) ==
  LET run == runs[r]
      b == run.case.of
      action == AbsenceAction(run.case.verdict, probe, run.obs)
      same == claimed /\ binding[b] = run.case.saw /\ current = b
      ends == same /\ action = "end" /\ ~Ended(b)
  IN /\ run.at = "absence" /\ lock = None
     /\ IF same THEN KeepsProbe(action, run) /\ Sights(action, run, 0) ELSE UNCHANGED <<probe, sighted>>
     /\ IF ends
        THEN /\ end' = [end EXCEPT ![b] = [of |-> binding[b].event, obs |-> run.obs, wall |-> now]]
             /\ endedAt' = [endedAt EXCEPT ![b] = run.began]
             /\ grounds' = grounds \cup {Ground("end", run)}
        ELSE UNCHANGED <<end, endedAt, grounds>>
     /\ Decided(r)
     /\ World /\ UNCHANGED <<binding, current, claimed, index, marked, foreign, lock, begun, wrong>>

\* binding_known_and_prunable
Known(b) == b \notin foreign

\* Mutant: only the current binding's directory is looked through.
TreeKnownAbove == current \notin foreign

\* pane_entries_prunable; what somebody puts there between this look and the removal is lost.
TreeKnown == foreign = {}

\* The tree of a pane whose current binding ended long ago: the tree goes first, then the
\* session index entries of its bindings, one step of which may be the run's last.
CommitTree(r) ==
  LET run == runs[r]
      b == run.case.of
      action == AbsenceAction(run.case.verdict, RetentionProbe(end[b], run.obs), run.obs)
      same == claimed /\ binding[b] = run.case.saw /\ end[b] = run.case.sawEnd /\ current = b
  IN /\ run.at = "tree" /\ lock = None
     /\ IF same /\ action = "end" /\ TreeKnown
        THEN /\ binding' = [c \in Binding |-> None] /\ end' = [c \in Binding |-> None]
             /\ current' = None /\ claimed' = FALSE /\ probe' = None
             /\ grounds' = grounds \cup {Ground("tree", run)}
             /\ lock' = r
             /\ Goes(r, [run EXCEPT !.at = "entries", !.prune = {c \in Binding : binding[c] # None}])
             /\ UNCHANGED sighted
        ELSE /\ IF same THEN KeepsProbe(action, run) /\ Sights(action, run, endedAt[b])
                ELSE UNCHANGED <<probe, sighted>>
             /\ Decided(r)
             /\ UNCHANGED <<binding, end, current, claimed, grounds, lock>>
     /\ World /\ UNCHANGED <<index, marked, foreign, begun, wrong, endedAt>>

RemoveEntries(r) ==
  /\ runs[r].at = "entries"
  /\ index' = index \ runs[r].prune
  /\ lock' = None
  /\ Goes(r, [runs[r] EXCEPT !.at = "retain", !.case = NoCase, !.prune = {}])
  /\ World /\ UNCHANGED <<binding, end, current, claimed, marked, foreign, probe, begun, wrong,
                          sighted, endedAt, grounds>>

\* binding_cap_paths_by_realm: of the ends beyond the cap, the oldest, which of those at one
\* time their paths say.  The code counts a realm's bindings, of which the model has one pane's.
Excess(ended) ==
  {S \in SUBSET ended :
     /\ Cardinality(S) = IF Cardinality(ended) > Cap THEN Cardinality(ended) - Cap ELSE 0
     /\ \A x \in S, y \in ended \ S : x.wall <= y.wall}

Candidates(r) ==
  /\ runs[r].at = "look" /\ runs[r].files = {}
  /\ \E excess \in Excess(runs[r].ended) :
       LET capped == {x.of : x \in excess}
       IN Goes(r, [runs[r] EXCEPT !.at = "retain", !.files = runs[r].old \cup capped, !.capped = capped])
  /\ World /\ UNCHANGED <<records, probe, lock, begun, wrong, sighted, endedAt, grounds>>

\* Mutant: what the list said of the binding is not asked again.
MayRemoveListed(b, run) == TRUE

\* Under the locks; that the record is also the one read just before is left out.
MayRemove(b, run) ==
  /\ claimed /\ current # b /\ Ended(b) /\ ~LaterThan(end[b], run)
  /\ Old(end[b], run) \/ b \in run.capped
  /\ Known(b)

\* A binding that is no longer current and ended long ago, or is one too many.
Retain(r, b) ==
  LET run == runs[r]
  IN /\ run.at = "retain" /\ b \in run.files /\ lock = None
     /\ IF binding[b] # None /\ MayRemove(b, run)
        THEN /\ binding' = [binding EXCEPT ![b] = None] /\ end' = [end EXCEPT ![b] = None]
             /\ lock' = r
             /\ Goes(r, [run EXCEPT !.at = "entries", !.files = @ \ {b}, !.prune = {b}])
        ELSE /\ Goes(r, [run EXCEPT !.files = @ \ {b}])
             /\ UNCHANGED <<binding, end, lock>>
     /\ World /\ UNCHANGED <<current, claimed, index, marked, foreign, probe, begun, wrong,
                             sighted, endedAt, grounds>>

\* Mutant: a killed run leaves its locks taken.
StopLocked(r) ==
  /\ runs[r].at = "entries" \/ (runs[r].at = "retain" /\ runs[r].files = {})
  /\ Goes(r, Idle)
  /\ World /\ UNCHANGED <<records, probe, lock, begun, wrong, sighted, endedAt, grounds>>

\* A run ends, or is killed between the tree and its entries; the kernel frees its locks.  One
\* that is killed elsewhere is one that takes no further step.
Stop(r) ==
  /\ runs[r].at = "entries" \/ (runs[r].at = "retain" /\ runs[r].files = {})
  /\ Goes(r, Idle)
  /\ lock' = IF lock = r THEN None ELSE lock
  /\ World /\ UNCHANGED <<records, probe, begun, wrong, sighted, endedAt, grounds>>

RunStep(r) ==
  \/ Begin(r) \/ CompleteIndex(r) \/ CommitAbsence(r) \/ CommitTree(r)
  \/ RemoveEntries(r) \/ Candidates(r) \/ Stop(r)
  \/ \E b \in Binding : Look(r, b) \/ Retain(r, b)

Next ==
  \/ Pass \/ ClosePane \/ Reboot \/ Claim
  \/ \E b \in Binding : Register(b) \/ EndHook(b) \/ Misplace(b)
  \/ \E r \in Run : RunStep(r)

Spec == Init /\ [][Next]_vars

-----------------------------------------------------------------------------
TypeOK ==
  /\ now \in 0..MaxTime /\ boot \in 0..now /\ live \in BOOLEAN
  /\ binding \in [Binding -> {None} \cup [obs : Stamps, event : 0..MaxEvents]]
  /\ end \in [Binding -> {None} \cup [of : 0..MaxEvents, obs : Stamps, wall : Stamps]]
  /\ \A b \in Binding : binding[b] = None => end[b] = None
  /\ current \in {None} \cup Binding /\ claimed \in BOOLEAN /\ probe \in {None} \cup Stamps
  /\ current # None => binding[current] # None
  /\ index \subseteq Binding /\ marked \in BOOLEAN
  /\ foreign \subseteq {b \in Binding : binding[b] # None}
  /\ lock \in {None} \cup {r \in Run : runs[r].at = "entries"}
  /\ sighted \in Stamps /\ endedAt \in [Binding -> Stamps]

\* Sweep ends a binding only on two sightings of its pane's absence by runs that began an
\* interval apart, in the same boot or not, with no claim in between, nor a sighting of
\* the pane by a run that began after the first, unless the binding had ended between the two:
\* a look at an ended binding's pane leaves a sighting from before that end, which counts again
\* once the binding is resumed.  And it ends one registration once.
TwoAbsences ==
  \A g \in {g \in grounds : g.kind = "end"} :
    /\ g.first > 0 /\ g.second - g.first >= Interval
    /\ \A h \in grounds : h.kind = "end" /\ h.of = g.of /\ h.event = g.event => h = g

\* A pane's tree goes only on two more such sightings, of runs that began after the time the
\* binding's end is stamped with; one that sweep wrote has that of its run's start.
TreeGoesAfterFreshAbsences ==
  \A g \in {g \in grounds : g.kind = "tree"} :
    g.first > g.after /\ g.second - g.first >= Interval

\* What sweep ended or removed for a closed pane, it did on two absences.
AbsencesOK == TypeOK /\ TwoAbsences /\ TreeGoesAfterFreshAbsences

\* Retention never removes a binding that a hook resumed or selected since the run listed
\* it, nor, but for the tree of a closed pane, one that has not ended; and nothing goes that
\* lies beside something it does not recognise, a whole tree for one file in it.
RunningBindingIsKept ==
  [][\A b \in Binding : binding[b] # None /\ binding'[b] = None =>
       \/ Ended(b) /\ b # current /\ b \notin foreign
       \/ /\ current # None /\ Ended(current) /\ now - end[current].wall > Age
          /\ foreign = {}]_vars

\* Readers find every binding by its session once the index is marked complete.
IndexNamesEveryBinding ==
  marked => {b \in Binding : binding[b] # None} \subseteq index
=============================================================================
