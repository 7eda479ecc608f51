----------------------------- MODULE SweepProofs -----------------------------
(***************************************************************************)
(* Proofs about Sweep, for any number of bindings, runs and looks and any  *)
(* lengths of the intervals.  The probe on disk is the stamp of the run    *)
(* whose sighting stands, of this boot's clock or of the last one's, and   *)
(* an end the probe is later than was stamped before that run began.  And  *)
(* about PanePresence, whose verdict sweep acts on.                        *)
(***************************************************************************)
EXTENDS Sweep, PanePresence, TLAPS

-----------------------------------------------------------------------------
(***************************************************************************)
(* The inductive invariant.                                                *)
(***************************************************************************)
Case == [of : {None} \cup Binding, saw : {None} \cup [obs : Nat, event : Nat],
         sawEnd : {None} \cup [of : Nat, obs : Nat, wall : Nat],
         verdict : {None, "present", "absent", "unavailable"}]

Sweeping ==
  [at : {"index", "look", "absence", "tree", "entries", "retain"}, obs : Nat, began : Nat,
   files : SUBSET Binding, case : Case, ended : SUBSET [of : Binding, wall : Nat],
   old : SUBSET Binding, capped : SUBSET Binding, prune : SUBSET Binding, walked : BOOLEAN]

Footing == [kind : {"end", "tree"}, of : Binding, event : Nat, first : Nat, second : Nat, after : Nat]

FormOK ==
  /\ TypeOK /\ now > 0 /\ events \in 0..MaxEvents
  /\ runs \in [Run -> {Idle} \cup Sweeping] /\ grounds \subseteq Footing
  /\ \A b \in Binding : binding[b] # None => binding[b].event <= events

\* The probe is the stamp of the sighting that stands, by the clock of its boot; the pane of a
\* machine that restarted is gone.
ProbeOK ==
  /\ live => boot = 0
  /\ sighted <= now
  /\ probe # None => /\ sighted > 0
                     /\ probe = sighted \/ (sighted >= boot /\ probe = sighted - boot)

\* Ends are stamped by the clock of their boot too, and one that a probe is later than is
\* from before the run that took the probe.
EndOK(b) ==
  end[b] # None =>
    /\ endedAt[b] <= now
    /\ endedAt[b] = end[b].obs + boot \/ (boot > 0 /\ endedAt[b] <= boot)
    /\ probe # None /\ probe > end[b].obs => sighted > endedAt[b]

ClockOK(run) == run.at # "idle" => run.began \in 1..now /\ run.obs = run.began - boot

\* What a look hands to the decision under the locks.
LookedOK(run) ==
  run.at \in {"absence", "tree"} =>
    /\ run.case.of \in Binding /\ run.case.saw # None
    /\ run.case.verdict \in {"present", "absent", "unavailable"}
    /\ run.case.verdict = "present" => boot = 0

TreeOK(run) ==
  run.at = "tree" =>
    EndsBinding(run.case.sawEnd, run.case.saw) /\ run.began - run.case.sawEnd.wall > Age

\* The bindings whose entries a run removes are gone, and nobody brings one back meanwhile.
PruneOK(r) ==
  runs[r].at = "entries" => lock = r /\ \A b \in runs[r].prune : binding[b] = None

\* A binding that the walk did not list has been written since, with its entry.
WalkOK(run) ==
  run.at = "index" /\ run.walked =>
    \A b \in Binding : binding[b] # None => b \in index \cup run.files

RunOK(r) ==
  ClockOK(runs[r]) /\ LookedOK(runs[r]) /\ TreeOK(runs[r]) /\ PruneOK(r) /\ WalkOK(runs[r])

\* A registration that sweep ended stays ended.
EndsLast ==
  \A g \in grounds : g.kind = "end" =>
    /\ g.event <= events
    /\ binding[g.of] # None /\ binding[g.of].event = g.event => Ended(g.of)

SweepInv ==
  /\ FormOK /\ ProbeOK /\ EndsLast
  /\ \A b \in Binding : EndOK(b)
  /\ \A r \in Run : RunOK(r)
  /\ TwoAbsences /\ TreeGoesAfterFreshAbsences /\ IndexNamesEveryBinding

-----------------------------------------------------------------------------
(***************************************************************************)
(* Operators.                                                              *)
(***************************************************************************)
\* None is no record.
LEMMA NoneIsNone ==
  ASSUME SweepAssumption
  PROVE  /\ None \notin Nat /\ None \notin Binding /\ None \notin Run
         /\ \A x \in [obs : Nat, event : Nat] : x # None
         /\ \A x \in [of : Nat, obs : Nat, wall : Nat] : x # None
BY DEF SweepAssumption

\* The records of a binding.
LEMMA RecordForm ==
  ASSUME SweepAssumption, TypeOK, NEW b \in Binding
  PROVE  /\ binding[b] \in {None} \cup [obs : Nat, event : Nat]
         /\ end[b] \in {None} \cup [of : Nat, obs : Nat, wall : Nat]
         /\ binding[b] # None => binding[b].obs \in Stamps /\ binding[b].event \in 0..MaxEvents
         /\ end[b] # None => end[b].of \in 0..MaxEvents /\ end[b].obs \in Stamps
                             /\ end[b].wall \in Stamps
         /\ binding[b] = None => end[b] = None
<1>1. Stamps \subseteq Nat /\ 0..MaxEvents \subseteq Nat
  BY DEF Stamps, SweepAssumption
<1>2. /\ binding[b] \in {None} \cup [obs : Stamps, event : 0..MaxEvents]
      /\ end[b] \in {None} \cup [of : 0..MaxEvents, obs : Stamps, wall : Stamps]
  BY DEF TypeOK
<1> QED
  BY <1>1, <1>2 DEF TypeOK

\* A run is at rest or has every field.
LEMMA RunForm ==
  ASSUME FormOK, NEW r \in Run
  PROVE  /\ runs[r] \in {Idle} \cup Sweeping
         /\ runs[r].at # "idle" => runs[r] \in Sweeping
         /\ runs[r] = Idle => runs[r].at = "idle"
<1>1. runs[r] \in {Idle} \cup Sweeping
  BY DEF FormOK
<1> QED
  BY <1>1 DEF Idle

\* What the time between two stamps makes of an absence.
LEMMA AbsenceIs ==
  ASSUME NEW verdict \in {"present", "absent", "unavailable"}, NEW p, p = None \/ p \in Nat,
         NEW obs \in Nat, SweepAssumption
  PROVE  /\ verdict = "unavailable" => AbsenceAction(verdict, p, obs) = "unavailable"
         /\ verdict = "present" /\ p = None => AbsenceAction(verdict, p, obs) = "present"
         /\ verdict = "present" /\ p # None => AbsenceAction(verdict, p, obs) = "clear_absence"
         /\ verdict = "absent" => AbsenceAction(verdict, p, obs) \in {"first_absence", "too_soon", "end"}
         /\ AbsenceAction(verdict, p, obs) = "end" =>
              verdict = "absent" /\ p # None /\ p <= obs /\ obs - p >= Interval
BY DEF AbsenceAction, SweepAssumption

\* What one run does leaves the others' standing: time goes on, no lock of theirs changes
\* hands, entries go only of bindings that are gone.
LEMMA OthersOK ==
  ASSUME SweepAssumption, FormOK, NEW q \in Run, RunOK(q), runs'[q] = runs[q],
         now \in Nat, now' \in Nat, now <= now', boot' = boot,
         runs[q].at = "entries" => lock' = q,
         \A b \in Binding :
           /\ binding[b] = None /\ lock # None => binding'[b] = None
           /\ binding'[b] # None =>
                \/ b \in index'
                \/ binding[b] # None /\ (b \in index => b \in index')
  PROVE  RunOK(q)'
<1>1. ClockOK(runs[q])'
  BY RunForm DEF RunOK, ClockOK, Sweeping
<1>2. LookedOK(runs[q])'
  BY DEF RunOK, LookedOK
<1>3. TreeOK(runs[q])'
  BY DEF RunOK, TreeOK, EndsBinding
<1>4. PruneOK(q)'
  <2> SUFFICES ASSUME runs[q].at = "entries", NEW b \in runs[q].prune
               PROVE  lock' = q /\ binding'[b] = None
    BY DEF PruneOK
  <2>1. runs[q] \in Sweeping
    BY RunForm
  <2>2. b \in Binding /\ lock = q /\ binding[b] = None
    BY <2>1 DEF Sweeping, RunOK, PruneOK
  <2> QED
    BY <2>2, NoneIsNone
<1>5. WalkOK(runs[q])'
  BY DEF RunOK, WalkOK
<1> QED
  BY <1>1, <1>2, <1>3, <1>4, <1>5 DEF RunOK

-----------------------------------------------------------------------------
(***************************************************************************)
(* The world's steps.                                                      *)
(***************************************************************************)
\* Time passes, panes close, the machine restarts, files are misplaced.
LEMMA WorldStep ==
  ASSUME SweepAssumption, SweepInv,
         UNCHANGED vars \/ Pass \/ ClosePane \/ Reboot \/ \E b \in Binding : Misplace(b)
  PROVE  SweepInv'
<1>0. FormOK /\ TypeOK /\ ProbeOK
  BY DEF SweepInv, FormOK
<1>1. /\ UNCHANGED <<binding, end, current, claimed, probe, index, marked, sighted, endedAt, grounds>>
      /\ now' \in 0..MaxTime /\ now <= now' /\ events' \in 0..MaxEvents /\ events <= events'
      /\ now \in Nat /\ now' \in Nat /\ events \in Nat /\ events' \in Nat /\ boot \in 0..now
      /\ live' \in BOOLEAN /\ (live' => live)
      /\ foreign' \subseteq {b \in Binding : binding[b] # None}
  <2>1. /\ now \in Nat /\ now \in 0..MaxTime /\ boot \in 0..now /\ live \in BOOLEAN /\ MaxTime \in Nat
        /\ events \in Nat /\ events \in 0..MaxEvents /\ MaxEvents \in Nat
        /\ foreign \subseteq {b \in Binding : binding[b] # None}
    BY <1>0 DEF FormOK, TypeOK, SweepAssumption
  <2>2. CASE UNCHANGED vars
    BY <2>1, <2>2 DEF vars
  <2>3. CASE Pass
    BY <2>1, <2>3 DEF Pass, records
  <2>4. ASSUME ClosePane \/ Reboot
        PROVE  /\ UNCHANGED <<binding, end, current, claimed, probe, index, marked, foreign, sighted, endedAt,
                               grounds, now, events>>
               /\ live' = FALSE
    BY <2>4 DEF ClosePane, Reboot, records
  <2>5. ASSUME NEW b \in Binding, Misplace(b)
        PROVE  /\ UNCHANGED <<binding, end, current, claimed, probe, index, marked, sighted, endedAt,
                               grounds, now, boot, live>>
               /\ events' = events + 1 /\ events < MaxEvents
               /\ foreign' \subseteq {c \in Binding : binding[c] # None}
    BY <2>1, <2>5 DEF Misplace
  <2>6. live' = live \/ live' = FALSE
    BY DEF vars, Pass, ClosePane, Reboot, Misplace
  <2>7. live' \in BOOLEAN /\ (live' => live)
    <3>1. CASE live' = live
      BY <2>1, <3>1
    <3>2. CASE live' = FALSE
      BY <3>2
    <3> QED
      BY <2>6, <3>1, <3>2
  <2>8. /\ UNCHANGED <<binding, end, current, claimed, probe, index, marked, sighted, endedAt, grounds>>
        /\ foreign' \subseteq {b \in Binding : binding[b] # None}
    BY <2>1, <2>2, <2>3, <2>4, <2>5 DEF vars, Pass, records
  <2>9. (now' = now \/ (now < MaxTime /\ now' = now + 1))
        /\ (events' = events \/ (events' = events + 1 /\ events < MaxEvents))
    BY <2>2, <2>3, <2>4, <2>5 DEF vars, Pass
  <2> QED
    BY <2>1, <2>7, <2>8, <2>9
<1>2. \/ UNCHANGED <<boot, lock, runs>>
      \/ boot = 0 /\ boot' = now /\ now' = now /\ ~live' /\ lock' = None /\ runs' = [r \in Run |-> Idle]
  BY DEF vars, records, Pass, ClosePane, Reboot, Misplace
<1>3. TypeOK'
  <2>1. boot' \in 0..now'
    BY <1>1, <1>2
  <2>2. lock' \in {None} \cup {r \in Run : runs'[r].at = "entries"}
    BY <1>0, <1>2 DEF TypeOK
  <2>3. sighted' \in Stamps /\ endedAt' \in [Binding -> Stamps] /\ probe' \in {None} \cup Stamps
        /\ index' \subseteq Binding /\ marked' \in BOOLEAN /\ claimed' \in BOOLEAN
    BY <1>0, <1>1 DEF TypeOK
  <2>4. /\ binding' \in [Binding -> {None} \cup [obs : Stamps, event : 0..MaxEvents]]
        /\ end' \in [Binding -> {None} \cup [of : 0..MaxEvents, obs : Stamps, wall : Stamps]]
        /\ \A b \in Binding : binding'[b] = None => end'[b] = None
        /\ current' \in {None} \cup Binding /\ (current' # None => binding'[current'] # None)
    BY <1>0, <1>1 DEF TypeOK
  <2>5. foreign' \subseteq {b \in Binding : binding'[b] # None}
    BY <1>1
  <2>6. now' \in 0..MaxTime /\ live' \in BOOLEAN
    BY <1>1
  <2> QED
    BY <2>1, <2>2, <2>3, <2>4, <2>5, <2>6 DEF TypeOK
<1>4. FormOK'
  <2>1. runs' \in [Run -> {Idle} \cup Sweeping]
    BY <1>0, <1>2 DEF FormOK
  <2>2. ASSUME NEW b \in Binding, binding'[b] # None
        PROVE  binding'[b].event <= events'
    BY <1>0, <1>1, <2>2, RecordForm DEF FormOK
  <2> QED
    BY <1>0, <1>1, <1>3, <2>1, <2>2 DEF FormOK
<1>5. ProbeOK'
  <2>1. sighted \in Nat /\ boot \in Nat /\ boot' \in Nat
    BY <1>0, <1>1, <1>2 DEF TypeOK, Stamps
  <2>0. live' => boot' = 0
    BY <1>0, <1>1, <1>2 DEF ProbeOK
  <2>2. sighted' <= now'
    BY <1>0, <1>1, <2>1 DEF ProbeOK
  <2>3. CASE probe = None
    BY <1>1, <2>0, <2>1, <2>2, <2>3 DEF ProbeOK
  <2>4. CASE probe # None
    BY <1>0, <1>1, <1>2, <2>0, <2>1, <2>2, <2>4 DEF ProbeOK
  <2> QED
    BY <2>3, <2>4
<1>6. EndsLast'
  BY <1>0, <1>1 DEF SweepInv, EndsLast, FormOK, Footing, Ended, EndsBinding
<1>7. ASSUME NEW b \in Binding
      PROVE  EndOK(b)'
  <2>1. EndOK(b)
    BY DEF SweepInv
  <2>2. CASE end[b] = None
    BY <1>1, <2>2 DEF EndOK
  <2>3. CASE end[b] # None
    <3>1. end[b].obs \in Nat /\ endedAt[b] \in Nat
      BY <1>0, <2>3, RecordForm DEF TypeOK, Stamps
    <3> QED
      BY <1>0, <1>1, <1>2, <2>1, <2>3, <3>1 DEF EndOK, FormOK
  <2> QED
    BY <2>2, <2>3
<1>8. ASSUME NEW r \in Run
      PROVE  RunOK(r)'
  <2>1. CASE UNCHANGED <<boot, lock, runs>>
    BY <1>0, <1>1, <2>1, OthersOK DEF SweepInv, RunOK, PruneOK
  <2>2. CASE runs' = [q \in Run |-> Idle]
    <3>1. runs'[r].at = "idle"
      BY <2>2 DEF Idle
    <3> QED
      BY <3>1 DEF RunOK, ClockOK, LookedOK, TreeOK, PruneOK, WalkOK
  <2> QED
    BY <1>2, <2>1, <2>2
<1>9. TwoAbsences' /\ TreeGoesAfterFreshAbsences' /\ IndexNamesEveryBinding'
  BY <1>1 DEF SweepInv, TwoAbsences, TreeGoesAfterFreshAbsences, IndexNamesEveryBinding
<1> QED
  BY <1>4, <1>5, <1>6, <1>7, <1>8, <1>9 DEF SweepInv

\* Hooks register bindings, end them and claim the pane, none while a run removes.
LEMMA HookStep ==
  ASSUME SweepAssumption, SweepInv, Claim \/ \E b \in Binding : Register(b) \/ EndHook(b)
  PROVE  SweepInv'
<1>0. FormOK /\ TypeOK /\ ProbeOK
  BY DEF SweepInv, FormOK
<1>1. /\ UNCHANGED <<boot, live, claimed, marked, foreign, lock, runs, grounds>>
      /\ lock = None /\ live /\ boot = 0
      /\ now \in Nat /\ now' = now + 1 /\ now' \in 0..MaxTime
      /\ events \in Nat /\ events' = events + 1 /\ events' \in 0..MaxEvents
      /\ index \subseteq index' /\ index' \subseteq Binding
      /\ (probe' = None /\ sighted' = 0) \/ (probe' = probe /\ sighted' = sighted)
  <2>1. /\ UNCHANGED <<boot, live, claimed, marked, foreign, lock, runs, grounds>>
        /\ lock = None /\ live /\ now' = now + 1 /\ now < MaxTime
        /\ events' = events + 1 /\ events < MaxEvents
    BY DEF Claim, Register, EndHook, HookCommits
  <2>2. /\ index \subseteq index' /\ index' \subseteq Binding
        /\ (probe' = None /\ sighted' = 0) \/ (probe' = probe /\ sighted' = sighted)
    BY <1>0 DEF Claim, Register, EndHook, TypeOK
  <2>3. boot = 0 /\ now \in Nat /\ events \in Nat /\ MaxTime \in Nat /\ MaxEvents \in Nat
    BY <1>0, <2>1 DEF ProbeOK, FormOK, TypeOK, SweepAssumption
  <2> QED
    BY <2>1, <2>2, <2>3
<1>2. ASSUME NEW b \in Binding
      PROVE  \/ binding'[b] = binding[b] /\ end'[b] = end[b] /\ endedAt'[b] = endedAt[b]
             \/ /\ end'[b] = end[b] /\ endedAt'[b] = endedAt[b] /\ b \in index'
                /\ binding'[b] # None /\ binding'[b].obs = now' /\ binding'[b].event = events'
             \/ /\ binding'[b] = binding[b] /\ binding[b] # None /\ endedAt'[b] = now'
                /\ end'[b].of = binding[b].event /\ end'[b].obs = now' /\ end'[b] # None
  <2>1. CASE Claim
    BY <2>1 DEF Claim
  <2>2. ASSUME NEW c \in Binding, Register(c)
        PROVE  \/ binding'[b] = binding[b] /\ end'[b] = end[b] /\ endedAt'[b] = endedAt[b]
               \/ /\ end'[b] = end[b] /\ endedAt'[b] = endedAt[b] /\ b \in index'
                  /\ binding'[b] # None /\ binding'[b].obs = now' /\ binding'[b].event = events'
    <3> DEFINE new == [obs |-> now', event |-> events']
    <3>1. new \in [obs : Nat, event : Nat] /\ new.obs = now' /\ new.event = events'
      BY <1>1
    <3>2. binding' = [binding EXCEPT ![c] = new] /\ UNCHANGED <<end, endedAt>> /\ index' = index \cup {c}
      BY <1>1, <2>2 DEF Register, HookCommits
    <3>3. binding'[b] = IF b = c THEN new ELSE binding[b]
      BY <1>0, <3>2 DEF TypeOK
    <3> HIDE DEF new
    <3> QED
      BY <3>1, <3>2, <3>3, NoneIsNone
  <2>3. ASSUME NEW c \in Binding, EndHook(c)
        PROVE  \/ binding'[b] = binding[b] /\ end'[b] = end[b] /\ endedAt'[b] = endedAt[b]
               \/ /\ binding'[b] = binding[b] /\ binding[b] # None /\ endedAt'[b] = now'
                  /\ end'[b].of = binding[b].event /\ end'[b].obs = now' /\ end'[b] # None
    <3> DEFINE new == [of |-> binding[c].event, obs |-> now', wall |-> now']
    <3>0. binding[c] # None /\ binding[c].event \in Nat
      BY <1>0, <2>3, RecordForm DEF EndHook
    <3>1. new \in [of : Nat, obs : Nat, wall : Nat] /\ new.obs = now' /\ new.of = binding[c].event
      BY <1>1, <3>0
    <3>2. /\ end' = [end EXCEPT ![c] = new] /\ endedAt' = [endedAt EXCEPT ![c] = now']
          /\ binding' = binding
      BY <1>1, <2>3 DEF EndHook, HookCommits
    <3>3. /\ end'[b] = IF b = c THEN new ELSE end[b]
          /\ endedAt'[b] = IF b = c THEN now' ELSE endedAt[b]
      BY <1>0, <3>2 DEF TypeOK
    <3> HIDE DEF new
    <3> QED
      BY <3>0, <3>1, <3>2, <3>3, NoneIsNone
  <2> QED
    BY <2>1, <2>2, <2>3
<1>3. TypeOK'
  <2>1. now' \in Stamps /\ events' \in 0..MaxEvents
    BY <1>1 DEF Stamps
  <2>2. binding' \in [Binding -> {None} \cup [obs : Stamps, event : 0..MaxEvents]]
    BY <1>0, <1>1, <2>1 DEF Claim, Register, EndHook, HookCommits, TypeOK
  <2>3. end' \in [Binding -> {None} \cup [of : 0..MaxEvents, obs : Stamps, wall : Stamps]]
    <3>1. ASSUME NEW b \in Binding, EndHook(b)
          PROVE  [of |-> binding[b].event, obs |-> now', wall |-> now']
                   \in [of : 0..MaxEvents, obs : Stamps, wall : Stamps]
      BY <1>0, <2>1, <3>1, RecordForm DEF EndHook
    <3> QED
      BY <1>0, <1>1, <3>1 DEF Claim, Register, EndHook, HookCommits, TypeOK
  <2>4. \A b \in Binding : binding'[b] = None => end'[b] = None
    BY <1>0, <1>1, <1>2, NoneIsNone DEF TypeOK
  <2>5. current' # None => current' \in Binding /\ binding'[current'] # None
    <3>1. ASSUME NEW b \in Binding, Register(b)
          PROVE  current' = b /\ binding'[b] = [obs |-> now', event |-> events']
      BY <1>0, <1>1, <3>1 DEF Register, HookCommits, TypeOK
    <3>2. ASSUME NEW b \in Binding, EndHook(b)
          PROVE  current' = current /\ binding' = binding
      BY <3>2 DEF EndHook
    <3>3. ASSUME Claim
          PROVE  current' # None => current' \in Binding /\ binding'[current'] # None
      BY <3>3 DEF Claim
    <3> QED
      BY <1>0, <1>1, <3>1, <3>2, <3>3, NoneIsNone DEF TypeOK
  <2>6. foreign' \subseteq {b \in Binding : binding'[b] # None}
    BY <1>0, <1>1, <1>2, NoneIsNone DEF TypeOK
  <2>7. endedAt' \in [Binding -> Stamps] /\ sighted' \in Stamps
    BY <1>0, <1>1, <2>1 DEF Claim, Register, EndHook, HookCommits, TypeOK, Stamps
  <2>8. probe' \in {None} \cup Stamps /\ current' \in {None} \cup Binding
    BY <1>0, <1>1, <2>5 DEF TypeOK
  <2> QED
    BY <1>0, <1>1, <2>2, <2>3, <2>4, <2>5, <2>6, <2>7, <2>8 DEF TypeOK
<1>4. FormOK'
  <2>1. ASSUME NEW b \in Binding, binding'[b] # None
        PROVE  binding'[b].event <= events'
    BY <1>0, <1>1, <1>2, <2>1, RecordForm DEF FormOK
  <2> QED
    BY <1>0, <1>1, <1>3, <2>1 DEF FormOK
<1>5. ProbeOK'
  BY <1>0, <1>1 DEF ProbeOK, TypeOK, Stamps
<1>6. EndsLast'
  <2> SUFFICES ASSUME NEW g \in grounds, g.kind = "end"
               PROVE  /\ g.event <= events'
                      /\ binding'[g.of] # None /\ binding'[g.of].event = g.event => Ended(g.of)'
    BY <1>1 DEF EndsLast
  <2>1. g.of \in Binding /\ g.event \in Nat /\ g.event <= events
        /\ (binding[g.of] # None /\ binding[g.of].event = g.event => Ended(g.of))
    BY <1>0 DEF FormOK, Footing, SweepInv, EndsLast
  <2> QED
    BY <1>1, <1>2, <2>1, NoneIsNone DEF Ended, EndsBinding
<1>7. ASSUME NEW b \in Binding
      PROVE  EndOK(b)'
  <2>1. EndOK(b) /\ (end[b] # None => end[b].obs \in Nat) /\ endedAt[b] \in Nat /\ sighted \in Nat
    BY <1>0, RecordForm DEF SweepInv, TypeOK, Stamps
  <2> QED
    BY <1>0, <1>1, <1>2, <2>1 DEF EndOK, ProbeOK
<1>8. ASSUME NEW r \in Run
      PROVE  RunOK(r)'
  <2>1. RunOK(r)
    BY DEF SweepInv
  <2>2. runs[r].at # "entries"
    BY <1>1, <2>1, NoneIsNone DEF RunOK, PruneOK
  <2> QED
    BY <1>0, <1>1, <1>2, <2>1, <2>2, OthersOK
<1>9. TwoAbsences' /\ TreeGoesAfterFreshAbsences' /\ IndexNamesEveryBinding'
  BY <1>1, <1>2 DEF SweepInv, TwoAbsences, TreeGoesAfterFreshAbsences, IndexNamesEveryBinding
<1> QED
  BY <1>4, <1>5, <1>6, <1>7, <1>8, <1>9 DEF SweepInv

-----------------------------------------------------------------------------
(***************************************************************************)
(* The steps of a run.                                                     *)
(***************************************************************************)
\* What a run goes on with, and what of the rest it leaves alone.
LEMMA RunOnly ==
  ASSUME SweepAssumption, SweepInv, NEW r \in Run, NEW run, run \in {Idle} \cup Sweeping,
         Goes(r, run), World
  PROVE  /\ runs' \in [Run -> {Idle} \cup Sweeping] /\ runs'[r] = run
         /\ \A q \in Run \ {r} : runs'[q] = runs[q]
         /\ now' = now /\ boot' = boot /\ live' = live /\ events' = events
         /\ now \in Nat /\ now > 0 /\ boot \in 0..now /\ boot \in Nat /\ boot <= now
         /\ MaxTime \in Nat /\ now <= MaxTime
BY DEF SweepInv, FormOK, TypeOK, Goes, World, SweepAssumption

\* A run that only goes on: lists, looks, picks what to retain, stops.
LEMMA QuietStep ==
  ASSUME SweepAssumption, SweepInv, NEW r \in Run, NEW run, run \in {Idle} \cup Sweeping,
         Goes(r, run), World, UNCHANGED <<records, probe, sighted, endedAt, grounds>>,
         lock' = lock \/ (lock = r /\ lock' = None),
         run.at # "entries", lock' # r,
         run.at # "idle" =>
           /\ ClockOK(run) /\ LookedOK(run) /\ TreeOK(run) /\ WalkOK(run)
  PROVE  SweepInv'
<1>0. FormOK /\ TypeOK /\ ProbeOK
  BY DEF SweepInv, FormOK
<1>1. /\ runs' \in [Run -> {Idle} \cup Sweeping] /\ runs'[r] = run
      /\ \A q \in Run \ {r} : runs'[q] = runs[q]
      /\ UNCHANGED <<now, boot, live, events>> /\ now \in Nat
  BY RunOnly
<1>2. UNCHANGED <<binding, end, current, claimed, index, marked, foreign, probe, sighted, endedAt, grounds>>
  BY DEF records
<1>3. TypeOK'
  <2>1. lock' \in {None} \cup {q \in Run : runs'[q].at = "entries"}
    BY <1>0, <1>1 DEF TypeOK
  <2> QED
    BY <1>0, <1>1, <1>2, <2>1 DEF TypeOK
<1>4. FormOK'
  BY <1>0, <1>1, <1>2, <1>3 DEF FormOK
<1>5. ProbeOK' /\ EndsLast' /\ \A b \in Binding : EndOK(b)'
  BY <1>0, <1>1, <1>2 DEF SweepInv, ProbeOK, EndsLast, EndOK, Ended, EndsBinding
<1>6. ASSUME NEW q \in Run
      PROVE  RunOK(q)'
  <2>1. CASE q = r
    <3>1. ClockOK(run)' /\ LookedOK(run)' /\ TreeOK(run)' /\ WalkOK(run)'
      BY <1>1, <1>2 DEF ClockOK, LookedOK, TreeOK, WalkOK, EndsBinding
    <3> QED
      BY <1>1, <2>1, <3>1 DEF RunOK, PruneOK
  <2>2. CASE q # r
    <3>1. runs[q].at = "entries" => lock' = q
      BY <2>2, NoneIsNone DEF SweepInv, RunOK, PruneOK
    <3> QED
      BY <1>0, <1>1, <1>2, <2>2, <3>1, OthersOK DEF SweepInv
  <2> QED
    BY <2>1, <2>2
<1>7. TwoAbsences' /\ TreeGoesAfterFreshAbsences' /\ IndexNamesEveryBinding'
  BY <1>2 DEF SweepInv, TwoAbsences, TreeGoesAfterFreshAbsences, IndexNamesEveryBinding
<1> QED
  BY <1>4, <1>5, <1>6, <1>7 DEF SweepInv

\* A run begins, looks at a binding of its list, picks what to retain or stops.
LEMMA ListStep ==
  ASSUME SweepAssumption, SweepInv, NEW r \in Run,
         Begin(r) \/ Candidates(r) \/ Stop(r) \/ \E b \in Binding : Look(r, b)
  PROVE  SweepInv'
<1>0. FormOK /\ TypeOK /\ ProbeOK /\ RunOK(r) /\ Age \in Nat
      /\ now \in Nat /\ now > 0 /\ boot \in 0..now /\ boot \in Nat
  BY DEF SweepInv, FormOK, TypeOK, SweepAssumption
<1>1. ASSUME Begin(r)
      PROVE  SweepInv'
  <2>1. PICK files \in SUBSET {b \in Binding : binding[b] # None} :
          Goes(r, [at |-> "index", obs |-> Mono, began |-> now, files |-> files, case |-> NoCase,
                   ended |-> {}, old |-> {}, capped |-> {}, prune |-> {},
                   walked |-> files = {b \in Binding : binding[b] # None}])
    BY <1>1 DEF Begin
  <2> DEFINE run == [at |-> "index", obs |-> Mono, began |-> now, files |-> files, case |-> NoCase,
                     ended |-> {}, old |-> {}, capped |-> {}, prune |-> {},
                     walked |-> files = {b \in Binding : binding[b] # None}]
  <2>2. NoCase \in Case
    BY DEF NoCase, Case
  <2>3. Mono \in Nat /\ Mono = now - boot
    BY <1>0 DEF Mono
  <2>4. run \in Sweeping /\ run.at = "index"
    BY <1>0, <2>2, <2>3 DEF Sweeping
  <2>5. ClockOK(run) /\ LookedOK(run) /\ TreeOK(run)
    BY <1>0, <2>3 DEF ClockOK, LookedOK, TreeOK
  <2>6. WalkOK(run)
    BY DEF WalkOK
  <2>7. /\ World /\ UNCHANGED <<records, probe, sighted, endedAt, grounds>> /\ lock' = lock
        /\ runs[r].at = "idle"
    BY <1>1 DEF Begin
  <2>8. lock # r
    BY <1>0, <2>7, NoneIsNone DEF TypeOK
  <2> HIDE DEF run
  <2> QED
    BY <2>1, <2>4, <2>5, <2>6, <2>7, <2>8, QuietStep DEF run
<1>2. ASSUME Candidates(r)
      PROVE  SweepInv'
  <2>0. PICK excess \in Excess(runs[r].ended) :
          Goes(r, [runs[r] EXCEPT !.at = "retain", !.files = runs[r].old \cup {x.of : x \in excess},
                                  !.capped = {x.of : x \in excess}])
    BY <1>2 DEF Candidates
  <2> DEFINE capped == {x.of : x \in excess}
             run == [runs[r] EXCEPT !.at = "retain", !.files = runs[r].old \cup capped, !.capped = capped]
  <2>1. runs[r] \in Sweeping /\ runs[r].at = "look"
    BY <1>0, <1>2, RunForm DEF Candidates
  <2>2. capped \subseteq Binding
    <3>1. runs[r].ended \subseteq [of : Binding, wall : Nat] /\ excess \subseteq runs[r].ended
      BY <2>1 DEF Sweeping, Excess
    <3>2. ASSUME NEW x \in excess
          PROVE  x.of \in Binding
      BY <3>1
    <3> QED
      BY <3>2
  <2>3. run \in Sweeping /\ run.at = "retain" /\ run.began = runs[r].began /\ run.obs = runs[r].obs
    BY <2>1, <2>2 DEF Sweeping
  <2>4. ClockOK(run) /\ LookedOK(run) /\ TreeOK(run) /\ WalkOK(run)
    BY <1>0, <2>1, <2>3 DEF RunOK, ClockOK, LookedOK, TreeOK, WalkOK
  <2>5. /\ Goes(r, run) /\ World /\ UNCHANGED <<records, probe, sighted, endedAt, grounds>> /\ lock' = lock
    BY <1>2, <2>0 DEF Candidates
  <2>6. lock # r
    BY <1>0, <2>1, NoneIsNone DEF TypeOK
  <2> HIDE DEF run
  <2> QED
    BY <2>3, <2>4, <2>5, <2>6, QuietStep
<1>3. ASSUME Stop(r)
      PROVE  SweepInv'
  <2>1. /\ Goes(r, Idle) /\ World /\ UNCHANGED <<records, probe, sighted, endedAt, grounds>>
        /\ lock' = IF lock = r THEN None ELSE lock
    BY <1>3 DEF Stop
  <2>2. Idle.at = "idle"
    BY DEF Idle
  <2> QED
    BY <2>1, <2>2, QuietStep, NoneIsNone
<1>4. ASSUME NEW b \in Binding, Look(r, b)
      PROVE  SweepInv'
  <2>1. runs[r] \in Sweeping /\ runs[r].at = "look" /\ lock # r
    BY <1>0, <1>4, RunForm, NoneIsNone DEF Look, TypeOK
  <2>2. World /\ UNCHANGED <<records, probe, sighted, endedAt, grounds>> /\ lock' = lock
    BY <1>4 DEF Look
  <2> DEFINE next == [runs[r] EXCEPT !.files = @ \ {b}]
  <2>3. next \in Sweeping /\ next.at = "look" /\ next.began = runs[r].began /\ next.obs = runs[r].obs
    BY <2>1 DEF Sweeping
  <2>4. CASE Goes(r, next)
    <3>1. ClockOK(next) /\ LookedOK(next) /\ TreeOK(next) /\ WalkOK(next)
      BY <1>0, <2>1, <2>3 DEF RunOK, ClockOK, LookedOK, TreeOK, WalkOK
    <3> HIDE DEF next
    <3> QED
      BY <2>1, <2>2, <2>3, <2>4, <3>1, QuietStep
  <2>5. ASSUME Ended(b),
               Goes(r, [next EXCEPT !.ended = @ \cup {[of |-> b, wall |-> end[b].wall]},
                                    !.old = IF Old(end[b], runs[r]) THEN @ \cup {b} ELSE @])
        PROVE  SweepInv'
    <3> DEFINE run == [next EXCEPT !.ended = @ \cup {[of |-> b, wall |-> end[b].wall]},
                                   !.old = IF Old(end[b], runs[r]) THEN @ \cup {b} ELSE @]
    <3>1. [of |-> b, wall |-> end[b].wall] \in [of : Binding, wall : Nat]
      BY <1>0, <2>5, RecordForm DEF Ended, EndsBinding
    <3>2. run \in Sweeping /\ run.at = "look" /\ run.began = runs[r].began /\ run.obs = runs[r].obs
      <4> HIDE DEF next
      <4> QED
        BY <2>3, <3>1 DEF Sweeping
    <3>3. ClockOK(run) /\ LookedOK(run) /\ TreeOK(run) /\ WalkOK(run)
      BY <1>0, <2>1, <3>2 DEF RunOK, ClockOK, LookedOK, TreeOK, WalkOK
    <3> HIDE DEF run
    <3> QED
      BY <2>1, <2>2, <2>5, <3>2, <3>3, QuietStep DEF run
  <2>6. ASSUME NEW verdict \in Verdicts, NEW at \in {"tree", "absence"},
               binding[b] # None, at = "tree" => Ended(b) /\ Old(end[b], runs[r]),
               Goes(r, [next EXCEPT !.at = at,
                                    !.case = [of |-> b, saw |-> binding[b], sawEnd |-> end[b],
                                              verdict |-> verdict]])
        PROVE  SweepInv'
    <3> DEFINE case == [of |-> b, saw |-> binding[b], sawEnd |-> end[b], verdict |-> verdict]
               run == [next EXCEPT !.at = at, !.case = case]
    <3>1. verdict \in {"present", "absent", "unavailable"} /\ (verdict = "present" => boot = 0)
      BY DEF Verdicts
    <3>2. case \in Case
      BY <1>0, <3>1, RecordForm DEF Case
    <3>3. run \in Sweeping /\ run.at = at /\ run.began = runs[r].began /\ run.obs = runs[r].obs
          /\ run.case = case
      <4> HIDE DEF next, case
      <4> QED
        BY <2>3, <3>2 DEF Sweeping
    <3>4. ClockOK(run) /\ WalkOK(run)
      BY <1>0, <2>1, <3>3 DEF RunOK, ClockOK, WalkOK
    <3>5. LookedOK(run)
      BY <2>6, <3>1, <3>3 DEF LookedOK
    <3>6. TreeOK(run)
      BY <2>6, <3>3 DEF TreeOK, Ended, Old
    <3> HIDE DEF run
    <3> QED
      BY <2>1, <2>2, <2>6, <3>3, <3>4, <3>5, <3>6, QuietStep DEF run
  <2>7. \/ Goes(r, next)
        \/ /\ Ended(b)
           /\ Goes(r, [next EXCEPT !.ended = @ \cup {[of |-> b, wall |-> end[b].wall]},
                                   !.old = IF Old(end[b], runs[r]) THEN @ \cup {b} ELSE @])
        \/ \E verdict \in Verdicts, at \in {"tree", "absence"} :
             /\ binding[b] # None /\ (at = "tree" => Ended(b) /\ Old(end[b], runs[r]))
             /\ Goes(r, [next EXCEPT !.at = at,
                                     !.case = [of |-> b, saw |-> binding[b], sawEnd |-> end[b],
                                               verdict |-> verdict]])
    BY <1>4 DEF Look
  <2> QED
    BY <2>4, <2>5, <2>6, <2>7
<1> QED
  BY <1>1, <1>2, <1>3, <1>4

\* A run writes session index entries or removes them.
LEMMA IndexStep ==
  ASSUME SweepAssumption, SweepInv, NEW r \in Run, CompleteIndex(r) \/ RemoveEntries(r)
  PROVE  SweepInv'
<1>0. FormOK /\ TypeOK /\ ProbeOK /\ RunOK(r)
  BY DEF SweepInv, FormOK
<1>1. /\ UNCHANGED <<binding, end, current, claimed, foreign, probe, sighted, endedAt, grounds>>
      /\ World
  BY DEF CompleteIndex, RemoveEntries
<1>2. ASSUME NEW run \in Sweeping, Goes(r, run), run.at \in {"look", "retain"},
             run.began = runs[r].began, run.obs = runs[r].obs, runs[r].at # "idle",
             lock' = lock \/ lock' = None, lock' # r, \A q \in Run \ {r} : lock = q => lock' = q,
             index' \subseteq Binding, marked' \in BOOLEAN, IndexNamesEveryBinding',
             \A b \in Binding : binding[b] # None /\ b \in index => b \in index'
      PROVE  SweepInv'
  <2>1. /\ runs' \in [Run -> {Idle} \cup Sweeping] /\ runs'[r] = run
        /\ \A q \in Run \ {r} : runs'[q] = runs[q]
        /\ UNCHANGED <<now, boot, live, events>> /\ now \in Nat
    BY <1>1, <1>2, RunOnly
  <2>2. TypeOK'
    <3>1. lock' \in {None} \cup {q \in Run : runs'[q].at = "entries"}
      BY <1>0, <1>2, <2>1 DEF TypeOK
    <3> QED
      BY <1>0, <1>1, <1>2, <2>1, <3>1 DEF TypeOK
  <2>3. FormOK'
    BY <1>0, <1>1, <2>1, <2>2 DEF FormOK
  <2>4. ProbeOK' /\ EndsLast' /\ \A b \in Binding : EndOK(b)'
    BY <1>0, <1>1, <2>1 DEF SweepInv, ProbeOK, EndsLast, EndOK, Ended, EndsBinding
  <2>5. ASSUME NEW q \in Run
        PROVE  RunOK(q)'
    <3>1. CASE q = r
      <4>1. ClockOK(run)'
        BY <1>0, <1>2, <2>1 DEF RunOK, ClockOK
      <4> QED
        BY <1>2, <2>1, <3>1, <4>1 DEF RunOK, LookedOK, TreeOK, PruneOK, WalkOK
    <3>2. CASE q # r
      <4>1. runs[q].at = "entries" => lock' = q
        BY <1>2, <3>2 DEF SweepInv, RunOK, PruneOK
      <4> QED
        BY <1>0, <1>1, <1>2, <2>1, <3>2, <4>1, OthersOK DEF SweepInv
    <3> QED
      BY <3>1, <3>2
  <2>6. TwoAbsences' /\ TreeGoesAfterFreshAbsences'
    BY <1>1 DEF SweepInv, TwoAbsences, TreeGoesAfterFreshAbsences
  <2> QED
    BY <1>2, <2>3, <2>4, <2>5, <2>6 DEF SweepInv
<1>3. ASSUME CompleteIndex(r)
      PROVE  SweepInv'
  <2>1. runs[r] \in Sweeping /\ runs[r].at = "index" /\ lock # r
    BY <1>0, <1>3, RunForm, NoneIsNone DEF CompleteIndex, TypeOK
  <2> DEFINE run == [runs[r] EXCEPT !.at = "look"]
  <2>2. run \in Sweeping /\ run.at = "look" /\ run.began = runs[r].began /\ run.obs = runs[r].obs
    BY <2>1 DEF Sweeping
  <2>3. PICK written \in SUBSET {b \in runs[r].files : binding[b] # None} :
          /\ index' = index \cup written
          /\ marked' = (marked \/ Marks(runs[r], written))
    BY <1>3 DEF CompleteIndex
  <2>4. Goes(r, run) /\ lock' = lock
    BY <1>3 DEF CompleteIndex
  <2>5. index' \subseteq Binding
    BY <1>0, <2>1, <2>3 DEF TypeOK, Sweeping
  <2>6. marked' \in BOOLEAN
    BY <2>3
  <2>7. IndexNamesEveryBinding'
    <3>1. CASE marked
      BY <1>1, <2>3, <3>1 DEF SweepInv, IndexNamesEveryBinding
    <3>2. CASE Marks(runs[r], written)
      <4>1. runs[r].walked /\ written = runs[r].files
        BY <3>2 DEF Marks
      <4>2. \A b \in Binding : binding[b] # None => b \in index \cup runs[r].files
        BY <1>0, <2>1, <4>1 DEF RunOK, WalkOK
      <4> QED
        BY <1>1, <2>3, <4>1, <4>2 DEF IndexNamesEveryBinding
    <3>3. CASE ~marked /\ ~Marks(runs[r], written)
      BY <2>3, <3>3 DEF IndexNamesEveryBinding
    <3> QED
      BY <3>1, <3>2, <3>3
  <2> HIDE DEF run
  <2> QED
    BY <1>2, <2>1, <2>2, <2>3, <2>4, <2>5, <2>6, <2>7
<1>4. ASSUME RemoveEntries(r)
      PROVE  SweepInv'
  <2>1. runs[r] \in Sweeping /\ runs[r].at = "entries" /\ lock = r
        /\ \A b \in runs[r].prune : binding[b] = None
    BY <1>0, <1>4, RunForm DEF RemoveEntries, RunOK, PruneOK
  <2> DEFINE run == [runs[r] EXCEPT !.at = "retain", !.case = NoCase, !.prune = {}]
  <2>2. run \in Sweeping /\ run.at = "retain" /\ run.began = runs[r].began /\ run.obs = runs[r].obs
    <3>1. NoCase \in Case
      BY DEF NoCase, Case
    <3> QED
      BY <2>1, <3>1 DEF Sweeping
  <2>3. Goes(r, run) /\ lock' = None /\ marked' = marked /\ index' = index \ runs[r].prune
    BY <1>4 DEF RemoveEntries
  <2>4. index' \subseteq Binding /\ marked' \in BOOLEAN
    BY <1>0, <2>3 DEF TypeOK
  <2>5. \A b \in Binding : binding[b] # None /\ b \in index => b \in index'
    BY <2>1, <2>3
  <2>6. IndexNamesEveryBinding'
    BY <1>1, <2>3, <2>5 DEF SweepInv, IndexNamesEveryBinding
  <2> HIDE DEF run
  <2> QED
    BY <1>2, <2>1, <2>2, <2>3, <2>4, <2>5, <2>6, NoneIsNone
<1> QED
  BY <1>3, <1>4

\* A binding that has been over for long enough goes, if it is not the current one.
LEMMA RetainStep ==
  ASSUME SweepAssumption, SweepInv, NEW r \in Run, NEW b \in Binding, Retain(r, b)
  PROVE  SweepInv'
<1>0. FormOK /\ TypeOK /\ ProbeOK /\ RunOK(r)
  BY DEF SweepInv, FormOK
<1>1. runs[r] \in Sweeping /\ runs[r].at = "retain" /\ lock = None
  BY <1>0, RunForm DEF Retain
<1>2. /\ UNCHANGED <<current, claimed, index, marked, foreign, probe, sighted, endedAt, grounds>>
      /\ World
  BY DEF Retain
<1>3. CASE Goes(r, [runs[r] EXCEPT !.files = @ \ {b}]) /\ UNCHANGED <<binding, end, lock>>
  <2> DEFINE run == [runs[r] EXCEPT !.files = @ \ {b}]
  <2>1. run \in Sweeping /\ run.at = "retain" /\ run.began = runs[r].began /\ run.obs = runs[r].obs
    BY <1>1 DEF Sweeping
  <2>2. ClockOK(run) /\ LookedOK(run) /\ TreeOK(run) /\ WalkOK(run)
    BY <1>0, <1>1, <2>1 DEF RunOK, ClockOK, LookedOK, TreeOK, WalkOK
  <2> HIDE DEF run
  <2> QED
    BY <1>1, <1>2, <1>3, <2>1, <2>2, QuietStep, NoneIsNone DEF records, run
<1>4. ASSUME MayRemove(b, runs[r]), lock' = r,
             binding' = [binding EXCEPT ![b] = None], end' = [end EXCEPT ![b] = None],
             Goes(r, [runs[r] EXCEPT !.at = "entries", !.files = @ \ {b}, !.prune = {b}])
      PROVE  SweepInv'
  <2> DEFINE run == [runs[r] EXCEPT !.at = "entries", !.files = @ \ {b}, !.prune = {b}]
  <2>1. /\ run \in Sweeping /\ run.at = "entries" /\ run.began = runs[r].began
        /\ run.obs = runs[r].obs /\ run.prune = {b}
    BY <1>1 DEF Sweeping
  <2> HIDE DEF run
  <2>2. /\ runs' \in [Run -> {Idle} \cup Sweeping] /\ runs'[r] = run
        /\ \A q \in Run \ {r} : runs'[q] = runs[q]
        /\ UNCHANGED <<now, boot, live, events>> /\ now \in Nat
    BY <1>2, <1>4, <2>1, RunOnly DEF run
  <2>3. \A c \in Binding : /\ binding'[c] = IF c = b THEN None ELSE binding[c]
                           /\ end'[c] = IF c = b THEN None ELSE end[c]
    BY <1>0, <1>4 DEF TypeOK
  <2>4. TypeOK'
    <3>1. lock' \in {None} \cup {q \in Run : runs'[q].at = "entries"}
      BY <1>4, <2>1, <2>2
    <3>2. /\ binding' \in [Binding -> {None} \cup [obs : Stamps, event : 0..MaxEvents]]
          /\ end' \in [Binding -> {None} \cup [of : 0..MaxEvents, obs : Stamps, wall : Stamps]]
      BY <1>0, <1>4 DEF TypeOK
    <3>3. current # b /\ b \notin foreign
      BY <1>4 DEF MayRemove, Known
    <3>4. /\ \A c \in Binding : binding'[c] = None => end'[c] = None
          /\ current' \in {None} \cup Binding /\ (current' # None => binding'[current'] # None)
          /\ foreign' \subseteq {c \in Binding : binding'[c] # None}
      BY <1>0, <1>2, <2>3, <3>3 DEF TypeOK
    <3> QED
      BY <1>0, <1>2, <2>2, <3>1, <3>2, <3>4 DEF TypeOK
  <2>5. FormOK'
    BY <1>0, <1>2, <2>2, <2>3, <2>4 DEF FormOK
  <2>6. ProbeOK'
    BY <1>0, <1>2, <2>2 DEF ProbeOK
  <2>7. EndsLast'
    <3> SUFFICES ASSUME NEW g \in grounds, g.kind = "end"
                 PROVE  /\ g.event <= events
                        /\ binding'[g.of] # None /\ binding'[g.of].event = g.event => Ended(g.of)'
      BY <1>2, <2>2 DEF EndsLast
    <3>1. g.of \in Binding
      BY <1>0 DEF FormOK, Footing
    <3> QED
      BY <2>3, <3>1 DEF SweepInv, EndsLast, Ended
  <2>8. ASSUME NEW c \in Binding
        PROVE  EndOK(c)'
    BY <1>2, <2>2, <2>3 DEF SweepInv, EndOK
  <2>9. ASSUME NEW q \in Run
        PROVE  RunOK(q)'
    <3>1. CASE q = r
      <4>1. ClockOK(runs[r])'
        BY <1>0, <1>1, <2>1, <2>2 DEF RunOK, ClockOK
      <4>2. PruneOK(r)'
        BY <1>4, <2>1, <2>2, <2>3 DEF PruneOK
      <4> QED
        BY <2>1, <2>2, <3>1, <4>1, <4>2 DEF RunOK, LookedOK, TreeOK, WalkOK
    <3>2. CASE q # r
      <4>1. RunOK(q) /\ runs[q].at # "entries"
        BY <1>1, NoneIsNone DEF SweepInv, RunOK, PruneOK
      <4> QED
        BY <1>0, <1>1, <1>2, <2>2, <2>3, <3>2, <4>1, OthersOK
    <3> QED
      BY <3>1, <3>2
  <2>10. TwoAbsences' /\ TreeGoesAfterFreshAbsences' /\ IndexNamesEveryBinding'
    BY <1>2, <2>3 DEF SweepInv, TwoAbsences, TreeGoesAfterFreshAbsences, IndexNamesEveryBinding
  <2> QED
    BY <2>5, <2>6, <2>7, <2>8, <2>9, <2>10 DEF SweepInv
<1> QED
  BY <1>3, <1>4 DEF Retain

\* What a decision on the pane's absence leaves of probe and sighting, and when an ended
\* binding's counts.
LEMMA ProbeStep ==
  ASSUME SweepAssumption, SweepInv, NEW r \in Run, runs[r].at \in {"absence", "tree"},
         NEW action, NEW since \in Nat, UNCHANGED <<now, boot, live>>,
         KeepsProbe(action, runs[r]), Sights(action, runs[r], since),
         action \in {"unavailable", "present", "clear_absence", "first_absence", "too_soon", "end"},
         action = "first_absence" => runs[r].case.verdict = "absent",
         runs[r].case.verdict = "present" /\ runs[r].began >= sighted /\ sighted > since =>
           probe = None \/ action = "clear_absence"
  PROVE  /\ ProbeOK' /\ probe' \in {None} \cup Stamps /\ sighted' \in Stamps
         /\ \A b \in Binding : end[b] # None /\ probe' # None /\ probe' > end[b].obs => sighted' > endedAt[b]
<1> DEFINE run == runs[r]
<1>0. FormOK /\ TypeOK /\ ProbeOK /\ RunOK(r)
  BY DEF SweepInv, FormOK
<1>1. run \in Sweeping
  BY <1>0, RunForm
<1>2. /\ now \in Nat /\ now \in 0..MaxTime /\ boot \in Nat /\ boot <= now /\ MaxTime \in Nat
      /\ sighted \in Nat /\ sighted <= now
  BY <1>0 DEF TypeOK, ProbeOK, Stamps, SweepAssumption
<1>3. run.began \in Nat /\ run.began > 0 /\ run.began <= now /\ run.obs \in Nat
      /\ run.obs = run.began - boot
  BY <1>0, <1>1, <1>2 DEF RunOK, ClockOK, Sweeping
<1> HIDE DEF run
<1>4. CASE action = "first_absence"
  <2>1. probe' = run.obs /\ sighted' = run.began
    BY <1>4 DEF KeepsProbe, Sights, run
  <2>2. ProbeOK' /\ probe' \in {None} \cup Stamps /\ sighted' \in Stamps
    BY <1>0, <1>2, <1>3, <2>1 DEF ProbeOK, Stamps
  <2>3. ASSUME NEW b \in Binding, end[b] # None, run.obs > end[b].obs
        PROVE  run.began > endedAt[b]
    <3>1. end[b].obs \in Nat /\ endedAt[b] \in Nat /\ EndOK(b)
      BY <1>0, <2>3, RecordForm DEF TypeOK, Stamps, SweepInv
    <3> QED
      BY <1>2, <1>3, <2>3, <3>1 DEF EndOK
  <2> QED
    BY <2>1, <2>2, <2>3
<1>5. CASE action # "first_absence" /\ probe' = None
  <2>1. sighted' \in {0, sighted}
    BY <1>5 DEF Sights
  <2> QED
    BY <1>0, <1>2, <1>5, <2>1 DEF ProbeOK, Stamps
<1>6. CASE action # "first_absence" /\ probe' = probe /\ probe # None
  <2>1. sighted' = sighted
    <3>1. CASE action = "clear_absence"
      BY <1>6, <3>1 DEF KeepsProbe
    <3>2. CASE action # "clear_absence"
      BY <1>6, <3>2 DEF Sights
    <3> QED
      BY <3>1, <3>2
  <2> QED
    BY <1>0, <1>2, <1>6, <2>1 DEF ProbeOK, EndOK, SweepInv, TypeOK
<1> QED
  BY <1>4, <1>5, <1>6 DEF KeepsProbe

\* When a decision is to end or remove something, the sighting that stands is an interval old.
LEMMA IntervalPassed ==
  ASSUME SweepAssumption, SweepInv, NEW r \in Run, runs[r].at # "idle",
         probe # None, probe <= runs[r].obs, runs[r].obs - probe >= Interval
  PROVE  sighted > 0 /\ runs[r].began - sighted >= Interval
<1>1. FormOK /\ TypeOK /\ ProbeOK /\ RunOK(r)
  BY DEF SweepInv, FormOK
<1>2. runs[r] \in Sweeping
  BY <1>1, RunForm
<1>3. /\ probe \in Nat /\ sighted \in Nat /\ boot \in Nat /\ Interval \in Nat
      /\ runs[r].began \in Nat /\ runs[r].obs \in Nat /\ runs[r].obs = runs[r].began - boot
  BY <1>1, <1>2 DEF TypeOK, Stamps, SweepAssumption, RunOK, ClockOK, Sweeping
<1> QED
  BY <1>1, <1>3 DEF ProbeOK

\* The absence of a running binding is decided: nothing, a probe, or its end.
LEMMA AbsenceStep ==
  ASSUME SweepAssumption, SweepInv, NEW r \in Run, CommitAbsence(r)
  PROVE  SweepInv'
<1>0. FormOK /\ TypeOK /\ ProbeOK /\ RunOK(r)
  BY DEF SweepInv, FormOK
<1>b. PICK b \in Binding : b = runs[r].case.of
  BY <1>0 DEF CommitAbsence, RunOK, LookedOK
<1> DEFINE action == AbsenceAction(runs[r].case.verdict, probe, runs[r].obs)
           same == claimed /\ binding[b] = runs[r].case.saw /\ current = b
           ends == same /\ action = "end" /\ ~Ended(b)
           run == [runs[r] EXCEPT !.at = "look", !.case = NoCase]
<1>1. runs[r] \in Sweeping /\ runs[r].at = "absence" /\ lock = None /\ lock # r
  BY <1>0, RunForm, NoneIsNone DEF CommitAbsence
<1>2. /\ runs[r].case.saw # None
      /\ runs[r].case.verdict \in {"present", "absent", "unavailable"}
      /\ runs[r].obs \in Nat /\ runs[r].began \in Nat /\ (probe = None \/ probe \in Nat)
  BY <1>0, <1>1 DEF RunOK, LookedOK, TypeOK, Stamps, Sweeping
<1>3. /\ UNCHANGED <<binding, current, claimed, index, marked, foreign, lock>> /\ World
      /\ Goes(r, run)
  BY DEF CommitAbsence, Decided
<1>4. /\ IF same THEN KeepsProbe(action, runs[r]) /\ Sights(action, runs[r], 0)
         ELSE UNCHANGED <<probe, sighted>>
      /\ IF ends
         THEN /\ end' = [end EXCEPT ![b] = [of |-> binding[b].event, obs |-> runs[r].obs, wall |-> now]]
              /\ endedAt' = [endedAt EXCEPT ![b] = runs[r].began]
              /\ grounds' = grounds \cup {Ground("end", runs[r])}
         ELSE UNCHANGED <<end, endedAt, grounds>>
  BY <1>b DEF CommitAbsence
<1>5. /\ action \in {"unavailable", "present", "clear_absence", "first_absence", "too_soon", "end"}
      /\ action = "first_absence" => runs[r].case.verdict = "absent"
      /\ runs[r].case.verdict = "present" => probe = None \/ action = "clear_absence"
      /\ action = "end" => probe # None /\ probe <= runs[r].obs /\ runs[r].obs - probe >= Interval
  BY <1>2, AbsenceIs
<1>6. run \in Sweeping /\ run.at = "look" /\ run.began = runs[r].began /\ run.obs = runs[r].obs
  <2>1. NoCase \in Case
    BY DEF NoCase, Case
  <2> QED
    BY <1>1, <2>1 DEF Sweeping
<1> HIDE DEF run, action
<1>7. /\ runs' \in [Run -> {Idle} \cup Sweeping]
      /\ \A q \in Run \ {r} : runs'[q] = runs[q]
      /\ runs'[r].at = "look" /\ runs'[r].began = runs[r].began /\ runs'[r].obs = runs[r].obs
      /\ UNCHANGED <<now, boot, live, events>> /\ now \in Nat /\ now \in Stamps
  BY <1>3, <1>6, RunOnly DEF Stamps
<1>8. /\ ProbeOK' /\ probe' \in {None} \cup Stamps /\ sighted' \in Stamps
      /\ \A c \in Binding : end[c] # None /\ probe' # None /\ probe' > end[c].obs => sighted' > endedAt[c]
  <2>1. CASE same
    BY <1>1, <1>4, <1>5, <1>7, <2>1, ProbeStep
  <2>2. CASE ~same
    BY <1>0, <1>4, <1>7, <2>2 DEF ProbeOK, TypeOK, EndOK, SweepInv
  <2> QED
    BY <2>1, <2>2
<1>9. ASSUME NEW q \in Run
      PROVE  RunOK(q)'
  <2>1. CASE q = r
    <3>1. ClockOK(runs[r])'
      BY <1>0, <1>1, <1>7 DEF RunOK, ClockOK
    <3> QED
      BY <1>7, <2>1, <3>1 DEF RunOK, LookedOK, TreeOK, PruneOK, WalkOK
  <2>2. CASE q # r
    <3>1. RunOK(q) /\ runs[q].at # "entries"
      BY <1>1, NoneIsNone DEF SweepInv, RunOK, PruneOK
    <3> QED
      BY <1>0, <1>3, <1>7, <2>2, <3>1, OthersOK
  <2> QED
    BY <2>1, <2>2
<1>10. lock' \in {None} \cup {q \in Run : runs'[q].at = "entries"}
  BY <1>1, <1>3
<1>11. CASE ~ends
  <2>1. UNCHANGED <<end, endedAt, grounds>>
    BY <1>4, <1>11
  <2>2. TypeOK'
    BY <1>0, <1>3, <1>7, <1>8, <1>10, <2>1 DEF TypeOK
  <2>3. FormOK' /\ EndsLast'
    BY <1>0, <1>3, <1>7, <2>1, <2>2 DEF FormOK, SweepInv, EndsLast, Ended, EndsBinding
  <2>4. ASSUME NEW c \in Binding
        PROVE  EndOK(c)'
    BY <1>7, <1>8, <2>1 DEF SweepInv, EndOK
  <2>5. TwoAbsences' /\ TreeGoesAfterFreshAbsences' /\ IndexNamesEveryBinding'
    BY <1>3, <2>1 DEF SweepInv, TwoAbsences, TreeGoesAfterFreshAbsences, IndexNamesEveryBinding
  <2> QED
    BY <1>8, <1>9, <2>3, <2>4, <2>5 DEF SweepInv
<1>12. CASE ends
  <2>1. /\ binding[b] # None /\ binding[b].event \in 0..MaxEvents /\ binding[b].event \in Nat
        /\ binding[b].event = runs[r].case.saw.event /\ binding[b].event <= events
    BY <1>0, <1>2, <1>b, <1>12, RecordForm DEF FormOK
  <2>2. /\ probe # None /\ probe \in Nat /\ probe <= runs[r].obs /\ probe' = probe
        /\ sighted > 0 /\ runs[r].began - sighted >= Interval /\ sighted \in Nat
    BY <1>0, <1>1, <1>2, <1>4, <1>5, <1>12, IntervalPassed DEF KeepsProbe, TypeOK, Stamps
  <2> DEFINE new == [of |-> binding[b].event, obs |-> runs[r].obs, wall |-> now]
  <2>3. runs[r].began \in 1..now /\ runs[r].obs = runs[r].began - boot /\ boot \in Nat
        /\ runs[r].began \in Stamps /\ runs[r].obs \in Stamps
    BY <1>0, <1>1, <1>2, <1>7 DEF RunOK, ClockOK, TypeOK, Stamps, SweepAssumption
  <2>4. /\ new \in [of : 0..MaxEvents, obs : Stamps, wall : Stamps] /\ new # None
        /\ new.of = binding[b].event /\ new.obs = runs[r].obs
    <3>1. new \in [of : 0..MaxEvents, obs : Stamps, wall : Stamps]
      BY <1>7, <2>1, <2>3
    <3>2. new \in [of : Nat, obs : Nat, wall : Nat]
      BY <1>2, <1>7, <2>1
    <3> QED
      BY <3>1, <3>2, NoneIsNone
  <2>5. end' = [end EXCEPT ![b] = new] /\ endedAt' = [endedAt EXCEPT ![b] = runs[r].began]
    BY <1>4, <1>12
  <2> HIDE DEF new
  <2>6. \A c \in Binding : /\ end'[c] = IF c = b THEN new ELSE end[c]
                           /\ endedAt'[c] = IF c = b THEN runs[r].began ELSE endedAt[c]
    BY <1>0, <2>5 DEF TypeOK
  <2>7. TypeOK'
    <3>1. /\ end' \in [Binding -> {None} \cup [of : 0..MaxEvents, obs : Stamps, wall : Stamps]]
          /\ endedAt' \in [Binding -> Stamps]
      BY <1>0, <2>3, <2>4, <2>5 DEF TypeOK
    <3>2. \A c \in Binding : binding'[c] = None => end'[c] = None
      BY <1>0, <1>3, <2>1, <2>6 DEF TypeOK
    <3> QED
      BY <1>0, <1>3, <1>7, <1>8, <1>10, <3>1, <3>2 DEF TypeOK
  <2> DEFINE g == [kind |-> "end", of |-> b, event |-> binding[b].event, first |-> sighted,
                   second |-> runs[r].began, after |-> endedAt[b]]
  <2>8. grounds' = grounds \cup {g} /\ g \in Footing
    <3>1. Ground("end", runs[r]) = g
      BY <1>b, <2>1 DEF Ground
    <3>2. endedAt[b] \in Nat
      BY <1>0, <1>2 DEF TypeOK, Stamps
    <3> QED
      BY <1>2, <1>4, <1>12, <2>1, <2>2, <3>1, <3>2 DEF Footing
  <2>9. g.kind = "end" /\ g.of = b /\ g.event = binding[b].event /\ g.first = sighted
        /\ g.second = runs[r].began
    OBVIOUS
  <2> HIDE DEF g
  <2>10. FormOK'
    BY <1>0, <1>3, <1>7, <2>7, <2>8 DEF FormOK
  <2>11. Ended(b)'
    BY <1>2, <1>3, <2>1, <2>4, <2>6 DEF Ended, EndsBinding
  <2>12. EndsLast'
    <3> SUFFICES ASSUME NEW h \in grounds', h.kind = "end"
                 PROVE  /\ h.event <= events
                        /\ binding[h.of] # None /\ binding[h.of].event = h.event => Ended(h.of)'
      BY <1>3, <1>7 DEF EndsLast
    <3>1. CASE h = g
      BY <2>1, <2>9, <2>11, <3>1
    <3>2. CASE h \in grounds
      <4>1. h.of \in Binding
        BY <1>0, <3>2 DEF FormOK, Footing
      <4> QED
        BY <1>3, <2>6, <2>11, <3>2, <4>1 DEF SweepInv, EndsLast, Ended
    <3> QED
      BY <2>8, <3>1, <3>2
  <2>13. TwoAbsences'
    <3>1. ASSUME NEW h \in grounds, h.kind = "end", h.of = b, h.event = binding[b].event
          PROVE  FALSE
      BY <1>12, <2>1, <3>1 DEF SweepInv, EndsLast
    <3> QED
      BY <2>2, <2>8, <2>9, <3>1 DEF SweepInv, TwoAbsences
  <2>14. TreeGoesAfterFreshAbsences'
    BY <2>8, <2>9 DEF SweepInv, TreeGoesAfterFreshAbsences
  <2>15. ASSUME NEW c \in Binding
         PROVE  EndOK(c)'
    <3>1. CASE c = b
      BY <1>7, <2>2, <2>3, <2>4, <2>6, <3>1 DEF EndOK
    <3>2. CASE c # b
      BY <1>7, <1>8, <2>6, <3>2 DEF SweepInv, EndOK
    <3> QED
      BY <3>1, <3>2
  <2>16. IndexNamesEveryBinding'
    BY <1>3 DEF SweepInv, IndexNamesEveryBinding
  <2> QED
    BY <1>8, <1>9, <2>10, <2>12, <2>13, <2>14, <2>15, <2>16 DEF SweepInv
<1> QED
  BY <1>11, <1>12

\* The pane's tree is decided: nothing, a probe, or the removal of all its records.
LEMMA TreeStep ==
  ASSUME SweepAssumption, SweepInv, NEW r \in Run, CommitTree(r)
  PROVE  SweepInv'
<1>0. FormOK /\ TypeOK /\ ProbeOK /\ RunOK(r)
  BY DEF SweepInv, FormOK
<1>b. PICK b \in Binding : b = runs[r].case.of
  BY <1>0 DEF CommitTree, RunOK, LookedOK
<1> DEFINE action == AbsenceAction(runs[r].case.verdict, RetentionProbe(end[b], runs[r].obs), runs[r].obs)
           same == /\ claimed /\ binding[b] = runs[r].case.saw /\ end[b] = runs[r].case.sawEnd
                   /\ current = b
<1>1. runs[r] \in Sweeping /\ runs[r].at = "tree" /\ lock = None /\ lock # r
  BY <1>0, RunForm, NoneIsNone DEF CommitTree
<1>2. /\ runs[r].case.saw # None /\ runs[r].case.saw \in {None} \cup [obs : Nat, event : Nat]
      /\ runs[r].case.verdict \in {"present", "absent", "unavailable"}
      /\ runs[r].case.verdict = "present" => boot = 0
      /\ EndsBinding(runs[r].case.sawEnd, runs[r].case.saw)
      /\ runs[r].obs \in Nat /\ runs[r].began \in Nat /\ (probe = None \/ probe \in Nat)
      /\ runs[r].obs = runs[r].began - boot
  BY <1>0, <1>1 DEF RunOK, LookedOK, TreeOK, ClockOK, TypeOK, Stamps, Sweeping, Case
<1>3. UNCHANGED <<index, marked, foreign, endedAt>> /\ World
  BY DEF CommitTree
<1>4. RetentionProbe(end[b], runs[r].obs) = None \/ RetentionProbe(end[b], runs[r].obs) \in Nat
  BY <1>2 DEF RetentionProbe
<1>5. /\ action \in {"unavailable", "present", "clear_absence", "first_absence", "too_soon", "end"}
      /\ action = "first_absence" => runs[r].case.verdict = "absent"
      /\ runs[r].case.verdict = "present" =>
           RetentionProbe(end[b], runs[r].obs) = None \/ action = "clear_absence"
      /\ action = "end" => /\ RetentionProbe(end[b], runs[r].obs) # None
                           /\ RetentionProbe(end[b], runs[r].obs) <= runs[r].obs
                           /\ runs[r].obs - RetentionProbe(end[b], runs[r].obs) >= Interval
  BY <1>2, <1>4, AbsenceIs
<1> HIDE DEF action
<1>6. ASSUME NEW run \in Sweeping, Goes(r, run), run.began = runs[r].began, run.obs = runs[r].obs,
             run.at \in {"look", "entries"}
      PROVE  /\ runs' \in [Run -> {Idle} \cup Sweeping]
             /\ runs'[r] = run /\ ClockOK(runs[r])'
             /\ \A q \in Run \ {r} : runs'[q] = runs[q]
             /\ UNCHANGED <<now, boot, live, events>> /\ now \in Nat
  <2>1. /\ runs' \in [Run -> {Idle} \cup Sweeping] /\ runs'[r] = run
        /\ \A q \in Run \ {r} : runs'[q] = runs[q]
        /\ UNCHANGED <<now, boot, live, events>> /\ now \in Nat
    BY <1>3, <1>6, RunOnly
  <2> QED
    BY <1>0, <1>1, <1>6, <2>1 DEF RunOK, ClockOK
<1>7. ASSUME NEW q \in Run, q # r,
             runs'[q] = runs[q], UNCHANGED <<now, boot, live, events>>, now \in Nat,
             \A c \in Binding : binding'[c] # None => binding[c] # None
      PROVE  RunOK(q)'
  <2>1. RunOK(q) /\ runs[q].at # "entries"
    BY <1>1, NoneIsNone DEF SweepInv, RunOK, PruneOK
  <2> QED
    BY <1>0, <1>3, <1>7, <2>1, OthersOK
<1>8. CASE same /\ action = "end" /\ TreeKnown
  <2>1. /\ binding' = [c \in Binding |-> None] /\ end' = [c \in Binding |-> None]
        /\ current' = None /\ claimed' = FALSE /\ probe' = None
        /\ grounds' = grounds \cup {Ground("tree", runs[r])}
        /\ lock' = r /\ sighted' = sighted
        /\ Goes(r, [runs[r] EXCEPT !.at = "entries", !.prune = {c \in Binding : binding[c] # None}])
    BY <1>b, <1>8 DEF CommitTree, action
  <2>2. PICK run : run = [runs[r] EXCEPT !.at = "entries", !.prune = {c \in Binding : binding[c] # None}]
    OBVIOUS
  <2>3. /\ run \in Sweeping /\ run.at = "entries" /\ run.began = runs[r].began /\ run.obs = runs[r].obs
        /\ run.prune \subseteq Binding
    BY <1>1, <2>2 DEF Sweeping
  <2>4. /\ runs' \in [Run -> {Idle} \cup Sweeping]
        /\ runs'[r] = run /\ ClockOK(runs[r])'
        /\ \A q \in Run \ {r} : runs'[q] = runs[q]
        /\ UNCHANGED <<now, boot, live, events>> /\ now \in Nat
    BY <1>6, <2>1, <2>2, <2>3
  <2>5. foreign = {}
    BY <1>8 DEF TreeKnown
  <2>6. TypeOK'
    <3>1. lock' \in {None} \cup {q \in Run : runs'[q].at = "entries"}
      BY <2>1, <2>3, <2>4
    <3>2. /\ binding' \in [Binding -> {None} \cup [obs : Stamps, event : 0..MaxEvents]]
          /\ end' \in [Binding -> {None} \cup [of : 0..MaxEvents, obs : Stamps, wall : Stamps]]
          /\ \A c \in Binding : binding'[c] = None => end'[c] = None
          /\ foreign' \subseteq {c \in Binding : binding'[c] # None}
          /\ current' \in {None} \cup Binding /\ (current' # None => binding'[current'] # None)
      BY <1>3, <2>1, <2>5
    <3>3. probe' \in {None} \cup Stamps /\ claimed' \in BOOLEAN
      BY <2>1
    <3> QED
      BY <1>0, <1>3, <2>1, <2>4, <3>1, <3>2, <3>3 DEF TypeOK
  <2> DEFINE g == [kind |-> "tree", of |-> b, event |-> runs[r].case.saw.event, first |-> sighted,
                   second |-> runs[r].began, after |-> endedAt[b]]
  <2>7. grounds' = grounds \cup {g} /\ g \in Footing
    <3>1. Ground("tree", runs[r]) = g
      BY <1>b DEF Ground
    <3>2. endedAt[b] \in Nat /\ sighted \in Nat /\ runs[r].case.saw.event \in Nat
      BY <1>0, <1>2 DEF TypeOK, Stamps
    <3> QED
      BY <1>2, <2>1, <3>1, <3>2 DEF Footing
  <2>8. g.kind = "tree" /\ g.first = sighted /\ g.second = runs[r].began /\ g.after = endedAt[b]
    OBVIOUS
  <2> HIDE DEF g
  <2>9. FormOK'
    BY <1>0, <2>1, <2>4, <2>6, <2>7 DEF FormOK
  <2>10. ProbeOK' /\ \A c \in Binding : EndOK(c)'
    BY <1>0, <2>1, <2>4 DEF ProbeOK, EndOK
  <2>11. EndsLast'
    <3> SUFFICES ASSUME NEW h \in grounds', h.kind = "end"
                 PROVE  /\ h.event <= events
                        /\ binding'[h.of] # None /\ binding'[h.of].event = h.event => Ended(h.of)'
      BY <2>4 DEF EndsLast
    <3>1. h \in grounds /\ h.of \in Binding
      BY <1>0, <2>7, <2>8 DEF FormOK, Footing
    <3> QED
      BY <2>1, <3>1 DEF SweepInv, EndsLast
  <2>12. TwoAbsences'
    BY <2>7, <2>8 DEF SweepInv, TwoAbsences
  <2>13. TreeGoesAfterFreshAbsences'
    <3>1. /\ probe # None /\ probe <= runs[r].obs /\ probe > end[b].obs
          /\ runs[r].obs - probe >= Interval
      BY <1>5, <1>8 DEF RetentionProbe
    <3>2. sighted > endedAt[b]
      BY <1>2, <1>8, <3>1 DEF SweepInv, EndOK, EndsBinding
    <3>3. runs[r].began - sighted >= Interval
      BY <1>1, <3>1, IntervalPassed
    <3> QED
      BY <2>7, <2>8, <3>2, <3>3 DEF SweepInv, TreeGoesAfterFreshAbsences
  <2>14. ASSUME NEW q \in Run
         PROVE  RunOK(q)'
    <3>1. CASE q = r
      <4>1. PruneOK(r)'
        BY <2>1, <2>3, <2>4 DEF PruneOK
      <4> QED
        BY <2>3, <2>4, <3>1, <4>1 DEF RunOK, LookedOK, TreeOK, WalkOK
    <3>2. CASE q # r
      BY <1>7, <2>1, <2>4, <3>2
    <3> QED
      BY <3>1, <3>2
  <2>15. IndexNamesEveryBinding'
    BY <2>1 DEF IndexNamesEveryBinding
  <2> QED
    BY <2>9, <2>10, <2>11, <2>12, <2>13, <2>14, <2>15 DEF SweepInv
<1>9. CASE ~(same /\ action = "end" /\ TreeKnown)
  <2>1. /\ IF same THEN KeepsProbe(action, runs[r]) /\ Sights(action, runs[r], endedAt[b])
           ELSE UNCHANGED <<probe, sighted>>
        /\ Decided(r)
        /\ UNCHANGED <<binding, end, current, claimed, grounds, lock>>
    BY <1>b, <1>9 DEF CommitTree, action
  <2>2. PICK run : run = [runs[r] EXCEPT !.at = "look", !.case = NoCase]
    OBVIOUS
  <2>3. run \in Sweeping /\ run.at = "look" /\ run.began = runs[r].began /\ run.obs = runs[r].obs
    <3>1. NoCase \in Case
      BY DEF NoCase, Case
    <3> QED
      BY <1>1, <2>2, <3>1 DEF Sweeping
  <2>4. /\ runs' \in [Run -> {Idle} \cup Sweeping]
        /\ runs'[r] = run /\ ClockOK(runs[r])'
        /\ \A q \in Run \ {r} : runs'[q] = runs[q]
        /\ UNCHANGED <<now, boot, live, events>> /\ now \in Nat
    BY <1>6, <2>1, <2>2, <2>3 DEF Decided
  <2>5. /\ ProbeOK' /\ probe' \in {None} \cup Stamps /\ sighted' \in Stamps
        /\ \A c \in Binding : end[c] # None /\ probe' # None /\ probe' > end[c].obs => sighted' > endedAt[c]
    <3>1. CASE same
      <4>1. endedAt[b] \in Nat /\ sighted \in Nat
        BY <1>0 DEF TypeOK, Stamps
      <4>2. ASSUME runs[r].case.verdict = "present", runs[r].began >= sighted, sighted > endedAt[b],
                   probe # None
            PROVE  action = "clear_absence"
        <5>1. boot = 0 /\ probe = sighted /\ runs[r].obs = runs[r].began
          BY <1>0, <1>2, <4>1, <4>2 DEF ProbeOK
        <5>2. end[b] # None /\ end[b].obs \in Nat /\ endedAt[b] = end[b].obs
          <6>1. end[b] # None
            BY <1>2, <3>1 DEF EndsBinding
          <6>2. EndOK(b) /\ end[b].obs \in Nat
            BY <1>0, <6>1, RecordForm DEF SweepInv
          <6> QED
            BY <5>1, <6>1, <6>2 DEF EndOK
        <5>3. RetentionProbe(end[b], runs[r].obs) # None
          BY <4>1, <4>2, <5>1, <5>2 DEF RetentionProbe
        <5> QED
          BY <1>5, <4>2, <5>3
      <4> QED
        BY <1>1, <1>5, <2>1, <2>4, <3>1, <4>1, <4>2, ProbeStep
    <3>2. CASE ~same
      BY <1>0, <2>1, <2>4, <3>2 DEF ProbeOK, TypeOK, EndOK, SweepInv
    <3> QED
      BY <3>1, <3>2
  <2>6. TypeOK'
    <3>1. lock' \in {None} \cup {q \in Run : runs'[q].at = "entries"}
      BY <1>1, <2>1
    <3> QED
      BY <1>0, <1>3, <2>1, <2>4, <2>5, <3>1 DEF TypeOK
  <2>7. FormOK' /\ EndsLast'
    BY <1>0, <2>1, <2>4, <2>6 DEF FormOK, SweepInv, EndsLast, Ended, EndsBinding
  <2>8. ASSUME NEW c \in Binding
        PROVE  EndOK(c)'
    BY <1>3, <2>1, <2>4, <2>5 DEF SweepInv, EndOK
  <2>9. ASSUME NEW q \in Run
        PROVE  RunOK(q)'
    <3>1. CASE q = r
      BY <2>3, <2>4, <3>1 DEF RunOK, LookedOK, TreeOK, PruneOK, WalkOK
    <3>2. CASE q # r
      BY <1>7, <2>1, <2>4, <3>2
    <3> QED
      BY <3>1, <3>2
  <2>10. TwoAbsences' /\ TreeGoesAfterFreshAbsences' /\ IndexNamesEveryBinding'
    BY <1>3, <2>1 DEF SweepInv, TwoAbsences, TreeGoesAfterFreshAbsences, IndexNamesEveryBinding
  <2> QED
    BY <2>5, <2>7, <2>8, <2>9, <2>10 DEF SweepInv
<1> QED
  BY <1>8, <1>9

\* What binding a step removes, and on what.
LEMMA RemovalStep ==
  ASSUME SweepAssumption, SweepInv, [Next]_vars, NEW b \in Binding,
         binding[b] # None, binding'[b] = None
  PROVE  \/ Ended(b) /\ b # current /\ b \notin foreign
         \/ /\ current # None /\ Ended(current) /\ now - end[current].wall > Age
            /\ foreign = {}
<1>0. FormOK /\ TypeOK
  BY DEF SweepInv, FormOK
<1>1. binding' # binding
  OBVIOUS
<1>2. ASSUME NEW r \in Run, NEW c \in Binding, Retain(r, c)
      PROVE  Ended(b) /\ b # current /\ b \notin foreign
  <2>1. binding' = [binding EXCEPT ![c] = None] /\ MayRemove(c, runs[r])
    BY <1>1, <1>2 DEF Retain
  <2>2. b = c
    BY <1>0, <2>1 DEF TypeOK
  <2> QED
    BY <2>1, <2>2 DEF MayRemove, Known
<1>3. ASSUME NEW r \in Run, CommitTree(r)
      PROVE  /\ current # None /\ Ended(current) /\ now - end[current].wall > Age
             /\ foreign = {}
  <2>1. RunOK(r) /\ runs[r] \in Sweeping /\ runs[r].at = "tree"
    BY <1>0, <1>3, RunForm DEF CommitTree, SweepInv
  <2>2. /\ claimed /\ current = runs[r].case.of /\ TreeKnown
        /\ binding[runs[r].case.of] = runs[r].case.saw /\ end[runs[r].case.of] = runs[r].case.sawEnd
    BY <1>1, <1>3 DEF CommitTree
  <2>3. current \in Binding /\ Ended(current) /\ runs[r].began - end[current].wall > Age
    BY <2>1, <2>2 DEF RunOK, LookedOK, TreeOK, Ended
  <2>4. runs[r].began \in 1..now /\ now \in Nat /\ Age \in Nat /\ end[current].wall \in Nat
    BY <1>0, <2>1, <2>3, RecordForm DEF RunOK, ClockOK, TypeOK, Ended, EndsBinding, SweepAssumption
  <2> QED
    BY <2>2, <2>3, <2>4, NoneIsNone DEF TreeKnown
<1>4. ASSUME NEW c \in Binding, Register(c)
      PROVE  FALSE
  <2>1. [obs |-> now + 1 - boot, event |-> events + 1] \in [obs : Nat, event : Nat]
    BY <1>0 DEF TypeOK, FormOK, SweepAssumption
  <2>2. binding'[b] = binding[b] \/ binding'[b] = [obs |-> now + 1 - boot, event |-> events + 1]
    BY <1>0, <1>4 DEF Register, TypeOK
  <2> QED
    BY <2>1, <2>2, NoneIsNone
<1>5. UNCHANGED vars => UNCHANGED binding
  BY DEF vars
<1>6. Pass \/ ClosePane \/ Reboot \/ Claim \/ (\E c \in Binding : EndHook(c) \/ Misplace(c))
        => UNCHANGED binding
  BY DEF Pass, ClosePane, Reboot, Claim, EndHook, Misplace, records
<1>7. \A r \in Run :
        Begin(r) \/ CompleteIndex(r) \/ CommitAbsence(r) \/ RemoveEntries(r) \/ Candidates(r) \/ Stop(r)
          \/ (\E c \in Binding : Look(r, c))
        => UNCHANGED binding
  <2>1. ASSUME NEW r \in Run, Begin(r) \/ CompleteIndex(r) \/ RemoveEntries(r)
        PROVE  UNCHANGED binding
    BY <2>1 DEF Begin, CompleteIndex, RemoveEntries, records
  <2>2. ASSUME NEW r \in Run, Candidates(r) \/ Stop(r) \/ CommitAbsence(r)
        PROVE  UNCHANGED binding
    BY <2>2 DEF Candidates, Stop, CommitAbsence, records
  <2>3. ASSUME NEW r \in Run, NEW c \in Binding, Look(r, c)
        PROVE  UNCHANGED binding
    BY <2>3 DEF Look, records
  <2> QED
    BY <2>1, <2>2, <2>3
<1> QED
  BY <1>1, <1>2, <1>3, <1>4, <1>5, <1>6, <1>7 DEF Next, RunStep

\* Every step keeps the invariant.
LEMMA SweepStep ==
  ASSUME SweepAssumption, SweepInv, [Next]_vars
  PROVE  SweepInv'
BY WorldStep, HookStep, ListStep, IndexStep, RetainStep, AbsenceStep, TreeStep DEF Next, RunStep

\* It holds at the start.
LEMMA SweepStart ==
  ASSUME SweepAssumption, Init
  PROVE  SweepInv
<1>0. PICK old \in SUBSET Legacy :
        /\ binding = [b \in Binding |-> IF b \in old THEN [obs |-> 0, event |-> 0] ELSE None]
        /\ current \in old \cup {None} /\ foreign \in SUBSET old
        /\ marked \in {FALSE, old = {}}
  BY DEF Init
<1>1. [obs |-> 0, event |-> 0] \in [obs : Stamps, event : 0..MaxEvents]
      /\ [obs |-> 0, event |-> 0] \in [obs : Nat, event : Nat]
  BY DEF Stamps, SweepAssumption
<1>2. [obs |-> 0, event |-> 0] # None
  BY <1>1, NoneIsNone
<1>3. \A b \in Binding : /\ b \in old => binding[b] = [obs |-> 0, event |-> 0]
                         /\ b \notin old => binding[b] = None
                         /\ end[b] = None
  BY <1>0 DEF Init
<1>4. TypeOK
  <2>1. binding \in [Binding -> {None} \cup [obs : Stamps, event : 0..MaxEvents]]
    BY <1>0, <1>1
  <2>2. \A b \in old : b \in Binding /\ binding[b] # None
    BY <1>2, <1>3 DEF SweepAssumption
  <2>3. current \in {None} \cup Binding /\ (current # None => binding[current] # None)
        /\ foreign \subseteq {b \in Binding : binding[b] # None}
    BY <1>0, <2>2
  <2>4. /\ now \in 0..MaxTime /\ boot \in 0..now /\ sighted \in Stamps /\ endedAt \in [Binding -> Stamps]
        /\ probe \in {None} \cup Stamps
    BY DEF Init, SweepAssumption, Stamps
  <2> QED
    BY <1>0, <1>3, <2>1, <2>3, <2>4 DEF Init, TypeOK
<1>5. FormOK
  BY <1>3, <1>4, NoneIsNone DEF Init, FormOK, SweepAssumption
<1>6. ProbeOK /\ EndsLast /\ \A b \in Binding : EndOK(b)
  BY <1>3 DEF Init, ProbeOK, EndsLast, EndOK
<1>7. \A r \in Run : runs[r].at = "idle"
  BY DEF Init, Idle
<1> QED
  BY <1>5, <1>6, <1>7 DEF Init, SweepInv, RunOK, ClockOK, LookedOK, TreeOK, PruneOK, WalkOK,
                          TwoAbsences, TreeGoesAfterFreshAbsences, IndexNamesEveryBinding

-----------------------------------------------------------------------------
(***************************************************************************)
(* The theorems.                                                           *)
(***************************************************************************)
\* The invariant always holds.
LEMMA SweepInvariant == Spec => []SweepInv
<1>1. Init => SweepInv
  BY SweepAssumption, SweepStart
<1>2. SweepInv /\ [Next]_vars => SweepInv'
  BY SweepAssumption, SweepStep
<1> QED
  BY <1>1, <1>2, PTL DEF Spec

\* What sweep ends or removes for a closed pane, it does on two sightings of its absence that
\* began an interval apart and stand, across a restart too; it ends no registration twice.
THEOREM EndsOnTwoAbsences == Spec => []AbsencesOK
<1>1. SweepInv => AbsencesOK
  BY DEF SweepInv, FormOK, AbsencesOK
<1> QED
  BY <1>1, SweepInvariant, PTL

\* Once the index is marked complete, no registration, removal or killed run takes a binding
\* out of it.
THEOREM CompleteIndexStays == Spec => []IndexNamesEveryBinding
<1>1. SweepInv => IndexNamesEveryBinding
  BY DEF SweepInv
<1> QED
  BY <1>1, SweepInvariant, PTL

\* Whatever a run listed, it removes only what is over and not selected when it removes it.
THEOREM OnlyEndedBindingsGo == Spec => RunningBindingIsKept
<1>1. SweepInv /\ [Next]_vars =>
        [\A b \in Binding : binding[b] # None /\ binding'[b] = None =>
           \/ Ended(b) /\ b # current /\ b \notin foreign
           \/ /\ current # None /\ Ended(current) /\ now - end[current].wall > Age
              /\ foreign = {}]_vars
  BY SweepAssumption, RemovalStep
<1> QED
  BY <1>1, SweepInvariant, PTL DEF Spec, RunningBindingIsKept

-----------------------------------------------------------------------------
(***************************************************************************)
(* PanePresence: the look at a pane whose verdict sweep decides on.        *)
(***************************************************************************)
Steps == {"idle", "identity", "list", "unlisted", "failed", "exited", "listener", "refused",
          "refusedGui", "refusedProcesses", "gui", "processes", "recheck", "done"}

\* The forms of the records PresenceTypeOK gives field by field.
LookForm == [at : Steps, rule : {"apply", "reader"}, again : BOOLEAN, found : Verdict]
KeptForm == [rows : {"none", "has", "lacks", "error"},
             processes : {"none", "present", "absent", "unseen", "unavailable"},
             refuses : {"none"} \cup ({"own", "touched", "other", "gone"} \X BOOLEAN)]
FormsOK == look \in LookForm /\ kept \in KeptForm

\* What is gone stays gone, so an answer of the pane's own server or of its processes that
\* says so stays true; another server's answer is one of a path that never is the pane's
\* again.
GoneOK ==
  /\ kept.processes = "absent" => ~pane
  /\ kept.rows = "lacks" /\ path = "own" => ~pane
  /\ look.at = "unlisted" /\ path = "own" => ~pane
  /\ look.at = "exited" => ~pane
  /\ look.at = "recheck" /\ look.found = "absent" /\ path = "own" => ~pane
  /\ look.at = "done" /\ look.found = "absent" => ~pane

\* What is there was there.
ThereOK ==
  /\ pane \/ shell # "none" => wasThere
  /\ kept.processes = "present" => wasThere
  /\ kept.rows = "has" /\ path = "own" => wasThere
  /\ look.at = "recheck" /\ look.found = "present" /\ path = "own" => wasThere
  /\ look.at = "done" /\ look.found = "present" => wasThere

PresenceInv == PresenceTypeOK /\ FormsOK /\ GoneOK /\ ThereOK

\* What the world does.
PaneStep ==
  /\ UNCHANGED <<look, kept, wasThere>>
  /\ pane' => pane
  /\ shell' # "none" => shell # "none"
  /\ path' = "own" => path = "own"

\* The world only loses the pane, its process and its socket.
LEMMA PaneLoses ==
  ASSUME PresenceTypeOK, ServerChanges \/ TakePid \/ PathChanges \/ AccessChanges \/ BystanderChanges
                 \/ PaneCloses \/ ShellExits
  PROVE  PaneStep /\ PresenceTypeOK'
<1>0. /\ gui \in BOOLEAN /\ pidTaken \in BOOLEAN /\ readable \in BOOLEAN /\ otherHas \in BOOLEAN
      /\ pane \in BOOLEAN /\ listable \in BOOLEAN /\ wasThere \in BOOLEAN
      /\ server \in {"serves", "hangs", "refuses", "exited"}
      /\ path \in {"own", "touched", "other", "gone"}
      /\ bystander \in {"none", "elsewhere", "unresolved", "hidden"}
      /\ changes \in 0..MaxChanges /\ shell \in {"seen", "hidden", "none"}
      /\ pane => shell # "none" /\ server # "exited"
  BY DEF PresenceTypeOK
<1>1. /\ UNCHANGED <<look, kept, wasThere, gui, otherHas>>
      /\ pidTaken' \in BOOLEAN /\ readable' \in BOOLEAN /\ pane' \in BOOLEAN /\ listable' \in BOOLEAN
      /\ server' \in {"serves", "hangs", "refuses", "exited"}
      /\ path' \in {"own", "touched", "other", "gone"}
      /\ bystander' \in {"none", "elsewhere", "unresolved", "hidden"}
      /\ changes' \in 0..MaxChanges /\ shell' \in {"seen", "hidden", "none"}
      /\ pane' => shell' # "none" /\ server' # "exited"
      /\ pane' => pane
      /\ shell' # "none" => shell # "none"
      /\ path' = "own" => path = "own"
  <2>1. CASE ServerChanges
    <3>1. /\ UNCHANGED <<look, kept, wasThere, gui, otherHas, pidTaken, path, readable, shell, bystander,
                          listable>>
          /\ server' \in {"serves", "hangs", "refuses", "exited"} /\ pane' = (pane /\ server' # "exited")
          /\ changes' \in 0..MaxChanges
      BY <1>0, <2>1, PresenceAssumption DEF ServerChanges, Changes
    <3>2. pane' \in BOOLEAN /\ (pane' => pane /\ server' # "exited")
      BY <3>1
    <3> QED
      BY <1>0, <3>1, <3>2
  <2>2. CASE TakePid
    BY <1>0, <2>2, PresenceAssumption DEF TakePid, Changes
  <2>3. CASE PathChanges
    <3>1. /\ UNCHANGED <<look, kept, wasThere, gui, otherHas, server, pidTaken, readable, pane, shell,
                          bystander, listable>>
          /\ changes' \in 0..MaxChanges
      BY <1>0, <2>3, PresenceAssumption DEF PathChanges, Changes
    <3>2. path' \in {"touched", "other", "gone"}
      BY <2>3 DEF PathChanges
    <3> QED
      BY <1>0, <3>1, <3>2
  <2>4. CASE AccessChanges
    <3>1. /\ UNCHANGED <<look, kept, wasThere, gui, otherHas, server, pidTaken, path, pane, shell, bystander>>
          /\ changes' \in 0..MaxChanges
      BY <1>0, <2>4, PresenceAssumption DEF AccessChanges, Changes
    <3>2. readable' \in BOOLEAN /\ listable' \in BOOLEAN
      BY <1>0, <2>4 DEF AccessChanges
    <3> QED
      BY <1>0, <3>1, <3>2
  <2>5. CASE BystanderChanges
    BY <1>0, <2>5, PresenceAssumption DEF BystanderChanges, Changes
  <2>6. CASE PaneCloses
    BY <1>0, <2>6 DEF PaneCloses
  <2>7. CASE ShellExits
    BY <1>0, <2>7 DEF ShellExits
  <2> QED
    BY <2>1, <2>2, <2>3, <2>4, <2>5, <2>6, <2>7
<1>2. PresenceTypeOK'
  BY <1>0, <1>1 DEF PresenceTypeOK
<1> QED
  BY <1>1, <1>2 DEF PaneStep

\* The look goes on, or finds.
LEMMA LookGoes ==
  ASSUME FormsOK, NEW a \in Steps
  PROVE  /\ GoesTo(a) => look'.at = a /\ look'.found = look.found /\ look' \in LookForm
         /\ \A v \in Verdict : Finds(v, a) => look'.at = a /\ look'.found = v /\ look' \in LookForm
  BY DEF FormsOK, LookForm, GoesTo, Finds

\* What is kept of a listing.
LEMMA KeptGoes ==
  ASSUME FormsOK
  PROVE  /\ \A p \in {"none", "present", "absent", "unseen", "unavailable"} :
              kept' = [kept EXCEPT !.processes = p] =>
                kept'.processes = p /\ kept'.rows = kept.rows /\ kept' \in KeptForm
         /\ \A r \in {"none", "has", "lacks", "error"} :
              kept' = [kept EXCEPT !.rows = r] =>
                kept'.rows = r /\ kept'.processes = kept.processes /\ kept' \in KeptForm
         /\ \A f \in {"none"} \cup ({"own", "touched", "other", "gone"} \X BOOLEAN) :
              kept' = [kept EXCEPT !.refuses = f] =>
                kept'.rows = kept.rows /\ kept'.processes = kept.processes /\ kept' \in KeptForm
         /\ kept' = kept =>
                kept'.rows = kept.rows /\ kept'.processes = kept.processes /\ kept' \in KeptForm
  BY DEF FormsOK, KeptForm

\* What a look reads, or kept, is right for now, or of another server.
LEMMA ReadsRight ==
  ASSUME PresenceInv
  PROVE  /\ GuiProcessExited => ~pane
         /\ KeptProcesses \in {"present", "absent", "unseen", "unavailable"}
         /\ KeptProcesses = "absent" => ~pane
         /\ KeptProcesses = "present" => wasThere
         /\ KeepsProcesses \in {"none", KeptProcesses}
         /\ KeptRows \in {"has", "lacks", "error"}
         /\ KeptRows = "lacks" /\ path = "own" => ~pane
         /\ KeptRows = "has" /\ path = "own" => wasThere
         /\ KeepsRows \in {"none", KeptRows}
         /\ RecordedServer \in {"replaced", "unreadable", "current"}
         /\ RecordedServer = "current" => path = "own"
<1> USE DEF PresenceInv, PresenceTypeOK, FormsOK, LookForm, KeptForm, GoneOK, ThereOK
<1>1. GuiProcessExited => ~pane
  BY DEF GuiProcessExited
<1>2. /\ KeptProcesses \in {"present", "absent", "unseen", "unavailable"}
      /\ KeptProcesses = "absent" => ~pane
      /\ KeptProcesses = "present" => wasThere
  BY DEF KeptProcesses, Processes
<1>3. /\ KeptRows \in {"has", "lacks", "error"}
      /\ KeptRows = "lacks" /\ path = "own" => ~pane
      /\ KeptRows = "has" /\ path = "own" => wasThere
  BY DEF KeptRows, Rows
<1>4. KeepsProcesses \in {"none", KeptProcesses} /\ KeepsRows \in {"none", KeptRows}
  BY DEF KeepsProcesses, KeepsRows
<1>5. /\ RecordedServer \in {"replaced", "unreadable", "current"}
      /\ RecordedServer = "current" => path = "own"
  BY DEF RecordedServer
<1> QED
  BY <1>1, <1>2, <1>3, <1>4, <1>5

\* The forms say what the fields are of.
LEMMA FormsType ==
  ASSUME FormsOK', UNCHANGED world, PresenceTypeOK, wasThere' \in BOOLEAN
  PROVE  PresenceTypeOK'
  BY DEF PresenceTypeOK, FormsOK, LookForm, KeptForm, world, Steps

\* Every step of a look keeps what its answers rest on.
LEMMA PresenceStep == PresenceInv /\ [PresenceNext]_presenceVars => PresenceInv'
<1> SUFFICES ASSUME PresenceInv, [PresenceNext]_presenceVars
             PROVE  PresenceInv'
  OBVIOUS
<1>1. CASE \/ ServerChanges \/ TakePid \/ PathChanges \/ AccessChanges \/ BystanderChanges
           \/ PaneCloses \/ ShellExits
  <2>1. PaneStep /\ PresenceTypeOK'
    BY <1>1, PaneLoses DEF PresenceInv
  <2> QED
    BY <2>1 DEF PresenceInv, PaneStep, FormsOK, GoneOK, ThereOK
<1>2. CASE BeginLook
  <2>1. /\ look'.at = "identity" /\ look'.found = "unavailable" /\ kept' = Nothing
        /\ FormsOK' /\ UNCHANGED world /\ wasThere' = (pane \/ shell # "none")
    BY <1>2 DEF BeginLook, FormsOK, LookForm, KeptForm, NoLook, Nothing, Steps, Verdict
  <2>2. PresenceTypeOK'
    BY <2>1, FormsType DEF PresenceInv
  <2> QED
    BY <2>1, <2>2 DEF PresenceInv, GoneOK, ThereOK, world, Nothing
<1>3. CASE LookAgain
  <2>1. /\ look'.at = "identity" /\ look'.found = "unavailable"
        /\ FormsOK' /\ UNCHANGED <<world, kept, wasThere>>
    BY <1>3 DEF LookAgain, PresenceInv, FormsOK, LookForm, NoLook, Steps, Verdict
  <2>2. PresenceTypeOK'
    BY <2>1, FormsType DEF PresenceInv, PresenceTypeOK
  <2> QED
    BY <2>1, <2>2 DEF PresenceInv, GoneOK, ThereOK, world
<1>4. CASE LookStep
  <2>0. UNCHANGED <<world, wasThere>> /\ wasThere' \in BOOLEAN
    BY <1>4 DEF LookStep, ReadIdentity, List, AskUnlisted, AskExit, StillExited, AskListener,
                StillRefused, AskGui, AskProcesses, PresenceInv, PresenceTypeOK
  <2>1. SUFFICES FormsOK' /\ GoneOK' /\ ThereOK'
    BY <2>0, FormsType DEF PresenceInv
  <2>2. UNCHANGED <<pane, path, shell, wasThere>>
    BY <2>0 DEF world
  <2>3. look \in LookForm /\ kept \in KeptForm
    BY DEF PresenceInv, FormsOK
  <2>4. /\ \A a \in Steps :
             /\ GoesTo(a) => look'.at = a /\ look'.found = look.found /\ look' \in LookForm
             /\ \A v \in Verdict : Finds(v, a) => look'.at = a /\ look'.found = v /\ look' \in LookForm
    BY LookGoes DEF PresenceInv
  <2> USE <2>2, <2>3, ReadsRight DEF PresenceInv, FormsOK, GoneOK, ThereOK
  <2>5. CASE ReadIdentity
    <3>1. /\ kept' = kept /\ look' \in LookForm
          /\ \/ look'.at = "done" /\ look'.found = "unavailable"
             \/ look'.at = "gui"
             \/ look.at = "identity" /\ look'.at = "list"
             \/ look.at = "recheck" /\ path = "own" /\ look'.at = "done" /\ look'.found = look.found
      BY <2>4, <2>5 DEF ReadIdentity, Steps, Verdict
    <3> QED
      BY <3>1
  <2>6. CASE List
    <3>1. /\ look' \in LookForm
          /\ \/ KeptRows = "has" /\ look'.at = "recheck" /\ look'.found = "present"
             \/ KeptRows = "lacks" /\ look'.at = "unlisted"
             \/ look'.at = "failed"
      BY <2>4, <2>6 DEF List, Steps, Verdict
    <3>2. kept' \in KeptForm /\ kept'.rows \in {"none", KeptRows} /\ kept'.processes = kept.processes
      BY <2>6, KeptGoes DEF List
    <3> QED
      BY <3>1, <3>2
  <2>7. CASE AskUnlisted
    <3>1. /\ look' \in LookForm /\ look'.at = "recheck"
          /\ look'.found = "present" => KeptProcesses = "present"
      BY <2>4, <2>7 DEF AskUnlisted, Steps, Verdict
    <3>2. kept' \in KeptForm /\ kept'.rows = kept.rows /\ kept'.processes \in {"none", KeptProcesses}
      BY <2>7, KeptGoes DEF AskUnlisted
    <3> QED
      BY <2>7, <3>1, <3>2 DEF AskUnlisted
  <2>8. CASE AskExit \/ StillExited \/ StillRefused
    <3>1. /\ kept' = kept /\ look' \in LookForm
          /\ \/ look'.at = "exited" /\ ~pane
             \/ look'.at \in {"listener", "refusedGui"}
             \/ look'.at = "recheck" /\ look'.found = "absent" /\ ~pane
             \/ look'.at = "recheck" /\ look'.found = "unavailable"
      BY <2>4, <2>8 DEF AskExit, StillExited, StillRefused, Refused, Steps, Verdict
    <3> QED
      BY <3>1
  <2>9. CASE AskListener
    <3>1. /\ look' \in LookForm
          /\ look'.at = "refused" \/ (look'.at = "recheck" /\ look'.found = "unavailable")
      BY <2>4, <2>9 DEF AskListener, Steps, Verdict
    <3>2. kept' \in KeptForm /\ kept'.rows = kept.rows /\ kept'.processes = kept.processes
      <4>1. PICK f : f = IF kept.refuses = "none" THEN <<path, ListenerRefuses>> ELSE kept.refuses
        OBVIOUS
      <4>2. f \in {"none"} \cup ({"own", "touched", "other", "gone"} \X BOOLEAN)
        BY <4>1 DEF ListenerRefuses, PresenceTypeOK, KeptForm
      <4>3. kept' = [kept EXCEPT !.refuses = f]
        BY <2>9, <4>1 DEF AskListener
      <4> QED
        BY <4>2, <4>3, KeptGoes
    <3> QED
      BY <3>1, <3>2
  <2>10. CASE AskGui
    <3>1. /\ kept' = kept /\ look' \in LookForm
          /\ \/ look'.at \in {"done", "recheck"} /\ look'.found = "absent" /\ ~pane
             \/ look'.at \in {"processes", "refusedProcesses"}
      BY <2>4, <2>10 DEF AskGui, Steps, Verdict
    <3> QED
      BY <3>1
  <2>11. CASE AskProcesses
    <3>1. /\ look' \in LookForm /\ look'.at \in {"done", "recheck"}
          /\ \/ look'.found = "absent" /\ ~pane
             \/ look'.found = "kept"
      BY <2>4, <2>11 DEF AskProcesses, Steps, Verdict
    <3>2. kept' \in KeptForm /\ kept'.rows = kept.rows /\ kept'.processes \in {"none", KeptProcesses}
      BY <2>11, KeptGoes DEF AskProcesses
    <3> QED
      BY <3>1, <3>2
  <2> QED
    BY <1>4, <2>5, <2>6, <2>7, <2>8, <2>9, <2>10, <2>11 DEF LookStep
<1>5. CASE UNCHANGED presenceVars
  BY <1>5 DEF presenceVars, PresenceInv, PresenceTypeOK, FormsOK, GoneOK, ThereOK
<1> QED
  BY <1>1, <1>2, <1>3, <1>4, <1>5 DEF PresenceNext

\* Nothing was looked at.
LEMMA FirstLook == PresenceInit => PresenceInv
<1> SUFFICES ASSUME PresenceInit
             PROVE  PresenceInv
  OBVIOUS
<1>1. FormsOK /\ GoneOK /\ ThereOK
  BY DEF PresenceInit, FormsOK, LookForm, KeptForm, GoneOK, ThereOK, NoLook, Nothing, Verdict, Steps
<1>2. PresenceTypeOK
  <2>1. changes \in 0..MaxChanges
    BY PresenceAssumption DEF PresenceInit
  <2>2. /\ gui \in BOOLEAN /\ pidTaken = FALSE /\ readable = TRUE /\ otherHas \in BOOLEAN
        /\ pane = TRUE /\ listable = TRUE /\ wasThere = TRUE
    BY DEF PresenceInit
  <2>3. {gui, pidTaken, readable, otherHas, pane, listable, wasThere} \subseteq BOOLEAN
    BY <2>2
  <2> QED
    BY <2>1, <2>3 DEF PresenceInit, PresenceTypeOK, NoLook, Nothing, Verdict
<1> QED
  BY <1>1, <1>2 DEF PresenceInv

\* A look never shows a pane gone that runs, nor one present that was not there.
THEOREM LooksAreRight == PresenceSpec => []LookIsRight
<1>1. PresenceInv => LookIsRight
  BY DEF PresenceInv, GoneOK, ThereOK, LookIsRight, AbsentIsGone, PresentWasThere, Found
<1> QED
  BY <1>1, FirstLook, PresenceStep, PTL DEF PresenceSpec
=============================================================================
