------------------------------ MODULE HoldCheck ------------------------------
(***************************************************************************)
(* A lead's Stop whose hook runs hold and quiet checks: it looks at the    *)
(* binding under its locks, runs the checks without them, and decides      *)
(* under the locks again whether what they say still holds.  Meanwhile     *)
(* other hooks of the lead and of a child record themselves.               *)
(*                                                                         *)
(* What the programs do in their budget is left out.  Acknowledgements,    *)
(* watermarks and dying hooks are LeadActivity's; the pool evicts nothing. *)
(***************************************************************************)
EXTENDS Naturals

CONSTANTS
  Stops,      \* the hooks of a Stop, each run once
  Others,     \* the other hooks, each run once
  Providers,  \* the lead may be one of these
  Unsettled,  \* whether the child set may become unreadable and the binding end
  None

Hooks == Stops \cup Others

ASSUME HoldAssumption ==
  /\ Providers \subseteq {"claude", "codex"} /\ Providers # {} /\ Unsettled \in BOOLEAN
  /\ Stops \cap Others = {} /\ None \notin Hooks

VARIABLES
  provider,
  clock,
  turn,    \* the turn the lead is in
  bound,   \* whether the binding is current, ended or no longer selected
  set,     \* whether the child set can be read
  child,   \* the one child of the binding; under: history, the Stop shown when it asked
  slot,    \* activity.json
  pool,    \* lifecycle.json; its content stands for its snapshot id
  latest,  \* prompts.json: the stamp of the latest prompt
  hook

records == <<child, slot, pool, latest>>
holdVars == <<provider, clock, turn, bound, set, records, hook>>

Purpose == {"hold", "quiet"}
Kind == {"stop", "prompt", "tool", "ask"}
Idle == [phase |-> "idle", kind |-> None, turn |-> 0, at |-> 0, lists |-> FALSE,
         look |-> None, notes |-> {}, missed |-> FALSE]
Done == [Idle EXCEPT !.phase = "done"]

\* missed, of a hook and of an end it stored: history, whether the lead recorded an event since the look.
NoEnd == [by |-> None, recorded |-> FALSE, notes |-> {}, missed |-> FALSE]
Event(kind, h, end) == [kind |-> kind, turn |-> hook[h].turn, at |-> hook[h].at, end |-> end]

HoldInit ==
  /\ provider \in Providers /\ clock = 0 /\ turn = 1 /\ bound = "current" /\ set = "sound"
  /\ child = [here |-> TRUE, waiting |-> FALSE, last |-> 0, cleared |-> 0, under |-> None]
  /\ slot = [at |-> 0, word |-> "thinking", notes |-> {}, by |-> None]
  /\ pool = {[kind |-> "prompt", turn |-> 1, at |-> 0, end |-> NoEnd]}
  /\ latest = 0
  /\ hook = [h \in Hooks |-> Idle]

\* A Codex Stop leaves its order in the set, which covers the child's older events.
NoChild(cleared) ==
  [here |-> FALSE, waiting |-> FALSE, last |-> 0, cleared |-> cleared, under |-> None]

-----------------------------------------------------------------------------
\* A hook begins and reads the clock.  A prompt opens a turn or joins the one that runs; a
\* Claude Stop lists the tasks that run on, the child among them or not.
HookBegins(h) ==
  /\ hook[h].phase = "idle" /\ clock' = clock + 1
  /\ \E kind \in Kind, t \in {turn, turn + 1}, lists \in BOOLEAN :
       /\ kind = "stop" <=> h \in Stops
       /\ t # turn => kind = "prompt"
       /\ lists => kind = "stop" /\ provider = "claude"
       /\ turn' = t
       /\ hook' = [hook EXCEPT ![h] = [Idle EXCEPT !.phase = "begun", !.kind = kind,
                     !.turn = IF kind = "ask" THEN 0 ELSE t, !.at = clock', !.lists = lists]]
  /\ UNCHANGED <<provider, bound, set, records>>

Unsettles ==
  /\ Unsettled /\ bound = "current" /\ set = "sound"
  /\ \/ bound' \in {"ended", "away"} /\ UNCHANGED <<set, child>>
     \/ set' = "unreadable" /\ UNCHANGED <<bound, child>>
  /\ UNCHANGED <<provider, clock, turn, slot, pool, latest, hook>>

\* The child that waited goes on, or ends.
ChildStep ==
  /\ set = "sound" /\ bound = "current" /\ child.waiting /\ clock' = clock + 1
  /\ child' \in {[child EXCEPT !.waiting = FALSE, !.last = clock', !.under = None],
                 NoChild(child.cleared)}
  /\ UNCHANGED <<provider, turn, bound, set, slot, pool, latest, hook>>

-----------------------------------------------------------------------------
\* newer_lead_observation
NewerSeen(at) == latest > at \/ \E e \in pool : e.at > at

\* Mutant: every Stop of a turn is a new end.
RepeatsNothing(e, at) == FALSE

\* LifecycleSnapshot::repeats: the end e of a turn, delivered again at `at`.  Two Stops of a
\* turn with nothing of the lead between them are alike.
Repeats(e, at) ==
  LET After == {o \in pool : o.at > e.at}
  IN \/ \E o \in After : o.kind = "prompt" /\ o.turn # e.turn /\ o.at < at
     \/ /\ \A o \in After : o.at >= at
        /\ ~(latest > e.at /\ latest < at)

IsRepeat(h) == \E e \in pool : e.kind = "stop" /\ e.turn = hook[h].turn /\ Repeats(e, hook[h].at)

\* An ended binding counts no child.
ChildWaits == child.waiting /\ bound # "ended"

\* waits_through_stop: a Claude list keeps the child it names and one that acted since.
WaitsThrough(h) ==
  ChildWaits /\ (provider = "claude" => child.last > hook[h].at \/ hook[h].lists)

\* prepare_hold_scope and `prospective`: what the quiet checks are shown, or nothing.
Look(h) ==
  /\ hook[h].phase = "begun" /\ hook[h].kind = "stop"
  /\ LET prospective == /\ ~IsRepeat(h) /\ latest < hook[h].at
                        /\ \A e \in pool : e.at < hook[h].at
     IN hook' = [hook EXCEPT ![h].phase = IF bound = "current" THEN "looked" ELSE "checked",
                             ![h].look = IF bound = "current" /\ prospective THEN pool ELSE None]
  /\ UNCHANGED <<provider, clock, turn, bound, set, records>>

\* The checks run unless a child is known to wait; a Claude lead is held only with tasks.
Check(h) ==
  /\ hook[h].phase = "looked"
  /\ \E notes \in SUBSET Purpose :
       /\ "hold" \in notes => provider = "claude"
       /\ "quiet" \in notes => hook[h].look # None
       /\ set = "sound" /\ WaitsThrough(h) => notes = {}
       /\ hook' = [hook EXCEPT ![h].phase = "checked", ![h].notes = notes]
  /\ UNCHANGED <<provider, clock, turn, bound, set, records>>

\* Mutants: the decision forgets one of the two things it must look at again.
KeptWhileWaiting(h) == {n \in hook[h].notes : ~(n = "quiet" /\ hook[h].look # pool)}
KeptOverHistory(h) == {n \in hook[h].notes : set = "sound" /\ ~WaitsThrough(h)}

\* The notes that still hold under the locks.
Kept(h) ==
  {n \in hook[h].notes : /\ set = "sound" /\ ~WaitsThrough(h)
                         /\ n = "quiet" => hook[h].look = pool}

Superseded(h) == slot.at > hook[h].at \/ NewerSeen(hook[h].at) \/ bound = "ended"

\* What every hook that looked already has missed, once the pool changes.
Missing(h) ==
  [g \in Hooks |-> IF g = h THEN Done
                   ELSE IF hook[g].phase \in {"looked", "checked"}
                   THEN [hook[g] EXCEPT !.missed = @ \/ pool' # pool] ELSE hook[g]]

\* Mutant: an end is pooled beside the turn's earlier one.
PoolBeside(e) == pool \cup {e}

\* LifecycleSnapshot::reduce: the newest end of a turn replaces the turn's older ones.
PoolWith(e) ==
  LET same == {o \in pool : o.kind = e.kind /\ o.turn = e.turn /\ e.kind # "tool"}
  IN IF \E o \in same : e.kind = "prompt" \/ o.at >= e.at THEN pool ELSE (pool \ same) \cup {e}

Takes(h, word, notes) ==
  IF [word |-> slot.word, notes |-> slot.notes] = [word |-> word, notes |-> notes]
     \/ hook[h].at <= slot.at
  THEN slot ELSE [at |-> hook[h].at, word |-> word, notes |-> notes, by |-> IF word = "stop" THEN h ELSE None]

\* Mutant: the activity is built before the notes are looked at again.
BaseBeforeKept(h) == hook[h].notes

\* activity_base: the notes the activity carries.
Base(h) == Kept(h)

\* A Claude Stop ends a child it no longer lists, a Codex Stop every child before the
\* activity it leaves.
ChildAfterStop(h, activity) ==
  LET order == IF provider = "codex" THEN activity.at ELSE hook[h].at
      cleared == IF provider = "codex" /\ order > child.cleared THEN order ELSE child.cleared
  IN IF set = "unreadable" THEN child
     ELSE IF child.last <= order /\ ~hook[h].lists THEN NoChild(cleared)
     ELSE [child EXCEPT !.cleared = cleared]

\* apply_activity of the Stop.
Decide(h) ==
  /\ hook[h].phase = "checked"
  /\ IF bound = "away" \/ IsRepeat(h)
     THEN hook' = [hook EXCEPT ![h] = Done] /\ UNCHANGED records
     ELSE LET end == [by |-> h, recorded |-> ~Superseded(h), notes |-> Kept(h),
                      missed |-> hook[h].missed]
          IN /\ slot' = IF Superseded(h) THEN slot ELSE Takes(h, "stop", Base(h))
             /\ child' = IF Superseded(h) THEN child ELSE ChildAfterStop(h, slot')
             /\ pool' = PoolWith(Event("stop", h, end))
             /\ hook' = Missing(h)
             /\ UNCHANGED latest
  /\ UNCHANGED <<provider, clock, turn, bound, set>>

\* apply_activity of the lead's prompts and tools: a prompt of a turn whose prompt is pooled
\* goes into the prompt record alone, and a child that still waits keeps its question shown.
Work(h) ==
  /\ hook[h].phase = "begun" /\ hook[h].kind \in {"prompt", "tool"}
  /\ IF bound = "away" THEN hook' = [hook EXCEPT ![h] = Done] /\ UNCHANGED records
     ELSE LET kind == hook[h].kind
              asking == slot.word = "notify" /\ set = "sound" /\ ChildWaits /\ child.last >= slot.at
          IN /\ slot' = IF kind = "tool" /\ asking THEN slot ELSE Takes(h, "thinking", {})
             /\ pool' = PoolWith(Event(kind, h, NoEnd))
             /\ latest' = IF kind = "prompt" /\ hook[h].at > latest THEN hook[h].at ELSE latest
             /\ hook' = Missing(h)
             /\ UNCHANGED child
  /\ UNCHANGED <<provider, clock, turn, bound, set>>

\* A child's permission request: its notify, and the child that waits.
Ask(h) ==
  /\ hook[h].phase = "begun" /\ hook[h].kind = "ask"
  /\ hook' = [hook EXCEPT ![h] = Done]
  /\ IF bound = "away" THEN UNCHANGED records
     ELSE /\ slot' = Takes(h, "notify", {})
          /\ child' = IF /\ set = "sound" /\ bound = "current"
                         /\ hook[h].at > child.last /\ hook[h].at > child.cleared
                      THEN [child EXCEPT !.here = TRUE, !.waiting = TRUE, !.last = hook[h].at,
                                         !.under = slot.by]
                      ELSE child
          /\ UNCHANGED <<pool, latest>>
  /\ UNCHANGED <<provider, clock, turn, bound, set>>

HoldNext ==
  \/ \E h \in Hooks : HookBegins(h) \/ Look(h) \/ Check(h) \/ Decide(h) \/ Work(h) \/ Ask(h)
  \/ Unsettles \/ ChildStep

HoldSpec == HoldInit /\ [][HoldNext]_holdVars

-----------------------------------------------------------------------------
HoldTypeOK ==
  /\ slot.word \in {"thinking", "notify", "stop"} /\ slot.notes \subseteq Purpose
  /\ slot.notes # {} => slot.word = "stop"
  /\ child.waiting => child.here
  /\ \A e, o \in pool : e.kind = o.kind /\ e.turn = o.turn /\ e # o => e.kind = "tool"
  /\ \A e \in pool : e.kind = "stop" <=> e.end # NoEnd
  /\ \A h \in Hooks : hook[h].phase \in {"idle", "begun", "looked", "checked", "done"}

\* A held or quiet turn end never stands over a child that asked since the Stop, or whose
\* request was recorded before the Stop was.  A request made before the Stop and recorded
\* after it (child.under) comes too late to be shown, as over any newer activity.
NotesHideNoAsk ==
  slot.notes # {} /\ child.waiting => child.last < slot.at /\ slot.by = child.under

\* A turn end is quiet only when its checks were shown every event the pool held when the
\* end was decided.
QuietEnd(e) == e.kind = "stop" /\ e.end.recorded /\ "quiet" \in e.end.notes
QuietSawEveryEvent == \A e \in pool : QuietEnd(e) => ~e.end.missed

\* The tab and the turn's stored end say the same of a Stop's notes.
SlotTellsTheEnd ==
  \A e \in pool : e.kind = "stop" /\ slot.by = e.end.by => slot.notes = e.end.notes

\* What the tab shows of a decision: its notes are those the turn's end stored, and they
\* hide no child that asks.
NotesAreTrue == HoldTypeOK /\ NotesHideNoAsk /\ SlotTellsTheEnd

\* A turn's end stands, whatever the checks of a second delivery of it say, unless the lead
\* went on after it.
DecisionStands ==
  [][\A e \in pool : e.kind = "stop" /\ ~NewerSeen(e.at) => e \in pool']_holdVars
=============================================================================
