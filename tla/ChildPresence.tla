---------------------------- MODULE ChildPresence ----------------------------
(***************************************************************************)
(* The sub-agents of one binding that are running now: children.json, the  *)
(* hooks that change it, and the binding and end records it is read with.  *)
(*                                                                         *)
(* Every hook reads the monotonic clock when it begins and applies its     *)
(* event later, under the launch lock and then the claim lock, so one      *)
(* application is one step and hooks of different actors apply in any      *)
(* order.  The agent waits for a child's hook before the child goes on, so *)
(* one child has one hook at a time; the lead's starts and ends of a       *)
(* session are separate processes and overlap.  A hook may end without     *)
(* applying its event (refused, timed out on a lock, or killed).           *)
(*                                                                         *)
(* Event ids are the stamps of the records they name: a binding, an end or *)
(* a parent stop is only ever replaced by one with a later stamp.          *)
(***************************************************************************)
EXTENDS Naturals

CONSTANTS
  Children,  \* agent ids
  Leads,     \* hooks of the lead, each run once
  MaxClock,  \* bound: the monotonic clock
  None       \* no record, no entry, no hook

ASSUME ClockAssumption == MaxClock \in Nat

Stamp == 0..MaxClock
Entry == [obs : Stamp, status : {"running", "waiting"}]
End == [obs : Stamp, of : Stamp]
Cleared == [obs : Stamp, removed : SUBSET Children]
ASSUME NoneAssumption ==
  None \notin Nat /\ None \notin Entry /\ None \notin End /\ None \notin Cleared

VARIABLES
  lists,    \* the lead's stop lists the tasks in flight (Claude), or it is a
            \* parent stop that ends the children before it (Codex)
  clock,    \* CLOCK_MONOTONIC_RAW; hooks of two actors may read the same value
  binding,  \* the stamp of the binding event: its start, or its latest resume
  end,      \* end.json: its stamp and the binding event it names
  live,     \* children.json: the entry of each counted child
  cleared,  \* children.json: the latest parent stop and the children it removed
  ended,    \* children.json: the end this set last applied
  stopped,  \* the stamp of the lead's latest stop, whose activity may stand
  lead,     \* the hooks of the lead
  hook,     \* the hook each child waits for
  running,  \* which children the provider runs
  unheard   \* history: children whose stop was never applied

setVars == <<live, cleared, ended>>
vars == <<lists, clock, binding, end, setVars, stopped, lead, hook, running, unheard>>

TypeOK ==
  /\ lists \in BOOLEAN
  /\ clock \in Stamp
  /\ binding \in Stamp
  /\ end \in End \cup {None}
  /\ live \in [Children -> Entry \cup {None}]
  /\ cleared \in Cleared \cup {None}
  /\ ended \in Stamp \cup {None}
  /\ stopped \in Stamp
  /\ lead \in [Leads -> [kind : {"idle", "list", "end", "bind", "stop", "done"},
                         obs : Stamp, tasks : SUBSET Children]]
  /\ hook \in [Children -> [kind : {"none", "start", "tool", "permission", "stop"},
                            typed : BOOLEAN, obs : Stamp]]
  /\ running \in [Children -> BOOLEAN]
  /\ unheard \subseteq Children

Init ==
  /\ lists \in BOOLEAN
  /\ clock = 0
  /\ binding = 0
  /\ end = None
  /\ live = [c \in Children |-> None]
  /\ cleared = None
  /\ ended = None
  /\ stopped = 0
  /\ lead = [l \in Leads |-> [kind |-> "idle", obs |-> 0, tasks |-> {}]]
  /\ hook = [c \in Children |-> [kind |-> "none", typed |-> TRUE, obs |-> 0]]
  /\ running = [c \in Children |-> FALSE]
  /\ unheard = {}

Live == {c \in Children : live[c] # None}

(***************************************************************************)
(* The binding's end.                                                      *)
(***************************************************************************)

\* ends_binding: the end names the binding event, or was observed after it.
EndsBinding(e, b) == e # None /\ (e.of = b \/ e.obs >= b)

\* ChildPresenceSet::counted.  A set that has not applied the end was written
\* before it.
CountedBy(e, b) ==
  IF EndsBinding(e, b) \/ (e # None /\ ended # e.obs) THEN {} ELSE Live

Counted == CountedBy(end, binding)

\* The part of ChildPresenceSet::apply that comes first, whatever the event.
Outdated == end # None /\ ended # end.obs
LiveNow == IF Outdated THEN [c \in Children |-> None] ELSE live
ClearedNow == IF Outdated THEN None ELSE cleared
EndedNow == IF Outdated THEN end.obs ELSE ended

\* Mutant: only an end that still ends the binding refuses a child's event.
IgnoredWhileEnded(obs) == EndsBinding(end, binding)

\* ignored_by_end: the binding has ended, or the event is from before its end.
IgnoredByEnd(obs) ==
  EndsBinding(end, binding) \/ (EndedNow # None /\ obs <= EndedNow)

(***************************************************************************)
(* A child's event: it happens, its hook reads the clock, and later the    *)
(* hook applies it.                                                        *)
(***************************************************************************)

\* The clock never stands still between two hooks of one child.
Ticks(now, after) == now \in after..MaxClock /\ clock' = now /\ now <= clock + 1

ChildEvent(c, kind) ==
  /\ hook[c].kind = "none"
  /\ kind = "start" <=> ~ running[c]
  /\ \E now \in clock..(clock + 1), typed \in BOOLEAN :
       /\ Ticks(now, hook[c].obs + 1)
       /\ hook' = [hook EXCEPT ![c] = [kind |-> kind, typed |-> typed, obs |-> now]]
  /\ running' = [running EXCEPT ![c] = (kind # "stop")]
  /\ unheard' = IF kind = "start" THEN unheard \ {c} ELSE unheard
  /\ UNCHANGED <<binding, end, setVars, stopped, lead>>

\* A child whose process was killed: no hook of it says so.
ChildDies(c) ==
  /\ running[c]
  /\ hook[c].kind = "none"
  /\ running' = [running EXCEPT ![c] = FALSE]
  /\ unheard' = unheard \cup {c}
  /\ UNCHANGED <<clock, binding, end, setVars, stopped, lead, hook>>

HookEnds(c) == hook' = [hook EXCEPT ![c] = [kind |-> "none", typed |-> TRUE, obs |-> @.obs]]

\* advance: what a start, a tool call or a permission request leaves.
StatusAfter(entry, kind) ==
  CASE kind = "permission" -> "waiting"
    [] kind = "start" /\ entry # None -> entry.status
    [] OTHER -> "running"

\* Mutant: an event at the parent stop's own stamp is let through.
CoveredBefore(obs) == ClearedNow # None /\ obs < ClearedNow.obs

Covered(obs) == ClearedNow # None /\ obs <= ClearedNow.obs

Admits(c, h) == LiveNow[c] # None \/ h.kind = "start" \/ h.typed

AdvanceSet(c, h) ==
  IF \/ IgnoredByEnd(h.obs) \/ Covered(h.obs)
     \/ ~ Admits(c, h)
     \/ LiveNow[c] # None /\ h.obs <= LiveNow[c].obs
  THEN live' = LiveNow /\ cleared' = ClearedNow
  ELSE /\ live' = [LiveNow EXCEPT ![c] =
                     [obs |-> h.obs, status |-> StatusAfter(LiveNow[c], h.kind)]]
       /\ cleared' = IF ClearedNow = None THEN None
                     ELSE [ClearedNow EXCEPT !.removed = @ \ {c}]

ApplyChildEvent(c) ==
  /\ hook[c].kind \in {"start", "tool", "permission"}
  /\ AdvanceSet(c, hook[c])
  /\ ended' = EndedNow
  /\ HookEnds(c)
  /\ UNCHANGED <<clock, binding, end, stopped, lead, running, unheard>>

\* Mutant: a child that waits for permission is not ended by its stop.
StopSetIfRunning(c, h) ==
  live' = IF IgnoredByEnd(h.obs) \/ LiveNow[c] = None \/ h.obs <= LiveNow[c].obs
               \/ LiveNow[c].status = "waiting"
          THEN LiveNow ELSE [LiveNow EXCEPT ![c] = None]

StopSet(c, h) ==
  live' = IF IgnoredByEnd(h.obs) \/ LiveNow[c] = None \/ h.obs <= LiveNow[c].obs
          THEN LiveNow ELSE [LiveNow EXCEPT ![c] = None]

ApplyChildStop(c) ==
  /\ hook[c].kind = "stop"
  /\ StopSet(c, hook[c])
  /\ cleared' = ClearedNow
  /\ ended' = EndedNow
  /\ HookEnds(c)
  /\ UNCHANGED <<clock, binding, end, stopped, lead, running, unheard>>

\* A child's hook ends and its event is never applied.
LoseChildEvent(c) ==
  /\ hook[c].kind # "none"
  /\ HookEnds(c)
  /\ unheard' = IF hook[c].kind = "stop" THEN unheard \cup {c} ELSE unheard
  /\ UNCHANGED <<clock, binding, end, setVars, stopped, lead, running>>

(***************************************************************************)
(* The lead: its session ends, starts again (a resume or a compaction), or *)
(* its turn stops.                                                         *)
(***************************************************************************)

LeadGoes(l, from, to, now, tasks) ==
  /\ lead[l].kind = from
  /\ lead' = [lead EXCEPT ![l] = [kind |-> to, obs |-> now, tasks |-> tasks]]

\* The provider takes its list of tasks a little before the stop's hook begins.
TakeList(l) ==
  /\ lists
  /\ LeadGoes(l, "idle", "list", 0, {c \in Children : running[c]})
  /\ UNCHANGED <<clock, binding, end, setVars, stopped, hook, running, unheard>>

LeadEvent(l, kind) ==
  /\ \E now \in clock..(clock + 1) :
       /\ Ticks(now, 1)
       /\ LeadGoes(l, IF kind = "stop" /\ lists THEN "list" ELSE "idle", kind, now, lead[l].tasks)
  /\ UNCHANGED <<binding, end, setVars, stopped, hook, running, unheard>>

LeadDone(l, kind) == LeadGoes(l, kind, "done", 0, {})

\* apply_end: an older end than the binding or the end it has says nothing,
\* and an end that already ends the binding is not written again.
ApplyEnd(l) ==
  /\ LeadDone(l, "end")
  /\ IF lead[l].obs < binding \/ EndsBinding(end, binding) \/ (end # None /\ lead[l].obs <= end.obs)
     THEN UNCHANGED end
     ELSE end' = [obs |-> lead[l].obs, of |-> binding]
  /\ UNCHANGED <<clock, binding, setVars, stopped, hook, running, unheard>>

\* binding_mutation_for_session for the session the binding already names.
ApplyBind(l) ==
  /\ LeadDone(l, "bind")
  /\ binding' = IF lead[l].obs > binding THEN lead[l].obs ELSE binding
  /\ UNCHANGED <<clock, end, setVars, stopped, hook, running, unheard>>

\* A turn end is superseded once the binding has ended (apply_activity), as it
\* is by newer activity; the hook then ends as in LoseLeadEvent.
StopStands(l) == LeadDone(l, "stop") /\ ~ EndsBinding(end, binding)

\* Mutant: the list decides alone.
KeptIfListed(c, obs, tasks) == LiveNow[c] # None /\ c \in tasks

\* kept_through_stop, and reconcile.
KeptThroughStop(c, obs, tasks) ==
  LiveNow[c] # None /\ (LiveNow[c].obs > obs \/ c \in tasks)

ApplyListedStop(l) ==
  /\ lists
  /\ StopStands(l)
  /\ live' = [c \in Children |->
                IF KeptThroughStop(c, lead[l].obs, lead[l].tasks) THEN LiveNow[c] ELSE None]
  /\ cleared' = ClearedNow
  /\ ended' = EndedNow
  /\ UNCHANGED <<clock, binding, end, stopped, hook, running, unheard>>

\* clear_for_parent, at the stamp of the activity the stop leaves standing: its
\* own, or that of the stop it repeats; it repeats none that is newer.
ClearForParent(cutoff) ==
  IF ClearedNow # None /\ ClearedNow.obs >= cutoff
  THEN live' = LiveNow /\ cleared' = ClearedNow
  ELSE LET removed == {c \in Children : LiveNow[c] # None /\ LiveNow[c].obs <= cutoff}
       IN /\ live' = [c \in Children |-> IF c \in removed THEN None ELSE LiveNow[c]]
          /\ cleared' = [obs |-> cutoff, removed |-> removed]

ApplyParentStop(l) ==
  /\ ~ lists
  /\ StopStands(l)
  /\ lead[l].obs >= stopped
  /\ stopped' \in {stopped, lead[l].obs} \ {0}
  /\ ClearForParent(stopped')
  /\ ended' = EndedNow
  /\ UNCHANGED <<clock, binding, end, hook, running, unheard>>

LoseLeadEvent(l) ==
  /\ \E kind \in {"list", "end", "bind", "stop"} : LeadDone(l, kind)
  /\ UNCHANGED <<clock, binding, end, setVars, stopped, hook, running, unheard>>

Step ==
  \/ \E c \in Children :
       \/ \E kind \in {"start", "tool", "permission", "stop"} : ChildEvent(c, kind)
       \/ ChildDies(c) \/ ApplyChildEvent(c) \/ ApplyChildStop(c) \/ LoseChildEvent(c)
  \/ \E l \in Leads :
       \/ TakeList(l)
       \/ \E kind \in {"end", "bind", "stop"} : LeadEvent(l, kind)
       \/ ApplyEnd(l) \/ ApplyBind(l) \/ ApplyListedStop(l) \/ ApplyParentStop(l)
       \/ LoseLeadEvent(l)

\* A binding has one provider for as long as it lasts.
Next == Step /\ UNCHANGED lists

Spec == Init /\ [][Next]_vars

-----------------------------------------------------------------------------
(***************************************************************************)
(* Properties.                                                             *)
(***************************************************************************)

\* No child is counted on the strength of an event from before the binding's
\* last end, however late its hook applies it or the set applies that end.
CountedAfterEnd == end # None => \A c \in Counted : live[c].obs > end.obs

\* No child is held at once as live and as removed by the parent's stop, and
\* none is held live by an event that stop covers.
ClearCovers ==
  cleared # None => \A c \in Live : live[c].obs > cleared.obs /\ c \notin cleared.removed

\* A counted child runs, or its stop is still on its way or was never heard:
\* a child whose stop was applied is never counted again by an event of its
\* own from before it.
OnlyRunningCounted ==
  \A c \in Counted : running[c] \/ hook[c].kind = "stop" \/ c \in unheard

\* A child never leaves the set while it runs, except with the binding's end or
\* by a lead stop no earlier than its last event; and a lead stop that lists
\* its tasks keeps every one of them.
LeavesOnEvidence ==
  [][\A c \in Children :
       live[c] # None /\ live'[c] = None /\ ended' = ended =>
         \/ hook[c].kind = "stop"
         \/ \E l \in Leads :
              /\ lead[l].kind = "stop" /\ lead'[l].kind = "done"
              /\ lead[l].obs >= live[c].obs
              /\ lists => c \notin lead[l].tasks]_vars

\* A late event never undoes a later one: neither a child's entry nor the
\* parent's stop goes back in time until an end closes the lifetime.
NeverBackwards ==
  [][ended' = ended =>
       /\ \A c \in Children :
            live[c] # None /\ live'[c] # None => live'[c].obs >= live[c].obs
       /\ cleared # None => cleared' # None /\ cleared'.obs >= cleared.obs]_vars
=============================================================================
