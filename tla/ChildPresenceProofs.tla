------------------------ MODULE ChildPresenceProofs ------------------------
(***************************************************************************)
(* ChildPresence's properties, for any set of children and of lead hooks:  *)
(* an inductive invariant and what follows from it; and the answer of a    *)
(* reader that takes no lock, ChildReader's.                               *)
(***************************************************************************)
EXTENDS ChildReader, TLAPS

\* A child's entry is older than the hook it waits for.
HookIsLater == \A c \in Live :
  /\ live[c].obs <= hook[c].obs
  /\ hook[c].kind # "none" => live[c].obs < hook[c].obs

\* A child with a hook that shows it working runs.
WorkerRuns == \A c \in Children : hook[c].kind \in {"start", "tool", "permission"} => running[c]

\* A child held live runs, stops, or was not heard to stop.
LiveRuns == \A c \in Live : running[c] \/ hook[c].kind = "stop" \/ c \in unheard

\* The end a set has applied is the binding's, or an earlier one.
EndKnown ==
  /\ ended # None => end # None /\ ended <= end.obs
  /\ end # None => end.of <= binding

\* What the set holds is from after the end it applied, and that end was
\* followed by a new start of the binding.
LiveAfterEnd == \A c \in Live :
  /\ ended # None => live[c].obs > ended
  /\ end # None /\ ended = end.obs => ~ EndsBinding(end, binding)

IInv ==
  /\ TypeOK
  /\ HookIsLater
  /\ WorkerRuns
  /\ LiveRuns
  /\ EndKnown
  /\ LiveAfterEnd
  /\ ClearCovers

\* Every step keeps the types.
LEMMA TypeStep ==
  ASSUME TypeOK, [Next]_vars
  PROVE  TypeOK'
<1> USE NoneAssumption, ClockAssumption DEF TypeOK, Stamp, Entry, End, Cleared
<1>0. lists' = lists
  BY DEF Next, vars
<1> USE <1>0
<1>1. CASE UNCHANGED vars
  BY <1>1 DEF vars, setVars
<1>2. ASSUME NEW c \in Children, NEW kind \in {"start", "tool", "permission", "stop"}, ChildEvent(c, kind)
      PROVE  TypeOK'
  BY <1>2 DEF ChildEvent, Ticks, setVars, StatusAfter
<1>3. ASSUME NEW c \in Children, ChildDies(c)
      PROVE  TypeOK'
  BY <1>3 DEF ChildDies, setVars, StatusAfter
<1>4. ASSUME NEW c \in Children, ApplyChildEvent(c)
      PROVE  TypeOK'
  <2>1. LiveNow \in [Children -> Entry \cup {None}] /\ ClearedNow \in Cleared \cup {None} /\ EndedNow \in Stamp \cup {None}
    BY DEF LiveNow, ClearedNow, EndedNow, Outdated
  <2>2. \A kind : LiveNow[c] # None => StatusAfter(LiveNow[c], kind) \in {"running", "waiting"}
    BY <2>1 DEF StatusAfter
  <2>3. \A kind : LiveNow[c] = None => StatusAfter(LiveNow[c], kind) \in {"running", "waiting"}
    BY DEF StatusAfter
  <2>4. [obs |-> hook[c].obs, status |-> StatusAfter(LiveNow[c], hook[c].kind)] \in Entry
    BY <2>2, <2>3
  <2>5. live' \in [Children -> Entry \cup {None}]
    BY <2>1, <2>4, <1>4 DEF ApplyChildEvent, AdvanceSet
  <2>6. cleared' \in Cleared \cup {None}
    <3>1. CASE cleared' = ClearedNow
      BY <3>1, <2>1
    <3>2. CASE ClearedNow # None /\ cleared' = [ClearedNow EXCEPT !.removed = @ \ {c}]
      BY <3>2, <2>1
    <3> QED
      BY <3>1, <3>2, <1>4 DEF ApplyChildEvent, AdvanceSet
  <2>7. hook' = [hook EXCEPT ![c] = [kind |-> "none", typed |-> TRUE, obs |-> hook[c].obs]] /\ ended' = EndedNow
        /\ UNCHANGED <<clock, binding, end, stopped, lead, running, unheard>>
    BY <1>4 DEF ApplyChildEvent, HookEnds
  <2> QED
    BY <2>1, <2>5, <2>6, <2>7
<1>5. ASSUME NEW c \in Children, ApplyChildStop(c)
      PROVE  TypeOK'
  BY <1>5 DEF ApplyChildStop, StopSet, HookEnds, setVars, LiveNow, ClearedNow, EndedNow, Outdated, StatusAfter
<1>6. ASSUME NEW c \in Children, LoseChildEvent(c)
      PROVE  TypeOK'
  BY <1>6 DEF LoseChildEvent, HookEnds, setVars, StatusAfter
<1>7. ASSUME NEW l \in Leads, TakeList(l)
      PROVE  TypeOK'
  BY <1>7 DEF TakeList, LeadGoes, setVars, StatusAfter
<1>8. ASSUME NEW l \in Leads, NEW kind \in {"end", "bind", "stop"}, LeadEvent(l, kind)
      PROVE  TypeOK'
  BY <1>8 DEF LeadEvent, Ticks, LeadGoes, setVars, StatusAfter
<1>9. ASSUME NEW l \in Leads, ApplyEnd(l)
      PROVE  TypeOK'
  BY <1>9 DEF ApplyEnd, LeadDone, LeadGoes, setVars, StatusAfter
<1>10. ASSUME NEW l \in Leads, ApplyBind(l)
      PROVE  TypeOK'
  BY <1>10 DEF ApplyBind, LeadDone, LeadGoes, setVars, StatusAfter
<1>11. ASSUME NEW l \in Leads, ApplyListedStop(l)
      PROVE  TypeOK'
  BY <1>11 DEF ApplyListedStop, StopStands, LeadDone, LeadGoes, KeptThroughStop, setVars, LiveNow, ClearedNow, EndedNow, Outdated, StatusAfter
<1>12. ASSUME NEW l \in Leads, ApplyParentStop(l)
      PROVE  TypeOK'
  BY <1>12 DEF ApplyParentStop, StopStands, LeadDone, LeadGoes, ClearForParent, setVars, LiveNow, ClearedNow, EndedNow, Outdated, StatusAfter
<1>13. ASSUME NEW l \in Leads, LoseLeadEvent(l)
      PROVE  TypeOK'
  BY <1>13 DEF LoseLeadEvent, LeadDone, LeadGoes, setVars, StatusAfter
<1> QED
  BY <1>1, <1>2, <1>3, <1>4, <1>5, <1>6, <1>7, <1>8, <1>9, <1>10, <1>11, <1>12, <1>13 DEF Next, Step

\* One child's events come in the order its agent makes them.
LEMMA HookIsLaterStep ==
  ASSUME TypeOK, HookIsLater, [Next]_vars
  PROVE  HookIsLater'
<1> USE NoneAssumption, ClockAssumption DEF TypeOK, Stamp, Entry, End, Cleared, HookIsLater, Live
<1>1. CASE UNCHANGED vars
  BY <1>1 DEF vars, setVars
<1>2. ASSUME NEW c \in Children, NEW kind \in {"start", "tool", "permission", "stop"}, ChildEvent(c, kind)
      PROVE  HookIsLater'
  BY <1>2 DEF ChildEvent, Ticks, setVars
<1>3. ASSUME NEW c \in Children, ChildDies(c)
      PROVE  HookIsLater'
  BY <1>3 DEF ChildDies, setVars
<1>4. ASSUME NEW c \in Children, ApplyChildEvent(c)
      PROVE  HookIsLater'
  BY <1>4 DEF ApplyChildEvent, AdvanceSet, HookEnds, setVars, LiveNow, ClearedNow, EndedNow, Outdated
<1>5. ASSUME NEW c \in Children, ApplyChildStop(c)
      PROVE  HookIsLater'
  BY <1>5 DEF ApplyChildStop, StopSet, HookEnds, setVars, LiveNow, ClearedNow, EndedNow, Outdated
<1>6. ASSUME NEW c \in Children, LoseChildEvent(c)
      PROVE  HookIsLater'
  BY <1>6 DEF LoseChildEvent, HookEnds, setVars
<1>7. ASSUME NEW l \in Leads, TakeList(l)
      PROVE  HookIsLater'
  BY <1>7 DEF TakeList, LeadGoes, setVars
<1>8. ASSUME NEW l \in Leads, NEW kind \in {"end", "bind", "stop"}, LeadEvent(l, kind)
      PROVE  HookIsLater'
  BY <1>8 DEF LeadEvent, Ticks, LeadGoes, setVars
<1>9. ASSUME NEW l \in Leads, ApplyEnd(l)
      PROVE  HookIsLater'
  BY <1>9 DEF ApplyEnd, LeadDone, LeadGoes, setVars
<1>10. ASSUME NEW l \in Leads, ApplyBind(l)
      PROVE  HookIsLater'
  BY <1>10 DEF ApplyBind, LeadDone, LeadGoes, setVars
<1>11. ASSUME NEW l \in Leads, ApplyListedStop(l)
      PROVE  HookIsLater'
  BY <1>11 DEF ApplyListedStop, StopStands, LeadDone, LeadGoes, KeptThroughStop, setVars, LiveNow, ClearedNow, EndedNow, Outdated
<1>12. ASSUME NEW l \in Leads, ApplyParentStop(l)
      PROVE  HookIsLater'
  BY <1>12 DEF ApplyParentStop, StopStands, LeadDone, LeadGoes, ClearForParent, setVars, LiveNow, ClearedNow, EndedNow, Outdated
<1>13. ASSUME NEW l \in Leads, LoseLeadEvent(l)
      PROVE  HookIsLater'
  BY <1>13 DEF LoseLeadEvent, LeadDone, LeadGoes, setVars
<1> QED
  BY <1>1, <1>2, <1>3, <1>4, <1>5, <1>6, <1>7, <1>8, <1>9, <1>10, <1>11, <1>12, <1>13 DEF Next, Step

\* A child works only while it runs.
LEMMA WorkerRunsStep ==
  ASSUME TypeOK, WorkerRuns, [Next]_vars
  PROVE  WorkerRuns'
<1> USE NoneAssumption, ClockAssumption DEF TypeOK, Stamp, Entry, End, Cleared, WorkerRuns
<1>1. CASE UNCHANGED vars
  BY <1>1 DEF vars, setVars
<1>2. ASSUME NEW c \in Children, NEW kind \in {"start", "tool", "permission", "stop"}, ChildEvent(c, kind)
      PROVE  WorkerRuns'
  <2>1. /\ running' = [running EXCEPT ![c] = (kind # "stop")] /\ running \in [Children -> BOOLEAN]
        /\ \E now, typed : hook' = [hook EXCEPT ![c] = [kind |-> kind, typed |-> typed, obs |-> now]]
    BY <1>2 DEF ChildEvent
  <2>2. running'[c] = (kind # "stop") /\ hook'[c].kind = kind
    BY <2>1
  <2>3. \A d \in Children : d # c => running'[d] = running[d] /\ hook'[d] = hook[d]
    BY <2>1
  <2>4. hook'[c].kind \in {"start", "tool", "permission"} => running'[c]
    BY <2>2
  <2> QED
    BY <2>3, <2>4
<1>3. ASSUME NEW c \in Children, ChildDies(c)
      PROVE  WorkerRuns'
  BY <1>3 DEF ChildDies, setVars
<1>4. ASSUME NEW c \in Children, ApplyChildEvent(c)
      PROVE  WorkerRuns'
  BY <1>4 DEF ApplyChildEvent, AdvanceSet, HookEnds, setVars, LiveNow, ClearedNow, EndedNow, Outdated
<1>5. ASSUME NEW c \in Children, ApplyChildStop(c)
      PROVE  WorkerRuns'
  BY <1>5 DEF ApplyChildStop, StopSet, HookEnds, setVars, LiveNow, ClearedNow, EndedNow, Outdated
<1>6. ASSUME NEW c \in Children, LoseChildEvent(c)
      PROVE  WorkerRuns'
  BY <1>6 DEF LoseChildEvent, HookEnds, setVars
<1>7. ASSUME NEW l \in Leads, TakeList(l)
      PROVE  WorkerRuns'
  BY <1>7 DEF TakeList, LeadGoes, setVars
<1>8. ASSUME NEW l \in Leads, NEW kind \in {"end", "bind", "stop"}, LeadEvent(l, kind)
      PROVE  WorkerRuns'
  BY <1>8 DEF LeadEvent, Ticks, LeadGoes, setVars
<1>9. ASSUME NEW l \in Leads, ApplyEnd(l)
      PROVE  WorkerRuns'
  BY <1>9 DEF ApplyEnd, LeadDone, LeadGoes, setVars
<1>10. ASSUME NEW l \in Leads, ApplyBind(l)
      PROVE  WorkerRuns'
  BY <1>10 DEF ApplyBind, LeadDone, LeadGoes, setVars
<1>11. ASSUME NEW l \in Leads, ApplyListedStop(l)
      PROVE  WorkerRuns'
  BY <1>11 DEF ApplyListedStop, StopStands, LeadDone, LeadGoes, KeptThroughStop, setVars, LiveNow, ClearedNow, EndedNow, Outdated
<1>12. ASSUME NEW l \in Leads, ApplyParentStop(l)
      PROVE  WorkerRuns'
  BY <1>12 DEF ApplyParentStop, StopStands, LeadDone, LeadGoes, ClearForParent, setVars, LiveNow, ClearedNow, EndedNow, Outdated
<1>13. ASSUME NEW l \in Leads, LoseLeadEvent(l)
      PROVE  WorkerRuns'
  BY <1>13 DEF LoseLeadEvent, LeadDone, LeadGoes, setVars
<1> QED
  BY <1>1, <1>2, <1>3, <1>4, <1>5, <1>6, <1>7, <1>8, <1>9, <1>10, <1>11, <1>12, <1>13 DEF Next, Step

\* Ends only follow one another.
LEMMA EndKnownStep ==
  ASSUME TypeOK, EndKnown, [Next]_vars
  PROVE  EndKnown'
<1> USE NoneAssumption, ClockAssumption DEF TypeOK, Stamp, Entry, End, Cleared, EndKnown, EndsBinding
<1>1. CASE UNCHANGED vars
  BY <1>1 DEF vars, setVars
<1>2. ASSUME NEW c \in Children, NEW kind \in {"start", "tool", "permission", "stop"}, ChildEvent(c, kind)
      PROVE  EndKnown'
  BY <1>2 DEF ChildEvent, Ticks, setVars
<1>3. ASSUME NEW c \in Children, ChildDies(c)
      PROVE  EndKnown'
  BY <1>3 DEF ChildDies, setVars
<1>4. ASSUME NEW c \in Children, ApplyChildEvent(c)
      PROVE  EndKnown'
  BY <1>4 DEF ApplyChildEvent, AdvanceSet, HookEnds, setVars, LiveNow, ClearedNow, EndedNow, Outdated
<1>5. ASSUME NEW c \in Children, ApplyChildStop(c)
      PROVE  EndKnown'
  BY <1>5 DEF ApplyChildStop, StopSet, HookEnds, setVars, LiveNow, ClearedNow, EndedNow, Outdated
<1>6. ASSUME NEW c \in Children, LoseChildEvent(c)
      PROVE  EndKnown'
  BY <1>6 DEF LoseChildEvent, HookEnds, setVars
<1>7. ASSUME NEW l \in Leads, TakeList(l)
      PROVE  EndKnown'
  BY <1>7 DEF TakeList, LeadGoes, setVars
<1>8. ASSUME NEW l \in Leads, NEW kind \in {"end", "bind", "stop"}, LeadEvent(l, kind)
      PROVE  EndKnown'
  BY <1>8 DEF LeadEvent, Ticks, LeadGoes, setVars
<1>9. ASSUME NEW l \in Leads, ApplyEnd(l)
      PROVE  EndKnown'
  <2>1. UNCHANGED <<binding, ended>>
    BY <1>9 DEF ApplyEnd, setVars
  <2>2. CASE UNCHANGED end
    BY <2>1, <2>2
  <2>3. CASE end' = [obs |-> lead[l].obs, of |-> binding] /\ ~ (end # None /\ lead[l].obs <= end.obs)
    <3>1. end' # None /\ end'.obs = lead[l].obs /\ end'.of = binding
      BY <2>3
    <3>2. end # None => end.obs < end'.obs
      BY <2>3, <3>1
    <3> QED
      BY <2>1, <3>1, <3>2
  <2> QED
    BY <2>2, <2>3, <1>9 DEF ApplyEnd
<1>10. ASSUME NEW l \in Leads, ApplyBind(l)
      PROVE  EndKnown'
  BY <1>10 DEF ApplyBind, LeadDone, LeadGoes, setVars
<1>11. ASSUME NEW l \in Leads, ApplyListedStop(l)
      PROVE  EndKnown'
  BY <1>11 DEF ApplyListedStop, StopStands, LeadDone, LeadGoes, KeptThroughStop, setVars, LiveNow, ClearedNow, EndedNow, Outdated
<1>12. ASSUME NEW l \in Leads, ApplyParentStop(l)
      PROVE  EndKnown'
  BY <1>12 DEF ApplyParentStop, StopStands, LeadDone, LeadGoes, ClearForParent, setVars, LiveNow, ClearedNow, EndedNow, Outdated
<1>13. ASSUME NEW l \in Leads, LoseLeadEvent(l)
      PROVE  EndKnown'
  BY <1>13 DEF LoseLeadEvent, LeadDone, LeadGoes, setVars
<1> QED
  BY <1>1, <1>2, <1>3, <1>4, <1>5, <1>6, <1>7, <1>8, <1>9, <1>10, <1>11, <1>12, <1>13 DEF Next, Step

\* The end is applied before anything else.
LEMMA LiveAfterEndStep ==
  ASSUME TypeOK, EndKnown, LiveAfterEnd, [Next]_vars
  PROVE  LiveAfterEnd'
<1> USE NoneAssumption, ClockAssumption DEF TypeOK, Stamp, Entry, End, Cleared, EndKnown, LiveAfterEnd, Live, EndsBinding, IgnoredByEnd
<1>1. CASE UNCHANGED vars
  BY <1>1 DEF vars, setVars
<1>2. ASSUME NEW c \in Children, NEW kind \in {"start", "tool", "permission", "stop"}, ChildEvent(c, kind)
      PROVE  LiveAfterEnd'
  BY <1>2 DEF ChildEvent, Ticks, setVars
<1>3. ASSUME NEW c \in Children, ChildDies(c)
      PROVE  LiveAfterEnd'
  BY <1>3 DEF ChildDies, setVars
<1>4. ASSUME NEW c \in Children, ApplyChildEvent(c)
      PROVE  LiveAfterEnd'
  BY <1>4 DEF ApplyChildEvent, AdvanceSet, HookEnds, setVars, LiveNow, ClearedNow, EndedNow, Outdated
<1>5. ASSUME NEW c \in Children, ApplyChildStop(c)
      PROVE  LiveAfterEnd'
  BY <1>5 DEF ApplyChildStop, StopSet, HookEnds, setVars, LiveNow, ClearedNow, EndedNow, Outdated
<1>6. ASSUME NEW c \in Children, LoseChildEvent(c)
      PROVE  LiveAfterEnd'
  BY <1>6 DEF LoseChildEvent, HookEnds, setVars
<1>7. ASSUME NEW l \in Leads, TakeList(l)
      PROVE  LiveAfterEnd'
  BY <1>7 DEF TakeList, LeadGoes, setVars
<1>8. ASSUME NEW l \in Leads, NEW kind \in {"end", "bind", "stop"}, LeadEvent(l, kind)
      PROVE  LiveAfterEnd'
  BY <1>8 DEF LeadEvent, Ticks, LeadGoes, setVars
<1>9. ASSUME NEW l \in Leads, ApplyEnd(l)
      PROVE  LiveAfterEnd'
  BY <1>9 DEF ApplyEnd, LeadDone, LeadGoes, setVars
<1>10. ASSUME NEW l \in Leads, ApplyBind(l)
      PROVE  LiveAfterEnd'
  BY <1>10 DEF ApplyBind, LeadDone, LeadGoes, setVars
<1>11. ASSUME NEW l \in Leads, ApplyListedStop(l)
      PROVE  LiveAfterEnd'
  BY <1>11 DEF ApplyListedStop, StopStands, LeadDone, LeadGoes, KeptThroughStop, setVars, LiveNow, ClearedNow, EndedNow, Outdated
<1>12. ASSUME NEW l \in Leads, ApplyParentStop(l)
      PROVE  LiveAfterEnd'
  BY <1>12 DEF ApplyParentStop, StopStands, LeadDone, LeadGoes, ClearForParent, setVars, LiveNow, ClearedNow, EndedNow, Outdated
<1>13. ASSUME NEW l \in Leads, LoseLeadEvent(l)
      PROVE  LiveAfterEnd'
  BY <1>13 DEF LoseLeadEvent, LeadDone, LeadGoes, setVars
<1> QED
  BY <1>1, <1>2, <1>3, <1>4, <1>5, <1>6, <1>7, <1>8, <1>9, <1>10, <1>11, <1>12, <1>13 DEF Next, Step

\* A stop always removes its child.
LEMMA LiveRunsStep ==
  ASSUME TypeOK, HookIsLater, WorkerRuns, EndKnown, LiveAfterEnd, LiveRuns, [Next]_vars
  PROVE  LiveRuns'
<1> USE NoneAssumption, ClockAssumption DEF TypeOK, Stamp, Entry, End, Cleared, HookIsLater, WorkerRuns, EndKnown, LiveAfterEnd, LiveRuns, Live, EndsBinding, IgnoredByEnd
<1>1. CASE UNCHANGED vars
  BY <1>1 DEF vars, setVars
<1>2. ASSUME NEW c \in Children, NEW kind \in {"start", "tool", "permission", "stop"}, ChildEvent(c, kind)
      PROVE  LiveRuns'
  <2>1. /\ running' = [running EXCEPT ![c] = (kind # "stop")] /\ running \in [Children -> BOOLEAN]
        /\ \E now, typed : hook' = [hook EXCEPT ![c] = [kind |-> kind, typed |-> typed, obs |-> now]]
    BY <1>2 DEF ChildEvent
  <2>2. running'[c] = (kind # "stop") /\ hook'[c].kind = kind
    BY <2>1
  <2>3. \A d \in Children : d # c => running'[d] = running[d] /\ hook'[d] = hook[d]
    BY <2>1
  <2>4. hook[c].kind = "none" /\ live' = live /\ (kind = "start" <=> ~ running[c])
        /\ unheard' = IF kind = "start" THEN unheard \ {c} ELSE unheard
    BY <1>2 DEF ChildEvent, setVars
  <2>5. c \in Live' => running'[c] \/ hook'[c].kind = "stop"
    BY <2>2
  <2>6. \A d \in Live' : d # c => running'[d] \/ hook'[d].kind = "stop" \/ d \in unheard'
    BY <2>3, <2>4
  <2> QED
    BY <2>5, <2>6
<1>3. ASSUME NEW c \in Children, ChildDies(c)
      PROVE  LiveRuns'
  BY <1>3 DEF ChildDies, setVars
<1>4. ASSUME NEW c \in Children, ApplyChildEvent(c)
      PROVE  LiveRuns'
  BY <1>4 DEF ApplyChildEvent, AdvanceSet, HookEnds, setVars, LiveNow, ClearedNow, EndedNow, Outdated
<1>5. ASSUME NEW c \in Children, ApplyChildStop(c)
      PROVE  LiveRuns'
  BY <1>5 DEF ApplyChildStop, StopSet, HookEnds, setVars, LiveNow, ClearedNow, EndedNow, Outdated
<1>6. ASSUME NEW c \in Children, LoseChildEvent(c)
      PROVE  LiveRuns'
  BY <1>6 DEF LoseChildEvent, HookEnds, setVars
<1>7. ASSUME NEW l \in Leads, TakeList(l)
      PROVE  LiveRuns'
  BY <1>7 DEF TakeList, LeadGoes, setVars
<1>8. ASSUME NEW l \in Leads, NEW kind \in {"end", "bind", "stop"}, LeadEvent(l, kind)
      PROVE  LiveRuns'
  BY <1>8 DEF LeadEvent, Ticks, LeadGoes, setVars
<1>9. ASSUME NEW l \in Leads, ApplyEnd(l)
      PROVE  LiveRuns'
  BY <1>9 DEF ApplyEnd, LeadDone, LeadGoes, setVars
<1>10. ASSUME NEW l \in Leads, ApplyBind(l)
      PROVE  LiveRuns'
  BY <1>10 DEF ApplyBind, LeadDone, LeadGoes, setVars
<1>11. ASSUME NEW l \in Leads, ApplyListedStop(l)
      PROVE  LiveRuns'
  BY <1>11 DEF ApplyListedStop, StopStands, LeadDone, LeadGoes, KeptThroughStop, setVars, LiveNow, ClearedNow, EndedNow, Outdated
<1>12. ASSUME NEW l \in Leads, ApplyParentStop(l)
      PROVE  LiveRuns'
  BY <1>12 DEF ApplyParentStop, StopStands, LeadDone, LeadGoes, ClearForParent, setVars, LiveNow, ClearedNow, EndedNow, Outdated
<1>13. ASSUME NEW l \in Leads, LoseLeadEvent(l)
      PROVE  LiveRuns'
  BY <1>13 DEF LoseLeadEvent, LeadDone, LeadGoes, setVars
<1> QED
  BY <1>1, <1>2, <1>3, <1>4, <1>5, <1>6, <1>7, <1>8, <1>9, <1>10, <1>11, <1>12, <1>13 DEF Next, Step

\* A parent stop's removals and the live children stay apart.
LEMMA ClearCoversStep ==
  ASSUME TypeOK, ClearCovers, [Next]_vars
  PROVE  ClearCovers'
<1> USE NoneAssumption, ClockAssumption DEF TypeOK, Stamp, Entry, End, Cleared, ClearCovers, Live, Covered
<1>1. CASE UNCHANGED vars
  BY <1>1 DEF vars, setVars
<1>2. ASSUME NEW c \in Children, NEW kind \in {"start", "tool", "permission", "stop"}, ChildEvent(c, kind)
      PROVE  ClearCovers'
  BY <1>2 DEF ChildEvent, Ticks, setVars
<1>3. ASSUME NEW c \in Children, ChildDies(c)
      PROVE  ClearCovers'
  BY <1>3 DEF ChildDies, setVars
<1>4. ASSUME NEW c \in Children, ApplyChildEvent(c)
      PROVE  ClearCovers'
  BY <1>4 DEF ApplyChildEvent, AdvanceSet, HookEnds, setVars, LiveNow, ClearedNow, EndedNow, Outdated
<1>5. ASSUME NEW c \in Children, ApplyChildStop(c)
      PROVE  ClearCovers'
  BY <1>5 DEF ApplyChildStop, StopSet, HookEnds, setVars, LiveNow, ClearedNow, EndedNow, Outdated
<1>6. ASSUME NEW c \in Children, LoseChildEvent(c)
      PROVE  ClearCovers'
  BY <1>6 DEF LoseChildEvent, HookEnds, setVars
<1>7. ASSUME NEW l \in Leads, TakeList(l)
      PROVE  ClearCovers'
  BY <1>7 DEF TakeList, LeadGoes, setVars
<1>8. ASSUME NEW l \in Leads, NEW kind \in {"end", "bind", "stop"}, LeadEvent(l, kind)
      PROVE  ClearCovers'
  BY <1>8 DEF LeadEvent, Ticks, LeadGoes, setVars
<1>9. ASSUME NEW l \in Leads, ApplyEnd(l)
      PROVE  ClearCovers'
  BY <1>9 DEF ApplyEnd, LeadDone, LeadGoes, setVars
<1>10. ASSUME NEW l \in Leads, ApplyBind(l)
      PROVE  ClearCovers'
  BY <1>10 DEF ApplyBind, LeadDone, LeadGoes, setVars
<1>11. ASSUME NEW l \in Leads, ApplyListedStop(l)
      PROVE  ClearCovers'
  BY <1>11 DEF ApplyListedStop, StopStands, LeadDone, LeadGoes, KeptThroughStop, setVars, LiveNow, ClearedNow, EndedNow, Outdated
<1>12. ASSUME NEW l \in Leads, ApplyParentStop(l)
      PROVE  ClearCovers'
  BY <1>12 DEF ApplyParentStop, StopStands, LeadDone, LeadGoes, ClearForParent, setVars, LiveNow, ClearedNow, EndedNow, Outdated
<1>13. ASSUME NEW l \in Leads, LoseLeadEvent(l)
      PROVE  ClearCovers'
  BY <1>13 DEF LoseLeadEvent, LeadDone, LeadGoes, setVars
<1> QED
  BY <1>1, <1>2, <1>3, <1>4, <1>5, <1>6, <1>7, <1>8, <1>9, <1>10, <1>11, <1>12, <1>13 DEF Next, Step

\* A step that stays in one lifetime takes no entry and no parent stop back.
GoesForward ==
  ended' = ended =>
    /\ \A c \in Children :
         live[c] # None /\ live'[c] # None => live'[c].obs >= live[c].obs
    /\ cleared # None => cleared' # None /\ cleared'.obs >= cleared.obs

\* Every step goes forward.
LEMMA ForwardStep ==
  ASSUME TypeOK, [Next]_vars
  PROVE  GoesForward
<1> USE NoneAssumption, ClockAssumption DEF TypeOK, Stamp, Entry, End, Cleared, GoesForward
<1>1. CASE UNCHANGED vars
  BY <1>1 DEF vars, setVars
<1>2. ASSUME NEW c \in Children, NEW kind \in {"start", "tool", "permission", "stop"}, ChildEvent(c, kind)
      PROVE  GoesForward
  BY <1>2 DEF ChildEvent, Ticks, setVars
<1>3. ASSUME NEW c \in Children, ChildDies(c)
      PROVE  GoesForward
  BY <1>3 DEF ChildDies, setVars
<1>4. ASSUME NEW c \in Children, ApplyChildEvent(c)
      PROVE  GoesForward
  <2> SUFFICES ASSUME ended' = ended
               PROVE  GoesForward
    BY DEF GoesForward
  <2>1. EndedNow = ended
    BY <1>4 DEF ApplyChildEvent
  <2>2. LiveNow = live /\ ClearedNow = cleared
    BY <2>1 DEF EndedNow, LiveNow, ClearedNow, Outdated
  <2>3. AdvanceSet(c, hook[c])
    BY <1>4 DEF ApplyChildEvent
  <2>4. CASE live' = LiveNow /\ cleared' = ClearedNow
    BY <2>2, <2>4
  <2>5. CASE ~ (live' = LiveNow /\ cleared' = ClearedNow)
    <3>1. live[c] # None => hook[c].obs > live[c].obs
      BY <2>2, <2>3, <2>5 DEF AdvanceSet
    <3>2. live' = [live EXCEPT ![c] = [obs |-> hook[c].obs, status |-> StatusAfter(live[c], hook[c].kind)]]
      BY <2>2, <2>3, <2>5 DEF AdvanceSet
    <3>3. cleared # None => cleared' = [cleared EXCEPT !.removed = @ \ {c}]
      BY <2>2, <2>3, <2>5 DEF AdvanceSet
    <3> QED
      BY <3>1, <3>2, <3>3
  <2> QED
    BY <2>4, <2>5
<1>5. ASSUME NEW c \in Children, ApplyChildStop(c)
      PROVE  GoesForward
  BY <1>5 DEF ApplyChildStop, StopSet, HookEnds, setVars, LiveNow, ClearedNow, EndedNow, Outdated
<1>6. ASSUME NEW c \in Children, LoseChildEvent(c)
      PROVE  GoesForward
  BY <1>6 DEF LoseChildEvent, HookEnds, setVars
<1>7. ASSUME NEW l \in Leads, TakeList(l)
      PROVE  GoesForward
  BY <1>7 DEF TakeList, LeadGoes, setVars
<1>8. ASSUME NEW l \in Leads, NEW kind \in {"end", "bind", "stop"}, LeadEvent(l, kind)
      PROVE  GoesForward
  BY <1>8 DEF LeadEvent, Ticks, LeadGoes, setVars
<1>9. ASSUME NEW l \in Leads, ApplyEnd(l)
      PROVE  GoesForward
  BY <1>9 DEF ApplyEnd, LeadDone, LeadGoes, setVars
<1>10. ASSUME NEW l \in Leads, ApplyBind(l)
      PROVE  GoesForward
  BY <1>10 DEF ApplyBind, LeadDone, LeadGoes, setVars
<1>11. ASSUME NEW l \in Leads, ApplyListedStop(l)
      PROVE  GoesForward
  BY <1>11 DEF ApplyListedStop, StopStands, LeadDone, LeadGoes, KeptThroughStop, setVars, LiveNow, ClearedNow, EndedNow, Outdated
<1>12. ASSUME NEW l \in Leads, ApplyParentStop(l)
      PROVE  GoesForward
  BY <1>12 DEF ApplyParentStop, StopStands, LeadDone, LeadGoes, ClearForParent, setVars, LiveNow, ClearedNow, EndedNow, Outdated
<1>13. ASSUME NEW l \in Leads, LoseLeadEvent(l)
      PROVE  GoesForward
  BY <1>13 DEF LoseLeadEvent, LeadDone, LeadGoes, setVars
<1> QED
  BY <1>1, <1>2, <1>3, <1>4, <1>5, <1>6, <1>7, <1>8, <1>9, <1>10, <1>11, <1>12, <1>13 DEF Next, Step

\* A child that leaves in this step leaves on its own stop or on the lead's.
LeavesJustly(c) ==
  live[c] # None /\ live'[c] = None /\ ended' = ended =>
    \/ hook[c].kind = "stop"
    \/ \E l \in Leads :
         /\ lead[l].kind = "stop" /\ lead'[l].kind = "done"
         /\ lead[l].obs >= live[c].obs
         /\ lists => c \notin lead[l].tasks

\* Every step removes a child only on its own stop or on the lead's.
LEMMA EvidenceStep ==
  ASSUME TypeOK, [Next]_vars
  PROVE  (\A child \in Children : LeavesJustly(child))
<1> USE NoneAssumption, ClockAssumption DEF TypeOK, Stamp, Entry, End, Cleared, LeavesJustly
<1>1. CASE UNCHANGED vars
  BY <1>1 DEF vars, setVars
<1>2. ASSUME NEW c \in Children, NEW kind \in {"start", "tool", "permission", "stop"}, ChildEvent(c, kind)
      PROVE  (\A child \in Children : LeavesJustly(child))
  BY <1>2 DEF ChildEvent, Ticks, setVars
<1>3. ASSUME NEW c \in Children, ChildDies(c)
      PROVE  (\A child \in Children : LeavesJustly(child))
  BY <1>3 DEF ChildDies, setVars
<1>4. ASSUME NEW c \in Children, ApplyChildEvent(c)
      PROVE  (\A child \in Children : LeavesJustly(child))
  <2>1. ended' = ended => LiveNow = live
    BY <1>4 DEF ApplyChildEvent, LiveNow, EndedNow, Outdated
  <2>2. LiveNow \in [Children -> Entry \cup {None}]
    BY DEF LiveNow
  <2>3. CASE live' = LiveNow
    BY <2>1, <2>3
  <2>4. CASE live' = [LiveNow EXCEPT ![c] =
                        [obs |-> hook[c].obs, status |-> StatusAfter(LiveNow[c], hook[c].kind)]]
    <3>1. StatusAfter(LiveNow[c], hook[c].kind) \in {"running", "waiting"}
      <4>1. LiveNow[c] # None => LiveNow[c].status \in {"running", "waiting"}
        BY <2>2
      <4> QED
        BY <4>1 DEF StatusAfter
    <3>2. live'[c] \in Entry
      BY <2>2, <2>4, <3>1
    <3>3. \A d \in Children : d # c => live'[d] = LiveNow[d]
      BY <2>2, <2>4
    <3> QED
      BY <2>1, <3>2, <3>3
  <2> QED
    BY <2>3, <2>4, <1>4 DEF ApplyChildEvent, AdvanceSet
<1>5. ASSUME NEW c \in Children, ApplyChildStop(c)
      PROVE  (\A child \in Children : LeavesJustly(child))
  BY <1>5 DEF ApplyChildStop, StopSet, HookEnds, setVars, LiveNow, ClearedNow, EndedNow, Outdated
<1>6. ASSUME NEW c \in Children, LoseChildEvent(c)
      PROVE  (\A child \in Children : LeavesJustly(child))
  BY <1>6 DEF LoseChildEvent, HookEnds, setVars
<1>7. ASSUME NEW l \in Leads, TakeList(l)
      PROVE  (\A child \in Children : LeavesJustly(child))
  BY <1>7 DEF TakeList, LeadGoes, setVars
<1>8. ASSUME NEW l \in Leads, NEW kind \in {"end", "bind", "stop"}, LeadEvent(l, kind)
      PROVE  (\A child \in Children : LeavesJustly(child))
  BY <1>8 DEF LeadEvent, Ticks, LeadGoes, setVars
<1>9. ASSUME NEW l \in Leads, ApplyEnd(l)
      PROVE  (\A child \in Children : LeavesJustly(child))
  BY <1>9 DEF ApplyEnd, LeadDone, LeadGoes, setVars
<1>10. ASSUME NEW l \in Leads, ApplyBind(l)
      PROVE  (\A child \in Children : LeavesJustly(child))
  BY <1>10 DEF ApplyBind, LeadDone, LeadGoes, setVars
<1>11. ASSUME NEW l \in Leads, ApplyListedStop(l)
      PROVE  (\A child \in Children : LeavesJustly(child))
  BY <1>11 DEF ApplyListedStop, StopStands, LeadDone, LeadGoes, KeptThroughStop, setVars, LiveNow, ClearedNow, EndedNow, Outdated
<1>12. ASSUME NEW l \in Leads, ApplyParentStop(l)
      PROVE  (\A child \in Children : LeavesJustly(child))
  BY <1>12 DEF ApplyParentStop, StopStands, LeadDone, LeadGoes, ClearForParent, setVars, LiveNow, ClearedNow, EndedNow, Outdated
<1>13. ASSUME NEW l \in Leads, LoseLeadEvent(l)
      PROVE  (\A child \in Children : LeavesJustly(child))
  BY <1>13 DEF LoseLeadEvent, LeadDone, LeadGoes, setVars
<1> QED
  BY <1>1, <1>2, <1>3, <1>4, <1>5, <1>6, <1>7, <1>8, <1>9, <1>10, <1>11, <1>12, <1>13 DEF Next, Step

\* The invariant is inductive.
THEOREM Invariance == Spec => []IInv
<1>1. Init => IInv
  <2> SUFFICES ASSUME Init
               PROVE  IInv
    OBVIOUS
  <2>1. TypeOK
    BY NoneAssumption, ClockAssumption DEF Init, TypeOK, Stamp
  <2>2. HookIsLater /\ LiveRuns /\ LiveAfterEnd
    BY DEF Init, HookIsLater, LiveRuns, LiveAfterEnd, Live
  <2>3. WorkerRuns /\ EndKnown /\ ClearCovers
    BY DEF Init, WorkerRuns, EndKnown, ClearCovers
  <2> QED
    BY <2>1, <2>2, <2>3 DEF IInv
<1>2. IInv /\ [Next]_vars => IInv'
  BY TypeStep, HookIsLaterStep, WorkerRunsStep, EndKnownStep, LiveAfterEndStep,
     LiveRunsStep, ClearCoversStep DEF IInv
<1> QED
  BY <1>1, <1>2, PTL DEF Spec

\* Every record, entry and hook has its type.
THEOREM TypeCorrect == Spec => []TypeOK
<1>1. IInv => TypeOK
  BY DEF IInv
<1> QED
  BY <1>1, Invariance, PTL

\* counted: no child is counted on an event from before the binding's last end.
THEOREM CountedAreAfterEnd == Spec => []CountedAfterEnd
<1>1. IInv => CountedAfterEnd
  <2> SUFFICES ASSUME IInv, end # None, NEW c \in Counted
               PROVE  live[c].obs > end.obs
    BY DEF CountedAfterEnd
  <2>1. c \in Live /\ ended = end.obs
    BY DEF Counted, CountedBy
  <2>2. ended # None
    BY <2>1, NoneAssumption DEF IInv, TypeOK, End, Stamp
  <2> QED
    BY <2>1, <2>2 DEF IInv, LiveAfterEnd
<1> QED
  BY <1>1, Invariance, PTL

\* clear_for_parent and advance: the live children and the parent stop agree.
THEOREM ClearCoversAlways == Spec => []ClearCovers
<1>1. IInv => ClearCovers
  BY DEF IInv
<1> QED
  BY <1>1, Invariance, PTL

\* stop: a child counted runs, is stopping, or was never heard to stop.
THEOREM CountedRuns == Spec => []OnlyRunningCounted
<1>1. IInv => OnlyRunningCounted
  BY DEF IInv, OnlyRunningCounted, LiveRuns, Counted, CountedBy
<1> QED
  BY <1>1, Invariance, PTL

\* advance, clear_for_parent and reconcile: no entry and no parent stop is
\* replaced by an older one.
THEOREM NothingGoesBack == Spec => NeverBackwards
<1>1. TypeOK /\ [Next]_vars => GoesForward
  BY ForwardStep
<1> QED
  BY <1>1, TypeCorrect, PTL DEF Spec, NeverBackwards, GoesForward

\* stop, reconcile and clear_for_parent: only the child's own stop, a lead stop
\* no earlier than its last event, or the binding's end removes it.
THEOREM LeavesOnlyOnEvidence == Spec => LeavesOnEvidence
<1> DEFINE Evidence == \A c \in Children : LeavesJustly(c)
<1>1. TypeOK /\ [Next]_vars => Evidence
  BY EvidenceStep
<1> QED
  BY <1>1, TypeCorrect, PTL DEF Spec, LeavesOnEvidence, LeavesJustly

-----------------------------------------------------------------------------
(***************************************************************************)
(* The reader.  A set that has not applied an end is as it was before that *)
(* end, and was counted then; and an end that closes the binding the       *)
(* reader read closed it at its read or since.                             *)
(***************************************************************************)
\* An end names a binding event no later than itself.
EndAfterItsBinding == end # None => end.of <= binding /\ end.of <= end.obs

\* What is counted now was right, as is what the files read so far and those to be read now
\* would be taken for.
ReadingOK ==
  /\ at \in {"end", "set"} => Counted \in real /\ read.binding <= binding
  /\ at = "end" /\ EndsBinding(end, read.binding) => {} \in real
  /\ at = "set" => CountedBy(read.end, read.binding) \in real

ReadInv == TypeOK /\ EndAfterItsBinding /\ ReaderOK /\ ReadingOK

\* What a step of a hook does to what the reader reads: it applies an end, to a binding that
\* runs; starts the binding anew; or changes the set, after the end that stands.
LEMMA HookStepForms ==
  ASSUME TypeOK, [Next]_vars
  PROVE  \/ /\ binding' = binding /\ live' = live /\ ended' = ended
            /\ \/ end' = end
               \/ ~EndsBinding(end, binding) /\ end' # None /\ end'.of = binding /\ end'.of <= end'.obs
         \/ binding' >= binding /\ end' = end /\ live' = live /\ ended' = ended
         \/ /\ binding' = binding /\ end' = end /\ ended' = EndedNow
            /\ EndsBinding(end, binding) => live' = LiveNow
<1> DEFINE Forms ==
         \/ /\ binding' = binding /\ live' = live /\ ended' = ended
            /\ \/ end' = end
               \/ ~EndsBinding(end, binding) /\ end' # None /\ end'.of = binding /\ end'.of <= end'.obs
         \/ binding' >= binding /\ end' = end /\ live' = live /\ ended' = ended
         \/ /\ binding' = binding /\ end' = end /\ ended' = EndedNow
            /\ EndsBinding(end, binding) => live' = LiveNow
<1> USE NoneAssumption, ClockAssumption
<1>1. CASE UNCHANGED <<binding, end, live, ended>>
  BY <1>1
<1>2. ASSUME NEW c \in Children, ApplyChildEvent(c)
      PROVE  Forms
  BY <1>2 DEF ApplyChildEvent, AdvanceSet, IgnoredByEnd
<1>3. ASSUME NEW c \in Children, ApplyChildStop(c)
      PROVE  Forms
  BY <1>3 DEF ApplyChildStop, StopSet, IgnoredByEnd
<1>4. ASSUME NEW l \in Leads, ApplyEnd(l)
      PROVE  Forms
  <2> DEFINE new == [obs |-> lead[l].obs, of |-> binding]
  <2>1. binding' = binding /\ live' = live /\ ended' = ended
    BY <1>4 DEF ApplyEnd, setVars
  <2>2. lead[l].obs \in Nat /\ binding \in Nat
    BY DEF TypeOK, Stamp
  <2>3. end' = end \/ (end' = new /\ binding <= lead[l].obs /\ ~EndsBinding(end, binding))
    BY <1>4, <2>2 DEF ApplyEnd
  <2>4. new # None
    <3>1. new \in End
      BY DEF TypeOK, End
    <3> QED
      BY <3>1
  <2> QED
    BY <2>1, <2>3, <2>4
<1>5. ASSUME NEW l \in Leads, ApplyBind(l)
      PROVE  Forms
  <2>1. lead[l].obs \in Nat /\ binding \in Nat
    BY DEF TypeOK, Stamp
  <2> QED
    BY <1>5, <2>1 DEF ApplyBind, setVars
<1>6. ASSUME NEW l \in Leads, ApplyListedStop(l)
      PROVE  Forms
  BY <1>6 DEF ApplyListedStop, StopStands
<1>7. ASSUME NEW l \in Leads, ApplyParentStop(l)
      PROVE  Forms
  BY <1>7 DEF ApplyParentStop, StopStands
<1> QED
  BY <1>1, <1>2, <1>3, <1>4, <1>5, <1>6, <1>7
  DEF Next, Step, vars, setVars, ChildEvent, ChildDies, LoseChildEvent, TakeList, LeadEvent, LoseLeadEvent

\* A step of a hook, seen by the reader: what was right stays, and what it reads next fits.
LEMMA HooksGoOnStep ==
  ASSUME ReadInv, HooksGoOn
  PROVE  ReadInv'
<1> USE NoneAssumption, ClockAssumption
<1>1. TypeOK'
  BY TypeStep DEF ReadInv, HooksGoOn
<1>2. /\ binding \in Nat /\ binding' \in Nat /\ read.binding \in Nat
      /\ end # None => end \in End /\ end.obs \in Nat /\ end.of \in Nat
      /\ end' # None => end' \in End /\ end'.obs \in Nat /\ end'.of \in Nat
      /\ ended # None => ended \in Nat
  BY <1>1 DEF ReadInv, ReaderOK, ReaderTypeOK, TypeOK, End, Stamp
<1>3. \/ /\ binding' = binding /\ live' = live /\ ended' = ended
         /\ \/ end' = end
            \/ ~EndsBinding(end, binding) /\ end' # None /\ end'.of = binding /\ end'.of <= end'.obs
      \/ binding' >= binding /\ end' = end /\ live' = live /\ ended' = ended
      \/ /\ binding' = binding /\ end' = end /\ ended' = EndedNow
         /\ EndsBinding(end, binding) => live' = LiveNow
  BY HookStepForms DEF ReadInv, HooksGoOn
<1>4. EndAfterItsBinding'
  BY <1>2, <1>3 DEF ReadInv, EndAfterItsBinding
<1>5. UNCHANGED <<at, read, answer>> /\ real' = IF at \in {"end", "set"} THEN real \cup {Counted'} ELSE real
  BY DEF HooksGoOn
<1>6. ReaderOK'
  <2>1. Counted' \subseteq Children
    BY DEF Counted, CountedBy, Live
  <2> QED
    BY <1>5, <2>1 DEF ReadInv, ReaderOK, ReaderTypeOK, AnswerWasRight
<1>7. CASE at \in {"end", "set"}
  <2>1. real' = real \cup {Counted'} /\ Counted \in real /\ read.binding <= binding
    BY <1>5, <1>7 DEF ReadInv, ReadingOK
  <2>2. read'.binding <= binding'
    BY <1>2, <1>3, <1>5, <2>1
  <2>3. ASSUME at = "end", EndsBinding(end', read.binding)
        PROVE  {} \in real'
    <3>1. CASE end' = end
      BY <1>5, <2>1, <2>3, <3>1 DEF ReadInv, ReadingOK
    <3>2. CASE binding' = binding /\ end' # None /\ end'.of = binding
      <4>1. Counted' = {}
        BY <3>2 DEF Counted, CountedBy, EndsBinding
      <4> QED
        BY <2>1, <4>1
    <3> QED
      BY <1>3, <3>1, <3>2
  <2>4. ASSUME at = "set"
        PROVE  CountedBy(read.end, read.binding)' \in real'
    <3>1. CountedBy(read.end, read.binding) \in real
      BY <2>4 DEF ReadInv, ReadingOK
    <3>2. CASE live' = live /\ ended' = ended
      BY <1>5, <2>1, <3>1, <3>2 DEF CountedBy, Live
    <3>3. CASE binding' = binding /\ end' = end /\ ended' = EndedNow /\ (EndsBinding(end, binding) => live' = LiveNow)
      <4>1. CASE EndsBinding(read.end, read.binding)
        BY <1>5, <2>1, <3>1, <4>1 DEF CountedBy
      <4>2. CASE ~EndsBinding(read.end, read.binding) /\ read.end # None /\ ended' # read.end.obs
        <5>1. CountedBy(read.end, read.binding)' = {}
          BY <1>5, <4>2 DEF CountedBy
        <5>2. CASE ended # read.end.obs
          BY <2>1, <3>1, <4>2, <5>1, <5>2 DEF CountedBy
        <5>3. CASE Outdated
          BY <2>1, <5>1, <5>3 DEF Counted, CountedBy, Outdated
        <5> QED
          BY <3>3, <4>2, <5>2, <5>3 DEF EndedNow
      <4>3. CASE ~EndsBinding(read.end, read.binding) /\ (read.end = None \/ ended' = read.end.obs)
        <5>1. CountedBy(read.end, read.binding)' = Live'
          BY <1>5, <4>3 DEF CountedBy
        <5>2. CASE ~EndsBinding(end, binding)
          <6>1. Counted' = Live'
            BY <3>3, <5>2 DEF Counted, CountedBy, EndedNow, Outdated
          <6> QED
            BY <2>1, <5>1, <6>1
        <5>3. CASE EndsBinding(end, binding) /\ Outdated
          <6>1. Live' = {} /\ Counted' = {}
            BY <3>3, <5>3 DEF Live, LiveNow, Counted, CountedBy
          <6> QED
            BY <2>1, <5>1, <6>1
        <5>4. CASE EndsBinding(end, binding) /\ ~Outdated
          <6>1. live' = live /\ ended' = ended
            BY <3>3, <5>4 DEF LiveNow, EndedNow
          <6> QED
            BY <3>2, <6>1
        <5> QED
          BY <5>2, <5>3, <5>4
      <4> QED
        BY <4>1, <4>2, <4>3
    <3> QED
      BY <1>3, <3>2, <3>3
  <2> QED
    BY <1>1, <1>4, <1>5, <1>6, <2>1, <2>2, <2>3, <2>4 DEF ReadInv, ReadingOK
<1>8. CASE at \notin {"end", "set"}
  BY <1>1, <1>4, <1>5, <1>6, <1>8 DEF ReadInv, ReadingOK
<1> QED
  BY <1>7, <1>8

\* A step of the reader: each file it reads fits what it read before.
LEMMA ReaderStep ==
  ASSUME ReadInv, ReadBinding \/ ReadEnd \/ ReadSet
  PROVE  ReadInv'
<1> USE NoneAssumption, ClockAssumption DEF ReadInv, ReaderOK, ReaderTypeOK
<1>1. UNCHANGED vars
  BY DEF ReadBinding, ReadEnd, ReadSet, Steps
<1>2. TypeOK' /\ EndAfterItsBinding' /\ Counted' = Counted
  BY <1>1 DEF vars, setVars, TypeOK, EndAfterItsBinding, Counted, CountedBy, Live
<1>3. /\ binding \in Nat /\ read.binding \in Nat
      /\ end # None => end.obs \in Nat /\ end.of \in Nat
  BY DEF TypeOK, End, Stamp
<1>4. read.binding \in Stamp /\ read.end \in End \cup {None} /\ Counted \subseteq Children
      /\ binding \in Stamp /\ end \in End \cup {None}
  BY DEF TypeOK, End, Counted, CountedBy, Live
<1>5. CASE ReadBinding
  <2>1. at' = "end" /\ read' = [read EXCEPT !.binding = binding] /\ real' = {Counted} /\ answer' = answer
    BY <1>5 DEF ReadBinding, Steps
  <2>2. read'.binding = binding /\ read' \in [binding : Stamp, end : End \cup {None}]
    BY <1>4, <2>1 DEF End
  <2>3. EndsBinding(end, binding) => Counted = {}
    BY DEF Counted, CountedBy
  <2> QED
    BY <1>1, <1>2, <1>3, <1>4, <2>1, <2>2, <2>3 DEF vars, ReadingOK, AnswerWasRight, End
<1>6. CASE ReadEnd
  <2>1. at = "end" /\ at' = "set" /\ read' = [read EXCEPT !.end = end] /\ real' = real /\ answer' = answer
    BY <1>6 DEF ReadEnd, Steps
  <2>2. /\ read'.end = end /\ read'.binding = read.binding
        /\ read' \in [binding : Stamp, end : End \cup {None}]
    BY <1>4, <2>1 DEF End
  <2>3. Counted \in real /\ read.binding <= binding /\ (EndsBinding(end, read.binding) => {} \in real)
    BY <2>1 DEF ReadingOK
  <2>4. ~EndsBinding(end, read.binding) => ~EndsBinding(end, binding)
    BY <1>3, <2>3 DEF EndsBinding, EndAfterItsBinding
  <2>5. CountedBy(end, read.binding) \in real
    BY <2>3, <2>4 DEF Counted, CountedBy
  <2>6. CountedBy(read.end, read.binding)' = CountedBy(end, read.binding)
    BY <1>1, <2>2 DEF CountedBy, Live, vars, setVars
  <2> QED
    BY <1>1, <1>2, <2>1, <2>2, <2>3, <2>5, <2>6 DEF vars, ReadingOK, AnswerWasRight, End
<1>7. CASE ReadSet
  <2>1. at = "set" /\ at' = "answered" /\ answer' = CountedBy(read.end, read.binding) /\ UNCHANGED <<read, real>>
    BY <1>7 DEF ReadSet, Steps
  <2>2. answer' \in real
    BY <2>1 DEF ReadingOK
  <2>3. answer' \subseteq Children
    BY <2>1 DEF CountedBy, Live
  <2> QED
    BY <1>2, <2>1, <2>2, <2>3 DEF ReadingOK, AnswerWasRight
<1> QED
  BY <1>5, <1>6, <1>7

\* ChildrenFacet::of and children_facet: what is pieced together from three files read without
\* a lock was right at some moment of the read.
THEOREM ReadersCountRight == ReaderSpec => []ReaderOK
<1>1. ReaderInit => ReadInv
  <2> SUFFICES ASSUME ReaderInit
               PROVE  ReadInv
    OBVIOUS
  <2>1. TypeOK /\ EndAfterItsBinding
    BY NoneAssumption, ClockAssumption DEF ReaderInit, Init, TypeOK, Stamp, EndAfterItsBinding
  <2> QED
    BY <2>1, ClockAssumption
    DEF ReaderInit, ReadInv, ReaderOK, ReaderTypeOK, ReadingOK, AnswerWasRight, Stamp
<1>2. ReadInv /\ [ReaderNext]_<<vars, readerVars>> => ReadInv'
  <2> SUFFICES ASSUME ReadInv, [ReaderNext]_<<vars, readerVars>>
               PROVE  ReadInv'
    OBVIOUS
  <2>1. CASE UNCHANGED <<vars, readerVars>>
    BY <2>1 DEF vars, setVars, readerVars, ReadInv, ReaderOK, ReaderTypeOK, ReadingOK, AnswerWasRight,
                TypeOK, EndAfterItsBinding, Counted, CountedBy, Live
  <2> QED
    BY <2>1, HooksGoOnStep, ReaderStep DEF ReaderNext
<1>3. ReadInv => ReaderOK
  BY DEF ReadInv
<1> QED
  BY <1>1, <1>2, <1>3, PTL DEF ReaderSpec
=============================================================================
