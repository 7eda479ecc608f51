------------------------- MODULE LeadActivityProofs -------------------------
(***************************************************************************)
(* LeadActivity for any number of commands, turns and clock readings: its  *)
(* types, what its tab shows as an implementation of TabScreen, what a     *)
(* turn's end on screen says of the lead, and what a poll that takes no    *)
(* lock shows, ActivityReader's.                                           *)
(***************************************************************************)
EXTENDS ActivityReader, TLAPS

Fresh(h, word) == [id |-> h, word |-> word, obs |-> cmd[h].obs, at |-> cmd[h].obs]

\* What a command carries is typed by what it is.
LEMMA CommandTyped ==
  ASSUME TypeOK, NEW h \in Hooks
  PROVE  /\ cmd[h].kind \in Kinds \cup {"idle", "done"}
         /\ cmd[h].turn \in 0..MaxTurn /\ cmd[h].obs \in Stamp
         /\ cmd[h].of \in Hooks \cup {None}
  BY DEF TypeOK

\* An application ends its command.
LEMMA DoneTyped ==
  ASSUME TypeOK, NEW h \in Hooks, Done(h)
  PROVE  cmd' \in [Hooks -> [kind : Kinds \cup {"idle", "done"}, turn : 0..MaxTurn,
                             obs : Stamp, of : Hooks \cup {None}]]
  BY BoundsAssumption DEF TypeOK, Done, Idle, Stamp

\* The slot keeps what it holds, restarts its time limit, or takes a word that
\* is later than it and than the watermark.
LEMMA PlanSlotDoes ==
  ASSUME TypeOK, NEW h \in Hooks, NEW word \in Words, NEW held \in BOOLEAN,
         PlanSlot(h, word, held)
  PROVE  \/ slot' = slot
         \/ /\ Visible(cmd[h].obs) /\ slot.word = "timed" /\ word = "timed"
            /\ slot' = [slot EXCEPT !.at = cmd[h].obs]
         \/ /\ slot' = Fresh(h, word)
            /\ cmd[h].obs > clear
            /\ slot # None => cmd[h].obs > slot.obs
<1> DEFINE repeated == Visible(cmd[h].obs) /\ slot.word = word
           older == slot # None /\ cmd[h].obs <= slot.obs
<1>1. cmd[h].obs \in Nat /\ clear \in Nat /\ (slot # None => slot.obs \in Nat)
  BY CommandTyped DEF TypeOK, Stamp, Activity
<1>2. CASE repeated /\ word = "timed"
  BY <1>2 DEF PlanSlot
<1>3. CASE ~ (repeated /\ word = "timed") /\ (repeated \/ held \/ older \/ cmd[h].obs <= clear)
  BY <1>3 DEF PlanSlot
<1>4. CASE ~ (repeated \/ held \/ older \/ cmd[h].obs <= clear)
  <2>1. slot' = Fresh(h, word)
    BY <1>4 DEF PlanSlot, Fresh
  <2> QED BY <1>1, <1>4, <2>1
<1> QED BY <1>2, <1>3, <1>4

LEMMA PlanSlotTyped ==
  ASSUME TypeOK, NEW h \in Hooks, NEW word \in Words, NEW held \in BOOLEAN,
         PlanSlot(h, word, held)
  PROVE  slot' \in Activity \cup {None}
  BY PlanSlotDoes, CommandTyped, NoneAssumption
     DEF TypeOK, Activity, Fresh, Visible, Standing, Uncleared

\* The lead's records keep their types.
LEMMA RecordsTyped ==
  ASSUME TypeOK, NEW h \in Hooks, NEW alike \in BOOLEAN,
         NEW kind \in {"prompt", "work", "note", "stop", "interrupt"}, Records(h, kind, alike)
  PROVE  pool' \subseteq Seen /\ latest' \in Stamp
<1> DEFINE o == [kind |-> kind, turn |-> cmd[h].turn, obs |-> cmd[h].obs]
<1>1. o \in Seen
  BY CommandTyped DEF Seen
<1>2. PoolWith(o, alike) \subseteq Seen
  BY <1>1 DEF PoolWith, TypeOK
<1>3. latest' \in Stamp
  BY CommandTyped DEF Records, TypeOK
<1> QED BY <1>2, <1>3 DEF Records, TypeOK

LEMMA WordTyped ==
  ASSUME NEW kind \in Saying
  PROVE  /\ Word(kind) \in Words
         /\ kind # "childask" => SeenKind(kind) \in {"prompt", "work", "stop"}
  BY DEF Saying, Word, Words, SeenKind

\* Every step keeps the types.
LEMMA TypeStep ==
  ASSUME TypeOK, [Next]_vars
  PROVE  TypeOK'
<1> USE BoundsAssumption
<1>1. CASE UNCHANGED vars
  BY <1>1 DEF vars, records, TypeOK
<1>2. CASE Rebind
  BY <1>2 DEF Rebind, records, TypeOK
<1>3. CASE Tick
  BY <1>3 DEF Tick, records, TypeOK, Stamp
<1>4. ASSUME NEW h \in Hooks, NEW kind \in Kinds, Begin(h, kind)
      PROVE  TypeOK'
  <2>1. PICK t \in 0..MaxTurn :
          /\ turn' = IF kind = "prompt" THEN t ELSE turn
          /\ cmd' = [cmd EXCEPT ![h] = [kind |-> kind, turn |-> t, obs |-> clock,
                                        of |-> IF kind = "ack" THEN slot.id ELSE None]]
    BY <1>4 DEF Begin
  <2>2. (IF kind = "ack" THEN slot.id ELSE None) \in Hooks \cup {None}
    BY <1>4 DEF Begin, Visible, Standing, Uncleared, TypeOK, Activity
  <2>3. turn' \in 0..MaxTurn
    BY <2>1 DEF TypeOK
  <2>4. [kind |-> kind, turn |-> t, obs |-> clock, of |-> IF kind = "ack" THEN slot.id ELSE None]
          \in [kind : Kinds \cup {"idle", "done"}, turn : 0..MaxTurn, obs : Stamp, of : Hooks \cup {None}]
    BY <2>2 DEF TypeOK
  <2>5. cmd' \in [Hooks -> [kind : Kinds \cup {"idle", "done"}, turn : 0..MaxTurn,
                            obs : Stamp, of : Hooks \cup {None}]]
    BY <2>1, <2>4 DEF TypeOK
  <2> QED BY <1>4, <2>3, <2>5 DEF Begin, records, TypeOK
<1>5. ASSUME NEW h \in Hooks, ApplyActivity(h)
      PROVE  TypeOK'
  <2>1. PICK alike \in BOOLEAN, held \in BOOLEAN :
          /\ IF Replayed(h, alike) \/ Superseded(h)
             THEN UNCHANGED slot
             ELSE PlanSlot(h, Word(cmd[h].kind), held)
          /\ IF cmd[h].kind = "childask"
             THEN UNCHANGED <<pool, latest>>
             ELSE Records(h, SeenKind(cmd[h].kind), alike)
    BY <1>5 DEF ApplyActivity
  <2>2. cmd[h].kind \in Saying
    BY <1>5 DEF ApplyActivity
  <2>3. slot' \in Activity \cup {None}
    BY <2>1, <2>2, PlanSlotTyped, WordTyped DEF TypeOK
  <2>4. pool' \subseteq Seen /\ latest' \in Stamp
    BY <2>1, <2>2, RecordsTyped, WordTyped DEF TypeOK
  <2> QED BY <1>5, <2>3, <2>4, DoneTyped DEF ApplyActivity, TypeOK
<1>6. ASSUME NEW h \in Hooks, ApplyNote(h)
      PROVE  TypeOK'
  BY <1>6, DoneTyped, RecordsTyped DEF ApplyNote, TypeOK
<1>7. ASSUME NEW h \in Hooks, ApplyMark(h)
      PROVE  TypeOK'
  <2>1. cmd[h].kind \in Words
    BY <1>7 DEF ApplyMark, Marks, Words
  <2> QED BY <1>7, <2>1, DoneTyped, PlanSlotTyped DEF ApplyMark, TypeOK
<1>8. ASSUME NEW h \in Hooks, ApplyInterrupt(h)
      PROVE  TypeOK'
  <2>1. clear' \in Stamp
    BY <1>8, CommandTyped DEF ApplyInterrupt, ClearTo, TypeOK
  <2>2. pool' \subseteq Seen /\ latest' \in Stamp
    BY <1>8, RecordsTyped DEF ApplyInterrupt
  <2> QED BY <1>8, <2>1, <2>2, DoneTyped DEF ApplyInterrupt, TypeOK
<1>9. ASSUME NEW h \in Hooks, ApplyReturn(h) \/ ApplyUnmark(h)
      PROVE  TypeOK'
  BY <1>9, DoneTyped, CommandTyped DEF ApplyReturn, ApplyUnmark, ClearTo, TypeOK
<1>10. ASSUME NEW h \in Hooks, ApplyAck(h)
       PROVE  TypeOK'
  BY <1>10, DoneTyped, CommandTyped DEF ApplyAck, TypeOK
<1>11. ASSUME NEW h \in Hooks, Lose(h)
       PROVE  TypeOK'
  BY <1>11, DoneTyped DEF Lose, records, TypeOK
<1> QED BY <1>1, <1>2, <1>3, <1>4, <1>5, <1>6, <1>7, <1>8, <1>9, <1>10, <1>11 DEF Next

\* Every state is typed.
THEOREM TypeCorrect == Spec => []TypeOK
<1>1. Init => TypeOK
  BY BoundsAssumption DEF Init, TypeOK, Stamp, Idle
<1> QED BY <1>1, TypeStep, PTL DEF Spec

-----------------------------------------------------------------------------
(***************************************************************************)
(* The tab, as TabScreen has it.                                           *)
(***************************************************************************)

top == IF Uncleared THEN slot.obs ELSE clear
shown == IF Visible(clock) THEN slot.id ELSE None
lapsing == IF Standing /\ slot.word = "timed" THEN slot.id ELSE None

TabNext ==
  \/ UNCHANGED <<top, shown, lapsing>>
  \/ shown' = None /\ lapsing' \in {lapsing, None} /\ top' \in Nat /\ top' >= top
  \/ lapsing # None /\ shown' = lapsing /\ UNCHANGED <<top, lapsing>>
  \/ \E w \in Hooks : /\ top' \in Nat /\ top' > top
                      /\ lapsing' \in {w, None} /\ shown' \in {w, None}

LEMMA TabNextIsScreens == TabNext => [Screen!Next]_<<top, shown, lapsing>>
  BY DEF TabNext, Screen!Next, Screen!Show, Screen!Hide, Screen!Renew, top, shown, lapsing

\* The tab's records are compared as numbers.
LEMMA Comparable ==
  ASSUME TypeOK
  PROVE  /\ clear \in Nat /\ clock \in Nat /\ top \in Nat
         /\ slot # None => slot.obs \in Nat /\ slot.at \in Nat /\ slot.id \in Hooks /\ slot.id # None
         /\ \A h \in Hooks : cmd[h].obs \in Nat
  BY NoneAssumption, BoundsAssumption, CommandTyped DEF TypeOK, Stamp, Activity, top, Uncleared

\* Restarting a time limit changes nothing else.
LEMMA RenewedFields ==
  ASSUME TypeOK, NEW t, NEW from \in Stamp, Visible(t), slot' = [slot EXCEPT !.at = from]
  PROVE  /\ slot # None /\ slot' # None /\ slot'.at = from
         /\ slot'.id = slot.id /\ slot'.word = slot.word /\ slot'.obs = slot.obs
<1>1. slot # None /\ slot \in Activity
  BY DEF Visible, Standing, Uncleared, TypeOK
<1>2. slot' \in Activity
  BY <1>1 DEF Activity
<1> QED BY <1>1, <1>2, NoneAssumption DEF Activity

\* A word said moves the tab on, or does nothing to it.
LEMMA WordOnTab ==
  ASSUME TypeOK, NEW h \in Hooks, NEW word \in Words, NEW held \in BOOLEAN,
         PlanSlot(h, word, held), UNCHANGED <<clock, clear, ack>>
  PROVE  TabNext
<1> USE Comparable
<1>1. CASE slot' = slot
  BY <1>1 DEF TabNext, top, shown, lapsing, Visible, Standing, Uncleared
<1>2. CASE /\ Visible(cmd[h].obs) /\ slot.word = "timed"
           /\ slot' = [slot EXCEPT !.at = cmd[h].obs]
  <2>1. /\ slot # None /\ slot' # None
        /\ slot'.id = slot.id /\ slot'.word = slot.word /\ slot'.obs = slot.obs
    BY <1>2, RenewedFields, CommandTyped
  <2>2. Standing /\ Standing' /\ Uncleared /\ Uncleared'
    BY <1>2, <2>1 DEF Visible, Standing, Uncleared
  <2>3. top' = top /\ lapsing' = lapsing /\ lapsing = slot.id
    BY <1>2, <2>1, <2>2 DEF top, lapsing
  <2>4. shown' \in {slot.id, None}
    BY <2>1 DEF shown
  <2> QED BY <2>1, <2>3, <2>4 DEF TabNext
<1>3. CASE /\ slot' = Fresh(h, word)
           /\ cmd[h].obs > clear
           /\ slot # None => cmd[h].obs > slot.obs
  <2>1. slot' # None /\ slot'.id = h /\ slot'.obs = cmd[h].obs
    BY <1>3, NoneAssumption, CommandTyped DEF Fresh, Activity, TypeOK
  <2>2. Uncleared'
    BY <1>3, <2>1 DEF Uncleared
  <2>3. top' = cmd[h].obs /\ top' > top
    BY <1>3, <2>1, <2>2 DEF top, Uncleared
  <2>4. lapsing' \in {h, None} /\ shown' \in {h, None}
    BY <2>1 DEF lapsing, shown
  <2> QED BY <2>3, <2>4 DEF TabNext
<1> QED BY <1>1, <1>2, <1>3, PlanSlotDoes

\* A clear hides what it covers, and nothing else.
LEMMA ClearOnTab ==
  ASSUME TypeOK, NEW obs \in Nat, ClearTo(obs), UNCHANGED <<clock, slot, ack>>
  PROVE  TabNext
<1> USE Comparable
<1>1. clear' >= clear /\ clear' \in Nat
  BY DEF ClearTo
<1>2. CASE Uncleared'
  <2>1. Uncleared
    BY <1>1, <1>2 DEF Uncleared
  <2> QED BY <1>2, <2>1 DEF TabNext, top, shown, lapsing, Visible, Standing
<1>3. CASE ~ Uncleared'
  <2>1. shown' = None /\ lapsing' = None
    BY <1>3 DEF shown, lapsing, Visible, Standing
  <2>2. top' \in Nat /\ top' >= top
    BY <1>1, <1>3 DEF top, Uncleared
  <2> QED BY <2>1, <2>2 DEF TabNext
<1> QED BY <1>2, <1>3

LEMMA SameTab ==
  ASSUME UNCHANGED <<clock, slot, clear, ack>>
  PROVE  TabNext
  BY DEF TabNext, top, shown, lapsing, Visible, Standing, Uncleared

LEMMA ScreenStep ==
  ASSUME TypeOK, [Next]_vars
  PROVE  TabNext
<1> USE Comparable
<1>1. CASE UNCHANGED vars \/ Rebind
  BY <1>1, SameTab DEF vars, records, Rebind
<1>2. CASE Tick
  <2>1. clock' = clock + 1 /\ UNCHANGED <<slot, clear, ack>>
    BY <1>2 DEF Tick, records
  <2>2. top' = top /\ lapsing' = lapsing
    BY <2>1 DEF top, lapsing, Standing, Uncleared
  <2>3. Visible(clock)' => Visible(clock)
    <3>1. ASSUME slot # None, slot.word = "timed" => clock' <= slot.at + Limit
          PROVE  slot.word = "timed" => clock <= slot.at + Limit
      BY <2>1, <3>1, BoundsAssumption
    <3> QED BY <2>1, <3>1 DEF Visible, Standing, Uncleared
  <2>4. shown' = shown \/ shown' = None
    BY <2>1, <2>3 DEF shown
  <2> QED BY <2>2, <2>4 DEF TabNext
<1>3. ASSUME NEW h \in Hooks, NEW kind \in Kinds, Begin(h, kind)
      PROVE  TabNext
  <2>1. UNCHANGED <<clock, records>>
    BY <1>3 DEF Begin
  <2> QED BY <2>1, SameTab DEF records
<1>4. ASSUME NEW h \in Hooks, ApplyActivity(h)
      PROVE  TabNext
  <2>1. UNCHANGED <<clock, clear, ack>> /\ cmd[h].kind \in Saying
    BY <1>4 DEF ApplyActivity
  <2>2. PICK held \in BOOLEAN : UNCHANGED slot \/ PlanSlot(h, Word(cmd[h].kind), held)
    BY <1>4 DEF ApplyActivity
  <2> QED BY <2>1, <2>2, WordTyped, WordOnTab, SameTab
<1>5. ASSUME NEW h \in Hooks, ApplyMark(h)
      PROVE  TabNext
  <2>1. cmd[h].kind \in Words
    BY <1>5 DEF ApplyMark, Marks, Words
  <2> QED BY <1>5, <2>1, WordOnTab DEF ApplyMark
<1>6. ASSUME NEW h \in Hooks, ApplyInterrupt(h)
      PROVE  TabNext
  BY <1>6, ClearOnTab, SameTab DEF ApplyInterrupt
<1>7. ASSUME NEW h \in Hooks, ApplyReturn(h) \/ ApplyUnmark(h)
      PROVE  TabNext
  BY <1>7, ClearOnTab DEF ApplyReturn, ApplyUnmark
<1>8. ASSUME NEW h \in Hooks, ApplyAck(h)
      PROVE  TabNext
  <2>1. UNCHANGED <<clock, slot, clear>> /\ Uncleared /\ ack' = slot.id
    BY <1>8 DEF ApplyAck
  <2>2. shown' = None /\ lapsing' = None
    BY <2>1 DEF shown, lapsing, Visible, Standing
  <2>3. top' = top
    BY <2>1 DEF top, Uncleared
  <2> QED BY <2>2, <2>3 DEF TabNext
<1>9. ASSUME NEW h \in Hooks, ApplyNote(h) \/ Lose(h)
      PROVE  TabNext
  BY <1>9, SameTab DEF ApplyNote, Lose, records
<1> QED BY <1>1, <1>2, <1>3, <1>4, <1>5, <1>6, <1>7, <1>8, <1>9 DEF Next

\* What the tab shows implements TabScreen: late hooks, clears and
\* acknowledgements never bring back what was hidden.
THEOREM ScreenOnlyMovesOn == Spec => ScreenMovesOn
<1>1. Init => Screen!Init
  BY DEF Init, Screen!Init, Visible, Standing, Uncleared
<1>2. TypeOK /\ [Next]_vars => [Screen!Next]_<<top, shown, lapsing>>
  BY ScreenStep, TabNextIsScreens
<1> QED BY <1>1, <1>2, TypeCorrect, PTL DEF Spec, ScreenMovesOn, Screen!Spec, top, shown, lapsing

-----------------------------------------------------------------------------
(***************************************************************************)
(* A turn's end on screen, and the latest word.                            *)
(***************************************************************************)

EndWords == {"stop", "held"}

\* What the records p and l hold of the lead's prompts and work is no later
\* than t.
AllBy(p, l, t) == l <= t /\ \A o \in p : o.kind \in {"prompt", "work"} => o.obs <= t

\* A record of something else says nothing of prompts and work.
LEMMA RecordsOfOthers ==
  ASSUME NEW h \in Hooks, NEW alike \in BOOLEAN, NEW t,
         NEW kind \in {"note", "stop", "interrupt"}, Records(h, kind, alike), AllBy(pool, latest, t)
  PROVE  AllBy(pool', latest', t)
  BY DEF Records, PoolWith, AllBy

\* Clearing and acknowledging put nothing on screen.
LEMMA EndStaysLatest ==
  ASSUME TypeOK, TurnEndIsLatest, UNCHANGED slot, Standing' => Standing,
         slot # None /\ AllBy(pool, latest, slot.obs) => AllBy(pool', latest', slot.obs)
  PROVE  TurnEndIsLatest'
  BY DEF TurnEndIsLatest, AllBy, Standing, Uncleared

\* A step that applies an activity: a prompt or work that comes later replaces
\* the end on screen, and an end is shown when all there is came before it.
LEMMA ActivityKeepsEnd ==
  ASSUME TypeOK, TurnEndIsLatest, NEW h \in Hooks, ApplyActivity(h)
  PROVE  TurnEndIsLatest'
<1> USE Comparable
<1> DEFINE kind == cmd[h].kind
<1>1. /\ kind \in Saying /\ UNCHANGED <<clear, ack>>
      /\ Word(kind) \in Words
  BY WordTyped DEF ApplyActivity
<1>2. PICK alike \in BOOLEAN, held \in BOOLEAN :
        /\ held => MayBeHeld(h)
        /\ IF Replayed(h, alike) \/ Superseded(h)
           THEN UNCHANGED slot
           ELSE PlanSlot(h, Word(kind), held)
        /\ IF kind = "childask"
           THEN UNCHANGED <<pool, latest>>
           ELSE Records(h, SeenKind(kind), alike)
  BY DEF ApplyActivity
<1>3. \A o \in pool : o.obs \in Nat
  BY DEF TypeOK, Seen, Stamp
<1>4. latest \in Nat
  BY DEF TypeOK, Stamp
<1> SUFFICES ASSUME Standing', slot'.word \in EndWords
             PROVE  AllBy(pool', latest', slot'.obs)
  BY DEF TurnEndIsLatest, AllBy, EndWords
<1>5. CASE kind \in EndWords
  <2>1. SeenKind(kind) = "stop" /\ kind # "childask"
    BY <1>5 DEF EndWords, SeenKind
  <2>2. Records(h, "stop", alike)
    BY <1>2, <2>1
  <2>3. CASE slot' = slot
    <3>1. AllBy(pool, latest, slot.obs)
      BY <1>1, <2>3 DEF TurnEndIsLatest, AllBy, Standing, Uncleared, EndWords
    <3> QED BY <2>2, <2>3, <3>1, RecordsOfOthers
  <2>4. CASE /\ Visible(cmd[h].obs) /\ slot.word = "timed"
             /\ slot' = [slot EXCEPT !.at = cmd[h].obs]
    BY <2>4, RenewedFields, CommandTyped DEF EndWords
  <2>5. CASE slot' = Fresh(h, Word(kind)) /\ slot' # slot
    <3>1. ~ Superseded(h)
      BY <1>2, <2>5
    <3>2. ~ NewerSeen(cmd[h].obs)
      BY <1>5, <3>1 DEF Superseded, EndsTurn, EndWords
    <3>3. AllBy(pool, latest, cmd[h].obs)
      BY <1>3, <1>4, <3>2 DEF NewerSeen, AllBy
    <3> QED BY <2>2, <2>5, <3>3, RecordsOfOthers DEF Fresh
  <2>6. UNCHANGED slot \/ PlanSlot(h, Word(kind), held)
    BY <1>2
  <2> QED BY <1>1, <2>3, <2>4, <2>5, <2>6, PlanSlotDoes
<1>6. CASE kind \notin EndWords
  <2>1. ~ EndsTurn(kind) /\ kind \in {"prompt", "tool", "ask", "childask"}
    BY <1>1, <1>6 DEF EndsTurn, EndWords, Saying
  <2>2. Word(kind) \in {"thinking", "notify"}
    BY <2>1 DEF Word
  <2>3. PlanSlot(h, Word(kind), held)
    BY <1>2, <2>1 DEF Replayed, Superseded
  <2>4. slot' = slot
    BY <1>1, <2>2, <2>3, PlanSlotDoes, RenewedFields, CommandTyped DEF Fresh, EndWords
  <2>5. Standing /\ slot.word \in EndWords /\ slot # None
    BY <1>1, <2>4 DEF Standing, Uncleared
  <2>6. ~ held
    BY <1>2, <2>5 DEF MayBeHeld, EndWords, Marks
  <2>7. cmd[h].obs <= slot.obs
    <3>1. ~ (Visible(cmd[h].obs) /\ slot.word = Word(kind))
      BY <2>2, <2>5 DEF EndWords
    <3>2. ASSUME cmd[h].obs > slot.obs
          PROVE  slot' = Fresh(h, Word(kind))
      <4>1. cmd[h].obs > clear
        BY <2>5, <3>2 DEF Standing, Uncleared
      <4> QED BY <2>3, <2>6, <3>1, <3>2, <4>1 DEF PlanSlot, Fresh
    <3>3. Fresh(h, Word(kind)).word \notin EndWords
      BY <2>2 DEF Fresh, EndWords
    <3> QED BY <2>4, <2>5, <3>2, <3>3
  <2>8. AllBy(pool, latest, slot.obs)
    BY <2>5 DEF TurnEndIsLatest, AllBy, EndWords
  <2>9. CASE kind = "childask"
    BY <1>2, <2>4, <2>8, <2>9 DEF AllBy
  <2>10. CASE kind # "childask"
    <3>1. Records(h, SeenKind(kind), alike)
      BY <1>2, <2>10
    <3>2. latest' <= slot.obs
      BY <2>7, <2>8, <3>1 DEF Records, AllBy
    <3>3. \A o \in pool' : o \in pool \/ o.obs = cmd[h].obs
      BY <3>1 DEF Records, PoolWith
    <3> QED BY <2>4, <2>7, <2>8, <3>2, <3>3 DEF AllBy
  <2> QED BY <2>9, <2>10
<1> QED BY <1>5, <1>6

LEMMA TurnEndStep ==
  ASSUME TypeOK, TurnEndIsLatest, [Next]_vars
  PROVE  TurnEndIsLatest'
<1> USE Comparable
<1>1. CASE UNCHANGED vars \/ Rebind \/ Tick
  BY <1>1 DEF vars, records, Rebind, Tick, TurnEndIsLatest, Standing, Uncleared
<1>2. ASSUME NEW h \in Hooks, NEW kind \in Kinds, Begin(h, kind)
      PROVE  TurnEndIsLatest'
  <2>1. UNCHANGED records
    BY <1>2 DEF Begin
  <2> QED BY <2>1 DEF records, TurnEndIsLatest, Standing, Uncleared
<1>3. ASSUME NEW h \in Hooks, Lose(h)
      PROVE  TurnEndIsLatest'
  BY <1>3 DEF Lose, records, TurnEndIsLatest, Standing, Uncleared
<1>4. ASSUME NEW h \in Hooks, ApplyActivity(h)
      PROVE  TurnEndIsLatest'
  BY <1>4, ActivityKeepsEnd
<1>5. ASSUME NEW h \in Hooks, ApplyNote(h)
      PROVE  TurnEndIsLatest'
  <2>1. Records(h, "note", FALSE) /\ UNCHANGED <<slot, clear, ack>>
    BY <1>5 DEF ApplyNote
  <2>2. Standing' => Standing
    BY <2>1 DEF Standing, Uncleared
  <2> QED BY <2>1, <2>2, EndStaysLatest, RecordsOfOthers
<1>6. ASSUME NEW h \in Hooks, ApplyMark(h)
      PROVE  TurnEndIsLatest'
  <2>1. /\ PlanSlot(h, cmd[h].kind, FALSE) /\ UNCHANGED <<clear, ack, pool, latest>>
        /\ cmd[h].kind \in {"mark", "timed"} /\ cmd[h].kind \in Words
    BY <1>6 DEF ApplyMark, Marks, Words
  <2>2. \/ slot' = slot
        \/ Visible(cmd[h].obs) /\ slot.word = "timed" /\ slot' = [slot EXCEPT !.at = cmd[h].obs]
        \/ slot' = Fresh(h, cmd[h].kind)
    BY <2>1, PlanSlotDoes
  <2>3. slot' = slot \/ slot'.word \notin EndWords
    BY <2>1, <2>2, RenewedFields, CommandTyped DEF Fresh, EndWords
  <2> QED BY <2>1, <2>3 DEF TurnEndIsLatest, EndWords, Standing, Uncleared
<1>7. ASSUME NEW h \in Hooks, ApplyInterrupt(h)
      PROVE  TurnEndIsLatest'
  <2>1. UNCHANGED <<slot, ack>> /\ clear' \in Nat /\ clear' >= clear
    BY <1>7 DEF ApplyInterrupt, ClearTo
  <2>2. Standing' => Standing
    BY <2>1 DEF Standing, Uncleared
  <2>3. PICK alike \in BOOLEAN : Records(h, "interrupt", alike)
    BY <1>7 DEF ApplyInterrupt
  <2> QED BY <2>1, <2>2, <2>3, EndStaysLatest, RecordsOfOthers
<1>8. ASSUME NEW h \in Hooks, ApplyReturn(h) \/ ApplyUnmark(h)
      PROVE  TurnEndIsLatest'
  <2>1. UNCHANGED <<slot, ack, pool, latest>> /\ clear' \in Nat /\ clear' >= clear
    BY <1>8 DEF ApplyReturn, ApplyUnmark, ClearTo
  <2>2. Standing' => Standing
    BY <2>1 DEF Standing, Uncleared
  <2> QED BY <2>1, <2>2, EndStaysLatest DEF AllBy
<1>9. ASSUME NEW h \in Hooks, ApplyAck(h)
      PROVE  TurnEndIsLatest'
  <2>1. UNCHANGED <<slot, clear, pool, latest>> /\ ack' = slot.id
    BY <1>9 DEF ApplyAck
  <2>2. ~ Standing'
    BY <2>1 DEF Standing
  <2> QED BY <2>2 DEF TurnEndIsLatest
<1> QED BY <1>1, <1>2, <1>3, <1>4, <1>5, <1>6, <1>7, <1>8, <1>9 DEF Next

\* A turn's end stands only while nothing on record says the lead was prompted
\* or worked after it.
THEOREM TurnEndsAreLatest == Spec => []TurnEndIsLatest
<1>1. Init => TurnEndIsLatest
  BY DEF Init, TurnEndIsLatest, Standing, Uncleared
<1> QED BY <1>1, TurnEndStep, TypeCorrect, PTL DEF Spec

\* Whatever stood in the slot, a word later than it and than the watermark is
\* on screen once it was applied.
LEMMA LaterWordStands ==
  ASSUME TypeOK, NEW h \in Hooks, NEW word \in Words, NEW held \in BOOLEAN,
         PlanSlot(h, word, held), ~ held, UNCHANGED clear,
         cmd[h].obs > clear, slot # None => cmd[h].obs > slot.obs
  PROVE  /\ Uncleared' /\ slot'.word = word
         /\ slot'.id = h \/ (slot'.id = slot.id /\ Standing)
         /\ word = "timed" => slot'.at = cmd[h].obs
<1> USE Comparable
<1>1. CASE Visible(cmd[h].obs) /\ slot.word = word /\ word = "timed"
  <2>1. slot' = [slot EXCEPT !.at = cmd[h].obs]
    BY <1>1 DEF PlanSlot
  <2>2. /\ slot # None /\ slot' # None /\ slot'.at = cmd[h].obs
        /\ slot'.id = slot.id /\ slot'.word = slot.word /\ slot'.obs = slot.obs
    BY <1>1, <2>1, RenewedFields, CommandTyped
  <2> QED BY <1>1, <2>2 DEF Visible, Standing, Uncleared
<1>2. CASE Visible(cmd[h].obs) /\ slot.word = word /\ word # "timed"
  BY <1>2 DEF PlanSlot, Visible, Standing, Uncleared
<1>3. CASE ~ (Visible(cmd[h].obs) /\ slot.word = word)
  <2>1. slot' = Fresh(h, word)
    BY <1>3 DEF PlanSlot, Fresh
  <2>2. slot' # None
    BY <2>1, NoneAssumption, CommandTyped DEF Fresh, Activity
  <2> QED BY <2>1, <2>2 DEF Fresh, Uncleared
<1> QED BY <1>1, <1>2, <1>3

\* Every command that has left its id in the records has run.
IdsUsed ==
  /\ slot # None => cmd[slot.id].kind = "done"
  /\ ack # None => cmd[ack].kind = "done"
  /\ \A h \in Hooks : cmd[h].of # None => cmd[cmd[h].of].kind = "done"

\* A step that ends a command and writes no id but its own or one it carries.
LEMMA IdsKept ==
  ASSUME TypeOK, IdsUsed, NEW h \in Hooks, Done(h),
         \/ slot' = slot
         \/ slot' # None /\ slot'.id = h
         \/ slot # None /\ slot' # None /\ slot'.id = slot.id,
         ack' = ack \/ ack' = cmd[h].of
  PROVE  IdsUsed'
<1>1. cmd'[h].kind = "done" /\ cmd'[h].of = None
  BY DEF Done, Idle, TypeOK
<1>2. \A g \in Hooks : cmd[g].kind = "done" => cmd'[g].kind = "done"
  BY <1>1 DEF Done, TypeOK
<1>3. \A g \in Hooks : g # h => cmd'[g] = cmd[g]
  BY DEF Done, TypeOK
<1>4. /\ slot # None => slot.id \in Hooks
      /\ ack # None => ack \in Hooks
      /\ \A g \in Hooks : cmd[g].of # None => cmd[g].of \in Hooks
  BY CommandTyped DEF TypeOK, Activity
<1>5. slot' # None => cmd'[slot'.id].kind = "done"
  BY <1>1, <1>2, <1>4 DEF IdsUsed
<1>6. ack' # None => cmd'[ack'].kind = "done"
  BY <1>2, <1>4 DEF IdsUsed
<1>7. \A g \in Hooks : cmd'[g].of # None => cmd'[cmd'[g].of].kind = "done"
  BY <1>1, <1>2, <1>3, <1>4 DEF IdsUsed
<1> QED BY <1>5, <1>6, <1>7 DEF IdsUsed

LEMMA SlotKeepsIds ==
  ASSUME TypeOK, NEW h \in Hooks, NEW word \in Words, NEW held \in BOOLEAN,
         PlanSlot(h, word, held)
  PROVE  \/ slot' = slot
         \/ slot' # None /\ slot'.id = h
         \/ slot # None /\ slot' # None /\ slot'.id = slot.id
<1>1. slot' = Fresh(h, word) => slot' # None /\ slot'.id = h
  BY PlanSlotTyped, NoneAssumption, CommandTyped DEF Fresh, Activity
<1>2. ASSUME Visible(cmd[h].obs), slot' = [slot EXCEPT !.at = cmd[h].obs]
      PROVE  slot # None /\ slot' # None /\ slot'.id = slot.id
  BY <1>2, RenewedFields, CommandTyped
<1> QED BY <1>1, <1>2, PlanSlotDoes

LEMMA IdsStep ==
  ASSUME TypeOK, IdsUsed, [Next]_vars
  PROVE  IdsUsed'
<1>1. CASE UNCHANGED vars \/ Rebind \/ Tick
  BY <1>1 DEF vars, records, Rebind, Tick, IdsUsed
<1>2. ASSUME NEW h \in Hooks, NEW kind \in Kinds, Begin(h, kind)
      PROVE  IdsUsed'
  <2>1. PICK t \in 0..MaxTurn :
          cmd' = [cmd EXCEPT ![h] = [kind |-> kind, turn |-> t, obs |-> clock,
                                     of |-> IF kind = "ack" THEN slot.id ELSE None]]
    BY <1>2 DEF Begin
  <2>2. cmd[h].kind = "idle" /\ UNCHANGED <<slot, ack>>
    BY <1>2 DEF Begin, Idle, records
  <2>3. kind = "ack" => slot # None
    BY <1>2 DEF Begin, Visible, Standing, Uncleared
  <2>4. \A g \in Hooks : g # h => cmd'[g] = cmd[g]
    BY <2>1 DEF TypeOK
  <2>5. \A g \in Hooks : cmd[g].kind = "done" => cmd'[g].kind = "done"
    BY <2>2, <2>4
  <2>6. cmd'[h].of = IF kind = "ack" THEN slot.id ELSE None
    BY <2>1 DEF TypeOK
  <2>7. /\ slot # None => slot.id \in Hooks
        /\ ack # None => ack \in Hooks
        /\ \A g \in Hooks : cmd[g].of # None => cmd[g].of \in Hooks
    BY CommandTyped DEF TypeOK, Activity
  <2>8. \A g \in Hooks : cmd'[g].of # None => cmd'[cmd'[g].of].kind = "done"
    <3>1. ASSUME cmd'[h].of # None
          PROVE  cmd'[cmd'[h].of].kind = "done"
      BY <2>3, <2>5, <2>6, <2>7, <3>1 DEF IdsUsed
    <3>2. ASSUME NEW g \in Hooks, g # h, cmd'[g].of # None
          PROVE  cmd'[cmd'[g].of].kind = "done"
      BY <2>4, <2>5, <2>7, <3>2 DEF IdsUsed
    <3> QED BY <3>1, <3>2
  <2> QED BY <2>2, <2>5, <2>7, <2>8 DEF IdsUsed
<1>3. ASSUME NEW h \in Hooks, ApplyActivity(h)
      PROVE  IdsUsed'
  <2>1. PICK held \in BOOLEAN : UNCHANGED slot \/ PlanSlot(h, Word(cmd[h].kind), held)
    BY <1>3 DEF ApplyActivity
  <2>2. Done(h) /\ UNCHANGED ack /\ Word(cmd[h].kind) \in Words
    BY <1>3, WordTyped DEF ApplyActivity
  <2> QED BY <2>1, <2>2, SlotKeepsIds, IdsKept
<1>4. ASSUME NEW h \in Hooks, ApplyMark(h)
      PROVE  IdsUsed'
  <2>1. cmd[h].kind \in Words
    BY <1>4 DEF ApplyMark, Marks, Words
  <2> QED BY <1>4, <2>1, SlotKeepsIds, IdsKept DEF ApplyMark
<1>5. ASSUME NEW h \in Hooks,
             ApplyNote(h) \/ ApplyInterrupt(h) \/ ApplyReturn(h) \/ ApplyUnmark(h)
               \/ ApplyAck(h) \/ Lose(h)
      PROVE  IdsUsed'
  <2>1. Done(h) /\ slot' = slot /\ (ack' = ack \/ ack' = cmd[h].of)
    BY <1>5 DEF ApplyNote, ApplyInterrupt, ApplyReturn, ApplyUnmark, ApplyAck, Lose, records
  <2> QED BY <2>1, IdsKept
<1> QED BY <1>1, <1>2, <1>3, <1>4, <1>5 DEF Next

\* The latest word is on screen once its hook has applied it.
THEOREM LatestWordsShow == Spec => LatestWordShows
<1> DEFINE Shows == \A h \in Hooks :
             /\ ApplyActivity(h) \/ ApplyMark(h)
             /\ ~ EndsTurn(cmd[h].kind)
             /\ ~ MayBeHeld(h)
             /\ cmd[h].obs > clear
             /\ slot # None => cmd[h].obs > slot.obs
             => /\ Standing' /\ slot'.word = Word(cmd[h].kind)
                /\ slot'.word = "timed" => slot'.at = cmd[h].obs
<1>1. Init => IdsUsed
  BY DEF Init, IdsUsed, Idle
<1>2. ASSUME TypeOK, IdsUsed, NEW h \in Hooks, ApplyActivity(h) \/ ApplyMark(h),
             ~ EndsTurn(cmd[h].kind), ~ MayBeHeld(h), cmd[h].obs > clear,
             slot # None => cmd[h].obs > slot.obs
      PROVE  /\ Standing' /\ slot'.word = Word(cmd[h].kind)
             /\ slot'.word = "timed" => slot'.at = cmd[h].obs
  <2>1. UNCHANGED <<clear, ack>> /\ cmd[h].kind \in Saying \cup Marks
    BY <1>2 DEF ApplyActivity, ApplyMark
  <2>2. Word(cmd[h].kind) \in Words
    BY <2>1, WordTyped DEF Saying, Marks, Word, Words
  <2>3. cmd[h].kind \in Marks => Word(cmd[h].kind) = cmd[h].kind
    BY DEF Marks, Word
  <2>4. PlanSlot(h, Word(cmd[h].kind), FALSE)
    BY <1>2, <2>3 DEF ApplyActivity, ApplyMark, Replayed, Superseded
  <2>5. /\ Uncleared' /\ slot'.word = Word(cmd[h].kind)
        /\ slot'.id = h \/ (slot'.id = slot.id /\ Standing)
        /\ Word(cmd[h].kind) = "timed" => slot'.at = cmd[h].obs
    BY <1>2, <2>1, <2>2, <2>4, LaterWordStands
  <2>6. cmd[h].kind # "done"
    BY <2>1 DEF Saying, Marks
  <2>7. ack # h
    BY <1>2, <2>6, NoneAssumption DEF IdsUsed
  <2>8. ack' # slot'.id
    BY <2>1, <2>5, <2>7 DEF Standing
  <2> QED BY <2>5, <2>8 DEF Standing
<1>3. TypeOK /\ IdsUsed /\ [Next]_vars => [Shows]_vars
  BY <1>2
<1>4. Spec => [][Shows]_vars
  BY <1>1, <1>3, IdsStep, TypeCorrect, PTL DEF Spec
<1> QED BY <1>4 DEF LatestWordShows

-----------------------------------------------------------------------------
(***************************************************************************)
(* The poll.                                                               *)
(***************************************************************************)
Reading == at \in {"clear", "slot", "ack"}
InTime(s) == s.word = "timed" => read.now <= s.at + Limit

\* It may show s: s was right to show since the poll read its clock, or s is acknowledged, or
\* was and its acknowledgement was overwritten since.
MayShow(s) == s.id \in right \cup lost \cup {ack}

\* What is right now was right.  Once the watermark is read, an activity above it may be
\* shown; once the activity is read, it may be, or hiding it was right.
PollOK ==
  /\ Reading => Shown(read.now) \in right
  /\ at \in {"slot", "ack"} => read.clear <= clear
  /\ at = "slot" /\ slot # None /\ slot.obs > read.clear /\ InTime(slot) => MayShow(slot)
  /\ at = "ack" =>
       IF read.slot = None \/ read.slot.obs <= read.clear \/ ~InTime(read.slot) THEN None \in right
       ELSE /\ MayShow(read.slot)
            /\ ack = read.slot.id => None \in right

PollInv == TypeOK /\ ReaderOK /\ PollOK

\* What a command does to the records a poll reads: a slot it writes is above the watermark,
\* which never falls, and only what the slot shows is acknowledged.
LEMMA CommandForms ==
  ASSUME TypeOK, [Next]_vars
  PROVE  /\ clear' >= clear
         /\ slot' # slot => slot' # None /\ slot'.obs > clear' /\ ack' = ack
         /\ ack' # ack => slot # None /\ ack' = slot.id
<1> DEFINE Forms == /\ clear' >= clear
                    /\ slot' # slot => slot' # None /\ slot'.obs > clear' /\ ack' = ack
                    /\ ack' # ack => slot # None /\ ack' = slot.id
<1> USE Comparable
<1>1. ASSUME UNCHANGED <<slot, clear, ack>>
      PROVE  Forms
  BY <1>1
<1>2. ASSUME NEW h \in Hooks, NEW word \in Words, NEW held \in BOOLEAN,
             PlanSlot(h, word, held), UNCHANGED <<clear, ack>>
      PROVE  Forms
  <2>1. CASE /\ Visible(cmd[h].obs) /\ slot' = [slot EXCEPT !.at = cmd[h].obs]
    <3>1. slot' # None /\ slot'.obs = slot.obs
      BY <2>1, RenewedFields, CommandTyped
    <3> QED
      BY <1>2, <2>1, <3>1 DEF Visible, Standing, Uncleared
  <2>2. CASE slot' = Fresh(h, word) /\ cmd[h].obs > clear
    <3>1. slot' # None /\ slot'.obs = cmd[h].obs
      BY <2>2, NoneAssumption, CommandTyped DEF Fresh, Activity, TypeOK
    <3> QED
      BY <1>2, <2>2, <3>1
  <2> QED
    BY <1>1, <1>2, <2>1, <2>2, PlanSlotDoes
<1>3. ASSUME NEW obs \in Nat, ClearTo(obs), UNCHANGED <<slot, ack>>
      PROVE  Forms
  BY <1>3 DEF ClearTo
<1>4. ASSUME NEW h \in Hooks, ApplyActivity(h)
      PROVE  Forms
  <2>1. UNCHANGED <<clear, ack>> /\ cmd[h].kind \in Saying
    BY <1>4 DEF ApplyActivity
  <2>2. PICK held \in BOOLEAN : UNCHANGED slot \/ PlanSlot(h, Word(cmd[h].kind), held)
    BY <1>4 DEF ApplyActivity
  <2> QED
    BY <1>1, <1>2, <2>1, <2>2, WordTyped
<1>5. ASSUME NEW h \in Hooks, ApplyMark(h)
      PROVE  Forms
  <2>1. cmd[h].kind \in Words
    BY <1>5 DEF ApplyMark, Marks, Words
  <2> QED
    BY <1>2, <1>5, <2>1 DEF ApplyMark
<1>6. ASSUME NEW h \in Hooks, ApplyInterrupt(h)
      PROVE  Forms
  BY <1>1, <1>3, <1>6 DEF ApplyInterrupt
<1>7. ASSUME NEW h \in Hooks, ApplyReturn(h) \/ ApplyUnmark(h)
      PROVE  Forms
  BY <1>3, <1>7 DEF ApplyReturn, ApplyUnmark
<1>8. ASSUME NEW h \in Hooks, ApplyAck(h)
      PROVE  Forms
  BY <1>8 DEF ApplyAck, Uncleared
<1> QED
  BY <1>1, <1>4, <1>5, <1>6, <1>7, <1>8
  DEF Next, vars, records, Rebind, Tick, Begin, ApplyNote, Lose

\* What a poll has read, typed.
LEMMA ReadTyped ==
  ASSUME TypeOK, ReaderTypeOK
  PROVE  /\ read.now \in Nat /\ read.clear \in Nat /\ clear \in Nat /\ Limit \in Nat
         /\ read.slot # None => /\ read.slot \in Activity /\ read.slot.obs \in Nat /\ read.slot.at \in Nat
                                /\ read.slot.id \in Hooks /\ read.slot.id # None
         /\ slot # None => /\ slot \in Activity /\ slot.obs \in Nat /\ slot.at \in Nat
                           /\ slot.id \in Hooks /\ slot.id # None
  BY NoneAssumption, BoundsAssumption DEF TypeOK, ReaderTypeOK, Stamp, Activity

\* Commands that go on beside the poll leave what it may show.
LEMMA CommandsGoOnStep ==
  ASSUME PollInv, CommandsGoOn
  PROVE  PollInv'
<1> USE DEF PollInv, ReaderOK
<1>1. TypeOK'
  BY TypeStep DEF CommandsGoOn
<1>2. /\ clear' >= clear
      /\ slot' # slot => slot' # None /\ slot'.obs > clear' /\ ack' = ack
      /\ ack' # ack => slot # None /\ ack' = slot.id
  BY CommandForms DEF CommandsGoOn
<1>3. /\ UNCHANGED <<at, read, answer>> /\ at # "answered"
      /\ Reading => right' = right \cup {Shown(read.now)'} /\ lost' = lost \cup ({ack} \ {ack', None})
      /\ ~Reading => UNCHANGED <<right, lost>>
  BY DEF CommandsGoOn, Reading
<1>4. clear' \in Nat /\ (slot' # None => slot'.obs \in Nat /\ slot'.id \in Hooks /\ slot'.id # None)
  BY <1>1, NoneAssumption DEF TypeOK, Stamp, Activity
<1>5. ReaderTypeOK' /\ TabWasRight'
  <2>1. Shown(read.now)' \in Hooks \cup {None}
    BY <1>3, <1>4 DEF Shown, Visible, Standing, Uncleared
  <2>2. {ack} \ {ack', None} \subseteq Hooks
    BY DEF TypeOK
  <2> QED
    BY <1>3, <2>1, <2>2 DEF ReaderTypeOK, TabWasRight
<1>6. ASSUME Reading, NEW s, s # None, s.id # None, MayShow(s)
      PROVE  MayShow(s)'
  BY <1>3, <1>6 DEF MayShow
<1>7. ASSUME at = "slot", slot' # None, slot'.obs > read.clear, InTime(slot)'
      PROVE  MayShow(slot)'
  <2>1. CASE slot' = slot
    <3>1. InTime(slot)
      BY <1>3, <1>7, <2>1 DEF InTime
    <3> QED
      BY <1>4, <1>6, <1>7, <2>1, <3>1 DEF PollOK, MayShow, Reading
  <2>2. CASE slot' # slot
    <3>1. Uncleared'
      BY <1>2, <2>2 DEF Uncleared
    <3>2. ack' = slot'.id \/ Shown(read.now)' = slot'.id
      BY <1>3, <1>7, <3>1 DEF Shown, Visible, Standing, InTime
    <3> QED
      BY <1>3, <1>7, <3>2 DEF MayShow, Reading
  <2> QED
    BY <2>1, <2>2
<1>8. ASSUME at = "ack", ack' = read.slot.id, ack' # ack
      PROVE  None \in right'
  <2>1. slot' = slot /\ ack' = slot.id
    BY <1>2, <1>8
  <2>2. ~Standing'
    BY <2>1 DEF Standing
  <2>3. Shown(read.now)' = None
    BY <2>2 DEF Shown, Visible
  <2> QED
    BY <1>3, <1>8, <2>3 DEF Reading
<1>9. CASE ~Reading
  BY <1>1, <1>3, <1>5, <1>9 DEF PollOK, Reading
<1>10. CASE at = "clear"
  BY <1>1, <1>3, <1>5, <1>10 DEF PollOK, Reading
<1>11. CASE at = "slot"
  <2>1. Shown(read.now)' \in right'
    BY <1>3, <1>11 DEF Reading
  <2>2. read.clear <= clear'
    BY <1>2, <1>4, <1>11, ReadTyped DEF PollOK
  <2> QED
    BY <1>1, <1>3, <1>5, <1>7, <1>11, <2>1, <2>2 DEF PollOK, Reading
<1>12. CASE at = "ack"
  <2>1. Shown(read.now)' \in right' /\ right \subseteq right'
    BY <1>3, <1>12 DEF Reading
  <2>2. read.clear <= clear'
    BY <1>2, <1>4, <1>12, ReadTyped DEF PollOK
  <2>3. InTime(read.slot)' <=> InTime(read.slot)
    BY <1>3 DEF InTime
  <2>4. CASE read.slot = None \/ read.slot.obs <= read.clear \/ ~InTime(read.slot)
    BY <1>1, <1>3, <1>5, <1>12, <2>1, <2>2, <2>3, <2>4 DEF PollOK, Reading
  <2>5. CASE ~(read.slot = None \/ read.slot.obs <= read.clear \/ ~InTime(read.slot))
    <3>1. MayShow(read.slot) /\ (ack = read.slot.id => None \in right)
      BY <1>12, <2>5 DEF PollOK
    <3>2. MayShow(read.slot)'
      BY <1>3, <1>12, <2>5, <3>1, ReadTyped DEF MayShow, Reading
    <3>3. ack' = read.slot.id => None \in right'
      BY <1>8, <1>12, <2>1, <3>1
    <3> QED
      BY <1>1, <1>3, <1>5, <1>12, <2>1, <2>2, <2>3, <2>5, <3>2, <3>3 DEF PollOK, Reading
  <2> QED
    BY <2>4, <2>5
<1> QED
  BY <1>9, <1>10, <1>11, <1>12 DEF Reading

\* The poll's own steps.
LEMMA PollStep ==
  ASSUME PollInv, Poll \/ ReadClear \/ ReadSlot \/ ReadAck \/ ReadAgain
  PROVE  PollInv'
<1> USE DEF PollInv, ReaderOK
<1>1. UNCHANGED vars
  BY DEF Poll, StartRead, ReadClear, ReadSlot, ReadAck, ReadAgain, Steps
<1>2. TypeOK' /\ UNCHANGED <<slot, clear, ack, clock>>
  BY <1>1 DEF vars, records, TypeOK
<1>3. ASSUME NEW again \in BOOLEAN, StartRead(again)
      PROVE  PollInv'
  <2>1. /\ at' = "clear" /\ right' = {Shown(clock)} /\ lost' = {} /\ answer' = answer
        /\ read' = [now |-> clock, clear |-> 0, slot |-> None, again |-> again]
    BY <1>3 DEF StartRead
  <2>2. read' \in [now : Stamp, clear : Stamp, slot : Activity \cup {None}, again : BOOLEAN]
        /\ read'.now = clock
    BY <2>1, BoundsAssumption DEF TypeOK, Stamp
  <2>3. Shown(read.now)' = Shown(clock)
    BY <1>2, <2>2 DEF Shown, Visible, Standing, Uncleared
  <2>4. Shown(clock) \in Hooks \cup {None}
    BY ReadTyped DEF Shown, Visible, Standing, Uncleared
  <2> QED
    BY <1>2, <2>1, <2>2, <2>3, <2>4 DEF ReaderTypeOK, TabWasRight, PollOK, Reading
<1>4. CASE ReadClear
  <2>1. at = "clear" /\ at' = "slot" /\ read' = [read EXCEPT !.clear = clear] /\ UNCHANGED <<right, lost, answer>>
    BY <1>4 DEF ReadClear, Steps
  <2>2. read' \in [now : Stamp, clear : Stamp, slot : Activity \cup {None}, again : BOOLEAN]
        /\ read'.now = read.now /\ read'.clear = clear
    BY <2>1 DEF ReaderTypeOK, TypeOK
  <2>3. Shown(read.now)' = Shown(read.now) /\ Shown(read.now) \in right
    BY <1>2, <2>1, <2>2 DEF Shown, Visible, Standing, Uncleared, PollOK, Reading
  <2>4. slot # None /\ slot.obs > clear /\ InTime(slot) => MayShow(slot)
    BY <2>3 DEF InTime, MayShow, Shown, Visible, Standing, Uncleared
  <2>5. (InTime(slot)' <=> InTime(slot)) /\ (MayShow(slot)' <=> MayShow(slot))
    BY <1>2, <2>1, <2>2 DEF InTime, MayShow
  <2> QED
    BY <1>2, <2>1, <2>2, <2>3, <2>4, <2>5, ReadTyped DEF ReaderTypeOK, TabWasRight, PollOK, Reading
<1>5. CASE ReadSlot
  <2>1. at = "slot" /\ at' = "ack" /\ read' = [read EXCEPT !.slot = slot] /\ UNCHANGED <<right, lost, answer>>
    BY <1>5 DEF ReadSlot, Steps
  <2>2. read' \in [now : Stamp, clear : Stamp, slot : Activity \cup {None}, again : BOOLEAN]
        /\ read'.now = read.now /\ read'.clear = read.clear /\ read'.slot = slot
    BY <2>1 DEF ReaderTypeOK, TypeOK
  <2>3. Shown(read.now)' = Shown(read.now) /\ Shown(read.now) \in right /\ read.clear <= clear
    BY <1>2, <2>1, <2>2 DEF Shown, Visible, Standing, Uncleared, PollOK, Reading
  <2>4. /\ (InTime(read.slot)' <=> InTime(slot)) /\ (MayShow(read.slot)' <=> MayShow(slot))
        /\ ack' = ack
    BY <1>2, <2>1, <2>2 DEF InTime, MayShow
  <2>5. CASE slot = None \/ slot.obs <= read.clear \/ ~InTime(slot)
    <3>1. ~Visible(read.now)
      BY <2>3, <2>5, ReadTyped DEF InTime, Visible, Standing, Uncleared
    <3>2. None \in right
      BY <2>3, <3>1 DEF Shown
    <3> QED
      BY <1>2, <2>1, <2>2, <2>3, <2>4, <2>5, <3>2 DEF ReaderTypeOK, TabWasRight, PollOK, Reading
  <2>6. CASE ~(slot = None \/ slot.obs <= read.clear \/ ~InTime(slot))
    <3>1. MayShow(slot)
      BY <2>1, <2>6, ReadTyped DEF PollOK
    <3>2. ack = slot.id => None \in right
      BY <2>3 DEF Shown, Visible, Standing
    <3> QED
      BY <1>2, <2>1, <2>2, <2>3, <2>4, <2>6, <3>1, <3>2 DEF ReaderTypeOK, TabWasRight, PollOK, Reading
  <2> QED
    BY <2>5, <2>6
<1>6. CASE ReadAck
  <2>1. /\ at = "ack" /\ at' = "answered" /\ UNCHANGED <<read, right, lost>>
        /\ answer' = IF Skewed THEN "unsure"
                     ELSE IF Left = None \/ Lapsed THEN None
                     ELSE IF ack = Left.id THEN None ELSE Left.id
    BY <1>6 DEF ReadAck, Steps
  <2>2. Left # None => Left = read.slot /\ read.slot # None /\ read.slot.obs > read.clear
    BY DEF Left
  <2>3. Left = None => read.slot = None \/ read.slot.obs <= read.clear
    BY ReadTyped DEF Left
  <2>4. Left # None => (Lapsed <=> ~InTime(read.slot))
    BY <2>2, ReadTyped DEF Lapsed, InTime
  <2>5. Left = None \/ Lapsed => None \in right
    BY <2>1, <2>2, <2>3, <2>4 DEF PollOK
  <2>6. ~(Left = None \/ Lapsed) => MayShow(read.slot) /\ (ack = read.slot.id => None \in right)
    BY <2>1, <2>2, <2>4, ReadTyped DEF PollOK
  <2>7. answer' = "unsure" \/ answer' \in right \cup lost
    BY <2>1, <2>2, <2>5, <2>6 DEF MayShow
  <2>8. answer' \in Answers
    BY <2>1, <2>7 DEF ReaderTypeOK, Answers
  <2> QED
    BY <1>2, <2>1, <2>7, <2>8 DEF ReaderTypeOK, TabWasRight, PollOK, Reading
<1> QED
  BY <1>3, <1>4, <1>5, <1>6 DEF Poll, ReadAgain

\* read_attention_view and the plugin's poll: what is pieced together from three files read
\* without a lock was right to show at some moment of the read, but for a word whose
\* acknowledgement another one replaced meanwhile.
THEOREM PollsShowWhatWasRight == ReaderSpec => []ReaderOK
<1>1. ReaderInit => PollInv
  <2> SUFFICES ASSUME ReaderInit
               PROVE  PollInv
    OBVIOUS
  <2>1. TypeOK
    BY NoneAssumption, BoundsAssumption DEF ReaderInit, Init, TypeOK, Idle, Stamp
  <2> QED
    BY <2>1, BoundsAssumption
    DEF ReaderInit, PollInv, ReaderOK, ReaderTypeOK, TabWasRight, PollOK, Reading, Answers, Stamp
<1>2. PollInv /\ [ReaderNext]_<<vars, readerVars>> => PollInv'
  <2> SUFFICES ASSUME PollInv, [ReaderNext]_<<vars, readerVars>>
               PROVE  PollInv'
    OBVIOUS
  <2>1. CASE UNCHANGED <<vars, readerVars>>
    BY <2>1 DEF vars, records, readerVars, PollInv, ReaderOK, ReaderTypeOK, TabWasRight, PollOK,
                TypeOK, Reading, InTime, MayShow, Shown, Visible, Standing, Uncleared
  <2> QED
    BY <2>1, CommandsGoOnStep, PollStep DEF ReaderNext
<1>3. PollInv => ReaderOK
  BY DEF PollInv
<1> QED
  BY <1>1, <1>2, <1>3, PTL DEF ReaderSpec
=============================================================================
