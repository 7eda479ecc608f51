---------------------------- MODULE LeadActivity ----------------------------
(***************************************************************************)
(* The activity of one binding: the slot its tab shows, the watermark that *)
(* clears it, the user's acknowledgement of it, and the lead's recorded    *)
(* events that decide whether a turn's end is still news.                  *)
(*                                                                         *)
(* A hook, a `mark`, a prompt return and an acknowledgement are commands   *)
(* of their own.  Each reads the clock when it begins and applies itself   *)
(* later under the launch lock and the claim lock, so an application is    *)
(* one step and commands apply in any order.  A command writes the slot    *)
(* (or the watermark), then the lifecycle file, then the prompt record,    *)
(* and may be killed between any two.                                      *)
(*                                                                         *)
(* An event id is named by the command that wrote it.  Pools are not       *)
(* bounded here: nothing is evicted.                                       *)
(***************************************************************************)
EXTENDS Naturals

CONSTANTS
  Hooks,     \* commands, each run once
  Kinds,     \* what they may be: the part of the system a run looks at
  MaxTurn,   \* bound: the lead's turns
  MaxClock,  \* bound: the clock
  Limit,     \* the time limit of a mark that has one
  None       \* no activity, no acknowledgement

\* Hooks that say something, the lead's others, and the user's commands.
Saying == {"prompt", "tool", "ask", "childask", "stop", "held"}
Marks == {"mark", "timed"}
AllKinds == Saying \cup {"note", "interrupt"} \cup Marks \cup {"unmark", "return", "ack"}

ASSUME KindsAssumption == Kinds \subseteq AllKinds
ASSUME BoundsAssumption == MaxTurn \in Nat /\ MaxClock \in Nat \ {0} /\ Limit \in Nat \ {0}

Stamp == 0..MaxClock
Words == {"thinking", "notify", "stop", "held", "mark", "timed"}
Activity == [id : Hooks, word : Words, obs : Stamp, at : Stamp]
Seen == [kind : {"prompt", "work", "note", "stop", "interrupt"}, turn : 0..MaxTurn, obs : Stamp]
ASSUME NoneAssumption == None \notin Hooks \cup Words \cup Activity

VARIABLES
  clock,   \* what every command and every tab reads, wall and monotonic alike
  turn,    \* the turn the lead is in
  bound,   \* the pointer names this binding, and whether its end stands
  slot,    \* activity.json; at: the wall time of its last write
  clear,   \* activity-clear.json: the watermark's stamp, 0 for none
  ack,     \* ack.json: the event id the user has seen
  pool,    \* lifecycle.json: the lead's recorded events
  latest,  \* prompts.json: the stamp of the latest prompt, 0 for none
  cmd      \* where each command is, and what it carries

records == <<slot, clear, ack, pool, latest>>
vars == <<clock, turn, bound, records, cmd>>

Idle == [kind |-> "idle", turn |-> 0, obs |-> 0, of |-> None]

TypeOK ==
  /\ clock \in Stamp
  /\ turn \in 0..MaxTurn
  /\ bound \in {"current", "ended", "away"}
  /\ slot \in Activity \cup {None}
  /\ clear \in Stamp
  /\ ack \in Hooks \cup {None}
  /\ pool \subseteq Seen
  /\ latest \in Stamp
  /\ cmd \in [Hooks -> [kind : Kinds \cup {"idle", "done"}, turn : 0..MaxTurn,
                        obs : Stamp, of : Hooks \cup {None}]]

Init ==
  /\ clock = 1
  /\ turn = 0
  /\ bound = "current"
  /\ slot = None
  /\ clear = 0
  /\ ack = None
  /\ pool = {}
  /\ latest = 0
  /\ cmd = [h \in Hooks |-> Idle]

(***************************************************************************)
(* What the records say.                                                   *)
(***************************************************************************)

\* uncleared: the activity is newer than its slot's watermark.
Uncleared == slot # None /\ slot.obs > clear

\* activity_visible: neither cleared nor seen by the user, and inside its time
\* limit at `now`, which a command reads when it begins and a tab when it draws.
Standing == Uncleared /\ ack # slot.id
Visible(now) == Standing /\ (slot.word = "timed" => now <= slot.at + Limit)

\* newer_lead_observation: the lead has gone on since.
NewerSeen(obs) == latest > obs \/ \E o \in pool : o.obs > obs

EndsTurn(kind) == kind \in {"stop", "held", "interrupt"}

\* storage_key: the pools keep one prompt, one reply and one interrupt a turn.
SameKey(o, p) == o.kind = p.kind /\ o.kind \notin {"work", "note"} /\ o.turn = p.turn

\* LifecycleSnapshot::repeats: a turn's end named again by an event observed
\* at obs.  Failing evidence that the turn is over or went on, the two are
\* compared.
Repeats(end, obs, alike) ==
  LET After == {o \in pool : o.obs > end.obs}
  IN \/ \E o \in After : o.kind = "prompt" /\ o.turn # end.turn /\ o.obs < obs
     \/ /\ \A o \in After : o.obs >= obs
        /\ ~ (latest > end.obs /\ latest < obs)
        /\ alike

\* LifecycleSnapshot::reduce: the pool with one more event, if it is news.
PoolWith(o, alike) ==
  LET same == {p \in pool : SameKey(o, p)}
  IN IF \E p \in same : \/ o.obs <= p.obs
                        \/ o.kind = "prompt"
                        \/ Repeats(p, o.obs, alike)
     THEN pool ELSE (pool \ same) \cup {o}

\* append_observation and apply_observed_outputs: the lifecycle file, then the
\* prompt record; the command may die before either.
Records(h, kind, alike) ==
  LET o == [kind |-> kind, turn |-> cmd[h].turn, obs |-> cmd[h].obs]
      later == IF kind = "prompt" /\ cmd[h].obs > latest THEN cmd[h].obs ELSE latest
  IN \/ UNCHANGED <<pool, latest>>
     \/ pool' = PoolWith(o, alike) /\ latest' \in {latest, later}

\* What the pools call the event of a hook.
SeenKind(kind) ==
  CASE kind \in {"tool", "ask"} -> "work"
    [] kind = "held" -> "stop"
    [] OTHER -> kind

-----------------------------------------------------------------------------
(***************************************************************************)
(* The lead, the user and the session go on.                               *)
(***************************************************************************)

\* A command begins: it reads the clock.  A prompt starts a turn or joins the
\* one that runs; a stop may be delivered again, turns later; a user dismisses
\* what the tab shows.
Begin(h, kind) ==
  /\ cmd[h] = Idle
  /\ kind = "ack" => Visible(clock)
  /\ \E t \in 0..MaxTurn :
       /\ CASE kind = "prompt" -> t \in {turn, turn + 1}
            [] kind \in {"stop", "held"} -> t <= turn
            [] OTHER -> t = turn
       /\ turn' = IF kind = "prompt" THEN t ELSE turn
       /\ cmd' = [cmd EXCEPT ![h] =
                    [kind |-> kind, turn |-> t, obs |-> clock,
                     of |-> IF kind = "ack" THEN slot.id ELSE None]]
  /\ UNCHANGED <<clock, bound, records>>

\* The session ends, starts again, or gives the pane to another and takes it
\* back: commits of other hooks, under the same locks.
Rebind ==
  /\ bound' \in {"current", "ended", "away"} \ {bound}
  /\ UNCHANGED <<clock, turn, records, cmd>>

\* Time passes.  Two commands may read the same time.
Tick ==
  /\ clock < MaxClock
  /\ clock' = clock + 1
  /\ UNCHANGED <<turn, bound, records, cmd>>

Done(h) == cmd' = [cmd EXCEPT ![h] = [Idle EXCEPT !.kind = "done"]]

\* A command is refused, times out on a lock or is killed before it writes.
Lose(h) ==
  /\ cmd[h].kind \notin {"idle", "done"}
  /\ Done(h)
  /\ UNCHANGED <<clock, turn, bound, records>>

(***************************************************************************)
(* Activities.                                                             *)
(***************************************************************************)

\* The content an activity has: the same content is a repetition.
Word(kind) ==
  CASE kind \in {"prompt", "tool"} -> "thinking"
    [] kind \in {"ask", "childask"} -> "notify"
    [] OTHER -> kind

\* Mutant: what is repeated need not be on screen any more.
PlanSlotRepeatingUnseen(h, word, held) ==
  LET repeated == slot # None /\ slot.word = word
      older == slot # None /\ cmd[h].obs <= slot.obs
  IN slot' = IF repeated
             THEN IF word = "timed" THEN [slot EXCEPT !.at = cmd[h].obs] ELSE slot
             ELSE IF held \/ older \/ cmd[h].obs <= clear
             THEN slot
             ELSE [id |-> h, word |-> word, obs |-> cmd[h].obs, at |-> cmd[h].obs]

\* plan_activity: what is on screen is not said again, though a time limit
\* starts again; otherwise the later word takes the slot, unless the watermark
\* covers it.
PlanSlot(h, word, held) ==
  LET repeated == Visible(cmd[h].obs) /\ slot.word = word
      older == slot # None /\ cmd[h].obs <= slot.obs
  IN slot' = IF repeated
             THEN IF word = "timed" THEN [slot EXCEPT !.at = cmd[h].obs] ELSE slot
             ELSE IF held \/ older \/ cmd[h].obs <= clear
             THEN slot
             ELSE [id |-> h, word |-> word, obs |-> cmd[h].obs, at |-> cmd[h].obs]

\* A child's permission request stays on screen while that child waits and the
\* lead only calls tools.  The children are another module's: they may wait.
MayBeHeld(h) ==
  /\ cmd[h].kind = "tool"
  /\ Visible(cmd[h].obs)
  /\ slot.word \in {"notify"} \cup Marks

\* The end of a turn whose end the pools hold is that end again.
Replayed(h, alike) ==
  /\ EndsTurn(cmd[h].kind)
  /\ \E p \in pool : /\ p.kind = SeenKind(cmd[h].kind) /\ p.turn = cmd[h].turn
                     /\ Repeats(p, cmd[h].obs, alike)

\* Mutant: only the activity's own stamp dates the turn.
SupersededBySlot(h) ==
  /\ EndsTurn(cmd[h].kind)
  /\ \/ slot # None /\ slot.obs > cmd[h].obs
     \/ cmd[h].obs <= clear
     \/ bound = "ended"

\* A turn's end is no news once the lead went on, by any record of it.
Superseded(h) ==
  /\ EndsTurn(cmd[h].kind)
  /\ \/ slot # None /\ slot.obs > cmd[h].obs
     \/ NewerSeen(cmd[h].obs)
     \/ cmd[h].obs <= clear
     \/ bound = "ended"

\* apply_activity.  A child's request is recorded in the children's file.
ApplyActivity(h) ==
  /\ cmd[h].kind \in Saying
  /\ bound # "away"
  /\ Done(h)
  /\ \E alike, held \in BOOLEAN :
       /\ held => MayBeHeld(h)
       /\ IF Replayed(h, alike) \/ Superseded(h)
          THEN UNCHANGED slot
          ELSE PlanSlot(h, Word(cmd[h].kind), held)
       /\ IF cmd[h].kind = "childask"
          THEN UNCHANGED <<pool, latest>>
          ELSE Records(h, SeenKind(cmd[h].kind), alike)
  /\ UNCHANGED <<clock, turn, bound, clear, ack>>

\* apply_observation: an event that only goes on record.
ApplyNote(h) ==
  /\ cmd[h].kind = "note"
  /\ bound # "away"
  /\ Done(h)
  /\ Records(h, "note", FALSE)
  /\ UNCHANGED <<clock, turn, bound, slot, clear, ack>>

\* apply_mark_activity.
ApplyMark(h) ==
  /\ cmd[h].kind \in Marks
  /\ bound # "away"
  /\ Done(h)
  /\ PlanSlot(h, cmd[h].kind, FALSE)
  /\ UNCHANGED <<clock, turn, bound, clear, ack, pool, latest>>

(***************************************************************************)
(* Clears and acknowledgements.                                            *)
(***************************************************************************)

\* Mutant: the last clear to be applied is the watermark.
ClearToLast(obs) == clear' = obs

\* activity_clear_plan: a watermark already newer wins.
ClearTo(obs) == clear' = IF obs > clear THEN obs ELSE clear

\* apply_clear_event, for Codex's Interrupt.
ApplyInterrupt(h) ==
  /\ cmd[h].kind = "interrupt"
  /\ bound # "away"
  /\ Done(h)
  /\ IF (slot # None /\ slot.obs > cmd[h].obs) \/ bound = "ended"
     THEN UNCHANGED clear
     ELSE ClearTo(cmd[h].obs)
  /\ \E alike \in BOOLEAN : Records(h, "interrupt", alike)
  /\ UNCHANGED <<clock, turn, bound, slot, ack>>

\* clear_at_prompt: the shell is back.
ApplyReturn(h) ==
  /\ cmd[h].kind = "return"
  /\ bound # "away"
  /\ Done(h)
  /\ ClearTo(cmd[h].obs)
  /\ UNCHANGED <<clock, turn, bound, slot, ack, pool, latest>>

\* apply_mark_clear: a source withdraws its own activity.
ApplyUnmark(h) ==
  /\ cmd[h].kind = "unmark"
  /\ bound # "away"
  /\ Uncleared /\ slot.word \in Marks
  /\ Done(h)
  /\ ClearTo(cmd[h].obs)
  /\ UNCHANGED <<clock, turn, bound, slot, ack, pool, latest>>

\* acknowledge_activity: only of the activity the pane still shows, and never
\* of a held turn end.
ApplyAck(h) ==
  /\ cmd[h].kind = "ack"
  /\ bound # "away"
  /\ Uncleared /\ slot.id = cmd[h].of /\ slot.word # "held"
  /\ Done(h)
  /\ ack' = cmd[h].of
  /\ UNCHANGED <<clock, turn, bound, slot, clear, pool, latest>>

Next ==
  \/ Rebind \/ Tick
  \/ \E h \in Hooks :
       \/ \E kind \in Kinds : Begin(h, kind)
       \/ ApplyActivity(h) \/ ApplyNote(h) \/ ApplyMark(h)
       \/ ApplyInterrupt(h) \/ ApplyReturn(h) \/ ApplyUnmark(h) \/ ApplyAck(h)
       \/ Lose(h)

Spec == Init /\ [][Next]_vars

-----------------------------------------------------------------------------
(***************************************************************************)
(* Properties.                                                             *)
(***************************************************************************)

Screen == INSTANCE TabScreen WITH
  top <- IF Uncleared THEN slot.obs ELSE clear,
  shown <- IF Visible(clock) THEN slot.id ELSE None,
  lapsing <- IF Standing /\ slot.word = "timed" THEN slot.id ELSE None,
  Words <- Hooks

\* The tab only ever moves on to a later word, and what was hidden from it -
\* dismissed, cleared or withdrawn - stays hidden, whatever late hooks, clears
\* and acknowledgements do to the three files it is read from.
ScreenMovesOn == Screen!Spec

\* A turn's end is on screen only while nothing recorded says that the lead
\* was prompted or worked after it.
TurnEndIsLatest ==
  Standing /\ slot.word \in {"stop", "held"} =>
    /\ latest <= slot.obs
    /\ \A o \in pool : o.kind \in {"prompt", "work"} => o.obs <= slot.obs

\* The latest word is on screen once its hook has applied it: nothing that is
\* no longer visible makes it pass for a repetition.  A word a child's request
\* may be held against, and a turn's end, have rules of their own.
LatestWordShows ==
  [][\A h \in Hooks :
       /\ ApplyActivity(h) \/ ApplyMark(h)
       /\ ~ EndsTurn(cmd[h].kind)
       /\ ~ MayBeHeld(h)
       /\ cmd[h].obs > clear
       /\ slot # None => cmd[h].obs > slot.obs
       => /\ Standing' /\ slot'.word = Word(cmd[h].kind)
          /\ slot'.word = "timed" => slot'.at = cmd[h].obs]_vars

\* docs/accepted-limitations.md, of a lead turn end: a newer prompt supersedes
\* an older one, even when both prompts produced the same activity.
NewerPromptSupersedes ==
  [][\A h \in Hooks :
       EndsTurn(cmd[h].kind) /\ cmd'[h].kind = "done" /\ latest > cmd[h].obs
         => UNCHANGED <<slot, clear>>]_vars
=============================================================================
