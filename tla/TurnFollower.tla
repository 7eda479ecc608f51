---------------------------- MODULE TurnFollower ----------------------------
(***************************************************************************)
(* Codex turns that end on a model error run no hook.  Hooks of a turn     *)
(* leave a follower process behind that reads Codex's rollout file and     *)
(* records such an end.  One follower at a time holds the binding's        *)
(* follower lock, names the turn it follows in it, and goes on to each     *)
(* later turn; others wait for it, leave the turn to it, or read once.     *)
(***************************************************************************)
EXTENDS Integers, Sequences, FiniteSets, FiniteSetsExt

CONSTANTS
  MaxTurns,   \* bound: lead turns
  MaxHooks,   \* bound: hooks of the lead
  MaxDeaths,  \* bound: hooks and followers that die
  MaxReviews  \* bound: /review sessions inside a turn

ASSUME FollowerAssumption == {MaxTurns, MaxHooks, MaxDeaths, MaxReviews} \subseteq Nat

VARIABLES
  rollout,    \* the rollout file: what Codex wrote of its turns, in order
  running,    \* the lead turn that runs, 0 for none
  turns,      \* the lead turns so far; turns are numbered as they start
  hook,       \* the hook that runs; Codex waits for it
  hooksRun,   \* the hooks so far; each reads a later stamp
  records,    \* lifecycle.json: the lead's recorded events
  latest,     \* prompts.json: the stamp of the lead's latest prompt
  slot,       \* activity.json, and the turn that wrote it
  followers,  \* the follower processes, in the order they were started
  lock,       \* who holds the follower lock: a follower, Asker or Free
  named,      \* the turn the lock file names, whoever holds it
  bound,      \* the binding is current and its host process runs
  deaths,     \* hooks and followers that died
  noticed     \* history: turns with a hook that ran to its end

followVars == <<rollout, running, turns, hook, hooksRun, records, latest, slot, followers,
                lock, named, bound, deaths, noticed>>
codex == <<rollout, running, turns>>
files == <<records, latest, slot>>

Turns == 1..MaxTurns
\* The turn id of a session /review starts inside turn t.
Review(t) == MaxTurns + t
TurnIds == 1..(2 * MaxTurns)
Free == 0
Asker == -1
NoHook == [at |-> "none", kind |-> "none", turn |-> 0]
\* Stamps of hooks, so far apart that ends fit just after what they follow.
Stamp(n) == (MaxTurns + 2) * n
Stamps == 0..Stamp(MaxHooks + 1)

Line == [kind : {"start", "failed", "complete"}, turn : TurnIds, parent : 0..MaxTurns]
Record == [turn : TurnIds, kind : {"prompt", "work", "stop", "failed"}, obs : Stamps]
Follower == [at : {"waiting", "reading", "recording", "left"}, turn : 0..(2 * MaxTurns),
             before : SUBSET TurnIds, offset : Nat, ended : 0..(2 * MaxTurns), held : BOOLEAN]

FollowTypeOK ==
  /\ rollout \in Seq(Line)
  /\ running \in 0..turns /\ turns \in 0..MaxTurns
  /\ hook \in [at : {"none", "apply", "start", "release"}, kind : {"none", "prompt", "work", "stop"},
               turn : 0..MaxTurns]
  /\ hooksRun \in 0..MaxHooks
  /\ records \subseteq Record
  /\ latest \in Stamps
  /\ slot \in [word : {"none", "thinking", "stop", "notify"}, obs : Stamps, by : 0..(2 * MaxTurns)]
  /\ followers \in Seq(Follower) /\ Len(followers) <= MaxHooks
  /\ lock \in {Free, Asker} \cup DOMAIN followers
  /\ \A f \in DOMAIN followers :
       followers[f].held <=> lock = f
  /\ named \in 0..(2 * MaxTurns)
  /\ bound \in BOOLEAN /\ deaths \in 0..MaxDeaths /\ noticed \subseteq Turns

FollowInit ==
  /\ rollout = << >> /\ running = 0 /\ turns = 0
  /\ hook = NoHook /\ hooksRun = 0
  /\ records = {} /\ latest = 0 /\ slot = [word |-> "none", obs |-> 0, by |-> 0]
  /\ followers = << >> /\ lock = Free /\ named = 0
  /\ bound = TRUE /\ deaths = 0 /\ noticed = {}

Last(set) == CHOOSE r \in set : \A q \in set : q.obs <= r.obs
Of(t) == {r \in records : r.turn = t}
Ends(r) == r.kind \in {"stop", "failed"}
JustAfter(stamps) == Max(stamps) + 1

-----------------------------------------------------------------------------
(***************************************************************************)
(* Codex.  It waits for each hook it runs.                                 *)
(***************************************************************************)
Writes(kind, t, parent) == rollout' = Append(rollout, [kind |-> kind, turn |-> t, parent |-> parent])

\* A turn the user prompts for, whose prompt hook runs first of all, or one that goes on
\* with a goal and runs no prompt hook; the model's own goals name the turn before.
StartTurn ==
  /\ bound /\ running = 0 /\ hook = NoHook /\ turns < MaxTurns
  /\ turns' = turns + 1 /\ running' = turns + 1
  /\ \/ /\ Writes("start", turns + 1, 0)
        /\ hooksRun < MaxHooks /\ hooksRun' = hooksRun + 1
        /\ hook' = [at |-> "apply", kind |-> "prompt", turn |-> turns + 1]
     \/ /\ turns > 0 /\ \E parent \in {0, turns} : Writes("start", turns + 1, parent)
        /\ UNCHANGED <<hook, hooksRun>>
  /\ UNCHANGED <<files, followers, lock, named, bound, deaths, noticed>>

\* A prompt typed into the turn, a tool call, or a Stop, which a hook may block.
RunHook(kind) ==
  /\ bound /\ running # 0 /\ hook = NoHook
  /\ hooksRun < MaxHooks /\ hooksRun' = hooksRun + 1
  /\ hook' = [at |-> "apply", kind |-> kind, turn |-> running]
  /\ UNCHANGED <<codex, files, followers, lock, named, bound, deaths, noticed>>

EndTurn(kind) ==
  /\ bound /\ running # 0 /\ hook = NoHook
  /\ Writes(kind, running, 0)
  /\ running' = 0
  /\ UNCHANGED <<turns, hook, hooksRun, files, followers, lock, named, bound, deaths, noticed>>

StartReview ==
  /\ bound /\ running # 0 /\ hook = NoHook
  /\ Cardinality({i \in DOMAIN rollout : rollout[i].turn > MaxTurns}) < MaxReviews
  /\ Writes("start", Review(running), running)
  /\ UNCHANGED <<running, turns, hook, hooksRun, files, followers,
                 lock, named, bound, deaths, noticed>>

\* The binding ends or is replaced, or the host process exits; what Codex does after is no
\* matter of the binding's.
Unbind ==
  /\ bound /\ bound' = FALSE
  /\ UNCHANGED <<codex, hook, hooksRun, files, followers, lock, named, deaths, noticed>>

-----------------------------------------------------------------------------
(***************************************************************************)
(* Hooks: their records, written under the launch and claim locks, and     *)
(* then perhaps a follower.                                                *)
(***************************************************************************)
Says(kind) == IF kind = "stop" THEN "stop" ELSE "thinking"

\* A word that stands is not written again; an end that something newer follows is no news.
SlotAfter(kind, t, obs) ==
  IF slot.word = Says(kind) \/ slot.obs > obs
     \/ (kind = "stop" /\ (latest > obs \/ \E r \in records : r.obs > obs))
  THEN slot ELSE [word |-> Says(kind), obs |-> obs, by |-> t]

\* The pools keep one prompt and one Stop of a turn.
RecordsAfter(kind, t, obs) ==
  IF kind = "prompt" /\ \E r \in Of(t) : r.kind = "prompt" THEN records
  ELSE (IF kind = "stop" THEN records \ {r \in Of(t) : r.kind = "stop"} ELSE records)
       \cup {[turn |-> t, kind |-> kind, obs |-> obs]}

\* apply_activity; a hook that dies leaves the first of its files.
ApplyHook ==
  /\ hook.at = "apply"
  /\ LET obs == Stamp(hooksRun)
         wrote == [slot |-> SlotAfter(hook.kind, hook.turn, obs),
                   records |-> RecordsAfter(hook.kind, hook.turn, obs),
                   latest |-> IF hook.kind = "prompt" THEN obs ELSE latest]
     IN \/ /\ bound
           /\ slot' = wrote.slot /\ records' = wrote.records /\ latest' = wrote.latest
           /\ hook' = [hook EXCEPT !.at = "start"]
           /\ UNCHANGED deaths
        \/ /\ ~bound
           /\ hook' = [hook EXCEPT !.at = "start"]
           /\ UNCHANGED <<files, deaths>>
        \/ /\ deaths < MaxDeaths /\ deaths' = deaths + 1
           /\ hook' = NoHook
           /\ bound
           /\ slot' = wrote.slot
           /\ \/ UNCHANGED <<records, latest>>
              \/ records' = wrote.records /\ UNCHANGED latest
  /\ UNCHANGED <<codex, hooksRun, followers, lock, named, bound, noticed>>

NewFollower ==
  [at |-> "waiting", turn |-> hook.turn, before |-> {}, offset |-> Len(rollout),
   ended |-> 0, held |-> FALSE]

AsksFirst(kind) == kind # "prompt"

\* start_turn_follower.  is_followed holds the lock shared for the time it asks.
StartFollower ==
  /\ hook.at = "start"
  /\ IF AsksFirst(hook.kind)
     THEN /\ IF lock = Free THEN lock' = Asker /\ hook' = [hook EXCEPT !.at = "release"]
             ELSE hook' = NoHook /\ UNCHANGED lock
          /\ UNCHANGED followers
          /\ noticed' = IF lock = Free THEN noticed ELSE noticed \cup {hook.turn}
     ELSE /\ followers' = Append(followers, NewFollower)
          /\ hook' = NoHook
          /\ noticed' = noticed \cup {hook.turn}
          /\ UNCHANGED lock
  /\ UNCHANGED <<codex, hooksRun, files, named, bound, deaths>>

StartAfterAsking ==
  /\ hook.at = "release"
  /\ lock' = Free
  /\ followers' = Append(followers, NewFollower)
  /\ hook' = NoHook
  /\ noticed' = noticed \cup {hook.turn}
  /\ UNCHANGED <<codex, hooksRun, files, named, bound, deaths>>

-----------------------------------------------------------------------------
(***************************************************************************)
(* Followers.                                                              *)
(***************************************************************************)
Left == [at |-> "left", turn |-> 0, before |-> {}, offset |-> 0, ended |-> 0, held |-> FALSE]

\* Mutant: the lock outlives the follower.
LeavesLocked(f) == followers' = [followers EXCEPT ![f] = Left] /\ UNCHANGED lock

Leave(f) == /\ followers' = [followers EXCEPT ![f] = Left]
            /\ lock' = IF lock = f THEN Free ELSE lock

Unchanged == UNCHANGED <<codex, hook, hooksRun, bound, noticed>>

\* Mutant: a follower kept out of the lock leaves without a look.
LeavesWhenKeptOut(f) == Leave(f)

\* A follower that waited for as long as it may reads once without the lock.
KeptOut(f) == followers' = [followers EXCEPT ![f].at = "reading"] /\ UNCHANGED lock

\* The pane's claim still names the launch, the launch the binding, which has not ended, and
\* the agent's process runs: asked at every poll, and again under the locks of a write.
Followable == bound

\* take_turn
TakeTurn(f) ==
  /\ followers[f].at = "waiting"
  /\ IF ~Followable THEN Leave(f) /\ UNCHANGED named
     ELSE IF lock = Free
     THEN /\ lock' = f /\ named' = followers[f].turn
          /\ followers' = [followers EXCEPT ![f].at = "reading", ![f].held = TRUE]
     ELSE /\ IF named = followers[f].turn THEN Leave(f) ELSE KeptOut(f)
          /\ UNCHANGED named
  /\ UNCHANGED <<files, deaths>> /\ Unchanged

\* Mutant: any other start is the next lead turn.
AnyStart(g, i) == rollout[i].kind = "start" /\ rollout[i].turn # g.turn

\* Whether the end of the followed turn was read before line i.
EndRead(g, i) ==
  \/ g.ended = g.turn
  \/ \E j \in (g.offset + 1)..(i - 1) : rollout[j].turn = g.turn /\ rollout[j].kind # "start"

\* classify: a start that names the followed turn counts only after that turn's end.
OtherTurnStarted(g, i) ==
  /\ rollout[i].kind = "start" /\ rollout[i].turn # g.turn
  /\ rollout[i].parent = g.turn => EndRead(g, i)

TurnFailed(g, i) == rollout[i].kind = "failed" /\ rollout[i].turn = g.turn

Signals(g) == {i \in (g.offset + 1)..Len(rollout) : OtherTurnStarted(g, i) \/ TurnFailed(g, i)}

\* Rollout::next_signal, and what Reader::read does on it.
ReadSignal(f) ==
  LET g == followers[f]
      upTo(i) == [g EXCEPT !.offset = i, !.ended = IF EndRead(g, i + 1) THEN g.turn ELSE g.ended]
  IN /\ g.at = "reading"
     /\ IF ~Followable THEN Leave(f) /\ UNCHANGED named
        ELSE IF Signals(g) = {}
        THEN ~g.held /\ Leave(f) /\ UNCHANGED named   \* the holder looks again at the next poll
        ELSE LET i == Min(Signals(g))
             IN IF TurnFailed(g, i)
                THEN /\ followers' = [followers EXCEPT ![f] = [upTo(i) EXCEPT !.at = "recording"]]
                     /\ UNCHANGED <<lock, named>>
                ELSE IF ~g.held THEN Leave(f) /\ UNCHANGED named
                ELSE /\ named' = rollout[i].turn
                     /\ followers' = [followers EXCEPT ![f] =
                          [upTo(i) EXCEPT !.turn = rollout[i].turn, !.before = @ \cup {g.turn}]]
                     /\ UNCHANGED lock
     /\ UNCHANGED <<files, deaths>> /\ Unchanged

\* A hook's end from which a prompt typed later went on, and no other turn did.
WentOn(end) ==
  /\ end.kind # "failed"
  /\ latest > end.obs
  /\ ~ \E r \in records : r.obs > end.obs /\ r.turn # end.turn

\* The record the failure follows, if there is one and it is no end that stands.
Anchor(g) ==
  IF Of(g.turn) # {}
  THEN {r \in {Last(Of(g.turn))} : ~Ends(r) \/ WentOn(r)}
  ELSE LET earlier == UNION {Of(t) : t \in g.before}
       IN IF earlier = {} THEN {} ELSE {Last(earlier)}

\* Mutant: the failed turn is the newest whatever was recorded.
NewestUnasked(r) == TRUE

IsNewest(r) == \A q \in records : q.obs <= r.obs

Failure(t, obs) == [turn |-> t, kind |-> "failed", obs |-> obs]

\* record_codex_turn_failure's plan: the files it would leave.
Plan(g) ==
  IF \/ Anchor(g) = {}
     \/ \E r \in Of(g.turn) : r.kind = "failed"   \* the pools keep one failure of a turn
  THEN [slot |-> slot, records |-> records]
  ELSE LET last == CHOOSE r \in Anchor(g) : TRUE
           end == JustAfter({last.obs, latest})
       IN IF IsNewest(last)
          THEN [slot |-> IF slot.word = "notify" THEN slot
                         ELSE [word |-> "notify", obs |-> JustAfter({last.obs, latest, slot.obs}),
                               by |-> g.turn],
                records |-> records \cup {Failure(g.turn, end)}]
          ELSE [slot |-> slot, records |-> records \cup {Failure(g.turn, last.obs + 1)}]

\* Under the locks; the holder goes on, another is done.
RecordFailure(f) ==
  LET g == followers[f]
  IN /\ g.at = "recording"
     /\ IF Followable THEN slot' = Plan(g).slot /\ records' = Plan(g).records
        ELSE UNCHANGED <<slot, records>>
     /\ IF g.held THEN followers' = [followers EXCEPT ![f].at = "reading"] /\ UNCHANGED lock
        ELSE Leave(f)
     /\ UNCHANGED <<latest, named, deaths>> /\ Unchanged

\* A follower dies, or its write fails; of its two files it may leave the first.
Die(f) ==
  /\ followers[f].at # "left"
  /\ deaths < MaxDeaths /\ deaths' = deaths + 1
  /\ Leave(f)
  /\ slot' \in {slot} \cup
       {Plan(g).slot : g \in {g \in {followers[f]} : g.at = "recording" /\ Followable}}
  /\ UNCHANGED <<records, latest, named>> /\ Unchanged

FollowerStep(f) == TakeTurn(f) \/ ReadSignal(f) \/ RecordFailure(f)
HookStep == ApplyHook \/ StartFollower \/ StartAfterAsking

FollowNext ==
  \/ StartTurn \/ StartReview \/ Unbind
  \/ \E kind \in {"prompt", "work", "stop"} : RunHook(kind)
  \/ \E kind \in {"failed", "complete"} : EndTurn(kind)
  \/ HookStep
  \/ \E f \in DOMAIN followers : FollowerStep(f) \/ Die(f)

FollowSpec == FollowInit /\ [][FollowNext]_followVars

(***************************************************************************)
(* A hook goes on until it ends, and a follower polls every second.        *)
(* Nothing is assumed of Codex, the user, or deaths.                       *)
(***************************************************************************)
FairSpec ==
  FollowSpec /\ WF_followVars(HookStep)
       /\ \A f \in 1..MaxHooks : WF_followVars(f \in DOMAIN followers /\ FollowerStep(f))

-----------------------------------------------------------------------------
Failed(t) == \E i \in DOMAIN rollout : rollout[i].kind = "failed" /\ rollout[i].turn = t

\* A turn that ends on a model error gets an end on record once one of its hooks ran to its
\* end, whichever followers wait, take over, are kept out or leave meanwhile, and although
\* a holder goes through the turns in between, while nothing dies.
FailureIsRecorded ==
  \A t \in Turns : (Failed(t) /\ t \in noticed) ~> (~bound \/ deaths > 0 \/ \E r \in Of(t) : Ends(r))

\* The notify of a failed turn never stands over what a hook of a later turn recorded.
NotifyIsOfNewestTurn ==
  slot.word = "notify" => \A r \in records : r.kind = "failed" \/ r.turn <= slot.by

\* Ends stand where they happened: after what hooks of their turn and of those before it
\* recorded, before what hooks of later turns did, however late a follower read them.
FailuresInOrder ==
  \A end \in {r \in records : r.kind = "failed"} : \A r \in records \ {end} :
    /\ r.turn < end.turn => r.obs < end.obs
    /\ r.turn > end.turn => r.obs > end.obs

\* A failure read late is told where it happened: in the records and on the tab.
FailuresInPlace == FollowTypeOK /\ NotifyIsOfNewestTurn /\ FailuresInOrder
=============================================================================
