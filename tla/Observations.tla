---------------------------- MODULE Observations ----------------------------
(***************************************************************************)
(* The lead's recorded events of one binding and `attention observe`.      *)
(* Hooks put observations into the two bounded pools of lifecycle.json and *)
(* name the latest prompt and the answered questions in prompts.json.  An  *)
(* observer reads both files without a lock and tells what is new since    *)
(* its cursor, or that it cannot tell.                                     *)
(***************************************************************************)
EXTENDS Integers, Sequences, FiniteSets, FiniteSetsExt

CONSTANTS
  Kinds,      \* the kinds of events that happen, of "prompt", "stop", "tool", "ask"
  Turn,       \* the provider's ids of turns, None among them when some events name none
  Question,   \* questions a prompt may answer
  PoolMax,    \* lifecycle_pool_max_count, of a pool and of the answers
  MaxHooks,   \* bound: the hooks that run
  MaxReads,   \* bound: the reads of the observer
  MaxDamage,  \* bound: times lifecycle.json is found invalid
  Ties,       \* whether two hooks may read the same clock
  MaxPointer, \* bound: times the launch's pointer moves
  None, Damaged

ASSUME ObservationsAssumption ==
  /\ Kinds \subseteq {"prompt", "stop", "tool", "ask"}
  /\ {PoolMax, MaxHooks, MaxReads, MaxDamage, MaxPointer} \subseteq Nat /\ PoolMax > 0
  /\ Ties \in BOOLEAN

VARIABLES
  hooks,      \* the hooks, in the order they read the clock; the index is the observation id
  at,         \* where each hook is
  lead,       \* lifecycle.json
  prompts,    \* prompts.json
  pointer,    \* the launch's pointer, counting its moves: even selects this binding
  damage,     \* the times lifecycle.json was found invalid
  reader,     \* the read under way
  reads,      \* the reads so far
  cursor,     \* the caller's cursor, None when there is no chain
  delivered,  \* history: the events reported along the chain, each with the read that did
  due         \* history: what the pools stored since the chain began

hookVars == <<hooks, at>>
files == <<lead, prompts>>
observer == <<reader, reads, cursor>>
vars == <<hooks, at, lead, prompts, pointer, damage, reader, reads, cursor,
          delivered, due>>

Id == 1..MaxHooks
\* Stamps are even, so that the floor of a restarted file lies between two of them.
Stamp == {2 * n : n \in 0..MaxHooks}
Floor == 0..(2 * MaxHooks)
Observation == [id : Id, kind : Kinds, turn : Turn \cup {None}, obs : Stamp]
Pools == {"requests", "general"}
Pool == [seen : SUBSET Observation, floor : Floor]
Answer == [id : Id, question : Question, obs : Stamp]
Prompt == [id : Id, obs : Stamp]
NoPrompt == [id |-> 0, obs |-> 0]

Records == [latest : Prompt, answers : SUBSET Answer]
Hook == [kind : Kinds, turn : Turn \cup {None}, obs : Stamp, answers : SUBSET Question]
Cursor == [seen : SUBSET Id, floors : [Pools -> Floor], lead : BOOLEAN, prompts : BOOLEAN,
           latest : 0..MaxHooks, answers : SUBSET Id, high : Nat]

ASSUME NoneAssumption ==
  /\ None # Damaged /\ None \notin Records \cup Cursor
  /\ None \notin [Pools -> Pool] /\ Damaged \notin [Pools -> Pool]

Event == {<<kind, id, None>> : kind \in {"prompt", "turn_end"}, id \in Id}
         \cup {<<"answer", id, q>> : id \in Id, q \in Question}

\* storage_key: one prompt and one reply a turn; tool calls have an id of their own.
Key(o) == IF o.kind \in {"prompt", "stop"} /\ o.turn # None
          THEN <<o.kind, o.turn>> ELSE <<o.kind, o.id>>

AllSeen(file) == UNION {file[p].seen : p \in Pools}

\* validate_semantics, which reduce asks of its own result
IsValid(file) ==
  /\ \A p \in Pools : /\ Cardinality(file[p].seen) <= PoolMax
                      /\ \A o \in file[p].seen : o.obs > file[p].floor
  /\ \A o, p \in AllSeen(file) : o # p => o.id # p.id /\ Key(o) # Key(p)

EmptyPool == [seen |-> {}, floor |-> 0]
Idle == [reading |-> FALSE, pointer |-> 0, lead |-> None]

TypeOK ==
  /\ Len(hooks) <= MaxHooks
  /\ \A i \in DOMAIN hooks : hooks[i] \in Hook
  /\ at \in [Id -> {"idle", "begun", "prompts", "done", "half", "gone"}]
  /\ lead \in {None, Damaged} \cup [Pools -> Pool]
  /\ prompts \in {None} \cup Records
  /\ pointer \in 0..MaxPointer /\ damage \in 0..MaxDamage /\ reads \in 0..MaxReads
  /\ lead \in [Pools -> Pool] => IsValid(lead)
  /\ delivered \subseteq Event \X (1..MaxReads) /\ due \subseteq Observation

Init ==
  /\ hooks = << >> /\ at = [i \in Id |-> "idle"]
  /\ lead = None /\ prompts = None
  /\ pointer = 0 /\ damage = 0
  /\ reader = Idle /\ reads = 0 /\ cursor = None
  /\ delivered = {} /\ due = {}

-----------------------------------------------------------------------------
(***************************************************************************)
(* Pools.                                                                  *)
(***************************************************************************)
PoolOf(kind) == IF kind = "ask" THEN "requests" ELSE "general"

Before(o, p) == o.obs < p.obs \/ (o.obs = p.obs /\ o.id < p.id)
Later(o, p) == IF Before(o, p) THEN p ELSE o
LatestOf(set) == CHOOSE o \in set : \A p \in set \ {o} : Before(p, o)

\* LifecycleSnapshot::repeats.  Two replies of a turn may be alike or not; two
\* prompts of a turn are alike.
Repeats(file, stored, o, recorded, alike) ==
  LET after == {p \in AllSeen(file) : p.obs > stored.obs}
      wentOn == {p.obs : p \in after}
                \cup (IF recorded.obs > stored.obs THEN {recorded.obs} ELSE {})
  IN IF stored.kind = "stop" /\ stored.turn # None
     THEN \/ \E p \in after : p.kind = "prompt" /\ p.turn # stored.turn /\ p.obs < o.obs
          \/ alike /\ \A s \in wentOn : s >= o.obs
     ELSE alike \/ stored.kind # "stop"

Same(file, o) == {p \in AllSeen(file) : Key(p) = Key(o)}

\* reduce fails: the same order names two different events.
Conflicts(file, o, recorded, alike) ==
  \E p \in Same(file, o) : /\ p.obs = o.obs /\ ~Repeats(file, p, o, recorded, alike)
                           /\ o.obs > file[PoolOf(o.kind)].floor

IsNews(file, o, recorded, alike) ==
  /\ o.obs > file[PoolOf(o.kind)].floor
  /\ \A p \in Same(file, o) : o.obs > p.obs /\ ~Repeats(file, p, o, recorded, alike)

\* The pool over its count, or its bytes, drops whole groups of its oldest stamps.
\* One observation alone is never too much.
Evictions(seen) ==
  {[seen |-> {o \in seen : o.obs > f}, floor |-> f] :
     f \in {o.obs : o \in {p \in seen : Cardinality({q \in seen : q.obs >= p.obs}) > 1
                                     /\ Cardinality({q \in seen : q.obs > p.obs}) <= PoolMax}}}

\* Mutant: the oldest go without a trace.
EvictionsUnmarked(file, pool, o) ==
  LET kept == (file[pool].seen \ Same(file, o)) \cup {o}
  IN (IF Cardinality(kept) <= PoolMax THEN {[file[pool] EXCEPT !.seen = kept]} ELSE {})
     \cup {[e EXCEPT !.floor = file[pool].floor] : e \in Evictions(kept)}

\* Mutant: what the observation replaces stays.
PoolsKept(file, pool, o) ==
  LET kept == file[pool].seen \cup {o}
  IN (IF Cardinality(kept) <= PoolMax THEN {[file[pool] EXCEPT !.seen = kept]} ELSE {})
     \cup Evictions(kept)

\* What a pool may become with one more observation.
PoolsWith(file, pool, o) ==
  LET kept == (file[pool].seen \ Same(file, o)) \cup {o}
  IN (IF Cardinality(kept) <= PoolMax THEN {[file[pool] EXCEPT !.seen = kept]} ELSE {})
     \cup Evictions(kept)

\* reduce: what an insertion would evict itself is not stored.
Reduced(file, o, recorded, alike) ==
  IF ~IsNews(file, o, recorded, alike) THEN {file}
  ELSE {IF o \in pool.seen THEN [file EXCEPT ![PoolOf(o.kind)] = pool] ELSE file :
          pool \in PoolsWith(file, PoolOf(o.kind), o)}

-----------------------------------------------------------------------------
(***************************************************************************)
(* Hooks.  One at a time is between its decision and its last write.       *)
(***************************************************************************)
Locked == \E i \in Id : at[i] = "prompts"
Obs(i) == [id |-> i, kind |-> hooks[i].kind, turn |-> hooks[i].turn, obs |-> hooks[i].obs]

\* A hook reads the clock; two may read the same.
Begin(kind, turn, answers) ==
  /\ Len(hooks) < MaxHooks
  /\ answers # {} => kind = "prompt"
  /\ turn \in IF kind \in {"prompt", "stop"} THEN Turn ELSE {None}
  /\ \E obs \in Stamp :
       /\ \/ obs = 2 * (Len(hooks) + 1)
          \/ Ties /\ Len(hooks) > 0 /\ obs = hooks[Len(hooks)].obs
       /\ hooks' = Append(hooks, [kind |-> kind, turn |-> turn, obs |-> obs, answers |-> answers])
  /\ at' = [at EXCEPT ![Len(hooks) + 1] = "begun"]
  /\ UNCHANGED <<files, pointer, damage, observer, delivered, due>>

Recorded == IF prompts = None THEN NoPrompt ELSE prompts.latest

\* Mutant: a restarted file starts without floors.
StartedPlain(i) == [p \in Pools |-> EmptyPool]

\* A file moved aside is started again with floors just below the observation.
Started(i) ==
  [p \in Pools |-> IF lead = Damaged THEN [EmptyPool EXCEPT !.floor = hooks[i].obs - 1]
                   ELSE EmptyPool]

File(i) == IF lead \in {None, Damaged} THEN Started(i) ELSE lead

\* append_observation and the write of the lifecycle file.  A prompt goes on to
\* the prompt record whether or not the pools took it.
WriteLead(i) ==
  /\ at[i] = "begun" /\ ~Locked
  /\ pointer % 2 = 0
  /\ \E alike \in BOOLEAN :
       IF Conflicts(File(i), Obs(i), Recorded, alike)
       THEN /\ at' = [at EXCEPT ![i] = "gone"]
            /\ lead' = IF lead = Damaged THEN None ELSE lead
            /\ UNCHANGED due
       ELSE \E file \in Reduced(File(i), Obs(i), Recorded, alike) :
              /\ lead' = IF file # File(i) THEN file ELSE IF lead = Damaged THEN None ELSE lead
              /\ due' = IF file # File(i) /\ cursor # None THEN due \cup {Obs(i)} ELSE due
              /\ at' = [at EXCEPT ![i] = IF hooks[i].kind = "prompt" THEN "prompts" ELSE "done"]
  /\ UNCHANGED <<hooks, prompts, pointer, damage, observer, delivered>>

\* The pointer selects another binding: the observation is refused.
Refuse(i) ==
  /\ at[i] = "begun" /\ ~Locked
  /\ pointer % 2 # 0
  /\ at' = [at EXCEPT ![i] = "gone"]
  /\ UNCHANGED <<hooks, files, pointer, damage, observer, delivered, due>>

\* Mutant: a prompt hook that comes late takes the place of a later prompt.
LastPrompt(i) == [id |-> i, obs |-> hooks[i].obs]

\* LeadPrompts::record_prompt
RecordPrompt(i) == Later(Recorded, [id |-> i, obs |-> hooks[i].obs])

\* record_answers: a question keeps its first answer; over the limit the oldest go.
RecordAnswers(i) ==
  LET held == IF prompts = None THEN {} ELSE prompts.answers
      first == {q \in hooks[i].answers : \A a \in held : a.question # q}
      all == held \cup {[id |-> i, question |-> q, obs |-> hooks[i].obs] : q \in first}
  IN IF first = {} THEN {held}
     ELSE {kept \in SUBSET all :
             /\ Cardinality(kept) = IF Cardinality(all) > PoolMax THEN PoolMax ELSE Cardinality(all)
             /\ \A a \in kept, b \in all \ kept : a.obs >= b.obs}

\* prepare_prompts and the write of the prompt record, after the lifecycle file.
WritePrompts(i) ==
  /\ at[i] = "prompts"
  /\ \E answers \in RecordAnswers(i) :
       /\ prompts' = [latest |-> RecordPrompt(i), answers |-> answers]
  /\ at' = [at EXCEPT ![i] = "done"]
  /\ UNCHANGED <<hooks, lead, pointer, damage, observer, delivered, due>>

\* A hook that dies earlier is one that never goes on.
Die(i) ==
  /\ at[i] = "prompts"
  /\ at' = [at EXCEPT ![i] = "half"]
  /\ UNCHANGED <<hooks, files, pointer, damage, observer, delivered, due>>

\* lifecycle.json is overwritten with something its readers refuse.
Damage ==
  /\ damage < MaxDamage
  /\ lead \notin {None, Damaged}
  /\ damage' = damage + 1
  /\ lead' = Damaged
  /\ UNCHANGED <<hookVars, prompts, pointer, observer, delivered, due>>

\* A registration moves the launch's pointer, under the locks a hook holds.
MovePointer ==
  /\ pointer < MaxPointer /\ ~Locked
  /\ pointer' = pointer + 1
  /\ UNCHANGED <<hookVars, files, damage, observer, delivered, due>>

-----------------------------------------------------------------------------
(***************************************************************************)
(* The observer.                                                           *)
(***************************************************************************)
LatestPrompt(file, record) ==
  LET pooled == IF file = None THEN {} ELSE {o \in AllSeen(file) : o.kind = "prompt"}
      recorded == IF record = None THEN NoPrompt ELSE record.latest
  IN IF pooled = {} THEN recorded
     ELSE LET newest == LatestOf(pooled)
          IN Later([id |-> newest.id, obs |-> newest.obs], recorded)

AnswersOf(record) == IF record = None THEN {} ELSE record.answers

\* cursor_of
CursorOf(file, record) ==
  [ seen |-> IF file = None THEN {} ELSE {o.id : o \in AllSeen(file)},
    floors |-> [p \in Pools |-> IF file = None THEN 0 ELSE file[p].floor],
    lead |-> file # None,
    prompts |-> record # None,
    latest |-> LatestPrompt(file, record).id,
    answers |-> {a.id : a \in AnswersOf(record)},
    high |-> Max({0} \cup {a.obs : a \in AnswersOf(record)}) ]

\* gap_between
GapBetween(known, file, record) ==
  \/ known.lead /\ file = None
  \/ known.prompts /\ record = None
  \/ file # None /\ \E p \in Pools : file[p].floor # 0 /\ file[p].floor # known.floors[p]
  \/ /\ record # None
     /\ \/ ~ known.answers \subseteq {a.id : a \in record.answers}
        \/ /\ Cardinality(record.answers) >= PoolMax
           /\ \A a \in record.answers : a.obs > known.high

\* Mutant: what is in the pools is reported though the record named it before.
EventsByPool(known, file, record) ==
  LET fresh == IF file = None THEN {} ELSE {o \in AllSeen(file) : o.id \notin known.seen}
  IN {<<"prompt", o.id, None>> : o \in {o \in fresh : o.kind = "prompt"}}
     \cup {<<"turn_end", o.id, None>> : o \in {o \in fresh : o.kind = "stop"}}
     \cup LET latest == LatestPrompt(file, record).id
          IN IF latest \in {0, known.latest} \cup known.seen THEN {} ELSE {<<"prompt", latest, None>>}

\* events_between
EventsBetween(known, file, record) ==
  LET fresh == IF file = None THEN {} ELSE {o \in AllSeen(file) : o.id \notin known.seen}
      latest == LatestPrompt(file, record).id
  IN {<<"prompt", o.id, None>> : o \in {o \in fresh : o.kind = "prompt" /\ o.id # known.latest}}
     \cup {<<"turn_end", o.id, None>> : o \in {o \in fresh : o.kind = "stop"}}
     \cup (IF latest \in {0, known.latest} \cup known.seen THEN {} ELSE {<<"prompt", latest, None>>})
     \cup {<<"answer", a.id, a.question>> :
             a \in {a \in AnswersOf(record) : a.id \notin known.answers}}

\* read_state, up to the lifecycle file.  A pointer that moved ends the chain; a file
\* that is refused ends the read and leaves the cursor.
ReadLead ==
  /\ reader = Idle /\ reads < MaxReads
  /\ reads' = reads + 1
  /\ IF pointer % 2 # 0 THEN cursor' = None /\ UNCHANGED reader
     ELSE /\ reader' = IF lead = Damaged THEN Idle
                       ELSE [reading |-> TRUE, pointer |-> pointer, lead |-> lead]
          /\ UNCHANGED cursor
  /\ UNCHANGED <<hookVars, files, pointer, damage, delivered, due>>

Stored == IF lead \in {None, Damaged} THEN {} ELSE AllSeen(lead)

Baseline ==
  /\ cursor' = CursorOf(reader.lead, prompts)
  /\ delivered' = {}
  /\ due' = {o \in Stored : o.id \notin cursor'.seen \cup {cursor'.latest}}

Report ==
  IF GapBetween(cursor, reader.lead, prompts)
  THEN cursor' = None /\ UNCHANGED <<delivered, due>>
  ELSE /\ cursor' = CursorOf(reader.lead, prompts)
       /\ delivered' = delivered \cup (EventsBetween(cursor, reader.lead, prompts) \X {reads})
       /\ UNCHANGED due

\* The rest of read_state, the prompt record and the pointer again, and what observe
\* makes of it.  Writes between the last two reads would change neither.
Observe ==
  /\ reader # Idle
  /\ reader' = Idle
  /\ IF pointer # reader.pointer THEN UNCHANGED <<cursor, delivered, due>>
     ELSE IF cursor = None THEN Baseline ELSE Report
  /\ UNCHANGED <<hookVars, files, pointer, damage, reads>>

Next ==
  \/ \E kind \in Kinds, turn \in Turn \cup {None}, answers \in SUBSET Question :
       Begin(kind, turn, answers)
  \/ \E i \in Id : WriteLead(i) \/ Refuse(i) \/ WritePrompts(i) \/ Die(i)
  \/ Damage \/ MovePointer \/ ReadLead \/ Observe

Spec == Init /\ [][Next]_vars

-----------------------------------------------------------------------------
Given == {d[1] : d \in delivered}

WaitedFor(o) == CASE o.kind = "prompt" -> <<"prompt", o.id, None>>
                  [] o.kind = "stop" -> <<"turn_end", o.id, None>>

\* A prompt or a turn end the pools stored since the chain began is reported, or still
\* there to be reported, or a later event took its place, or the next read tells of a gap:
\* whatever is evicted, applied late, or read between the writes of two files.  A floor is
\* a clock value: two losses of a file between hooks of one value leave the same floors, and
\* a reader is not told of the second; with a clock of nanoseconds no two hooks share one.
NoEventIsLost ==
  cursor # None /\ lead # Damaged =>
    \A o \in due :
      \/ o.kind \notin {"prompt", "stop"}
      \/ o \in Stored
      \/ WaitedFor(o) \in Given
      \/ \E p \in due : Key(p) = Key(o) /\ Before(o, p)
      \/ GapBetween(cursor, lead, prompts)

\* Neither tool calls that fill the pools nor hooks applied late make readers forget a
\* prompt whose hook ended: the latest prompt they see is that one or a later one.
PromptIsRemembered ==
  \A i \in DOMAIN hooks :
    at[i] = "done" /\ hooks[i].kind = "prompt" /\ lead # Damaged =>
      ~Before(LatestPrompt(lead, prompts), [id |-> i, obs |-> hooks[i].obs])

\* The files are such that readers accept them, the floors below what the pools hold, and
\* name the latest prompt.
RecordsOK == TypeOK /\ PromptIsRemembered

Happened ==
  UNION {IF at[i] \in {"idle", "begun", "gone"} THEN {}
         ELSE {<<"prompt", i, None>>, <<"turn_end", i, None>>}
              \cup {<<"answer", i, q>> : q \in hooks[i].answers} : i \in DOMAIN hooks}

Feed == INSTANCE EventFeed WITH recorded <- Happened, open <- cursor # None

\* A chain of cursors delivers recorded events, each at most once.
DeliversOnce == Feed!Spec
=============================================================================
