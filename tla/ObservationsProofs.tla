------------------------- MODULE ObservationsProofs -------------------------
(***************************************************************************)
(* Proofs about Observations, for any pools, hooks, damage and reads.      *)
(***************************************************************************)
EXTENDS Observations, FiniteSetTheorems, WellFoundedInduction, TLAPS

-----------------------------------------------------------------------------
(***************************************************************************)
(* The inductive invariant of the files.                                   *)
(***************************************************************************)
Files == [Pools -> Pool]

\* A hook that is past its decision and was not refused.
Wrote(i) == i \in 1..Len(hooks) /\ at[i] \in {"prompts", "done", "half"}

\* The clock goes on from hook to hook, and only a tie repeats it.
HooksOK ==
  /\ hooks \in Seq(Hook) /\ Len(hooks) <= MaxHooks
  /\ at \in [Id -> {"idle", "begun", "prompts", "done", "half", "gone"}]
  /\ \A i \in Id : i > Len(hooks) => at[i] = "idle"
  /\ \A i \in 1..Len(hooks) : /\ at[i] # "idle"
                              /\ hooks[i].obs \in 2..(2 * i)
                              /\ ~Ties => hooks[i].obs = 2 * i
                              /\ at[i] = "prompts" => hooks[i].kind = "prompt"
  /\ \A i, j \in 1..Len(hooks) : i <= j => hooks[i].obs <= hooks[j].obs

\* What a file holds was recorded by the hooks it names, each kind in its pool.
Known(file) ==
  \A p \in Pools : \A o \in file[p].seen :
    Wrote(o.id) /\ o = Obs(o.id) /\ PoolOf(o.kind) = p

LeadOK ==
  /\ lead \in {None, Damaged} \cup Files
  /\ lead \in Files => IsValid(lead) /\ Known(lead)

\* The record names a prompt whose hook ended, the latest such, and answers of such.
RecordOK ==
  /\ prompts \in {None} \cup Records
  /\ prompts # None =>
       /\ Wrote(prompts.latest.id) /\ prompts.latest.obs = hooks[prompts.latest.id].obs
       /\ hooks[prompts.latest.id].kind = "prompt"
       /\ \A a \in prompts.answers : Wrote(a.id) /\ a.question \in hooks[a.id].answers
  /\ \A i \in 1..Len(hooks) :
       at[i] = "done" /\ hooks[i].kind = "prompt" => prompts # None /\ prompts.latest.id >= i

CountsOK == pointer \in 0..MaxPointer /\ damage \in 0..MaxDamage /\ reads \in 0..MaxReads

\* The read under way, the cursor and their histories.
HistoryOK ==
  /\ reader # Idle => /\ reads > 0
                      /\ reader.lead \in {None} \cup Files
                      /\ reader.lead # None => Known(reader.lead)
  /\ delivered \subseteq Event \X (1..MaxReads) /\ due \subseteq Observation

FilesInv == HooksOK /\ LeadOK /\ RecordOK /\ CountsOK /\ HistoryOK

-----------------------------------------------------------------------------
(***************************************************************************)
(* The inductive invariant of a chain of cursors, while no two hooks read  *)
(* one clock value.                                                        *)
(***************************************************************************)
FloorsOf(file) == [p \in Pools |-> IF file = None THEN 0 ELSE file[p].floor]

\* A floor that has been there does not come back: what could bring it is past.
SpentAt(p, floor) ==
  /\ floor \in Nat /\ floor <= 2 * Len(hooks)
  /\ \A i \in 1..Len(hooks) : at[i] = "begun" => floor # 2 * i /\ floor # 2 * i - 1
  /\ lead \in Files => \A o \in lead[p].seen : o.obs # floor
  /\ floor # 0 => lead # None /\ (lead \in Files => lead[p].floor # 0)

Spent(floors) == \A p \in Pools : SpentAt(p, floors[p])

\* A reader that knew these floors is told that something went.
Moved(floors) ==
  \/ lead = Damaged
  \/ lead \in Files /\ \E p \in Pools : lead[p].floor # 0 /\ lead[p].floor # floors[p]

HasPrompt(file, k) == file \in Files /\ \E o \in AllSeen(file) : o.kind = "prompt" /\ o.id >= k
NamesFrom(k) == prompts # None /\ prompts.latest.id >= k
Ids(file) == IF file \in Files THEN {o.id : o \in AllSeen(file)} ELSE {}

\* A prompt that the read under way found is still there, or replaced by a later one, or a
\* reader is told.
ReadOK ==
  reader # Idle =>
    /\ Spent(FloorsOf(reader.lead))
    /\ reader.lead # None =>
         \A o \in AllSeen(reader.lead) :
           o.kind = "prompt" => Moved(FloorsOf(reader.lead)) \/ HasPrompt(lead, o.id)

\* What the chain's cursor knows.
CursorOK ==
  cursor # None =>
    /\ cursor \in Cursor
    /\ \A id \in cursor.seen : Wrote(id)
    /\ cursor.latest # 0 => Wrote(cursor.latest)
    /\ Spent(cursor.floors)
    /\ ~cursor.prompts => cursor.answers = {}
    /\ cursor.latest # 0 =>
         Moved(cursor.floors) \/ HasPrompt(lead, cursor.latest) \/ NamesFrom(cursor.latest)
    /\ reader # Idle => \A p \in Pools :
         cursor.floors[p] # 0 => reader.lead # None /\ reader.lead[p].floor # 0

\* A read under way that will not tell of a gap has a prompt no older than the cursor's.
Untold ==
  /\ cursor # None /\ reader # Idle /\ cursor.latest # 0
  /\ reader.lead # None => \A p \in Pools :
       reader.lead[p].floor # 0 => reader.lead[p].floor = cursor.floors[p]

ReadsOn == Untold => HasPrompt(reader.lead, cursor.latest) \/ NamesFrom(cursor.latest)

\* An event that was given is known to the cursor, or no longer in the file for good.
GivenOK ==
  cursor # None =>
    \A d \in delivered :
      /\ d[1] \in Happened
      /\ d[1][1] = "prompt" => d[1][2] <= cursor.latest
      /\ d[1][1] = "answer" => d[1][2] \in cursor.answers
      /\ d[1][1] \in {"prompt", "turn_end"} =>
           /\ \/ d[1][2] \in cursor.seen
              \/ d[1][1] = "prompt" /\ d[1][2] = cursor.latest
              \/ d[1][2] \notin Ids(lead) /\ (reader # Idle => d[1][2] \notin Ids(reader.lead))
           /\ reader # Idle /\ d[1][2] \in Ids(lead) => d[1][2] \in Ids(reader.lead)

\* What the pools stored since the chain began.
DueOK ==
  cursor # None =>
    \A o \in due :
      /\ Wrote(o.id) /\ o = Obs(o.id)
      /\ o.kind \in {"prompt", "stop"} =>
           /\ o.id \in cursor.seen \cup {cursor.latest} => WaitedFor(o) \in Given
           /\ \/ o \in Stored
              \/ WaitedFor(o) \in Given
              \/ \E p \in due : Key(p) = Key(o) /\ Before(o, p)
              \/ Moved(cursor.floors)

ChainInv ==
  /\ lead \in Files => Spent(FloorsOf(lead))
  /\ ReadOK /\ CursorOK /\ ReadsOn /\ GivenOK /\ DueOK

-----------------------------------------------------------------------------
(***************************************************************************)
(* Operators.                                                              *)
(***************************************************************************)
\* None and Damaged are no records.
LEMMA NoneIsNone ==
  /\ None # Damaged /\ None \notin Files /\ Damaged \notin Files
  /\ \A x \in Records \cup Cursor : x # None
  BY NoneAssumption DEF Files

\* A set of numbers up to a bound has a greatest.
LEMMA Greatest ==
  ASSUME NEW n \in Nat, NEW T, T \subseteq 0..n, T # {}
  PROVE  \E m \in T : \A k \in T : k <= m
<1>1. PICK below : below = {b \in Nat : \E k \in T : b = n - k}
  OBVIOUS
<1>2. below \subseteq Nat /\ below # {}
  <2>1. PICK k \in T : TRUE
    OBVIOUS
  <2>2. n - k \in below
    BY <1>1, <2>1
  <2> QED
    BY <1>1, <2>2
<1>3. PICK b \in below : \A d \in below : ~(<<d, b>> \in OpToRel(<, Nat))
  BY <1>2, NatLessThanWellFounded, WFMin
<1>4. \A d \in below : ~(d < b)
  BY <1>2, <1>3 DEF OpToRel
<1>5. PICK m \in T : b = n - m
  BY <1>1
<1>6. ASSUME NEW k \in T
      PROVE  k <= m
  <2>1. n - k \in below
    BY <1>1
  <2>2. ~(n - k < n - m) /\ k \in Nat /\ m \in Nat
    BY <1>4, <1>5, <2>1
  <2> QED
    BY <2>2
<1> QED
  BY <1>6

\* What a hook that began would have stored.
LEMMA HookIs ==
  ASSUME HooksOK, NEW i \in 1..Len(hooks)
  PROVE  /\ i \in Id /\ hooks[i] \in Hook /\ Len(hooks) \in 0..MaxHooks
         /\ Obs(i) \in Observation /\ Obs(i).id = i /\ Obs(i).obs = hooks[i].obs
         /\ Obs(i).kind = hooks[i].kind /\ Obs(i).turn = hooks[i].turn
         /\ hooks[i].obs \in Stamp /\ hooks[i].obs \in Nat /\ hooks[i].obs >= 2
         /\ hooks[i].obs <= 2 * MaxHooks
         /\ at[i] \in {"begun", "prompts", "done", "half", "gone"}
<1>1. Len(hooks) \in Nat /\ i \in Id /\ hooks[i] \in Hook
  BY ObservationsAssumption DEF HooksOK, Id
<1>2. hooks[i].obs \in 2..(2 * i) /\ i <= MaxHooks /\ MaxHooks \in Nat
  BY <1>1, ObservationsAssumption DEF HooksOK, Id
<1>3. at[i] \in {"begun", "prompts", "done", "half", "gone"}
  BY <1>1 DEF HooksOK
<1> QED
  BY <1>1, <1>2, <1>3 DEF Obs, Observation, Hook, HooksOK, Stamp

\* A record that names a hook, or none.
Named(r) == \/ r.id = 0 /\ r.obs = 0
            \/ r.id \in 1..Len(hooks) /\ r.obs = hooks[r.id].obs

\* Records are in the order of the hooks they name.
LEMMA InOrder ==
  ASSUME HooksOK, NEW r, NEW s, Named(r), Named(s)
  PROVE  /\ r.id \in Nat /\ s.id \in Nat /\ r.obs \in Nat /\ s.obs \in Nat
         /\ Before(r, s) <=> r.id < s.id
<1>1. \A i \in 1..Len(hooks) : hooks[i].obs \in Nat /\ hooks[i].obs >= 2
  BY HookIs
<1>2. Len(hooks) \in Nat
  BY DEF HooksOK
<1>3. \A i, j \in 1..Len(hooks) : i <= j => hooks[i].obs <= hooks[j].obs
  BY DEF HooksOK
<1> QED
  BY <1>1, <1>2, <1>3 DEF Named, Before

\* What a file holds names hooks.
LEMMA FileNames ==
  ASSUME HooksOK, NEW file, Known(file), NEW o \in AllSeen(file)
  PROVE  /\ Named(o) /\ o.id \in 1..Len(hooks) /\ Wrote(o.id) /\ o = Obs(o.id)
         /\ o \in file[PoolOf(o.kind)].seen /\ PoolOf(o.kind) \in Pools
  BY HookIs DEF Known, AllSeen, Named, Wrote

\* The latest of a file's prompts, while it has any.
LEMMA LatestIs ==
  ASSUME HooksOK, NEW file, Known(file), NEW S, S \subseteq AllSeen(file), S # {}
  PROVE  LatestOf(S) \in S /\ \A o \in S : o.id <= LatestOf(S).id
<1> DEFINE ids == {o.id : o \in S}
<1>1. \A o \in S : o.id \in 1..Len(hooks) /\ o = Obs(o.id) /\ Named(o)
  BY FileNames
<1>2. Len(hooks) \in Nat
  BY DEF HooksOK
<1>3. PICK m \in ids : \A k \in ids : k <= m
  <2>1. ids \subseteq 0..Len(hooks) /\ ids # {}
    BY <1>1, <1>2
  <2> HIDE DEF ids
  <2> QED
    BY <1>2, <2>1, Greatest
<1>4. PICK l \in S : m = l.id
  OBVIOUS
<1>5. \A p \in S \ {l} : Before(p, l)
  <2> SUFFICES ASSUME NEW p \in S, p # l
               PROVE  Before(p, l)
    OBVIOUS
  <2>1. p.id <= l.id /\ p.id # l.id
    BY <1>1, <1>3, <1>4
  <2> QED
    BY <1>1, <2>1, InOrder
<1>6. LatestOf(S) \in S /\ \A p \in S \ {LatestOf(S)} : Before(p, LatestOf(S))
  BY <1>5 DEF LatestOf
<1>7. \A p \in S : p # LatestOf(S) => p.id < LatestOf(S).id
  BY <1>1, <1>6, InOrder
<1> QED
  BY <1>1, <1>2, <1>6, <1>7

\* The prompt readers see as the latest is the latest the file and the record name.
LEMMA LatestPromptIs ==
  ASSUME HooksOK, RecordOK, NEW file \in {None} \cup Files, file # None => Known(file),
         NEW r, r = LatestPrompt(file, prompts)
  PROVE  /\ Named(r) /\ r.id \in 0..Len(hooks)
         /\ r.id # 0 => Wrote(r.id) /\ hooks[r.id].kind = "prompt"
         /\ prompts # None => prompts.latest.id <= r.id
         /\ file # None => \A o \in AllSeen(file) : o.kind = "prompt" => o.id <= r.id
         /\ \/ r.id = 0
            \/ prompts # None /\ prompts.latest.id = r.id
            \/ file # None /\ \E o \in AllSeen(file) : o.kind = "prompt" /\ o.id = r.id
<1>1. PICK S : S = IF file = None THEN {} ELSE {o \in AllSeen(file) : o.kind = "prompt"}
  OBVIOUS
<1>2. PICK c : c = IF prompts = None THEN NoPrompt ELSE prompts.latest
  OBVIOUS
<1>3. /\ Named(c) /\ c.id \in 0..Len(hooks)
      /\ c.id # 0 => Wrote(c.id) /\ hooks[c.id].kind = "prompt" /\ prompts # None /\ c = prompts.latest
      /\ prompts # None => c = prompts.latest
  <2>1. Len(hooks) \in Nat
    BY DEF HooksOK
  <2>2. CASE prompts = None
    BY <1>2, <2>1, <2>2 DEF NoPrompt, Named
  <2>3. CASE prompts # None
    BY <1>2, <2>1, <2>3 DEF RecordOK, Named, Wrote
  <2> QED
    BY <2>2, <2>3
<1>4. CASE S = {}
  <2>1. r = c
    BY <1>1, <1>2, <1>4 DEF LatestPrompt
  <2> QED
    BY <1>1, <1>3, <1>4, <2>1 DEF HooksOK
<1>5. CASE S # {}
  <2>0. file # None /\ S \subseteq AllSeen(file) /\ Known(file)
    BY <1>1, <1>5
  <2>1. PICK l : l = LatestOf(S)
    OBVIOUS
  <2>2. l \in S /\ \A o \in S : o.id <= l.id
    BY <1>5, <2>0, <2>1, LatestIs
  <2>3. Named(l) /\ l.id \in 1..Len(hooks) /\ Wrote(l.id) /\ l = Obs(l.id) /\ l.kind = "prompt"
    BY <1>1, <2>0, <2>2, FileNames
  <2>4. PICK n : n = [id |-> l.id, obs |-> l.obs]
    OBVIOUS
  <2>5. Named(n) /\ n.id = l.id
    BY <2>3, <2>4 DEF Named
  <2>6. r = Later(n, c)
    BY <1>1, <1>2, <1>5, <2>0, <2>1, <2>4 DEF LatestPrompt
  <2>7. /\ n.id < c.id => r = c
        /\ ~(n.id < c.id) => r = n
        /\ n.id \in Nat /\ c.id \in Nat
    BY <1>3, <2>5, <2>6, InOrder DEF Later
  <2>8. hooks[l.id].kind = "prompt"
    BY <2>3, HookIs
  <2>9. CASE n.id < c.id
    <3>1. r = c /\ c.id # 0 /\ l.id < c.id
      BY <2>5, <2>7, <2>9
    <3>2. \A o \in S : o.id <= c.id
      BY <2>2, <2>3, <2>5, <2>7, <3>1, FileNames, <2>0
    <3> QED
      BY <1>1, <1>3, <2>0, <3>1, <3>2
  <2>10. CASE ~(n.id < c.id)
    BY <1>1, <1>3, <2>0, <2>2, <2>3, <2>5, <2>7, <2>8, <2>10
  <2> QED
    BY <2>9, <2>10
<1> QED
  BY <1>4, <1>5

-----------------------------------------------------------------------------
(***************************************************************************)
(* The hooks go on.                                                        *)
(***************************************************************************)
\* What hooks wrote stays written; only a new hook begins.
Onward ==
  /\ Len(hooks) \in Nat /\ Len(hooks') \in Nat /\ Len(hooks') >= Len(hooks)
  /\ \A k \in 1..Len(hooks) : hooks'[k] = hooks[k] /\ (Wrote(k) => Wrote(k)')
  /\ \A k \in 1..Len(hooks') : at'[k] = "begun" =>
       k = Len(hooks) + 1 \/ (k \in 1..Len(hooks) /\ at[k] = "begun")

\* A hook that begins is the last, with a clock value no earlier than any.
LEMMA BeginStep ==
  ASSUME HooksOK, NEW kind \in Kinds, NEW turn \in Turn \cup {None}, NEW answers \in SUBSET Question,
         Begin(kind, turn, answers)
  PROVE  HooksOK' /\ Onward /\ \A k \in 1..Len(hooks) : at'[k] = at[k]
<1> DEFINE n == Len(hooks) + 1
<1>1. /\ hooks \in Seq(Hook) /\ Len(hooks) \in Nat /\ n \in Id /\ at[n] = "idle" /\ n <= MaxHooks
      /\ MaxHooks \in Nat
  BY ObservationsAssumption DEF HooksOK, Begin, Id
<1>2. PICK obs \in Stamp :
        /\ \/ obs = 2 * n
           \/ Ties /\ Len(hooks) > 0 /\ obs = hooks[Len(hooks)].obs
        /\ hooks' = Append(hooks, [kind |-> kind, turn |-> turn, obs |-> obs, answers |-> answers])
  BY DEF Begin
<1>3. PICK h : h = [kind |-> kind, turn |-> turn, obs |-> obs, answers |-> answers]
  OBVIOUS
<1>4. h \in Hook /\ h.obs = obs
  BY <1>3 DEF Hook
<1>5. /\ hooks' = Append(hooks, h) /\ hooks' \in Seq(Hook) /\ Len(hooks') = n
      /\ hooks'[n] = h /\ \A k \in 1..Len(hooks) : hooks'[k] = hooks[k]
  BY <1>1, <1>2, <1>3, <1>4
<1>6. at' = [at EXCEPT ![n] = "begun"]
  BY DEF Begin
<1>7. /\ at' \in [Id -> {"idle", "begun", "prompts", "done", "half", "gone"}]
      /\ at'[n] = "begun" /\ \A k \in Id \ {n} : at'[k] = at[k]
  BY <1>1, <1>6 DEF HooksOK
<1>8. obs \in 2..(2 * n) /\ (~Ties => obs = 2 * n) /\ \A k \in 1..Len(hooks) : hooks[k].obs <= obs
  <2>1. \A k \in 1..Len(hooks) : hooks[k].obs \in 2..(2 * k) /\ hooks[k].obs <= hooks[Len(hooks)].obs
    BY <1>1 DEF HooksOK
  <2> QED
    BY <1>1, <1>2, <2>1
<1>9. 1..Len(hooks) \subseteq Id \ {n} /\ 1..n = 1..Len(hooks) \cup {n}
  BY <1>1 DEF Id
<1> HIDE DEF n
<1>10. \A k \in 1..Len(hooks) : at'[k] = at[k]
  BY <1>7, <1>9
<1>11. HooksOK'
  <2>1. \A i \in Id : i > n => at'[i] = "idle"
    BY <1>1, <1>7 DEF HooksOK, n, Id
  <2>2. \A i \in 1..n : /\ at'[i] # "idle"
                        /\ hooks'[i].obs \in 2..(2 * i)
                        /\ ~Ties => hooks'[i].obs = 2 * i
                        /\ at'[i] = "prompts" => hooks'[i].kind = "prompt"
    <3>1. ASSUME NEW i \in 1..Len(hooks)
          PROVE  /\ at'[i] # "idle"
                 /\ hooks'[i].obs \in 2..(2 * i)
                 /\ ~Ties => hooks'[i].obs = 2 * i
                 /\ at'[i] = "prompts" => hooks'[i].kind = "prompt"
      BY <1>5, <1>10 DEF HooksOK
    <3>2. /\ at'[n] # "idle" /\ hooks'[n].obs \in 2..(2 * n)
          /\ ~Ties => hooks'[n].obs = 2 * n
          /\ at'[n] # "prompts"
      BY <1>4, <1>5, <1>7, <1>8
    <3> QED
      BY <1>9, <3>1, <3>2
  <2>3. ASSUME NEW i \in 1..n, NEW j \in 1..n, i <= j
        PROVE  hooks'[i].obs <= hooks'[j].obs
    <3>1. CASE j = n
      <4>1. i = n \/ i \in 1..Len(hooks)
        BY <1>9
      <4> QED
        BY <1>4, <1>5, <1>8, <3>1, <4>1
    <3>2. CASE j # n
      <4>1. i \in 1..Len(hooks) /\ j \in 1..Len(hooks)
        BY <1>1, <1>9, <2>3, <3>2 DEF n
      <4> QED
        BY <1>5, <2>3, <4>1 DEF HooksOK
    <3> QED
      BY <3>1, <3>2
  <2> QED
    BY <1>1, <1>5, <1>7, <2>1, <2>2, <2>3 DEF HooksOK
<1>12. Onward
  BY <1>1, <1>5, <1>7, <1>9, <1>10 DEF Onward, Wrote, n
<1> QED
  BY <1>10, <1>11, <1>12

\* A hook goes from one of its places to the next.
LEMMA MovesOn ==
  ASSUME HooksOK, NEW i \in Id, at[i] \in {"begun", "prompts"}, UNCHANGED hooks,
         NEW to \in {"prompts", "done", "half", "gone"}, at' = [at EXCEPT ![i] = to],
         to = "prompts" => hooks[i].kind = "prompt", at[i] = "prompts" => to # "gone"
  PROVE  /\ HooksOK' /\ Onward /\ i \in 1..Len(hooks)
         /\ at'[i] = to /\ \A k \in Id \ {i} : at'[k] = at[k]
<1>0. /\ Len(hooks) \in Nat /\ Len(hooks) <= MaxHooks /\ Id = 1..MaxHooks /\ MaxHooks \in Nat
      /\ \A k \in Id : k > Len(hooks) => at[k] = "idle"
  BY ObservationsAssumption DEF HooksOK, Id
<1>1. i \in 1..Len(hooks) /\ Len(hooks) \in Nat /\ 1..Len(hooks) \subseteq Id
  <2>1. ~(i > Len(hooks))
    BY <1>0
  <2> QED
    BY <1>0, <2>1
<1>2. /\ at' \in [Id -> {"idle", "begun", "prompts", "done", "half", "gone"}]
      /\ at'[i] = to /\ \A k \in Id \ {i} : at'[k] = at[k]
  BY DEF HooksOK
<1>3. HooksOK'
  <2>1. \A k \in Id : k > Len(hooks) => at'[k] = "idle"
    BY <1>1, <1>2 DEF HooksOK
  <2>2. \A k \in 1..Len(hooks) : at'[k] # "idle" /\ (at'[k] = "prompts" => hooks[k].kind = "prompt")
    BY <1>1, <1>2 DEF HooksOK
  <2> QED
    BY <1>2, <2>1, <2>2 DEF HooksOK
<1>4. Onward
  <2>1. \A k \in 1..Len(hooks) : /\ Wrote(k) => Wrote(k)'
                                 /\ at'[k] = "begun" => at[k] = "begun"
    BY <1>1, <1>2 DEF Wrote
  <2> QED
    BY <1>1, <2>1 DEF Onward
<1> QED
  BY <1>1, <1>2, <1>3, <1>4

\* Nothing about the hooks changes.
LEMMA HooksRest ==
  ASSUME HooksOK, UNCHANGED hookVars
  PROVE  HooksOK' /\ Onward
  BY DEF HooksOK, Onward, Wrote, hookVars

\* What a file names stays known.
LEMMA KnownLasts ==
  ASSUME HooksOK, Onward, NEW file, Known(file)
  PROVE  Known(file)'
<1> SUFFICES ASSUME NEW p \in Pools, NEW o \in file[p].seen
             PROVE  Wrote(o.id)' /\ o = Obs(o.id)' /\ PoolOf(o.kind) = p
  BY DEF Known
<1>1. Wrote(o.id) /\ o = Obs(o.id) /\ PoolOf(o.kind) = p /\ o.id \in 1..Len(hooks)
  BY DEF Known, Wrote
<1>2. hooks'[o.id] = hooks[o.id] /\ Wrote(o.id)'
  BY <1>1 DEF Onward
<1> QED
  BY <1>1, <1>2 DEF Obs

-----------------------------------------------------------------------------
(***************************************************************************)
(* What the pools become.                                                  *)
(***************************************************************************)
\* What a pool would hold with the observation and without what it replaces.
Kept(file, o) == (file[PoolOf(o.kind)].seen \ Same(file, o)) \cup {o}

\* The file takes the observation: it replaces earlier ones of its key, and of the rest the
\* oldest may go, up to the new floor.
Takes(file, o, new) ==
  /\ new \in Files
  /\ \A q \in Pools : q # PoolOf(o.kind) => new[q] = file[q]
  /\ o \in new[PoolOf(o.kind)].seen
  /\ \A k \in Same(file, o) : k.obs < o.obs
  /\ o.obs > file[PoolOf(o.kind)].floor
  /\ \/ new[PoolOf(o.kind)] = [seen |-> Kept(file, o), floor |-> file[PoolOf(o.kind)].floor]
     \/ \E e \in file[PoolOf(o.kind)].seen :
          new[PoolOf(o.kind)] = [seen |-> {k \in Kept(file, o) : k.obs > e.obs}, floor |-> e.obs]

\* What insertion makes of a file.
LEMMA ReducedTakes ==
  ASSUME NEW file \in Files, NEW o \in Observation, NEW recorded, NEW alike,
         NEW new \in Reduced(file, o, recorded, alike), new # file
  PROVE  Takes(file, o, new) /\ Cardinality(new[PoolOf(o.kind)].seen) <= PoolMax
<1>1. PICK q : q = PoolOf(o.kind)
  OBVIOUS
<1>2. q \in Pools
  BY <1>1 DEF PoolOf, Pools
<1>3. /\ o.obs > file[q].floor
      /\ \A p \in Same(file, o) : o.obs > p.obs
      /\ \E pool \in PoolsWith(file, q, o) : o \in pool.seen /\ new = [file EXCEPT ![q] = pool]
  BY <1>1 DEF Reduced, IsNews
<1>4. PICK pool \in PoolsWith(file, q, o) : o \in pool.seen /\ new = [file EXCEPT ![q] = pool]
  BY <1>3
<1>5. /\ file[q].seen \subseteq Observation /\ file[q].floor \in Floor
      /\ \A k \in Observation : k.obs \in Stamp /\ k.obs \in Nat /\ k.obs \in Floor
  <2>1. file[q] \in Pool
    BY <1>2 DEF Files
  <2>2. \A k \in Stamp : k \in Nat /\ k \in Floor
    BY ObservationsAssumption DEF Stamp, Floor
  <2> QED
    BY <2>1, <2>2 DEF Pool, Observation
<1>6. PICK kept : kept = Kept(file, o)
  OBVIOUS
<1>7. kept \subseteq Observation /\ kept \ {o} \subseteq file[q].seen
  BY <1>1, <1>5, <1>6 DEF Kept
<1>8. pool \in (IF Cardinality(kept) <= PoolMax THEN {[file[q] EXCEPT !.seen = kept]} ELSE {})
               \cup Evictions(kept)
  BY <1>1, <1>4, <1>6 DEF PoolsWith, Kept
<1>9. \/ pool = [seen |-> kept, floor |-> file[q].floor]
      \/ \E e \in file[q].seen : pool = [seen |-> {k \in kept : k.obs > e.obs}, floor |-> e.obs]
  <2>1. CASE pool = [file[q] EXCEPT !.seen = kept]
    BY <1>2, <2>1 DEF Files, Pool
  <2>2. CASE pool \in Evictions(kept)
    <3>1. PICK e \in kept : pool = [seen |-> {k \in kept : k.obs > e.obs}, floor |-> e.obs]
      BY <2>2 DEF Evictions
    <3>2. e # o
      BY <1>4, <1>5, <1>7, <3>1
    <3> QED
      BY <1>7, <3>1, <3>2
  <2> QED
    BY <1>8, <2>1, <2>2
<1>10. pool \in Pool /\ Cardinality(pool.seen) <= PoolMax
  <2>1. CASE Cardinality(kept) <= PoolMax /\ pool = [file[q] EXCEPT !.seen = kept]
    <3>1. pool = [seen |-> kept, floor |-> file[q].floor]
      BY <1>2, <2>1 DEF Files, Pool
    <3> QED
      BY <1>5, <1>7, <2>1, <3>1 DEF Pool
  <2>2. CASE pool \in Evictions(kept)
    <3>1. PICK e \in kept : /\ pool = [seen |-> {k \in kept : k.obs > e.obs}, floor |-> e.obs]
                            /\ Cardinality({k \in kept : k.obs > e.obs}) <= PoolMax
      BY <2>2 DEF Evictions
    <3>2. pool.seen \subseteq Observation /\ e.obs \in Floor
      BY <1>5, <1>7, <3>1
    <3> QED
      BY <3>1, <3>2 DEF Pool
  <2> QED
    BY <1>8, <2>1, <2>2
<1>11. new \in Files /\ new[q] = pool /\ \A p \in Pools : p # q => new[p] = file[p]
  BY <1>2, <1>4, <1>10 DEF Files
<1> QED
  BY <1>1, <1>3, <1>4, <1>6, <1>9, <1>10, <1>11 DEF Takes

\* A file that takes what a hook in its turn observed is valid and known.
LEMMA TakesValid ==
  ASSUME HooksOK, NEW i \in 1..Len(hooks), ~Wrote(i),
         NEW file \in Files, IsValid(file), Known(file),
         NEW new, Takes(file, Obs(i), new), Cardinality(new[PoolOf(Obs(i).kind)].seen) <= PoolMax
  PROVE  /\ IsValid(new)
         /\ \A p \in Pools : \A o \in new[p].seen : PoolOf(o.kind) = p /\ (o \in file[p].seen \/ o = Obs(i))
<1>1. PICK o : o = Obs(i)
  OBVIOUS
<1>2. PICK q : q = PoolOf(o.kind)
  OBVIOUS
<1>3. q \in Pools /\ o.id = i /\ o.obs \in Nat /\ o \in Observation
  BY <1>1, <1>2, HookIs DEF PoolOf, Pools
<1>4. /\ new \in Files /\ o \in new[q].seen /\ o.obs > file[q].floor
      /\ \A p \in Pools : p # q => new[p] = file[p]
      /\ \A p \in Pools : Cardinality(new[p].seen) <= PoolMax
  BY <1>1, <1>2 DEF Takes, IsValid
<1>5. /\ \A k \in new[q].seen : k = o \/ (k \in file[q].seen /\ k \notin Same(file, o))
      /\ \A k \in new[q].seen : k.obs > new[q].floor
  <2>1. CASE new[q] = [seen |-> Kept(file, o), floor |-> file[q].floor]
    BY <1>2, <1>3, <1>4, <2>1 DEF Kept, IsValid
  <2>2. CASE \E e \in file[q].seen : new[q] = [seen |-> {k \in Kept(file, o) : k.obs > e.obs}, floor |-> e.obs]
    BY <1>2, <2>2 DEF Kept
  <2> QED
    BY <1>1, <1>2, <2>1, <2>2 DEF Takes
<1>6. \A p \in Pools : \A k \in new[p].seen : PoolOf(k.kind) = p /\ (k \in file[p].seen \/ k = o)
  BY <1>2, <1>4, <1>5 DEF Known
<1>7. \A k \in AllSeen(new) : k = o \/ (k \in AllSeen(file) /\ k \notin Same(file, o))
  <2> SUFFICES ASSUME NEW p \in Pools, NEW k \in new[p].seen, k # o
               PROVE  k \in AllSeen(file) /\ k \notin Same(file, o)
    BY DEF AllSeen
  <2>1. k \in file[p].seen /\ PoolOf(k.kind) = p
    BY <1>6
  <2>2. k \in AllSeen(file)
    BY <2>1 DEF AllSeen
  <2>3. CASE p = q
    BY <1>5, <2>2, <2>3
  <2>4. CASE p # q
    <3>1. k.kind # o.kind
      BY <1>2, <2>1, <2>4
    <3>2. Key(k)[1] = k.kind /\ Key(o)[1] = o.kind
      BY DEF Key
    <3> QED
      BY <2>2, <3>1, <3>2 DEF Same
  <2> QED
    BY <2>3, <2>4
<1>8. \A k \in AllSeen(file) : k.id # o.id
  BY <1>3, FileNames
<1>9. ASSUME NEW k \in AllSeen(new), NEW l \in AllSeen(new), k # l
      PROVE  k.id # l.id /\ Key(k) # Key(l)
  <2>1. CASE k # o /\ l # o
    BY <1>7, <1>9, <2>1 DEF IsValid
  <2>2. CASE k = o
    BY <1>7, <1>8, <1>9, <2>2 DEF Same
  <2>3. CASE l = o
    BY <1>7, <1>8, <1>9, <2>3 DEF Same
  <2> QED
    BY <2>1, <2>2, <2>3
<1>10. \A p \in Pools : \A k \in new[p].seen : k.obs > new[p].floor
  BY <1>4, <1>5 DEF IsValid
<1> QED
  BY <1>1, <1>4, <1>6, <1>9, <1>10 DEF IsValid

\* A file that holds nothing, with floors below an observation, takes it.
LEMMA EmptyTakes ==
  ASSUME NEW o \in Observation, NEW file \in Files, \A p \in Pools : file[p].seen = {},
         o.obs > file[PoolOf(o.kind)].floor, NEW recorded, NEW alike
  PROVE  /\ ~Conflicts(file, o, recorded, alike)
         /\ file \notin Reduced(file, o, recorded, alike)
<1>1. PICK q : q = PoolOf(o.kind)
  OBVIOUS
<1>2. q \in Pools
  BY <1>1 DEF PoolOf, Pools
<1>3. AllSeen(file) = {} /\ Same(file, o) = {}
  BY DEF AllSeen, Same
<1>4. IsNews(file, o, recorded, alike) /\ ~Conflicts(file, o, recorded, alike)
  BY <1>3 DEF IsNews, Conflicts
<1>5. Kept(file, o) = {o}
  BY <1>1, <1>2, <1>3 DEF Kept
<1>6. Evictions({o}) = {}
  <2>1. o.obs \in Nat
    BY ObservationsAssumption DEF Observation, Stamp
  <2>2. {k \in {o} : k.obs >= o.obs} = {o}
    BY <2>1
  <2>3. Cardinality({o}) = 1
    BY FS_Singleton
  <2>4. ~(Cardinality({k \in {o} : k.obs >= o.obs}) > 1)
    BY <2>2, <2>3
  <2> QED
    BY <2>4 DEF Evictions
<1>7. \A pool \in PoolsWith(file, q, o) : pool = [file[q] EXCEPT !.seen = {o}]
  BY <1>1, <1>3, <1>5, <1>6 DEF PoolsWith, Kept
<1>8. ASSUME NEW new \in Reduced(file, o, recorded, alike)
      PROVE  new # file
  <2>1. PICK pool \in PoolsWith(file, q, o) :
          new = IF o \in pool.seen THEN [file EXCEPT ![q] = pool] ELSE file
    BY <1>1, <1>4 DEF Reduced
  <2>2. file[q] \in Pool
    BY <1>2 DEF Files
  <2>3. pool.seen = {o}
    BY <1>7, <2>1, <2>2 DEF Pool
  <2>4. new[q].seen = {o}
    BY <1>2, <2>1, <2>3 DEF Files
  <2> QED
    BY <1>2, <2>4
<1> QED
  BY <1>4, <1>8

\* The file a hook starts from.
LEMMA FileIs ==
  ASSUME HooksOK, LeadOK, NEW i \in 1..Len(hooks)
  PROVE  /\ File(i) \in Files /\ IsValid(File(i)) /\ Known(File(i))
         /\ lead \in Files => File(i) = lead
         /\ lead \notin Files => \A p \in Pools :
              /\ File(i)[p].seen = {}
              /\ File(i)[p].floor = IF lead = Damaged THEN hooks[i].obs - 1 ELSE 0
<1>1. hooks[i].obs \in Nat /\ hooks[i].obs >= 2 /\ hooks[i].obs <= 2 * MaxHooks /\ MaxHooks \in Nat
  BY HookIs, ObservationsAssumption
<1>2. CASE lead \in Files
  BY <1>2, NoneIsNone DEF File, LeadOK
<1>3. CASE lead \notin Files
  <2>1. File(i) = Started(i)
    BY <1>3 DEF LeadOK, File
  <2>2. PICK f : f = IF lead = Damaged THEN hooks[i].obs - 1 ELSE 0
    OBVIOUS
  <2>3. \A p \in Pools : File(i)[p] = [seen |-> {}, floor |-> f]
    BY <2>1, <2>2 DEF Started, EmptyPool
  <2>4. f \in Floor
    BY <1>1, <2>2 DEF Floor
  <2>5. File(i) \in Files
    BY <2>1, <2>3, <2>4 DEF Files, Pool, Started
  <2>6. Cardinality({}) <= PoolMax
    BY FS_EmptySet, ObservationsAssumption
  <2>7. AllSeen(File(i)) = {}
    BY <2>3 DEF AllSeen
  <2>8. \A p \in Pools : File(i)[p].seen = {} /\ File(i)[p].floor = f
    BY <2>3
  <2>9. IsValid(File(i)) /\ Known(File(i))
    BY <2>6, <2>7, <2>8 DEF IsValid, Known
  <2> QED
    BY <1>3, <2>2, <2>5, <2>8, <2>9
<1> QED
  BY <1>2, <1>3

\* What a hook's write does: the file takes its observation, or stays.
WriteDoes(i) ==
  \/ /\ lead' = lead /\ due' = due
     /\ at'[i] # "gone" => at'[i] = (IF hooks[i].kind = "prompt" THEN "prompts" ELSE "done")
  \/ /\ Takes(File(i), Obs(i), lead')
     /\ due' = IF cursor # None THEN due \cup {Obs(i)} ELSE due
     /\ Wrote(i)'

\* The first write of a hook.
LEMMA WriteLeadStep ==
  ASSUME HooksOK, LeadOK, NEW i \in Id, WriteLead(i)
  PROVE  /\ HooksOK' /\ LeadOK' /\ Onward
         /\ i \in 1..Len(hooks) /\ at[i] = "begun" /\ WriteDoes(i)
         /\ at'[i] \in {"prompts", "done", "gone"} /\ (at'[i] = "done" => hooks[i].kind # "prompt")
         /\ \A k \in Id \ {i} : at'[k] = at[k]
<1>1. PICK alike \in BOOLEAN :
       IF Conflicts(File(i), Obs(i), Recorded, alike)
       THEN /\ at' = [at EXCEPT ![i] = "gone"]
            /\ lead' = IF lead = Damaged THEN None ELSE lead
            /\ UNCHANGED due
       ELSE \E file \in Reduced(File(i), Obs(i), Recorded, alike) :
              /\ lead' = IF file # File(i) THEN file ELSE IF lead = Damaged THEN None ELSE lead
              /\ due' = IF file # File(i) /\ cursor # None THEN due \cup {Obs(i)} ELSE due
              /\ at' = [at EXCEPT ![i] = IF hooks[i].kind = "prompt" THEN "prompts" ELSE "done"]
  BY DEF WriteLead
<1>2. at[i] = "begun" /\ UNCHANGED hooks
  BY DEF WriteLead
<1>3. PICK to \in {"gone", "prompts", "done"} :
        /\ at' = [at EXCEPT ![i] = to]
        /\ to # "gone" => to = IF hooks[i].kind = "prompt" THEN "prompts" ELSE "done"
        /\ Conflicts(File(i), Obs(i), Recorded, alike) => to = "gone"
        /\ ~Conflicts(File(i), Obs(i), Recorded, alike) => to # "gone"
  <2>1. CASE Conflicts(File(i), Obs(i), Recorded, alike)
    BY <1>1, <2>1
  <2>2. CASE ~Conflicts(File(i), Obs(i), Recorded, alike)
    BY <1>1, <2>2
  <2> QED
    BY <2>1, <2>2
<1>4. /\ HooksOK' /\ Onward /\ i \in 1..Len(hooks)
      /\ at'[i] = to /\ \A k \in Id \ {i} : at'[k] = at[k]
  BY <1>2, <1>3, MovesOn
<1>5. to = "done" => hooks[i].kind # "prompt"
  BY <1>3
<1>6. /\ File(i) \in Files /\ IsValid(File(i)) /\ Known(File(i))
      /\ lead \in Files => File(i) = lead
      /\ lead \notin Files => \A p \in Pools :
           /\ File(i)[p].seen = {}
           /\ File(i)[p].floor = IF lead = Damaged THEN hooks[i].obs - 1 ELSE 0
  BY <1>4, FileIs
<1>7. lead \notin Files => /\ ~Conflicts(File(i), Obs(i), Recorded, alike)
                           /\ File(i) \notin Reduced(File(i), Obs(i), Recorded, alike)
  <2> SUFFICES ASSUME lead \notin Files
               PROVE  /\ ~Conflicts(File(i), Obs(i), Recorded, alike)
                      /\ File(i) \notin Reduced(File(i), Obs(i), Recorded, alike)
    OBVIOUS
  <2>1. /\ Obs(i) \in Observation /\ Obs(i).obs = hooks[i].obs /\ hooks[i].obs \in Nat
        /\ hooks[i].obs >= 2 /\ PoolOf(Obs(i).kind) \in Pools
    BY <1>4, HookIs DEF PoolOf, Pools
  <2>2. Obs(i).obs > File(i)[PoolOf(Obs(i).kind)].floor
    BY <1>6, <2>1
  <2> QED
    BY <1>6, <2>1, <2>2, EmptyTakes
<1>8. lead' = lead \/ (~Conflicts(File(i), Obs(i), Recorded, alike)
                       /\ lead' # File(i) /\ lead' \in Reduced(File(i), Obs(i), Recorded, alike))
  BY <1>1, <1>6, <1>7, NoneIsNone
<1>9. CASE lead' = lead /\ due' = due
  <2>1. LeadOK'
    <3>1. PICK file : file = lead
      OBVIOUS
    <3>2. CASE lead \in Files
      BY <1>4, <1>9, <3>1, <3>2, KnownLasts DEF LeadOK
    <3> QED
      BY <1>9, <3>2 DEF LeadOK
  <2> QED
    BY <1>2, <1>3, <1>4, <1>5, <1>9, <2>1 DEF WriteDoes
<1>10. CASE /\ ~Conflicts(File(i), Obs(i), Recorded, alike)
            /\ lead' # File(i) /\ lead' \in Reduced(File(i), Obs(i), Recorded, alike)
  <2>1. PICK file \in Reduced(File(i), Obs(i), Recorded, alike) : lead' = file /\ file # File(i)
    BY <1>10
  <2>2. Obs(i) \in Observation
    BY <1>4, HookIs
  <2>3. /\ Takes(File(i), Obs(i), file)
        /\ Cardinality(file[PoolOf(Obs(i).kind)].seen) <= PoolMax
    BY <1>6, <2>1, <2>2, ReducedTakes
  <2>4. ~Wrote(i) /\ Wrote(i)' /\ Obs(i)' = Obs(i)
    BY <1>2, <1>3, <1>4, <1>10 DEF Wrote, Obs
  <2>5. /\ IsValid(file)
        /\ \A p \in Pools : \A o \in file[p].seen :
             PoolOf(o.kind) = p /\ (o \in File(i)[p].seen \/ o = Obs(i))
    BY <1>4, <1>6, <2>3, <2>4, TakesValid
  <2>6. PICK old : old = File(i)
    OBVIOUS
  <2>7. Known(old)'
    BY <1>4, <1>6, <2>6, KnownLasts
  <2>8. Known(file)'
    <3> SUFFICES ASSUME NEW p \in Pools, NEW o \in file[p].seen
                 PROVE  Wrote(o.id)' /\ o = Obs(o.id)' /\ PoolOf(o.kind) = p
      BY DEF Known
    <3>1. Obs(i).id = i
      BY DEF Obs
    <3> QED
      BY <2>4, <2>5, <2>6, <2>7, <3>1 DEF Known
  <2>9. file \in Files
    BY <2>3 DEF Takes
  <2>10. LeadOK'
    <3>1. IsValid(lead)' /\ Known(lead)'
      BY <2>1, <2>5, <2>8 DEF IsValid, Known, AllSeen
    <3> QED
      BY <2>1, <2>9, <3>1 DEF LeadOK
  <2>11. due' = IF cursor # None THEN due \cup {Obs(i)} ELSE due
    <3>1. PICK f \in Reduced(File(i), Obs(i), Recorded, alike) :
              /\ lead' = IF f # File(i) THEN f ELSE IF lead = Damaged THEN None ELSE lead
              /\ due' = IF f # File(i) /\ cursor # None THEN due \cup {Obs(i)} ELSE due
      BY <1>1, <1>10
    <3>2. f # File(i)
      BY <1>6, <1>7, <2>1, <2>9, <3>1, NoneIsNone DEF LeadOK
    <3> QED
      BY <3>1, <3>2
  <2> QED
    BY <1>2, <1>3, <1>4, <1>5, <2>1, <2>3, <2>4, <2>10, <2>11 DEF WriteDoes
<1>11. lead' = lead => due' = due \/
          (~Conflicts(File(i), Obs(i), Recorded, alike)
           /\ lead' # File(i) /\ lead' \in Reduced(File(i), Obs(i), Recorded, alike))
  BY <1>1, <1>6, <1>7, NoneIsNone
<1> QED
  BY <1>8, <1>9, <1>10, <1>11

-----------------------------------------------------------------------------
(***************************************************************************)
(* Every step keeps the files.                                             *)
(***************************************************************************)
\* Only the hook between its two writes is past the first.
LEMMA RecordLasts ==
  ASSUME HooksOK, RecordOK, Onward, HooksOK', prompts' = prompts,
         \A k \in 1..Len(hooks') : at'[k] = "done" => k \in 1..Len(hooks)
              /\ (at[k] = "done" \/ hooks[k].kind # "prompt")
  PROVE  RecordOK'
<1>1. \A k \in 1..Len(hooks) : hooks'[k] = hooks[k] /\ (Wrote(k) => Wrote(k)')
  BY DEF Onward
<1>2. \A k : Wrote(k) => Wrote(k)' /\ hooks'[k] = hooks[k]
  BY <1>1 DEF Wrote
<1> QED
  BY <1>1, <1>2 DEF RecordOK

\* The histories' types last while events and reads only go on.
LEMMA HistoryLasts ==
  ASSUME HooksOK, Onward, HistoryOK, UNCHANGED <<reader, reads, delivered>>,
         due' = due \/ \E i \in 1..Len(hooks) : due' = due \cup {Obs(i)}
  PROVE  HistoryOK'
<1>1. PICK file : file = reader.lead
  OBVIOUS
<1>2. Known(file) => Known(file)'
  BY KnownLasts
<1>3. due' \subseteq Observation
  BY HookIs DEF HistoryOK
<1> QED
  BY <1>1, <1>2, <1>3 DEF HistoryOK, Known

\* The lifecycle file unchanged.
LEMMA LeadLasts ==
  ASSUME HooksOK, Onward, LeadOK, lead' = lead
  PROVE  LeadOK'
<1>1. PICK file : file = lead
  OBVIOUS
<1>2. CASE lead \in Files
  BY <1>1, <1>2, KnownLasts DEF LeadOK, Known
<1>3. CASE lead \notin Files
  BY <1>3 DEF LeadOK
<1> QED
  BY <1>2, <1>3

\* The second write names the later prompt, and the answers of hooks that ran.
LEMMA WritePromptsStep ==
  ASSUME HooksOK, RecordOK, NEW i \in Id, WritePrompts(i)
  PROVE  /\ HooksOK' /\ RecordOK' /\ Onward /\ i \in 1..Len(hooks) /\ at[i] = "prompts"
         /\ at'[i] = "done" /\ \A k \in Id \ {i} : at'[k] = at[k]
         /\ prompts' # None
         /\ prompts # None => prompts'.latest.id >= prompts.latest.id
<1>1. at[i] = "prompts" /\ UNCHANGED hooks /\ at' = [at EXCEPT ![i] = "done"]
  BY DEF WritePrompts
<1>2. /\ HooksOK' /\ Onward /\ i \in 1..Len(hooks)
      /\ at'[i] = "done" /\ \A k \in Id \ {i} : at'[k] = at[k]
  BY <1>1, MovesOn
<1>3. PICK answers \in RecordAnswers(i) : prompts' = [latest |-> RecordPrompt(i), answers |-> answers]
  BY DEF WritePrompts
<1>4. hooks[i].kind = "prompt" /\ Wrote(i)
  BY <1>1, <1>2 DEF HooksOK, Wrote
<1>5. PICK r : r = [id |-> i, obs |-> hooks[i].obs]
  OBVIOUS
<1>6. /\ r \in Prompt /\ Named(r) /\ i \in Id /\ hooks[i].obs \in Stamp /\ r.id = i
  BY <1>2, <1>5, HookIs DEF Prompt, Named
<1>7. PICK c : c = IF prompts = None THEN NoPrompt ELSE prompts.latest
  OBVIOUS
<1>8. Named(c) /\ (prompts # None => c = prompts.latest /\ c \in Prompt)
  BY <1>7 DEF RecordOK, Records, Named, NoPrompt, Wrote
<1>9. PICK l : l = RecordPrompt(i)
  OBVIOUS
<1>10. /\ l = r \/ (prompts # None /\ l = c)
       /\ l.id >= i /\ l.id >= c.id
  <2>1. l = Later(c, r)
    BY <1>5, <1>7, <1>9 DEF RecordPrompt, Recorded
  <2>2. /\ c.id < r.id => l = r
        /\ ~(c.id < r.id) => l = c
        /\ c.id \in Nat /\ r.id \in Nat
    BY <1>6, <1>8, <2>1, InOrder DEF Later
  <2>3. prompts = None => c.id < r.id
    BY <1>6, <1>7 DEF NoPrompt, Id
  <2> QED
    BY <1>6, <2>2, <2>3
<1>11. /\ l \in Prompt /\ Wrote(l.id) /\ l.obs = hooks[l.id].obs /\ hooks[l.id].kind = "prompt"
  BY <1>4, <1>5, <1>6, <1>8, <1>10 DEF RecordOK
<1>12. \A a \in answers : a \in Answer /\ Wrote(a.id) /\ a.question \in hooks[a.id].answers
  <2>1. PICK held : held = IF prompts = None THEN {} ELSE prompts.answers
    OBVIOUS
  <2>2. \A a \in held : a \in Answer /\ Wrote(a.id) /\ a.question \in hooks[a.id].answers
    BY <2>1 DEF RecordOK, Records
  <2>3. PICK mine : mine = {[id |-> i, question |-> q, obs |-> hooks[i].obs] :
                              q \in {q \in hooks[i].answers : \A a \in held : a.question # q}}
    OBVIOUS
  <2>4. \A a \in mine : a \in Answer /\ Wrote(a.id) /\ a.question \in hooks[a.id].answers
    <3>1. hooks[i].answers \subseteq Question
      BY <1>2, HookIs DEF Hook
    <3> QED
      BY <1>4, <1>6, <2>3, <3>1 DEF Answer
  <2>5. answers \subseteq held \cup mine
    BY <1>3, <2>1, <2>3 DEF RecordAnswers
  <2> QED
    BY <2>2, <2>4, <2>5
<1>13. prompts' \in Records /\ prompts'.latest = l /\ prompts'.answers = answers /\ prompts' # None
  BY <1>3, <1>9, <1>11, <1>12, NoneIsNone DEF Records
<1>14. \A k : Wrote(k) => Wrote(k)' /\ hooks'[k] = hooks[k]
  BY <1>1, <1>2 DEF Onward, Wrote
<1>15. \A k \in 1..Len(hooks) : at'[k] = "done" /\ hooks[k].kind = "prompt" => l.id >= k
  <2> SUFFICES ASSUME NEW k \in 1..Len(hooks), at'[k] = "done", hooks[k].kind = "prompt"
               PROVE  l.id >= k
    OBVIOUS
  <2>1. CASE k = i
    BY <1>10, <2>1
  <2>2. CASE k # i
    <3>1. at[k] = "done"
      BY <1>2, <2>2, HookIs
    <3>2. prompts # None /\ c.id >= k /\ c.id \in Nat /\ l.id \in Nat
      <4>1. prompts # None /\ c.id >= k
        BY <1>8, <3>1 DEF RecordOK
      <4> QED
        BY <1>6, <1>8, <1>10, <4>1, InOrder
    <3> QED
      BY <1>10, <3>2
  <2> QED
    BY <2>1, <2>2
<1>16. RecordOK'
  BY <1>1, <1>11, <1>12, <1>13, <1>14, <1>15 DEF RecordOK
<1> QED
  BY <1>1, <1>2, <1>8, <1>10, <1>13, <1>16

\* What is reported happened.
LEMMA EventsHappened ==
  ASSUME HooksOK, RecordOK, NEW file \in {None} \cup Files, file # None => Known(file), NEW known,
         NEW e \in EventsBetween(known, file, prompts)
  PROVE  e \in Event /\ e \in Happened
<1>1. PICK fresh : fresh = IF file = None THEN {} ELSE {o \in AllSeen(file) : o.id \notin known.seen}
  OBVIOUS
<1>2. PICK latest : latest = LatestPrompt(file, prompts).id
  OBVIOUS
<1>3. \/ \E o \in fresh : o.kind = "prompt" /\ e = <<"prompt", o.id, None>>
      \/ \E o \in fresh : o.kind = "stop" /\ e = <<"turn_end", o.id, None>>
      \/ latest # 0 /\ e = <<"prompt", latest, None>>
      \/ \E a \in AnswersOf(prompts) : e = <<"answer", a.id, a.question>>
  BY <1>1, <1>2 DEF EventsBetween
<1>4. ASSUME NEW i, Wrote(i)
      PROVE  /\ i \in Id /\ i \in DOMAIN hooks /\ at[i] \notin {"idle", "begun", "gone"}
             /\ <<"prompt", i, None>> \in Happened /\ <<"turn_end", i, None>> \in Happened
             /\ <<"prompt", i, None>> \in Event /\ <<"turn_end", i, None>> \in Event
             /\ \A q \in hooks[i].answers : <<"answer", i, q>> \in Happened /\ <<"answer", i, q>> \in Event
  <2>1. i \in Id /\ i \in DOMAIN hooks /\ at[i] \notin {"idle", "begun", "gone"} /\ hooks[i] \in Hook
    BY <1>4, HookIs DEF Wrote, HooksOK
  <2>2. hooks[i].answers \subseteq Question
    BY <2>1 DEF Hook
  <2>3. /\ <<"prompt", i, None>> \in Event /\ <<"turn_end", i, None>> \in Event
        /\ \A q \in hooks[i].answers : <<"answer", i, q>> \in Event
    BY <2>1, <2>2 DEF Event
  <2>4. /\ <<"prompt", i, None>> \in Happened /\ <<"turn_end", i, None>> \in Happened
        /\ \A q \in hooks[i].answers : <<"answer", i, q>> \in Happened
    BY <2>1 DEF Happened
  <2> QED
    BY <2>1, <2>3, <2>4
<1>5. \A o \in fresh : Wrote(o.id)
  BY <1>1, FileNames
<1>6. latest # 0 => Wrote(latest)
  BY <1>2, LatestPromptIs
<1>7. \A a \in AnswersOf(prompts) : Wrote(a.id) /\ a.question \in hooks[a.id].answers
  BY DEF RecordOK, AnswersOf
<1>8. CASE \E o \in fresh : e = <<"prompt", o.id, None>> \/ e = <<"turn_end", o.id, None>>
  BY <1>4, <1>5, <1>8
<1>9. CASE latest # 0 /\ e = <<"prompt", latest, None>>
  BY <1>4, <1>6, <1>9
<1>10. CASE \E a \in AnswersOf(prompts) : e = <<"answer", a.id, a.question>>
  BY <1>4, <1>7, <1>10
<1> QED
  BY <1>3, <1>8, <1>9, <1>10

\* The observer's steps.
LEMMA ReadLeadStep ==
  ASSUME FilesInv, ReadLead
  PROVE  FilesInv'
<1>1. UNCHANGED <<hookVars, lead, prompts>>
  BY DEF ReadLead, files
<1>2. HooksOK' /\ Onward
  BY <1>1, HooksRest DEF FilesInv
<1>3. LeadOK'
  BY <1>1, <1>2, LeadLasts DEF FilesInv
<1>4. RecordOK'
  BY <1>1 DEF FilesInv, RecordOK, hookVars, Wrote
<1>5. CountsOK'
  BY ObservationsAssumption DEF FilesInv, CountsOK, ReadLead
<1>6. HistoryOK'
  <2>1. reads' > 0
    BY DEF FilesInv, CountsOK, ReadLead
  <2>2. UNCHANGED <<delivered, due>>
    BY DEF ReadLead
  <2>3. reader' = Idle \/ (reader' # Idle /\ reader'.lead = lead /\ lead # Damaged)
    BY DEF ReadLead, FilesInv, LeadOK
  <2>4. lead \in Files => Known(lead)'
    BY <1>1, <1>3 DEF LeadOK
  <2>5. reader' # Idle => reader'.lead \in {None} \cup Files
    BY <2>3 DEF FilesInv, LeadOK
  <2>6. ASSUME reader' # Idle, reader'.lead # None
        PROVE  Known(reader.lead)'
    <3>1. reader'.lead = lead' /\ lead \in Files /\ Known(lead)'
      BY <1>1, <2>3, <2>4, <2>6 DEF FilesInv, LeadOK
    <3> QED
      BY <3>1 DEF Known
  <2> QED
    BY <2>1, <2>2, <2>5, <2>6 DEF HistoryOK, FilesInv
<1> QED
  BY <1>2, <1>3, <1>4, <1>5, <1>6 DEF FilesInv

\* The end of a read.
LEMMA ObserveStep ==
  ASSUME FilesInv, Observe
  PROVE  FilesInv'
<1>1. UNCHANGED <<hookVars, lead, prompts>> /\ reader # Idle
  BY DEF Observe, files
<1>2. HooksOK' /\ Onward
  BY <1>1, HooksRest DEF FilesInv
<1>3. LeadOK'
  BY <1>1, <1>2, LeadLasts DEF FilesInv
<1>4. RecordOK'
  BY <1>1 DEF FilesInv, RecordOK, hookVars, Wrote
<1>5. CountsOK'
  BY DEF FilesInv, CountsOK, Observe
<1>6. HistoryOK'
  <2>1. reader' = Idle
    BY DEF Observe
  <2>2. reads \in 1..MaxReads
    BY <1>1 DEF FilesInv, HistoryOK, CountsOK
  <2>3. Stored \subseteq Observation
    <3>1. CASE lead \in {None, Damaged}
      BY <3>1 DEF Stored
    <3>2. CASE lead \in Files
      BY <3>2, NoneIsNone DEF Stored, AllSeen, Files, Pool
    <3> QED
      BY <3>1, <3>2 DEF FilesInv, LeadOK
  <2>4. EventsBetween(cursor, reader.lead, prompts) \subseteq Event
    BY <1>1, EventsHappened DEF FilesInv, HistoryOK
  <2>5. delivered' \subseteq Event \X (1..MaxReads)
    BY <2>2, <2>4 DEF Observe, Baseline, Report, FilesInv, HistoryOK
  <2>6. due' \subseteq Observation
    BY <2>3 DEF Observe, Baseline, Report, FilesInv, HistoryOK
  <2> QED
    BY <2>1, <2>5, <2>6 DEF HistoryOK
<1> QED
  BY <1>2, <1>3, <1>4, <1>5, <1>6 DEF FilesInv

\* Every step keeps the files, and what hooks wrote.
LEMMA FilesStep == FilesInv /\ [Next]_vars => FilesInv' /\ Onward
<1> SUFFICES ASSUME FilesInv, [Next]_vars
             PROVE  FilesInv' /\ Onward
  OBVIOUS
<1> USE DEF FilesInv
<1>1. ASSUME NEW kind \in Kinds, NEW turn \in Turn \cup {None}, NEW answers \in SUBSET Question,
             Begin(kind, turn, answers)
      PROVE  FilesInv' /\ Onward
  <2>1. HooksOK' /\ Onward /\ \A k \in 1..Len(hooks) : at'[k] = at[k]
    BY <1>1, BeginStep
  <2>2. /\ UNCHANGED <<lead, prompts, pointer, damage, reader, reads, delivered, due>>
        /\ at' = [at EXCEPT ![Len(hooks) + 1] = "begun"]
    BY <1>1 DEF Begin, files, observer
  <2>3. \A k \in 1..Len(hooks') : at'[k] = "done" => k \in 1..Len(hooks) /\ at[k] = "done"
    <3>1. \A k \in 1..Len(hooks') : k \in 1..Len(hooks) \/ k = Len(hooks) + 1
      BY <1>1 DEF Begin, HooksOK
    <3>2. at'[Len(hooks) + 1] # "done"
      BY <1>1, ObservationsAssumption DEF HooksOK, Begin, Id
    <3> QED
      BY <2>1, <3>1, <3>2
  <2>4. RecordOK'
    BY <2>1, <2>2, <2>3, RecordLasts
  <2>5. HistoryOK'
    BY <2>1, <2>2, HistoryLasts
  <2>6. LeadOK'
    BY <2>1, <2>2, LeadLasts
  <2> QED
    BY <2>1, <2>2, <2>4, <2>5, <2>6 DEF CountsOK
<1>2. ASSUME NEW i \in Id, WriteLead(i)
      PROVE  FilesInv' /\ Onward
  <2>1. /\ HooksOK' /\ LeadOK' /\ Onward
        /\ i \in 1..Len(hooks) /\ at[i] = "begun" /\ WriteDoes(i)
        /\ at'[i] \in {"prompts", "done", "gone"} /\ (at'[i] = "done" => hooks[i].kind # "prompt")
        /\ \A k \in Id \ {i} : at'[k] = at[k]
    BY <1>2, WriteLeadStep
  <2>2. UNCHANGED <<hooks, prompts, pointer, damage, reader, reads, delivered>>
    BY <1>2 DEF WriteLead, observer
  <2>3. due' = due \/ due' = due \cup {Obs(i)}
    BY <2>1 DEF WriteDoes
  <2>4. RecordOK'
    BY <2>1, <2>2, RecordLasts, HookIs
  <2>5. HistoryOK'
    BY <2>1, <2>2, <2>3, HistoryLasts
  <2> QED
    BY <2>1, <2>2, <2>4, <2>5 DEF CountsOK
<1>3. ASSUME NEW i \in Id, Refuse(i) \/ Die(i)
      PROVE  FilesInv' /\ Onward
  <2>1. PICK to \in {"gone", "half"} :
          /\ at' = [at EXCEPT ![i] = to] /\ at[i] \in {"begun", "prompts"}
          /\ at[i] = "prompts" => to # "gone"
    BY <1>3 DEF Refuse, Die
  <2>2. UNCHANGED <<hooks, lead, prompts, pointer, damage, reader, reads, delivered, due>>
    BY <1>3 DEF Refuse, Die, files, observer
  <2>3. /\ HooksOK' /\ Onward /\ i \in 1..Len(hooks)
        /\ at'[i] = to /\ \A k \in Id \ {i} : at'[k] = at[k]
    BY <2>1, <2>2, MovesOn
  <2>4. RecordOK'
    BY <2>1, <2>2, <2>3, RecordLasts, HookIs
  <2>5. HistoryOK'
    BY <2>2, <2>3, HistoryLasts
  <2>6. LeadOK'
    BY <2>2, <2>3, LeadLasts
  <2> QED
    BY <2>2, <2>3, <2>4, <2>5, <2>6 DEF CountsOK
<1>4. ASSUME NEW i \in Id, WritePrompts(i)
      PROVE  FilesInv' /\ Onward
  <2>1. HooksOK' /\ RecordOK' /\ Onward
    BY <1>4, WritePromptsStep
  <2>2. UNCHANGED <<lead, pointer, damage, reader, reads, delivered, due>>
    BY <1>4 DEF WritePrompts, observer
  <2>3. HistoryOK'
    BY <2>1, <2>2, HistoryLasts
  <2>4. LeadOK'
    BY <2>1, <2>2, LeadLasts
  <2> QED
    BY <2>1, <2>2, <2>3, <2>4 DEF CountsOK
<1>5. CASE Damage \/ MovePointer \/ UNCHANGED vars
  <2>1. UNCHANGED <<hookVars, prompts, reader, reads, delivered, due>>
    BY <1>5 DEF Damage, MovePointer, vars, hookVars, files, observer
  <2>2. HooksOK' /\ Onward
    BY <2>1, HooksRest
  <2>3. RecordOK'
    BY <2>1 DEF RecordOK, hookVars, Wrote
  <2>4. HistoryOK'
    BY <2>1, <2>2, HistoryLasts
  <2>5. LeadOK'
    <3>1. CASE lead' = lead
      BY <2>2, <3>1, LeadLasts
    <3>2. CASE lead' = Damaged
      BY <3>2, NoneIsNone DEF LeadOK
    <3> QED
      BY <1>5, <3>1, <3>2 DEF Damage, MovePointer, vars, files
  <2>6. CountsOK'
    BY <1>5, ObservationsAssumption DEF CountsOK, Damage, MovePointer, vars, observer
  <2> QED
    BY <2>2, <2>3, <2>4, <2>5, <2>6
<1>6. CASE ReadLead
  <2>1. UNCHANGED hookVars
    BY <1>6 DEF ReadLead
  <2> QED
    BY <1>6, <2>1, ReadLeadStep, HooksRest
<1>7. CASE Observe
  <2>1. UNCHANGED hookVars
    BY <1>7 DEF Observe
  <2> QED
    BY <1>7, <2>1, ObserveStep, HooksRest
<1> QED
  BY <1>1, <1>2, <1>3, <1>4, <1>5, <1>6, <1>7 DEF Next

\* The initial files.
LEMMA FilesInit == Init => FilesInv
<1> SUFFICES ASSUME Init
             PROVE  FilesInv
  OBVIOUS
<1>1. HooksOK
  BY ObservationsAssumption DEF Init, HooksOK, Id
<1>2. LeadOK /\ RecordOK /\ CountsOK /\ HistoryOK
  BY <1>1, NoneIsNone, ObservationsAssumption
     DEF Init, LeadOK, RecordOK, CountsOK, HistoryOK, HooksOK
<1> QED
  BY <1>1, <1>2 DEF FilesInv

\* What the files' invariant says of the files a reader meets.
LEMMA FilesAreOK == FilesInv => RecordsOK
<1> SUFFICES ASSUME FilesInv
             PROVE  TypeOK /\ PromptIsRemembered
  BY DEF RecordsOK
<1> USE DEF FilesInv
<1>1. TypeOK
  BY DEF TypeOK, HooksOK, LeadOK, RecordOK, CountsOK, HistoryOK, Files
<1>2. ASSUME NEW i \in DOMAIN hooks, at[i] = "done", hooks[i].kind = "prompt", lead # Damaged
      PROVE  ~Before(LatestPrompt(lead, prompts), [id |-> i, obs |-> hooks[i].obs])
  <2>1. i \in 1..Len(hooks)
    BY DEF HooksOK
  <2>2. prompts # None /\ prompts.latest.id >= i
    BY <1>2, <2>1 DEF RecordOK
  <2>3. PICK r : r = LatestPrompt(lead, prompts)
    OBVIOUS
  <2>4. lead \in {None} \cup Files /\ (lead # None => Known(lead))
    BY <1>2 DEF LeadOK
  <2>5. Named(r) /\ prompts.latest.id <= r.id
    BY <2>2, <2>3, <2>4, LatestPromptIs
  <2>6. PICK m : m = [id |-> i, obs |-> hooks[i].obs]
    OBVIOUS
  <2>7. Named(m) /\ m.id = i
    BY <2>1, <2>6 DEF Named
  <2>8. Wrote(prompts.latest.id) /\ prompts.latest.id \in Nat /\ i \in Nat
    BY <2>1, <2>2 DEF RecordOK, Wrote
  <2>9. ~(r.id < m.id) /\ (Before(r, m) <=> r.id < m.id)
    BY <2>2, <2>5, <2>7, <2>8, InOrder
  <2> QED
    BY <2>3, <2>6, <2>9
<1> QED
  BY <1>1, <1>2 DEF PromptIsRemembered

\* The lifecycle file and the prompt record keep their form and stay readable together, and
\* the latest prompt of a hook that ended is never forgotten (append_observation, reduce,
\* record_prompt).
THEOREM RecordsStayReadable == Spec => []RecordsOK
  BY FilesInit, FilesStep, FilesAreOK, PTL DEF Spec

-----------------------------------------------------------------------------
(***************************************************************************)
(* How the lifecycle file goes on.                                         *)
(***************************************************************************)
\* It stays, is damaged, or takes what a hook observed.
LEMMA LeadForms ==
  ASSUME FilesInv, [Next]_vars
  PROVE  \/ lead' = lead
         \/ lead \in Files /\ lead' = Damaged
         \/ \E i \in 1..Len(hooks) :
              at[i] = "begun" /\ Wrote(i)' /\ at'[i] # "begun" /\ Takes(File(i), Obs(i), lead')
<1> DEFINE Forms == \/ lead' = lead
                    \/ lead \in Files /\ lead' = Damaged
                    \/ \E i \in 1..Len(hooks) :
                         /\ at[i] = "begun" /\ Wrote(i)' /\ at'[i] # "begun"
                         /\ Takes(File(i), Obs(i), lead')
<1>1. ASSUME NEW i \in Id, WriteLead(i)
      PROVE  Forms
  BY <1>1, WriteLeadStep DEF WriteDoes, FilesInv
<1>2. ASSUME NEW i \in Id, Refuse(i) \/ WritePrompts(i) \/ Die(i)
      PROVE  Forms
  BY <1>2 DEF Refuse, WritePrompts, Die, files
<1>3. CASE Damage
  BY <1>3 DEF Damage, FilesInv, LeadOK
<1>4. ASSUME NEW kind, NEW turn, NEW answers, Begin(kind, turn, answers)
      PROVE  Forms
  BY <1>4 DEF Begin, files
<1>5. CASE MovePointer \/ ReadLead \/ Observe \/ UNCHANGED vars
  BY <1>5 DEF MovePointer, ReadLead, Observe, vars, files
<1> QED
  BY <1>1, <1>2, <1>3, <1>4, <1>5 DEF Next

\* What a file that takes an observation holds, and what it lost.
LEMMA TakeForms ==
  ASSUME FilesInv, NEW i \in 1..Len(hooks), at[i] = "begun", NEW new, Takes(File(i), Obs(i), new)
  PROVE  /\ new \in Files /\ Obs(i) \in AllSeen(new)
         /\ \A p \in Pools : \A o \in new[p].seen : o = Obs(i) \/ o \in File(i)[p].seen
         /\ \A p \in Pools : \/ new[p].floor = File(i)[p].floor
                             \/ \E e \in File(i)[p].seen : new[p].floor = e.obs
         /\ \A o \in AllSeen(File(i)) :
              \/ o \in AllSeen(new)
              \/ Key(o) = Key(Obs(i)) /\ o.kind = Obs(i).kind /\ Before(o, Obs(i)) /\ o.id < i
              \/ \E p \in Pools : \E e \in File(i)[p].seen : new[p].floor = e.obs
<1>1. PICK o : o = Obs(i)
  OBVIOUS
<1>2. PICK q : q = PoolOf(o.kind)
  OBVIOUS
<1>3. PICK file : file = File(i)
  OBVIOUS
<1>4. q \in Pools /\ o.id = i /\ Named(o) /\ Known(file)
  BY <1>1, <1>2, <1>3, HookIs, FileIs DEF PoolOf, Pools, Named, FilesInv
<1>5. /\ new \in Files /\ o \in new[q].seen
      /\ \A p \in Pools : p # q => new[p] = file[p]
      /\ \A k \in Same(file, o) : k.obs < o.obs
      /\ \/ new[q] = [seen |-> Kept(file, o), floor |-> file[q].floor]
         \/ \E e \in file[q].seen :
              new[q] = [seen |-> {k \in Kept(file, o) : k.obs > e.obs}, floor |-> e.obs]
  BY <1>1, <1>2, <1>3 DEF Takes
<1>6. Kept(file, o) = (file[q].seen \ Same(file, o)) \cup {o}
  BY <1>2 DEF Kept
<1>7. /\ \A k \in new[q].seen : k = o \/ k \in file[q].seen
      /\ new[q].floor = file[q].floor \/ \E e \in file[q].seen : new[q].floor = e.obs
      /\ Kept(file, o) \subseteq new[q].seen \/ \E e \in file[q].seen : new[q].floor = e.obs
  <2>1. CASE new[q] = [seen |-> Kept(file, o), floor |-> file[q].floor]
    BY <1>6, <2>1
  <2>2. ASSUME NEW e \in file[q].seen,
               new[q] = [seen |-> {k \in Kept(file, o) : k.obs > e.obs}, floor |-> e.obs]
        PROVE  /\ \A k \in new[q].seen : k = o \/ k \in file[q].seen
               /\ new[q].floor = e.obs
    BY <1>6, <2>2
  <2> QED
    BY <1>5, <2>1, <2>2
<1>8. \A p \in Pools : p # q => new[p] = file[p]
  BY <1>5
<1>9. o \in AllSeen(new)
  BY <1>4, <1>5 DEF AllSeen
<1>10. ASSUME NEW k \in AllSeen(file), k \notin AllSeen(new)
       PROVE  \/ Key(k) = Key(o) /\ k.kind = o.kind /\ Before(k, o) /\ k.id < i
              \/ \E p \in Pools : \E e \in file[p].seen : new[p].floor = e.obs
  <2>1. PICK p \in Pools : k \in file[p].seen
    BY DEF AllSeen
  <2>2. p = q /\ k \notin new[q].seen
    BY <1>4, <1>5, <1>10, <2>1 DEF AllSeen
  <2>3. Named(k)
    BY <1>4, FileNames DEF FilesInv
  <2>4. CASE k \in Same(file, o)
    <3>1. Key(k) = Key(o) /\ k.obs < o.obs
      BY <1>5, <2>4 DEF Same
    <3>2. k.kind = o.kind
      <4>1. Key(k)[1] = k.kind /\ Key(o)[1] = o.kind
        BY DEF Key
      <4> QED
        BY <3>1, <4>1
    <3>3. Before(k, o)
      BY <3>1 DEF Before
    <3>4. k.id < o.id
      BY <1>4, <2>3, <3>3, InOrder DEF FilesInv
    <3> QED
      BY <1>4, <3>1, <3>2, <3>3, <3>4
  <2>5. CASE k \notin Same(file, o)
    <3>1. k \in Kept(file, o)
      BY <1>6, <2>1, <2>2, <2>5
    <3> QED
      BY <1>4, <1>7, <2>2, <3>1
  <2> QED
    BY <2>4, <2>5
<1> QED
  BY <1>1, <1>3, <1>4, <1>5, <1>7, <1>8, <1>9, <1>10

\* Stamps of what a file holds, while no two hooks read one clock value.
LEMMA SeenStamps ==
  ASSUME FilesInv, ~Ties
  PROVE  /\ \A i \in 1..Len(hooks) : hooks[i].obs = 2 * i /\ Obs(i).obs = 2 * i
         /\ lead \in Files => \A p \in Pools : \A e \in lead[p].seen :
              e.id \in 1..Len(hooks) /\ Wrote(e.id) /\ e.obs = 2 * e.id
<1>1. \A i \in 1..Len(hooks) : hooks[i].obs = 2 * i /\ Obs(i).obs = 2 * i
  BY HookIs DEF FilesInv, HooksOK
<1> QED
  BY <1>1, HookIs DEF FilesInv, LeadOK, Known, Wrote

\* A floor that is spent stays so.
LEMMA SpentLasts ==
  ASSUME FilesInv, ~Ties, [Next]_vars, NEW p \in Pools, NEW f, SpentAt(p, f)
  PROVE  SpentAt(p, f)'
<1>1. FilesInv' /\ Onward
  BY FilesStep
<1>2. f \in Nat /\ f <= 2 * Len(hooks')
  BY <1>1 DEF SpentAt, Onward
<1>3. ASSUME NEW i \in 1..Len(hooks'), at'[i] = "begun"
      PROVE  f # 2 * i /\ f # 2 * i - 1
  <2>1. i = Len(hooks) + 1 \/ (i \in 1..Len(hooks) /\ at[i] = "begun")
    BY <1>1, <1>3 DEF Onward
  <2> QED
    BY <1>1, <2>1 DEF SpentAt, Onward
<1>4. /\ lead' \in Files => \A o \in lead'[p].seen : o.obs # f
      /\ f # 0 => lead' # None /\ (lead' \in Files => lead'[p].floor # 0)
  <2>1. CASE lead' = lead
    BY <2>1 DEF SpentAt
  <2>2. CASE lead' = Damaged
    BY <2>2, NoneIsNone
  <2>3. ASSUME NEW i \in 1..Len(hooks), at[i] = "begun", Takes(File(i), Obs(i), lead')
        PROVE  /\ \A o \in lead'[p].seen : o.obs # f
               /\ f # 0 => lead' # None /\ lead'[p].floor # 0
    <3>1. /\ lead' \in Files
          /\ \A o \in lead'[p].seen : o = Obs(i) \/ o \in File(i)[p].seen
          /\ \/ lead'[p].floor = File(i)[p].floor
             \/ \E e \in File(i)[p].seen : lead'[p].floor = e.obs
      BY <2>3, TakeForms
    <3>2. Obs(i).obs = 2 * i /\ f # 2 * i /\ hooks[i].obs = 2 * i /\ i \in Nat
      BY <2>3, SeenStamps DEF SpentAt
    <3>3. CASE lead \in Files
      <4>1. File(i) = lead
        BY <3>3, FileIs DEF FilesInv
      <4>2. \A e \in lead[p].seen : e.obs # f /\ e.obs # 0
        BY <3>3, SeenStamps DEF SpentAt
      <4> QED
        BY <3>1, <3>2, <3>3, <4>1, <4>2, NoneIsNone DEF SpentAt
    <3>4. CASE lead \notin Files
      <4>1. File(i)[p].seen = {} /\ File(i)[p].floor = IF lead = Damaged THEN 2 * i - 1 ELSE 0
        BY <3>2, <3>4, FileIs DEF FilesInv
      <4>2. f # 0 => lead = Damaged
        BY <3>4 DEF SpentAt, FilesInv, LeadOK
      <4> QED
        BY <3>1, <3>2, <4>1, <4>2, NoneIsNone
    <3> QED
      BY <3>3, <3>4
  <2> QED
    BY <2>1, <2>2, <2>3, LeadForms
<1> QED
  BY <1>2, <1>3, <1>4 DEF SpentAt

\* What moved on does not come back, and a prompt in the file stays, gives way to a later one,
\* or goes with a floor that tells.
LEMMA MovedLasts ==
  ASSUME FilesInv, ~Ties, [Next]_vars, NEW f, Spent(f)
  PROVE  /\ Moved(f) => Moved(f)'
         /\ \A k \in Nat : HasPrompt(lead, k) => Moved(f)' \/ HasPrompt(lead, k)'
<1>1. CASE lead' = lead
  BY <1>1 DEF Moved, HasPrompt, AllSeen
<1>2. CASE lead' = Damaged
  BY <1>2 DEF Moved
<1>3. ASSUME NEW i \in 1..Len(hooks), at[i] = "begun", Takes(File(i), Obs(i), lead')
      PROVE  /\ Moved(f) => Moved(f)'
             /\ \A k \in Nat : HasPrompt(lead, k) => Moved(f)' \/ HasPrompt(lead, k)'
  <2>1. /\ lead' \in Files /\ Obs(i) \in AllSeen(lead')
        /\ \A p \in Pools : \/ lead'[p].floor = File(i)[p].floor
                            \/ \E e \in File(i)[p].seen : lead'[p].floor = e.obs
        /\ \A o \in AllSeen(File(i)) :
              \/ o \in AllSeen(lead')
              \/ Key(o) = Key(Obs(i)) /\ o.kind = Obs(i).kind /\ Before(o, Obs(i)) /\ o.id < i
              \/ \E p \in Pools : \E e \in File(i)[p].seen : lead'[p].floor = e.obs
    BY <1>3, TakeForms
  <2>2. CASE lead \in Files
    <3>1. File(i) = lead
      BY <2>2, FileIs DEF FilesInv
    <3>2. \A p \in Pools : \A e \in lead[p].seen : e.obs # f[p] /\ e.obs # 0
      BY <2>2, SeenStamps DEF Spent, SpentAt
    <3>3. Moved(f) => Moved(f)'
      BY <2>1, <2>2, <3>1, <3>2, NoneIsNone DEF Moved
    <3>4. ASSUME NEW k \in Nat, HasPrompt(lead, k)
          PROVE  Moved(f)' \/ HasPrompt(lead, k)'
      <4>1. PICK o \in AllSeen(lead) : o.kind = "prompt" /\ o.id >= k
        BY <3>4 DEF HasPrompt
      <4>2. CASE o \in AllSeen(lead')
        BY <2>1, <4>1, <4>2 DEF HasPrompt, AllSeen
      <4>3. CASE o.kind = Obs(i).kind /\ o.id < i
        <5>1. o.id \in Nat /\ Obs(i).id = i
          BY <2>2, FileNames, HookIs DEF FilesInv, LeadOK
        <5>2. PICK n : n = Obs(i)
          OBVIOUS
        <5>3. n \in AllSeen(lead') /\ n.kind = "prompt" /\ n.id >= k
          BY <2>1, <4>1, <4>3, <5>1, <5>2
        <5> QED
          BY <2>1, <5>3 DEF HasPrompt, AllSeen
      <4>4. CASE \E p \in Pools : \E e \in lead[p].seen : lead'[p].floor = e.obs
        BY <2>1, <3>2, <4>4 DEF Moved
      <4> QED
        BY <2>1, <3>1, <4>2, <4>3, <4>4
    <3> QED
      BY <3>3, <3>4
  <2>3. CASE lead \notin Files
    <3>1. Moved(f) => Moved(f)'
      <4> SUFFICES ASSUME lead = Damaged
                   PROVE  Moved(f)'
        BY <2>3 DEF Moved
      <4>1. "general" \in Pools
        BY DEF Pools
      <4>2. /\ File(i)["general"].seen = {} /\ File(i)["general"].floor = 2 * i - 1
            /\ f["general"] # 2 * i - 1
        BY <1>3, <2>3, <4>1, FileIs, SeenStamps DEF FilesInv, Spent, SpentAt
      <4> QED
        BY <2>1, <4>1, <4>2 DEF Moved
    <3> QED
      BY <2>3, <3>1 DEF HasPrompt
  <2> QED
    BY <2>2, <2>3
<1> QED
  BY <1>1, <1>2, <1>3, LeadForms

\* The floors of the file are of such that do not come back.
LEMMA FloorsSpent ==
  ASSUME FilesInv, ~Ties, [Next]_vars, lead \in Files => Spent(FloorsOf(lead)), lead' \in Files
  PROVE  Spent(FloorsOf(lead))'
<1>1. FilesInv' /\ Onward
  BY FilesStep
<1>2. ASSUME NEW p \in Pools
      PROVE  SpentAt(p, lead[p].floor)'
  <2>1. CASE lead' = lead
    <3>1. PICK f : f = lead[p].floor
      OBVIOUS
    <3>2. lead \in Files /\ SpentAt(p, f)
      BY <2>1, <3>1, NoneIsNone DEF Spent, FloorsOf
    <3> QED
      BY <2>1, <3>1, <3>2, SpentLasts
  <2>2. ASSUME NEW i \in 1..Len(hooks), at[i] = "begun", at'[i] # "begun", Takes(File(i), Obs(i), lead')
        PROVE  SpentAt(p, lead[p].floor)'
    <3>1. PICK f : f = lead'[p].floor
      OBVIOUS
    <3>2. f = File(i)[p].floor \/ \E e \in File(i)[p].seen : f = e.obs
      BY <2>2, <3>1, TakeForms
    <3>3. \A o \in lead'[p].seen : o.obs # f
      <4>1. \A o \in lead'[p].seen : o.obs > f /\ o.obs \in Nat /\ f \in Nat
        <5>1. lead'[p] \in Pool
          BY DEF Files
        <5>2. \A k \in Floor \cup Stamp : k \in Nat
          BY ObservationsAssumption DEF Stamp, Floor
        <5>3. \A o \in lead'[p].seen : o.obs > f
          BY <1>1, <3>1 DEF FilesInv, LeadOK, IsValid
        <5> QED
          BY <3>1, <5>1, <5>2, <5>3 DEF Pool, Observation
      <4> QED
        BY <4>1
    <3>4. /\ f \in Nat /\ f <= 2 * Len(hooks)
          /\ \A k \in 1..Len(hooks) : at[k] = "begun" /\ k # i => f # 2 * k /\ f # 2 * k - 1
      <4>1. CASE \E e \in lead[p].seen : lead \in Files /\ f = e.obs
        <5>1. PICK e \in lead[p].seen : lead \in Files /\ f = e.obs
          BY <4>1
        <5>2. e.id \in 1..Len(hooks) /\ at[e.id] # "begun" /\ f = 2 * e.id
          BY <5>1, SeenStamps DEF Wrote
        <5> QED
          BY <5>2
      <4>2. CASE lead \in Files /\ f = lead[p].floor
        BY <4>2, NoneIsNone DEF Spent, SpentAt, FloorsOf
      <4>3. CASE lead \notin Files /\ f \in {0, 2 * i - 1}
        BY <4>3
      <4>4. lead \in Files => File(i) = lead
        BY FileIs DEF FilesInv
      <4>5. lead \notin Files => File(i)[p].seen = {} /\ File(i)[p].floor \in {0, 2 * i - 1}
        BY FileIs, SeenStamps DEF FilesInv
      <4> QED
        BY <3>2, <4>1, <4>2, <4>3, <4>4, <4>5
    <3>5. ASSUME NEW k \in 1..Len(hooks'), at'[k] = "begun"
          PROVE  f # 2 * k /\ f # 2 * k - 1
      <4>1. k = Len(hooks) + 1 \/ (k \in 1..Len(hooks) /\ at[k] = "begun" /\ k # i)
        BY <1>1, <2>2, <3>5 DEF Onward
      <4> QED
        BY <1>1, <3>4, <4>1 DEF Onward
    <3>6. f <= 2 * Len(hooks')
      BY <1>1, <3>4 DEF Onward
    <3>7. lead' # None
      BY NoneIsNone
    <3> QED
      BY <3>1, <3>3, <3>4, <3>5, <3>6, <3>7 DEF SpentAt
  <2> QED
    BY <2>1, <2>2, LeadForms, NoneIsNone
<1>3. FloorsOf(lead)' = [p \in Pools |-> lead'[p].floor]
  BY NoneIsNone DEF FloorsOf
<1> QED
  BY <1>2, <1>3 DEF Spent

-----------------------------------------------------------------------------
(***************************************************************************)
(* Steps of hooks and the world, beside a chain.                           *)
(***************************************************************************)
\* The observer rests, the record's prompt only moves on, and what the file takes is due.
Beside ==
  /\ UNCHANGED <<reader, reads, cursor, delivered>>
  /\ prompts # None => prompts' # None /\ prompts'.latest.id >= prompts.latest.id
  /\ \/ lead' = lead /\ due' = due
     \/ lead \in Files /\ lead' = Damaged /\ due' = due
     \/ \E i \in 1..Len(hooks) :
          /\ at[i] = "begun" /\ Wrote(i)' /\ at'[i] # "begun" /\ Takes(File(i), Obs(i), lead')
          /\ due' = IF cursor # None THEN due \cup {Obs(i)} ELSE due

\* Every step is one beside the observer or one of its own.
LEMMA StepForms ==
  ASSUME FilesInv, [Next]_vars
  PROVE  Beside \/ ReadLead \/ Observe
<1>1. prompts # None => prompts.latest.id \in Nat
  BY DEF FilesInv, RecordOK, Wrote
<1>2. ASSUME NEW i \in Id, WriteLead(i)
      PROVE  Beside
  <2>1. UNCHANGED <<reader, reads, cursor, delivered, prompts>>
    BY <1>2 DEF WriteLead, observer
  <2>2. i \in 1..Len(hooks) /\ at[i] = "begun" /\ WriteDoes(i)
    BY <1>2, WriteLeadStep DEF FilesInv
  <2>3. at'[i] # "begun"
    BY <1>2, WriteLeadStep DEF FilesInv
  <2> QED
    BY <1>1, <2>1, <2>2, <2>3 DEF Beside, WriteDoes
<1>3. ASSUME NEW i \in Id, Refuse(i) \/ Die(i)
      PROVE  Beside
  BY <1>1, <1>3 DEF Refuse, Die, files, observer, Beside
<1>4. ASSUME NEW i \in Id, WritePrompts(i)
      PROVE  Beside
  <2>1. UNCHANGED <<reader, reads, cursor, delivered, lead, due>>
    BY <1>4 DEF WritePrompts, observer
  <2>2. prompts # None => prompts' # None /\ prompts'.latest.id >= prompts.latest.id
    BY <1>4, WritePromptsStep DEF FilesInv
  <2> QED
    BY <2>1, <2>2 DEF Beside
<1>5. CASE Damage
  BY <1>1, <1>5 DEF Damage, FilesInv, LeadOK, observer, Beside
<1>6. ASSUME NEW kind, NEW turn, NEW answers, Begin(kind, turn, answers)
      PROVE  Beside
  BY <1>1, <1>6 DEF Begin, files, observer, Beside
<1>7. CASE MovePointer \/ UNCHANGED vars
  BY <1>1, <1>7 DEF MovePointer, vars, files, observer, Beside
<1> QED
  BY <1>2, <1>3, <1>4, <1>5, <1>6, <1>7 DEF Next

\* What happened stays.
LEMMA HappenedGrows ==
  ASSUME HooksOK, HooksOK', Onward
  PROVE  Happened \subseteq Happened'
<1> SUFFICES ASSUME NEW e \in Happened
             PROVE  e \in Happened'
  OBVIOUS
<1>1. PICK i \in DOMAIN hooks :
        /\ at[i] \notin {"idle", "begun", "gone"}
        /\ e \in {<<"prompt", i, None>>, <<"turn_end", i, None>>}
                 \cup {<<"answer", i, q>> : q \in hooks[i].answers}
  BY DEF Happened
<1>2. i \in 1..Len(hooks) /\ Wrote(i)
  BY <1>1, HookIs DEF HooksOK, Wrote
<1>3. /\ i \in DOMAIN hooks' /\ at'[i] \notin {"idle", "begun", "gone"} /\ hooks'[i] = hooks[i]
  <2>1. Wrote(i)' /\ hooks'[i] = hooks[i]
    BY <1>2 DEF Onward
  <2>2. DOMAIN hooks' = 1..Len(hooks')
    BY DEF HooksOK
  <2> QED
    BY <2>1, <2>2 DEF Wrote
<1> QED
  BY <1>1, <1>3 DEF Happened

\* An event that happened is of a hook that wrote.
LEMMA HappenedWrote ==
  ASSUME HooksOK, NEW e \in Happened
  PROVE  Wrote(e[2]) /\ e[2] \in Nat
<1>1. PICK i \in DOMAIN hooks :
        /\ at[i] \notin {"idle", "begun", "gone"}
        /\ e \in {<<"prompt", i, None>>, <<"turn_end", i, None>>}
                 \cup {<<"answer", i, q>> : q \in hooks[i].answers}
  BY DEF Happened
<1>2. e[2] = i
  BY <1>1
<1>3. i \in 1..Len(hooks)
  BY DEF HooksOK
<1> QED
  BY <1>1, <1>2, <1>3, HookIs DEF Wrote

\* A hook that wrote comes into the file only once.
LEMMA IdsLast ==
  ASSUME FilesInv, Beside, NEW id, Wrote(id), id \in Ids(lead)'
  PROVE  id \in Ids(lead)
<1>1. CASE lead' = lead
  BY <1>1 DEF Ids, AllSeen
<1>2. CASE lead' = Damaged
  BY <1>2, NoneIsNone DEF Ids
<1>3. ASSUME NEW i \in 1..Len(hooks), at[i] = "begun", Takes(File(i), Obs(i), lead')
      PROVE  id \in Ids(lead)
  <2>1. PICK p \in Pools : \E o \in lead'[p].seen : o.id = id
    BY DEF Ids, AllSeen
  <2>2. PICK o \in lead'[p].seen : o.id = id
    BY <2>1
  <2>3. id # i /\ Obs(i).id = i
    BY <1>3, HookIs DEF Wrote, FilesInv
  <2>4. o \in File(i)[p].seen
    BY <1>3, <2>2, <2>3, TakeForms
  <2>5. lead \in Files /\ o \in lead[p].seen
    BY <2>4, FileIs DEF FilesInv
  <2> QED
    BY <2>2, <2>5 DEF Ids, AllSeen
<1> QED
  BY <1>1, <1>2, <1>3 DEF Beside

\* The read under way and the chain's cursor, beside hooks.
LEMMA CursorBeside ==
  ASSUME FilesInv, ~Ties, [Next]_vars, Beside, ReadOK, CursorOK, ReadsOn
  PROVE  ReadOK' /\ CursorOK' /\ ReadsOn'
<1>1. FilesInv' /\ Onward
  BY FilesStep
<1>2. reader' = reader /\ cursor' = cursor
  BY DEF Beside
<1>3. \A k \in Nat : NamesFrom(k) => NamesFrom(k)'
  BY <1>1 DEF Beside, NamesFrom, FilesInv, RecordOK, Wrote
<1>4. \A k : Wrote(k) => Wrote(k)' /\ k \in Nat
  BY <1>1 DEF Onward, Wrote
<1>5. ReadOK'
  <2> SUFFICES ASSUME reader # Idle
               PROVE  ReadOK'
    BY <1>2 DEF ReadOK
  <2>1. PICK f : f = FloorsOf(reader.lead)
    OBVIOUS
  <2>2. FloorsOf(reader.lead)' = f
    BY <1>2, <2>1 DEF FloorsOf
  <2>3. Spent(f)' /\ (Moved(f) => Moved(f)')
        /\ \A k \in Nat : HasPrompt(lead, k) => Moved(f)' \/ HasPrompt(lead, k)'
    BY <2>1, SpentLasts, MovedLasts DEF ReadOK, Spent
  <2>4. Spent(FloorsOf(reader.lead))'
    BY <2>2, <2>3 DEF Spent, SpentAt
  <2>5. ASSUME reader.lead # None, NEW o \in AllSeen(reader.lead), o.kind = "prompt"
        PROVE  Moved(f)' \/ HasPrompt(lead, o.id)'
    <3>1. o.id \in Nat
      BY <2>5, FileNames DEF FilesInv, HistoryOK
    <3> QED
      BY <2>1, <2>3, <2>5, <3>1 DEF ReadOK
  <2>6. ASSUME Moved(f)'
        PROVE  Moved(FloorsOf(reader.lead))'
    BY <2>2, <2>6 DEF Moved
  <2>7. AllSeen(reader.lead)' = AllSeen(reader.lead)
    BY <1>2 DEF AllSeen
  <2> QED
    BY <1>2, <2>4, <2>5, <2>6, <2>7 DEF ReadOK
<1>6. CursorOK'
  <2> SUFFICES ASSUME cursor # None
               PROVE  CursorOK'
    BY <1>2 DEF CursorOK
  <2>1. PICK f : f = cursor.floors
    OBVIOUS
  <2>2. PICK k : k = cursor.latest
    OBVIOUS
  <2>3. k \in Nat
    BY <2>2 DEF CursorOK, Cursor
  <2>4. Spent(f)' /\ (Moved(f) => Moved(f)')
        /\ (HasPrompt(lead, k) => Moved(f)' \/ HasPrompt(lead, k)')
    BY <2>1, <2>3, SpentLasts, MovedLasts DEF CursorOK, Spent
  <2>5. k # 0 => Moved(f)' \/ HasPrompt(lead, k)' \/ NamesFrom(k)'
    BY <1>3, <2>1, <2>2, <2>3, <2>4 DEF CursorOK
  <2>6. Spent(cursor.floors)'
    BY <1>2, <2>1, <2>4 DEF Spent, SpentAt
  <2>7. cursor'.latest # 0 => (Moved(cursor.floors) \/ HasPrompt(lead, cursor.latest) \/ NamesFrom(cursor.latest))'
    BY <1>2, <2>1, <2>2, <2>5 DEF Moved, HasPrompt, NamesFrom
  <2> QED
    BY <1>2, <1>4, <2>6, <2>7 DEF CursorOK
<1>7. ReadsOn'
  <2> SUFFICES ASSUME Untold
               PROVE  ReadsOn'
    BY <1>2 DEF ReadsOn, Untold
  <2>1. HasPrompt(reader.lead, cursor.latest) \/ NamesFrom(cursor.latest)
    BY DEF ReadsOn
  <2>2. PICK k : k = cursor.latest
    OBVIOUS
  <2>3. k \in Nat
    BY <2>2 DEF CursorOK, Cursor, Untold
  <2>4. HasPrompt(reader.lead, k) => HasPrompt(reader.lead, k)'
    BY <1>2 DEF HasPrompt, AllSeen
  <2>5. HasPrompt(reader.lead, k)' \/ NamesFrom(k)'
    BY <1>3, <2>1, <2>2, <2>3, <2>4
  <2> QED
    BY <1>2, <2>2, <2>5 DEF HasPrompt, NamesFrom, ReadsOn
<1> QED
  BY <1>5, <1>6, <1>7

\* What was given, beside hooks.
LEMMA GivenBeside ==
  ASSUME FilesInv, [Next]_vars, Beside, GivenOK
  PROVE  GivenOK'
<1>1. FilesInv' /\ Onward
  BY FilesStep
<1>2. reader' = reader /\ cursor' = cursor /\ delivered' = delivered
  BY DEF Beside
<1>3. SUFFICES ASSUME cursor # None, NEW d \in delivered
               PROVE  /\ d[1] \in Happened'
                      /\ d[1][1] = "prompt" => d[1][2] <= cursor.latest
                      /\ d[1][1] = "answer" => d[1][2] \in cursor.answers
                      /\ d[1][1] \in {"prompt", "turn_end"} =>
                           /\ \/ d[1][2] \in cursor.seen
                              \/ d[1][1] = "prompt" /\ d[1][2] = cursor.latest
                              \/ /\ d[1][2] \notin Ids(lead)'
                                 /\ reader # Idle => d[1][2] \notin Ids(reader.lead)
                           /\ reader # Idle /\ d[1][2] \in Ids(lead)' => d[1][2] \in Ids(reader.lead)
  <2>1. Ids(reader.lead)' = Ids(reader.lead)
    BY <1>2 DEF Ids, AllSeen
  <2> QED
    BY <1>2, <1>3, <2>1 DEF GivenOK
<1>4. d[1] \in Happened
  BY <1>3 DEF GivenOK
<1>5. d[1] \in Happened' /\ Wrote(d[1][2])
  BY <1>1, <1>4, HappenedGrows, HappenedWrote DEF FilesInv
<1>6. d[1][2] \in Ids(lead)' => d[1][2] \in Ids(lead)
  BY <1>5, IdsLast
<1> QED
  BY <1>3, <1>5, <1>6 DEF GivenOK

\* What is due, beside hooks.
LEMMA DueBeside ==
  ASSUME FilesInv, ~Ties, [Next]_vars, Beside, CursorOK, DueOK
  PROVE  DueOK'
<1>1. FilesInv' /\ Onward
  BY FilesStep
<1>2. cursor' = cursor /\ delivered' = delivered
  BY DEF Beside
<1>3. SUFFICES ASSUME cursor # None
               PROVE  DueOK'
  BY <1>2 DEF DueOK
<1>4. PICK f : f = cursor.floors
  OBVIOUS
<1>5. /\ Spent(f) /\ \A id \in cursor.seen : Wrote(id)
      /\ cursor.latest # 0 => Wrote(cursor.latest)
  BY <1>3, <1>4 DEF CursorOK
<1>6. Moved(f) => Moved(f)'
  BY <1>5, MovedLasts
<1>7. ASSUME NEW o \in due
      PROVE  /\ Wrote(o.id)' /\ o = Obs(o.id)' /\ o = Obs(o.id)
             /\ o.kind \in {"prompt", "stop"} /\ o.id \in cursor.seen \cup {cursor.latest}
                  => WaitedFor(o) \in Given
  <2>1. Wrote(o.id) /\ o = Obs(o.id)
    BY <1>3 DEF DueOK
  <2>2. Wrote(o.id)' /\ hooks'[o.id] = hooks[o.id]
    BY <1>1, <2>1 DEF Onward, Wrote
  <2> QED
    BY <1>3, <2>1, <2>2 DEF DueOK, Obs
<1>8. ASSUME NEW o \in due, o.kind \in {"prompt", "stop"}
      PROVE  \/ o \in Stored'
             \/ WaitedFor(o) \in Given
             \/ \E p \in due' : Key(p) = Key(o) /\ Before(o, p)
             \/ Moved(f)'
  <2>1. \/ o \in Stored
        \/ WaitedFor(o) \in Given
        \/ \E p \in due : Key(p) = Key(o) /\ Before(o, p)
        \/ Moved(f)
    BY <1>3, <1>4, <1>8 DEF DueOK
  <2>2. due \subseteq due'
    BY DEF Beside
  <2>3. ASSUME o \in Stored
        PROVE  \/ o \in Stored'
               \/ \E p \in due' : Key(p) = Key(o) /\ Before(o, p)
               \/ Moved(f)'
    <3>1. lead \in Files /\ o \in AllSeen(lead)
      BY <2>3 DEF Stored, FilesInv, LeadOK
    <3>2. CASE lead' = lead
      BY <2>3, <3>2 DEF Stored
    <3>3. CASE lead' = Damaged
      BY <3>3 DEF Moved
    <3>4. ASSUME NEW i \in 1..Len(hooks), at[i] = "begun", Takes(File(i), Obs(i), lead'),
                 due' = due \cup {Obs(i)}
          PROVE  \/ o \in Stored'
                 \/ \E p \in due' : Key(p) = Key(o) /\ Before(o, p)
                 \/ Moved(f)'
      <4>1. File(i) = lead
        BY <3>1, FileIs DEF FilesInv
      <4>2. /\ lead' \in Files
            /\ \/ o \in AllSeen(lead')
               \/ Key(o) = Key(Obs(i)) /\ Before(o, Obs(i))
               \/ \E p \in Pools : \E e \in lead[p].seen : lead'[p].floor = e.obs
        BY <3>1, <3>4, <4>1, TakeForms
      <4>3. CASE o \in AllSeen(lead')
        <5>1. lead' \notin {None, Damaged}
          BY <4>2, NoneIsNone
        <5> QED
          BY <4>3, <5>1 DEF Stored, AllSeen
      <4>4. CASE Key(o) = Key(Obs(i)) /\ Before(o, Obs(i))
        BY <3>4, <4>4
      <4>5. CASE \E p \in Pools : \E e \in lead[p].seen : lead'[p].floor = e.obs
        <5>1. \A p \in Pools : \A e \in lead[p].seen : e.obs # f[p] /\ e.obs # 0
          BY <1>5, <3>1, SeenStamps DEF Spent, SpentAt
        <5> QED
          BY <4>2, <4>5, <5>1 DEF Moved
      <4> QED
        BY <4>2, <4>3, <4>4, <4>5
    <3> QED
      BY <1>3, <3>2, <3>3, <3>4 DEF Beside
  <2> QED
    BY <1>6, <2>1, <2>2, <2>3
<1>9. ASSUME NEW i \in 1..Len(hooks), at[i] = "begun", Takes(File(i), Obs(i), lead'),
             NEW o, o = Obs(i)
      PROVE  /\ o.id = i /\ o \in Stored'
             /\ o.id \notin cursor.seen \cup {cursor.latest}
  <2>1. o.id = i /\ ~Wrote(i) /\ i # 0
    BY <1>9, HookIs DEF FilesInv, Wrote
  <2>2. lead' \in Files /\ o \in AllSeen(lead')
    BY <1>9, TakeForms
  <2>3. o \in Stored'
    BY <2>2, NoneIsNone DEF Stored, AllSeen
  <2> QED
    BY <1>5, <2>1, <2>3
<1>10. Given' = Given /\ (Moved(f)' => Moved(cursor.floors)')
  BY <1>2, <1>4 DEF Given, Moved
<1>11. ASSUME NEW o \in due'
       PROVE  /\ Wrote(o.id)' /\ o = Obs(o.id)'
              /\ o.kind \in {"prompt", "stop"} =>
                   /\ o.id \in cursor.seen \cup {cursor.latest} => WaitedFor(o) \in Given
                   /\ \/ o \in Stored'
                      \/ WaitedFor(o) \in Given
                      \/ \E p \in due' : Key(p) = Key(o) /\ Before(o, p)
                      \/ Moved(cursor.floors)'
  <2>1. CASE o \in due
    BY <1>7, <1>8, <1>10, <2>1
  <2>2. CASE o \notin due
    <3>1. PICK i \in 1..Len(hooks) : at[i] = "begun" /\ Wrote(i)' /\ Takes(File(i), Obs(i), lead')
                                     /\ o = Obs(i)
      BY <1>3, <1>11, <2>2 DEF Beside
    <3>2. Wrote(o.id)' /\ o \in Stored' /\ o.id \notin cursor.seen \cup {cursor.latest}
      BY <1>9, <3>1
    <3>3. o = Obs(o.id)'
      <4>1. o.id = i /\ hooks'[i] = hooks[i]
        BY <1>1, <3>1 DEF Obs, Onward
      <4> QED
        BY <3>1, <4>1 DEF Obs
    <3> QED
      BY <3>2, <3>3
  <2> QED
    BY <2>1, <2>2
<1> QED
  BY <1>2, <1>10, <1>11 DEF DueOK

-----------------------------------------------------------------------------
(***************************************************************************)
(* Steps of the observer.                                                  *)
(***************************************************************************)
\* While the files rest, so does what is said of them.
LEMMA FilesRest ==
  ASSUME UNCHANGED <<hooks, at, lead, prompts>>
  PROVE  /\ \A f : Spent(f) => Spent(f)'
         /\ \A f : Moved(f) => Moved(f)'
         /\ \A k : HasPrompt(lead, k) => HasPrompt(lead, k)'
         /\ \A k : NamesFrom(k) => NamesFrom(k)'
         /\ \A k : Wrote(k) => Wrote(k)'
         /\ Ids(lead)' = Ids(lead) /\ Stored' = Stored /\ Happened' = Happened
         /\ \A i : Obs(i)' = Obs(i)
  BY DEF Spent, SpentAt, Moved, HasPrompt, NamesFrom, Wrote, Ids, Stored, Happened, AllSeen, Obs

\* A read of the lifecycle file.
LEMMA ReadLeadChain ==
  ASSUME FilesInv, ~Ties, ChainInv, ReadLead
  PROVE  ChainInv'
<1>1. UNCHANGED <<hooks, at, lead, prompts, delivered, due>> /\ reader = Idle
  BY DEF ReadLead, hookVars, files
<1>2. /\ \A f : Spent(f) => Spent(f)'
      /\ \A f : Moved(f) => Moved(f)'
      /\ \A k : HasPrompt(lead, k) => HasPrompt(lead, k)'
      /\ \A k : NamesFrom(k) => NamesFrom(k)'
      /\ \A k : Wrote(k) => Wrote(k)'
      /\ Ids(lead)' = Ids(lead) /\ Stored' = Stored /\ Happened' = Happened
      /\ \A i : Obs(i)' = Obs(i)
  BY <1>1, FilesRest
<1>3. \/ cursor' = None /\ reader' = Idle
      \/ /\ cursor' = cursor
         /\ reader' = Idle \/ (lead \in {None} \cup Files /\ reader'.lead = lead)
  BY <1>1 DEF ReadLead, FilesInv, LeadOK
<1>4. lead \in {None} \cup Files => Spent(FloorsOf(lead))
  <2>1. CASE lead \in Files
    BY <2>1 DEF ChainInv
  <2>2. CASE lead = None
    <3>1. \A p \in Pools : FloorsOf(lead)[p] = 0
      BY <2>2 DEF FloorsOf
    <3>2. \A p \in Pools : SpentAt(p, 0)
      BY <2>2, NoneIsNone DEF SpentAt, FilesInv, HooksOK
    <3> QED
      BY <3>1, <3>2 DEF Spent
  <2> QED
    BY <2>1, <2>2
<1>5. lead' \in Files => Spent(FloorsOf(lead))'
  <2>1. PICK f : f = FloorsOf(lead)
    OBVIOUS
  <2>2. FloorsOf(lead)' = f
    BY <1>1, <2>1 DEF FloorsOf
  <2>3. lead' \in Files => Spent(f)'
    BY <1>1, <1>2, <1>4, <2>1
  <2> QED
    BY <2>2, <2>3 DEF Spent, SpentAt
<1>6. ReadOK'
  <2> SUFFICES ASSUME reader' # Idle
               PROVE  ReadOK'
    BY DEF ReadOK
  <2>1. lead \in {None} \cup Files /\ reader'.lead = lead
    BY <1>3
  <2>2. PICK f : f = FloorsOf(lead)
    OBVIOUS
  <2>3. FloorsOf(reader.lead)' = f
    BY <2>1, <2>2 DEF FloorsOf
  <2>4. Spent(f)'
    BY <1>2, <1>4, <2>1, <2>2
  <2>5. Spent(FloorsOf(reader.lead))'
    BY <2>3, <2>4 DEF Spent, SpentAt
  <2>6. ASSUME lead # None, NEW o \in AllSeen(lead), o.kind = "prompt"
        PROVE  HasPrompt(lead, o.id)'
    <3>1. o.id \in Nat
      BY <2>1, <2>6, FileNames DEF FilesInv, LeadOK
    <3>2. HasPrompt(lead, o.id)
      BY <2>1, <2>6, <3>1 DEF HasPrompt
    <3> QED
      BY <1>2, <3>2
  <2>7. AllSeen(reader.lead)' = AllSeen(lead)
    BY <2>1 DEF AllSeen
  <2> QED
    BY <2>1, <2>5, <2>6, <2>7 DEF ReadOK
<1>7. CASE cursor' = None
  BY <1>5, <1>6, <1>7 DEF ChainInv, CursorOK, ReadsOn, Untold, GivenOK, DueOK
<1>8. CASE cursor' = cursor /\ cursor # None
  <2>1. PICK f : f = cursor.floors
    OBVIOUS
  <2>2. PICK k : k = cursor.latest
    OBVIOUS
  <2>3. CursorOK'
    <3>1. Spent(cursor.floors)'
      <4>1. Spent(f)'
        BY <1>2, <1>8, <2>1 DEF ChainInv, CursorOK
      <4> QED
        BY <1>8, <2>1, <4>1 DEF Spent, SpentAt
    <3>2. cursor'.latest # 0 => (Moved(cursor.floors) \/ HasPrompt(lead, cursor.latest) \/ NamesFrom(cursor.latest))'
      <4>1. k # 0 => Moved(f)' \/ HasPrompt(lead, k)' \/ NamesFrom(k)'
        BY <1>2, <1>8, <2>1, <2>2 DEF ChainInv, CursorOK
      <4> QED
        BY <1>8, <2>1, <2>2, <4>1 DEF Moved, HasPrompt, NamesFrom
    <3>3. reader' # Idle => \A p \in Pools :
            cursor.floors[p] # 0 => reader'.lead # None /\ reader'.lead[p].floor # 0
      <4>1. \A p \in Pools : cursor.floors[p] # 0 => lead # None /\ (lead \in Files => lead[p].floor # 0)
        BY <1>8 DEF ChainInv, CursorOK, Spent, SpentAt
      <4> QED
        BY <1>3, <4>1, <1>8
    <3>4. \A id \in cursor.seen : Wrote(id)'
      BY <1>2, <1>8 DEF ChainInv, CursorOK
    <3>5. cursor.latest # 0 => Wrote(k)'
      BY <1>2, <1>8, <2>2 DEF ChainInv, CursorOK
    <3>6. cursor.latest # 0 => Wrote(cursor.latest)'
      BY <1>8, <2>2, <3>5 DEF Wrote
    <3> QED
      BY <1>8, <3>1, <3>2, <3>3, <3>4, <3>6 DEF ChainInv, CursorOK
  <2>4. ReadsOn'
    <3> SUFFICES ASSUME Untold'
                 PROVE  ReadsOn'
      BY DEF ReadsOn
    <3>1. reader'.lead = lead /\ lead \in {None} \cup Files /\ cursor.latest # 0
      BY <1>3, <1>8 DEF Untold
    <3>2. ~Moved(cursor.floors)
      BY <1>8, <3>1, NoneIsNone DEF Untold, Moved
    <3>3. HasPrompt(lead, k) \/ NamesFrom(k)
      BY <1>8, <2>2, <3>1, <3>2 DEF ChainInv, CursorOK
    <3>4. HasPrompt(lead, k)' \/ NamesFrom(k)'
      BY <1>2, <3>3
    <3> QED
      BY <1>1, <1>8, <2>2, <3>1, <3>4 DEF HasPrompt, NamesFrom, ReadsOn, AllSeen
  <2>5. GivenOK'
    <3> SUFFICES ASSUME NEW d \in delivered
                 PROVE  /\ d[1] \in Happened
                        /\ d[1][1] = "prompt" => d[1][2] <= cursor.latest
                        /\ d[1][1] = "answer" => d[1][2] \in cursor.answers
                        /\ d[1][1] \in {"prompt", "turn_end"} =>
                             /\ \/ d[1][2] \in cursor.seen
                                \/ d[1][1] = "prompt" /\ d[1][2] = cursor.latest
                                \/ /\ d[1][2] \notin Ids(lead)
                                   /\ reader' # Idle => d[1][2] \notin Ids(reader.lead)'
                             /\ reader' # Idle /\ d[1][2] \in Ids(lead) => d[1][2] \in Ids(reader.lead)'
      BY <1>1, <1>2, <1>8 DEF GivenOK
    <3>1. reader' # Idle => Ids(reader.lead)' = Ids(lead)
      BY <1>3, <1>8 DEF Ids, AllSeen
    <3> QED
      BY <1>8, <3>1 DEF ChainInv, GivenOK
  <2>6. DueOK'
    <3>1. Moved(cursor.floors) => Moved(cursor.floors)'
      BY <1>1, <1>8 DEF Moved
    <3>2. \A o \in due : Wrote(o.id) => Wrote(o.id)' /\ Obs(o.id)' = Obs(o.id)
      BY <1>2
    <3>3. Given' = Given
      BY <1>1 DEF Given
    <3> QED
      BY <1>1, <1>2, <1>8, <3>1, <3>2, <3>3 DEF ChainInv, DueOK
  <2> QED
    BY <1>5, <1>6, <2>3, <2>4, <2>5, <2>6 DEF ChainInv
<1> QED
  BY <1>3, <1>7, <1>8

\* The cursor a read makes.
LEMMA CursorIs ==
  ASSUME FilesInv, ReadOK, reader # Idle, NEW c, c = CursorOf(reader.lead, prompts)
  PROVE  /\ c \in Cursor
         /\ c.seen = Ids(reader.lead) /\ c.floors = FloorsOf(reader.lead)
         /\ \A id \in c.seen : Wrote(id)
         /\ c.latest = LatestPrompt(reader.lead, prompts).id
         /\ c.latest # 0 => Wrote(c.latest) /\ hooks[c.latest].kind = "prompt"
         /\ reader.lead # None =>
              \A o \in AllSeen(reader.lead) : o.kind = "prompt" => o.id <= c.latest
         /\ prompts # None => prompts.latest.id <= c.latest
         /\ c.prompts <=> prompts # None
         /\ c.answers = {a.id : a \in AnswersOf(prompts)}
         /\ ~c.prompts => c.answers = {}
         /\ c.latest # 0 => Moved(c.floors) \/ HasPrompt(lead, c.latest) \/ NamesFrom(c.latest)
<1> DEFINE file == reader.lead
<1>1. /\ HooksOK /\ RecordOK /\ file \in {None} \cup Files /\ None \notin Files
      /\ file # None => Known(file)
  BY NoneIsNone DEF FilesInv, HistoryOK
<1>2. PICK r : r = LatestPrompt(file, prompts)
  OBVIOUS
<1>3. /\ r.id \in 0..Len(hooks)
      /\ r.id # 0 => Wrote(r.id) /\ hooks[r.id].kind = "prompt"
      /\ prompts # None => prompts.latest.id <= r.id
      /\ file # None => \A o \in AllSeen(file) : o.kind = "prompt" => o.id <= r.id
      /\ \/ r.id = 0
         \/ prompts # None /\ prompts.latest.id = r.id
         \/ file # None /\ \E o \in AllSeen(file) : o.kind = "prompt" /\ o.id = r.id
  BY <1>1, <1>2, LatestPromptIs
<1>4. c = [ seen |-> IF file = None THEN {} ELSE {o.id : o \in AllSeen(file)},
            floors |-> [p \in Pools |-> IF file = None THEN 0 ELSE file[p].floor],
            lead |-> file # None,
            prompts |-> prompts # None,
            latest |-> r.id,
            answers |-> {a.id : a \in AnswersOf(prompts)},
            high |-> Max({0} \cup {a.obs : a \in AnswersOf(prompts)}) ]
  BY <1>2 DEF CursorOf
<1>5. /\ c.seen = Ids(file) /\ c.floors = FloorsOf(file) /\ c.latest = r.id
      /\ c.prompts <=> prompts # None
      /\ c.answers = {a.id : a \in AnswersOf(prompts)}
  <2>1. c.seen = Ids(file)
    BY <1>1, <1>4 DEF Ids
  <2>2. c.floors = FloorsOf(file)
    BY <1>4 DEF FloorsOf
  <2>3. c.prompts = (prompts # None)
    BY <1>4
  <2>4. c.latest = r.id /\ c.answers = {a.id : a \in AnswersOf(prompts)}
    BY <1>4
  <2> QED
    BY <2>1, <2>2, <2>3, <2>4
<1>6. \A id \in c.seen : Wrote(id) /\ id \in Id
  <2> SUFFICES ASSUME NEW id \in Ids(file)
               PROVE  Wrote(id) /\ id \in Id
    BY <1>5
  <2>1. PICK o \in AllSeen(file) : id = o.id /\ file # None
    BY <1>1 DEF Ids
  <2> QED
    BY <1>1, <2>1, FileNames, HookIs
<1>7. c.floors \in [Pools -> Floor]
  <2>1. ASSUME NEW p \in Pools
        PROVE  (IF file = None THEN 0 ELSE file[p].floor) \in Floor
    BY <1>1, ObservationsAssumption DEF Files, Pool, Floor
  <2> QED
    BY <1>4, <2>1
<1>8. AnswersOf(prompts) \subseteq Answer
  BY <1>1 DEF RecordOK, Records, AnswersOf
<1>9. c.high \in Nat
  <2>1. PICK S : S = {0} \cup {a.obs : a \in AnswersOf(prompts)}
    OBVIOUS
  <2>2. S \subseteq 0..(2 * MaxHooks) /\ S # {} /\ 2 * MaxHooks \in Nat
    BY <1>8, <2>1, ObservationsAssumption DEF Answer, Stamp
  <2>3. PICK m \in S : \A k \in S : k <= m
    BY <2>2, Greatest
  <2>4. \A k \in S : m >= k
    BY <2>2, <2>3
  <2>5. Max(S) \in S
    BY <2>4 DEF Max
  <2> QED
    BY <1>4, <2>1, <2>2, <2>5
<1>10. c.answers \subseteq Id /\ c.latest \in 0..MaxHooks
  BY <1>1, <1>3, <1>4, <1>8, ObservationsAssumption DEF Answer, HooksOK
<1>11. c \in Cursor
  <2>1. c.seen \subseteq Id
    BY <1>6
  <2> QED
    BY <1>4, <1>7, <1>9, <1>10, <2>1 DEF Cursor
<1>12. ~c.prompts => c.answers = {}
  BY <1>5 DEF AnswersOf
<1>13. c.latest # 0 => Moved(c.floors) \/ HasPrompt(lead, c.latest) \/ NamesFrom(c.latest)
  <2>1. CASE prompts # None /\ prompts.latest.id = r.id
    BY <1>3, <1>5, <2>1 DEF NamesFrom
  <2>2. CASE file # None /\ \E o \in AllSeen(file) : o.kind = "prompt" /\ o.id = r.id
    BY <1>5, <2>2 DEF ReadOK
  <2> QED
    BY <1>3, <1>5, <2>1, <2>2
<1> QED
  BY <1>2, <1>3, <1>5, <1>6, <1>11, <1>12, <1>13

\* What a read that tells of no gap goes on from, and what it gives.
LEMMA ReportGives ==
  ASSUME FilesInv, ChainInv, reader # Idle, cursor # None,
         ~GapBetween(cursor, reader.lead, prompts),
         NEW c, c = CursorOf(reader.lead, prompts)
  PROVE  /\ \A p \in Pools : c.floors[p] = cursor.floors[p]
         /\ cursor.latest <= c.latest
         /\ cursor.answers \subseteq c.answers
         /\ \A e \in EventsBetween(cursor, reader.lead, prompts) :
              /\ e \in Happened
              /\ \A d \in delivered : d[1] # e
              /\ e[1] = "prompt" => e[2] <= c.latest
              /\ e[1] = "answer" => e[2] \in c.answers
              /\ e[1] \in {"prompt", "turn_end"} =>
                   e[2] \in c.seen \/ (e[1] = "prompt" /\ e[2] = c.latest)
<1> DEFINE file == reader.lead
<1>1. /\ HooksOK /\ RecordOK /\ file \in {None} \cup Files /\ None \notin Files
      /\ file # None => Known(file)
  BY NoneIsNone DEF FilesInv, HistoryOK
<1>2. /\ cursor.lead => file # None
      /\ cursor.prompts => prompts # None
      /\ file # None => \A p \in Pools : file[p].floor = 0 \/ file[p].floor = cursor.floors[p]
      /\ prompts # None => cursor.answers \subseteq {a.id : a \in prompts.answers}
  BY DEF GapBetween
<1>3. /\ c \in Cursor /\ c.seen = Ids(file) /\ c.floors = FloorsOf(file)
      /\ c.latest = LatestPrompt(file, prompts).id
      /\ c.latest # 0 => Wrote(c.latest)
      /\ file # None => \A o \in AllSeen(file) : o.kind = "prompt" => o.id <= c.latest
      /\ prompts # None => prompts.latest.id <= c.latest
      /\ c.answers = {a.id : a \in AnswersOf(prompts)}
  BY CursorIs DEF ChainInv
<1>4. CursorOK /\ ReadsOn /\ GivenOK /\ cursor \in Cursor
  BY DEF ChainInv, CursorOK
<1>5. ASSUME NEW p \in Pools
      PROVE  c.floors[p] = cursor.floors[p]
  <2>1. c.floors[p] = IF file = None THEN 0 ELSE file[p].floor
    BY <1>3 DEF FloorsOf
  <2>2. cursor.floors[p] # 0 => file # None /\ file[p].floor # 0
    BY <1>4 DEF CursorOK
  <2> QED
    BY <1>2, <2>1, <2>2
<1>6. cursor.latest <= c.latest
  <2>0. cursor.latest \in Nat /\ c.latest \in Nat
    BY <1>3, <1>4 DEF Cursor
  <2>1. CASE cursor.latest = 0
    BY <2>0, <2>1
  <2>2. CASE cursor.latest # 0
    <3>1. Untold
      BY <1>2, <2>2 DEF Untold
    <3>2. CASE HasPrompt(file, cursor.latest)
      <4>1. PICK o \in AllSeen(file) : file \in Files /\ o.kind = "prompt" /\ o.id >= cursor.latest
        BY <3>2 DEF HasPrompt
      <4>2. o.id <= c.latest /\ o.id \in Nat
        BY <1>1, <1>3, <4>1, FileNames
      <4> QED
        BY <2>0, <4>1, <4>2
    <3>3. CASE NamesFrom(cursor.latest)
      <4>1. prompts.latest.id \in Nat
        BY <1>1, <3>3 DEF NamesFrom, RecordOK, Wrote
      <4> QED
        BY <1>3, <2>0, <3>3, <4>1 DEF NamesFrom
    <3> QED
      BY <1>4, <3>1, <3>2, <3>3 DEF ReadsOn
  <2> QED
    BY <2>1, <2>2
<1>7. cursor.answers \subseteq c.answers
  <2>1. CASE prompts = None
    BY <1>2, <1>4, <2>1 DEF CursorOK
  <2>2. CASE prompts # None
    BY <1>2, <1>3, <2>2 DEF AnswersOf
  <2> QED
    BY <2>1, <2>2
<1>8. ASSUME NEW e \in EventsBetween(cursor, file, prompts)
      PROVE  /\ \A d \in delivered : d[1] # e
             /\ e[1] = "prompt" => e[2] <= c.latest
             /\ e[1] = "answer" => e[2] \in c.answers
             /\ e[1] \in {"prompt", "turn_end"} =>
                  e[2] \in c.seen \/ (e[1] = "prompt" /\ e[2] = c.latest)
  <2>1. PICK fresh : fresh = IF file = None THEN {} ELSE {o \in AllSeen(file) : o.id \notin cursor.seen}
    OBVIOUS
  <2>2. \/ \E o \in fresh : o.kind = "prompt" /\ o.id # cursor.latest /\ e = <<"prompt", o.id, None>>
        \/ \E o \in fresh : o.kind = "stop" /\ e = <<"turn_end", o.id, None>>
        \/ c.latest \notin {0, cursor.latest} \cup cursor.seen /\ e = <<"prompt", c.latest, None>>
        \/ \E a \in AnswersOf(prompts) : a.id \notin cursor.answers /\ e = <<"answer", a.id, a.question>>
    BY <1>3, <2>1 DEF EventsBetween
  <2>3. ASSUME NEW d \in delivered
        PROVE  /\ d[1][1] = "prompt" => d[1][2] <= cursor.latest
               /\ d[1][1] = "answer" => d[1][2] \in cursor.answers
               /\ d[1][1] \in {"prompt", "turn_end"} =>
                    \/ d[1][2] \in cursor.seen
                    \/ d[1][1] = "prompt" /\ d[1][2] = cursor.latest
                    \/ d[1][2] \notin Ids(file)
    BY <1>4 DEF GivenOK
  <2>4. \A o \in fresh : o.id \in Ids(file) /\ o.id \notin cursor.seen /\ o \in AllSeen(file) /\ file # None
    BY <1>1, <2>1 DEF Ids
  <2>5. ASSUME NEW o \in fresh, o.kind = "prompt", o.id # cursor.latest, e = <<"prompt", o.id, None>>
        PROVE  /\ \A d \in delivered : d[1] # e
               /\ e[2] <= c.latest /\ e[2] \in c.seen /\ e[1] = "prompt"
    BY <1>3, <2>3, <2>4, <2>5
  <2>6. ASSUME NEW o \in fresh, e = <<"turn_end", o.id, None>>
        PROVE  /\ \A d \in delivered : d[1] # e
               /\ e[2] \in c.seen /\ e[1] = "turn_end"
    BY <1>3, <2>3, <2>4, <2>6
  <2>7. ASSUME c.latest \notin {0, cursor.latest} \cup cursor.seen, e = <<"prompt", c.latest, None>>
        PROVE  /\ \A d \in delivered : d[1] # e
               /\ e[2] <= c.latest /\ e[2] = c.latest /\ e[1] = "prompt"
    <3>1. cursor.latest \in Nat /\ c.latest \in Nat
      BY <1>3, <1>4 DEF Cursor
    <3> QED
      BY <1>6, <2>3, <2>7, <3>1
  <2>8. ASSUME NEW a \in AnswersOf(prompts), a.id \notin cursor.answers,
               e = <<"answer", a.id, a.question>>
        PROVE  /\ \A d \in delivered : d[1] # e
               /\ e[2] \in c.answers /\ e[1] = "answer"
    BY <1>3, <2>3, <2>8
  <2> QED
    BY <2>2, <2>5, <2>6, <2>7, <2>8
<1>9. \A e \in EventsBetween(cursor, file, prompts) : e \in Happened
  BY <1>1, EventsHappened
<1> QED
  BY <1>5, <1>6, <1>7, <1>8, <1>9

\* A new cursor knows what the read found.
LEMMA NewCursor ==
  ASSUME FilesInv, ChainInv, reader # Idle, Observe, cursor' = CursorOf(reader.lead, prompts)
  PROVE  CursorOK'
<1>1. UNCHANGED <<hooks, at, lead, prompts>> /\ reader' = Idle
  BY DEF Observe, hookVars, files
<1>2. PICK c : c = CursorOf(reader.lead, prompts)
  OBVIOUS
<1>3. /\ c \in Cursor /\ c.floors = FloorsOf(reader.lead)
      /\ \A id \in c.seen : Wrote(id)
      /\ c.latest # 0 => Wrote(c.latest)
      /\ ~c.prompts => c.answers = {}
      /\ c.latest # 0 => Moved(c.floors) \/ HasPrompt(lead, c.latest) \/ NamesFrom(c.latest)
  BY <1>2, CursorIs DEF ChainInv
<1>4. PICK f : f = c.floors
  OBVIOUS
<1>5. PICK k : k = c.latest
  OBVIOUS
<1>6. /\ Spent(f)'
      /\ \A id \in c.seen : Wrote(id)'
      /\ k # 0 => Wrote(k)'
      /\ k # 0 => Moved(f)' \/ HasPrompt(lead, k)' \/ NamesFrom(k)'
  BY <1>1, <1>3, <1>4, <1>5, FilesRest DEF ChainInv, ReadOK
<1>7. cursor' = c /\ cursor'.floors = f /\ cursor'.latest = k
  BY <1>2, <1>4, <1>5
<1>8. Spent(cursor.floors)'
  BY <1>6, <1>7 DEF Spent, SpentAt
<1>9. cursor'.latest # 0 => (Moved(cursor.floors) \/ HasPrompt(lead, cursor.latest) \/ NamesFrom(cursor.latest))'
  BY <1>6, <1>7 DEF Moved, HasPrompt, NamesFrom
<1>10. /\ \A id \in cursor'.seen : Wrote(id)'
       /\ cursor'.latest # 0 => Wrote(cursor.latest)'
  BY <1>6, <1>7 DEF Wrote
<1> QED
  BY <1>1, <1>3, <1>7, <1>8, <1>9, <1>10 DEF CursorOK

\* What a report gives to those who wait for it.
LEMMA ReportCovers ==
  ASSUME FilesInv, ChainInv, reader # Idle, cursor # None,
         NEW c, c = CursorOf(reader.lead, prompts),
         NEW o \in due, o.kind \in {"prompt", "stop"}, o.id \in c.seen \cup {c.latest}
  PROVE  WaitedFor(o) \in Given \cup EventsBetween(cursor, reader.lead, prompts)
<1> DEFINE file == reader.lead
<1>1. /\ HooksOK /\ RecordOK /\ file \in {None} \cup Files /\ None \notin Files
      /\ file # None => Known(file)
  BY NoneIsNone DEF FilesInv, HistoryOK
<1>2. /\ c.seen = Ids(file) /\ c.latest = LatestPrompt(file, prompts).id
      /\ c.latest # 0 => hooks[c.latest].kind = "prompt"
  BY CursorIs DEF ChainInv
<1>3. /\ Wrote(o.id) /\ o = Obs(o.id) /\ o.id # 0 /\ o.kind = hooks[o.id].kind
      /\ o.id \in cursor.seen \cup {cursor.latest} => WaitedFor(o) \in Given
  <2>1. Wrote(o.id) /\ o = Obs(o.id)
        /\ (o.id \in cursor.seen \cup {cursor.latest} => WaitedFor(o) \in Given)
    BY DEF ChainInv, DueOK
  <2>2. o.id \in 1..Len(hooks)
    BY <2>1 DEF Wrote
  <2>3. o.id # 0 /\ o.kind = hooks[o.id].kind
    BY <1>1, <2>1, <2>2, HookIs
  <2> QED
    BY <2>1, <2>3
<1>4. ASSUME o.id \notin cursor.seen \cup {cursor.latest}, o.id \in c.seen
      PROVE  WaitedFor(o) \in EventsBetween(cursor, file, prompts)
  <2>1. PICK s \in AllSeen(file) : s.id = o.id /\ file # None
    BY <1>1, <1>2, <1>4 DEF Ids
  <2>2. s = Obs(s.id)
    BY <1>1, <2>1, FileNames
  <2>3. s = o
    BY <1>3, <2>1, <2>2
  <2>4. o \in {x \in AllSeen(file) : x.id \notin cursor.seen}
    BY <1>4, <2>3
  <2>5. CASE o.kind = "prompt"
    <3>1. WaitedFor(o) = <<"prompt", o.id, None>>
      BY <2>5 DEF WaitedFor
    <3> QED
      BY <1>4, <2>1, <2>4, <2>5, <3>1 DEF EventsBetween
  <2>6. CASE o.kind = "stop"
    <3>1. WaitedFor(o) = <<"turn_end", o.id, None>>
      BY <2>6 DEF WaitedFor
    <3> QED
      BY <1>4, <2>1, <2>4, <2>6, <3>1 DEF EventsBetween
  <2> QED
    BY <2>5, <2>6
<1>5. ASSUME o.id \notin cursor.seen \cup {cursor.latest}, o.id = c.latest
      PROVE  WaitedFor(o) \in EventsBetween(cursor, file, prompts)
  <2>1. o.kind = "prompt" /\ WaitedFor(o) = <<"prompt", o.id, None>>
    BY <1>2, <1>3, <1>5 DEF WaitedFor
  <2>2. LatestPrompt(file, prompts).id \notin {0, cursor.latest} \cup cursor.seen
    BY <1>2, <1>3, <1>5
  <2>3. <<"prompt", LatestPrompt(file, prompts).id, None>> \in EventsBetween(cursor, file, prompts)
    BY <2>2 DEF EventsBetween
  <2> QED
    BY <1>2, <1>5, <2>1, <2>3
<1> QED
  BY <1>3, <1>4, <1>5

\* A report without a gap goes on along the chain.
LEMMA ReportChain ==
  ASSUME FilesInv, ChainInv, Observe, pointer = reader.pointer, cursor # None,
         ~GapBetween(cursor, reader.lead, prompts)
  PROVE  GivenOK' /\ DueOK'
<1>1. /\ UNCHANGED <<hooks, at, lead, prompts, due>> /\ reader # Idle /\ reader' = Idle
      /\ cursor' = CursorOf(reader.lead, prompts)
      /\ delivered' = delivered \cup (EventsBetween(cursor, reader.lead, prompts) \X {reads})
  BY DEF Observe, Report, hookVars, files
<1>2. PICK E : E = EventsBetween(cursor, reader.lead, prompts)
  OBVIOUS
<1>3. PICK c : c = CursorOf(reader.lead, prompts)
  OBVIOUS
<1>4. cursor' = c /\ c \in Cursor /\ cursor \in Cursor /\ c.seen = Ids(reader.lead)
  BY <1>1, <1>3, CursorIs DEF ChainInv, CursorOK
<1>5. /\ \A p \in Pools : c.floors[p] = cursor.floors[p]
      /\ cursor.latest <= c.latest
      /\ cursor.answers \subseteq c.answers
      /\ \A e \in E :
           /\ e \in Happened
           /\ e[1] = "prompt" => e[2] <= c.latest
           /\ e[1] = "answer" => e[2] \in c.answers
           /\ e[1] \in {"prompt", "turn_end"} =>
                e[2] \in c.seen \/ (e[1] = "prompt" /\ e[2] = c.latest)
  BY <1>1, <1>2, <1>3, ReportGives
<1>6. /\ Ids(lead)' = Ids(lead) /\ Stored' = Stored /\ Happened' = Happened
      /\ \A k : Wrote(k) => Wrote(k)'
      /\ \A i : Obs(i)' = Obs(i)
  BY <1>1, FilesRest
<1>7. ASSUME NEW d \in delivered'
      PROVE  /\ d[1] \in Happened
             /\ d[1][1] = "prompt" => d[1][2] <= c.latest
             /\ d[1][1] = "answer" => d[1][2] \in c.answers
             /\ d[1][1] \in {"prompt", "turn_end"} =>
                  \/ d[1][2] \in c.seen
                  \/ d[1][1] = "prompt" /\ d[1][2] = c.latest
                  \/ d[1][2] \notin Ids(lead)
  <2>1. CASE d \in delivered
    <3>1. /\ d[1] \in Happened
          /\ d[1][1] = "prompt" => d[1][2] <= cursor.latest
          /\ d[1][1] = "answer" => d[1][2] \in cursor.answers
          /\ d[1][1] \in {"prompt", "turn_end"} =>
               (d[1][2] \in Ids(lead) => d[1][2] \in Ids(reader.lead))
      BY <1>1, <2>1 DEF ChainInv, GivenOK
    <3>2. d[1][2] \in Nat /\ cursor.latest \in Nat /\ c.latest \in Nat
      BY <1>4, <3>1, HappenedWrote DEF FilesInv, Cursor
    <3> QED
      BY <1>4, <1>5, <3>1, <3>2
  <2>2. CASE d \in E \X {reads}
    <3>1. d[1] \in E
      BY <2>2
    <3> QED
      BY <1>5, <3>1
  <2> QED
    BY <1>1, <1>2, <2>1, <2>2
<1>8. GivenOK'
  BY <1>1, <1>4, <1>6, <1>7 DEF GivenOK
<1>9. Given' = Given \cup E
  <2>1. delivered' = delivered \cup (E \X {reads})
    BY <1>1, <1>2
  <2>2. {d[1] : d \in E \X {reads}} = E
    <3>1. \A d \in E \X {reads} : d[1] \in E
      OBVIOUS
    <3>2. ASSUME NEW e \in E
          PROVE  \E d \in E \X {reads} : d[1] = e
      <4>1. <<e, reads>> \in E \X {reads} /\ <<e, reads>>[1] = e
        OBVIOUS
      <4> QED
        BY <4>1
    <3> QED
      BY <3>1, <3>2
  <2> QED
    BY <2>1, <2>2 DEF Given
<1>10. Moved(cursor.floors) => Moved(cursor.floors)'
  BY <1>1, <1>4, <1>5 DEF Moved
<1>11. ASSUME NEW o \in due
       PROVE  /\ Wrote(o.id)' /\ o = Obs(o.id)'
              /\ o.kind \in {"prompt", "stop"} =>
                   /\ o.id \in c.seen \cup {c.latest} => WaitedFor(o) \in Given'
                   /\ \/ o \in Stored
                      \/ WaitedFor(o) \in Given'
                      \/ \E p \in due : Key(p) = Key(o) /\ Before(o, p)
                      \/ Moved(cursor.floors)'
  <2>1. /\ Wrote(o.id) /\ o = Obs(o.id)
        /\ o.kind \in {"prompt", "stop"} =>
             \/ o \in Stored
             \/ WaitedFor(o) \in Given
             \/ \E p \in due : Key(p) = Key(o) /\ Before(o, p)
             \/ Moved(cursor.floors)
    BY DEF ChainInv, DueOK
  <2>2. o.kind \in {"prompt", "stop"} /\ o.id \in c.seen \cup {c.latest} => WaitedFor(o) \in Given'
    BY <1>1, <1>2, <1>3, <1>9, ReportCovers
  <2> QED
    BY <1>6, <1>9, <1>10, <2>1, <2>2
<1>12. DueOK'
  BY <1>1, <1>4, <1>6, <1>11 DEF DueOK
<1> QED
  BY <1>8, <1>12

\* The end of a read.
LEMMA ObserveChain ==
  ASSUME FilesInv, ChainInv, Observe
  PROVE  ChainInv'
<1>1. UNCHANGED <<hooks, at, lead, prompts>> /\ reader # Idle /\ reader' = Idle
  BY DEF Observe, hookVars, files
<1>2. /\ \A f : Spent(f) => Spent(f)'
      /\ \A k : Wrote(k) => Wrote(k)'
      /\ Ids(lead)' = Ids(lead) /\ Stored' = Stored /\ Happened' = Happened
      /\ \A i : Obs(i)' = Obs(i)
  BY <1>1, FilesRest
<1>3. lead' \in Files => Spent(FloorsOf(lead))'
  <2>1. PICK f : f = FloorsOf(lead)
    OBVIOUS
  <2>2. FloorsOf(lead)' = f
    BY <1>1, <2>1 DEF FloorsOf
  <2>3. lead' \in Files => Spent(f)'
    BY <1>1, <1>2, <2>1 DEF ChainInv
  <2> QED
    BY <2>2, <2>3 DEF Spent, SpentAt
<1>4. ReadOK' /\ ReadsOn'
  BY <1>1 DEF ReadOK, ReadsOn, Untold
<1>5. CASE cursor' = None
  BY <1>3, <1>4, <1>5 DEF ChainInv, CursorOK, GivenOK, DueOK
<1>6. CASE UNCHANGED <<cursor, delivered, due>> /\ cursor # None
  <2>1. PICK f : f = cursor.floors
    OBVIOUS
  <2>2. PICK k : k = cursor.latest
    OBVIOUS
  <2>3. /\ Spent(f)' /\ (Moved(f) => Moved(f)')
        /\ k # 0 => Wrote(k)' /\ (Moved(f)' \/ HasPrompt(lead, k)' \/ NamesFrom(k)')
        /\ \A id \in cursor.seen : Wrote(id)'
    BY <1>1, <1>6, <2>1, <2>2, FilesRest DEF ChainInv, CursorOK
  <2>4. Spent(cursor.floors)'
    BY <1>6, <2>1, <2>3 DEF Spent, SpentAt
  <2>5. cursor'.latest # 0 =>
          /\ Wrote(cursor.latest)'
          /\ (Moved(cursor.floors) \/ HasPrompt(lead, cursor.latest) \/ NamesFrom(cursor.latest))'
    BY <1>6, <2>1, <2>2, <2>3 DEF Moved, HasPrompt, NamesFrom, Wrote
  <2>6. CursorOK'
    BY <1>1, <1>6, <2>3, <2>4, <2>5 DEF ChainInv, CursorOK
  <2>7. GivenOK'
    BY <1>1, <1>2, <1>6 DEF ChainInv, GivenOK
  <2>8. DueOK'
    <3>1. Moved(cursor.floors) => Moved(cursor.floors)'
      BY <1>1, <1>6 DEF Moved
    <3>2. Given' = Given
      BY <1>6 DEF Given
    <3> QED
      BY <1>2, <1>6, <3>1, <3>2 DEF ChainInv, DueOK
  <2> QED
    BY <1>3, <1>4, <2>6, <2>7, <2>8 DEF ChainInv
<1>7. CASE pointer = reader.pointer /\ cursor = None
  <2>1. /\ cursor' = CursorOf(reader.lead, prompts) /\ delivered' = {}
        /\ due' = {o \in Stored : o.id \notin cursor'.seen \cup {cursor'.latest}}
    BY <1>7 DEF Observe, Baseline
  <2>2. CursorOK'
    BY <1>1, <2>1, NewCursor
  <2>3. GivenOK'
    BY <2>1 DEF GivenOK
  <2>4. ASSUME NEW o \in due'
        PROVE  /\ Wrote(o.id)' /\ o = Obs(o.id)' /\ o \in Stored'
               /\ o.id \notin cursor'.seen \cup {cursor'.latest}
    <3>1. o \in Stored /\ o.id \notin cursor'.seen \cup {cursor'.latest}
      BY <2>1
    <3>2. lead \in Files /\ o \in AllSeen(lead)
      BY <3>1 DEF Stored, FilesInv, LeadOK
    <3>3. Wrote(o.id) /\ o = Obs(o.id)
      BY <3>2, FileNames DEF FilesInv, LeadOK
    <3> QED
      BY <1>2, <3>1, <3>3
  <2>5. DueOK'
    BY <2>4 DEF DueOK
  <2> QED
    BY <1>3, <1>4, <2>2, <2>3, <2>5 DEF ChainInv
<1>8. CASE /\ pointer = reader.pointer /\ cursor # None
           /\ ~GapBetween(cursor, reader.lead, prompts)
  <2>1. cursor' = CursorOf(reader.lead, prompts)
    BY <1>8 DEF Observe, Report
  <2>2. CursorOK'
    BY <1>1, <2>1, NewCursor
  <2>3. GivenOK' /\ DueOK'
    BY <1>8, ReportChain
  <2> QED
    BY <1>3, <1>4, <2>2, <2>3 DEF ChainInv
<1>9. \/ UNCHANGED <<cursor, delivered, due>>
      \/ pointer = reader.pointer /\ cursor = None
      \/ pointer = reader.pointer /\ cursor # None /\ ~GapBetween(cursor, reader.lead, prompts)
      \/ cursor' = None
  BY DEF Observe, Report
<1> QED
  BY <1>5, <1>6, <1>7, <1>8, <1>9

\* The invariant of a chain holds along every run.
LEMMA ChainStep == ~Ties /\ FilesInv /\ ChainInv /\ [Next]_vars => ChainInv'
<1> SUFFICES ASSUME ~Ties, FilesInv, ChainInv, [Next]_vars
             PROVE  ChainInv'
  OBVIOUS
<1>1. CASE Beside
  <2>1. ReadOK' /\ CursorOK' /\ ReadsOn'
    BY <1>1, CursorBeside DEF ChainInv
  <2>2. GivenOK'
    BY <1>1, GivenBeside DEF ChainInv
  <2>3. DueOK'
    BY <1>1, DueBeside DEF ChainInv
  <2>4. lead' \in Files => Spent(FloorsOf(lead))'
    BY FloorsSpent DEF ChainInv
  <2> QED
    BY <2>1, <2>2, <2>3, <2>4 DEF ChainInv
<1>2. CASE ReadLead
  BY <1>2, ReadLeadChain
<1>3. CASE Observe
  BY <1>3, ObserveChain
<1> QED
  BY <1>1, <1>2, <1>3, StepForms

\* No chain is open at first.
LEMMA ChainInit == Init => ChainInv
  BY NoneIsNone DEF Init, ChainInv, ReadOK, CursorOK, ReadsOn, Untold, GivenOK, DueOK

\* What is due and gone from the file, a reader of now is told.
LEMMA ChainLosesNothing == FilesInv /\ ChainInv => NoEventIsLost
<1> SUFFICES ASSUME FilesInv, ChainInv, cursor # None, lead # Damaged, NEW o \in due,
                    o.kind \in {"prompt", "stop"}
             PROVE  \/ o \in Stored
                    \/ WaitedFor(o) \in Given
                    \/ \E p \in due : Key(p) = Key(o) /\ Before(o, p)
                    \/ GapBetween(cursor, lead, prompts)
  BY DEF NoEventIsLost
<1>1. \/ o \in Stored
      \/ WaitedFor(o) \in Given
      \/ \E p \in due : Key(p) = Key(o) /\ Before(o, p)
      \/ Moved(cursor.floors)
  BY DEF ChainInv, DueOK
<1>2. Moved(cursor.floors) => GapBetween(cursor, lead, prompts)
  BY NoneIsNone DEF Moved, GapBetween
<1> QED
  BY <1>1, <1>2

\* While no two hooks read one clock value, a prompt or a turn end that a pool stored since
\* the chain began is reported, or there to be, or replaced, or the next read tells of a
\* gap (append_observation, cursor_of, gap_between, events_between).
THEOREM ChainsLoseNothing ==
  ASSUME ~Ties
  PROVE  Spec => []NoEventIsLost
  BY FilesInit, FilesStep, ChainInit, ChainStep, ChainLosesNothing, PTL DEF Spec

-----------------------------------------------------------------------------
(***************************************************************************)
(* The chain delivers each event once.                                     *)
(***************************************************************************)
\* Each step of the files and the observer is one of the feed, or none.
LEMMA StepFeeds ==
  ASSUME FilesInv, ~Ties, ChainInv, [Next]_vars
  PROVE  [Feed!Next]_Feed!vars
<1>1. FilesInv' /\ Onward
  BY FilesStep
<1>2. CASE Beside
  <2>1. Happened \subseteq Happened'
    BY <1>1, HappenedGrows DEF FilesInv
  <2>2. UNCHANGED <<delivered, cursor # None>>
    BY <1>2 DEF Beside
  <2>3. Feed!Record
    BY <2>1, <2>2 DEF Feed!Record
  <2> QED
    BY <2>3 DEF Feed!Next
<1>3. CASE ReadLead
  <2>1. UNCHANGED <<hooks, at, delivered>> /\ (cursor' = None \/ cursor' = cursor)
    BY <1>3 DEF ReadLead, hookVars
  <2>2. Happened' = Happened
    BY <2>1 DEF Happened
  <2>3. CASE (cursor' # None) = (cursor # None)
    BY <2>1, <2>2, <2>3 DEF Feed!vars
  <2>4. CASE cursor # None /\ cursor' = None
    <3>1. Feed!Break
      BY <2>1, <2>2, <2>4 DEF Feed!Break
    <3> QED
      BY <3>1 DEF Feed!Next
  <2> QED
    BY <2>1, <2>3, <2>4
<1>4. CASE Observe
  <2>1. UNCHANGED <<hooks, at>> /\ reader # Idle
    BY <1>4 DEF Observe, hookVars
  <2>2. Happened' = Happened
    BY <2>1 DEF Happened
  <2>3. CASE UNCHANGED <<cursor, delivered, due>>
    BY <2>2, <2>3 DEF Feed!vars
  <2>4. CursorOf(reader.lead, prompts) # None
    BY <2>1, CursorIs, NoneIsNone DEF ChainInv
  <2>5. CASE pointer = reader.pointer /\ cursor = None
    <3>1. cursor' = CursorOf(reader.lead, prompts) /\ delivered' = {}
      BY <1>4, <2>5 DEF Observe, Baseline
    <3>2. Feed!Start
      BY <2>2, <2>4, <2>5, <3>1 DEF Feed!Start
    <3> QED
      BY <3>2 DEF Feed!Next
  <2>6. CASE /\ pointer = reader.pointer /\ cursor # None
             /\ GapBetween(cursor, reader.lead, prompts)
    <3>1. cursor' = None /\ delivered' = delivered
      BY <1>4, <2>6 DEF Observe, Report
    <3>2. Feed!Break
      BY <2>2, <2>6, <3>1 DEF Feed!Break
    <3> QED
      BY <3>2 DEF Feed!Next
  <2>7. CASE /\ pointer = reader.pointer /\ cursor # None
             /\ ~GapBetween(cursor, reader.lead, prompts)
    <3>1. PICK E : E = EventsBetween(cursor, reader.lead, prompts)
      OBVIOUS
    <3>2. /\ cursor' = CursorOf(reader.lead, prompts)
          /\ delivered' = delivered \cup (E \X {reads})
      BY <1>4, <2>7, <3>1 DEF Observe, Report
    <3>3. \A e \in E : e \in Happened /\ \A d \in delivered : d[1] # e
      BY <2>1, <2>7, <3>1, ReportGives
    <3>4. \A d \in delivered' \ delivered : d[1] \in E /\ d[2] = reads
      BY <3>2
    <3>5. Feed!Deliver
      BY <2>2, <2>4, <2>7, <3>2, <3>3, <3>4 DEF Feed!Deliver
    <3> QED
      BY <3>5 DEF Feed!Next
  <2>8. \/ UNCHANGED <<cursor, delivered, due>>
        \/ pointer = reader.pointer
    BY <1>4 DEF Observe
  <2> QED
    BY <2>3, <2>5, <2>6, <2>7, <2>8
<1> QED
  BY <1>2, <1>3, <1>4, StepForms

\* The empty record feeds nothing.
LEMMA InitFeeds == Init => Feed!Init
  BY DEF Init, Happened, Feed!Init

\* While no two hooks read one clock value, the calls of `attention observe` along a chain
\* give events that hooks recorded, and each to one call (read_state, gap_between, events_between).
THEOREM ChainsDeliverOnce ==
  ASSUME ~Ties
  PROVE  Spec => DeliversOnce
<1>1. FilesInv /\ ChainInv /\ [Next]_vars => [Feed!Next]_Feed!vars
  BY StepFeeds
<1> QED
  BY <1>1, FilesInit, FilesStep, ChainInit, ChainStep, InitFeeds, PTL
     DEF Spec, DeliversOnce, Feed!Spec
=============================================================================
