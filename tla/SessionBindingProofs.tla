------------------------ MODULE SessionBindingProofs ------------------------
(***************************************************************************)
(* Proofs about SessionBinding and Inspect, for any number of processes,   *)
(* sessions and hooks.  Three facts carry them: a process's events and the *)
(* host records are of sessions it ran; a commit under way has the writes  *)
(* of its plan left, with what they need in place; and what let it take    *)
(* the pane when it planned still lets it, for it holds the locks.         *)
(***************************************************************************)
EXTENDS Inspect, TLAPS

-----------------------------------------------------------------------------
(***************************************************************************)
(* The inductive invariant.                                                *)
(***************************************************************************)
\* Hooks and host records are of processes that ran the session.
RanIt ==
  /\ \A h \in Hook : hooks[h] # Idle => hooks[h].from \in ran[hooks[h].session]
  /\ \A s \in Session : host[s] # None => host[s].owner \in ran[s]

I == [file |-> "index"]
B == [file |-> "binding"]
P == [file |-> "pointer"]

\* What the writes left of a commit rely on.
LeftOver(e, writes) ==
  \/ writes = <<I, B, P>> /\ e.obs > binding[e.session]
  \/ writes = <<B, P>> /\ e.obs > binding[e.session] /\ e.session \in index
  \/ writes \in {<<P>>, <<I>>, <<I, P>>} /\ e.obs = binding[e.session]

\* The commit may still take the pane.
MaySelect(e) == pointer \in {None, e.session} \/ (e.obs > binding[pointer] /\ MayReplace(e, pointer))

CommitOK ==
  lock = Free \/
  \E h \in Hook :
    /\ lock.hook = h /\ lock = [hook |-> h, writes |-> lock.writes]
    /\ hooks[h].at = "begun" /\ hooks[h].action = "binding"
    /\ LeftOver(hooks[h], lock.writes)
    /\ MaySelect(hooks[h])

SInv == RecordsOK /\ RanIt /\ CommitOK

-----------------------------------------------------------------------------
\* What a hook is about, while it is about anything.
LEMMA HookFacts ==
  ASSUME TypeOK, NEW h \in Hook, hooks[h] # Idle
  PROVE  /\ hooks[h].from \in Process /\ hooks[h].session \in Session
         /\ hooks[h].at \in {"host", "begun"}
         /\ hooks[h].at = "begun" => hooks[h].obs \in 1..clock /\ hooks[h].action \in {"binding", "end"}
<1>1. hooks[h] \in Accepted \cup Begun
  BY DEF TypeOK
<1>2. CASE hooks[h] \in Accepted
  BY <1>2 DEF Accepted
<1>3. CASE hooks[h] \in Begun
  BY <1>3 DEF Begun
<1> QED
  BY <1>1, <1>2, <1>3

\* A hook that returns, and one whose event is taken, leave every hook in form.
LEMMA HookReturns ==
  ASSUME TypeOK, NEW h \in Hook, clock' = clock, hooks[h] # Idle, Return(h) \/ Accept(h)
  PROVE  /\ hooks' \in [Hook -> {Idle} \cup Accepted' \cup Begun']
         /\ \A k \in Hook : hooks'[k] # Idle =>
              /\ hooks'[k].from = hooks[k].from /\ hooks'[k].session = hooks[k].session
              /\ hooks[k] # Idle
         /\ \A k \in Hook \ {h} : hooks'[k] = hooks[k]
         /\ hooks'[h].at # "begun"
<1> USE DEF TypeOK
<1>1. Accepted' = Accepted /\ Begun' = Begun
  BY DEF Accepted, Begun
<1>2. CASE Return(h)
  BY <1>1, <1>2 DEF Return, Idle
<1>3. CASE Accept(h)
  <2> DEFINE to == [at |-> "host", from |-> hooks[h].from, session |-> hooks[h].session]
  <2>1. to \in Accepted
    BY HookFacts DEF Accepted
  <2>2. hooks' = [hooks EXCEPT ![h] = to]
    BY <1>3 DEF Accept
  <2>3. to.from = hooks[h].from /\ to.session = hooks[h].session /\ to.at = "host"
    OBVIOUS
  <2> HIDE DEF to
  <2> QED
    BY <1>1, <2>1, <2>2, <2>3
<1> QED
  BY <1>2, <1>3

\* A hook that begins has its form, and later stamps leave the others theirs.
LEMMA HookBegins ==
  ASSUME TypeOK, SessionAssumption, NEW h \in Hook, NEW action \in {"binding", "end"}, NEW p \in Process,
         NEW s \in Session, NEW source \in (UNION {Sources(q) : q \in Process}) \cup {None},
         NEW obs \in {clock, clock + 1}, Begin(h, action, p, s, source, obs)
  PROVE  /\ clock' = obs /\ clock \in Nat /\ clock >= 1 /\ clock' >= clock /\ clock' \in 1..(begun' + 1)
         /\ begun' \in 0..MaxHooks
         /\ hooks' \in [Hook -> {Idle} \cup Accepted' \cup Begun']
         /\ hooks[h] = Idle
         /\ hooks'[h].from = p /\ hooks'[h].session = s
         /\ \A k \in Hook \ {h} : hooks'[k] = hooks[k]
         /\ ran' \in [Session -> SUBSET Process] => TypeOK'
<1> DEFINE to == [at |-> "begun", action |-> action, from |-> p, session |-> s,
                  source |-> source, obs |-> obs]
<1>1. /\ clock' = obs /\ clock \in Nat /\ clock >= 1 /\ clock' >= clock /\ clock' \in 1..(begun' + 1)
      /\ begun' \in 0..MaxHooks /\ hooks[h] = Idle
  BY DEF TypeOK, Begin, SessionAssumption
<1>2. hooks' = [hooks EXCEPT ![h] = to]
  BY DEF Begin
<1>3. Accepted' = Accepted /\ Begun \subseteq Begun'
  BY <1>1 DEF Accepted, Begun
<1>4. to \in Begun'
  BY <1>1 DEF Begun
<1>5. to.from = p /\ to.session = s
  OBVIOUS
<1> HIDE DEF to
<1>6. /\ hooks' \in [Hook -> {Idle} \cup Accepted' \cup Begun']
      /\ hooks'[h] = to /\ \A k \in Hook \ {h} : hooks'[k] = hooks[k]
  BY <1>2, <1>3, <1>4 DEF TypeOK
<1>7. binding' \in [Session -> 0..clock']
  <2>1. binding' = binding /\ 0..clock \subseteq 0..clock'
    BY <1>1 DEF Begin
  <2> QED
    BY <2>1 DEF TypeOK
<1>8. end' \in [Session -> {None} \cup [of : 1..clock', obs : 1..clock']]
  <2>1. end' = end /\ [of : 1..clock, obs : 1..clock] \subseteq [of : 1..clock', obs : 1..clock']
    BY <1>1 DEF Begin
  <2> QED
    BY <2>1 DEF TypeOK
<1>9. ran' \in [Session -> SUBSET Process] => TypeOK'
  BY <1>1, <1>6, <1>7, <1>8 DEF TypeOK, Begin
<1> QED
  BY <1>1, <1>5, <1>6, <1>9

\* The commit under way, and the hook it is of.
LEMMA WhoCommits ==
  ASSUME TypeOK, CommitOK, NEW h \in Hook, lock.hook = h
  PROVE  /\ lock # Free /\ lock = [hook |-> h, writes |-> lock.writes]
         /\ hooks[h].at = "begun" /\ hooks[h].action = "binding" /\ hooks[h] # Idle
         /\ LeftOver(hooks[h], lock.writes) /\ MaySelect(hooks[h])
<1>1. lock # Free
  BY SessionAssumption DEF Free
<1> QED
  BY <1>1 DEF CommitOK, Idle

\* The records and hooks keep their form.
LEMMA TypeStep ==
  ASSUME SInv, [Next]_vars
  PROVE  TypeOK'
<1> USE SessionAssumption DEF SInv, RecordsOK
<1>1. CASE UNCHANGED vars
  BY <1>1 DEF vars, TypeOK, Accepted, Begun
<1>2. ASSUME NEW h \in Hook, NEW p \in Process, NEW s \in Session, NEW source \in Sources(p),
             NEW obs \in {clock, clock + 1}, StartSession(h, p, s, source, obs)
      PROVE  TypeOK'
  <2>1. Begin(h, "binding", p, s, source, obs)
    BY <1>2 DEF StartSession
  <2>2. source \in (UNION {Sources(q) : q \in Process}) \cup {None}
    OBVIOUS
  <2>3. ran' \in [Session -> SUBSET Process]
    BY <1>2 DEF StartSession, TypeOK
  <2> QED
    BY <2>1, <2>2, <2>3, HookBegins
<1>3. ASSUME NEW h \in Hook, NEW p \in Process, NEW s \in Session, EndSession(h, p, s, clock + 1)
      PROVE  TypeOK'
  <2>1. Begin(h, "end", p, s, None, clock + 1) /\ ran' = ran
    BY <1>3 DEF EndSession
  <2>2. ran' \in [Session -> SUBSET Process]
    BY <2>1 DEF TypeOK
  <2> QED
    BY <2>1, <2>2, HookBegins
<1>4. ASSUME NEW p \in Process, ExitAgent(p)
      PROVE  TypeOK'
  BY <1>4 DEF ExitAgent, TypeOK, Accepted, Begun
<1>5. ASSUME NEW h \in Hook, ApplyBinding(h)
      PROVE  TypeOK'
  <2>1. clock' = clock /\ hooks[h] # Idle
    BY <1>5 DEF ApplyBinding, Idle
  <2>2. CASE Return(h) /\ UNCHANGED lock
    BY <1>5, <2>1, <2>2, HookReturns DEF ApplyBinding, TypeOK
  <2>3. CASE UNCHANGED hooks /\ lock'.hook = h
    BY <1>5, <2>1, <2>3 DEF ApplyBinding, TypeOK, Accepted, Begun
  <2> QED
    BY <1>5, <2>2, <2>3 DEF ApplyBinding
<1>6. ASSUME NEW h \in Hook, WriteFile(h)
      PROVE  TypeOK'
  <2>1. clock' = clock /\ hooks[h] # Idle /\ hooks[h].at = "begun" /\ lock = [hook |-> h, writes |-> lock.writes]
    BY <1>6, WhoCommits DEF WriteFile
  <2>2. hooks[h].session \in Session /\ hooks[h].obs \in 0..clock
    BY <2>1, HookFacts DEF TypeOK
  <2>3. binding' \in [Session -> 0..clock] /\ pointer' \in Session \cup {None} /\ index' \subseteq Session
    BY <1>6, <2>2 DEF WriteFile, TypeOK
  <2>4. CASE lock' = Free /\ Accept(h)
    BY <1>6, <2>1, <2>3, <2>4, HookReturns DEF WriteFile, TypeOK, Free
  <2>5. CASE lock' = [lock EXCEPT !.writes = Tail(@)] /\ UNCHANGED hooks
    BY <1>6, <2>1, <2>3, <2>5 DEF WriteFile, TypeOK, Accepted, Begun
  <2> QED
    BY <1>6, <2>4, <2>5 DEF WriteFile
<1>7. ASSUME NEW h \in Hook, ApplyEnd(h)
      PROVE  TypeOK'
  <2> DEFINE e == hooks[h]
  <2>1. clock' = clock /\ e # Idle /\ e.at = "begun"
    BY <1>7 DEF ApplyEnd, Idle
  <2>2. e.session \in Session /\ e.obs \in 1..clock
    BY <2>1, HookFacts
  <2>3. end' \in [Session -> {None} \cup [of : 1..clock, obs : 1..clock]]
    BY <1>7, <2>2 DEF ApplyEnd, TypeOK, IsNewEnd
  <2>4. Return(h) \/ Accept(h)
    BY <1>7 DEF ApplyEnd
  <2> QED
    BY <1>7, <2>1, <2>3, <2>4, HookReturns DEF ApplyEnd, TypeOK
<1>8. ASSUME NEW h \in Hook, RecordHost(h)
      PROVE  TypeOK'
  <2>1. clock' = clock /\ hooks[h] # Idle
    BY <1>8 DEF RecordHost, Idle
  <2>2. hooks[h].from \in Process /\ hooks[h].session \in Session
    BY <2>1, HookFacts
  <2>3. host' \in [Session -> {None} \cup [owner : Process, contested : BOOLEAN]]
    <3> DEFINE recorded == RecordedHost(host[hooks[h].session], hooks[h].from)
    <3>1. recorded \in [owner : Process, contested : BOOLEAN]
      <4> DEFINE stored == host[hooks[h].session]
      <4>1. stored \in {None} \cup [owner : Process, contested : BOOLEAN]
        BY <2>2 DEF TypeOK
      <4> HIDE DEF stored
      <4>2. [owner |-> hooks[h].from, contested |-> FALSE] \in [owner : Process, contested : BOOLEAN]
        BY <2>2
      <4>3. stored # None => [stored EXCEPT !.contested = TRUE] \in [owner : Process, contested : BOOLEAN]
        BY <4>1
      <4>4. RecordedHost(stored, hooks[h].from) \in [owner : Process, contested : BOOLEAN]
        BY <4>1, <4>2, <4>3 DEF RecordedHost
      <4> QED
        BY <4>4 DEF stored
    <3>2. host' = host \/ host' = [host EXCEPT ![hooks[h].session] = recorded]
      BY <1>8 DEF RecordHost
    <3> HIDE DEF recorded
    <3> QED
      BY <3>1, <3>2 DEF TypeOK
  <2> QED
    BY <1>8, <2>1, <2>3, HookReturns DEF RecordHost, TypeOK
<1>9. ASSUME NEW h \in Hook, KillHook(h)
      PROVE  TypeOK'
  <2>1. clock' = clock /\ hooks[h] # Idle
    BY <1>9, WhoCommits DEF KillHook, Idle
  <2> QED
    BY <1>9, <2>1, HookReturns DEF KillHook, TypeOK, Free
<1> QED
  BY <1>1, <1>2, <1>3, <1>4, <1>5, <1>6, <1>7, <1>8, <1>9 DEF Next, HookStep

\* Hooks and host records stay with processes that ran the session.
LEMMA RanStep ==
  ASSUME SInv, [Next]_vars
  PROVE  RanIt'
<1> USE SessionAssumption DEF SInv, RecordsOK
<1>1. CASE UNCHANGED vars
  BY <1>1 DEF vars, RanIt
<1>2. ASSUME NEW h \in Hook, NEW p \in Process, NEW s \in Session, NEW source \in Sources(p),
             NEW obs \in {clock, clock + 1}, StartSession(h, p, s, source, obs)
      PROVE  RanIt'
  <2>1. Begin(h, "binding", p, s, source, obs) /\ ran' = [ran EXCEPT ![s] = @ \cup {p}]
    BY <1>2 DEF StartSession
  <2>2. source \in (UNION {Sources(q) : q \in Process}) \cup {None}
    OBVIOUS
  <2>3. \A r \in Session : ran[r] \subseteq ran'[r]
    BY <2>1 DEF TypeOK
  <2>4. p \in ran'[s]
    BY <2>1 DEF TypeOK
  <2>5. /\ hooks'[h].from = p /\ hooks'[h].session = s
        /\ \A k \in Hook \ {h} : hooks'[k] = hooks[k]
    BY <2>1, <2>2, HookBegins
  <2> QED
    BY <2>1, <2>3, <2>4, <2>5, HookFacts DEF RanIt, TypeOK, Begin
<1>3. ASSUME NEW h \in Hook, NEW p \in Process, NEW s \in Session, EndSession(h, p, s, clock + 1)
      PROVE  RanIt'
  <2>1. Begin(h, "end", p, s, None, clock + 1) /\ ran' = ran /\ p \in ran[s]
    BY <1>3 DEF EndSession
  <2>2. /\ hooks'[h].from = p /\ hooks'[h].session = s
        /\ \A k \in Hook \ {h} : hooks'[k] = hooks[k]
    BY <2>1, HookBegins
  <2> QED
    BY <2>1, <2>2 DEF RanIt, Begin
<1>4. ASSUME NEW p \in Process, ExitAgent(p)
      PROVE  RanIt'
  BY <1>4 DEF ExitAgent, RanIt
<1>5. ASSUME NEW h \in Hook, ApplyBinding(h) \/ ApplyEnd(h) \/ WriteFile(h) \/ KillHook(h)
      PROVE  RanIt'
  <2>1. ran' = ran /\ host' = host /\ clock' = clock
    BY <1>5 DEF ApplyBinding, ApplyEnd, WriteFile, KillHook
  <2>2. hooks[h] # Idle
    BY <1>5, WhoCommits DEF ApplyBinding, ApplyEnd, WriteFile, KillHook, Idle
  <2>3. hooks' = hooks \/ Return(h) \/ Accept(h)
    BY <1>5 DEF ApplyBinding, ApplyEnd, WriteFile, KillHook
  <2> QED
    BY <2>1, <2>2, <2>3, HookReturns DEF RanIt
<1>6. ASSUME NEW h \in Hook, RecordHost(h)
      PROVE  RanIt'
  <2>1. ran' = ran /\ clock' = clock /\ hooks[h] # Idle /\ Return(h)
    BY <1>6 DEF RecordHost, Idle
  <2>2. hooks[h].session \in Session /\ hooks[h].from \in ran[hooks[h].session]
    BY <2>1, HookFacts DEF RanIt
  <2>3. ASSUME NEW s \in Session, host'[s] # None
        PROVE  host'[s].owner \in ran[s]
    BY <1>6, <2>2, <2>3 DEF RecordHost, RecordedHost, RanIt, TypeOK
  <2> QED
    BY <2>1, <2>3, HookReturns DEF RanIt
<1> QED
  BY <1>1, <1>2, <1>3, <1>4, <1>5, <1>6 DEF Next, HookStep

\* A commit is as it was where its hook and the records it relies on are.
LEMMA SameCommit ==
  ASSUME CommitOK, UNCHANGED <<binding, end, host, pointer, index, lock>>,
         \A k \in Hook : lock.hook = k => hooks'[k] = hooks[k]
  PROVE  CommitOK'
<1> SUFFICES ASSUME lock # Free
             PROVE  CommitOK'
  BY DEF CommitOK
<1>1. PICK k \in Hook :
        /\ lock.hook = k /\ lock = [hook |-> k, writes |-> lock.writes]
        /\ hooks[k].at = "begun" /\ hooks[k].action = "binding"
        /\ LeftOver(hooks[k], lock.writes)
        /\ MaySelect(hooks[k])
  BY DEF CommitOK
<1>2. hooks'[k] = hooks[k]
  BY <1>1
<1>3. LeftOver(hooks[k], lock.writes)'
  BY <1>1, <1>2 DEF LeftOver
<1>4. MayReplace(hooks[k], pointer)' <=> MayReplace(hooks[k], pointer)
  <2>1. Ended(pointer)' <=> Ended(pointer)
    BY DEF Ended
  <2>2. CodexStartsAnew(hooks[k], pointer)' <=> CodexStartsAnew(hooks[k], pointer)
    BY <1>2 DEF CodexStartsAnew, ProvesRecordedHost
  <2> QED
    BY <1>2, <2>1, <2>2 DEF MayReplace
<1>5. MaySelect(hooks[k])'
  BY <1>1, <1>2, <1>4 DEF MaySelect
<1> QED
  BY <1>1, <1>2, <1>3, <1>5 DEF CommitOK

\* A commit under way keeps what its remaining writes rely on.
LEMMA CommitStep ==
  ASSUME SInv, [Next]_vars
  PROVE  CommitOK'
<1> USE SessionAssumption DEF SInv, RecordsOK
<1>1. CASE UNCHANGED vars
  BY <1>1, SameCommit DEF vars
<1>2. ASSUME NEW h \in Hook, \/ UNCHANGED hooks
                             \/ hooks[h].at # "begun" /\ \A k \in Hook \ {h} : hooks'[k] = hooks[k],
             UNCHANGED <<binding, end, host, pointer, index, lock>>
      PROVE  CommitOK'
  <2>1. ASSUME NEW k \in Hook, lock.hook = k
        PROVE  hooks'[k] = hooks[k]
    <3>1. hooks[k].at = "begun"
      BY <2>1, WhoCommits
    <3> QED
      BY <1>2, <3>1
  <2> QED
    BY <1>2, <2>1, SameCommit
<1>3. ASSUME lock' = Free
      PROVE  CommitOK'
  BY <1>3 DEF CommitOK
<1>4. ASSUME NEW h \in Hook, NEW p \in Process, NEW s \in Session, NEW source \in Sources(p),
             NEW obs \in {clock, clock + 1}, StartSession(h, p, s, source, obs)
      PROVE  CommitOK'
  <2>1. Begin(h, "binding", p, s, source, obs)
    BY <1>4 DEF StartSession
  <2>2. hooks[h].at # "begun" /\ \A k \in Hook \ {h} : hooks'[k] = hooks[k]
    BY <2>1 DEF Begin, TypeOK, Idle
  <2> QED
    BY <2>1, <2>2, <1>2 DEF Begin
<1>5. ASSUME NEW h \in Hook, NEW p \in Process, NEW s \in Session, EndSession(h, p, s, clock + 1)
      PROVE  CommitOK'
  <2>1. Begin(h, "end", p, s, None, clock + 1)
    BY <1>5 DEF EndSession
  <2>2. hooks[h].at # "begun" /\ \A k \in Hook \ {h} : hooks'[k] = hooks[k]
    BY <2>1 DEF Begin, TypeOK, Idle
  <2> QED
    BY <2>1, <2>2, <1>2 DEF Begin
<1>6. ASSUME NEW p \in Process, ExitAgent(p)
      PROVE  CommitOK'
  BY <1>6, SameCommit DEF ExitAgent
<1>7. ASSUME NEW h \in Hook, ApplyBinding(h)
      PROVE  CommitOK'
  <2> DEFINE e == hooks[h]
  <2>1. lock = Free /\ e.at = "begun" /\ e.action = "binding"
    BY <1>7 DEF ApplyBinding
  <2>2. CASE lock' = lock
    BY <2>1, <2>2, <1>3
  <2>3. CASE lock' # lock
    <3>1. ~RefusesSelection(e) /\ UNCHANGED <<hooks, binding, end, host, pointer, index>>
      BY <1>7, <2>3 DEF ApplyBinding
    <3>2. PICK plan \in StartPlans(e) : plan # << >> /\ lock' = [hook |-> h, writes |-> plan]
      BY <1>7, <2>3 DEF ApplyBinding
    <3>3. e.session \in Session /\ e.obs \in Nat
      BY <2>1, HookFacts DEF Idle, TypeOK
    <3>4. LeftOver(e, plan)
      BY <3>2 DEF StartPlans, Registration, Repetition, LeftOver, I, B, P
    <3>5. MaySelect(e)
      BY <3>1, <3>3 DEF RefusesSelection, MaySelect, TypeOK
    <3>6. LeftOver(e, plan)' /\ MaySelect(e)'
      BY <3>1, <3>4, <3>5 DEF LeftOver, MaySelect, MayReplace, CodexStartsAnew, ProvesRecordedHost, Ended
    <3> QED
      BY <2>1, <3>1, <3>2, <3>6 DEF CommitOK
  <2> QED
    BY <2>2, <2>3
<1>8. ASSUME NEW h \in Hook, WriteFile(h)
      PROVE  CommitOK'
  <2> DEFINE e == hooks[h]
  <2>1. /\ lock = [hook |-> h, writes |-> lock.writes]
        /\ e.at = "begun" /\ e.action = "binding"
        /\ LeftOver(e, lock.writes) /\ MaySelect(e) /\ e # Idle
    BY <1>8, WhoCommits DEF WriteFile
  <2>2. e.session \in Session /\ e.obs \in Nat
    BY <2>1, HookFacts
  <2>3. CASE lock' = Free
    BY <2>3, <1>3
  <2>4. CASE lock' # Free
    <3>1. lock' = [lock EXCEPT !.writes = Tail(@)] /\ UNCHANGED <<hooks, end, host>> /\ Len(lock.writes) # 1
      BY <1>8, <2>4 DEF WriteFile
    <3>2. PICK w : w = lock.writes /\ lock = [hook |-> h, writes |-> w]
      BY <2>1
    <3>3. lock' = [hook |-> h, writes |-> Tail(w)]
      <4>1. lock' = [lock EXCEPT !.writes = Tail(w)]
        BY <3>1, <3>2
      <4>2. [[hook |-> h, writes |-> w] EXCEPT !.writes = Tail(w)] = [hook |-> h, writes |-> Tail(w)]
        <5>1. \A t : [[hook |-> h, writes |-> w] EXCEPT !.writes = t] = [hook |-> h, writes |-> t]
          OBVIOUS
        <5> QED
          BY <5>1
      <4>3. [lock EXCEPT !.writes = Tail(w)] = [[hook |-> h, writes |-> w] EXCEPT !.writes = Tail(w)]
        BY <3>2
      <4> QED
        BY <4>1, <4>2, <4>3
    <3>4. w \in {<<I, B, P>>, <<B, P>>, <<I, P>>}
      <4>1. w # <<P>> /\ w # <<I>>
        <5>1. Len(<<P>>) = 1 /\ Len(<<I>>) = 1
          OBVIOUS
        <5> QED
          BY <3>1, <3>2, <5>1
      <4> QED
        BY <2>1, <3>2, <4>1 DEF LeftOver
    <3>5. LeftOver(e, Tail(w))' /\ MaySelect(e)'
      <4>1. CASE w = <<I, B, P>>
        <5>1. Tail(w) = <<B, P>> /\ Head(w) = I /\ e.obs > binding[e.session]
          BY <2>1, <3>2, <4>1 DEF LeftOver, I, B, P
        <5>2. e.session \in index' /\ binding' = binding /\ pointer' = pointer
          BY <1>8, <3>2, <5>1 DEF WriteFile, I
        <5> QED
          BY <2>1, <3>1, <5>1, <5>2 DEF LeftOver, MaySelect, MayReplace, CodexStartsAnew, ProvesRecordedHost, Ended
      <4>2. CASE w = <<I, P>>
        <5>1. Tail(w) = <<P>> /\ Head(w) = I /\ e.obs = binding[e.session]
          BY <2>1, <3>2, <4>2 DEF LeftOver, I, B, P
        <5>2. binding' = binding /\ pointer' = pointer
          BY <1>8, <3>2, <5>1 DEF WriteFile, I
        <5> QED
          BY <2>1, <3>1, <5>1, <5>2 DEF LeftOver, MaySelect, MayReplace, CodexStartsAnew, ProvesRecordedHost, Ended
      <4>3. CASE w = <<B, P>>
        <5>1. Tail(w) = <<P>> /\ Head(w) = B
          BY <4>3
        <5>2. binding' = [binding EXCEPT ![e.session] = e.obs] /\ pointer' = pointer
          BY <1>8, <3>2, <5>1 DEF WriteFile, B
        <5>3. binding'[e.session] = e.obs /\ \A r \in Session \ {e.session} : binding'[r] = binding[r]
          BY <5>2, <2>2 DEF TypeOK
        <5>4. pointer \notin {None, e.session} => pointer \in Session \ {e.session}
          BY DEF TypeOK
        <5>5. LeftOver(e, Tail(w))'
          BY <3>1, <5>1, <5>3 DEF LeftOver
        <5> QED
          BY <2>1, <3>1, <5>2, <5>3, <5>4, <5>5 DEF MaySelect, MayReplace, CodexStartsAnew, ProvesRecordedHost, Ended
      <4> QED
        BY <3>4, <4>1, <4>2, <4>3
    <3> QED
      <4>1. lock'.hook = h /\ lock'.writes = Tail(w)
        BY <3>3
      <4> QED
        BY <2>1, <3>1, <3>3, <3>5, <4>1 DEF CommitOK
  <2> QED
    BY <2>3, <2>4
<1>9. ASSUME NEW h \in Hook, ApplyEnd(h) \/ RecordHost(h)
      PROVE  CommitOK'
  BY <1>9, <1>3 DEF ApplyEnd, RecordHost
<1>10. ASSUME NEW h \in Hook, KillHook(h)
      PROVE  CommitOK'
  <2>1. CASE lock.hook = h
    BY <2>1, <1>10, <1>3 DEF KillHook
  <2>2. CASE lock.hook # h
    <3>1. hooks[h].at = "host" /\ UNCHANGED <<binding, end, host, pointer, index, lock>>
      BY <1>10, <2>2 DEF KillHook
    <3>2. \A k \in Hook \ {h} : hooks'[k] = hooks[k]
      BY <1>10 DEF KillHook, Return, TypeOK
    <3> QED
      BY <3>1, <3>2, <1>2
  <2> QED
    BY <2>1, <2>2
<1> QED
  BY <1>1, <1>4, <1>5, <1>6, <1>7, <1>8, <1>9, <1>10 DEF Next, HookStep

\* Only a commit's writes change which bindings there are and which the pane shows.
LEMMA OnlyWrites ==
  ASSUME [Next]_vars, \A h \in Hook : ~WriteFile(h)
  PROVE  UNCHANGED <<binding, pointer, index>>
<1>1. CASE UNCHANGED vars
  BY <1>1 DEF vars
<1>2. ASSUME NEW h \in Hook, NEW p \in Process, NEW s \in Session, NEW source \in Sources(p),
             NEW obs \in {clock, clock + 1}, StartSession(h, p, s, source, obs)
      PROVE  UNCHANGED <<binding, pointer, index>>
  BY <1>2 DEF StartSession, Begin
<1>3. ASSUME NEW h \in Hook, NEW p \in Process, NEW s \in Session, EndSession(h, p, s, clock + 1)
      PROVE  UNCHANGED <<binding, pointer, index>>
  BY <1>3 DEF EndSession, Begin
<1>4. ASSUME NEW p \in Process, ExitAgent(p)
      PROVE  UNCHANGED <<binding, pointer, index>>
  BY <1>4 DEF ExitAgent
<1>5. ASSUME NEW h \in Hook, ApplyBinding(h) \/ ApplyEnd(h) \/ RecordHost(h) \/ KillHook(h)
      PROVE  UNCHANGED <<binding, pointer, index>>
  BY <1>5 DEF ApplyBinding, ApplyEnd, RecordHost, KillHook
<1> QED
  BY <1>1, <1>2, <1>3, <1>4, <1>5 DEF Next, HookStep

\* Whatever file a commit was interrupted after, the records can be read together.
LEMMA ReadableStep ==
  ASSUME SInv, [Next]_vars
  PROVE  InterruptedCommitIsReadable'
<1> USE SessionAssumption DEF SInv, RecordsOK, InterruptedCommitIsReadable
<1>1. CASE UNCHANGED <<binding, pointer, index>>
  BY <1>1
<1>2. ASSUME NEW h \in Hook, WriteFile(h)
      PROVE  InterruptedCommitIsReadable'
  <2> DEFINE e == hooks[h]
  <2>1. LeftOver(e, lock.writes) /\ e # Idle /\ e.at = "begun"
    BY <1>2, WhoCommits DEF WriteFile
  <2>2. e.session \in Session /\ e.obs \in 1..clock /\ clock \in Nat
    BY <2>1, HookFacts DEF TypeOK
  <2> DEFINE file == Head(lock.writes).file
  <2>3. /\ file = "binding" => e.session \in index
        /\ file = "pointer" => binding[e.session] # 0
    <3>1. CASE lock.writes \in {<<I, B, P>>, <<I>>, <<I, P>>}
      BY <3>1 DEF I
    <3>2. CASE lock.writes = <<B, P>>
      <4>1. lock.writes # <<I, B, P>> /\ lock.writes \notin {<<P>>, <<I>>, <<I, P>>}
        BY <3>2 DEF I, B, P
      <4>2. file = "binding"
        BY <3>2 DEF B
      <4> QED
        BY <2>1, <4>1, <4>2 DEF LeftOver
    <3>3. CASE lock.writes = <<P>>
      <4>1. lock.writes # <<I, B, P>> /\ lock.writes # <<B, P>>
        BY <3>3 DEF I, B, P
      <4>2. file = "pointer"
        BY <3>3 DEF P
      <4> QED
        BY <2>1, <2>2, <4>1, <4>2 DEF LeftOver
    <3> QED
      BY <2>1, <3>1, <3>2, <3>3 DEF LeftOver
  <2>4. /\ index' = IF file = "index" THEN index \cup {e.session} ELSE index
        /\ binding' = IF file = "binding" THEN [binding EXCEPT ![e.session] = e.obs] ELSE binding
        /\ pointer' = IF file = "pointer" THEN e.session ELSE pointer
    BY <1>2 DEF WriteFile
  <2> HIDE DEF file
  <2>5. ASSUME NEW s \in Session, binding'[s] # 0
        PROVE  s \in index'
    BY <2>2, <2>3, <2>4, <2>5 DEF TypeOK
  <2>6. pointer' # None => binding'[pointer'] # 0
    BY <2>2, <2>3, <2>4 DEF TypeOK
  <2> QED
    BY <2>5, <2>6
<1> QED
  BY <1>1, <1>2, OnlyWrites

\* The invariant holds at first...
LEMMA InitInv == Init => SInv
<1> USE SessionAssumption
<1>1. Init => TypeOK
  BY DEF Init, TypeOK, Free
<1>2. Init => InterruptedCommitIsReadable /\ RanIt /\ CommitOK
  BY DEF Init, InterruptedCommitIsReadable, RanIt, CommitOK
<1> QED
  BY <1>1, <1>2 DEF SInv, RecordsOK

\* ...and every step keeps it...
LEMMA StepInv == SInv /\ [Next]_vars => SInv'
  BY TypeStep, RanStep, CommitStep, ReadableStep DEF SInv, RecordsOK

\* ...so it holds throughout.
LEMMA Invariance == Spec => []SInv
  BY InitInv, StepInv, PTL DEF Spec

-----------------------------------------------------------------------------
(***************************************************************************)
(* The theorems about SessionBinding.                                      *)
(***************************************************************************)
\* Wherever a hook is killed, the pointer names a binding that is there and the index names
\* every binding, as the plan of binding_mutation_for_session orders its writes.
THEOREM InterruptedCommitsAreReadable == Spec => []RecordsOK
  BY Invariance, PTL DEF SInv

\* What may be recorded of a session's host after another process proved itself.
LEMMA RecordedHostIs ==
  ASSUME NEW stored, NEW p
  PROVE  \/ RecordedHost(stored, p) = stored
         \/ RecordedHost(stored, p) = [owner |-> p, contested |-> FALSE]
         \/ stored # None /\ RecordedHost(stored, p) = [stored EXCEPT !.contested = TRUE]
<1> DEFINE fresh == [owner |-> p, contested |-> FALSE]
           second == [stored EXCEPT !.contested = TRUE]
<1>1. RecordedHost(stored, p) =
        IF stored = None THEN fresh
        ELSE IF stored.owner = p THEN stored
        ELSE IF stored.owner \notin alive THEN fresh
        ELSE second
  BY DEF RecordedHost
<1> HIDE DEF fresh, second
<1>2. \/ RecordedHost(stored, p) = stored
      \/ RecordedHost(stored, p) = fresh
      \/ stored # None /\ RecordedHost(stored, p) = second
  BY <1>1
<1> QED
  BY <1>2 DEF fresh, second

\* Only record_host changes a host record.
LEMMA OnlyRecordHost ==
  ASSUME [Next]_vars, \A h \in Hook : ~RecordHost(h)
  PROVE  UNCHANGED host
<1>1. CASE UNCHANGED vars
  BY <1>1 DEF vars
<1>2. ASSUME NEW h \in Hook, NEW p \in Process, NEW s \in Session, NEW source \in Sources(p),
             NEW obs \in {clock, clock + 1}, StartSession(h, p, s, source, obs)
      PROVE  UNCHANGED host
  BY <1>2 DEF StartSession, Begin
<1>3. ASSUME NEW h \in Hook, NEW p \in Process, NEW s \in Session, EndSession(h, p, s, clock + 1)
      PROVE  UNCHANGED host
  BY <1>3 DEF EndSession, Begin
<1>4. ASSUME NEW p \in Process, ExitAgent(p)
      PROVE  UNCHANGED host
  BY <1>4 DEF ExitAgent
<1>5. ASSUME NEW h \in Hook, ApplyBinding(h) \/ ApplyEnd(h) \/ WriteFile(h) \/ KillHook(h)
      PROVE  UNCHANGED host
  BY <1>5 DEF ApplyBinding, ApplyEnd, WriteFile, KillHook
<1> QED
  BY <1>1, <1>2, <1>3, <1>4, <1>5 DEF Next, HookStep

\* What a write of a file changes.
LEMMA WhatIsWritten ==
  ASSUME SInv, [Next]_vars, pointer' # pointer
  PROVE  \E h \in Hook :
           /\ WriteFile(h) /\ pointer' = hooks[h].session /\ binding' = binding
           /\ hooks[h].obs = binding[hooks[h].session] /\ MaySelect(hooks[h])
<1>1. PICK h \in Hook : WriteFile(h)
  BY OnlyWrites
<1>2. LeftOver(hooks[h], lock.writes) /\ MaySelect(hooks[h])
  BY <1>1, WhoCommits DEF WriteFile, SInv, RecordsOK
<1>3. Head(lock.writes).file = "pointer" /\ pointer' = hooks[h].session /\ binding' = binding
  BY <1>1 DEF WriteFile
<1>4. lock.writes = <<P>>
  BY <1>2, <1>3 DEF LeftOver, I, B, P
<1>5. lock.writes # <<I, B, P>> /\ lock.writes # <<B, P>>
  BY <1>4 DEF I, B, P
<1> QED
  BY <1>1, <1>2, <1>3, <1>5 DEF LeftOver

\* A start delayed past another session's never takes the pane back (refuses_selection).
THEOREM SelectionNeverGoesBack == Spec => SelectionMovesForward
<1>1. SInv /\ [Next]_vars =>
        [pointer # None /\ pointer' # pointer => binding'[pointer'] > binding[pointer]]_vars
  BY WhatIsWritten DEF MaySelect
<1> QED
  BY <1>1, Invariance, PTL DEF Spec, SelectionMovesForward

\* A start under way when its session ended does not bring it back (ends_binding).
THEOREM EndedStaysEnded == Spec => EndedUntilLaterStart
<1> DEFINE Kept == \A s \in Session : Ended(s) /\ binding[s] # 0 /\ ~Ended(s)' => binding'[s] > end[s].obs
<1>1. SInv /\ [Next]_vars => [Kept]_vars
  <2> SUFFICES ASSUME SInv, [Next]_vars, NEW s \in Session, Ended(s), binding[s] # 0, ~Ended(s)'
               PROVE  binding'[s] > end[s].obs
    OBVIOUS
  <2>1. end[s] \in [of : 1..clock, obs : 1..clock] /\ binding[s] \in Nat /\ clock \in Nat
    BY DEF SInv, RecordsOK, TypeOK, Ended, EndsBinding
  <2>2. CASE end' = end
    <3>1. binding' # binding
      BY <2>2 DEF Ended
    <3>2. PICK h \in Hook : WriteFile(h)
      BY <3>1, OnlyWrites
    <3>3. hooks[h].session \in Session /\ hooks[h].obs \in Nat
      BY <3>2, WhoCommits, HookFacts, <2>1 DEF WriteFile, SInv, RecordsOK
    <3>4. binding'[s] \in Nat
      BY <3>2, <3>3, <2>1 DEF WriteFile, SInv, RecordsOK, TypeOK
    <3> QED
      BY <2>1, <2>2, <3>4 DEF Ended, EndsBinding
  <2>3. CASE end' # end
    <3>1. PICK h \in Hook : ApplyEnd(h)
      BY <2>3 DEF Next, HookStep, vars, StartSession, EndSession, Begin, ExitAgent, ApplyBinding, WriteFile,
         RecordHost, KillHook
    <3>2. end' = [end EXCEPT ![hooks[h].session] = [of |-> binding[hooks[h].session], obs |-> hooks[h].obs]]
          /\ binding' = binding
      BY <3>1, <2>3 DEF ApplyEnd
    <3>3. hooks[h].session \in Session /\ hooks[h].obs \in Nat
      BY <3>1, <2>1, HookFacts DEF ApplyEnd, Idle, SInv, RecordsOK
    <3>4. CASE s = hooks[h].session
      <4>1. end'[s] = [of |-> binding[s], obs |-> hooks[h].obs]
        BY <3>2, <3>3, <3>4 DEF SInv, RecordsOK, TypeOK
      <4>2. end'[s].of = binding'[s] /\ end'[s] # None
        BY <4>1, <3>2, <3>3, <2>1, SessionAssumption
      <4> QED
        BY <4>2 DEF Ended, EndsBinding
    <3>5. CASE s # hooks[h].session
      <4>1. end'[s] = end[s]
        BY <3>2, <3>5 DEF SInv, RecordsOK, TypeOK
      <4> QED
        BY <3>2, <4>1 DEF Ended, EndsBinding
    <3> QED
      BY <3>4, <3>5
  <2> QED
    BY <2>2, <2>3
<1> QED
  BY <1>1, Invariance, PTL DEF Spec, EndedUntilLaterStart

\* An agent that opens a session of its own takes the pane only from a session that ended
\* or that it is the recorded host of, so that it ran it (CodexStartsAnew).
THEOREM FreshAgentsTakeNoLivePane == Spec => FreshAgentTakesNoLivePane
<1> DEFINE TakesOwn == \A h \in Hook :
             /\ lock.hook = h /\ hooks[h].source = "startup"
             /\ pointer # None /\ pointer' # pointer /\ ~Ended(pointer)
             => hooks[h].from \in ran[pointer]
<1>1. SInv /\ [Next]_vars => [TakesOwn]_vars
  <2> SUFFICES ASSUME SInv, [Next]_vars, NEW h \in Hook, lock.hook = h, hooks[h].source = "startup",
                      pointer # None, pointer' # pointer, ~Ended(pointer)
               PROVE  hooks[h].from \in ran[pointer]
    OBVIOUS
  <2>1. PICK k \in Hook : WriteFile(k) /\ pointer' = hooks[k].session /\ MaySelect(hooks[k])
    BY WhatIsWritten
  <2>2. k = h
    BY <2>1 DEF WriteFile
  <2>3. MayReplace(hooks[h], pointer)
    BY <2>1, <2>2 DEF MaySelect
  <2>4. ProvesRecordedHost(hooks[h].from, pointer)
    BY <2>3 DEF MayReplace, CodexStartsAnew
  <2>5. pointer \in Session
    BY DEF SInv, RecordsOK, TypeOK
  <2> QED
    BY <2>4, <2>5 DEF ProvesRecordedHost, SInv, RanIt
<1> QED
  BY <1>1, Invariance, PTL DEF Spec, FreshAgentTakesNoLivePane

\* A recorded host ran its session and gives way only after it exited (recorded_host).
THEOREM HostsAreKept == Spec => HostIsKept
<1> DEFINE Kept == \A s \in Session :
             host'[s] # host[s] =>
               /\ host'[s].owner \in ran[s]
               /\ host[s] # None /\ host[s].owner \in alive =>
                    host'[s] = [host[s] EXCEPT !.contested = TRUE]
<1>1. SInv /\ [Next]_vars => [Kept]_vars
  <2> SUFFICES ASSUME SInv, [Next]_vars, NEW s \in Session, host'[s] # host[s]
               PROVE  /\ host'[s].owner \in ran[s]
                      /\ host[s] # None /\ host[s].owner \in alive =>
                           host'[s] = [host[s] EXCEPT !.contested = TRUE]
    OBVIOUS
  <2>1. PICK h \in Hook : RecordHost(h)
    BY OnlyRecordHost
  <2>2. hooks[h] # Idle /\ hooks[h].session \in Session /\ hooks[h].from \in ran[hooks[h].session]
    BY <2>1, HookFacts DEF RecordHost, Idle, SInv, RanIt, RecordsOK
  <2>3. host' = [host EXCEPT ![hooks[h].session] = RecordedHost(@, hooks[h].from)]
    BY <2>1 DEF RecordHost
  <2>4. s = hooks[h].session /\ host'[s] = RecordedHost(host[s], hooks[h].from)
    BY <2>2, <2>3 DEF SInv, RecordsOK, TypeOK
  <2>5. \/ host'[s] = [owner |-> hooks[h].from, contested |-> FALSE]
        \/ host[s] # None /\ host'[s] = [host[s] EXCEPT !.contested = TRUE]
    BY <2>4, RecordedHostIs
  <2>6. host'[s].owner \in ran[s]
    <3>1. host[s] # None => host[s] \in [owner : Process, contested : BOOLEAN] /\ host[s].owner \in ran[s]
      BY DEF SInv, RanIt, RecordsOK, TypeOK
    <3>2. host[s] # None => [host[s] EXCEPT !.contested = TRUE].owner = host[s].owner
      BY <3>1
    <3> QED
      BY <2>2, <2>4, <2>5, <3>1, <3>2
  <2>7. host[s] # None /\ host[s].owner \in alive =>
                           host'[s] = [host[s] EXCEPT !.contested = TRUE]
    BY <2>4 DEF RecordedHost
  <2> QED
    BY <2>6, <2>7
<1> QED
  BY <1>1, Invariance, PTL DEF Spec, HostIsKept

-----------------------------------------------------------------------------
(***************************************************************************)
(* Inspect: the answer is one that was right at a moment of the read.      *)
(***************************************************************************)
\* The process that could be vouched for, were the session the one the pane shows.
HostOf(s) ==
  IF host[s] # None /\ ~ host[s].contested /\ host[s].owner \in alive
  THEN {host[s].owner} ELSE {}

\* What was read so far was so at a moment of the read.
PhaseSoFar ==
  /\ at \in {"binding", "end"} =>
       /\ binding[read.session] # 0
       /\ Ended(read.session) \in phases
  /\ at = "end" =>
       /\ binding[read.session] >= read.binding
       /\ EndsBinding(end[read.session], read.binding) \in phases
  /\ at \in {"host", "process", "again", "answered"} => read.ended \in phases

HostSoFar ==
  /\ at \in {"binding", "end", "host"} => HostOf(read.session) \subseteq hosted
  /\ at = "process" =>
       (read.host # None /\ ~read.host.contested /\ read.host.owner \in alive
          => read.host.owner \in hosted)
  /\ at \in {"pointer", "binding", "end", "host", "process"} => vouched = None
  /\ at \in {"again", "answered"} /\ vouched # None => vouched \in hosted

ReadInv == SInv /\ InspectTypeOK /\ PhaseSoFar /\ HostSoFar

\* How the sessions go on beside a reader: bindings get later stamps, an end that replaces
\* another ends the binding that is there, processes only exit, and a session's host record
\* changes only while the pane shows the session.
LEMMA SessionsForward ==
  ASSUME SInv, [Next]_vars, NEW s \in Session
  PROVE  /\ binding[s] \in Nat /\ binding'[s] \in Nat /\ binding'[s] >= binding[s]
         /\ clock \in Nat /\ clock' \in Nat /\ clock' >= clock
         /\ end'[s] # end[s] => binding'[s] = binding[s] /\ end'[s].obs >= binding[s] /\ Ended(s)'
         /\ host'[s] # host[s] => pointer = s /\ pointer' = s
         /\ alive' \subseteq alive
<1> DEFINE Forward ==
      /\ clock' >= clock /\ binding'[s] >= binding[s]
      /\ end'[s] # end[s] => binding'[s] = binding[s] /\ end'[s].obs >= binding[s] /\ Ended(s)'
      /\ host'[s] # host[s] => pointer = s /\ pointer' = s
      /\ alive' \subseteq alive
<1>0. TypeOK /\ TypeOK'
  BY TypeStep DEF SInv, RecordsOK
<1>1. clock \in Nat /\ clock' \in Nat /\ binding[s] \in Nat /\ binding'[s] \in Nat
  BY <1>0 DEF TypeOK
<1>2. CASE UNCHANGED vars
  BY <1>1, <1>2 DEF vars
<1>3. ASSUME NEW h \in Hook, NEW action, NEW p, NEW r, NEW source, NEW obs \in {clock, clock + 1},
             Begin(h, action, p, r, source, obs)
      PROVE  Forward
  BY <1>1, <1>3 DEF Begin
<1>4. ASSUME NEW p \in Process, ExitAgent(p)
      PROVE  Forward
  BY <1>1, <1>4 DEF ExitAgent
<1>5. ASSUME NEW h \in Hook, ApplyBinding(h) \/ KillHook(h)
      PROVE  Forward
  BY <1>1, <1>5 DEF ApplyBinding, KillHook
<1>6. ASSUME NEW h \in Hook, WriteFile(h)
      PROVE  Forward
  <2> DEFINE e == hooks[h]
  <2>1. LeftOver(e, lock.writes) /\ e # Idle /\ e.at = "begun"
    BY <1>6, WhoCommits DEF WriteFile, SInv, RecordsOK
  <2>2. e.session \in Session /\ e.obs \in Nat
    BY <2>1, <1>0, <1>1, HookFacts
  <2>3. Head(lock.writes).file = "binding" => e.obs > binding[e.session]
    <3>1. CASE lock.writes \in {<<P>>, <<I>>, <<I, P>>, <<I, B, P>>}
      BY <3>1 DEF I, P
    <3>2. CASE lock.writes = <<B, P>> /\ e.obs > binding[e.session]
      BY <3>2
    <3> QED
      BY <2>1, <3>1, <3>2 DEF LeftOver
  <2>4. binding'[s] >= binding[s]
    BY <1>0, <1>1, <1>6, <2>2, <2>3 DEF WriteFile, TypeOK
  <2> QED
    BY <1>1, <1>6, <2>4 DEF WriteFile
<1>7. ASSUME NEW h \in Hook, ApplyEnd(h)
      PROVE  Forward
  <2> DEFINE e == hooks[h]
  <2>1. CASE UNCHANGED end
    BY <1>1, <1>7, <2>1 DEF ApplyEnd
  <2>2. CASE ~UNCHANGED end
    <3>1. e.session \in Session /\ e.obs \in Nat
      BY <1>0, <1>1, <1>7, HookFacts DEF ApplyEnd, Idle
    <3>2. /\ end' = [end EXCEPT ![e.session] = [of |-> binding[e.session], obs |-> e.obs]]
          /\ e.obs >= binding[e.session]
      BY <1>7, <2>2 DEF ApplyEnd, IsNewEnd
    <3>3. CASE s = e.session
      <4>1. end'[s] = [of |-> binding[s], obs |-> e.obs]
        BY <1>0, <3>2, <3>3 DEF TypeOK
      <4>2. end'[s].of = binding[s] /\ end'[s].obs >= binding[s] /\ end'[s] # None /\ binding' = binding
        BY <4>1, <3>1, <3>2, <3>3, <1>1, <1>7, SessionAssumption DEF ApplyEnd
      <4> QED
        BY <1>1, <1>7, <4>2 DEF ApplyEnd, Ended, EndsBinding
    <3>4. CASE s # e.session
      <4>1. end'[s] = end[s]
        BY <1>0, <3>2, <3>4 DEF TypeOK
      <4> QED
        BY <1>1, <1>7, <4>1 DEF ApplyEnd
    <3> QED
      BY <3>3, <3>4
  <2> QED
    BY <2>1, <2>2
<1>8. ASSUME NEW h \in Hook, RecordHost(h)
      PROVE  Forward
  <2>1. CASE UNCHANGED host
    BY <1>1, <1>8, <2>1 DEF RecordHost
  <2>2. CASE ~UNCHANGED host
    <3>1. pointer = hooks[h].session
          /\ host' = [host EXCEPT ![hooks[h].session] = RecordedHost(@, hooks[h].from)]
      BY <1>8, <2>2 DEF RecordHost, KeepsHost
    <3>2. host'[s] # host[s] => s = hooks[h].session
      BY <1>0, <3>1 DEF TypeOK
    <3> QED
      BY <1>1, <1>8, <3>1, <3>2 DEF RecordHost
  <2> QED
    BY <2>1, <2>2
<1>9. Forward
  BY <1>2, <1>3, <1>4, <1>5, <1>6, <1>7, <1>8 DEF Next, HookStep, StartSession, EndSession
<1> QED
  BY <1>1, <1>9

\* The reader's steps leave the sessions as they are, and theirs are steps of SessionBinding.
LEMMA InspectStepsAre == [InspectNext]_<<vars, inspectVars>> => [Next]_vars
  BY DEF InspectNext, SessionsGoOn, ReadPointer, ReadBinding, ReadEnd, ReadHost, CheckHost,
         ReadPointerAgain, Goes

\* The clock of the hooks goes on.
LEMMA ClockForward == [Next]_vars => clock' \in {clock, clock + 1}
<1> SUFFICES ASSUME [Next]_vars PROVE clock' \in {clock, clock + 1}
  OBVIOUS
<1>1. CASE UNCHANGED vars
  BY <1>1 DEF vars
<1>2. ASSUME NEW h \in Hook, NEW action, NEW p, NEW r, NEW source, NEW obs \in {clock, clock + 1},
             Begin(h, action, p, r, source, obs)
      PROVE  clock' \in {clock, clock + 1}
  BY <1>2 DEF Begin
<1>3. ASSUME NEW p \in Process, ExitAgent(p)
      PROVE  clock' \in {clock, clock + 1}
  BY <1>3 DEF ExitAgent
<1>4. ASSUME NEW h \in Hook, HookStep(h)
      PROVE  clock' \in {clock, clock + 1}
  BY <1>4 DEF HookStep, ApplyBinding, WriteFile, ApplyEnd, RecordHost, KillHook
<1> QED
  BY <1>1, <1>2, <1>3, <1>4 DEF Next, StartSession, EndSession

\* A step of the agents or hooks keeps what the reader knows.
LEMMA GoOnStep ==
  ASSUME ReadInv, SessionsGoOn
  PROVE  ReadInv'
<1>1. SInv /\ SInv' /\ Next
  BY StepInv DEF ReadInv, SessionsGoOn
<1>2. read' = read /\ at' = at /\ vouched' = vouched /\ at \notin {"answered", "discarded"}
  BY DEF SessionsGoOn
<1>3. InspectTypeOK'
  <2>1. phases' \subseteq BOOLEAN
    <3>1. Ended(read.session)' \in BOOLEAN
      BY DEF Ended, EndsBinding
    <3> QED
      BY <3>1 DEF SessionsGoOn, ReadInv, InspectTypeOK
  <2>2. HostNow(read.session)' \subseteq Process
    <3>1. alive' \subseteq Process
      BY <1>1 DEF SInv, RecordsOK, TypeOK
    <3> QED
      BY <3>1 DEF HostNow
  <2>3. hosted' \subseteq Process
    BY <2>2 DEF SessionsGoOn, ReadInv, InspectTypeOK
  <2>4. read' \in [session : Session \cup {None}, binding : 0..clock', ended : BOOLEAN,
                 host : {None} \cup [owner : Process, contested : BOOLEAN]]
    <3>1. clock \in Nat /\ clock' \in Nat /\ clock' >= clock
      <4>1. clock' \in {clock, clock + 1}
        BY <1>1, ClockForward
      <4> QED
        BY <4>1, <1>1 DEF SInv, RecordsOK, TypeOK
    <3>2. 0..clock \subseteq 0..clock'
      BY <3>1
    <3> QED
      BY <1>2, <3>2 DEF ReadInv, InspectTypeOK
  <2> QED
    BY <1>2, <2>1, <2>3, <2>4 DEF ReadInv, InspectTypeOK
<1>4. CASE at = "pointer"
  BY <1>1, <1>2, <1>3, <1>4 DEF ReadInv, PhaseSoFar, HostSoFar
<1>5. CASE at # "pointer"
  <2>1. PICK s \in Session : s = read.session /\ s = read'.session
    BY <1>2, <1>5 DEF ReadInv, InspectTypeOK
  <2>2. /\ binding[s] \in Nat /\ binding'[s] \in Nat /\ binding'[s] >= binding[s]
        /\ end'[s] # end[s] => binding'[s] = binding[s] /\ end'[s].obs >= binding[s] /\ Ended(s)'
        /\ host'[s] # host[s] => pointer = s /\ pointer' = s
        /\ alive' \subseteq alive
    BY <1>1, SessionsForward
  <2>3. PhaseSoFar'
    <3>1. at \in {"binding", "end"} => binding'[s] # 0 /\ Ended(s)' \in phases' /\ phases \subseteq phases'
      BY <2>1, <2>2 DEF ReadInv, PhaseSoFar, SessionsGoOn
    <3>2. at \notin {"binding", "end"} => phases' = phases
      BY DEF SessionsGoOn
    <3>3. ASSUME at = "end"
          PROVE  binding'[s] >= read.binding /\ EndsBinding(end'[s], read.binding) \in phases'
      <4>1. read.binding \in Nat /\ binding[s] >= read.binding
        BY <2>1, <3>3, <1>1 DEF ReadInv, PhaseSoFar, InspectTypeOK, SInv, RecordsOK, TypeOK
      <4>2. CASE end'[s] = end[s]
        BY <2>1, <3>1, <3>3, <4>1, <4>2, <2>2 DEF ReadInv, PhaseSoFar
      <4>3. CASE end'[s] # end[s]
        <5>1. end'[s] # None /\ end'[s].obs \in Nat
          <6>1. end'[s] # None
            BY <2>2, <4>3 DEF Ended, EndsBinding
          <6>2. end'[s] \in {None} \cup [of : 1..clock', obs : 1..clock'] /\ clock' \in Nat
            BY <1>1 DEF SInv, RecordsOK, TypeOK
          <6> QED
            BY <6>1, <6>2
        <5>2. EndsBinding(end'[s], read.binding)
          BY <5>1, <4>1, <4>3, <2>2 DEF EndsBinding
        <5> QED
          BY <5>2, <4>1, <4>3, <2>2, <3>1, <3>3
      <4> QED
        BY <4>2, <4>3
    <3> QED
      BY <1>2, <2>1, <3>1, <3>2, <3>3 DEF ReadInv, PhaseSoFar
  <2>4. HostSoFar'
    <3>1. at \in {"binding", "end", "host"} => HostOf(s)' \subseteq hosted'
      <4>1. CASE host'[s] = host[s]
        <5>1. HostOf(s)' \subseteq HostOf(s)
          BY <4>1, <2>2 DEF HostOf
        <5> QED
          BY <2>1, <5>1 DEF ReadInv, HostSoFar, SessionsGoOn
      <4>2. CASE host'[s] # host[s]
        <5>1. HostOf(s)' \subseteq HostNow(s)'
          BY <4>2, <2>2 DEF HostOf, HostNow
        <5> QED
          BY <2>1, <5>1 DEF SessionsGoOn
      <4> QED
        BY <4>1, <4>2
    <3>2. hosted \subseteq hosted'
      BY DEF SessionsGoOn
    <3> QED
      BY <1>2, <2>1, <2>2, <3>1, <3>2 DEF ReadInv, HostSoFar
  <2> QED
    BY <1>1, <1>3, <2>3, <2>4 DEF ReadInv
<1> QED
  BY <1>4, <1>5

\* A step of the reader keeps what it knows.
LEMMA ReaderStep ==
  ASSUME ReadInv, ReadPointer \/ ReadBinding \/ ReadEnd \/ ReadHost \/ CheckHost \/ ReadPointerAgain
  PROVE  ReadInv'
<1>1. UNCHANGED vars
  BY DEF ReadPointer, ReadBinding, ReadEnd, ReadHost, CheckHost, ReadPointerAgain, Goes
<1>2. SInv'
  BY <1>1, StepInv DEF ReadInv
<1>3. \A s \in Session : HostOf(s)' = HostOf(s) /\ Ended(s)' = Ended(s)
  BY <1>1 DEF vars, HostOf, Ended
<1>4. /\ clock' = clock /\ clock \in Nat /\ binding' = binding /\ end' = end /\ alive' = alive
      /\ \A s \in Session : binding[s] \in 0..clock
      /\ \A s \in Session : host[s] \in {None} \cup [owner : Process, contested : BOOLEAN]
  BY <1>1 DEF vars, ReadInv, SInv, RecordsOK, TypeOK
<1> USE SessionAssumption DEF ReadInv, InspectTypeOK, PhaseSoFar, HostSoFar
<1>5. CASE ReadPointer
  <2>1. PICK s \in Session : s = pointer
    BY <1>5 DEF ReadPointer, SInv, RecordsOK, TypeOK
  <2>2. /\ at = "pointer" /\ at' = "binding" /\ vouched' = vouched /\ read' = [read EXCEPT !.session = s]
        /\ phases' = {Ended(s)} /\ hosted' = HostNow(s)
    BY <1>5, <2>1 DEF ReadPointer
  <2>3. read'.session = s /\ read' \in [session : Session \cup {None}, binding : 0..clock,
          ended : BOOLEAN, host : {None} \cup [owner : Process, contested : BOOLEAN]]
    BY <2>2
  <2>4. binding[s] # 0 /\ HostNow(s) = HostOf(s)
    BY <2>1 DEF SInv, RecordsOK, InterruptedCommitIsReadable, HostNow, HostOf
  <2>5. HostOf(s) \subseteq Process /\ Ended(s) \in BOOLEAN
    BY DEF HostOf, SInv, RecordsOK, TypeOK, Ended, EndsBinding
  <2> QED
    BY <1>2, <1>3, <1>4, <2>2, <2>3, <2>4, <2>5
<1>6. ASSUME at # "pointer"
      PROVE  \E s \in Session : s = read.session
  BY <1>6
<1>7. CASE ReadBinding
  <2>1. PICK s \in Session : s = read.session
    BY <1>6, <1>7 DEF ReadBinding, Goes
  <2>2. /\ at = "binding" /\ at' = "end" /\ read' = [read EXCEPT !.binding = binding[s]]
        /\ vouched' = vouched /\ phases' = phases /\ hosted' = hosted
    BY <1>7, <2>1 DEF ReadBinding, Goes
  <2>3. /\ read'.session = s /\ read'.binding = binding[s]
        /\ read' \in [session : Session \cup {None}, binding : 0..clock,
             ended : BOOLEAN, host : {None} \cup [owner : Process, contested : BOOLEAN]]
    BY <1>4, <2>1, <2>2
  <2>4. binding[s] # 0 /\ Ended(s) \in phases /\ Ended(s) = EndsBinding(end[s], binding[s])
    BY <2>1, <2>2 DEF Ended
  <2> QED
    BY <1>2, <1>3, <1>4, <2>1, <2>2, <2>3, <2>4
<1>8. CASE ReadEnd
  <2>1. PICK s \in Session : s = read.session
    BY <1>6, <1>8 DEF ReadEnd, Goes
  <2>2. PICK ended \in BOOLEAN : ended = EndsBinding(end[s], read.binding)
    BY DEF EndsBinding
  <2>3. /\ at = "end" /\ at' = IF ended THEN "again" ELSE "host"
        /\ read' = [read EXCEPT !.binding = 0, !.ended = ended]
        /\ vouched' = vouched /\ phases' = phases \cap {ended} /\ hosted' = IF ended THEN {} ELSE hosted
    BY <1>8, <2>1, <2>2 DEF ReadEnd, Goes
  <2>4. /\ read'.session = s /\ read'.ended = ended
        /\ read' \in [session : Session \cup {None}, binding : 0..clock,
             ended : BOOLEAN, host : {None} \cup [owner : Process, contested : BOOLEAN]]
    <3>1. [read EXCEPT !.binding = 0] \in [session : Session \cup {None}, binding : 0..clock,
             ended : BOOLEAN, host : {None} \cup [owner : Process, contested : BOOLEAN]]
      BY <1>4
    <3>2. read' = [[read EXCEPT !.binding = 0] EXCEPT !.ended = ended]
      BY <2>3
    <3>3. [read EXCEPT !.binding = 0].session = s
      BY <2>1
    <3> QED
      BY <3>1, <3>2, <3>3
  <2>5. ended \in phases
    BY <2>1, <2>2, <2>3
  <2>6. InspectTypeOK' /\ PhaseSoFar'
    BY <1>4, <2>1, <2>3, <2>4, <2>5
  <2>7. HostSoFar'
    BY <1>3, <2>1, <2>3, <2>4
  <2> QED
    BY <1>2, <2>6, <2>7
<1>9. CASE ReadHost
  <2>1. PICK s \in Session : s = read.session
    BY <1>6, <1>9 DEF ReadHost, Goes
  <2>2. /\ at = "host" /\ at' = "process" /\ read' = [read EXCEPT !.host = host[s]]
        /\ vouched' = vouched /\ phases' = phases /\ hosted' = hosted
    BY <1>9, <2>1 DEF ReadHost, Goes
  <2>3. /\ read'.session = s /\ read'.host = host[s] /\ read'.ended = read.ended
        /\ read' \in [session : Session \cup {None}, binding : 0..clock,
             ended : BOOLEAN, host : {None} \cup [owner : Process, contested : BOOLEAN]]
    BY <1>4, <2>1, <2>2
  <2>4. HostOf(s) \subseteq hosted
    BY <2>1, <2>2
  <2>5. host[s] # None /\ ~host[s].contested /\ host[s].owner \in alive => host[s].owner \in hosted
    BY <2>4 DEF HostOf
  <2> QED
    BY <1>2, <1>4, <2>2, <2>3, <2>5
<1>10. CASE CheckHost
  <2>1. /\ at = "process" /\ at' = "again" /\ read' = [read EXCEPT !.host = None]
        /\ vouched' = IF read.host # None /\ read.host.owner \in alive /\ ~ read.host.contested
                      THEN read.host.owner ELSE None
        /\ phases' = phases /\ hosted' = hosted \cap {vouched'}
    BY <1>10 DEF CheckHost, Goes
  <2>2. /\ read'.session = read.session /\ read'.ended = read.ended
        /\ read' \in [session : Session \cup {None}, binding : 0..clock,
             ended : BOOLEAN, host : {None} \cup [owner : Process, contested : BOOLEAN]]
    BY <1>4, <2>1
  <2>3. vouched' # None => vouched' \in hosted /\ vouched' \in Process
    BY <2>1
  <2> QED
    BY <1>2, <1>4, <2>1, <2>2, <2>3
<1>11. CASE ReadPointerAgain
  <2>1. /\ at = "again" /\ at' \in {"answered", "discarded"}
        /\ read' = read /\ vouched' = vouched /\ phases' = phases /\ hosted' = hosted
    BY <1>11 DEF ReadPointerAgain, Goes
  <2> QED
    BY <1>2, <1>4, <2>1
<1> QED
  BY <1>5, <1>7, <1>8, <1>9, <1>10, <1>11

\* What an inspection answers of the phase and of the process was so while it read, though
\* it takes no lock and reads its records one after another (query.rs, check_host).
THEOREM InspectionsWereRight == InspectSpec => [](RecordsOK /\ InspectionWasRight)
<1>1. InspectInit => ReadInv
  BY InitInv DEF InspectInit, ReadInv, InspectTypeOK, PhaseSoFar, HostSoFar, Unread, Init, SInv, RecordsOK, TypeOK
<1>2. ReadInv /\ [InspectNext]_<<vars, inspectVars>> => ReadInv'
  <2> SUFFICES ASSUME ReadInv, [InspectNext]_<<vars, inspectVars>> PROVE ReadInv'
    OBVIOUS
  <2>1. CASE UNCHANGED <<vars, inspectVars>>
    <3>1. SInv'
      BY <2>1, StepInv DEF ReadInv
    <3>2. (InspectTypeOK /\ PhaseSoFar /\ HostSoFar)'
      BY <2>1 DEF ReadInv, InspectTypeOK, PhaseSoFar, HostSoFar, HostOf, Ended, vars, inspectVars
    <3> QED
      BY <3>1, <3>2 DEF ReadInv
  <2>2. CASE InspectNext
    BY <2>2, GoOnStep, ReaderStep DEF InspectNext
  <2> QED
    BY <2>1, <2>2
<1>3. ReadInv => RecordsOK /\ InspectionWasRight
  BY DEF ReadInv, SInv, InspectionWasRight, PhaseWasRight, VouchedWasHost, PhaseSoFar, HostSoFar
<1> QED
  BY <1>1, <1>2, <1>3, PTL DEF InspectSpec

\* What holds of the sessions holds of them beside a reader.
LEMMA InspectIsSessions == InspectSpec => Spec
  BY InspectStepsAre, PTL DEF InspectSpec, InspectInit, Spec
=============================================================================
