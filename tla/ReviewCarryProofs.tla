-------------------------- MODULE ReviewCarryProofs --------------------------
(***************************************************************************)
(* Proofs about ReviewCarry, for any number of panes, launches, hooks,    *)
(* presses and readings of the clock.  Only the holder of the session's registration   *)
(* lock has found or moves a flag; what it found stays the newest binding, *)
(* for bindings are written under that lock; and a flag it consumed is on  *)
(* no pane until it is written, so that nobody can withdraw it meanwhile.  *)
(***************************************************************************)
EXTENDS ReviewCarry, FiniteSetTheorems, TLAPS

-----------------------------------------------------------------------------
(***************************************************************************)
(* The inductive invariant.                                                *)
(***************************************************************************)
\* One registration of the session at a time looks for its prior binding and carries.
OneRegisters == \A h \in Hook : hooks[h].at \in {"found", "moving"} => session = h

\* What was found is the session's newest binding, and the only one of its clock reading.
FoundOK(e) ==
  e.prior # None =>
    /\ PaneOf(e.prior) # PaneOf(e.dest) /\ e.seen = bound[e.prior]
    /\ \A b \in Binding \ {e.prior} : bound[b] < bound[e.prior]

\* The pane a carry takes its flag from: retired, still showing the session, and the newest
\* but for the carry's own; the flag is there, or with the carry and nowhere else.
MovingOK(e) ==
  /\ PaneOf(e.prior) # PaneOf(e.dest)
  /\ \A b \in Binding \ {e.dest, e.prior} : bound[b] < bound[e.prior]
  /\ Retired(PaneOf(e.prior)) /\ <<PaneOf(e.prior), claim[PaneOf(e.prior)]>> \in selected
  /\ e.carried = 0 => flag[PaneOf(e.prior)] # 0
  /\ e.carried # 0 => e.carried \notin withdrawn /\ \A p \in Pane : flag[p] # e.carried

CarryInv ==
  /\ FlagsOK /\ OneRegisters
  /\ \A h \in Hook : hooks[h].at = "found" => FoundOK(hooks[h])
  /\ \A h \in Hook : hooks[h].at = "moving" => MovingOK(hooks[h])

-----------------------------------------------------------------------------
\* The pane of a binding, and the binding of a pane and a launch.
LEMMA BindingForm ==
  /\ \A b \in Binding : PaneOf(b) \in Pane
  /\ \A p \in Pane, launch \in Launch : <<p, launch>> \in Binding
BY DEF Binding, PaneOf

\* The forms of a hook.
LEMMA HookForm ==
  ASSUME TypeOK, NEW h \in Hook
  PROVE  /\ hooks[h].at \in {"idle", "begun", "found", "moving"}
         /\ hooks[h].at = "idle" => hooks[h] = Idle
         /\ hooks[h].at = "begun" => hooks[h] \in Begun
         /\ hooks[h].at = "found" => hooks[h] \in Found
         /\ hooks[h].at = "moving" => hooks[h] \in Moving
<1>1. hooks[h] \in {Idle} \cup Begun \cup Found \cup Moving
  BY DEF TypeOK
<1> QED
  BY <1>1 DEF Idle, Begun, Found, Moving

\* Hooks keep their form as the clock and the number of presses grow.
LEMMA FormsGrow ==
  ASSUME CarryAssumption, TypeOK, time' \in Nat, time <= time', acts' \in Nat, acts <= acts'
  PROVE  Begun \subseteq Begun' /\ Found \subseteq Found' /\ Moving \subseteq Moving'
<1>1. 1..time \subseteq 1..time' /\ 0..time \subseteq 0..time' /\ 0..acts \subseteq 0..acts'
  BY DEF TypeOK, CarryAssumption
<1> QED
  BY <1>1 DEF Begun, Found, Moving

\* The prior binding that is found is the newest one, and the only one of its clock reading.
LEMMA PriorIsNewest ==
  ASSUME CarryAssumption, TypeOK, NEW p \in Pane, NEW b \in Prior(p)
  PROVE  b \in Binding /\ PaneOf(b) # p /\ \A c \in Binding \ {b} : bound[c] < bound[b]
<1>1. Cardinality(Newest) = 1 /\ b \in Newest /\ PaneOf(b) # p
  BY DEF Prior
<1>2. IsFiniteSet(Newest)
  BY FS_Subset DEF CarryAssumption, Newest, Binding
<1>3. PICK x : Newest = {x}
  BY <1>1, <1>2, FS_Singleton
<1>4. \A c \in Newest : c = b
  BY <1>1, <1>3
<1>5. b \in Binding /\ bound[b] # 0 /\ \A c \in Binding : bound[c] <= bound[b]
  BY <1>1 DEF Newest
<1>6. ASSUME NEW c \in Binding, c # b
      PROVE  bound[c] < bound[b]
  <2>1. bound \in [Binding -> Int]
    BY DEF TypeOK, CarryAssumption
  <2>2. SUFFICES ASSUME bound[c] = bound[b]
                 PROVE  FALSE
    BY <1>5, <1>6, <2>1
  <2>3. c \in Newest
    BY <1>5, <2>2 DEF Newest
  <2> QED
    BY <1>4, <1>6, <2>3
<1> QED
  BY <1>1, <1>5, <1>6

\* The pane a carry takes its flag from is locked, as is the one it brings it to.
LEMMA MovingLocks ==
  ASSUME NEW h \in Hook, hooks[h].at = "moving"
  PROVE  PaneOf(hooks[h].dest) \in Locked /\ PaneOf(hooks[h].prior) \in Locked
BY DEF Locked

-----------------------------------------------------------------------------
(***************************************************************************)
(* The steps.                                                              *)
(***************************************************************************)
\* The records and the hooks keep their form.
LEMMA TypeStep ==
  ASSUME CarryInv, [Next]_vars
  PROVE  TypeOK'
<1> USE CarryAssumption DEF CarryInv, FlagsOK, CarryAssumption
<1>1. CASE UNCHANGED vars
  BY <1>1 DEF vars, TypeOK, Begun, Found, Moving
<1>2. ASSUME NEW p \in Pane, SetReview(p)
      PROVE  TypeOK'
  <2>1. acts' \in 0..MaxActs /\ acts <= acts' /\ acts' \in Nat /\ time' = time /\ time \in Nat
    BY <1>2 DEF SetReview, TypeOK
  <2>2. Begun \subseteq Begun' /\ Found \subseteq Found' /\ Moving \subseteq Moving'
    BY <2>1, FormsGrow
  <2>3. flag' \in [Pane -> 0..acts'] /\ withdrawn' \subseteq 1..acts'
    BY <1>2, <2>1 DEF SetReview, PutFlag, TypeOK
  <2> QED
    BY <1>2, <2>1, <2>2, <2>3 DEF SetReview, TypeOK
<1>3. ASSUME NEW p \in Pane, ClearReview(p)
      PROVE  TypeOK'
  <2>1. flag[p] \in 1..acts
    BY <1>3 DEF ClearReview, TypeOK
  <2>2. withdrawn' = withdrawn \cup {flag[p]} /\ flag' = [flag EXCEPT ![p] = 0] /\ 0 \in 0..acts
    BY <1>3 DEF ClearReview, PutFlag, TypeOK
  <2>3. Begun' = Begun /\ Found' = Found /\ Moving' = Moving
    BY <1>3 DEF ClearReview, Begun, Found, Moving
  <2> QED
    BY <1>3, <2>1, <2>2, <2>3 DEF ClearReview, TypeOK
<1>4. ASSUME NEW p \in Pane, SelectOther(p) \/ \E launch \in Launch : TakePane(p, launch)
      PROVE  TypeOK'
  <2>1. takes' \in 0..MaxTakes /\ claim' \in [Pane -> Launch] /\ selected' \subseteq Binding
    BY <1>4 DEF SelectOther, TakePane, TypeOK
  <2> QED
    BY <1>4, <2>1 DEF SelectOther, TakePane, TypeOK, Begun, Found, Moving
<1>5. ASSUME NEW p \in Pane, NEW state \in {"touched", "lost"}, ChangeSocket(p, state)
      PROVE  TypeOK'
  BY <1>5 DEF ChangeSocket, TypeOK, Begun, Found, Moving
<1>6. ASSUME NEW h \in Hook, NEW p \in Pane, NEW now \in {time, time + 1} \cap 1..MaxTime, Begin(h, p, now)
      PROVE  TypeOK'
  <2> DEFINE to == [at |-> "begun", dest |-> <<p, claim[p]>>, written |-> now]
  <2>1. time' = now /\ time <= time' /\ time' \in Nat /\ acts' = acts /\ acts \in Nat
    BY <1>6 DEF Begin, TypeOK
  <2>2. Begun \subseteq Begun' /\ Found \subseteq Found' /\ Moving \subseteq Moving'
    BY <2>1, FormsGrow
  <2>3. to \in Begun'
    BY <2>1, BindingForm DEF Begun, TypeOK
  <2>4. hooks' = [hooks EXCEPT ![h] = to]
    BY <1>6 DEF Begin
  <2> HIDE DEF to
  <2>5. hooks' \in [Hook -> {Idle} \cup Begun' \cup Found' \cup Moving']
    BY <2>2, <2>3, <2>4 DEF TypeOK
  <2>6. bound' \in [Binding -> 0..time']
    <3>1. bound' = bound /\ 0..time \subseteq 0..time'
      BY <1>6, <2>1 DEF Begin, TypeOK
    <3> QED
      BY <3>1 DEF TypeOK
  <2> QED
    BY <1>6, <2>1, <2>5, <2>6 DEF Begin, TypeOK
<1>7. ASSUME NEW h \in Hook, NEW source \in {"resume", "startup"}, FindPrior(h, source)
      PROVE  TypeOK'
  <2>1. hooks[h] \in Begun
    BY <1>7, HookForm DEF FindPrior
  <2> DEFINE found == IF source = "resume" THEN Prior(PaneOf(hooks[h].dest)) ELSE {}
  <2>2. PICK b \in (IF found = {} THEN {None} ELSE found) :
          hooks' = [hooks EXCEPT ![h] =
                      [at |-> "found", dest |-> hooks[h].dest, written |-> hooks[h].written, prior |-> b,
                       seen |-> IF b = None THEN 0 ELSE bound[b]]]
    BY <1>7 DEF FindPrior
  <2>3. b \in Binding \cup {None}
    BY DEF Prior, Newest
  <2> HIDE DEF found
  <2> DEFINE to == [at |-> "found", dest |-> hooks[h].dest, written |-> hooks[h].written, prior |-> b,
                    seen |-> IF b = None THEN 0 ELSE bound[b]]
  <2>4. hooks[h].dest \in Binding /\ hooks[h].written \in 1..time
    BY <2>1 DEF Begun
  <2>5. (IF b = None THEN 0 ELSE bound[b]) \in 0..time
    BY <2>3 DEF TypeOK
  <2>6. to \in Found
    BY <2>3, <2>4, <2>5 DEF Found
  <2>7. hooks' = [hooks EXCEPT ![h] = to]
    BY <2>2
  <2> HIDE DEF to
  <2>8. Begun' = Begun /\ Found' = Found /\ Moving' = Moving
    BY <1>7 DEF FindPrior, Begun, Found, Moving
  <2> QED
    BY <1>7, <2>6, <2>7, <2>8 DEF FindPrior, TypeOK
<1>8. ASSUME NEW h \in Hook, Finish(h), UNCHANGED <<time, socket, claim, takes, acts>>,
             bound' \in [Binding -> 0..time], selected' \subseteq Binding, flag' \in [Pane -> 0..acts],
             withdrawn' = withdrawn
      PROVE  TypeOK'
  BY <1>8 DEF Finish, TypeOK, Begun, Found, Moving
<1>9. ASSUME NEW h \in Hook, Register(h)
      PROVE  TypeOK'
  <2> DEFINE e == hooks[h]
  <2>1. e \in Found
    BY <1>9, HookForm DEF Register
  <2>2. e.dest \in Binding /\ e.written \in 1..time /\ e.prior \in Binding \cup {None}
    BY <2>1 DEF Found
  <2>3. bound' \in [Binding -> 0..time] /\ selected' \subseteq Binding
    BY <1>9, <2>2 DEF Register, TypeOK
  <2>4. CASE Finish(h)
    BY <1>8, <1>9, <2>3, <2>4 DEF Register, TypeOK
  <2>5. CASE Carries(e) /\ session' = session /\
             hooks' = [hooks EXCEPT ![h] = [at |-> "moving", dest |-> e.dest, prior |-> e.prior, carried |-> 0]]
    <3> DEFINE to == [at |-> "moving", dest |-> e.dest, prior |-> e.prior, carried |-> 0]
    <3>1. to \in Moving
      BY <2>2, <2>5 DEF Carries, Moving, TypeOK
    <3>2. hooks' = [hooks EXCEPT ![h] = to]
      BY <2>5
    <3> HIDE DEF to
    <3>3. Begun' = Begun /\ Found' = Found /\ Moving' = Moving
      BY <1>9 DEF Register, Begun, Found, Moving
    <3> QED
      BY <1>9, <2>3, <2>5, <3>1, <3>2, <3>3 DEF Register, TypeOK
  <2> QED
    BY <1>9, <2>4, <2>5 DEF Register
<1>10. ASSUME NEW h \in Hook, RefuseStart(h) \/ Fail(h)
       PROVE  TypeOK'
  BY <1>8, <1>10 DEF RefuseStart, Fail, TypeOK
<1>11. ASSUME NEW h \in Hook, Consume(h)
       PROVE  TypeOK'
  <2>1. hooks[h] \in Moving /\ PaneOf(hooks[h].prior) \in Pane
    BY <1>11, HookForm, BindingForm DEF Consume, Moving
  <2> DEFINE to == [hooks[h] EXCEPT !.carried = flag[PaneOf(hooks[h].prior)]]
  <2>2. to \in Moving
    BY <2>1 DEF Moving, TypeOK
  <2>3. hooks' = [hooks EXCEPT ![h] = to]
    BY <1>11 DEF Consume
  <2> HIDE DEF to
  <2>4. Begun' = Begun /\ Found' = Found /\ Moving' = Moving
    BY <1>11 DEF Consume, Begun, Found, Moving
  <2> QED
    BY <1>11, <2>1, <2>2, <2>3, <2>4 DEF Consume, TypeOK
<1>12. ASSUME NEW h \in Hook, Replace(h)
       PROVE  TypeOK'
  <2>1. hooks[h] \in Moving
    BY <1>12, HookForm DEF Replace
  <2>2. PaneOf(hooks[h].dest) \in Pane /\ hooks[h].carried \in 0..acts
    BY <2>1, BindingForm DEF Moving
  <2>3. flag' \in [Pane -> 0..acts]
    BY <1>12, <2>2 DEF Replace, FlagWith, TypeOK
  <2> QED
    BY <1>8, <1>12, <2>3 DEF Replace, TypeOK
<1> QED
  BY <1>1, <1>2, <1>3, <1>4, <1>5, <1>6, <1>7, <1>9, <1>10, <1>11, <1>12 DEF Next

\* A hook that ends leaves nobody with the session's lock.
LEMMA NobodyAfter ==
  ASSUME CarryInv, NEW h \in Hook, hooks[h].at \in {"found", "moving"}, Finish(h)
  PROVE  \A k \in Hook : hooks'[k].at \notin {"found", "moving"}
<1>1. hooks'[h] = Idle /\ \A k \in Hook \ {h} : hooks'[k] = hooks[k]
  BY DEF Finish, CarryInv, FlagsOK, TypeOK
<1>2. \A k \in Hook \ {h} : hooks[k].at \notin {"found", "moving"}
  BY DEF CarryInv, OneRegisters
<1> QED
  BY <1>1, <1>2 DEF Idle

\* What one hook found or moves is the only such thing.
LEMMA OnlyOne ==
  ASSUME CarryInv, NEW h \in Hook, hooks[h].at \in {"found", "moving"}, NEW to, session' = session,
         hooks' = [hooks EXCEPT ![h] = to]
  PROVE  /\ hooks'[h] = to
         /\ \A k \in Hook \ {h} : hooks'[k].at \notin {"found", "moving"}
         /\ OneRegisters'
<1>1. hooks'[h] = to /\ \A k \in Hook \ {h} : hooks'[k] = hooks[k]
  BY DEF CarryInv, FlagsOK, TypeOK
<1>2. \A k \in Hook \ {h} : hooks[k].at \notin {"found", "moving"}
  BY DEF CarryInv, OneRegisters
<1> QED
  BY <1>1, <1>2 DEF CarryInv, OneRegisters

\* Each press stays on one pane, and withdrawn ones on none.
LEMMA PressStep ==
  ASSUME CarryInv, [Next]_vars
  PROVE  OneFlagPerPress'
<1> USE CarryAssumption DEF CarryInv, FlagsOK
<1>1. ASSUME UNCHANGED <<flag, withdrawn>>
      PROVE  OneFlagPerPress'
  BY <1>1 DEF OneFlagPerPress
<1>2. ASSUME NEW p \in Pane, SetReview(p)
      PROVE  OneFlagPerPress'
  <2>1. flag' = [flag EXCEPT ![p] = acts + 1] /\ withdrawn' = withdrawn
    BY <1>2 DEF SetReview, PutFlag
  <2>2. \A q \in Pane : flag[q] # acts + 1
    BY DEF TypeOK, CarryAssumption
  <2>3. acts + 1 \notin withdrawn
    BY DEF TypeOK, CarryAssumption
  <2> QED
    BY <2>1, <2>2, <2>3 DEF OneFlagPerPress, TypeOK
<1>3. ASSUME NEW p \in Pane, ClearReview(p)
      PROVE  OneFlagPerPress'
  <2>1. flag' = [flag EXCEPT ![p] = 0] /\ withdrawn' = withdrawn \cup {flag[p]} /\ flag[p] # 0
    BY <1>3 DEF ClearReview, PutFlag
  <2>2. 0 \notin withdrawn'
    BY <2>1 DEF TypeOK, CarryAssumption
  <2> QED
    BY <2>1, <2>2 DEF OneFlagPerPress, TypeOK
<1>4. ASSUME NEW h \in Hook, Consume(h)
      PROVE  OneFlagPerPress'
  <2>1. flag' = [flag EXCEPT ![PaneOf(hooks[h].prior)] = 0] /\ withdrawn' = withdrawn
    BY <1>4 DEF Consume
  <2>2. 0 \notin withdrawn
    BY DEF TypeOK, CarryAssumption
  <2> QED
    BY <2>1, <2>2 DEF OneFlagPerPress, TypeOK
<1>5. ASSUME NEW h \in Hook, Replace(h)
      PROVE  OneFlagPerPress'
  <2> DEFINE e == hooks[h]
  <2>1. /\ flag' = [flag EXCEPT ![PaneOf(e.dest)] = FlagWith(flag[PaneOf(e.dest)], e.carried)]
        /\ withdrawn' = withdrawn /\ e.at = "moving" /\ e.carried # 0
    BY <1>5 DEF Replace
  <2>2. e.carried \notin withdrawn /\ \A p \in Pane : flag[p] # e.carried
    BY <2>1 DEF MovingOK
  <2>3. flag \in [Pane -> 0..acts]
    BY DEF TypeOK
  <2> HIDE DEF e
  <2> QED
    BY <2>1, <2>2, <2>3 DEF OneFlagPerPress, FlagWith
<1>6. ASSUME NEW h \in Hook, Register(h)
      PROVE  UNCHANGED <<flag, withdrawn>>
  BY <1>6 DEF Register
<1> QED
  BY <1>1, <1>2, <1>3, <1>4, <1>5, <1>6
  DEF Next, vars, SelectOther, TakePane, ChangeSocket, Begin, FindPrior, RefuseStart, Fail

\* Only the holder of the session's lock looks for the prior binding and carries, what it
\* found stays the newest binding, and what it moves is where the carry needs it.
LEMMA CarryStep ==
  ASSUME CarryInv, [Next]_vars
  PROVE  /\ OneRegisters'
         /\ \A h \in Hook : hooks'[h].at = "found" => FoundOK(hooks[h])'
         /\ \A h \in Hook : hooks'[h].at = "moving" => MovingOK(hooks[h])'
<1> DEFINE Rest == /\ OneRegisters'
                   /\ \A h \in Hook : hooks'[h].at = "found" => FoundOK(hooks[h])'
                   /\ \A h \in Hook : hooks'[h].at = "moving" => MovingOK(hooks[h])'
<1> USE CarryAssumption DEF CarryInv, FlagsOK
<1>1. CASE UNCHANGED vars
  BY <1>1 DEF vars, OneRegisters, FoundOK, MovingOK, Retired
<1>2. ASSUME NEW h \in Hook, hooks[h].at \in {"found", "moving"}, Finish(h)
      PROVE  Rest
  BY <1>2, NobodyAfter DEF OneRegisters
<1>3. ASSUME UNCHANGED <<hooks, session, bound>>,
             \A h \in Hook : hooks[h].at = "moving" => MovingOK(hooks[h])'
      PROVE  Rest
  BY <1>3 DEF OneRegisters, FoundOK
<1>4. ASSUME NEW h \in Hook, hooks[h].at = "moving"
      PROVE  /\ PaneOf(hooks[h].prior) \in Pane /\ PaneOf(hooks[h].prior) \in Locked
             /\ hooks[h].carried \in 0..acts /\ MovingOK(hooks[h])
  BY <1>4, HookForm, MovingLocks, BindingForm DEF Moving
<1>5. ASSUME NEW p \in Pane,
             \/ SetReview(p) \/ ClearReview(p) \/ SelectOther(p)
             \/ \E launch \in Launch : TakePane(p, launch)
      PROVE  Rest
  <2>1. UNCHANGED <<hooks, session, bound, socket>>
    BY <1>5 DEF SetReview, ClearReview, SelectOther, TakePane
  <2>2. ASSUME NEW h \in Hook, hooks[h].at = "moving"
        PROVE  MovingOK(hooks[h])'
    <3> DEFINE e == hooks[h]
               s == PaneOf(e.prior)
    <3>1. s # p /\ s \in Pane /\ MovingOK(e) /\ e.carried \in 0..acts
      BY <1>4, <1>5, <2>2 DEF SetReview, ClearReview, SelectOther, TakePane
    <3>2. flag'[s] = flag[s] /\ <<s, claim'[s]>> \in selected'
      BY <1>5, <3>1 DEF SetReview, ClearReview, SelectOther, TakePane, PutFlag, TypeOK, MovingOK
    <3>3. ASSUME e.carried # 0
          PROVE  e.carried \notin withdrawn' /\ \A q \in Pane : flag'[q] # e.carried
      <4>1. e.carried \notin withdrawn /\ \A q \in Pane : flag[q] # e.carried
        BY <3>1, <3>3 DEF MovingOK
      <4>2. CASE SetReview(p)
        <5>1. flag' = [flag EXCEPT ![p] = acts + 1] /\ withdrawn' = withdrawn /\ e.carried # acts + 1
          BY <3>1, <4>2 DEF SetReview, PutFlag, TypeOK, CarryAssumption
        <5> QED
          BY <4>1, <5>1 DEF TypeOK
      <4>3. CASE ClearReview(p)
        BY <3>3, <4>1, <4>3 DEF ClearReview, PutFlag, TypeOK
      <4>4. CASE SelectOther(p) \/ \E launch \in Launch : TakePane(p, launch)
        BY <4>1, <4>4 DEF SelectOther, TakePane
      <4> QED
        BY <1>5, <4>2, <4>3, <4>4
    <3> QED
      BY <2>1, <3>1, <3>2, <3>3 DEF MovingOK, Retired
  <2> QED
    BY <1>3, <2>1, <2>2
<1>6. ASSUME NEW p \in Pane, NEW state \in {"touched", "lost"}, ChangeSocket(p, state)
      PROVE  Rest
  <2>1. \A q \in Pane : Retired(q) => Retired(q)'
    BY <1>6 DEF ChangeSocket, Retired, TypeOK
  <2>2. UNCHANGED <<hooks, session, claim, bound, selected, flag, withdrawn>>
    BY <1>6 DEF ChangeSocket
  <2>3. \A h \in Hook : hooks[h].at = "moving" => MovingOK(hooks[h])'
    BY <1>4, <2>1, <2>2 DEF MovingOK
  <2> QED
    BY <1>3, <2>2, <2>3
<1>7. ASSUME NEW h \in Hook, NEW p \in Pane, NEW now \in {time, time + 1} \cap 1..MaxTime, Begin(h, p, now)
      PROVE  Rest
  <2>1. UNCHANGED <<session, claim, bound, selected, flag, withdrawn, socket>>
    BY <1>7 DEF Begin
  <2>2. hooks'[h].at = "begun" /\ \A k \in Hook \ {h} : hooks'[k] = hooks[k]
    BY <1>7 DEF Begin, TypeOK
  <2> QED
    BY <2>1, <2>2 DEF OneRegisters, FoundOK, MovingOK, Retired
<1>8. ASSUME NEW h \in Hook, NEW source \in {"resume", "startup"}, FindPrior(h, source)
      PROVE  Rest
  <2>1. hooks[h] \in Begun /\ PaneOf(hooks[h].dest) \in Pane
    BY <1>8, HookForm, BindingForm DEF FindPrior, Begun
  <2> DEFINE found == IF source = "resume" THEN Prior(PaneOf(hooks[h].dest)) ELSE {}
  <2>2. PICK b \in (IF found = {} THEN {None} ELSE found) :
          hooks' = [hooks EXCEPT ![h] =
                      [at |-> "found", dest |-> hooks[h].dest, written |-> hooks[h].written, prior |-> b,
                       seen |-> IF b = None THEN 0 ELSE bound[b]]]
    BY <1>8 DEF FindPrior
  <2>3. b # None => b \in Prior(PaneOf(hooks[h].dest))
    OBVIOUS
  <2> HIDE DEF found
  <2> DEFINE to == [at |-> "found", dest |-> hooks[h].dest, written |-> hooks[h].written, prior |-> b,
                    seen |-> IF b = None THEN 0 ELSE bound[b]]
  <2>4. FoundOK(to)
    BY <2>1, <2>3, PriorIsNewest DEF FoundOK
  <2>5. to.at = "found"
    OBVIOUS
  <2>6. hooks' = [hooks EXCEPT ![h] = to]
    BY <2>2
  <2> HIDE DEF to
  <2>7. \A k \in Hook : hooks[k].at \notin {"found", "moving"}
    BY <1>8 DEF FindPrior, OneRegisters
  <2>8. hooks'[h] = to /\ \A k \in Hook \ {h} : hooks'[k] = hooks[k]
    BY <2>6 DEF TypeOK
  <2>9. session' = h /\ bound' = bound
    BY <1>8 DEF FindPrior
  <2>10. FoundOK(hooks[h])'
    BY <2>4, <2>8, <2>9 DEF FoundOK
  <2> QED
    BY <2>5, <2>7, <2>8, <2>9, <2>10 DEF OneRegisters
<1>9. ASSUME NEW h \in Hook, Register(h)
      PROVE  Rest
  <2> DEFINE e == hooks[h]
  <2>1. e.at = "found" /\ e \in Found /\ FoundOK(e)
    BY <1>9, HookForm DEF Register, Found
  <2>2. CASE Finish(h)
    BY <1>2, <2>1, <2>2
  <2> DEFINE to == [at |-> "moving", dest |-> e.dest, prior |-> e.prior, carried |-> 0]
  <2>3. CASE Carries(e) /\ session' = session /\ hooks' = [hooks EXCEPT ![h] = to]
    <3>1. /\ hooks'[h] = to
          /\ \A k \in Hook \ {h} : hooks'[k].at \notin {"found", "moving"}
          /\ OneRegisters'
      BY <2>1, <2>3, OnlyOne
    <3>2. /\ e.prior # None /\ Retired(PaneOf(e.prior)) /\ e.prior \in selected
          /\ flag[PaneOf(e.prior)] # 0 /\ e.prior = <<PaneOf(e.prior), claim[PaneOf(e.prior)]>>
      BY <2>3 DEF Carries
    <3>3. \A b \in Binding \ {e.dest} : bound'[b] = bound[b]
      BY <1>9 DEF Register, TypeOK
    <3>4. e.prior \in Binding /\ PaneOf(e.prior) # PaneOf(e.dest)
      BY <2>1, <3>2 DEF Found, FoundOK
    <3>5. \A b \in Binding \ {e.dest, e.prior} : bound'[b] < bound'[e.prior]
      BY <2>1, <3>2, <3>3, <3>4 DEF FoundOK
    <3>6. selected \subseteq selected' /\ UNCHANGED <<claim, flag, socket>>
      BY <1>9 DEF Register
    <3>7. MovingOK(hooks[h])'
      BY <3>1, <3>2, <3>4, <3>5, <3>6 DEF MovingOK, Retired
    <3> QED
      BY <3>1, <3>7
  <2> QED
    BY <1>9, <2>2, <2>3 DEF Register
<1>10. ASSUME NEW h \in Hook, RefuseStart(h) \/ Replace(h) \/ Fail(h)
       PROVE  Rest
  <2>1. hooks[h].at \in {"found", "moving"} /\ Finish(h)
    BY <1>10 DEF RefuseStart, Replace, Fail
  <2> QED
    BY <1>2, <2>1
<1>11. ASSUME NEW h \in Hook, Consume(h)
       PROVE  Rest
  <2> DEFINE e == hooks[h]
             to == [e EXCEPT !.carried = flag[PaneOf(e.prior)]]
  <2>1. e \in Moving /\ e.at = "moving" /\ e.carried = 0 /\ MovingOK(e) /\ PaneOf(e.prior) \in Pane
    BY <1>11, HookForm, BindingForm DEF Consume, Moving
  <2>2. /\ to.at = "moving" /\ to.dest = e.dest /\ to.prior = e.prior
        /\ to.carried = flag[PaneOf(e.prior)]
    BY <2>1 DEF Moving
  <2>3. hooks' = [hooks EXCEPT ![h] = to] /\ session' = session
    BY <1>11 DEF Consume
  <2> HIDE DEF to
  <2>4. /\ hooks'[h] = to
        /\ \A k \in Hook \ {h} : hooks'[k].at \notin {"found", "moving"}
        /\ OneRegisters'
    BY <2>1, <2>3, OnlyOne
  <2>5. flag' = [flag EXCEPT ![PaneOf(e.prior)] = 0] /\ UNCHANGED <<claim, bound, selected, socket, withdrawn>>
    BY <1>11 DEF Consume
  <2>6. flag[PaneOf(e.prior)] # 0 /\ flag[PaneOf(e.prior)] \notin withdrawn
    BY <2>1 DEF MovingOK, OneFlagPerPress
  <2>7. \A p \in Pane : flag'[p] # flag[PaneOf(e.prior)]
    BY <2>1, <2>5, <2>6 DEF OneFlagPerPress, TypeOK
  <2>8. MovingOK(hooks[h])'
    BY <2>1, <2>2, <2>4, <2>5, <2>6, <2>7 DEF MovingOK, Retired
  <2> QED
    BY <2>2, <2>4, <2>8
<1> QED
  BY <1>1, <1>5, <1>6, <1>7, <1>8, <1>9, <1>10, <1>11 DEF Next

-----------------------------------------------------------------------------
(***************************************************************************)
(* The theorems.                                                           *)
(***************************************************************************)
\* The invariant holds of every behaviour.
LEMMA CarryInvariant == Spec => []CarryInv
<1>1. Init => CarryInv
  BY CarryAssumption
  DEF Init, CarryInv, CarryAssumption, FlagsOK, TypeOK, OneFlagPerPress, OneRegisters, Idle
<1>2. CarryInv /\ [Next]_vars => CarryInv'
  BY TypeStep, PressStep, CarryStep DEF CarryInv, FlagsOK
<1> QED
  BY <1>1, <1>2, PTL DEF Spec

\* A press of the review key is on one pane at most and a withdrawn one on none, however
\* registrations race, carry and die (FlagsOK; plan_flag, consume_review_before_replace).
THEOREM OnePanePerPress == Spec => []FlagsOK
<1>1. CarryInv => FlagsOK
  BY DEF CarryInv
<1> QED
  BY <1>1, CarryInvariant, PTL

\* A flag the user leaves alone is never replaced, and leaves its pane only once the pane's
\* server is gone and while the launch that claims the pane still shows the session
\* (ResumeReview::prepare).
THEOREM LivePanesKeepTheirFlags == Spec => LivePaneKeepsItsFlag
<1>1. CarryInv /\ [Next]_vars =>
        [\A p \in Pane :
           flag[p] # 0 /\ flag'[p] # flag[p] /\ acts' = acts /\ withdrawn' = withdrawn =>
             flag'[p] = 0 /\ socket[p] = "lost" /\ <<p, claim[p]>> \in selected]_vars
  <2> DEFINE Kept == \A p \in Pane :
         flag[p] # 0 /\ flag'[p] # flag[p] /\ acts' = acts /\ withdrawn' = withdrawn =>
           flag'[p] = 0 /\ socket[p] = "lost" /\ <<p, claim[p]>> \in selected
  <2> SUFFICES ASSUME CarryInv, Next
               PROVE  Kept
    OBVIOUS
  <2> USE CarryAssumption DEF CarryInv, FlagsOK
  <2>1. ASSUME flag' = flag
        PROVE  Kept
    BY <2>1
  <2>2. ASSUME NEW p \in Pane, SetReview(p)
        PROVE  Kept
    BY <2>2 DEF SetReview, TypeOK, CarryAssumption
  <2>3. ASSUME NEW p \in Pane, ClearReview(p)
        PROVE  Kept
    BY <2>3 DEF ClearReview, OneFlagPerPress
  <2>4. ASSUME NEW h \in Hook, Consume(h)
        PROVE  Kept
    <3>1. MovingOK(hooks[h]) /\ flag' = [flag EXCEPT ![PaneOf(hooks[h].prior)] = 0]
      BY <2>4 DEF Consume
    <3> QED
      BY <3>1 DEF MovingOK, Retired, TypeOK
  <2>5. ASSUME NEW h \in Hook, Replace(h)
        PROVE  Kept
    BY <2>5 DEF Replace, FlagWith, TypeOK
  <2>6. ASSUME NEW h \in Hook, Register(h)
        PROVE  Kept
    BY <2>1, <2>6 DEF Register
  <2> QED
    BY <2>1, <2>2, <2>3, <2>4, <2>5, <2>6
    DEF Next, SelectOther, TakePane, ChangeSocket, Begin, FindPrior, RefuseStart, Fail
<1> QED
  BY <1>1, CarryInvariant, PTL DEF Spec, LivePaneKeepsItsFlag

\* A carry takes the flag of the newest binding, never of an older one
\* (resume_review_source, ResumeReview::prepare).
THEOREM CarriesTakeTheNewest == Spec => NoFallbackToOlderPane
<1>1. CarryInv /\ [Next]_vars =>
        [\A h \in Hook :
           LET e == hooks[h] IN
           e.at = "moving" /\ flag'[PaneOf(e.prior)] # flag[PaneOf(e.prior)] =>
             \A b \in Binding \ {e.dest, e.prior} : bound[b] < bound[e.prior]]_vars
  BY DEF CarryInv, MovingOK
<1> QED
  BY <1>1, CarryInvariant, PTL DEF Spec, NoFallbackToOlderPane
=============================================================================
