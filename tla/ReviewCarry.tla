----------------------------- MODULE ReviewCarry -----------------------------
(***************************************************************************)
(* The user's review flag of each pane, and its carry: a session resumed   *)
(* in another pane, after its old pane's server was replaced, brings the   *)
(* flag with it.  One provider session is registered in several panes, by  *)
(* hooks that read their wall clock before they wait for the session's     *)
(* registration lock; the user sets and withdraws flags meanwhile, other   *)
(* sessions and other launches take panes, sockets change, and a hook may  *)
(* be killed between the binding, the removal of the old flag and the new  *)
(* flag.  A binding belongs to a launch of a pane, a flag to the pane.     *)
(***************************************************************************)
EXTENDS Naturals, FiniteSets

CONSTANTS
  Pane,      \* pane addresses, each on a server of its own
  Launch,    \* the launches of each pane
  First,     \* the one that claims it at the start
  Hook,      \* registrations that run at the same time
  MaxTime,   \* bound of this model: the last wall-clock reading of a registration
  MaxActs,   \* bound of this model: how often the user sets a flag
  MaxTakes,  \* bound of this model: how often another session or launch takes a pane
  None

ASSUME CarryAssumption ==
  /\ MaxTime \in Nat \ {0} /\ MaxActs \in Nat /\ MaxTakes \in Nat
  /\ IsFiniteSet(Pane \X Launch) /\ First \in Launch
  /\ None \notin (Pane \X Launch) \cup Hook

VARIABLES
  time,       \* the wall clock
  socket,     \* what the path of a pane's server holds
  claim,      \* the launch a pane is claimed by
  bound,      \* written_at of the session's binding in a launch of a pane, 0 for none
  selected,   \* the bindings of the session that their launch's current-binding pointer names
  takes,      \* how often another session or launch took a pane
  flag,       \* the user's review of a pane: the act that set it, 0 for none
  acts,       \* how many flags the user set
  withdrawn,  \* the acts the user withdrew
  hooks,      \* the registrations under way
  session     \* the hook that holds the session's registration lock

vars == <<time, socket, claim, bound, selected, takes, flag, acts, withdrawn, hooks, session>>

Idle == [at |-> "idle"]

\* The session has at most one binding in a launch of a pane, which names it here.
Binding == Pane \X Launch

PaneOf(b) == b[1]

Init ==
  /\ time = 1
  /\ socket = [p \in Pane |-> "same"]
  /\ claim = [p \in Pane |-> First]
  /\ bound = [b \in Binding |-> 0]
  /\ selected = {} /\ takes = 0
  /\ flag = [p \in Pane |-> 0]
  /\ acts = 0 /\ withdrawn = {}
  /\ hooks = [h \in Hook |-> Idle]
  /\ session = None

\* The panes whose launch, claim and review locks a commit in progress holds.
Locked ==
  LET moving == {h \in Hook : hooks[h].at = "moving"} IN
  UNION {{PaneOf(hooks[h].dest), PaneOf(hooks[h].prior)} : h \in moving}

\* Mutant: any change of the socket's identity retires the server.
RetiredByIdentity(p) == socket[p] # "same"

\* ResumeReview::server_retired: the socket is gone (or its GUI is), or another socket
\* object serves the path.  A changed ctime alone changes the identity of a live server.
Retired(p) == socket[p] = "lost"

(***************************************************************************)
(* The user, the servers and the other sessions.                           *)
(***************************************************************************)
\* plan_flag
PutFlag(p, act) == flag' = [flag EXCEPT ![p] = act]

SetReview(p) ==
  /\ p \notin Locked /\ ~Retired(p) /\ acts < MaxActs
  /\ acts' = acts + 1
  /\ PutFlag(p, acts + 1)
  /\ UNCHANGED <<time, socket, claim, bound, selected, takes, withdrawn, hooks, session>>

ClearReview(p) ==
  /\ p \notin Locked /\ flag[p] # 0
  /\ withdrawn' = withdrawn \cup {flag[p]}
  /\ PutFlag(p, 0)
  /\ UNCHANGED <<time, socket, claim, bound, selected, takes, acts, hooks, session>>

\* The socket file is touched; or it is lost: removed, replaced, or its GUI exited.
ChangeSocket(p, state) ==
  /\ <<socket[p], state>> \in {<<"same", "touched">>, <<"same", "lost">>, <<"touched", "lost">>}
  /\ socket' = [socket EXCEPT ![p] = state]
  /\ UNCHANGED <<time, claim, bound, selected, takes, flag, acts, withdrawn, hooks, session>>

\* Another session becomes current in the pane's launch.
SelectOther(p) ==
  /\ p \notin Locked /\ <<p, claim[p]>> \in selected /\ takes < MaxTakes
  /\ takes' = takes + 1
  /\ selected' = selected \ {<<p, claim[p]>>}
  /\ UNCHANGED <<time, socket, claim, bound, flag, acts, withdrawn, hooks, session>>

\* Another launch claims the pane: a new one, or an older one that a shell still exports.
TakePane(p, launch) ==
  /\ p \notin Locked /\ claim[p] # launch /\ takes < MaxTakes
  /\ takes' = takes + 1
  /\ claim' = [claim EXCEPT ![p] = launch]
  /\ UNCHANGED <<time, socket, bound, selected, flag, acts, withdrawn, hooks, session>>

-----------------------------------------------------------------------------
(***************************************************************************)
(* Registration of the session in a pane.                                  *)
(***************************************************************************)
\* The hook resolves its launch, the pane's claim, and reads its clock; nothing is locked yet.
Begin(h, p, now) ==
  /\ hooks[h] = Idle /\ socket[p] = "same"
  /\ time' = now
  /\ hooks' = [hooks EXCEPT ![h] = [at |-> "begun", dest |-> <<p, claim[p]>>, written |-> now]]
  /\ UNCHANGED <<socket, claim, bound, selected, takes, flag, acts, withdrawn, session>>

\* Mutant: an older binding whose server is retired stands in for the newest.
RetiredPrior(p) ==
  LET old == {b \in Binding : bound[b] # 0 /\ PaneOf(b) # p /\ Retired(PaneOf(b))} IN
  {b \in old : \A c \in old : bound[c] <= bound[b]}

\* Mutant: only the bindings of launches that still claim their pane are looked at.
ClaimedNewest ==
  LET current == {b \in Binding : bound[b] # 0 /\ b = <<PaneOf(b), claim[PaneOf(b)]>>} IN
  {b \in current : \A c \in current : bound[c] <= bound[b]}

\* resume_review_source: the newest binding of the session, whatever its launch, if it is the
\* only one of its clock reading, is in another pane and that pane's server is retired.
Newest == {b \in Binding : bound[b] # 0 /\ \A c \in Binding : bound[c] <= bound[b]}
Prior(p) ==
  IF Cardinality(Newest) = 1 THEN {b \in Newest : PaneOf(b) # p /\ Retired(PaneOf(b))} ELSE {}

\* binding_mutation: the registration lock, then the prior binding.
FindPrior(h, source) ==
  LET e == hooks[h]
      found == IF source = "resume" THEN Prior(PaneOf(e.dest)) ELSE {} IN
  /\ e.at = "begun" /\ session = None
  /\ session' = h
  /\ \E b \in IF found = {} THEN {None} ELSE found :
       hooks' = [hooks EXCEPT ![h] =
                   [at |-> "found", dest |-> e.dest, written |-> e.written, prior |-> b,
                    seen |-> IF b = None THEN 0 ELSE bound[b]]]
  /\ UNCHANGED <<time, socket, claim, bound, selected, takes, flag, acts, withdrawn>>

\* Mutant: whatever was found before the locks were taken is carried.
CarriesAsFound(e) == TRUE

\* Mutant: the launch of the prior binding need not claim its pane any more.
CarriesUnclaimed(e) ==
  /\ e.prior # None
  /\ Retired(PaneOf(e.prior)) /\ flag[PaneOf(e.prior)] # 0
  /\ bound[e.prior] = e.seen /\ e.prior \in selected

\* ResumeReview::prepare, under the locks of both panes: the prior pane still shows the
\* binding that was found.
Carries(e) ==
  /\ e.prior # None
  /\ LET p == PaneOf(e.prior) IN
     Retired(p) /\ e.prior = <<p, claim[p]>> /\ flag[p] # 0
  /\ bound[e.prior] = e.seen /\ e.prior \in selected

Finish(h) == hooks' = [hooks EXCEPT ![h] = Idle] /\ session' = None

\* binding_mutation_for_session: a binding new to its launch may carry, one that was there
\* never does.
Register(h) ==
  LET e == hooks[h]
      p == PaneOf(e.dest) IN
  /\ e.at = "found" /\ p \notin Locked
  /\ e.prior # None => PaneOf(e.prior) \notin Locked
  /\ e.dest = <<p, claim[p]>> /\ e.written >= bound[e.dest]
  /\ bound' = [bound EXCEPT ![e.dest] = e.written]
  /\ selected' = selected \cup {e.dest}
  /\ IF bound[e.dest] = 0 /\ Carries(e)
     THEN /\ hooks' = [hooks EXCEPT ![h] =
                         [at |-> "moving", dest |-> e.dest, prior |-> e.prior, carried |-> 0]]
          /\ UNCHANGED session
     ELSE Finish(h)
  /\ UNCHANGED <<time, socket, claim, takes, flag, acts, withdrawn>>

\* A start older than its launch's binding, one whose launch lost the pane, or one that may
\* not take the launch from the session it shows, writes nothing; nor does one that is killed
\* or times out on a lock.
RefuseStart(h) ==
  /\ hooks[h].at = "found"
  /\ Finish(h)
  /\ UNCHANGED <<time, socket, claim, bound, selected, takes, flag, acts, withdrawn>>

\* Mutant: the destination is set while the source still stands.
SetBeforeConsuming(h) ==
  LET e == hooks[h] IN
  /\ e.at = "moving" /\ e.carried = 0
  /\ hooks' = [hooks EXCEPT ![h].carried = flag[PaneOf(e.prior)]]
  /\ flag' = [flag EXCEPT ![PaneOf(e.dest)] = IF @ # 0 THEN @ ELSE flag[PaneOf(e.prior)]]
  /\ UNCHANGED <<time, socket, claim, bound, selected, takes, acts, withdrawn, session>>

\* consume_review_before_replace: the source is removed first...
Consume(h) ==
  LET e == hooks[h] IN
  /\ e.at = "moving" /\ e.carried = 0
  /\ hooks' = [hooks EXCEPT ![h].carried = flag[PaneOf(e.prior)]]
  /\ flag' = [flag EXCEPT ![PaneOf(e.prior)] = 0]
  /\ UNCHANGED <<time, socket, claim, bound, selected, takes, acts, withdrawn, session>>

\* Mutant: the carried flag replaces one at the destination.
FlagOver(standing, carried) == carried

\* The destination's record: a flag it has is preserved.
FlagWith(standing, carried) == IF standing # 0 THEN standing ELSE carried

\* ...and the destination is written then.
Replace(h) ==
  LET e == hooks[h] IN
  /\ e.at = "moving" /\ e.carried # 0
  /\ flag' = [flag EXCEPT ![PaneOf(e.dest)] = FlagWith(@, e.carried)]
  /\ Finish(h)
  /\ UNCHANGED <<time, socket, claim, bound, selected, takes, acts, withdrawn>>

\* The hook is killed, or a write fails: the flag it consumed is lost.
Fail(h) ==
  /\ hooks[h].at = "moving"
  /\ Finish(h)
  /\ UNCHANGED <<time, socket, claim, bound, selected, takes, flag, acts, withdrawn>>

Next ==
  \/ \E p \in Pane :
       \/ SetReview(p) \/ ClearReview(p) \/ SelectOther(p)
       \/ \E launch \in Launch : TakePane(p, launch)
       \/ \E state \in {"touched", "lost"} : ChangeSocket(p, state)
  \/ \E h \in Hook :
       \/ \E p \in Pane, now \in {time, time + 1} \cap 1..MaxTime : Begin(h, p, now)
       \/ \E source \in {"resume", "startup"} : FindPrior(h, source)
       \/ Register(h) \/ RefuseStart(h) \/ Consume(h) \/ Replace(h) \/ Fail(h)

Spec == Init /\ [][Next]_vars

-----------------------------------------------------------------------------
(***************************************************************************)
(* Properties.                                                             *)
(***************************************************************************)
\* A hook that read its clock, one that looked for the prior binding, and one that carries.
Begun == [at : {"begun"}, dest : Binding, written : 1..time]
Found ==
  [at : {"found"}, dest : Binding, written : 1..time, prior : Binding \cup {None}, seen : 0..time]
Moving == [at : {"moving"}, dest : Binding, prior : Binding, carried : 0..acts]

TypeOK ==
  /\ time \in 1..MaxTime /\ acts \in 0..MaxActs /\ withdrawn \subseteq 1..acts
  /\ socket \in [Pane -> {"same", "touched", "lost"}]
  /\ claim \in [Pane -> Launch]
  /\ bound \in [Binding -> 0..time] /\ selected \subseteq Binding /\ takes \in 0..MaxTakes
  /\ flag \in [Pane -> 0..acts]
  /\ session \in Hook \cup {None}
  /\ hooks \in [Hook -> {Idle} \cup Begun \cup Found \cup Moving]

\* The transfer is at most once: the flag of one press of the review key is never on two
\* panes, whatever registrations race and wherever one is killed; and a press the user
\* withdrew is on none, so a carry under way does not undo the withdrawal.
OneFlagPerPress ==
  /\ \A p, q \in Pane : p # q /\ flag[p] = flag[q] => flag[p] = 0
  /\ \A p \in Pane : flag[p] \notin withdrawn

\* The types, and each press on one pane at most.
FlagsOK == TypeOK /\ OneFlagPerPress

\* A flag the user does not touch is never replaced, a carry to its pane included, and it
\* leaves its pane only after the pane's server was retired, while the launch that claims the
\* pane still shows the session.
LivePaneKeepsItsFlag ==
  [][\A p \in Pane :
       flag[p] # 0 /\ flag'[p] # flag[p] /\ acts' = acts /\ withdrawn' = withdrawn =>
         flag'[p] = 0 /\ socket[p] = "lost" /\ <<p, claim[p]>> \in selected]_vars

\* A carry takes the flag of the session's newest binding and never falls back to an older
\* one, of its own pane's earlier launches included, although registrations reach the
\* session's lock out of the order of their clocks.
NoFallbackToOlderPane ==
  [][\A h \in Hook :
       LET e == hooks[h] IN
       e.at = "moving" /\ flag'[PaneOf(e.prior)] # flag[PaneOf(e.prior)] =>
         \A b \in Binding \ {e.dest, e.prior} : bound[b] < bound[e.prior]]_vars
=============================================================================
