------------------------------ MODULE PaneClaim ------------------------------
(***************************************************************************)
(* The claim of one pane: which launch the pane's records go to, who may   *)
(* change that, and who may write under it.                                *)
(*                                                                         *)
(* A claim is a file read without a lock by every hook and written under   *)
(* the pane's claim lock by two commands: `attention hooks claim`, run by  *)
(* a shell for the commands it starts, and an agent's own session-start    *)
(* hook.  Each command is a short process of its own, so everything it     *)
(* read before it held the lock may be stale once it does; a process may   *)
(* end at any step, which releases the locks it holds (they are flocks).   *)
(*                                                                         *)
(* One pane address (realm, incarnation, pane id) is modelled: records of  *)
(* different panes share nothing here.  `current` says whether the mux     *)
(* socket still carries that incarnation.  A boot and a start time are one *)
(* lifetime number, never given twice, as the kernel never gives the same  *)
(* pid, start time and boot session twice.                                 *)
(***************************************************************************)
EXTENDS Naturals

CONSTANTS
  Claimers,    \* runs of `attention hooks claim`
  Hooks,       \* runs of `attention hooks event`, each under one agent
  Publishers,  \* runs of `attention hooks publish`
  Pids,        \* process ids the kernel gives to agents, and gives again
  Ttys,        \* terminals a command or an agent can run on
  PaneTty,     \* the terminal the mux lists for the pane
  MaxLife,     \* bound: agent processes ever started
  MaxClock,    \* bound: the monotonic clock
  None         \* absence: no claim, no owner, no launch id, nobody

Commands == Claimers \cup Hooks \cup Publishers

\* A fresh launch id is a random UUID: it is named by the command that drew it.
Launches == Claimers \cup Hooks

\* ClaimOwner: a pid alone is not a process, since the kernel reuses pids.
Process == [pid : Pids, life : Nat]

\* owner = None is a shell claim (ClaimMode::Shell), otherwise a self-owned one.
Claim == [launch : Launches, owner : Process \cup {None}, tty : Ttys, obs : Nat]

ASSUME PaneTtyAssumption == PaneTty \in Ttys
ASSUME ActorsAssumption ==
  /\ Claimers \cap Hooks = {}
  /\ Claimers \cap Publishers = {}
  /\ Hooks \cap Publishers = {}
ASSUME NoneAssumption ==
  None \notin Commands \cup Process \cup Claim
ASSUME BoundsAssumption == MaxLife \in Nat /\ MaxClock \in Nat

VARIABLES
  current,     \* the mux socket still carries this pane's incarnation
  clock,       \* CLOCK_MONOTONIC_RAW; two commands may read the same value
  lives,       \* agent processes started so far: the last lifetime given
  proc,        \* the process table: what runs at each pid
  claim,       \* claim.json
  claimLock,   \* holder of the pane's claim lock
  launchLock,  \* holder of each launch's lock
  term,        \* the launch each terminal's user variable names
  owed,        \* history: the stored claim has not been published yet
  writers,     \* history: the agent processes that wrote each launch's records
  pc,          \* where each command is
  agent,       \* the agent process a hook was started by
  at,          \* the terminal a command, or a hook's agent, runs on
  launch,      \* the launch id a command carries: inherited, or to be claimed
  stamp,       \* the clock a claiming command read before taking the lock
  seen,        \* the claim a command last read or selected
  host         \* a hook proved its agent process, and proves it again later

envVars  == <<current, clock, lives, proc>>
lockVars == <<claimLock, launchLock>>
cmdVars  == <<agent, at, launch, stamp, seen, host>>
histVars == <<owed, writers>>
vars == <<envVars, lockVars, cmdVars, histVars, claim, term, pc>>

States == {"idle", "prove", "want", "decide", "publish", "exported",
           "resolved", "wantFence", "fence", "write", "done"}

TypeOK ==
  /\ current \in BOOLEAN
  /\ clock \in 0..MaxClock
  /\ lives \in 0..MaxLife
  /\ proc \in [Pids -> [life : 0..MaxLife, up : {"none", "running", "zombie"},
                        tty : Ttys, env : Launches \cup {None}]]
  /\ claim \in Claim \cup {None}
  /\ claimLock \in Commands \cup {None}
  /\ launchLock \in [Launches -> Hooks \cup {None}]
  /\ term \in [Ttys -> Launches \cup {None}]
  /\ owed \in BOOLEAN
  /\ writers \in [Launches -> SUBSET Process]
  /\ pc \in [Commands -> States]
  /\ agent \in [Hooks -> Process \cup {None}]
  /\ at \in [Commands -> Ttys]
  /\ launch \in [Commands -> Launches \cup {None}]
  /\ stamp \in [Commands -> 0..MaxClock]
  /\ seen \in [Commands -> Claim \cup {None}]
  /\ host \in [Hooks -> BOOLEAN]

Init ==
  /\ current = TRUE
  /\ clock = 0
  /\ lives = 0
  /\ proc = [p \in Pids |-> [life |-> 0, up |-> "none", tty |-> PaneTty, env |-> None]]
  /\ claim = None
  /\ claimLock = None
  /\ launchLock = [l \in Launches |-> None]
  /\ term = [t \in Ttys |-> None]
  /\ owed = FALSE
  /\ writers = [l \in Launches |-> {}]
  /\ pc = [c \in Commands |-> "idle"]
  /\ agent = [h \in Hooks |-> None]
  /\ at = [c \in Commands |-> PaneTty]
  /\ launch = [c \in Commands |-> None]
  /\ stamp = [c \in Commands |-> 0]
  /\ seen = [c \in Commands |-> None]
  /\ host = [h \in Hooks |-> FALSE]

Goto(c, from, to) ==
  /\ pc[c] = from
  /\ pc' = [pc EXCEPT ![c] = to]

(***************************************************************************)
(* The environment: processes start and exit, a pid is given again, the    *)
(* clock advances and the mux server may be replaced for good.             *)
(***************************************************************************)

\* Launch ids a shell received from a claim it ran, and ids any claim named.
Exported == {seen[c].launch : c \in {d \in Claimers : pc[d] = "exported" /\ seen[d] # None}}
Known == {seen[c].launch : c \in {d \in Commands : seen[d] # None}}

\* An agent starts at a free pid, on any terminal, with the launch id its
\* environment holds; one it inherited by mistake is a self-owned claim's.
SpawnAgent(p) ==
  /\ proc[p].up = "none"
  /\ lives < MaxLife
  /\ lives' = lives + 1
  /\ \E t \in Ttys, e \in {None} \cup Known :
       proc' = [proc EXCEPT ![p] = [life |-> lives + 1, up |-> "running", tty |-> t, env |-> e]]
  /\ UNCHANGED <<current, clock, lockVars, cmdVars, histVars, claim, term, pc>>

ExitAgent(p) ==
  /\ \/ proc[p].up = "running" /\ proc' = [proc EXCEPT ![p].up = "zombie"]
     \/ proc[p].up = "zombie"  /\ proc' = [proc EXCEPT ![p].up = "none"]
  /\ UNCHANGED <<current, clock, lives, lockVars, cmdVars, histVars, claim, term, pc>>

Tick ==
  /\ clock < MaxClock
  /\ clock' = clock + 1
  /\ UNCHANGED <<current, lives, proc, lockVars, cmdVars, histVars, claim, term, pc>>

ReplaceServer ==
  /\ current
  /\ current' = FALSE
  /\ UNCHANGED <<clock, lives, proc, lockVars, cmdVars, histVars, claim, term, pc>>

(***************************************************************************)
(* What a reading of the process table says.                               *)
(***************************************************************************)

Runs(o) == proc[o.pid].life = o.life /\ proc[o.pid].up = "running"

\* owner_state: only a pid that names nothing, or another process, is proof
\* that the owner exited.  A zombie still holds its pid and proves nothing.
OwnerGone(o) == proc[o.pid].up = "none" \/ proc[o.pid].life # o.life

\* HostProof::confirm: the same parent process, alive, and the same incarnation.
\* (An agent's terminal does not change while it runs.)
HostConfirms(h) == Runs(agent[h]) /\ current

(***************************************************************************)
(* `attention hooks claim`.                                                *)
(***************************************************************************)

\* A terminal that is not the pane's claims only when the listing failed and
\* nothing marks it as a multiplexer's (confirm_pane_tty): on either terminal
\* the command may go on.  The clock is read before the lock is asked for.
ClaimStart(c) ==
  /\ Goto(c, "idle", "want")
  /\ current
  /\ \E t \in Ttys, l \in {c} \cup Exported :
       /\ at' = [at EXCEPT ![c] = t]
       /\ launch' = [launch EXCEPT ![c] = l]
  /\ stamp' = [stamp EXCEPT ![c] = clock]
  /\ UNCHANGED <<envVars, lockVars, histVars, claim, term, agent, seen, host>>

LockClaim(c) ==
  /\ Goto(c, "want", "decide")
  /\ claimLock = None
  /\ claimLock' = c
  /\ UNCHANGED <<envVars, launchLock, cmdVars, histVars, claim, term>>

\* Mutant: the kept claim's mode is not looked at.
KeepForShellAnyMode(c) ==
  /\ claim # None
  /\ \/ claim.launch = launch[c] /\ claim.tty = at[c]
     \/ stamp[c] < claim.obs
  /\ seen' = [seen EXCEPT ![c] = claim]
  /\ UNCHANGED <<claim, owed>>

\* The stored claim, kept as it stands; it must be one a shell may share.
KeepForShell(c) ==
  /\ claim # None
  /\ \/ claim.launch = launch[c] /\ claim.tty = at[c]
     \/ stamp[c] < claim.obs
  /\ claim.owner = None
  /\ seen' = [seen EXCEPT ![c] = claim]
  /\ UNCHANGED <<claim, owed>>

\* Mutant: the last command to get the lock wins, whenever it began.
WriteForShellLastWins(c) ==
  /\ claim # None => ~ (claim.launch = launch[c] /\ claim.tty = at[c])
  /\ LET new == [launch |-> launch[c], owner |-> None, tty |-> at[c], obs |-> stamp[c]]
     IN claim' = new /\ seen' = [seen EXCEPT ![c] = new]
  /\ owed' = TRUE

WriteForShell(c) ==
  /\ claim # None =>
       /\ ~ (claim.launch = launch[c] /\ claim.tty = at[c])
       /\ stamp[c] > claim.obs
  /\ LET new == [launch |-> launch[c], owner |-> None, tty |-> at[c], obs |-> stamp[c]]
     IN claim' = new /\ seen' = [seen EXCEPT ![c] = new]
  /\ owed' = TRUE

\* A refused decision (another order, a self-owned claim to keep, a changed
\* socket) is the step Stop.
ClaimDecide(c) ==
  /\ Goto(c, "decide", "publish")
  /\ current
  /\ KeepForShell(c) \/ WriteForShell(c)
  /\ UNCHANGED <<envVars, lockVars, term, writers, agent, at, launch, stamp, host>>

\* publish_claim: the command's own terminal is told the selected launch, or
\* the write fails and the command still reports the claim it committed.
PublishClaim(c, next) ==
  /\ Goto(c, "publish", next)
  /\ \/ /\ current
        /\ term' = [term EXCEPT ![at[c]] = seen[c].launch]
        /\ owed' = (owed /\ at[c] # seen[c].tty)
     \/ UNCHANGED <<term, owed>>
  /\ claimLock' = None
  /\ UNCHANGED <<envVars, launchLock, cmdVars, writers, claim>>

(***************************************************************************)
(* An agent's hook: resolve the launch the event belongs to.               *)
(***************************************************************************)

\* The claim is read without a lock.
HookRead(h) ==
  /\ Goto(h, "idle", "prove")
  /\ current
  /\ \E p \in Pids :
       /\ proc[p].up = "running"
       /\ agent' = [agent EXCEPT ![h] = [pid |-> p, life |-> proc[p].life]]
       /\ at' = [at EXCEPT ![h] = proc[p].tty]
       /\ launch' = [launch EXCEPT ![h] = proc[p].env]
  /\ seen' = [seen EXCEPT ![h] = claim]
  /\ UNCHANGED <<envVars, lockVars, histVars, claim, term, stamp, host>>

\* An inherited launch id matches only the shell claim that names it.  The
\* agent is proven to run on that claim's terminal where the hook names its
\* process; a hook that names none is not checked.
HookInherits(h) ==
  /\ Goto(h, "prove", "resolved")
  /\ launch[h] # None
  /\ seen[h] # None
  /\ seen[h].launch = launch[h]
  /\ seen[h].owner = None
  /\ \E named \in BOOLEAN :
       /\ named => HostConfirms(h) /\ at[h] = seen[h].tty
       /\ host' = [host EXCEPT ![h] = named]
  /\ UNCHANGED <<envVars, lockVars, histVars, claim, term, agent, at, launch, stamp, seen>>

\* Mutant: the claim's owner is compared by its pid alone.
HookOwnsByPid(h) ==
  /\ Goto(h, "prove", "resolved")
  /\ launch[h] = None
  /\ seen[h] # None
  /\ seen[h].owner # None
  /\ seen[h].owner.pid = agent[h].pid
  /\ at[h] = seen[h].tty
  /\ HostConfirms(h)
  /\ host' = [host EXCEPT ![h] = TRUE]
  /\ UNCHANGED <<envVars, lockVars, histVars, claim, term, agent, at, launch, stamp, seen>>

\* Any event but a session start proves itself against the claim it read.
HookOwns(h) ==
  /\ Goto(h, "prove", "resolved")
  /\ launch[h] = None
  /\ seen[h] # None
  /\ seen[h].owner = agent[h]
  /\ at[h] = seen[h].tty
  /\ HostConfirms(h)
  /\ host' = [host EXCEPT ![h] = TRUE]
  /\ UNCHANGED <<envVars, lockVars, histVars, claim, term, agent, at, launch, stamp, seen>>

\* A session start without a launch id proves its host on the pane's listed
\* terminal and goes on to claim, unless the claim it read is a shell's.
HookEstablishes(h) ==
  /\ Goto(h, "prove", "want")
  /\ launch[h] = None
  /\ seen[h] # None => seen[h].owner # None
  /\ at[h] = PaneTty
  /\ HostConfirms(h)
  /\ host' = [host EXCEPT ![h] = TRUE]
  /\ stamp' = [stamp EXCEPT ![h] = clock]
  /\ UNCHANGED <<envVars, lockVars, histVars, claim, term, agent, at, launch, seen>>

KeepForHost(h) ==
  /\ claim # None
  /\ claim.owner = agent[h]
  /\ claim.tty = at[h]
  /\ seen' = [seen EXCEPT ![h] = claim]
  /\ UNCHANGED <<claim, owed>>

\* Mutant: the claim read before the lock is the one looked at.
WriteForHostOnStaleClaim(h) ==
  /\ seen[h] # None =>
       /\ seen[h].owner \notin {None, agent[h]}
       /\ OwnerGone(seen[h].owner)
  /\ LET new == [launch |-> h, owner |-> agent[h], tty |-> at[h], obs |-> stamp[h]]
     IN claim' = new /\ seen' = [seen EXCEPT ![h] = new]
  /\ owed' = TRUE

\* A new launch id: for an unclaimed pane, or for one whose owner is gone.
WriteForHost(h) ==
  /\ claim # None =>
       /\ claim.owner \notin {None, agent[h]}
       /\ OwnerGone(claim.owner)
  /\ LET new == [launch |-> h, owner |-> agent[h], tty |-> at[h], obs |-> stamp[h]]
     IN claim' = new /\ seen' = [seen EXCEPT ![h] = new]
  /\ owed' = TRUE

\* claim_for_host, under the claim lock: the host is read again first.  An
\* agent outside the terminal's foreground job may keep but not write; that
\* refusal is Stop.
HostDecide(h) ==
  /\ Goto(h, "decide", "publish")
  /\ HostConfirms(h)
  /\ KeepForHost(h) \/ WriteForHost(h)
  /\ UNCHANGED <<envVars, lockVars, term, writers, agent, at, launch, stamp, host>>

(***************************************************************************)
(* Every writer of a launch's records: the launch lock, the claim lock,    *)
(* then the fence, then the records one by one.                            *)
(***************************************************************************)

LockLaunch(h) ==
  /\ Goto(h, "resolved", "wantFence")
  /\ launchLock[seen[h].launch] = None
  /\ launchLock' = [launchLock EXCEPT ![seen[h].launch] = h]
  /\ UNCHANGED <<envVars, claimLock, cmdVars, histVars, claim, term>>

\* Mutant: the claim lock is not taken, as the launch lock is held already.
LockFenceUnheld(h) ==
  /\ Goto(h, "wantFence", "fence")
  /\ UNCHANGED <<envVars, lockVars, cmdVars, histVars, claim, term>>

LockFence(h) ==
  /\ Goto(h, "wantFence", "fence")
  /\ claimLock = None
  /\ claimLock' = h
  /\ UNCHANGED <<envVars, launchLock, cmdVars, histVars, claim, term>>

\* ResolvedLaunch::lapsed: the claim is exactly the one resolved against, and
\* the host that was proven still is.
Fence(h) ==
  /\ Goto(h, "fence", "write")
  /\ claim = seen[h]
  /\ host[h] => HostConfirms(h)
  /\ UNCHANGED <<envVars, lockVars, cmdVars, histVars, claim, term>>

\* One record of the plan; a commit writes several, and may end after any.
WriteRecord(h) ==
  /\ pc[h] = "write"
  /\ writers' = [writers EXCEPT ![seen[h].launch] = @ \cup {agent[h]}]
  /\ UNCHANGED <<envVars, lockVars, cmdVars, owed, claim, term, pc>>

(***************************************************************************)
(* `attention hooks publish`: the claim lock is held from reading the      *)
(* claim through the terminal write.                                       *)
(***************************************************************************)

PublisherStart(c) ==
  /\ Goto(c, "idle", "want")
  /\ current
  /\ \E t \in Ttys : at' = [at EXCEPT ![c] = t]
  /\ UNCHANGED <<envVars, lockVars, histVars, claim, term, agent, launch, stamp, seen, host>>

\* Mutant: the claim is read and the lock released before the terminal write.
PublisherReadUnheld(c) ==
  /\ Goto(c, "decide", "publish")
  /\ seen' = [seen EXCEPT ![c] = claim]
  /\ claimLock' = None
  /\ UNCHANGED <<envVars, launchLock, histVars, claim, term, agent, at, launch, stamp, host>>

PublisherRead(c) ==
  /\ Goto(c, "decide", "publish")
  /\ seen' = [seen EXCEPT ![c] = claim]
  /\ UNCHANGED <<envVars, lockVars, histVars, claim, term, agent, at, launch, stamp, host>>

\* The launch is named only at the terminal its claim was made at.  Naming
\* the pane alone leaves the launch the terminal already shows.
PublisherWrite(c) ==
  /\ Goto(c, "publish", "done")
  /\ current
  /\ seen[c] # None /\ seen[c].tty = at[c]
  /\ term' = [term EXCEPT ![at[c]] = seen[c].launch]
  /\ claimLock' = None
  /\ owed' = FALSE
  /\ UNCHANGED <<envVars, launchLock, cmdVars, writers, claim>>

(***************************************************************************)
(* A command ends: it finished, a check refused it, a lock timed out, an   *)
(* error stopped it, or it was killed.  Its locks are released with it.    *)
(***************************************************************************)

Stop(c) ==
  /\ pc[c] \notin {"idle", "exported", "done"}
  /\ pc' = [pc EXCEPT ![c] = "done"]
  /\ claimLock' = IF claimLock = c THEN None ELSE claimLock
  /\ launchLock' = [l \in Launches |-> IF launchLock[l] = c THEN None ELSE launchLock[l]]
  /\ UNCHANGED <<envVars, cmdVars, histVars, claim, term>>

Next ==
  \/ \E p \in Pids : SpawnAgent(p) \/ ExitAgent(p)
  \/ Tick \/ ReplaceServer
  \/ \E c \in Claimers : ClaimStart(c) \/ ClaimDecide(c) \/ PublishClaim(c, "exported")
  \/ \E h \in Hooks :
       \/ HookRead(h) \/ HookInherits(h) \/ HookOwns(h) \/ HookEstablishes(h)
       \/ HostDecide(h) \/ PublishClaim(h, "resolved")
       \/ LockLaunch(h) \/ LockFence(h) \/ Fence(h) \/ WriteRecord(h)
  \/ \E c \in Publishers : PublisherStart(c) \/ PublisherRead(c) \/ PublisherWrite(c)
  \/ \E c \in Commands : LockClaim(c) \/ Stop(c)

Spec == Init /\ [][Next]_vars

-----------------------------------------------------------------------------
(***************************************************************************)
(* Properties.                                                             *)
(***************************************************************************)

Writing(h) == pc[h] = "write"

\* While a hook writes a launch's records, the pane's claim is exactly the one
\* the event was resolved against, at the terminal its proven agent runs on:
\* no claim made since the event began lets it write into a superseded launch
\* or go on into the launch that holds the pane now (ResolvedLaunch::lapsed
\* under the claim lock).
FencedWrites ==
  \A h \in Hooks : Writing(h) => /\ claim = seen[h]
                                /\ (host[h] => at[h] = claim.tty)

\* The launch of a self-owned claim is written by the agent process that made
\* it and by no other: not by a later process given the same pid, and not by a
\* process that came by the launch id in its environment.
SelfOwnedLaunchHasOneWriter ==
  \A h \in Hooks : writers[h] \subseteq {agent[h]}

\* A shell is only ever handed the launch id of a shell claim, whatever claims
\* were made while its own command waited.
ExportedLaunchIsShells ==
  \A c \in Claimers : pc[c] = "exported" => seen[c].owner = None

\* The claim's terminal names the claim's launch, unless publishing that claim
\* is still to come, failed or was cut short: no earlier reading of the claim
\* is published over a later one (publish_claim, with_pane_claim).
SettledTerminal ==
  claim # None /\ ~owed => term[claim.tty] = claim.launch

\* Two commands never decide on, publish or fence against the claim at once.
ClaimSection == {"decide", "publish", "fence", "write"}
OneInClaimSection ==
  \A c, d \in Commands : pc[c] \in ClaimSection /\ pc[d] \in ClaimSection => c = d

\* A claim whose owner still runs passes to a shell only, never to another
\* agent: the owner seen dead by a hook is not the one it replaces later.
LiveOwnerKeepsPane ==
  [][claim' # claim /\ claim # None /\ claim.owner # None /\ Runs(claim.owner)
       => claim'.owner = None]_vars

\* A pane a shell claimed stays with shells, also against an agent that read
\* the claim before the shell made it.
ShellClaimStaysShells ==
  [][claim' # claim /\ claim # None /\ claim.owner = None => claim'.owner = None]_vars

\* A shell's claim replaces only a claim stamped before it: a command delayed
\* on the lock does not take the pane back from one that began later.
DelayedShellClaimLoses ==
  [][claim' # claim /\ claim # None /\ claim'.owner = None => claim'.obs > claim.obs]_vars
=============================================================================
