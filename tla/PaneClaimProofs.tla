--------------------------- MODULE PaneClaimProofs ---------------------------
(***************************************************************************)
(* What PaneClaim's properties rest on, for any number of commands, agent  *)
(* processes and terminals: one inductive invariant, IInv, and the safety  *)
(* and action properties that follow from it.  Then the same for what      *)
(* follows the turns of a claimed pane, TurnFollower: FollowInv.           *)
(***************************************************************************)
EXTENDS PaneClaim, TurnFollower, WellFoundedInduction, TLAPS

\* A command in a claim section holds the pane's claim lock.
Locked == \A c \in Commands : pc[c] \in ClaimSection => claimLock = c

\* What a command publishes or writes under is the claim as it stands.
Fresh == \A c \in Commands : pc[c] \in {"publish", "write"} => seen[c] = claim

\* A shell claim carries the launch id of a shell's command.  A self-owned one
\* carries that of the hook that made it and belongs to that hook's agent.
Honest(cl) ==
  \/ cl.owner = None /\ cl.launch \in Claimers
  \/ /\ cl.owner # None
     /\ cl.launch \in Hooks
     /\ pc[cl.launch] # "idle"
     /\ cl.owner = agent[cl.launch]

ClaimsHonest ==
  /\ claim # None => Honest(claim)
  /\ \A c \in Commands : seen[c] # None => Honest(seen[c])

\* Each kind of command keeps to its own states.
Kinds ==
  /\ \A c \in Claimers : pc[c] \in {"idle", "want", "decide", "publish", "exported", "done"}
  /\ \A h \in Hooks : pc[h] # "exported"
  /\ \A c \in Publishers : pc[c] \in {"idle", "want", "decide", "publish", "done"}

\* A shell's command carries a shell's launch id, and selects a shell's claim.
ShellRead == \A c \in Claimers :
  /\ pc[c] # "idle" => launch[c] \in Claimers
  /\ pc[c] \in {"publish", "exported"} => seen[c] # None /\ seen[c].owner = None

\* A hook past its resolution holds a claim it may write under.
HookResolved == \A h \in Hooks :
  /\ pc[h] # "idle" => agent[h] \in Process
  /\ pc[h] \in {"want", "decide"} => host[h]
  /\ pc[h] \in {"publish", "resolved", "wantFence", "fence", "write"} =>
       /\ seen[h] # None
       /\ seen[h].owner \in {None, agent[h]}
       /\ host[h] => at[h] = seen[h].tty

\* The records of a launch a hook named are its own agent's.
Written == \A h \in Hooks :
  /\ writers[h] \subseteq {agent[h]}
  /\ pc[h] = "idle" => writers[h] = {}

IInv ==
  /\ TypeOK
  /\ Locked
  /\ Fresh
  /\ ClaimsHonest
  /\ Kinds
  /\ ShellRead
  /\ HookResolved
  /\ Written
  /\ SettledTerminal

-----------------------------------------------------------------------------
(***************************************************************************)
(* Each part of the invariant, kept by every step.                         *)
(***************************************************************************)

\* Every step keeps the types: a claim is written whole, from a launch and a
\* process its command has.
LEMMA TypeStep ==
  ASSUME TypeOK, ShellRead, HookResolved, [Next]_vars
  PROVE  TypeOK'
<1> USE NoneAssumption, ActorsAssumption, PaneTtyAssumption, BoundsAssumption DEF TypeOK, Commands, Launches, Process, Claim, States
<1>1. CASE UNCHANGED vars
  BY <1>1 DEF vars, envVars, lockVars, cmdVars, histVars
<1>2. ASSUME NEW p \in Pids, SpawnAgent(p) \/ ExitAgent(p)
      PROVE  TypeOK'
  <2> DEFINE Running == [life : 0..MaxLife, up : {"none", "running", "zombie"},
                         tty : Ttys, env : Launches \cup {None}]
  <2>1. CASE SpawnAgent(p)
    <3>1. lives + 1 \in 0..MaxLife /\ lives' = lives + 1
      BY <2>1 DEF SpawnAgent
    <3>2. PICK t \in Ttys, e \in {None} \cup Known :
            proc' = [proc EXCEPT ![p] = [life |-> lives + 1, up |-> "running", tty |-> t, env |-> e]]
      BY <2>1 DEF SpawnAgent
    <3>3. Known \subseteq Launches
      BY DEF Known
    <3>4. proc' \in [Pids -> Running]
      BY <3>1, <3>2, <3>3
    <3> QED
      BY <2>1, <3>1, <3>4 DEF SpawnAgent, lockVars, cmdVars, histVars
  <2>2. CASE ExitAgent(p)
    <3>1. proc' \in [Pids -> Running]
      <4>1. PICK u \in {"none", "zombie"} : proc' = [proc EXCEPT ![p].up = u]
        BY <2>2 DEF ExitAgent
      <4>2. [proc[p] EXCEPT !.up = u] \in Running
        OBVIOUS
      <4> QED
        BY <4>1, <4>2
    <3> QED
      BY <2>2, <3>1 DEF ExitAgent, lockVars, cmdVars, histVars
  <2> QED
    BY <1>2, <2>1, <2>2
<1>3. ASSUME NEW c \in Claimers, ClaimStart(c)
      PROVE  TypeOK'
  <2>1. Exported \subseteq Launches
    BY DEF Exported
  <2>2. PICK t \in Ttys, l \in {c} \cup Exported :
          at' = [at EXCEPT ![c] = t] /\ launch' = [launch EXCEPT ![c] = l]
    BY <1>3 DEF ClaimStart
  <2>3. at' \in [Commands -> Ttys] /\ launch' \in [Commands -> Launches \cup {None}]
    BY <2>1, <2>2
  <2> QED
    BY <2>3, <1>3 DEF ClaimStart, Goto, envVars, lockVars, cmdVars, histVars
<1>4. ASSUME NEW c \in Claimers, ClaimDecide(c)
      PROVE  TypeOK'
  <2>1. claim' \in Claim \cup {None} /\ seen' \in [Commands -> Claim \cup {None}]
    <3>1. CASE KeepForShell(c)
      BY <3>1 DEF KeepForShell
    <3>2. CASE WriteForShell(c)
      <4> DEFINE new == [launch |-> launch[c], owner |-> None, tty |-> at[c], obs |-> stamp[c]]
      <4>1. new \in Claim
        BY <1>4 DEF ClaimDecide, Goto, ShellRead, HookResolved
      <4>2. claim' = new /\ seen' = [seen EXCEPT ![c] = new]
        BY <3>2 DEF WriteForShell
      <4> QED
        BY <4>1, <4>2
    <3> QED
      BY <3>1, <3>2, <1>4 DEF ClaimDecide
  <2>2. owed' \in BOOLEAN /\ pc' \in [Commands -> States]
    BY <1>4 DEF ClaimDecide, KeepForShell, WriteForShell, Goto, envVars, lockVars, cmdVars, histVars
  <2> QED
    BY <2>1, <2>2, <1>4 DEF ClaimDecide, envVars, lockVars
<1>5. ASSUME NEW c \in Claimers, PublishClaim(c, "exported")
      PROVE  TypeOK'
  <2>1. term' \in [Ttys -> Launches \cup {None}]
    BY <1>5 DEF PublishClaim, Goto, ShellRead, HookResolved
  <2>2. pc' \in [Commands -> States] /\ owed' \in BOOLEAN
    BY <1>5 DEF PublishClaim, Goto
  <2> QED
    BY <2>1, <2>2, <1>5 DEF PublishClaim, Goto, envVars, lockVars, cmdVars, histVars
<1>6. ASSUME NEW h \in Hooks, PublishClaim(h, "resolved")
      PROVE  TypeOK'
  <2>1. term' \in [Ttys -> Launches \cup {None}]
    BY <1>6 DEF PublishClaim, Goto, ShellRead, HookResolved
  <2>2. pc' \in [Commands -> States] /\ owed' \in BOOLEAN
    BY <1>6 DEF PublishClaim, Goto
  <2> QED
    BY <2>1, <2>2, <1>6 DEF PublishClaim, Goto, envVars, lockVars, cmdVars, histVars
<1>7. ASSUME NEW h \in Hooks, HookRead(h)
      PROVE  TypeOK'
  BY <1>7 DEF HookRead, Goto, envVars, lockVars, cmdVars, histVars
<1>8. ASSUME NEW h \in Hooks, HookInherits(h) \/ HookOwns(h) \/ HookEstablishes(h)
      PROVE  TypeOK'
  <2>1. CASE HookInherits(h)
    BY <2>1 DEF HookInherits, Goto, envVars, lockVars, cmdVars, histVars
  <2>2. CASE HookOwns(h)
    BY <2>2 DEF HookOwns, Goto, envVars, lockVars, cmdVars, histVars
  <2>3. CASE HookEstablishes(h)
    BY <2>3 DEF HookEstablishes, Goto, envVars, lockVars, cmdVars, histVars
  <2> QED
    BY <1>8, <2>1, <2>2, <2>3
<1>9. ASSUME NEW h \in Hooks, HostDecide(h)
      PROVE  TypeOK'
  <2>1. claim' \in Claim \cup {None} /\ seen' \in [Commands -> Claim \cup {None}]
    <3>1. CASE KeepForHost(h)
      BY <3>1 DEF KeepForHost
    <3>2. CASE WriteForHost(h)
      <4> DEFINE new == [launch |-> h, owner |-> agent[h], tty |-> at[h], obs |-> stamp[h]]
      <4>1. new \in Claim
        BY <1>9 DEF HostDecide, Goto, ShellRead, HookResolved
      <4>2. claim' = new /\ seen' = [seen EXCEPT ![h] = new]
        BY <3>2 DEF WriteForHost
      <4> QED
        BY <4>1, <4>2
    <3> QED
      BY <3>1, <3>2, <1>9 DEF HostDecide
  <2>2. owed' \in BOOLEAN /\ pc' \in [Commands -> States]
    BY <1>9 DEF HostDecide, KeepForHost, WriteForHost, Goto, envVars, lockVars, cmdVars, histVars
  <2> QED
    BY <2>1, <2>2, <1>9 DEF HostDecide, envVars, lockVars
<1>10. ASSUME NEW h \in Hooks, LockLaunch(h) \/ LockFence(h) \/ Fence(h) \/ WriteRecord(h)
      PROVE  TypeOK'
  <2>1. LockLaunch(h) => launchLock' \in [Launches -> Hooks \cup {None}]
    BY DEF LockLaunch, Goto, HookResolved
  <2>2. WriteRecord(h) => writers' \in [Launches -> SUBSET Process]
    BY DEF WriteRecord, HookResolved
  <2> QED
    BY <2>1, <2>2, <1>10 DEF LockLaunch, LockFence, Fence, WriteRecord, Goto, envVars, lockVars, cmdVars, histVars
<1>11. ASSUME NEW c \in Publishers, PublisherStart(c) \/ PublisherRead(c) \/ PublisherWrite(c)
      PROVE  TypeOK'
  <2>1. CASE PublisherStart(c)
    BY <2>1 DEF PublisherStart, Goto, envVars, lockVars, cmdVars, histVars
  <2>2. CASE PublisherRead(c)
    BY <2>2 DEF PublisherRead, Goto, envVars, lockVars, cmdVars, histVars
  <2>3. CASE PublisherWrite(c)
    BY <2>3 DEF PublisherWrite, Goto, envVars, lockVars, cmdVars, histVars
  <2> QED
    BY <1>11, <2>1, <2>2, <2>3
<1>12. ASSUME NEW c \in Commands, LockClaim(c) \/ Stop(c)
      PROVE  TypeOK'
  BY <1>12 DEF LockClaim, Stop, Goto, envVars, lockVars, cmdVars, histVars
<1>13. CASE Tick \/ ReplaceServer
  <2>1. clock' \in 0..MaxClock /\ current' \in BOOLEAN
    <3>1. CASE Tick
      BY <3>1 DEF Tick
    <3>2. CASE ReplaceServer
      BY <3>2 DEF ReplaceServer
    <3> QED
      BY <3>1, <3>2, <1>13
  <2> QED
    BY <1>13, <2>1 DEF Tick, ReplaceServer, envVars, lockVars, cmdVars, histVars
<1> QED
  BY <1>1, <1>2, <1>3, <1>4, <1>5, <1>6, <1>7, <1>8, <1>9, <1>10, <1>11, <1>12, <1>13 DEF Next

\* Each kind of command keeps to its own states.
LEMMA KindsStep ==
  ASSUME TypeOK, Kinds, [Next]_vars
  PROVE  Kinds'
<1> USE NoneAssumption, ActorsAssumption DEF TypeOK, Kinds, Commands
<1>1. CASE UNCHANGED vars
  BY <1>1 DEF vars, envVars, lockVars, cmdVars, histVars
<1>2. ASSUME NEW p \in Pids, SpawnAgent(p) \/ ExitAgent(p)
      PROVE  Kinds'
  BY <1>2 DEF SpawnAgent, ExitAgent, envVars, lockVars, cmdVars, histVars
<1>3. ASSUME NEW c \in Claimers, ClaimStart(c)
      PROVE  Kinds'
  BY <1>3 DEF ClaimStart, Goto, envVars, lockVars, cmdVars, histVars
<1>4. ASSUME NEW c \in Claimers, ClaimDecide(c)
      PROVE  Kinds'
  BY <1>4 DEF ClaimDecide, KeepForShell, WriteForShell, Goto, envVars, lockVars, cmdVars, histVars
<1>5. ASSUME NEW c \in Claimers, PublishClaim(c, "exported")
      PROVE  Kinds'
  BY <1>5 DEF PublishClaim, Goto, envVars, lockVars, cmdVars, histVars
<1>6. ASSUME NEW h \in Hooks, PublishClaim(h, "resolved")
      PROVE  Kinds'
  BY <1>6 DEF PublishClaim, Goto, envVars, lockVars, cmdVars, histVars
<1>7. ASSUME NEW h \in Hooks, HookRead(h)
      PROVE  Kinds'
  BY <1>7 DEF HookRead, Goto, envVars, lockVars, cmdVars, histVars
<1>8. ASSUME NEW h \in Hooks, HookInherits(h) \/ HookOwns(h) \/ HookEstablishes(h)
      PROVE  Kinds'
  BY <1>8 DEF HookInherits, HookOwns, HookEstablishes, Goto, envVars, lockVars, cmdVars, histVars
<1>9. ASSUME NEW h \in Hooks, HostDecide(h)
      PROVE  Kinds'
  BY <1>9 DEF HostDecide, KeepForHost, WriteForHost, Goto, envVars, lockVars, cmdVars, histVars
<1>10. ASSUME NEW h \in Hooks, LockLaunch(h) \/ LockFence(h) \/ Fence(h) \/ WriteRecord(h)
      PROVE  Kinds'
  <2>1. pc' = pc \/ \E to \in {"wantFence", "fence", "write"} : pc' = [pc EXCEPT ![h] = to]
    <3>1. CASE LockLaunch(h)
      BY <3>1 DEF LockLaunch, Goto
    <3>2. CASE LockFence(h)
      BY <3>2 DEF LockFence, Goto
    <3>3. CASE Fence(h)
      BY <3>3 DEF Fence, Goto
    <3>4. CASE WriteRecord(h)
      BY <3>4 DEF WriteRecord
    <3> QED
      BY <1>10, <3>1, <3>2, <3>3, <3>4
  <2> QED
    BY <2>1
<1>11. ASSUME NEW c \in Publishers, PublisherStart(c) \/ PublisherRead(c) \/ PublisherWrite(c)
      PROVE  Kinds'
  BY <1>11 DEF PublisherStart, PublisherRead, PublisherWrite, Goto, envVars, lockVars, cmdVars, histVars
<1>12. ASSUME NEW c \in Commands, LockClaim(c) \/ Stop(c)
      PROVE  Kinds'
  BY <1>12 DEF LockClaim, Stop, Goto, envVars, lockVars, cmdVars, histVars
<1>13. CASE Tick \/ ReplaceServer
  BY <1>13 DEF Tick, ReplaceServer, envVars, lockVars, cmdVars, histVars
<1> QED
  BY <1>1, <1>2, <1>3, <1>4, <1>5, <1>6, <1>7, <1>8, <1>9, <1>10, <1>11, <1>12, <1>13 DEF Next

\* The claim lock excludes every other command from the claim sections.
LEMMA LockedStep ==
  ASSUME TypeOK, Locked, [Next]_vars
  PROVE  Locked'
<1> USE NoneAssumption, ActorsAssumption DEF TypeOK, Locked, ClaimSection, Commands
<1>1. CASE UNCHANGED vars
  BY <1>1 DEF vars, envVars, lockVars, cmdVars, histVars
<1>2. ASSUME NEW p \in Pids, SpawnAgent(p) \/ ExitAgent(p)
      PROVE  Locked'
  BY <1>2 DEF SpawnAgent, ExitAgent, envVars, lockVars, cmdVars, histVars
<1>3. ASSUME NEW c \in Claimers, ClaimStart(c)
      PROVE  Locked'
  BY <1>3 DEF ClaimStart, Goto, envVars, lockVars, cmdVars, histVars
<1>4. ASSUME NEW c \in Claimers, ClaimDecide(c)
      PROVE  Locked'
  BY <1>4 DEF ClaimDecide, KeepForShell, WriteForShell, Goto, envVars, lockVars, cmdVars, histVars
<1>5. ASSUME NEW c \in Claimers, PublishClaim(c, "exported")
      PROVE  Locked'
  BY <1>5 DEF PublishClaim, Goto, envVars, lockVars, cmdVars, histVars
<1>6. ASSUME NEW h \in Hooks, PublishClaim(h, "resolved")
      PROVE  Locked'
  BY <1>6 DEF PublishClaim, Goto, envVars, lockVars, cmdVars, histVars
<1>7. ASSUME NEW h \in Hooks, HookRead(h)
      PROVE  Locked'
  BY <1>7 DEF HookRead, Goto, envVars, lockVars, cmdVars, histVars
<1>8. ASSUME NEW h \in Hooks, HookInherits(h) \/ HookOwns(h) \/ HookEstablishes(h)
      PROVE  Locked'
  BY <1>8 DEF HookInherits, HookOwns, HookEstablishes, Goto, envVars, lockVars, cmdVars, histVars
<1>9. ASSUME NEW h \in Hooks, HostDecide(h)
      PROVE  Locked'
  BY <1>9 DEF HostDecide, KeepForHost, WriteForHost, Goto, envVars, lockVars, cmdVars, histVars
<1>10. ASSUME NEW h \in Hooks, LockLaunch(h) \/ LockFence(h) \/ Fence(h) \/ WriteRecord(h)
      PROVE  Locked'
  BY <1>10 DEF LockLaunch, LockFence, Fence, WriteRecord, Goto, envVars, lockVars, cmdVars, histVars
<1>11. ASSUME NEW c \in Publishers, PublisherStart(c) \/ PublisherRead(c) \/ PublisherWrite(c)
      PROVE  Locked'
  BY <1>11 DEF PublisherStart, PublisherRead, PublisherWrite, Goto, envVars, lockVars, cmdVars, histVars
<1>12. ASSUME NEW c \in Commands, LockClaim(c) \/ Stop(c)
      PROVE  Locked'
  BY <1>12 DEF LockClaim, Stop, Goto, envVars, lockVars, cmdVars, histVars
<1>13. CASE Tick \/ ReplaceServer
  BY <1>13 DEF Tick, ReplaceServer, envVars, lockVars, cmdVars, histVars
<1> QED
  BY <1>1, <1>2, <1>3, <1>4, <1>5, <1>6, <1>7, <1>8, <1>9, <1>10, <1>11, <1>12, <1>13 DEF Next

\* The claim changes only under the lock of the command that changes it, so
\* what another command selected under the lock still stands.
LEMMA FreshStep ==
  ASSUME TypeOK, Kinds, Locked, Fresh, [Next]_vars
  PROVE  Fresh'
<1> USE NoneAssumption, ActorsAssumption DEF TypeOK, Kinds, Locked, Fresh, ClaimSection, Commands
<1>1. CASE UNCHANGED vars
  BY <1>1 DEF vars, envVars, lockVars, cmdVars, histVars
<1>2. ASSUME NEW p \in Pids, SpawnAgent(p) \/ ExitAgent(p)
      PROVE  Fresh'
  BY <1>2 DEF SpawnAgent, ExitAgent, envVars, lockVars, cmdVars, histVars
<1>3. ASSUME NEW c \in Claimers, ClaimStart(c)
      PROVE  Fresh'
  BY <1>3 DEF ClaimStart, Goto, envVars, lockVars, cmdVars, histVars
<1>4. ASSUME NEW c \in Claimers, ClaimDecide(c)
      PROVE  Fresh'
  BY <1>4 DEF ClaimDecide, KeepForShell, WriteForShell, Goto, envVars, lockVars, cmdVars, histVars
<1>5. ASSUME NEW c \in Claimers, PublishClaim(c, "exported")
      PROVE  Fresh'
  BY <1>5 DEF PublishClaim, Goto, envVars, lockVars, cmdVars, histVars
<1>6. ASSUME NEW h \in Hooks, PublishClaim(h, "resolved")
      PROVE  Fresh'
  BY <1>6 DEF PublishClaim, Goto, envVars, lockVars, cmdVars, histVars
<1>7. ASSUME NEW h \in Hooks, HookRead(h)
      PROVE  Fresh'
  BY <1>7 DEF HookRead, Goto, envVars, lockVars, cmdVars, histVars
<1>8. ASSUME NEW h \in Hooks, HookInherits(h) \/ HookOwns(h) \/ HookEstablishes(h)
      PROVE  Fresh'
  BY <1>8 DEF HookInherits, HookOwns, HookEstablishes, Goto, envVars, lockVars, cmdVars, histVars
<1>9. ASSUME NEW h \in Hooks, HostDecide(h)
      PROVE  Fresh'
  BY <1>9 DEF HostDecide, KeepForHost, WriteForHost, Goto, envVars, lockVars, cmdVars, histVars
<1>10. ASSUME NEW h \in Hooks, LockLaunch(h) \/ LockFence(h) \/ Fence(h) \/ WriteRecord(h)
      PROVE  Fresh'
  BY <1>10 DEF LockLaunch, LockFence, Fence, WriteRecord, Goto, envVars, lockVars, cmdVars, histVars
<1>11. ASSUME NEW c \in Publishers, PublisherStart(c) \/ PublisherRead(c) \/ PublisherWrite(c)
      PROVE  Fresh'
  BY <1>11 DEF PublisherStart, PublisherRead, PublisherWrite, Goto, envVars, lockVars, cmdVars, histVars
<1>12. ASSUME NEW c \in Commands, LockClaim(c) \/ Stop(c)
      PROVE  Fresh'
  BY <1>12 DEF LockClaim, Stop, Goto, envVars, lockVars, cmdVars, histVars
<1>13. CASE Tick \/ ReplaceServer
  BY <1>13 DEF Tick, ReplaceServer, envVars, lockVars, cmdVars, histVars
<1> QED
  BY <1>1, <1>2, <1>3, <1>4, <1>5, <1>6, <1>7, <1>8, <1>9, <1>10, <1>11, <1>12, <1>13 DEF Next

\* A shell's command carries and selects shells' launches.
LEMMA ShellReadStep ==
  ASSUME TypeOK, Kinds, ClaimsHonest, ShellRead, [Next]_vars
  PROVE  ShellRead'
<1> USE NoneAssumption, ActorsAssumption DEF TypeOK, Kinds, ClaimsHonest, Honest, ShellRead, Commands
<1>1. CASE UNCHANGED vars
  BY <1>1 DEF vars, envVars, lockVars, cmdVars, histVars
<1>2. ASSUME NEW p \in Pids, SpawnAgent(p) \/ ExitAgent(p)
      PROVE  ShellRead'
  BY <1>2 DEF SpawnAgent, ExitAgent, envVars, lockVars, cmdVars, histVars
<1>3. ASSUME NEW c \in Claimers, ClaimStart(c)
      PROVE  ShellRead'
  BY <1>3 DEF ClaimStart, Goto, envVars, lockVars, cmdVars, histVars, Exported
<1>4. ASSUME NEW c \in Claimers, ClaimDecide(c)
      PROVE  ShellRead'
  <2>1. [launch |-> launch[c], owner |-> None, tty |-> at[c], obs |-> stamp[c]] \in Claim
    BY <1>4 DEF ClaimDecide, Goto, Claim, Launches
  <2> QED
    BY <2>1, <1>4 DEF ClaimDecide, KeepForShell, WriteForShell, Goto, envVars, lockVars, cmdVars, histVars
<1>5. ASSUME NEW c \in Claimers, PublishClaim(c, "exported")
      PROVE  ShellRead'
  BY <1>5 DEF PublishClaim, Goto, envVars, lockVars, cmdVars, histVars
<1>6. ASSUME NEW h \in Hooks, PublishClaim(h, "resolved")
      PROVE  ShellRead'
  BY <1>6 DEF PublishClaim, Goto, envVars, lockVars, cmdVars, histVars
<1>7. ASSUME NEW h \in Hooks, HookRead(h)
      PROVE  ShellRead'
  BY <1>7 DEF HookRead, Goto, envVars, lockVars, cmdVars, histVars
<1>8. ASSUME NEW h \in Hooks, HookInherits(h) \/ HookOwns(h) \/ HookEstablishes(h)
      PROVE  ShellRead'
  BY <1>8 DEF HookInherits, HookOwns, HookEstablishes, Goto, envVars, lockVars, cmdVars, histVars
<1>9. ASSUME NEW h \in Hooks, HostDecide(h)
      PROVE  ShellRead'
  BY <1>9 DEF HostDecide, KeepForHost, WriteForHost, Goto, envVars, lockVars, cmdVars, histVars
<1>10. ASSUME NEW h \in Hooks, LockLaunch(h) \/ LockFence(h) \/ Fence(h) \/ WriteRecord(h)
      PROVE  ShellRead'
  BY <1>10 DEF LockLaunch, LockFence, Fence, WriteRecord, Goto, envVars, lockVars, cmdVars, histVars
<1>11. ASSUME NEW c \in Publishers, PublisherStart(c) \/ PublisherRead(c) \/ PublisherWrite(c)
      PROVE  ShellRead'
  BY <1>11 DEF PublisherStart, PublisherRead, PublisherWrite, Goto, envVars, lockVars, cmdVars, histVars
<1>12. ASSUME NEW c \in Commands, LockClaim(c) \/ Stop(c)
      PROVE  ShellRead'
  BY <1>12 DEF LockClaim, Stop, Goto, envVars, lockVars, cmdVars, histVars
<1>13. CASE Tick \/ ReplaceServer
  BY <1>13 DEF Tick, ReplaceServer, envVars, lockVars, cmdVars, histVars
<1> QED
  BY <1>1, <1>2, <1>3, <1>4, <1>5, <1>6, <1>7, <1>8, <1>9, <1>10, <1>11, <1>12, <1>13 DEF Next

\* A hook resolves only to a claim it may write under.
LEMMA HookResolvedStep ==
  ASSUME TypeOK, Kinds, HookResolved, [Next]_vars
  PROVE  HookResolved'
<1> USE NoneAssumption, ActorsAssumption DEF TypeOK, Kinds, HookResolved, Commands
<1>1. CASE UNCHANGED vars
  BY <1>1 DEF vars, envVars, lockVars, cmdVars, histVars
<1>2. ASSUME NEW p \in Pids, SpawnAgent(p) \/ ExitAgent(p)
      PROVE  HookResolved'
  BY <1>2 DEF SpawnAgent, ExitAgent, envVars, lockVars, cmdVars, histVars
<1>3. ASSUME NEW c \in Claimers, ClaimStart(c)
      PROVE  HookResolved'
  BY <1>3 DEF ClaimStart, Goto, envVars, lockVars, cmdVars, histVars
<1>4. ASSUME NEW c \in Claimers, ClaimDecide(c)
      PROVE  HookResolved'
  BY <1>4 DEF ClaimDecide, KeepForShell, WriteForShell, Goto, envVars, lockVars, cmdVars, histVars
<1>5. ASSUME NEW c \in Claimers, PublishClaim(c, "exported")
      PROVE  HookResolved'
  BY <1>5 DEF PublishClaim, Goto, envVars, lockVars, cmdVars, histVars
<1>6. ASSUME NEW h \in Hooks, PublishClaim(h, "resolved")
      PROVE  HookResolved'
  BY <1>6 DEF PublishClaim, Goto, envVars, lockVars, cmdVars, histVars
<1>7. ASSUME NEW h \in Hooks, HookRead(h)
      PROVE  HookResolved'
  BY <1>7 DEF HookRead, Goto, envVars, lockVars, cmdVars, histVars, Process
<1>8. ASSUME NEW h \in Hooks, HookInherits(h) \/ HookOwns(h) \/ HookEstablishes(h)
      PROVE  HookResolved'
  BY <1>8 DEF HookInherits, HookOwns, HookEstablishes, Goto, envVars, lockVars, cmdVars, histVars
<1>9. ASSUME NEW h \in Hooks, HostDecide(h)
      PROVE  HookResolved'
  <2>1. [launch |-> h, owner |-> agent[h], tty |-> at[h], obs |-> stamp[h]] \in Claim
    BY <1>9 DEF HostDecide, Goto, Claim, Launches
  <2> QED
    BY <2>1, <1>9 DEF HostDecide, KeepForHost, WriteForHost, Goto, envVars, lockVars, cmdVars, histVars
<1>10. ASSUME NEW h \in Hooks, LockLaunch(h) \/ LockFence(h) \/ Fence(h) \/ WriteRecord(h)
      PROVE  HookResolved'
  BY <1>10 DEF LockLaunch, LockFence, Fence, WriteRecord, Goto, envVars, lockVars, cmdVars, histVars
<1>11. ASSUME NEW c \in Publishers, PublisherStart(c) \/ PublisherRead(c) \/ PublisherWrite(c)
      PROVE  HookResolved'
  BY <1>11 DEF PublisherStart, PublisherRead, PublisherWrite, Goto, envVars, lockVars, cmdVars, histVars
<1>12. ASSUME NEW c \in Commands, LockClaim(c) \/ Stop(c)
      PROVE  HookResolved'
  BY <1>12 DEF LockClaim, Stop, Goto, envVars, lockVars, cmdVars, histVars
<1>13. CASE Tick \/ ReplaceServer
  BY <1>13 DEF Tick, ReplaceServer, envVars, lockVars, cmdVars, histVars
<1> QED
  BY <1>1, <1>2, <1>3, <1>4, <1>5, <1>6, <1>7, <1>8, <1>9, <1>10, <1>11, <1>12, <1>13 DEF Next

\* Every claim, and every reading of one, is honest.
LEMMA ClaimsHonestStep ==
  ASSUME TypeOK, Kinds, ShellRead, HookResolved, ClaimsHonest, [Next]_vars
  PROVE  ClaimsHonest'
<1> USE NoneAssumption, ActorsAssumption DEF TypeOK, Kinds, ClaimsHonest, Honest, ShellRead, HookResolved, Commands, Launches, Claim
<1>1. CASE UNCHANGED vars
  BY <1>1 DEF vars, envVars, lockVars, cmdVars, histVars
<1>2. ASSUME NEW p \in Pids, SpawnAgent(p) \/ ExitAgent(p)
      PROVE  ClaimsHonest'
  BY <1>2 DEF SpawnAgent, ExitAgent, envVars, lockVars, cmdVars, histVars
<1>3. ASSUME NEW c \in Claimers, ClaimStart(c)
      PROVE  ClaimsHonest'
  BY <1>3 DEF ClaimStart, Goto, envVars, lockVars, cmdVars, histVars
<1>4. ASSUME NEW c \in Claimers, ClaimDecide(c)
      PROVE  ClaimsHonest'
  BY <1>4 DEF ClaimDecide, KeepForShell, WriteForShell, Goto, envVars, lockVars, cmdVars, histVars
<1>5. ASSUME NEW c \in Claimers, PublishClaim(c, "exported")
      PROVE  ClaimsHonest'
  BY <1>5 DEF PublishClaim, Goto, envVars, lockVars, cmdVars, histVars
<1>6. ASSUME NEW h \in Hooks, PublishClaim(h, "resolved")
      PROVE  ClaimsHonest'
  BY <1>6 DEF PublishClaim, Goto, envVars, lockVars, cmdVars, histVars
<1>7. ASSUME NEW h \in Hooks, HookRead(h)
      PROVE  ClaimsHonest'
  BY <1>7 DEF HookRead, Goto, envVars, lockVars, cmdVars, histVars
<1>8. ASSUME NEW h \in Hooks, HookInherits(h) \/ HookOwns(h) \/ HookEstablishes(h)
      PROVE  ClaimsHonest'
  BY <1>8 DEF HookInherits, HookOwns, HookEstablishes, Goto, envVars, lockVars, cmdVars, histVars
<1>9. ASSUME NEW h \in Hooks, HostDecide(h)
      PROVE  ClaimsHonest'
  <2>1. pc' = [pc EXCEPT ![h] = "publish"] /\ pc[h] = "decide" /\ agent' = agent
    BY <1>9 DEF HostDecide, Goto
  <2>2. ASSUME NEW cl \in Claim, Honest(cl)
        PROVE  Honest(cl)'
    BY <2>1, <2>2
  <2>3. PICK cl \in Claim : Honest(cl) /\ claim' = cl /\ seen' = [seen EXCEPT ![h] = cl]
    <3>1. CASE KeepForHost(h)
      BY <3>1 DEF KeepForHost
    <3>2. CASE WriteForHost(h)
      <4> DEFINE new == [launch |-> h, owner |-> agent[h], tty |-> at[h], obs |-> stamp[h]]
      <4>1. claim' = new /\ seen' = [seen EXCEPT ![h] = new]
        BY <3>2 DEF WriteForHost
      <4>2. new \in Claim /\ Honest(new)
        BY <2>1
      <4> QED
        BY <4>1, <4>2
    <3> QED
      BY <1>9, <3>1, <3>2 DEF HostDecide
  <2>4. ASSUME NEW d \in Commands, seen'[d] # None
        PROVE  Honest(seen[d])'
    <3>1. CASE d = h
      <4>1. seen'[d] = cl
        BY <3>1, <2>3
      <4> QED
        BY <4>1, <2>2, <2>3
    <3>2. CASE d # h
      <4>1. seen'[d] = seen[d]
        BY <3>2, <2>3
      <4> QED
        BY <4>1, <2>4, <2>2
    <3> QED
      BY <3>1, <3>2
  <2>5. Honest(claim)'
    BY <2>2, <2>3
  <2> QED
    BY <2>4, <2>5
<1>10. ASSUME NEW h \in Hooks, LockLaunch(h) \/ LockFence(h) \/ Fence(h) \/ WriteRecord(h)
      PROVE  ClaimsHonest'
  BY <1>10 DEF LockLaunch, LockFence, Fence, WriteRecord, Goto, envVars, lockVars, cmdVars, histVars
<1>11. ASSUME NEW c \in Publishers, PublisherStart(c) \/ PublisherRead(c) \/ PublisherWrite(c)
      PROVE  ClaimsHonest'
  BY <1>11 DEF PublisherStart, PublisherRead, PublisherWrite, Goto, envVars, lockVars, cmdVars, histVars
<1>12. ASSUME NEW c \in Commands, LockClaim(c) \/ Stop(c)
      PROVE  ClaimsHonest'
  BY <1>12 DEF LockClaim, Stop, Goto, envVars, lockVars, cmdVars, histVars
<1>13. CASE Tick \/ ReplaceServer
  BY <1>13 DEF Tick, ReplaceServer, envVars, lockVars, cmdVars, histVars
<1> QED
  BY <1>1, <1>2, <1>3, <1>4, <1>5, <1>6, <1>7, <1>8, <1>9, <1>10, <1>11, <1>12, <1>13 DEF Next

\* Only its own agent writes the launch a hook named.
LEMMA WrittenStep ==
  ASSUME TypeOK, Kinds, ClaimsHonest, HookResolved, Written, [Next]_vars
  PROVE  Written'
<1> USE NoneAssumption, ActorsAssumption DEF TypeOK, Kinds, ClaimsHonest, Honest, HookResolved, Written, Commands, Launches
<1>1. CASE UNCHANGED vars
  BY <1>1 DEF vars, envVars, lockVars, cmdVars, histVars
<1>2. ASSUME NEW p \in Pids, SpawnAgent(p) \/ ExitAgent(p)
      PROVE  Written'
  BY <1>2 DEF SpawnAgent, ExitAgent, envVars, lockVars, cmdVars, histVars
<1>3. ASSUME NEW c \in Claimers, ClaimStart(c)
      PROVE  Written'
  BY <1>3 DEF ClaimStart, Goto, envVars, lockVars, cmdVars, histVars
<1>4. ASSUME NEW c \in Claimers, ClaimDecide(c)
      PROVE  Written'
  BY <1>4 DEF ClaimDecide, KeepForShell, WriteForShell, Goto, envVars, lockVars, cmdVars, histVars
<1>5. ASSUME NEW c \in Claimers, PublishClaim(c, "exported")
      PROVE  Written'
  BY <1>5 DEF PublishClaim, Goto, envVars, lockVars, cmdVars, histVars
<1>6. ASSUME NEW h \in Hooks, PublishClaim(h, "resolved")
      PROVE  Written'
  BY <1>6 DEF PublishClaim, Goto, envVars, lockVars, cmdVars, histVars
<1>7. ASSUME NEW h \in Hooks, HookRead(h)
      PROVE  Written'
  BY <1>7 DEF HookRead, Goto, envVars, lockVars, cmdVars, histVars
<1>8. ASSUME NEW h \in Hooks, HookInherits(h) \/ HookOwns(h) \/ HookEstablishes(h)
      PROVE  Written'
  BY <1>8 DEF HookInherits, HookOwns, HookEstablishes, Goto, envVars, lockVars, cmdVars, histVars
<1>9. ASSUME NEW h \in Hooks, HostDecide(h)
      PROVE  Written'
  BY <1>9 DEF HostDecide, KeepForHost, WriteForHost, Goto, envVars, lockVars, cmdVars, histVars
<1>10. ASSUME NEW h \in Hooks, LockLaunch(h) \/ LockFence(h) \/ Fence(h) \/ WriteRecord(h)
      PROVE  Written'
  BY <1>10 DEF LockLaunch, LockFence, Fence, WriteRecord, Goto, envVars, lockVars, cmdVars, histVars
<1>11. ASSUME NEW c \in Publishers, PublisherStart(c) \/ PublisherRead(c) \/ PublisherWrite(c)
      PROVE  Written'
  BY <1>11 DEF PublisherStart, PublisherRead, PublisherWrite, Goto, envVars, lockVars, cmdVars, histVars
<1>12. ASSUME NEW c \in Commands, LockClaim(c) \/ Stop(c)
      PROVE  Written'
  BY <1>12 DEF LockClaim, Stop, Goto, envVars, lockVars, cmdVars, histVars
<1>13. CASE Tick \/ ReplaceServer
  BY <1>13 DEF Tick, ReplaceServer, envVars, lockVars, cmdVars, histVars
<1> QED
  BY <1>1, <1>2, <1>3, <1>4, <1>5, <1>6, <1>7, <1>8, <1>9, <1>10, <1>11, <1>12, <1>13 DEF Next

\* What is published is the claim.
LEMMA SettledStep ==
  ASSUME TypeOK, Kinds, Fresh, ShellRead, HookResolved, SettledTerminal, [Next]_vars
  PROVE  SettledTerminal'
<1> USE NoneAssumption, ActorsAssumption DEF TypeOK, Kinds, Fresh, ShellRead, HookResolved, SettledTerminal, Commands, Launches, Claim
<1>1. CASE UNCHANGED vars
  BY <1>1 DEF vars, envVars, lockVars, cmdVars, histVars
<1>2. ASSUME NEW p \in Pids, SpawnAgent(p) \/ ExitAgent(p)
      PROVE  SettledTerminal'
  BY <1>2 DEF SpawnAgent, ExitAgent, envVars, lockVars, cmdVars, histVars
<1>3. ASSUME NEW c \in Claimers, ClaimStart(c)
      PROVE  SettledTerminal'
  BY <1>3 DEF ClaimStart, Goto, envVars, lockVars, cmdVars, histVars
<1>4. ASSUME NEW c \in Claimers, ClaimDecide(c)
      PROVE  SettledTerminal'
  BY <1>4 DEF ClaimDecide, KeepForShell, WriteForShell, Goto, envVars, lockVars, cmdVars, histVars
<1>5. ASSUME NEW c \in Claimers, PublishClaim(c, "exported")
      PROVE  SettledTerminal'
  BY <1>5 DEF PublishClaim, Goto, envVars, lockVars, cmdVars, histVars
<1>6. ASSUME NEW h \in Hooks, PublishClaim(h, "resolved")
      PROVE  SettledTerminal'
  BY <1>6 DEF PublishClaim, Goto, envVars, lockVars, cmdVars, histVars
<1>7. ASSUME NEW h \in Hooks, HookRead(h)
      PROVE  SettledTerminal'
  BY <1>7 DEF HookRead, Goto, envVars, lockVars, cmdVars, histVars
<1>8. ASSUME NEW h \in Hooks, HookInherits(h) \/ HookOwns(h) \/ HookEstablishes(h)
      PROVE  SettledTerminal'
  BY <1>8 DEF HookInherits, HookOwns, HookEstablishes, Goto, envVars, lockVars, cmdVars, histVars
<1>9. ASSUME NEW h \in Hooks, HostDecide(h)
      PROVE  SettledTerminal'
  BY <1>9 DEF HostDecide, KeepForHost, WriteForHost, Goto, envVars, lockVars, cmdVars, histVars
<1>10. ASSUME NEW h \in Hooks, LockLaunch(h) \/ LockFence(h) \/ Fence(h) \/ WriteRecord(h)
      PROVE  SettledTerminal'
  BY <1>10 DEF LockLaunch, LockFence, Fence, WriteRecord, Goto, envVars, lockVars, cmdVars, histVars
<1>11. ASSUME NEW c \in Publishers, PublisherStart(c) \/ PublisherRead(c) \/ PublisherWrite(c)
      PROVE  SettledTerminal'
  BY <1>11 DEF PublisherStart, PublisherRead, PublisherWrite, Goto, envVars, lockVars, cmdVars, histVars
<1>12. ASSUME NEW c \in Commands, LockClaim(c) \/ Stop(c)
      PROVE  SettledTerminal'
  BY <1>12 DEF LockClaim, Stop, Goto, envVars, lockVars, cmdVars, histVars
<1>13. CASE Tick \/ ReplaceServer
  BY <1>13 DEF Tick, ReplaceServer, envVars, lockVars, cmdVars, histVars
<1> QED
  BY <1>1, <1>2, <1>3, <1>4, <1>5, <1>6, <1>7, <1>8, <1>9, <1>10, <1>11, <1>12, <1>13 DEF Next

-----------------------------------------------------------------------------
(***************************************************************************)
(* The theorems.                                                           *)
(***************************************************************************)

\* The inductive invariant holds in every state: the claim protocol keeps its
\* locks, its readings and its claims consistent (launch.rs, lifecycle.rs).
THEOREM Invariance == Spec => []IInv
<1>1. Init => IInv
  <2> SUFFICES ASSUME Init PROVE IInv
    OBVIOUS
  <2> USE NoneAssumption, PaneTtyAssumption, BoundsAssumption DEF Init
  <2>1. TypeOK
    <3>1. proc \in [Pids -> [life : 0..MaxLife, up : {"none", "running", "zombie"},
                            tty : Ttys, env : Launches \cup {None}]]
      OBVIOUS
    <3>2. launchLock \in [Launches -> Hooks \cup {None}] /\ term \in [Ttys -> Launches \cup {None}]
          /\ writers \in [Launches -> SUBSET Process]
      OBVIOUS
    <3>3. agent \in [Hooks -> Process \cup {None}] /\ host \in [Hooks -> BOOLEAN]
      OBVIOUS
    <3>4. pc \in [Commands -> States] /\ at \in [Commands -> Ttys]
          /\ launch \in [Commands -> Launches \cup {None}]
          /\ stamp \in [Commands -> 0..MaxClock] /\ seen \in [Commands -> Claim \cup {None}]
      BY DEF States
    <3>5. current \in BOOLEAN /\ owed \in BOOLEAN
      OBVIOUS
    <3>6. clock \in 0..MaxClock /\ lives \in 0..MaxLife
      OBVIOUS
    <3>7. claim \in Claim \cup {None} /\ claimLock \in Commands \cup {None}
      OBVIOUS
    <3> HIDE DEF Init
    <3> QED
      BY <3>1, <3>2, <3>3, <3>4, <3>5, <3>6, <3>7 DEF TypeOK
  <2>2. Locked /\ Fresh /\ ClaimsHonest /\ Kinds
    BY DEF Locked, Fresh, ClaimsHonest, Kinds, ClaimSection, Commands
  <2>3. ShellRead /\ HookResolved /\ Written /\ SettledTerminal
    BY DEF ShellRead, HookResolved, Written, SettledTerminal, Commands, Launches
  <2> QED
    BY <2>1, <2>2, <2>3 DEF IInv
<1>2. IInv /\ [Next]_vars => IInv'
  BY TypeStep, KindsStep, LockedStep, FreshStep, ShellReadStep, HookResolvedStep,
     ClaimsHonestStep, WrittenStep, SettledStep DEF IInv
<1> QED
  BY <1>1, <1>2, PTL DEF Spec

\* Every variable keeps its type (PaneClaim's state).
THEOREM TypeCorrect == Spec => []TypeOK
<1>1. IInv => TypeOK
  BY DEF IInv
<1> QED
  BY <1>1, Invariance, PTL

\* No two commands decide on, publish or fence against a pane's claim at once
\* (records::with_lock on claim_lock).
THEOREM Exclusion == Spec => []OneInClaimSection
<1>1. IInv => OneInClaimSection
  BY DEF IInv, Locked, OneInClaimSection
<1> QED
  BY <1>1, Invariance, PTL

\* A hook that writes does so under exactly the claim it resolved against, at
\* its proven terminal (ResolvedLaunch::lapsed).
THEOREM Fencing == Spec => []FencedWrites
<1>1. IInv => FencedWrites
  BY DEF IInv, Fresh, HookResolved, FencedWrites, Writing, Commands
<1> QED
  BY <1>1, Invariance, PTL

\* Records of a self-owned launch are written by the one agent process that
\* claimed it, whatever pids the kernel reuses and whatever inherited its
\* launch id (HostProof::of_claim, inherited_claim_matches).
THEOREM OneWriter == Spec => []SelfOwnedLaunchHasOneWriter
<1>1. IInv => SelfOwnedLaunchHasOneWriter
  BY DEF IInv, Written, SelfOwnedLaunchHasOneWriter
<1> QED
  BY <1>1, Invariance, PTL

\* A shell is handed only the launch of a shell claim (claim_launch_at_tty).
THEOREM ExportedIsShells == Spec => []ExportedLaunchIsShells
<1>1. IInv => ExportedLaunchIsShells
  BY DEF IInv, ShellRead, ExportedLaunchIsShells
<1> QED
  BY <1>1, Invariance, PTL

\* The claim's terminal names its launch once it is published, whatever is
\* published meanwhile (publish_claim and publish_pane under the claim lock).
THEOREM Settled == Spec => []SettledTerminal
<1>1. IInv => SettledTerminal
  BY DEF IInv
<1> QED
  BY <1>1, Invariance, PTL

\* What a step that changes the claim did: it is a shell's write or a host's.
LEMMA ClaimChange ==
  ASSUME TypeOK, [Next]_vars, claim' # claim
  PROVE  \/ \E c \in Claimers : ClaimDecide(c) /\ WriteForShell(c)
         \/ \E h \in Hooks : HostDecide(h) /\ WriteForHost(h)
<1> USE DEF envVars, lockVars, cmdVars, histVars
<1>1. CASE UNCHANGED vars
  BY <1>1 DEF vars
<1>2. CASE \E p \in Pids : SpawnAgent(p) \/ ExitAgent(p)
  BY <1>2 DEF SpawnAgent, ExitAgent
<1>3. CASE Tick \/ ReplaceServer
  BY <1>3 DEF Tick, ReplaceServer
<1>4. CASE \E c \in Claimers : ClaimStart(c) \/ ClaimDecide(c) \/ PublishClaim(c, "exported")
  BY <1>4 DEF ClaimStart, ClaimDecide, KeepForShell, PublishClaim
<1>5. CASE \E h \in Hooks :
             \/ HookRead(h) \/ HookInherits(h) \/ HookOwns(h) \/ HookEstablishes(h)
             \/ HostDecide(h) \/ PublishClaim(h, "resolved")
             \/ LockLaunch(h) \/ LockFence(h) \/ Fence(h) \/ WriteRecord(h)
  BY <1>5 DEF HookRead, HookInherits, HookOwns, HookEstablishes, HostDecide, KeepForHost,
              PublishClaim, LockLaunch, LockFence, Fence, WriteRecord
<1>6. CASE \E c \in Publishers : PublisherStart(c) \/ PublisherRead(c) \/ PublisherWrite(c)
  BY <1>6 DEF PublisherStart, PublisherRead, PublisherWrite
<1>7. CASE \E c \in Commands : LockClaim(c) \/ Stop(c)
  BY <1>7 DEF LockClaim, Stop
<1> QED
  BY <1>1, <1>2, <1>3, <1>4, <1>5, <1>6, <1>7 DEF Next

\* A claim whose agent still runs passes to no other agent (owner_state under
\* the claim lock, claim_for_host).
THEOREM LiveOwnerKeeps == Spec => LiveOwnerKeepsPane
<1>1. TypeOK /\ [Next]_vars =>
        [claim' # claim /\ claim # None /\ claim.owner # None /\ Runs(claim.owner)
           => claim'.owner = None]_vars
  <2> SUFFICES ASSUME TypeOK, [Next]_vars, claim' # claim, claim # None,
                      claim.owner # None, Runs(claim.owner)
               PROVE  claim'.owner = None
    OBVIOUS
  <2>1. ~ \E h \in Hooks : WriteForHost(h)
    BY DEF WriteForHost, OwnerGone, Runs
  <2>2. PICK c \in Claimers : WriteForShell(c)
    BY <2>1, ClaimChange
  <2> QED
    BY <2>2 DEF WriteForShell
<1> QED
  BY <1>1, TypeCorrect, PTL DEF Spec, LiveOwnerKeepsPane

\* A pane a shell claimed never passes to an agent's own claim.
THEOREM ShellClaimStays == Spec => ShellClaimStaysShells
<1>1. TypeOK /\ [Next]_vars =>
        [claim' # claim /\ claim # None /\ claim.owner = None => claim'.owner = None]_vars
  <2> SUFFICES ASSUME TypeOK, [Next]_vars, claim' # claim, claim # None, claim.owner = None
               PROVE  claim'.owner = None
    OBVIOUS
  <2>1. ~ \E h \in Hooks : WriteForHost(h)
    BY DEF WriteForHost
  <2>2. PICK c \in Claimers : WriteForShell(c)
    BY <2>1, ClaimChange
  <2> QED
    BY <2>2 DEF WriteForShell
<1> QED
  BY <1>1, TypeCorrect, PTL DEF Spec, ShellClaimStaysShells

\* A shell's claim replaces only one stamped before it (claim_launch_at_tty).
THEOREM DelayedShellLoses == Spec => DelayedShellClaimLoses
<1>1. IInv /\ [Next]_vars =>
        [claim' # claim /\ claim # None /\ claim'.owner = None => claim'.obs > claim.obs]_vars
  <2> SUFFICES ASSUME IInv, [Next]_vars, claim' # claim, claim # None, claim'.owner = None
               PROVE  claim'.obs > claim.obs
    OBVIOUS
  <2>1. CASE \E c \in Claimers : WriteForShell(c)
    BY <2>1 DEF WriteForShell
  <2>2. CASE \E h \in Hooks : HostDecide(h) /\ WriteForHost(h)
    <3>1. PICK h \in Hooks : HostDecide(h) /\ WriteForHost(h)
      BY <2>2
    <3>2. agent[h] # None
      BY <3>1, NoneAssumption DEF IInv, HookResolved, HostDecide, Goto
    <3> QED
      BY <3>1, <3>2 DEF WriteForHost
  <2> QED
    BY <2>1, <2>2, ClaimChange DEF IInv
<1> QED
  BY <1>1, Invariance, PTL DEF Spec, DelayedShellClaimLoses

-----------------------------------------------------------------------------
(***************************************************************************)
(* TurnFollower: a failure read late is told where it happened.            *)
(***************************************************************************)
\* The lead turn a line of the rollout is about; a review is its turn's.
Lead(id) == IF id > MaxTurns THEN id - MaxTurns ELSE id
IsStart(i, t) == rollout[i].kind = "start" /\ rollout[i].turn = t
IsEnd(i, t) == rollout[i].kind # "start" /\ rollout[i].turn = t
IsFailed(i, t) == rollout[i].kind = "failed" /\ rollout[i].turn = t

\* Codex writes turn after turn: a start, the reviews inside, an end.
RolloutOK ==
  /\ \A i \in DOMAIN rollout : Lead(rollout[i].turn) \in 1..turns
  /\ \A i, j \in DOMAIN rollout : i < j => Lead(rollout[i].turn) <= Lead(rollout[j].turn)
  /\ \A i \in DOMAIN rollout : rollout[i].turn > MaxTurns =>
       rollout[i].kind = "start" /\ rollout[i].parent = rollout[i].turn - MaxTurns
  /\ \A i, j \in DOMAIN rollout : IsStart(i, Lead(rollout[j].turn)) => i <= j
  /\ \A i, j \in DOMAIN rollout : IsEnd(i, Lead(rollout[j].turn)) => j <= i
  /\ \A t \in 1..turns : \E i \in DOMAIN rollout : IsStart(i, t)
  /\ \A t \in 1..turns : t # running <=> \E i \in DOMAIN rollout : IsEnd(i, t)

\* The turns that failed, those of which a hook has a record, and those of which nothing is
\* left to record: the failure is, or an end that stands.
FailedTurns == {t \in Turns : Failed(t)}
HookedTurns == {t \in Turns : \E r \in records : r.turn = t /\ r.kind # "failed"}
IsSettled(t) ==
  \/ \E r \in Of(t) : r.kind = "failed"
  \/ Of(t) # {} /\ Ends(Last(Of(t))) /\ ~WentOn(Last(Of(t)))
SettledTurns == {t \in Turns : IsSettled(t)}

\* Codex waits for the hook that runs, which starts a follower once it has a record.
HookOK ==
  /\ running \in {0, turns}
  /\ hook.at # "none" => running # 0 /\ hook.turn = running /\ hook.kind # "none"
  /\ hook.at = "release" <=> lock = Asker
  /\ hook.at \in {"start", "release"} /\ bound => hook.turn \in HookedTurns
  /\ Len(followers) + (IF hook.at = "none" THEN 0 ELSE 1) <= hooksRun

\* The hooks whose stamp may be on record.
Past == IF hook.at = "apply" THEN hooksRun - 1 ELSE hooksRun

\* Every stamp is a hook's, or one put less far after it than the next hook's is.
RecordOK(r) ==
  /\ r.turn \in 1..turns
  /\ r.kind = "failed" => r.turn \in FailedTurns
  /\ \E n \in 0..Past, j \in 0..r.turn : r.obs = Stamp(n) + j /\ (r.kind # "failed" => j = 0)
StampsOK ==
  /\ \A r \in records : RecordOK(r)
  /\ \E n \in 0..Past : latest = Stamp(n)
  /\ \E n \in 0..Past, j \in 0..MaxTurns : slot.obs = Stamp(n) + j /\ (slot.word # "notify" => j = 0)

\* Records stand in the order of their turns, and a failure after its turn's hooks.
OrderOK ==
  /\ \A r, q \in records : r.turn < q.turn => r.obs < q.obs
  /\ \A r, q \in records : r.turn = q.turn /\ r.kind = "failed" /\ q.kind # "failed" => q.obs < r.obs

\* A turn that failed before turn u is settled, or a hook of a turn since has a record.
Behind(t, u) == t \in FailedTurns \ SettledTurns => \E v \in HookedTurns : t < v /\ v <= u

\* A failure was put on record by one who left no failed turn behind.
FailuresOK == \A r \in records : r.kind = "failed" => \A t \in 1..(r.turn - 1) : Behind(t, r.turn)

\* A follower has read to where its turn is, settled what it passed, and started where a hook
\* has a record.
FollowerOK(g) ==
  /\ g.turn \in 1..turns /\ g.offset \in 0..Len(rollout)
  /\ \A i \in DOMAIN rollout : /\ i <= g.offset => Lead(rollout[i].turn) <= g.turn
                               /\ i > g.offset => Lead(rollout[i].turn) >= g.turn
  /\ g.ended = g.turn <=> \E i \in DOMAIN rollout : i <= g.offset /\ IsEnd(i, g.turn)
  /\ g.at = "recording" => g.turn \in FailedTurns
  /\ bound =>
       /\ \E s \in HookedTurns : s <= g.turn /\ g.before = s..(g.turn - 1)
       /\ \A t \in 1..(g.turn - 1) : Behind(t, g.turn)
       /\ g.at # "recording" /\ (\E i \in DOMAIN rollout : i <= g.offset /\ IsFailed(i, g.turn))
            => g.turn \in SettledTurns
FollowersOK == \A f \in DOMAIN followers : followers[f].at # "left" => FollowerOK(followers[f])

FollowInv ==
  /\ FollowTypeOK /\ RolloutOK /\ HookOK /\ StampsOK /\ OrderOK
  /\ FailuresOK /\ FollowersOK /\ NotifyIsOfNewestTurn

\* Stamps of hooks lie further apart than there are turns.
LEMMA Stamping ==
  /\ \A n \in Nat : Stamp(n) \in Nat
  /\ Stamp(0) = 0
  /\ \A m, n \in Nat : n < m => Stamp(n) + MaxTurns + 2 <= Stamp(m)
<1>1. MaxTurns \in Nat
  BY FollowerAssumption
<1>2. ASSUME NEW n \in Nat
      PROVE  Stamp(n) \in Nat
  BY <1>1 DEF Stamp
<1>3. ASSUME NEW m \in Nat, NEW n \in Nat, n < m
      PROVE  Stamp(n) + MaxTurns + 2 <= Stamp(m)
  <2>1. PICK d \in Nat : m = n + 1 + d
    <3>1. m - n - 1 \in Nat /\ m = n + 1 + (m - n - 1)
      BY <1>3
    <3> QED
      BY <3>1
  <2>2. (MaxTurns + 2) * (n + 1 + d) = (MaxTurns + 2) * n + (MaxTurns + 2) + (MaxTurns + 2) * d
    BY <1>1
  <2>3. (MaxTurns + 2) * d \in Nat /\ (MaxTurns + 2) * n \in Nat
    BY <1>1
  <2> QED
    BY <1>1, <2>1, <2>2, <2>3 DEF Stamp
<1> QED
  BY <1>1, <1>2, <1>3 DEF Stamp

\* A set of numbers has a least, and the first signal is one.
LEMMA LeastNumber ==
  ASSUME NEW T \in SUBSET Nat, T # {}
  PROVE  Min(T) \in T /\ \A k \in T : Min(T) <= k
<1>1. PICK m \in T : \A k \in T : ~(<<k, m>> \in OpToRel(<, Nat))
  BY NatLessThanWellFounded, WFMin
<1>2. \A k \in T : ~(k < m)
  BY <1>1 DEF OpToRel
<1>3. \E x \in T : \A k \in T : x <= k
  BY <1>2
<1> QED
  BY <1>3 DEF Min

\* Of records there is a last.
LEMMA LastRecord ==
  ASSUME NEW T \in SUBSET Record, T # {}
  PROVE  Last(T) \in T /\ \A q \in T : q.obs <= Last(T).obs
<1>1. PICK top \in Nat : top = Stamp(MaxHooks + 1)
  BY Stamping, FollowerAssumption
<1>2. \A r \in T : r.obs \in 0..top
  BY <1>1 DEF Record, Stamps
<1>3. PICK below : below = {b \in Nat : \E r \in T : b = top - r.obs}
  OBVIOUS
<1>4. below \subseteq Nat /\ below # {}
  <2>1. PICK r \in T : TRUE
    OBVIOUS
  <2>2. top - r.obs \in below
    BY <1>2, <1>3, <2>1
  <2> QED
    BY <1>3, <2>2
<1>5. PICK b \in below : \A d \in below : b <= d
  BY <1>4, LeastNumber
<1>6. PICK r \in T : b = top - r.obs
  BY <1>3
<1>7. ASSUME NEW q \in T
      PROVE  q.obs <= r.obs
  <2>1. top - q.obs \in below
    BY <1>2, <1>3
  <2> QED
    BY <1>2, <1>5, <1>6, <2>1
<1>8. \E x \in T : \A q \in T : q.obs <= x.obs
  BY <1>7
<1> QED
  BY <1>8 DEF Last

\* What is put just after several stamps is one more than the latest of them.
LEMMA AfterStamps ==
  ASSUME NEW a \in Nat, NEW b \in Nat, NEW c \in Nat
  PROVE  /\ JustAfter({a, b}) = IF a >= b THEN a + 1 ELSE b + 1
         /\ JustAfter({a, b, c}) \in {a + 1, b + 1, c + 1}
<1>1. Max({a, b}) = IF a >= b THEN a ELSE b
  <2>1. \E x \in {a, b} : \A y \in {a, b} : x >= y
    OBVIOUS
  <2>2. Max({a, b}) \in {a, b} /\ \A y \in {a, b} : Max({a, b}) >= y
    BY <2>1 DEF Max
  <2> QED
    BY <2>2
<1>2. Max({a, b, c}) \in {a, b, c}
  <2>1. \E x \in {a, b, c} : \A y \in {a, b, c} : x >= y
    <3>1. CASE a >= b /\ a >= c
      BY <3>1
    <3>2. CASE b >= a /\ b >= c
      BY <3>2
    <3>3. CASE c >= a /\ c >= b
      BY <3>3
    <3> QED
      BY <3>1, <3>2, <3>3
  <2> QED
    BY <2>1 DEF Max
<1> QED
  BY <1>1, <1>2 DEF JustAfter

\* What a step must keep for those who read on to be where they were: the rollout only grows
\* with the newest turn's lines, no hook's turn is forgotten, no settled failure undone.
Carries ==
  /\ turns' \in turns..MaxTurns /\ (bound' => bound)
  /\ \/ rollout' = rollout
     \/ \E line \in Line : Lead(line.turn) >= turns /\ rollout' = Append(rollout, line)
  /\ HookedTurns \subseteq HookedTurns'
  /\ FailedTurns \subseteq FailedTurns' /\ FailedTurns' \subseteq FailedTurns \cup {turns}
  /\ FailedTurns \cap SettledTurns \subseteq SettledTurns'

\* Who left no failed turn behind still left none.
LEMMA BehindKept ==
  ASSUME FollowTypeOK, Carries, NEW t \in Nat, NEW u \in Nat, t < turns, Behind(t, u)
  PROVE  Behind(t, u)'
<1>1. ASSUME t \in FailedTurns', t \notin SettledTurns'
      PROVE  \E v \in HookedTurns' : t < v /\ v <= u
  <2>1. t \in FailedTurns
    BY <1>1 DEF Carries, FollowTypeOK
  <2>2. t \notin SettledTurns
    BY <1>1, <2>1 DEF Carries
  <2> QED
    BY <2>1, <2>2 DEF Behind, Carries
<1> QED
  BY <1>1 DEF Behind

\* A follower that does not move stays where its turn is.
LEMMA FollowerKept ==
  ASSUME FollowTypeOK, Carries, NEW g \in Follower, FollowerOK(g)
  PROVE  FollowerOK(g)'
<1> USE FollowerAssumption
<1>1. /\ DOMAIN rollout \subseteq DOMAIN rollout' /\ Len(rollout) <= Len(rollout')
      /\ Len(rollout) \in Nat /\ Len(rollout') \in Nat
      /\ DOMAIN rollout = 1..Len(rollout) /\ DOMAIN rollout' = 1..Len(rollout')
      /\ \A i \in DOMAIN rollout : rollout'[i] = rollout[i] /\ rollout[i] \in Line
      /\ \A i \in DOMAIN rollout' \ DOMAIN rollout :
           i > Len(rollout) /\ rollout'[i] \in Line /\ Lead(rollout'[i].turn) >= turns
  <2>1. rollout \in Seq(Line) /\ Len(rollout) \in Nat /\ DOMAIN rollout = 1..Len(rollout)
        /\ \A i \in DOMAIN rollout : rollout[i] \in Line
    BY DEF FollowTypeOK
  <2>2. CASE rollout' = rollout
    BY <2>1, <2>2
  <2>3. CASE \E line \in Line : Lead(line.turn) >= turns /\ rollout' = Append(rollout, line)
    <3>1. PICK line \in Line : Lead(line.turn) >= turns /\ rollout' = Append(rollout, line)
      BY <2>3
    <3>2. Len(rollout') = Len(rollout) + 1 /\ DOMAIN rollout' = 1..(Len(rollout) + 1)
          /\ rollout'[Len(rollout) + 1] = line
          /\ \A i \in 1..Len(rollout) : rollout'[i] = rollout[i]
      BY <2>1, <3>1
    <3>3. \A i \in DOMAIN rollout' \ DOMAIN rollout : i = Len(rollout) + 1
      BY <2>1, <3>2
    <3> QED
      BY <2>1, <3>1, <3>2, <3>3
  <2> QED
    BY <2>2, <2>3 DEF Carries
<1>2. g.turn \in 1..turns /\ g.offset \in 0..Len(rollout) /\ turns \in Nat /\ turns' \in Nat
      /\ turns <= turns' /\ Len(rollout) \in Nat /\ turns <= MaxTurns
  BY DEF FollowerOK, FollowTypeOK, Carries
<1>3. g.turn \in 1..turns' /\ g.offset \in 0..Len(rollout')
  BY <1>1, <1>2
<1>4. ASSUME NEW i \in DOMAIN rollout'
      PROVE  /\ i <= g.offset => Lead(rollout'[i].turn) <= g.turn
             /\ i > g.offset => Lead(rollout'[i].turn) >= g.turn
  <2>1. CASE i \in DOMAIN rollout
    BY <1>1, <2>1 DEF FollowerOK
  <2>2. CASE i \notin DOMAIN rollout
    <3>1. i > Len(rollout) /\ Lead(rollout'[i].turn) >= turns /\ i \in Nat
      BY <1>1, <2>2
    <3>2. rollout'[i].turn \in Nat
      BY <1>1, <2>2 DEF Line, TurnIds
    <3>3. Lead(rollout'[i].turn) \in Int
      BY <3>2 DEF Lead
    <3> QED
      BY <1>2, <3>1, <3>3
  <2> QED
    BY <2>1, <2>2
<1>5. \A i \in DOMAIN rollout' : i <= g.offset => i \in DOMAIN rollout
  BY <1>1, <1>2
<1>6. g.ended = g.turn <=> \E i \in DOMAIN rollout' : i <= g.offset /\ IsEnd(i, g.turn)'
  BY <1>1, <1>5 DEF FollowerOK, IsEnd
<1>7. g.at = "recording" => g.turn \in FailedTurns'
  BY DEF FollowerOK, Carries
<1>8. ASSUME bound'
      PROVE  \E s \in HookedTurns' : s <= g.turn /\ g.before = s..(g.turn - 1)
  BY <1>8 DEF FollowerOK, Carries
<1>9. ASSUME bound', NEW t \in 1..(g.turn - 1)
      PROVE  Behind(t, g.turn)'
  <2>1. Behind(t, g.turn)
    BY <1>9 DEF FollowerOK, Carries
  <2> QED
    BY <1>2, <2>1, BehindKept
<1>10. ASSUME bound', g.at # "recording",
              \E i \in DOMAIN rollout' : i <= g.offset /\ IsFailed(i, g.turn)'
       PROVE  g.turn \in SettledTurns'
  <2>1. PICK i \in DOMAIN rollout : i <= g.offset /\ IsFailed(i, g.turn)
    BY <1>1, <1>5, <1>10 DEF IsFailed
  <2>2. g.turn \in SettledTurns
    BY <1>10, <2>1 DEF FollowerOK, Carries
  <2>3. g.turn \in FailedTurns
    BY <1>2, <2>1 DEF FailedTurns, Failed, IsFailed, Turns
  <2> QED
    BY <2>2, <2>3 DEF Carries
<1>11. \A t \in 1..(g.turn - 1) : bound' => Behind(t, g.turn)'
  BY <1>9
<1> QED
  BY <1>3, <1>4, <1>6, <1>7, <1>8, <1>9, <1>10 DEF FollowerOK

\* Followers are followers.
LEMMA FollowerTyped ==
  ASSUME FollowTypeOK, NEW f \in DOMAIN followers
  PROVE  followers[f] \in Follower
<1>1. followers \in Seq(Follower)
  BY DEF FollowTypeOK
<1> QED
  BY <1>1

\* Followers that do not move stay in place.
LEMMA FollowersKept ==
  ASSUME FollowTypeOK, FollowersOK, Carries, followers' = followers
  PROVE  FollowersOK'
<1>1. ASSUME NEW f \in DOMAIN followers, followers[f].at # "left"
      PROVE  FollowerOK(followers[f])'
  <2>1. PICK g \in Follower : g = followers[f]
    BY FollowerTyped
  <2>2. FollowerOK(g)'
    BY <1>1, <2>1, FollowerKept DEF FollowersOK
  <2> QED
    BY <2>1, <2>2
<1> QED
  BY <1>1 DEF FollowersOK

\* Failures on record stay in place.
LEMMA FailuresKept ==
  ASSUME FollowTypeOK, StampsOK, FailuresOK, Carries,
         {r \in records' : r.kind = "failed"} \subseteq records
  PROVE  FailuresOK'
<1>1. ASSUME NEW r \in records', r.kind = "failed", NEW t \in 1..(r.turn - 1)
      PROVE  Behind(t, r.turn)'
  <2>1. r \in records /\ r.turn \in 1..turns /\ turns \in Nat
    BY <1>1 DEF StampsOK, RecordOK, FollowTypeOK
  <2>2. Behind(t, r.turn)
    BY <1>1, <2>1 DEF FailuresOK
  <2> QED
    BY <2>1, <2>2, BehindKept
<1> QED
  BY <1>1 DEF FailuresOK

\* What is settled and hooked is told by the records.
LEMMA RecordsTell ==
  ASSUME UNCHANGED <<records, latest>>
  PROVE  HookedTurns' = HookedTurns /\ SettledTurns' = SettledTurns
BY DEF HookedTurns, SettledTurns, IsSettled, Of, WentOn, Ends, Last

\* The rollout goes on in order with a line of the newest turn: its start, its end or a
\* review that it starts while it runs.
LEMMA RolloutGrows ==
  ASSUME FollowTypeOK, RolloutOK, running \in {0, turns}, NEW line \in Line,
         rollout' = Append(rollout, line), turns' \in 1..MaxTurns,
         Lead(line.turn) = turns',
         line.turn > MaxTurns => line.kind = "start" /\ line.parent = turns',
         \/ /\ line.turn = turns' /\ line.kind = "start" /\ running = 0
            /\ turns' = turns + 1 /\ running' = turns'
         \/ /\ line.turn = turns' /\ line.kind # "start" /\ running = turns
            /\ turns' = turns /\ running' = 0
         \/ /\ line.turn > MaxTurns /\ running = turns
            /\ turns' = turns /\ running' = turns
  PROVE  RolloutOK' /\ turns <= turns'
         /\ (turns' = turns \/ ~Failed(turns'))
<1> USE FollowerAssumption
<1>1. PICK n \in Nat : n = Len(rollout) /\ DOMAIN rollout = 1..n
  BY DEF FollowTypeOK
<1>2. /\ DOMAIN rollout' = 1..(n + 1) /\ rollout'[n + 1] = line
      /\ \A i \in 1..n : rollout'[i] = rollout[i] /\ rollout[i] \in Line
  <2>1. rollout \in Seq(Line)
    BY DEF FollowTypeOK
  <2>2. DOMAIN rollout' = 1..(n + 1) /\ rollout'[n + 1] = line
    BY <1>1, <2>1
  <2>3. \A i \in 1..n : rollout'[i] = rollout[i] /\ rollout[i] \in Line
    BY <1>1, <2>1
  <2> QED
    BY <2>2, <2>3
<1>3. turns \in Nat /\ turns' \in Nat /\ MaxTurns \in Nat /\ turns <= turns' /\ turns' <= MaxTurns
  BY DEF FollowTypeOK
<1>4. \A i \in 1..n : Lead(rollout[i].turn) \in 1..turns
  BY <1>1 DEF RolloutOK
<1>5. \A i, j \in 1..n : i < j => Lead(rollout[i].turn) <= Lead(rollout[j].turn)
  BY <1>1 DEF RolloutOK
<1>6. \A i, j \in 1..n :
         rollout[i].kind = "start" /\ rollout[i].turn = Lead(rollout[j].turn) => i <= j
  BY <1>1 DEF RolloutOK, IsStart
<1>7. \A i, j \in 1..n :
         rollout[i].kind # "start" /\ rollout[i].turn = Lead(rollout[j].turn) => j <= i
  BY <1>1 DEF RolloutOK, IsEnd
<1>8. \A i \in 1..(n + 1) : Lead(rollout'[i].turn) \in 1..turns'
  <2> TAKE i \in 1..(n + 1)
  <2>1. CASE i \in 1..n
    BY <1>2, <1>3, <1>4, <2>1
  <2>2. CASE i = n + 1
    BY <1>2, <2>2
  <2> QED
    BY <1>1, <2>1, <2>2
<1>9. \A i, j \in 1..(n + 1) : i < j => Lead(rollout'[i].turn) <= Lead(rollout'[j].turn)
  <2> TAKE i, j \in 1..(n + 1)
  <2>1. CASE j \in 1..n /\ i < j
    <3>1. i \in 1..n
      BY <1>1, <2>1
    <3> QED
      BY <1>2, <1>5, <2>1, <3>1
  <2>2. CASE j = n + 1
    BY <1>2, <1>8, <2>2
  <2> QED
    BY <1>1, <2>1, <2>2
<1>10. \A i \in 1..(n + 1) : rollout'[i].turn > MaxTurns =>
        rollout'[i].kind = "start" /\ rollout'[i].parent = rollout'[i].turn - MaxTurns
  <2> TAKE i \in 1..(n + 1)
  <2>1. CASE i \in 1..n
    BY <1>1, <1>2, <2>1 DEF RolloutOK
  <2>2. CASE i = n + 1
    BY <1>2, <2>2 DEF Lead
  <2> QED
    BY <1>1, <2>1, <2>2
<1>11. \A i, j \in 1..(n + 1) : IsStart(i, Lead(rollout[j].turn))' => i <= j
  <2> SUFFICES ASSUME NEW i \in 1..(n + 1), NEW j \in 1..(n + 1),
                      rollout'[i].kind = "start", rollout'[i].turn = Lead(rollout'[j].turn)
               PROVE  i <= j
    BY DEF IsStart
  <2>1. CASE i \in 1..n /\ j \in 1..n
    BY <1>2, <1>6, <2>1
  <2>2. CASE j = n + 1
    BY <2>2
  <2>3. CASE i = n + 1 /\ j \in 1..n
    <3>1. line.kind = "start" /\ line.turn = Lead(rollout[j].turn)
      BY <1>2, <2>3
    <3>2. Lead(rollout[j].turn) \in 1..turns
      BY <1>4, <2>3
    <3>3. turns <= MaxTurns
      BY DEF FollowTypeOK
    <3> QED
      BY <1>3, <3>1, <3>2, <3>3
  <2> QED
    BY <1>1, <2>1, <2>2, <2>3
<1>12. \A i, j \in 1..(n + 1) : IsEnd(i, Lead(rollout[j].turn))' => j <= i
  <2> SUFFICES ASSUME NEW i \in 1..(n + 1), NEW j \in 1..(n + 1),
                      rollout'[i].kind # "start", rollout'[i].turn = Lead(rollout'[j].turn)
               PROVE  j <= i
    BY DEF IsEnd
  <2>1. CASE i \in 1..n /\ j \in 1..n
    BY <1>2, <1>7, <2>1
  <2>2. CASE i = n + 1
    BY <2>2
  <2>3. CASE j = n + 1 /\ i \in 1..n
    <3>1. rollout[i].kind # "start" /\ rollout[i].turn = turns'
      BY <1>2, <2>3
    <3>2. turns' = turns
      <4>1. PICK id : id = rollout[i].turn
        OBVIOUS
      <4>2. Lead(id) = turns'
        <5>1. id = turns' /\ ~(id > MaxTurns)
          BY <1>3, <3>1, <4>1
        <5> QED
          BY <5>1 DEF Lead
      <4>3. Lead(id) \in 1..turns
        BY <1>4, <2>3, <4>1
      <4> QED
        BY <1>3, <4>2, <4>3
    <3>3. running = turns /\ turns \in 1..turns
      BY <1>3, <3>2
    <3>4. ~ \E k \in DOMAIN rollout : IsEnd(k, turns)
      BY <3>3 DEF RolloutOK
    <3> QED
      BY <1>1, <2>3, <3>1, <3>2, <3>4 DEF IsEnd
  <2> QED
    BY <1>1, <2>1, <2>2, <2>3
<1>13. ASSUME NEW t \in 1..turns'
       PROVE  \E i \in 1..(n + 1) : IsStart(i, t)'
  <2>1. CASE t \in 1..turns
    <3>1. PICK i \in 1..n : IsStart(i, t)
      BY <1>1, <2>1 DEF RolloutOK
    <3> QED
      BY <1>1, <1>2, <3>1 DEF IsStart
  <2>2. CASE t = turns + 1 /\ turns' = turns + 1
    BY <1>1, <1>2, <1>3, <2>2 DEF IsStart
  <2> QED
    BY <1>3, <2>1, <2>2
<1>14. ASSUME NEW t \in 1..turns'
       PROVE  t # running' <=> \E i \in 1..(n + 1) : IsEnd(i, t)'
  <2>1. (\E i \in 1..(n + 1) : IsEnd(i, t)')
          <=> (\E i \in 1..n : IsEnd(i, t)) \/ (line.kind # "start" /\ line.turn = t)
    BY <1>1, <1>2 DEF IsEnd
  <2>2. CASE t \in 1..turns
    <3>1. t # running <=> \E i \in 1..n : IsEnd(i, t)
      BY <1>1, <2>2 DEF RolloutOK
    <3> QED
      BY <1>3, <2>1, <2>2, <3>1
  <2>3. CASE t = turns + 1 /\ turns' = turns + 1
    <3>1. ~ \E i \in 1..n : IsEnd(i, t)
      <4>1. ASSUME NEW i \in 1..n, rollout[i].turn = t
            PROVE  FALSE
        <5>1. Lead(rollout[i].turn) = t
          BY <1>3, <2>3, <4>1 DEF Lead
        <5> QED
          BY <1>3, <1>4, <2>3, <5>1
      <4> QED
        BY <4>1 DEF IsEnd
    <3> QED
      BY <1>3, <2>1, <2>3, <3>1
  <2> QED
    BY <1>3, <2>2, <2>3
<1>15. turns' = turns \/ ~Failed(turns')
  <2> SUFFICES ASSUME turns' = turns + 1, NEW i \in 1..n, rollout[i].turn = turns'
               PROVE  FALSE
    BY <1>1, <1>3 DEF Failed
  <2>1. Lead(rollout[i].turn) = turns'
    BY <1>3 DEF Lead
  <2> QED
    BY <1>3, <1>4, <2>1
<1> QED
  BY <1>2, <1>3, <1>8, <1>9, <1>10, <1>11, <1>12, <1>13, <1>14, <1>15 DEF RolloutOK

\* Records whose stamps stay where they were stay hooks' stamps or just after.
LEMMA StampsKept ==
  ASSUME FollowTypeOK, StampsOK, Carries, UNCHANGED <<records, latest, slot>>,
         Past <= Past', Past' \in Int
  PROVE  StampsOK'
<1>1. Past \in Int
  BY DEF Past, FollowTypeOK
<1>2. \A n \in 0..Past : n \in 0..Past'
  BY <1>1
<1>3. ASSUME NEW r \in records
      PROVE  RecordOK(r)'
  <2>1. RecordOK(r) /\ turns \in Nat /\ turns <= turns' /\ turns' \in Nat
    BY DEF StampsOK, Carries, FollowTypeOK
  <2>2. r.turn \in 1..turns' /\ (r.kind = "failed" => r.turn \in FailedTurns')
    BY <2>1 DEF RecordOK, Carries
  <2> QED
    BY <1>2, <2>1, <2>2 DEF RecordOK
<1>4. \E n \in 0..Past' : latest = Stamp(n)
  BY <1>2 DEF StampsOK
<1>5. \E n \in 0..Past', j \in 0..MaxTurns :
      slot.obs = Stamp(n) + j /\ (slot.word # "notify" => j = 0)
  BY <1>2 DEF StampsOK
<1>6. \A r \in records' : RecordOK(r)'
  BY <1>3
<1>7. (\E n \in 0..Past : latest = Stamp(n))'
  BY <1>4
<1>8. (\E n \in 0..Past, j \in 0..MaxTurns :
      slot.obs = Stamp(n) + j /\ (slot.word # "notify" => j = 0))'
  BY <1>5
<1> QED
  BY <1>6, <1>7, <1>8 DEF StampsOK

\* What Codex does leaves records and followers alone.
LEMMA CodexKeeps ==
  ASSUME FollowInv, Carries, UNCHANGED <<files, followers>>, Past <= Past', Past' \in Int
  PROVE  StampsOK' /\ OrderOK' /\ FailuresOK' /\ FollowersOK' /\ NotifyIsOfNewestTurn'
<1>1. records' = records /\ latest' = latest /\ slot' = slot /\ followers' = followers
  BY DEF files
<1>2. FollowTypeOK /\ StampsOK /\ OrderOK /\ FailuresOK /\ FollowersOK /\ NotifyIsOfNewestTurn
  BY DEF FollowInv
<1>3. OrderOK' /\ NotifyIsOfNewestTurn'
  BY <1>1, <1>2 DEF OrderOK, NotifyIsOfNewestTurn
<1>4. FailuresOK' /\ FollowersOK'
  BY <1>1, <1>2, FailuresKept, FollowersKept
<1>5. StampsOK'
  BY <1>1, <1>2, StampsKept
<1> QED
  BY <1>3, <1>4, <1>5

\* A turn that runs has not failed.
LEMMA RunningUnfailed ==
  ASSUME FollowTypeOK, RolloutOK, running # 0, running \in {0, turns}
  PROVE  ~Failed(turns) /\ turns \notin FailedTurns /\ turns \in 1..MaxTurns
         /\ ~ \E i \in DOMAIN rollout : IsEnd(i, turns)
<1>1. turns \in 1..turns /\ turns \in 1..MaxTurns /\ running = turns
  BY FollowerAssumption DEF FollowTypeOK
<1>2. ~ \E i \in DOMAIN rollout : IsEnd(i, turns)
  BY <1>1 DEF RolloutOK
<1>3. ~Failed(turns)
  BY <1>2 DEF Failed, IsEnd
<1> QED
  BY <1>1, <1>2, <1>3 DEF FailedTurns

\* The rollout carries on when it grows with a line of the newest turn.
LEMMA GrowthCarries ==
  ASSUME FollowTypeOK, UNCHANGED <<records, latest>>, bound' => bound,
         NEW line \in Line, rollout' = Append(rollout, line), turns' \in turns..MaxTurns,
         Lead(line.turn) = turns',
         line.kind = "failed" => line.turn = turns
  PROVE  Carries
<1> USE FollowerAssumption
<1>1. turns \in Nat /\ rollout \in Seq(Line)
  BY DEF FollowTypeOK
<1>2. Lead(line.turn) >= turns
  BY <1>1
<1>3. HookedTurns \subseteq HookedTurns' /\ FailedTurns \cap SettledTurns \subseteq SettledTurns'
  BY RecordsTell
<1>4. /\ DOMAIN rollout' = 1..(Len(rollout) + 1) /\ rollout'[Len(rollout) + 1] = line
      /\ DOMAIN rollout = 1..Len(rollout) /\ Len(rollout) \in Nat
      /\ \A i \in 1..Len(rollout) : rollout'[i] = rollout[i]
  BY <1>1
<1>5. ASSUME NEW t \in Turns, Failed(t)
      PROVE  Failed(t)'
  <2>1. PICK i \in DOMAIN rollout : rollout[i].kind = "failed" /\ rollout[i].turn = t
    BY <1>5 DEF Failed
  <2>2. i \in DOMAIN rollout' /\ rollout'[i] = rollout[i]
    BY <1>4
  <2> QED
    BY <2>1, <2>2 DEF Failed
<1>6. ASSUME NEW t \in Turns, Failed(t)', ~Failed(t)
      PROVE  t = turns
  <2>1. PICK i \in DOMAIN rollout' : rollout'[i].kind = "failed" /\ rollout'[i].turn = t
    BY <1>6 DEF Failed
  <2>2. CASE i \in DOMAIN rollout
    BY <1>4, <1>6, <2>1, <2>2 DEF Failed
  <2>3. CASE i = Len(rollout) + 1
    BY <1>4, <2>1, <2>3
  <2> QED
    BY <1>4, <2>2, <2>3
<1>7. FailedTurns \subseteq FailedTurns'
  BY <1>5 DEF FailedTurns
<1>8. FailedTurns' \subseteq FailedTurns \cup {turns}
  BY <1>6 DEF FailedTurns
<1> QED
  BY <1>1, <1>2, <1>3, <1>7, <1>8 DEF Carries

\* What is needed of a step that leaves Codex and the rollout alone.
LEMMA StillCarries ==
  ASSUME FollowTypeOK, UNCHANGED codex, bound' => bound, HookedTurns \subseteq HookedTurns',
         FailedTurns \cap SettledTurns \subseteq SettledTurns'
  PROVE  Carries /\ FailedTurns' = FailedTurns /\ (RolloutOK => RolloutOK')
<1> USE FollowerAssumption
<1>1. UNCHANGED <<rollout, running, turns>>
  BY DEF codex
<1>2. FailedTurns' = FailedTurns
  BY <1>1 DEF FailedTurns, Failed
<1>3. turns \in turns..MaxTurns
  BY DEF FollowTypeOK
<1>4. RolloutOK => RolloutOK'
  BY <1>1 DEF RolloutOK, IsStart, IsEnd
<1> QED
  BY <1>1, <1>2, <1>3, <1>4 DEF Carries

\* The start of a turn keeps the invariant.
LEMMA StartTurnKeeps == ASSUME FollowInv, StartTurn PROVE FollowInv'
<1> USE FollowerAssumption
<1>1. FollowTypeOK /\ RolloutOK /\ HookOK
  BY DEF FollowInv
<1>2. /\ bound /\ running = 0 /\ hook = NoHook /\ turns < MaxTurns
      /\ turns' = turns + 1 /\ running' = turns + 1
      /\ UNCHANGED <<files, followers, lock, named, bound, deaths, noticed>>
  BY DEF StartTurn
<1>3. \E parent \in {0, turns} : Writes("start", turns + 1, parent)
  BY DEF StartTurn
<1>4. PICK line : /\ line.kind = "start" /\ line.turn = turns + 1 /\ line \in Line
                  /\ rollout' = Append(rollout, line)
  <2>1. PICK parent \in {0, turns} : Writes("start", turns + 1, parent)
    BY <1>3
  <2>2. turns \in 0..MaxTurns /\ turns + 1 \in TurnIds /\ parent \in 0..MaxTurns
    BY <1>1, <1>2 DEF FollowTypeOK, TurnIds
  <2>3. [kind |-> "start", turn |-> turns + 1, parent |-> parent] \in Line
    BY <2>2 DEF Line
  <2> QED
    BY <2>1, <2>3 DEF Writes
<1>5. /\ turns \in Nat /\ turns' \in Nat /\ turns' \in 1..MaxTurns /\ turns' \in turns..MaxTurns
      /\ Lead(line.turn) = turns' /\ ~(line.turn > MaxTurns)
  BY <1>1, <1>2, <1>4 DEF FollowTypeOK, Lead
<1>6. RolloutOK'
  BY <1>1, <1>2, <1>4, <1>5, RolloutGrows DEF HookOK
<1>7. Carries
  BY <1>1, <1>2, <1>4, <1>5, GrowthCarries DEF files
<1>8. \/ /\ hooksRun < MaxHooks /\ hooksRun' = hooksRun + 1
         /\ hook' = [at |-> "apply", kind |-> "prompt", turn |-> turns + 1]
      \/ UNCHANGED <<hook, hooksRun>>
  BY DEF StartTurn
<1>9. hooksRun \in 0..MaxHooks /\ hooksRun' \in 0..MaxHooks /\ Past <= Past' /\ Past' \in Int
      /\ hook.at = "none"
  <2>1. hook.at = "none" /\ hooksRun \in 0..MaxHooks
    BY <1>1, <1>2 DEF NoHook, FollowTypeOK
  <2>2. Past = hooksRun
    BY <2>1 DEF Past
  <2>3. CASE hooksRun' = hooksRun + 1 /\ hooksRun < MaxHooks
          /\ hook' = [at |-> "apply", kind |-> "prompt", turn |-> turns + 1]
    BY <2>1, <2>2, <2>3 DEF Past
  <2>4. CASE UNCHANGED <<hook, hooksRun>>
    BY <2>1, <2>2, <2>4 DEF Past
  <2> QED
    BY <1>8, <2>1, <2>3, <2>4
<1>10. StampsOK' /\ OrderOK' /\ FailuresOK' /\ FollowersOK' /\ NotifyIsOfNewestTurn'
  BY <1>2, <1>7, <1>9, CodexKeeps DEF files
<1>11. HookOK'
  <2>1. CASE hook' = [at |-> "apply", kind |-> "prompt", turn |-> turns + 1] /\ hooksRun' = hooksRun + 1
    BY <1>1, <1>2, <1>5, <1>9, <2>1 DEF HookOK, FollowTypeOK
  <2>2. CASE UNCHANGED <<hook, hooksRun>>
    BY <1>1, <1>2, <1>5, <1>9, <2>2 DEF HookOK, FollowTypeOK
  <2> QED
    BY <1>8, <2>1, <2>2
<1>12. FollowTypeOK'
  <2>1. rollout' \in Seq(Line)
    BY <1>1, <1>4 DEF FollowTypeOK
  <2>2. hook' \in [at : {"none", "apply", "start", "release"},
                   kind : {"none", "prompt", "work", "stop"}, turn : 0..MaxTurns]
    BY <1>1, <1>5, <1>2, <1>8 DEF FollowTypeOK
  <2>3. running' \in 0..turns' /\ turns' \in 0..MaxTurns
    BY <1>2, <1>5
  <2> QED
    BY <1>1, <1>2, <1>9, <2>1, <2>2, <2>3 DEF FollowTypeOK, files
<1> QED
  BY <1>6, <1>10, <1>11, <1>12 DEF FollowInv

\* A hook that starts to run keeps the invariant.
LEMMA RunHookKeeps ==
  ASSUME FollowInv, NEW kind \in {"prompt", "work", "stop"}, RunHook(kind)
  PROVE  FollowInv'
<1> USE FollowerAssumption
<1>1. FollowTypeOK /\ RolloutOK /\ HookOK
  BY DEF FollowInv
<1>2. /\ bound /\ running # 0 /\ hook = NoHook
      /\ hooksRun < MaxHooks /\ hooksRun' = hooksRun + 1
      /\ hook' = [at |-> "apply", kind |-> kind, turn |-> running]
      /\ UNCHANGED <<codex, files, followers, lock, named, bound, deaths, noticed>>
  BY DEF RunHook
<1>3. Carries /\ RolloutOK'
  BY <1>1, <1>2, RecordsTell, StillCarries DEF files
<1>4. hooksRun \in 0..MaxHooks /\ hooksRun' \in 0..MaxHooks /\ Past <= Past' /\ Past' \in Int
      /\ hook.at = "none"
  BY <1>1, <1>2 DEF NoHook, FollowTypeOK, Past
<1>5. StampsOK' /\ OrderOK' /\ FailuresOK' /\ FollowersOK' /\ NotifyIsOfNewestTurn'
  BY <1>2, <1>3, <1>4, CodexKeeps
<1>6. HookOK'
  BY <1>1, <1>2, <1>4 DEF HookOK, FollowTypeOK, codex
<1>7. FollowTypeOK'
  <2>1. running \in 0..MaxTurns
    BY <1>1 DEF FollowTypeOK
  <2>2. hook' \in [at : {"none", "apply", "start", "release"},
                   kind : {"none", "prompt", "work", "stop"}, turn : 0..MaxTurns]
    BY <1>2, <2>1
  <2> QED
    BY <1>1, <1>2, <1>4, <2>2 DEF FollowTypeOK, codex, files
<1> QED
  BY <1>3, <1>5, <1>6, <1>7 DEF FollowInv

\* The end of a turn keeps the invariant.
LEMMA EndTurnKeeps ==
  ASSUME FollowInv, NEW kind \in {"failed", "complete"}, EndTurn(kind)
  PROVE  FollowInv'
<1> USE FollowerAssumption
<1>1. FollowTypeOK /\ RolloutOK /\ HookOK
  BY DEF FollowInv
<1>2. /\ bound /\ running # 0 /\ hook = NoHook /\ Writes(kind, running, 0) /\ running' = 0
      /\ UNCHANGED <<turns, hook, hooksRun, files, followers, lock, named, bound, deaths, noticed>>
  BY DEF EndTurn
<1>3. running = turns /\ turns \in 1..MaxTurns /\ turns' = turns
  BY <1>1, <1>2 DEF HookOK, FollowTypeOK
<1>4. PICK line : line = [kind |-> kind, turn |-> turns, parent |-> 0]
  OBVIOUS
<1>5. line \in Line /\ rollout' = Append(rollout, line) /\ line.kind # "start" /\ line.turn = turns
  BY <1>2, <1>3, <1>4 DEF Line, TurnIds, Writes
<1>6. Lead(line.turn) = turns' /\ ~(line.turn > MaxTurns) /\ turns' \in turns..MaxTurns
  BY <1>3, <1>5 DEF Lead
<1>7. RolloutOK'
  BY <1>1, <1>2, <1>3, <1>5, <1>6, RolloutGrows
<1>8. Carries
  BY <1>1, <1>2, <1>3, <1>5, <1>6, GrowthCarries DEF files
<1>9. Past <= Past' /\ Past' \in Int
  BY <1>1, <1>2 DEF Past, FollowTypeOK
<1>10. StampsOK' /\ OrderOK' /\ FailuresOK' /\ FollowersOK' /\ NotifyIsOfNewestTurn'
  BY <1>2, <1>8, <1>9, CodexKeeps
<1>11. HookOK'
  BY <1>1, <1>2 DEF HookOK, NoHook
<1>12. FollowTypeOK'
  <2>1. rollout' \in Seq(Line)
    BY <1>1, <1>5 DEF FollowTypeOK
  <2> QED
    BY <1>1, <1>2, <1>3, <2>1 DEF FollowTypeOK, files
<1> QED
  BY <1>7, <1>10, <1>11, <1>12 DEF FollowInv

\* A review started inside the running turn keeps the invariant.
LEMMA StartReviewKeeps == ASSUME FollowInv, StartReview PROVE FollowInv'
<1> USE FollowerAssumption
<1>1. FollowTypeOK /\ RolloutOK /\ HookOK
  BY DEF FollowInv
<1>2. /\ bound /\ running # 0 /\ hook = NoHook /\ Writes("start", Review(running), running)
      /\ UNCHANGED <<running, turns, hook, hooksRun, files, followers,
                     lock, named, bound, deaths, noticed>>
  BY DEF StartReview
<1>3. running = turns /\ turns \in 1..MaxTurns /\ turns' = turns
  BY <1>1, <1>2 DEF HookOK, FollowTypeOK
<1>4. PICK line : line = [kind |-> "start", turn |-> Review(running), parent |-> running]
  OBVIOUS
<1>5. line \in Line /\ rollout' = Append(rollout, line) /\ line.kind = "start"
      /\ line.turn = MaxTurns + turns /\ line.parent = turns
  BY <1>2, <1>3, <1>4 DEF Line, TurnIds, Writes, Review
<1>6. Lead(line.turn) = turns' /\ line.turn > MaxTurns /\ turns' \in turns..MaxTurns
  BY <1>3, <1>5 DEF Lead
<1>7. RolloutOK'
  BY <1>1, <1>2, <1>3, <1>5, <1>6, RolloutGrows
<1>8. Carries
  BY <1>1, <1>2, <1>3, <1>5, <1>6, GrowthCarries DEF files
<1>9. Past <= Past' /\ Past' \in Int
  BY <1>1, <1>2 DEF Past, FollowTypeOK
<1>10. StampsOK' /\ OrderOK' /\ FailuresOK' /\ FollowersOK' /\ NotifyIsOfNewestTurn'
  BY <1>2, <1>8, <1>9, CodexKeeps
<1>11. HookOK'
  BY <1>1, <1>2 DEF HookOK, NoHook
<1>12. FollowTypeOK'
  <2>1. rollout' \in Seq(Line)
    BY <1>1, <1>5 DEF FollowTypeOK
  <2> QED
    BY <1>1, <1>2, <1>3, <2>1 DEF FollowTypeOK, files
<1> QED
  BY <1>7, <1>10, <1>11, <1>12 DEF FollowInv

\* The end of the binding keeps the invariant.
LEMMA UnbindKeeps == ASSUME FollowInv, Unbind PROVE FollowInv'
<1>1. FollowTypeOK /\ RolloutOK /\ HookOK
  BY DEF FollowInv
<1>2. bound' = FALSE
      /\ UNCHANGED <<codex, hook, hooksRun, files, followers, lock, named, deaths, noticed>>
  BY DEF Unbind
<1>3. Carries /\ RolloutOK'
  BY <1>1, <1>2, RecordsTell, StillCarries DEF files
<1>4. Past <= Past' /\ Past' \in Int
  BY <1>1, <1>2 DEF Past, FollowTypeOK
<1>5. StampsOK' /\ OrderOK' /\ FailuresOK' /\ FollowersOK' /\ NotifyIsOfNewestTurn'
  BY <1>2, <1>3, <1>4, CodexKeeps
<1>6. HookOK'
  BY <1>1, <1>2 DEF HookOK, codex
<1>7. FollowTypeOK'
  BY <1>1, <1>2 DEF FollowTypeOK, codex, files
<1> QED
  BY <1>3, <1>5, <1>6, <1>7 DEF FollowInv

\* Records have numbers for their turns and stamps.
LEMMA RecordTyped ==
  ASSUME FollowTypeOK
  PROVE  /\ \A r \in records : r.turn \in Nat /\ r.obs \in Nat
         /\ latest \in Nat /\ slot.obs \in Nat /\ slot.by \in Nat
<1> USE FollowerAssumption
<1>1. PICK top \in Nat : top = Stamp(MaxHooks + 1)
  BY Stamping
<1>2. Stamps = 0..top
  BY <1>1 DEF Stamps
<1>3. \A r \in records : r \in Record
  BY DEF FollowTypeOK
<1>4. \A r \in Record : r.turn \in TurnIds /\ r.obs \in Stamps
  BY DEF Record
<1>5. \A r \in records : r.turn \in Nat /\ r.obs \in Nat
  BY <1>2, <1>3, <1>4 DEF TurnIds
<1>6. latest \in Nat
  BY <1>2 DEF FollowTypeOK
<1>7. slot.obs \in Nat /\ slot.by \in Nat
  <2>1. slot.obs \in Stamps /\ slot.by \in 0..(2 * MaxTurns)
    BY DEF FollowTypeOK
  <2> QED
    BY <1>2, <2>1
<1> QED
  BY <1>5, <1>6, <1>7

\* Stamps on record lie before the stamp of the next hook to record.
LEMMA BeforeNextHook ==
  ASSUME FollowTypeOK, StampsOK, NEW h \in Nat, Past < h, h \in Nat
  PROVE  /\ \A r \in records : r.obs < Stamp(h)
         /\ latest < Stamp(h) /\ slot.obs < Stamp(h)
<1> USE FollowerAssumption
<1>1. Past \in Int /\ turns \in 0..MaxTurns /\ MaxTurns \in Nat
  BY DEF FollowTypeOK, Past
<1>2. ASSUME NEW n \in 0..Past, NEW j \in 0..MaxTurns
      PROVE  Stamp(n) + j < Stamp(h) /\ Stamp(n) \in Nat
  <2>1. n \in Nat /\ n < h
    BY <1>1, <1>2
  <2>2. Stamp(n) + MaxTurns + 2 <= Stamp(h) /\ Stamp(n) \in Nat /\ Stamp(h) \in Nat
    BY <2>1, Stamping
  <2> QED
    BY <1>1, <2>2
<1>3. ASSUME NEW r \in records
      PROVE  r.obs < Stamp(h)
  <2>1. r.turn \in 1..turns /\ \E n \in 0..Past, j \in 0..r.turn : r.obs = Stamp(n) + j
    BY DEF StampsOK, RecordOK
  <2>2. PICK n \in 0..Past, j \in 0..r.turn : r.obs = Stamp(n) + j
    BY <2>1
  <2>3. j \in 0..MaxTurns
    BY <1>1, <2>1
  <2> QED
    BY <1>2, <2>2, <2>3
<1>4. latest < Stamp(h)
  <2>1. PICK n \in 0..Past : latest = Stamp(n)
    BY DEF StampsOK
  <2>2. 0 \in 0..MaxTurns
    BY <1>1
  <2>3. Stamp(n) + 0 < Stamp(h) /\ Stamp(n) \in Nat
    BY <1>2, <2>2
  <2> QED
    BY <2>1, <2>3
<1>5. slot.obs < Stamp(h)
  <2>1. PICK n \in 0..Past, j \in 0..MaxTurns : slot.obs = Stamp(n) + j
    BY DEF StampsOK
  <2> QED
    BY <1>2, <2>1
<1> QED
  BY <1>3, <1>4, <1>5

\* The stamps of the hooks and what is put just after them are stamps.
LEMMA StampTyped ==
  ASSUME NEW n \in 0..MaxHooks, NEW j \in 0..(MaxTurns + 1)
  PROVE  Stamp(n) + j \in Stamps
<1> USE FollowerAssumption
<1>1. n \in Nat /\ MaxHooks + 1 \in Nat /\ n < MaxHooks + 1
  OBVIOUS
<1>2. Stamp(n) + MaxTurns + 2 <= Stamp(MaxHooks + 1) /\ Stamp(n) \in Nat /\ Stamp(MaxHooks + 1) \in Nat
  BY <1>1, Stamping
<1> QED
  BY <1>2 DEF Stamps

\* What a hook of the running turn records: one record of that turn with its stamp at most, in
\* place of a Stop of that turn; its turn has a record after it.
LEMMA WhatHookRecords ==
  ASSUME FollowTypeOK, NEW kind \in {"prompt", "work", "stop"}, NEW t, NEW obs
  PROVE  /\ RecordsAfter(kind, t, obs)
              \subseteq records \cup {[turn |-> t, kind |-> kind, obs |-> obs]}
         /\ \A r \in records : r \in RecordsAfter(kind, t, obs) \/ r.turn = t
         /\ \E r \in RecordsAfter(kind, t, obs) : r.turn = t /\ r.kind # "failed"
         /\ \/ kind = "prompt" /\ RecordsAfter(kind, t, obs) = records
            \/ [turn |-> t, kind |-> kind, obs |-> obs] \in RecordsAfter(kind, t, obs)
<1>1. PICK new : new = [turn |-> t, kind |-> kind, obs |-> obs]
  OBVIOUS
<1>2. new.turn = t /\ new.kind = kind /\ kind # "failed"
  BY <1>1
<1>3. CASE kind = "prompt" /\ \E r \in Of(t) : r.kind = "prompt"
  <2>1. RecordsAfter(kind, t, obs) = records
    BY <1>3 DEF RecordsAfter
  <2> QED
    BY <1>3, <2>1 DEF Of
<1>4. CASE ~(kind = "prompt" /\ \E r \in Of(t) : r.kind = "prompt")
  <2>1. RecordsAfter(kind, t, obs)
          = (IF kind = "stop" THEN records \ {r \in Of(t) : r.kind = "stop"} ELSE records) \cup {new}
    BY <1>1, <1>4 DEF RecordsAfter
  <2>2. \A r \in records : r \in RecordsAfter(kind, t, obs) \/ r.turn = t
    BY <2>1 DEF Of
  <2>3. new \in RecordsAfter(kind, t, obs)
    BY <2>1
  <2>4. RecordsAfter(kind, t, obs) \subseteq records \cup {new}
    BY <2>1
  <2> QED
    BY <1>1, <1>2, <2>2, <2>3, <2>4
<1> QED
  BY <1>3, <1>4

\* What a hook of the running turn puts on record settles and unsettles no failed turn.
LEMMA HookRecordKeepsSettled ==
  ASSUME FollowTypeOK, RolloutOK, HookOK, StampsOK, OrderOK, hook.at = "apply",
         NEW kind \in {"prompt", "work", "stop"}, NEW obs, obs = Stamp(hooksRun),
         records' = RecordsAfter(kind, turns, obs),
         latest' = latest \/ (kind = "prompt" /\ latest' = obs)
  PROVE  FailedTurns \cap SettledTurns \subseteq SettledTurns'
<1> USE FollowerAssumption
<1>1. turns \notin FailedTurns /\ turns \in 1..MaxTurns
  BY RunningUnfailed DEF HookOK
<1>2. hooksRun \in Nat /\ Past < hooksRun /\ obs \in Nat
  BY Stamping DEF FollowTypeOK, Past
<1>3. (\A r \in records : r.obs < obs) /\ latest < obs
  BY <1>2, BeforeNextHook
<1>4. PICK new : new = [turn |-> turns, kind |-> kind, obs |-> obs]
  OBVIOUS
<1>5. /\ records' \subseteq records \cup {new}
      /\ \A r \in records : r \in records' \/ r.turn = turns
      /\ (kind = "prompt" /\ records' = records) \/ new \in records'
      /\ \E q \in records' : q.turn = turns /\ q.kind # "failed"
  BY <1>4, WhatHookRecords
<1>6. new.turn = turns /\ new.obs = obs
  BY <1>4
<1>7. ASSUME NEW t \in FailedTurns, t \in SettledTurns
      PROVE  t \in SettledTurns'
  <2>1. t # turns /\ t \in Turns /\ t \in Nat /\ IsSettled(t)
    BY <1>1, <1>7 DEF FailedTurns, SettledTurns, Turns
  <2>2. Of(t)' = Of(t)
    BY <1>5, <1>6, <2>1 DEF Of
  <2>3. CASE \E r \in Of(t) : r.kind = "failed"
    BY <2>1, <2>2, <2>3 DEF SettledTurns, IsSettled
  <2>4. CASE Of(t) # {} /\ Ends(Last(Of(t))) /\ ~WentOn(Last(Of(t)))
    <3>1. PICK e : e = Last(Of(t))
      OBVIOUS
    <3>2. e \in Of(t) /\ e \in records /\ e.turn = t /\ e.obs < obs
      <4>1. Of(t) \subseteq Record
        BY DEF Of, FollowTypeOK
      <4> QED
        BY <1>3, <2>4, <3>1, <4>1, LastRecord DEF Of
    <3>3. ~WentOn(e)'
      <4>1. CASE e.kind = "failed" \/ (\E r \in records : r.obs > e.obs /\ r.turn # e.turn)
        <5>1. CASE e.kind = "failed"
          BY <5>1 DEF WentOn
        <5>2. CASE \E r \in records : r.obs > e.obs /\ r.turn # e.turn
          <6>1. PICK r \in records : r.obs > e.obs /\ r.turn # e.turn
            BY <5>2
          <6>2. CASE r \in records'
            BY <6>1, <6>2 DEF WentOn
          <6>3. CASE r \notin records'
            <7>1. new \in records' /\ new.turn # e.turn
              BY <1>5, <1>6, <2>1, <3>2, <6>3
            <7>2. new.obs > e.obs
              BY <1>2, <1>6, <3>2
            <7> QED
              BY <7>1, <7>2 DEF WentOn
          <6> QED
            BY <6>2, <6>3
        <5> QED
          BY <4>1, <5>1, <5>2
      <4>2. CASE ~(latest > e.obs)
        <5>1. CASE latest' = latest
          BY <4>2, <5>1 DEF WentOn
        <5>2. CASE kind = "prompt" /\ latest' = obs
          <6>1. PICK q \in records' : q.turn = turns /\ q.kind # "failed"
            BY <1>5
          <6>2. q.obs > e.obs
            <7>1. CASE q = new
              BY <1>2, <1>6, <3>2, <7>1
            <7>2. CASE q \in records
              <8>1. e.turn < q.turn
                <9>1. RecordOK(e)
                  BY <3>2 DEF StampsOK
                <9>2. e.turn \in 1..turns /\ turns \in Nat
                  BY <9>1 DEF RecordOK, FollowTypeOK
                <9> QED
                  BY <2>1, <3>2, <6>1, <9>2
              <8>2. q.obs \in Int /\ e.obs \in Int
                BY <3>2, <7>2, RecordTyped
              <8> QED
                BY <3>2, <7>2, <8>1, <8>2 DEF OrderOK
            <7> QED
              BY <1>5, <7>1, <7>2
          <6> QED
            BY <2>1, <3>2, <6>1, <6>2 DEF WentOn
        <5> QED
          BY <5>1, <5>2
      <4> QED
        BY <2>4, <3>1, <4>1, <4>2 DEF WentOn
    <3>4. Last(Of(t))' = e /\ Of(t)' # {} /\ Ends(e)
      BY <2>2, <2>4, <3>1 DEF Last
    <3>5. IsSettled(t)'
      BY <3>3, <3>4 DEF IsSettled, Ends
    <3> QED
      BY <2>1, <3>5 DEF SettledTurns
  <2> QED
    BY <2>1, <2>3, <2>4 DEF IsSettled
<1> QED
  BY <1>7

\* What a hook writes, all of it or the first of its files, keeps the invariant.
LEMMA HookWrites ==
  ASSUME FollowInv, hook.at = "apply", NEW obs, obs = Stamp(hooksRun),
         slot' = SlotAfter(hook.kind, hook.turn, obs),
         \/ records' = records /\ latest' = latest /\ hook' = NoHook
         \/ /\ records' = RecordsAfter(hook.kind, hook.turn, obs)
            /\ latest' = latest \/ (hook.kind = "prompt" /\ latest' = obs)
            /\ hook' = NoHook \/ hook' = [hook EXCEPT !.at = "start"],
         deaths' \in 0..MaxDeaths,
         UNCHANGED <<codex, hooksRun, followers, lock, named, bound, noticed>>
  PROVE  FollowInv'
<1> USE FollowerAssumption
<1>1. FollowTypeOK /\ RolloutOK /\ HookOK /\ StampsOK /\ OrderOK /\ FailuresOK /\ FollowersOK
      /\ NotifyIsOfNewestTurn
  BY DEF FollowInv
<1>2. hook.turn = turns /\ hook.kind \in {"prompt", "work", "stop"} /\ running = turns /\ running # 0
  BY <1>1 DEF HookOK, FollowTypeOK
<1>3. turns \notin FailedTurns /\ turns \in 1..MaxTurns
  BY <1>1, <1>2, RunningUnfailed DEF HookOK
<1>4. hooksRun \in 0..MaxHooks /\ Past = hooksRun - 1 /\ Past < hooksRun /\ obs \in Nat
  BY <1>1, Stamping DEF FollowTypeOK, Past
<1>5. (\A r \in records : r.obs < obs) /\ latest < obs /\ slot.obs < obs
  BY <1>1, <1>4, BeforeNextHook
<1>6. PICK new : new = [turn |-> turns, kind |-> hook.kind, obs |-> obs]
  OBVIOUS
<1>7. new.turn = turns /\ new.obs = obs /\ new.kind = hook.kind /\ new.kind # "failed"
  BY <1>2, <1>6
<1>8. /\ records' \subseteq records \cup {new}
      /\ \A r \in records : r \in records' \/ r.turn = turns
      /\ records' = records \/ \E q \in records' : q.turn = turns /\ q.kind # "failed"
      /\ hook'.at = "none" \/ \E q \in records' : q.turn = turns /\ q.kind # "failed"
  <2>1. CASE records' = records /\ hook' = NoHook
    BY <2>1 DEF NoHook
  <2>2. CASE records' = RecordsAfter(hook.kind, turns, obs)
    BY <1>1, <1>2, <1>6, <2>2, WhatHookRecords
  <2> QED
    BY <1>2, <2>1, <2>2
<1>9. Past' = hooksRun /\ hooksRun' = hooksRun /\ hook'.turn \in {0, turns}
        /\ hook'.at \in {"none", "start"}
      /\ (hook'.at = "start" => hook'.turn = turns /\ hook'.kind # "none")
      /\ hook' \in [at : {"none", "apply", "start", "release"},
                    kind : {"none", "prompt", "work", "stop"}, turn : 0..MaxTurns]
  <2>1. hooksRun' = hooksRun
    OBVIOUS
  <2>2. CASE hook' = NoHook
    BY <1>4, <2>1, <2>2 DEF NoHook, Past
  <2>3. CASE hook' = [hook EXCEPT !.at = "start"]
    <3>1. hook' = [at |-> "start", kind |-> hook.kind, turn |-> turns]
      BY <1>1, <1>2, <2>3 DEF FollowTypeOK
    <3> QED
      BY <1>2, <1>3, <2>1, <3>1 DEF Past
  <2> QED
    BY <2>2, <2>3
<1>10. HookedTurns \subseteq HookedTurns' /\ (hook'.at = "start" => turns \in HookedTurns')
  <2>1. ASSUME NEW t \in HookedTurns
        PROVE  t \in HookedTurns'
    <3>1. PICK r \in records : r.turn = t /\ r.kind # "failed"
      BY <2>1 DEF HookedTurns
    <3>2. \E q \in records' : q.turn = t /\ q.kind # "failed"
      BY <1>8, <3>1
    <3> QED
      BY <2>1, <3>2 DEF HookedTurns
  <2>2. hook'.at = "start" => turns \in HookedTurns'
    BY <1>3, <1>8 DEF HookedTurns, Turns
  <2> QED
    BY <2>1, <2>2
<1>11. FailedTurns \cap SettledTurns \subseteq SettledTurns'
  <2>1. CASE records' = records /\ latest' = latest
    BY <2>1, RecordsTell
  <2>2. CASE records' = RecordsAfter(hook.kind, hook.turn, obs)
             /\ (latest' = latest \/ (hook.kind = "prompt" /\ latest' = obs))
    BY <1>1, <1>2, <2>2, HookRecordKeepsSettled
  <2> QED
    BY <2>1, <2>2
<1>12. Carries /\ FailedTurns' = FailedTurns /\ RolloutOK'
  BY <1>1, <1>10, <1>11, StillCarries
<1>13. {r \in records' : r.kind = "failed"} \subseteq records
  BY <1>7, <1>8
<1>14. FailuresOK' /\ FollowersOK'
  BY <1>1, <1>12, <1>13, FailuresKept, FollowersKept
<1>15. OrderOK'
  <2>1. \A r \in records : r.turn \in 1..turns /\ (r.kind = "failed" => r.turn # turns)
    BY <1>1, <1>3 DEF StampsOK, RecordOK
  <2>2. ASSUME NEW r \in records \cup {new}, NEW q \in records \cup {new}
        PROVE  /\ r.turn < q.turn => r.obs < q.obs
               /\ r.turn = q.turn /\ r.kind = "failed" /\ q.kind # "failed" => q.obs < r.obs
    <3>1. CASE r \in records /\ q \in records
      BY <1>1, <3>1 DEF OrderOK
    <3>2. CASE q = new /\ r \in records
      BY <1>5, <1>7, <2>1, <3>2
    <3>3. CASE r = new
      <4>1. ~(r.turn < q.turn)
        BY <1>3, <1>7, <2>1, <3>3
      <4> QED
        BY <1>7, <3>3, <4>1
    <3> QED
      BY <3>1, <3>2, <3>3
  <2> QED
    BY <1>8, <2>2 DEF OrderOK
<1>16. slot' = slot \/ (slot'.obs = obs /\ slot'.word = Says(hook.kind) /\ slot'.by = turns)
  BY <1>2 DEF SlotAfter
<1>17. StampsOK'
  <2>1. \A n \in 0..Past : n \in 0..Past'
    BY <1>4, <1>9
  <2>2. hooksRun \in 0..Past' /\ 0 \in 0..turns /\ 0 \in 0..MaxTurns /\ obs = Stamp(hooksRun) + 0
    BY <1>3, <1>4, <1>9
  <2>3. ASSUME NEW r \in records'
        PROVE  RecordOK(r)'
    <3>1. CASE r \in records
      BY <1>1, <1>12, <2>1, <3>1 DEF StampsOK, RecordOK, codex
    <3>2. CASE r = new
      <4>1. r.turn \in 1..turns' /\ r.turn = turns
        BY <1>3, <1>7, <3>2 DEF codex
      <4>2. r.obs = Stamp(hooksRun) + 0 /\ r.kind # "failed" /\ 0 \in 0..r.turn
        BY <1>7, <2>2, <3>2, <4>1
      <4> QED
        BY <2>2, <4>1, <4>2 DEF RecordOK
    <3> QED
      BY <1>8, <3>1, <3>2
  <2>4. (\E n \in 0..Past : latest = Stamp(n))'
    <3>1. CASE latest' = latest
      <4>1. PICK n \in 0..Past : latest = Stamp(n)
        BY <1>1 DEF StampsOK
      <4> QED
        BY <2>1, <3>1, <4>1
    <3>2. CASE latest' = obs
      BY <2>2, <3>2
    <3> QED
      BY <3>1, <3>2
  <2>5. (\E n \in 0..Past, j \in 0..MaxTurns :
        slot.obs = Stamp(n) + j /\ (slot.word # "notify" => j = 0))'
    <3>1. CASE slot' = slot
      <4>1. PICK n \in 0..Past, j \in 0..MaxTurns :
            slot.obs = Stamp(n) + j /\ (slot.word # "notify" => j = 0)
        BY <1>1 DEF StampsOK
      <4>2. slot'.obs = Stamp(n) + j /\ (slot'.word # "notify" => j = 0) /\ n \in 0..Past'
        BY <2>1, <3>1, <4>1
      <4> QED
        BY <4>2
    <3>2. CASE slot'.obs = obs
      BY <2>2, <3>2
    <3> QED
      BY <1>16, <3>1, <3>2
  <2> QED
    BY <2>3, <2>4, <2>5 DEF StampsOK
<1>18. NotifyIsOfNewestTurn'
  <2>1. slot'.word # "notify"
    <3>1. Says(hook.kind) # "notify"
      BY DEF Says
    <3>2. CASE slot.word = Says(hook.kind)
      BY <1>16, <3>1, <3>2
    <3>3. CASE slot.word # Says(hook.kind)
      <4>1. ~(slot.obs > obs) /\ ~(latest > obs) /\ ~ \E r \in records : r.obs > obs
        BY <1>1, <1>4, <1>5, RecordTyped
      <4>2. slot' = [word |-> Says(hook.kind), obs |-> obs, by |-> hook.turn]
        BY <3>3, <4>1 DEF SlotAfter
      <4> QED
        BY <3>1, <4>2
    <3> QED
      BY <3>2, <3>3
  <2> QED
    BY <2>1 DEF NotifyIsOfNewestTurn
<1>19. HookOK'
  <2>1. running' = running /\ turns' = turns /\ lock' = lock /\ followers' = followers
    BY DEF codex
  <2>2. lock' # Asker /\ hook'.at # "release"
    BY <1>1, <1>9, <2>1 DEF HookOK
  <2>3. Len(followers) + 1 <= hooksRun /\ Len(followers) \in Nat
    BY <1>1 DEF HookOK, FollowTypeOK
  <2>4. Len(followers') + (IF hook'.at = "none" THEN 0 ELSE 1) <= hooksRun'
    BY <1>4, <1>9, <2>1, <2>3
  <2>5. hook'.at # "none" => hook'.turn = turns /\ hook'.kind # "none"
    BY <1>9
  <2>6. hook'.at \in {"start", "release"} => hook'.turn \in HookedTurns'
    BY <1>9, <1>10
  <2> QED
    BY <1>2, <2>1, <2>2, <2>4, <2>5, <2>6 DEF HookOK
<1>20. FollowTypeOK'
  <2>1. obs \in Stamps /\ turns \in TurnIds /\ turns \in 0..(2 * MaxTurns)
    <3>1. Stamp(hooksRun) + 0 \in Stamps
      BY <1>4, StampTyped
    <3> QED
      BY <1>3, <1>4, <3>1 DEF TurnIds
  <2>2. new \in Record
    BY <1>2, <1>6, <2>1 DEF Record
  <2>3. records' \subseteq Record
    BY <1>1, <1>8, <2>2 DEF FollowTypeOK
  <2>4. latest' \in Stamps
    BY <1>1, <2>1 DEF FollowTypeOK
  <2>5. slot' \in [word : {"none", "thinking", "stop", "notify"},
                   obs : Stamps, by : 0..(2 * MaxTurns)]
    <3>1. CASE slot' = slot
      BY <1>1, <3>1 DEF FollowTypeOK
    <3>2. CASE slot' = [word |-> Says(hook.kind), obs |-> obs, by |-> turns]
      BY <2>1, <3>2 DEF Says
    <3> QED
      BY <1>2, <3>1, <3>2 DEF SlotAfter
  <2> QED
    BY <1>1, <1>9, <2>3, <2>4, <2>5 DEF FollowTypeOK, codex
<1> QED
  BY <1>12, <1>14, <1>15, <1>17, <1>18, <1>19, <1>20 DEF FollowInv

\* A hook's writes, cut short or not, keep the invariant.
LEMMA ApplyHookKeeps == ASSUME FollowInv, ApplyHook PROVE FollowInv'
<1> USE FollowerAssumption
<1>1. FollowTypeOK /\ RolloutOK /\ HookOK
  BY DEF FollowInv
<1>2. PICK obs : obs = Stamp(hooksRun)
  OBVIOUS
<1>3. hook.at = "apply" /\ UNCHANGED <<codex, hooksRun, followers, lock, named, bound, noticed>>
  BY DEF ApplyHook
<1>4. deaths \in 0..MaxDeaths
  BY <1>1 DEF FollowTypeOK
<1>5. CASE /\ slot' = SlotAfter(hook.kind, hook.turn, obs)
           /\ records' = RecordsAfter(hook.kind, hook.turn, obs)
           /\ latest' = IF hook.kind = "prompt" THEN obs ELSE latest
           /\ hook' = [hook EXCEPT !.at = "start"]
           /\ UNCHANGED deaths
  <2>1. latest' = latest \/ (hook.kind = "prompt" /\ latest' = obs)
    BY <1>5
  <2> QED
    BY <1>2, <1>3, <1>4, <1>5, <2>1, HookWrites
<1>6. CASE ~bound /\ hook' = [hook EXCEPT !.at = "start"] /\ UNCHANGED <<files, deaths>>
  <2>1. HookedTurns' = HookedTurns /\ SettledTurns' = SettledTurns
    BY <1>6, RecordsTell DEF files
  <2>2. Carries /\ RolloutOK'
    BY <1>1, <1>3, <2>1, StillCarries
  <2>3. hook' = [at |-> "start", kind |-> hook.kind, turn |-> hook.turn]
    BY <1>1, <1>6 DEF FollowTypeOK
  <2>4. Past <= Past' /\ Past' \in Int
    BY <1>1, <1>3, <2>3 DEF Past, FollowTypeOK
  <2>5. StampsOK' /\ OrderOK' /\ FailuresOK' /\ FollowersOK' /\ NotifyIsOfNewestTurn'
    BY <1>3, <1>6, <2>2, <2>4, CodexKeeps
  <2>6. HookOK'
    BY <1>1, <1>3, <1>6, <2>3 DEF HookOK, codex
  <2>7. FollowTypeOK'
    BY <1>1, <1>3, <1>6, <2>3 DEF FollowTypeOK, codex, files
  <2> QED
    BY <2>2, <2>5, <2>6, <2>7 DEF FollowInv
<1>7. CASE /\ deaths < MaxDeaths /\ deaths' = deaths + 1 /\ hook' = NoHook
           /\ slot' = SlotAfter(hook.kind, hook.turn, obs)
           /\ \/ UNCHANGED <<records, latest>>
              \/ records' = RecordsAfter(hook.kind, hook.turn, obs) /\ UNCHANGED latest
  <2>1. deaths' \in 0..MaxDeaths
    BY <1>4, <1>7
  <2> QED
    BY <1>2, <1>3, <1>7, <2>1, HookWrites
<1> QED
  BY <1>2, <1>5, <1>6, <1>7 DEF ApplyHook

\* A follower that a hook of the running turn starts.
LEMMA NewFollowerOK ==
  ASSUME FollowInv, hook.at # "none", bound => hook.turn \in HookedTurns
  PROVE  NewFollower \in Follower /\ FollowerOK(NewFollower) /\ NewFollower.held = FALSE
<1> USE FollowerAssumption
<1>1. FollowTypeOK /\ RolloutOK /\ HookOK
  BY DEF FollowInv
<1>2. running # 0 /\ running = turns /\ hook.turn = turns
  BY <1>1 DEF HookOK
<1>3. turns \in 1..MaxTurns /\ ~ \E i \in DOMAIN rollout : IsEnd(i, turns)
  BY <1>1, <1>2, RunningUnfailed
<1>4. PICK g : g = NewFollower
  OBVIOUS
<1>5. /\ g.at = "waiting" /\ g.turn = turns /\ g.before = {} /\ g.offset = Len(rollout)
      /\ g.ended = 0 /\ g.held = FALSE
  BY <1>2, <1>4 DEF NewFollower
<1>6. Len(rollout) \in Nat /\ DOMAIN rollout = 1..Len(rollout)
  BY <1>1 DEF FollowTypeOK
<1>7. g \in Follower
  BY <1>2, <1>3, <1>4, <1>6 DEF NewFollower, Follower
<1>8. g.turn \in 1..turns /\ g.offset \in 0..Len(rollout)
  BY <1>3, <1>5, <1>6
<1>9. \A i \in DOMAIN rollout : /\ i <= g.offset => Lead(rollout[i].turn) <= g.turn
                                /\ i > g.offset => Lead(rollout[i].turn) >= g.turn
  <2>1. \A i \in DOMAIN rollout : Lead(rollout[i].turn) \in 1..turns
    BY <1>1 DEF RolloutOK
  <2> QED
    BY <1>3, <1>5, <1>6, <2>1
<1>10. g.ended # g.turn /\ ~ \E i \in DOMAIN rollout : i <= g.offset /\ IsEnd(i, g.turn)
  BY <1>3, <1>5
<1>11. ~ \E i \in DOMAIN rollout : i <= g.offset /\ IsFailed(i, g.turn)
  BY <1>3, <1>5 DEF IsFailed, IsEnd
<1>12. ASSUME bound
       PROVE  /\ \E s \in HookedTurns : s <= g.turn /\ g.before = s..(g.turn - 1)
              /\ \A t \in 1..(g.turn - 1) : Behind(t, g.turn)
  <2>1. turns \in HookedTurns /\ turns <= turns /\ turns..(turns - 1) = {}
    BY <1>2, <1>3, <1>12
  <2>2. \A t \in 1..(turns - 1) : t < turns
    BY <1>3
  <2> QED
    BY <1>5, <2>1, <2>2 DEF Behind
<1>13. g.at # "recording"
  BY <1>5
<1>14. FollowerOK(g)
  BY <1>8, <1>9, <1>10, <1>11, <1>12, <1>13 DEF FollowerOK
<1> QED
  BY <1>4, <1>5, <1>7, <1>14

\* The start of a follower keeps followers in place, and types.
LEMMA FollowerStarts ==
  ASSUME FollowInv, hook.at # "none", bound => hook.turn \in HookedTurns,
         lock' = lock \/ (lock = Asker /\ lock' = Free),
         followers' = Append(followers, NewFollower), hook' = NoHook,
         noticed' = noticed \cup {hook.turn}, lock' # Asker,
         UNCHANGED <<codex, hooksRun, files, named, bound, deaths>>
  PROVE  FollowInv'
<1> USE FollowerAssumption
<1>1. FollowTypeOK /\ RolloutOK /\ HookOK
  BY DEF FollowInv
<1>2. HookedTurns' = HookedTurns /\ SettledTurns' = SettledTurns
  BY RecordsTell DEF files
<1>3. Carries /\ RolloutOK'
  BY <1>1, <1>2, StillCarries
<1>4. FollowTypeOK /\ StampsOK /\ OrderOK /\ FailuresOK /\ FollowersOK /\ NotifyIsOfNewestTurn
  BY DEF FollowInv
<1>5. records' = records /\ latest' = latest /\ slot' = slot
  BY DEF files
<1>6. PICK new \in Follower : new = NewFollower /\ FollowerOK(new) /\ new.held = FALSE
  BY NewFollowerOK
<1>7. FollowerOK(new)'
  BY <1>1, <1>3, <1>6, FollowerKept
<1>8. /\ followers \in Seq(Follower) /\ Len(followers) \in Nat
      /\ DOMAIN followers = 1..Len(followers) /\ DOMAIN followers' = 1..(Len(followers) + 1)
      /\ followers'[Len(followers) + 1] = new
      /\ \A f \in 1..Len(followers) : followers'[f] = followers[f]
  BY <1>1, <1>6 DEF FollowTypeOK
<1>9. FollowersOK'
  <2>1. ASSUME NEW f \in DOMAIN followers, followers[f].at # "left"
        PROVE  FollowerOK(followers[f])'
    <3>1. PICK g \in Follower : g = followers[f]
      BY <1>1, FollowerTyped
    <3>2. FollowerOK(g)'
      BY <1>1, <1>3, <1>4, <2>1, <3>1, FollowerKept DEF FollowersOK
    <3>3. followers'[f] = g
      BY <1>8, <3>1
    <3> QED
      BY <3>1, <3>2, <3>3
  <2>2. ASSUME NEW f \in DOMAIN followers', followers'[f].at # "left"
        PROVE  FollowerOK(followers[f])'
    <3>1. CASE f \in DOMAIN followers
      BY <1>8, <2>1, <2>2, <3>1
    <3>2. CASE f = Len(followers) + 1
      <4>1. followers'[f] = new
        BY <1>8, <3>2
      <4> QED
        BY <1>7, <4>1
    <3> QED
      BY <1>8, <2>2, <3>1, <3>2
  <2> QED
    BY <2>2 DEF FollowersOK
<1>10. Past <= Past' /\ Past' \in Int /\ Past' = hooksRun
  BY <1>1 DEF Past, FollowTypeOK, NoHook
<1>11. StampsOK' /\ OrderOK' /\ FailuresOK' /\ NotifyIsOfNewestTurn'
  <2>1. OrderOK' /\ NotifyIsOfNewestTurn'
    BY <1>4, <1>5 DEF OrderOK, NotifyIsOfNewestTurn
  <2>2. FailuresOK'
    BY <1>3, <1>4, <1>5, FailuresKept
  <2>3. StampsOK'
    BY <1>3, <1>4, <1>5, <1>10, StampsKept
  <2> QED
    BY <2>1, <2>2, <2>3
<1>12. Len(followers) + 1 <= hooksRun /\ hooksRun <= MaxHooks /\ hooksRun \in Nat
  BY <1>1 DEF HookOK, FollowTypeOK
<1>13. HookOK'
  <2>1. Len(followers') <= hooksRun' /\ Len(followers') \in Nat
    BY <1>1, <1>6, <1>8, <1>12 DEF FollowTypeOK
  <2> QED
    BY <1>1, <2>1 DEF HookOK, NoHook, codex
<1>14. FollowTypeOK'
  <2>1. hook.turn \in Turns /\ hook.turn \in 0..MaxTurns
    <3>1. running # 0 /\ running = turns /\ hook.turn = turns
      BY <1>1 DEF HookOK
    <3> QED
      BY <1>1, <3>1, RunningUnfailed DEF Turns
  <2>2. followers' \in Seq(Follower) /\ Len(followers') <= MaxHooks
    BY <1>1, <1>6, <1>8, <1>12 DEF FollowTypeOK
  <2>3. lock' \in {Free, Asker} \cup DOMAIN followers'
    BY <1>1, <1>8 DEF FollowTypeOK
  <2>4. ASSUME NEW f \in DOMAIN followers'
        PROVE  followers'[f].held <=> lock' = f
    <3>1. CASE f \in DOMAIN followers
      <4>1. followers[f].held <=> lock = f
        BY <1>1, <3>1 DEF FollowTypeOK
      <4>2. f # Free /\ f # Asker
        BY <1>8, <3>1 DEF Free, Asker
      <4> QED
        BY <1>8, <3>1, <4>1, <4>2
    <3>2. CASE f = Len(followers) + 1
      <4>1. lock' # f
        <5>1. lock' \in {0, -1} \cup 1..Len(followers)
          BY <1>1, <1>8 DEF FollowTypeOK, Free, Asker
        <5> QED
          BY <1>8, <3>2, <5>1
      <4> QED
        BY <1>6, <1>8, <3>2, <4>1
    <3> QED
      BY <1>8, <2>4, <3>1, <3>2
  <2>5. /\ hook' \in [at : {"none", "apply", "start", "release"},
                      kind : {"none", "prompt", "work", "stop"}, turn : 0..MaxTurns]
        /\ noticed' \subseteq Turns
    BY <1>1, <2>1 DEF FollowTypeOK, NoHook
  <2> QED
    BY <1>1, <1>5, <2>2, <2>3, <2>4, <2>5 DEF FollowTypeOK, codex
<1> QED
  BY <1>3, <1>9, <1>11, <1>13, <1>14 DEF FollowInv

\* What a hook does of followers keeps the invariant.
LEMMA StartFollowerKeeps == ASSUME FollowInv, StartFollower PROVE FollowInv'
<1> USE FollowerAssumption
<1>1. FollowTypeOK /\ RolloutOK /\ HookOK
  BY DEF FollowInv
<1>2. hook.at = "start" /\ UNCHANGED <<codex, hooksRun, files, named, bound, deaths>>
  BY DEF StartFollower
<1>3. lock # Asker /\ (bound => hook.turn \in HookedTurns) /\ hook.turn = turns /\ turns \in Turns
  <2>1. lock # Asker /\ (bound => hook.turn \in HookedTurns) /\ hook.turn = turns
        /\ running # 0 /\ running = turns
    BY <1>1, <1>2 DEF HookOK
  <2> QED
    BY <1>1, <2>1, RunningUnfailed DEF Turns
<1>4. CASE AsksFirst(hook.kind)
  <2>1. /\ UNCHANGED followers
        /\ \/ lock = Free /\ lock' = Asker /\ hook' = [hook EXCEPT !.at = "release"]
           \/ lock # Free /\ hook' = NoHook /\ UNCHANGED lock
        /\ noticed' = IF lock = Free THEN noticed ELSE noticed \cup {hook.turn}
    BY <1>4 DEF StartFollower
  <2>2. HookedTurns' = HookedTurns /\ SettledTurns' = SettledTurns
    BY <1>2, RecordsTell DEF files
  <2>3. Carries /\ RolloutOK'
    BY <1>1, <1>2, <2>2, StillCarries
  <2>4. /\ hook' \in [at : {"none", "apply", "start", "release"},
                      kind : {"none", "prompt", "work", "stop"}, turn : 0..MaxTurns]
        /\ \/ hook' = NoHook /\ lock' # Asker
           \/ hook' = [at |-> "release", kind |-> hook.kind, turn |-> hook.turn] /\ lock' = Asker
    BY <1>1, <1>3, <2>1 DEF FollowTypeOK, NoHook
  <2>5. Past = hooksRun /\ Past' = hooksRun /\ hooksRun \in Int
    BY <1>1, <1>2, <2>4 DEF Past, FollowTypeOK, NoHook
  <2>6. StampsOK' /\ OrderOK' /\ FailuresOK' /\ FollowersOK' /\ NotifyIsOfNewestTurn'
    BY <1>2, <2>1, <2>3, <2>5, CodexKeeps
  <2>7. HookOK'
    <3>1. Len(followers) + 1 <= hooksRun /\ Len(followers) \in Nat /\ hooksRun \in Nat
      BY <1>1, <1>2 DEF HookOK, FollowTypeOK
    <3>2. running \in {0, turns} /\ running # 0 /\ hook.turn = running /\ hook.kind # "none"
      BY <1>1, <1>2 DEF HookOK
    <3>3. running' = running /\ turns' = turns /\ hooksRun' = hooksRun /\ followers' = followers
      BY <1>2, <2>1 DEF codex
    <3>4. CASE hook' = NoHook /\ lock' # Asker
      BY <3>1, <3>2, <3>3, <3>4 DEF HookOK, NoHook
    <3>5. CASE hook' = [at |-> "release", kind |-> hook.kind, turn |-> hook.turn] /\ lock' = Asker
      BY <1>2, <1>3, <2>2, <3>1, <3>2, <3>3, <3>5 DEF HookOK
    <3> QED
      BY <2>4, <3>4, <3>5
  <2>8. FollowTypeOK'
    <3>1. lock' \in {Free, Asker} \cup DOMAIN followers'
      BY <1>1, <2>1 DEF FollowTypeOK
    <3>2. \A f \in DOMAIN followers' : followers'[f].held <=> lock' = f
      <4>1. DOMAIN followers \subseteq Nat \ {0}
        BY <1>1 DEF FollowTypeOK
      <4> QED
        BY <1>1, <2>1, <4>1 DEF FollowTypeOK, Free, Asker
    <3>3. noticed' \subseteq Turns
      BY <1>1, <1>3, <2>1 DEF FollowTypeOK
    <3> QED
      BY <1>1, <1>2, <2>1, <2>4, <3>1, <3>2, <3>3 DEF FollowTypeOK, codex, files
  <2> QED
    BY <2>3, <2>6, <2>7, <2>8 DEF FollowInv
<1>5. CASE ~AsksFirst(hook.kind)
  <2>1. /\ followers' = Append(followers, NewFollower) /\ hook' = NoHook /\ lock' = lock
        /\ noticed' = noticed \cup {hook.turn}
    BY <1>5 DEF StartFollower
  <2> QED
    BY <1>2, <1>3, <2>1, FollowerStarts
<1> QED
  BY <1>4, <1>5

\* A follower started after asking keeps the invariant.
LEMMA StartAfterAskingKeeps == ASSUME FollowInv, StartAfterAsking PROVE FollowInv'
<1>1. hook.at = "release" /\ lock' = Free /\ followers' = Append(followers, NewFollower)
      /\ hook' = NoHook /\ noticed' = noticed \cup {hook.turn}
      /\ UNCHANGED <<codex, hooksRun, files, named, bound, deaths>>
  BY DEF StartAfterAsking
<1>2. lock = Asker /\ (bound => hook.turn \in HookedTurns)
  BY <1>1 DEF FollowInv, HookOK
<1>3. lock' # Asker
  BY <1>1 DEF Free, Asker
<1> QED
  BY <1>1, <1>2, <1>3, FollowerStarts

\* How a follower's step may move the lock.
MovesLock(f, new) ==
  \/ lock' = lock /\ new.held = followers[f].held
  \/ lock' = (IF lock = f THEN Free ELSE lock) /\ new.held = FALSE
  \/ lock = Free /\ lock' = f /\ new.held = TRUE

\* One follower's step leaves the others in place and Codex's hook to itself.
LEMMA FollowerMoves ==
  ASSUME FollowInv, Carries, NEW f \in DOMAIN followers, NEW new \in Follower,
         followers' = [followers EXCEPT ![f] = new], MovesLock(f, new),
         new.at = "left" \/ FollowerOK(new)',
         UNCHANGED <<codex, hook, hooksRun, bound, noticed, latest>>,
         deaths' \in 0..MaxDeaths, named' \in 0..(2 * MaxTurns), records' \subseteq Record,
         slot' \in [word : {"none", "thinking", "stop", "notify"},
                    obs : Stamps, by : 0..(2 * MaxTurns)]
  PROVE  FollowTypeOK' /\ RolloutOK' /\ HookOK' /\ FollowersOK'
<1> USE FollowerAssumption
<1>1. FollowTypeOK /\ RolloutOK /\ HookOK /\ FollowersOK
  BY DEF FollowInv
<1>2. RolloutOK' /\ running' = running /\ turns' = turns /\ rollout' = rollout
  BY <1>1 DEF codex, RolloutOK, IsStart, IsEnd
<1>3. /\ followers \in Seq(Follower) /\ followers' \in Seq(Follower) /\ Len(followers') = Len(followers)
      /\ DOMAIN followers' = DOMAIN followers /\ DOMAIN followers \subseteq Nat \ {0}
      /\ followers'[f] = new /\ \A h \in DOMAIN followers : h # f => followers'[h] = followers[h]
  <2>1. followers \in Seq(Follower)
    BY <1>1 DEF FollowTypeOK
  <2>2. followers' \in Seq(Follower) /\ Len(followers') = Len(followers)
    BY <2>1
  <2>3. DOMAIN followers' = DOMAIN followers /\ DOMAIN followers \subseteq Nat \ {0}
    BY <2>1
  <2>4. followers'[f] = new /\ \A h \in DOMAIN followers : h # f => followers'[h] = followers[h]
    BY <2>1
  <2> QED
    BY <2>1, <2>2, <2>3, <2>4
<1>4. ASSUME NEW h \in DOMAIN followers, h # f, followers[h].at # "left"
      PROVE  FollowerOK(followers[h])'
  <2>1. PICK g \in Follower : g = followers[h]
    BY <1>1, FollowerTyped
  <2>2. FollowerOK(g)'
    BY <1>1, <1>4, <2>1, FollowerKept DEF FollowersOK
  <2> QED
    BY <1>3, <1>4, <2>1, <2>2
<1>5. ASSUME followers'[f].at # "left"
      PROVE  FollowerOK(followers[f])'
  BY <1>3, <1>5
<1>6. FollowersOK'
  <2> SUFFICES ASSUME NEW h \in DOMAIN followers, followers'[h].at # "left"
               PROVE  FollowerOK(followers[h])'
    BY <1>3 DEF FollowersOK
  <2> QED
    BY <1>3, <1>4, <1>5
<1>7. f # Free /\ f # Asker
  BY <1>3 DEF Free, Asker
<1>8. lock' \in {Free, Asker} \cup DOMAIN followers /\ (lock' = Asker <=> lock = Asker)
  <2>1. lock \in {Free, Asker} \cup DOMAIN followers /\ Free # Asker
    BY <1>1 DEF FollowTypeOK, Free, Asker
  <2>2. lock' = lock \/ (lock = f /\ lock' = Free) \/ (lock = Free /\ lock' = f)
    BY DEF MovesLock
  <2> QED
    BY <1>7, <2>1, <2>2
<1>9. ASSUME NEW h \in DOMAIN followers
      PROVE  followers'[h].held <=> lock' = h
  <2>1. h # Free /\ (followers[h].held <=> lock = h) /\ (followers[f].held <=> lock = f)
    BY <1>1, <1>3 DEF FollowTypeOK, Free
  <2>2. CASE h = f
    BY <1>3, <1>7, <2>1, <2>2 DEF MovesLock
  <2>3. CASE h # f
    BY <1>3, <1>7, <2>1, <2>3 DEF MovesLock
  <2> QED
    BY <2>2, <2>3
<1>10. FollowTypeOK'
  BY <1>1, <1>2, <1>3, <1>8, <1>9 DEF FollowTypeOK
<1>11. HookedTurns \subseteq HookedTurns'
  BY DEF Carries
<1>12. HookOK'
  BY <1>1, <1>2, <1>3, <1>8, <1>11 DEF HookOK
<1> QED
  BY <1>2, <1>6, <1>10, <1>12

\* A step of a follower that writes no file.
LEMMA FollowerReads ==
  ASSUME FollowInv, NEW f \in DOMAIN followers, NEW new \in Follower,
         followers' = [followers EXCEPT ![f] = new], MovesLock(f, new),
         new.at = "left" \/ FollowerOK(new), Unchanged, UNCHANGED files,
         deaths' \in 0..MaxDeaths, named' \in 0..(2 * MaxTurns)
  PROVE  FollowInv'
<1>1. FollowTypeOK /\ RolloutOK /\ StampsOK /\ FollowersOK /\ FailuresOK
  BY DEF FollowInv
<1>2. UNCHANGED <<codex, hook, hooksRun, bound, noticed, latest>> /\ records' = records /\ slot' = slot
  BY DEF files, Unchanged
<1>3. Carries
  BY <1>1, <1>2, RecordsTell, StillCarries
<1>4. new.at = "left" \/ FollowerOK(new)'
  BY <1>1, <1>3, FollowerKept
<1>5. records' \subseteq Record
      /\ slot' \in [word : {"none", "thinking", "stop", "notify"},
                    obs : Stamps, by : 0..(2 * MaxTurns)]
  BY <1>1, <1>2 DEF FollowTypeOK
<1>6. FollowTypeOK' /\ RolloutOK' /\ HookOK' /\ FollowersOK'
  BY <1>2, <1>3, <1>4, <1>5, FollowerMoves
<1>7. OrderOK' /\ NotifyIsOfNewestTurn'
  BY <1>2 DEF FollowInv, OrderOK, NotifyIsOfNewestTurn
<1>8. Past <= Past' /\ Past' \in Int
  BY <1>1, <1>2 DEF Past, FollowTypeOK
<1>9. StampsOK' /\ FailuresOK'
  BY <1>1, <1>2, <1>3, <1>8, StampsKept, FailuresKept
<1> QED
  BY <1>6, <1>7, <1>9 DEF FollowInv

\* A follower that leaves reads nothing more.
LEMMA LeavingIsLeft ==
  ASSUME NEW f, Leave(f)
  PROVE  /\ Left \in Follower /\ Left.at = "left" /\ followers' = [followers EXCEPT ![f] = Left]
         /\ MovesLock(f, Left)
<1>1. Left \in Follower /\ Left.at = "left" /\ Left.held = FALSE
  <2>1. 0 \in 0..(2 * MaxTurns) /\ 0 \in Nat /\ {} \subseteq TurnIds
    BY FollowerAssumption
  <2> QED
    BY <2>1 DEF Left, Follower
<1> QED
  BY <1>1 DEF Leave, MovesLock

\* Where a follower is does not depend on whether it waits or reads.
LEMMA WaitOrRead ==
  ASSUME NEW g, NEW h, FollowerOK(g), g.at # "recording", h.at # "recording", h.turn = g.turn,
         h.offset = g.offset, h.ended = g.ended, h.before = g.before
  PROVE  FollowerOK(h)
BY DEF FollowerOK

\* A follower that takes its turn, leaves it to another or looks without the lock keeps the
\* invariant.
LEMMA TakeTurnKeeps ==
  ASSUME FollowInv, NEW f \in DOMAIN followers, TakeTurn(f)
  PROVE  FollowInv'
<1> USE FollowerAssumption
<1>1. FollowTypeOK /\ FollowersOK
  BY DEF FollowInv
<1>2. followers[f].at = "waiting" /\ UNCHANGED <<files, deaths>> /\ Unchanged
  BY DEF TakeTurn
<1>3. PICK g \in Follower : g = followers[f]
  BY <1>1, FollowerTyped
<1>4. FollowerOK(g) /\ g.at = "waiting" /\ g.turn \in 0..(2 * MaxTurns)
  BY <1>1, <1>2, <1>3 DEF FollowersOK, Follower
<1>5. deaths' \in 0..MaxDeaths /\ named \in 0..(2 * MaxTurns)
  BY <1>1, <1>2 DEF FollowTypeOK
<1>6. \/ Leave(f) /\ UNCHANGED named
      \/ /\ lock = Free /\ lock' = f /\ named' = g.turn
         /\ followers' = [followers EXCEPT ![f].at = "reading", ![f].held = TRUE]
      \/ KeptOut(f) /\ UNCHANGED named
  BY <1>3 DEF TakeTurn
<1>7. named' \in 0..(2 * MaxTurns)
  BY <1>4, <1>5, <1>6
<1>8. CASE Leave(f)
  BY <1>2, <1>5, <1>7, <1>8, LeavingIsLeft, FollowerReads
<1>9. CASE /\ lock = Free /\ lock' = f
           /\ followers' = [followers EXCEPT ![f].at = "reading", ![f].held = TRUE]
  <2>1. PICK new : new = [[g EXCEPT !.at = "reading"] EXCEPT !.held = TRUE]
    OBVIOUS
  <2>2. /\ new \in Follower /\ new.at = "reading" /\ new.held = TRUE /\ new.turn = g.turn
        /\ new.offset = g.offset /\ new.ended = g.ended /\ new.before = g.before
    BY <2>1 DEF Follower
  <2>3. followers' = [followers EXCEPT ![f] = new]
    BY <1>1, <1>3, <1>9, <2>1 DEF FollowTypeOK
  <2>4. FollowerOK(new)
    BY <1>4, <2>2, WaitOrRead
  <2>5. MovesLock(f, new)
    BY <1>9, <2>2 DEF MovesLock
  <2> QED
    BY <1>2, <1>5, <1>7, <2>2, <2>3, <2>4, <2>5, FollowerReads
<1>10. CASE KeptOut(f)
  <2>1. PICK new : new = [g EXCEPT !.at = "reading"]
    OBVIOUS
  <2>2. /\ new \in Follower /\ new.at = "reading" /\ new.held = g.held /\ new.turn = g.turn
        /\ new.offset = g.offset /\ new.ended = g.ended /\ new.before = g.before
    BY <2>1 DEF Follower
  <2>3. followers' = [followers EXCEPT ![f] = new] /\ lock' = lock
    BY <1>1, <1>3, <1>10, <2>1 DEF FollowTypeOK, KeptOut
  <2>4. FollowerOK(new)
    BY <1>4, <2>2, WaitOrRead
  <2>5. MovesLock(f, new)
    BY <1>3, <2>2, <2>3 DEF MovesLock
  <2> QED
    BY <1>2, <1>5, <1>7, <2>2, <2>3, <2>4, <2>5, FollowerReads
<1> QED
  BY <1>6, <1>8, <1>9, <1>10

\* Each start of a turn after the followed one tells a follower to go on, which knows by then
\* that its turn has ended.
LEMMA StartSignals ==
  ASSUME FollowTypeOK, RolloutOK, running \in {0, turns}, NEW g \in Follower, FollowerOK(g),
         NEW v \in (g.turn + 1)..turns, NEW k \in DOMAIN rollout, Lead(rollout[k].turn) = v
  PROVE  k \in (g.offset + 1)..Len(rollout) /\ EndRead(g, k) /\ rollout[k].turn # g.turn
         /\ (rollout[k].kind = "start" => k \in Signals(g))
<1> USE FollowerAssumption
<1>1. DOMAIN rollout = 1..Len(rollout) /\ Len(rollout) \in Nat
      /\ \A i \in DOMAIN rollout : rollout[i].turn \in TurnIds
  <2>1. DOMAIN rollout = 1..Len(rollout) /\ Len(rollout) \in Nat
        /\ \A i \in DOMAIN rollout : rollout[i] \in Line
    BY DEF FollowTypeOK
  <2> QED
    BY <2>1 DEF Line
<1>2. g.turn \in 1..turns /\ g.offset \in 0..Len(rollout) /\ turns \in 0..MaxTurns
  BY DEF FollowerOK, FollowTypeOK
<1>3. g.turn # running /\ g.turn \in 1..turns /\ g.turn < v
  BY <1>2
<1>4. PICK e \in DOMAIN rollout : IsEnd(e, g.turn)
  BY <1>3 DEF RolloutOK
<1>5. Lead(rollout[e].turn) = g.turn /\ rollout[e].turn = g.turn /\ rollout[e].kind # "start"
  <2>1. rollout[e].turn = g.turn /\ rollout[e].kind # "start"
    BY <1>4 DEF IsEnd
  <2>2. g.turn <= MaxTurns
    BY <1>2
  <2>3. PICK id : id = rollout[e].turn
    OBVIOUS
  <2>4. id = g.turn /\ ~(id > MaxTurns)
    BY <1>2, <2>1, <2>3
  <2>5. Lead(id) = g.turn
    BY <2>4 DEF Lead
  <2> QED
    BY <2>1, <2>3, <2>5
<1>6. e < k
  <2>1. k < e => Lead(rollout[k].turn) <= Lead(rollout[e].turn)
    BY DEF RolloutOK
  <2>2. e \in Nat /\ k \in Nat
    BY <1>1
  <2> QED
    BY <1>2, <1>3, <1>5, <2>1, <2>2
<1>7. k > g.offset
  <2>1. k <= g.offset => Lead(rollout[k].turn) <= g.turn
    BY DEF FollowerOK
  <2> QED
    BY <1>1, <1>2, <1>3, <2>1
<1>8. EndRead(g, k)
  <2>1. CASE e <= g.offset
    BY <1>4, <2>1 DEF EndRead, FollowerOK
  <2>2. CASE e > g.offset
    <3>1. e \in (g.offset + 1)..(k - 1)
      BY <1>1, <1>2, <1>6, <2>2
    <3> QED
      BY <1>5, <3>1 DEF EndRead
  <2> QED
    BY <1>1, <1>2, <2>1, <2>2
<1>9. rollout[k].turn # g.turn
  <2>1. PICK id : id = rollout[k].turn
    OBVIOUS
  <2>2. id \in Nat /\ Lead(id) = v
    BY <1>1, <2>1 DEF TurnIds
  <2>3. id # g.turn
    BY <1>2, <1>3, <2>2 DEF Lead
  <2> QED
    BY <2>1, <2>3
<1>10. k \in (g.offset + 1)..Len(rollout)
  BY <1>1, <1>2, <1>7
<1>11. rollout[k].kind = "start" => k \in Signals(g)
  BY <1>8, <1>9, <1>10 DEF Signals, OtherTurnStarted
<1> QED
  BY <1>8, <1>9, <1>10, <1>11

\* A follower that reads that its turn failed is where its turn ended.
LEMMA FailureRead ==
  ASSUME FollowTypeOK, RolloutOK, NEW g \in Follower, FollowerOK(g), g.at = "reading",
         NEW i \in Signals(g), TurnFailed(g, i),
         NEW new \in Follower, new.at = "recording", new.turn = g.turn, new.before = g.before,
         new.offset = i, new.ended = IF EndRead(g, i + 1) THEN g.turn ELSE g.ended
  PROVE  FollowerOK(new)
<1> USE FollowerAssumption
<1>1. DOMAIN rollout = 1..Len(rollout) /\ Len(rollout) \in Nat
  BY DEF FollowTypeOK
<1>2. g.turn \in 1..turns /\ g.offset \in 0..Len(rollout) /\ turns \in 0..MaxTurns
  BY DEF FollowerOK, FollowTypeOK
<1>3. i \in (g.offset + 1)..Len(rollout) /\ i \in DOMAIN rollout /\ i \in Nat /\ g.offset < i
  BY <1>1, <1>2 DEF Signals
<1>4. rollout[i].kind = "failed" /\ rollout[i].turn = g.turn
  BY DEF TurnFailed
<1>5. Lead(rollout[i].turn) = g.turn
  <2>1. PICK id : id = rollout[i].turn
    OBVIOUS
  <2>2. id = g.turn /\ ~(id > MaxTurns)
    BY <1>2, <1>4, <2>1
  <2>3. Lead(id) = g.turn
    BY <2>2 DEF Lead
  <2> QED
    BY <2>1, <2>3
<1>6. g.turn \in FailedTurns
  BY <1>2, <1>3, <1>4 DEF FailedTurns, Failed, Turns
<1>7. ASSUME NEW k \in DOMAIN rollout
      PROVE  /\ k <= i => Lead(rollout[k].turn) <= g.turn
             /\ k > i => Lead(rollout[k].turn) >= g.turn
  <2>1. k < i => Lead(rollout[k].turn) <= g.turn
    <3>1. k < i => Lead(rollout[k].turn) <= Lead(rollout[i].turn)
      BY <1>3, <1>7 DEF RolloutOK
    <3> QED
      BY <1>5, <3>1
  <2>2. k > i => Lead(rollout[k].turn) >= g.turn
    <3>1. i < k => Lead(rollout[i].turn) <= Lead(rollout[k].turn)
      BY <1>3, <1>7 DEF RolloutOK
    <3>2. Lead(rollout[k].turn) \in 1..turns
      BY <1>7 DEF RolloutOK
    <3> QED
      BY <1>1, <1>2, <1>3, <1>5, <3>1, <3>2
  <2>3. k = i => Lead(rollout[k].turn) <= g.turn
    BY <1>2, <1>5
  <2> QED
    BY <1>1, <1>3, <2>1, <2>2, <2>3
<1>8. EndRead(g, i + 1)
  <2>1. i \in (g.offset + 1)..((i + 1) - 1)
    BY <1>2, <1>3
  <2> QED
    BY <1>4, <2>1 DEF EndRead
<1>9. new.ended = new.turn /\ IsEnd(i, new.turn) /\ i <= new.offset
  BY <1>3, <1>4, <1>8 DEF IsEnd
<1>10. bound => /\ \E s \in HookedTurns : s <= new.turn /\ new.before = s..(new.turn - 1)
                /\ \A t \in 1..(new.turn - 1) : Behind(t, new.turn)
  BY DEF FollowerOK
<1>11. new.turn \in 1..turns /\ new.offset \in 0..Len(rollout)
  BY <1>1, <1>2, <1>3
<1>12. \E k \in DOMAIN rollout : k <= new.offset /\ IsEnd(k, new.turn)
  BY <1>3, <1>9
<1> QED
  BY <1>6, <1>7, <1>9, <1>10, <1>11, <1>12 DEF FollowerOK

\* The first other start a follower reads is the next turn's, after the end of its own.
LEMMA NextTurnRead ==
  ASSUME FollowTypeOK, RolloutOK, running \in {0, turns}, NEW g \in Follower, FollowerOK(g),
         NEW i \in Signals(g), \A k \in Signals(g) : i <= k, ~TurnFailed(g, i)
  PROVE  /\ rollout[i].turn = g.turn + 1 /\ g.turn + 1 \in 1..turns /\ rollout[i].kind = "start"
         /\ EndRead(g, i + 1) /\ i \in DOMAIN rollout /\ g.offset < i
<1> USE FollowerAssumption
<1>1. DOMAIN rollout = 1..Len(rollout) /\ Len(rollout) \in Nat
      /\ \A k \in DOMAIN rollout : rollout[k] \in Line
  BY DEF FollowTypeOK
<1>2. g.turn \in 1..turns /\ g.offset \in 0..Len(rollout) /\ turns \in 0..MaxTurns
  BY DEF FollowerOK, FollowTypeOK
<1>3. i \in (g.offset + 1)..Len(rollout) /\ i \in DOMAIN rollout /\ i \in Nat /\ g.offset < i
  BY <1>1, <1>2 DEF Signals
<1>4. /\ rollout[i].kind = "start" /\ rollout[i].turn # g.turn
      /\ rollout[i].parent = g.turn => EndRead(g, i)
  BY DEF Signals, OtherTurnStarted
<1>5. PICK w : w = rollout[i].turn /\ w \in TurnIds /\ w \in Nat
  <2>1. rollout[i].turn \in TurnIds
    BY <1>1, <1>3 DEF Line
  <2> QED
    BY <2>1 DEF TurnIds
<1>6. Lead(w) \in 1..turns /\ Lead(w) >= g.turn
  BY <1>3, <1>5 DEF RolloutOK, FollowerOK
<1>7. Lead(w) # g.turn
  <2> SUFFICES ASSUME Lead(w) = g.turn
               PROVE  FALSE
    OBVIOUS
  <2>1. w > MaxTurns
    BY <1>4, <1>5 DEF Lead
  <2>2. rollout[i].parent = w - MaxTurns /\ Lead(w) = w - MaxTurns
    BY <1>3, <1>5, <2>1 DEF RolloutOK, Lead
  <2>3. EndRead(g, i)
    BY <1>4, <2>2
  <2>4. PICK e \in DOMAIN rollout : e < i /\ IsEnd(e, g.turn)
    <3>1. CASE g.ended = g.turn
      <4>1. PICK e \in DOMAIN rollout : e <= g.offset /\ IsEnd(e, g.turn)
        BY <3>1 DEF FollowerOK
      <4> QED
        BY <1>1, <1>2, <1>3, <4>1
    <3>2. CASE \E j \in (g.offset + 1)..(i - 1) : rollout[j].turn = g.turn /\ rollout[j].kind # "start"
      <4>1. PICK j \in (g.offset + 1)..(i - 1) : rollout[j].turn = g.turn /\ rollout[j].kind # "start"
        BY <3>2
      <4>2. j \in DOMAIN rollout /\ j < i
        BY <1>1, <1>2, <1>3, <4>1
      <4> QED
        BY <4>1, <4>2 DEF IsEnd
    <3> QED
      BY <2>3, <3>1, <3>2 DEF EndRead
  <2>5. IsEnd(e, Lead(rollout[i].turn))
    BY <1>5, <2>4
  <2>6. i <= e
    BY <1>3, <2>4, <2>5 DEF RolloutOK
  <2> QED
    BY <1>1, <1>3, <2>4, <2>6
<1>8. Lead(w) > g.turn /\ g.turn + 1 \in (g.turn + 1)..turns
  BY <1>2, <1>6, <1>7
<1>9. ASSUME NEW v \in (g.turn + 1)..turns, v <= Lead(w), v < Lead(w) \/ w > MaxTurns
      PROVE  FALSE
  <2>1. v \in 1..turns
    BY <1>2, <1>9
  <2>2. PICK k \in DOMAIN rollout : IsStart(k, v)
    BY <2>1 DEF RolloutOK
  <2>3. Lead(rollout[k].turn) = v /\ rollout[k].turn = v
    <3>1. PICK id : id = rollout[k].turn
      OBVIOUS
    <3>2. id = v /\ ~(id > MaxTurns)
      BY <1>2, <2>1, <2>2, <3>1 DEF IsStart
    <3>3. Lead(id) = v
      BY <3>2 DEF Lead
    <3> QED
      BY <3>1, <3>2, <3>3
  <2>4. k \in Signals(g)
    BY <2>2, <2>3, StartSignals DEF IsStart
  <2>5. i <= k /\ k \in Nat
    BY <1>1, <2>4
  <2>6. k # i
    <3>1. CASE v < Lead(w)
      BY <1>5, <1>6, <2>1, <2>3, <3>1
    <3>2. CASE w > MaxTurns
      BY <1>2, <1>5, <2>1, <2>3, <3>2
    <3> QED
      BY <1>9, <3>1, <3>2
  <2>7. i < k
    BY <1>3, <2>5, <2>6
  <2>8. Lead(w) <= v
    <3>1. Lead(rollout[i].turn) <= Lead(rollout[k].turn)
      BY <1>3, <2>7 DEF RolloutOK
    <3> QED
      BY <1>5, <2>3, <3>1
  <2>9. v = Lead(w)
    BY <1>6, <1>9, <2>1, <2>8
  <2>10. k <= i
    BY <1>3, <1>5, <2>2, <2>9 DEF RolloutOK
  <2> QED
    BY <1>3, <2>5, <2>7, <2>10
<1>10. ~(w > MaxTurns)
  <2>1. Lead(w) \in (g.turn + 1)..turns /\ Lead(w) <= Lead(w)
    BY <1>2, <1>6, <1>8
  <2> QED
    BY <1>9, <2>1
<1>11. ~(g.turn + 1 < Lead(w))
  <2>1. g.turn + 1 < Lead(w) => g.turn + 1 <= Lead(w)
    BY <1>2, <1>6
  <2> QED
    BY <1>8, <1>9, <2>1
<1>12. w = g.turn + 1
  <2>1. Lead(w) = w
    BY <1>10 DEF Lead
  <2> QED
    BY <1>2, <1>5, <1>8, <1>11, <2>1
<1>13. EndRead(g, i + 1)
  <2>1. EndRead(g, i)
    <3>1. PICK v \in (g.turn + 1)..turns : Lead(rollout[i].turn) = v
      BY <1>2, <1>5, <1>6, <1>8
    <3> QED
      BY <1>3, <3>1, StartSignals
  <2>2. CASE g.ended = g.turn
    BY <2>2 DEF EndRead
  <2>3. CASE \E j \in (g.offset + 1)..(i - 1) : rollout[j].turn = g.turn /\ rollout[j].kind # "start"
    <3>1. PICK j \in (g.offset + 1)..(i - 1) : rollout[j].turn = g.turn /\ rollout[j].kind # "start"
      BY <2>3
    <3>2. j \in (g.offset + 1)..((i + 1) - 1)
      BY <1>2, <1>3, <3>1
    <3> QED
      BY <3>1, <3>2 DEF EndRead
  <2> QED
    BY <2>1, <2>2, <2>3 DEF EndRead
<1> QED
  BY <1>2, <1>3, <1>4, <1>5, <1>8, <1>12, <1>13

\* A follower that goes on to the next turn is where that turn started, and left no failed turn
\* behind.
LEMMA NextTurnFollowed ==
  ASSUME FollowTypeOK, RolloutOK, running \in {0, turns}, NEW g \in Follower, FollowerOK(g),
         g.at = "reading", NEW i \in Signals(g), \A k \in Signals(g) : i <= k, ~TurnFailed(g, i),
         NEW new \in Follower, new.at = "reading", new.turn = rollout[i].turn,
         new.before = g.before \cup {g.turn}, new.offset = i, new.ended = g.turn
  PROVE  FollowerOK(new)
<1> USE FollowerAssumption
<1>1. DOMAIN rollout = 1..Len(rollout) /\ Len(rollout) \in Nat
  BY DEF FollowTypeOK
<1>2. g.turn \in 1..turns /\ g.offset \in 0..Len(rollout) /\ turns \in 0..MaxTurns
  BY DEF FollowerOK, FollowTypeOK
<1>3. /\ rollout[i].turn = g.turn + 1 /\ g.turn + 1 \in 1..turns /\ rollout[i].kind = "start"
      /\ i \in DOMAIN rollout /\ g.offset < i
  BY NextTurnRead
<1>4. i \in Nat /\ new.turn = g.turn + 1 /\ new.turn \in 1..turns /\ new.offset \in 0..Len(rollout)
  BY <1>1, <1>3
<1>5. Lead(rollout[i].turn) = new.turn
  <2>1. ~(new.turn > MaxTurns)
    BY <1>2, <1>4
  <2> QED
    BY <1>4, <2>1 DEF Lead
<1>6. ASSUME NEW k \in DOMAIN rollout
      PROVE  /\ k <= i => Lead(rollout[k].turn) <= new.turn
             /\ k > i => Lead(rollout[k].turn) >= new.turn
             /\ Lead(rollout[k].turn) = new.turn /\ rollout[k].kind # "start" => k > i
  <2>1. k < i => Lead(rollout[k].turn) <= new.turn
    <3>1. k < i => Lead(rollout[k].turn) <= Lead(rollout[i].turn)
      BY <1>3, <1>6 DEF RolloutOK
    <3> QED
      BY <1>5, <3>1
  <2>2. Lead(rollout[k].turn) \in 1..turns
    BY <1>6 DEF RolloutOK
  <2>3. k > i => Lead(rollout[k].turn) >= new.turn
    <3>1. i < k => Lead(rollout[i].turn) <= Lead(rollout[k].turn)
      BY <1>3, <1>6 DEF RolloutOK
    <3> QED
      BY <1>1, <1>2, <1>4, <1>5, <1>6, <2>2, <3>1
  <2>4. k = i => Lead(rollout[k].turn) <= new.turn
    <3>1. new.turn \in Nat /\ new.turn <= new.turn
      BY <1>2, <1>4
    <3> QED
      BY <1>5, <3>1
  <2>5. Lead(rollout[k].turn) = new.turn /\ rollout[k].kind # "start" => k > i
    <3>1. IsStart(i, Lead(rollout[k].turn)) => i <= k
      BY <1>3, <1>6 DEF RolloutOK
    <3> QED
      BY <1>1, <1>3, <1>4, <1>6, <3>1 DEF IsStart
  <2> QED
    BY <1>1, <1>4, <1>6, <2>1, <2>3, <2>4, <2>5
<1>7. ~ \E k \in DOMAIN rollout : k <= new.offset /\ IsEnd(k, new.turn)
  <2> SUFFICES ASSUME NEW k \in DOMAIN rollout, k <= i, IsEnd(k, new.turn)
               PROVE  FALSE
    OBVIOUS
  <2>1. PICK id : id = rollout[k].turn
    OBVIOUS
  <2>2. id = new.turn /\ ~(id > MaxTurns)
    <3>1. id = new.turn
      BY <2>1 DEF IsEnd
    <3>2. ~(new.turn > MaxTurns)
      BY <1>2, <1>4
    <3> QED
      BY <3>1, <3>2
  <2>3. Lead(rollout[k].turn) = new.turn
    BY <2>1, <2>2 DEF Lead
  <2> QED
    BY <1>1, <1>4, <1>6, <2>3 DEF IsEnd
<1>8. new.ended # new.turn
  BY <1>2, <1>4
<1>9. ~ \E k \in DOMAIN rollout : k <= new.offset /\ IsFailed(k, new.turn)
  BY <1>7 DEF IsFailed, IsEnd
<1>10. ASSUME bound, g.turn \in FailedTurns
       PROVE  g.turn \in SettledTurns
  <2>1. PICK k \in DOMAIN rollout : IsFailed(k, g.turn)
    BY <1>10 DEF FailedTurns, Failed, IsFailed
  <2>2. k <= g.offset
    <3> SUFFICES ASSUME ~(k <= g.offset)
                 PROVE  FALSE
      OBVIOUS
    <3>1. k \in (g.offset + 1)..Len(rollout)
      BY <1>1, <1>2
    <3>2. k \in Signals(g)
      BY <2>1, <3>1 DEF Signals, TurnFailed, IsFailed
    <3>3. i <= k /\ k # i
      BY <1>3, <2>1, <3>2 DEF IsFailed
    <3>4. i < k
      BY <1>1, <1>4, <3>3
    <3>5. Lead(rollout[i].turn) <= Lead(rollout[k].turn)
      BY <1>3, <3>4 DEF RolloutOK
    <3>6. PICK id : id = rollout[k].turn
      OBVIOUS
    <3>7. id = g.turn /\ ~(id > MaxTurns)
      BY <1>2, <2>1, <3>6 DEF IsFailed
    <3>8. Lead(rollout[k].turn) = g.turn
      BY <3>6, <3>7 DEF Lead
    <3> QED
      BY <1>2, <1>4, <1>5, <3>5, <3>8
  <2> QED
    BY <1>10, <2>1, <2>2 DEF FollowerOK
<1>11. ASSUME bound
       PROVE  /\ \E s \in HookedTurns : s <= new.turn /\ new.before = s..(new.turn - 1)
              /\ \A t \in 1..(new.turn - 1) : Behind(t, new.turn)
  <2>1. PICK s \in HookedTurns : s <= g.turn /\ g.before = s..(g.turn - 1)
    BY <1>11 DEF FollowerOK
  <2>2. s \in Nat
    BY DEF HookedTurns, Turns
  <2>3. s <= new.turn /\ new.before = s..(new.turn - 1)
    <3>1. PICK u \in Nat : u = g.turn
      BY <1>2
    <3>2. s <= u => s..u = (s..(u - 1)) \cup {u}
      BY <2>2
    <3>3. new.turn - 1 = u /\ s <= new.turn
      <4>1. new.turn = u + 1 /\ s <= u
        BY <1>4, <2>1, <3>1
      <4> QED
        BY <2>2, <4>1
    <3> QED
      BY <2>1, <3>1, <3>2, <3>3
  <2>4. ASSUME NEW t \in 1..(new.turn - 1)
        PROVE  Behind(t, new.turn)
    <3>1. CASE t = g.turn
      BY <1>10, <1>11, <3>1 DEF Behind
    <3>2. CASE t \in 1..(g.turn - 1)
      <4>1. Behind(t, g.turn)
        BY <1>11, <3>2 DEF FollowerOK
      <4>2. \A v \in HookedTurns : v <= g.turn => v <= new.turn
        BY <1>2, <1>4 DEF HookedTurns, Turns
      <4> QED
        BY <4>1, <4>2 DEF Behind
    <3> QED
      BY <1>2, <1>4, <2>4, <3>1, <3>2
  <2> QED
    BY <2>3, <2>4
<1> QED
  BY <1>4, <1>6, <1>7, <1>8, <1>9, <1>11 DEF FollowerOK

\* A follower that reads the rollout on keeps the invariant.
LEMMA ReadSignalKeeps ==
  ASSUME FollowInv, NEW f \in DOMAIN followers, ReadSignal(f)
  PROVE  FollowInv'
<1> USE FollowerAssumption
<1>1. FollowTypeOK /\ FollowersOK /\ RolloutOK /\ running \in {0, turns}
  BY DEF FollowInv, HookOK
<1>2. PICK g \in Follower : g = followers[f]
  BY <1>1, FollowerTyped
<1>3. g.at = "reading" /\ UNCHANGED <<files, deaths>> /\ Unchanged
  BY <1>2 DEF ReadSignal
<1>4. FollowerOK(g)
  BY <1>1, <1>2, <1>3 DEF FollowersOK
<1>5. deaths' \in 0..MaxDeaths /\ named \in 0..(2 * MaxTurns) /\ MaxTurns \in Nat
  BY <1>1, <1>3 DEF FollowTypeOK
<1>6. PICK i : i = Min(Signals(g))
  OBVIOUS
<1>7. PICK up : up = [g EXCEPT !.offset = i, !.ended = IF EndRead(g, i + 1) THEN g.turn ELSE g.ended]
  OBVIOUS
<1>8. \/ Leave(f) /\ UNCHANGED named
      \/ /\ Signals(g) # {} /\ TurnFailed(g, i)
         /\ followers' = [followers EXCEPT ![f] = [up EXCEPT !.at = "recording"]]
         /\ UNCHANGED <<lock, named>>
      \/ /\ Signals(g) # {} /\ ~TurnFailed(g, i)
         /\ named' = rollout[i].turn /\ UNCHANGED lock
         /\ followers' = [followers EXCEPT ![f] =
              [up EXCEPT !.turn = rollout[i].turn, !.before = @ \cup {g.turn}]]
  BY <1>2, <1>6, <1>7 DEF ReadSignal
<1>9. CASE Leave(f) /\ UNCHANGED named
  BY <1>3, <1>5, <1>9, LeavingIsLeft, FollowerReads
<1>10. ASSUME Signals(g) # {}
       PROVE  /\ i \in Signals(g) /\ \A k \in Signals(g) : i <= k
              /\ i \in DOMAIN rollout /\ i \in Nat
              /\ up \in Follower /\ up.at = "reading" /\ up.turn = g.turn /\ up.before = g.before
              /\ up.offset = i /\ up.ended = (IF EndRead(g, i + 1) THEN g.turn ELSE g.ended)
              /\ up.held = g.held
  <2>1. g.offset \in Nat /\ Len(rollout) \in Nat /\ DOMAIN rollout = 1..Len(rollout)
    BY <1>1, <1>2 DEF FollowTypeOK, Follower
  <2>2. Signals(g) \subseteq Nat /\ Signals(g) \subseteq DOMAIN rollout
    BY <2>1 DEF Signals
  <2>3. i \in Signals(g) /\ \A k \in Signals(g) : i <= k
    BY <1>6, <1>10, <2>2, LeastNumber
  <2>4. i \in Nat /\ i \in DOMAIN rollout
    BY <2>2, <2>3
  <2>5. g.turn \in 0..(2 * MaxTurns) /\ g.ended \in 0..(2 * MaxTurns)
    BY DEF Follower
  <2>6. PICK end \in 0..(2 * MaxTurns) : end = IF EndRead(g, i + 1) THEN g.turn ELSE g.ended
    BY <2>5
  <2>7. up = [[g EXCEPT !.offset = i] EXCEPT !.ended = end]
    BY <1>7, <2>6
  <2>8. up \in Follower /\ up.at = "reading" /\ up.turn = g.turn /\ up.before = g.before
        /\ up.offset = i /\ up.ended = end /\ up.held = g.held
    BY <1>3, <2>4, <2>7 DEF Follower
  <2> QED
    BY <2>3, <2>4, <2>6, <2>8
<1>11. CASE /\ Signals(g) # {} /\ TurnFailed(g, i)
            /\ followers' = [followers EXCEPT ![f] = [up EXCEPT !.at = "recording"]]
            /\ UNCHANGED <<lock, named>>
  <2>1. PICK new : new = [up EXCEPT !.at = "recording"]
    OBVIOUS
  <2>2. /\ new \in Follower /\ new.at = "recording" /\ new.turn = g.turn /\ new.before = g.before
        /\ new.offset = i /\ new.ended = (IF EndRead(g, i + 1) THEN g.turn ELSE g.ended)
        /\ new.held = g.held
    BY <1>10, <1>11, <2>1 DEF Follower
  <2>3. FollowerOK(new)
    BY <1>1, <1>3, <1>4, <1>10, <1>11, <2>2, FailureRead
  <2>4. MovesLock(f, new)
    BY <1>2, <1>11, <2>2 DEF MovesLock
  <2> QED
    BY <1>3, <1>5, <1>11, <2>1, <2>2, <2>3, <2>4, FollowerReads
<1>12. CASE /\ Signals(g) # {} /\ ~TurnFailed(g, i)
            /\ named' = rollout[i].turn /\ UNCHANGED lock
            /\ followers' = [followers EXCEPT ![f] =
                 [up EXCEPT !.turn = rollout[i].turn, !.before = @ \cup {g.turn}]]
  <2>1. PICK new : new = [up EXCEPT !.turn = rollout[i].turn, !.before = @ \cup {g.turn}]
    OBVIOUS
  <2>2. rollout[i].turn = g.turn + 1 /\ g.turn + 1 \in 1..turns /\ EndRead(g, i + 1)
    BY <1>1, <1>4, <1>10, <1>12, NextTurnRead
  <2>3. g.turn \in TurnIds /\ rollout[i].turn \in 0..(2 * MaxTurns) /\ g.before \subseteq TurnIds
    <3>1. turns \in 0..MaxTurns /\ g.turn \in 1..turns /\ g.before \subseteq TurnIds
      BY <1>1, <1>4 DEF FollowTypeOK, FollowerOK, Follower
    <3> QED
      BY <1>5, <2>2, <3>1 DEF TurnIds
  <2>4. /\ new \in Follower /\ new.at = "reading" /\ new.turn = rollout[i].turn
        /\ new.before = g.before \cup {g.turn} /\ new.offset = i /\ new.ended = g.turn
        /\ new.held = g.held
    <3>1. PICK w \in 0..(2 * MaxTurns) : w = rollout[i].turn
      BY <2>3
    <3>2. PICK before \in SUBSET TurnIds : before = up.before \cup {g.turn}
      BY <1>10, <1>12, <2>3
    <3>3. new = [[up EXCEPT !.turn = w] EXCEPT !.before = before]
      BY <1>10, <1>12, <2>1, <3>1, <3>2 DEF Follower
    <3>4. /\ new \in Follower /\ new.at = up.at /\ new.turn = w /\ new.before = before
          /\ new.offset = up.offset /\ new.ended = up.ended /\ new.held = up.held
      BY <1>10, <1>12, <3>3 DEF Follower
    <3> QED
      BY <1>10, <1>12, <2>2, <3>1, <3>2, <3>4
  <2>5. FollowerOK(new)
    BY <1>1, <1>3, <1>4, <1>10, <1>12, <2>4, NextTurnFollowed
  <2>6. MovesLock(f, new)
    BY <1>2, <1>12, <2>4 DEF MovesLock
  <2>7. named' \in 0..(2 * MaxTurns)
    BY <1>12, <2>3
  <2> QED
    BY <1>3, <1>5, <1>12, <2>1, <2>4, <2>5, <2>6, <2>7, FollowerReads
<1> QED
  BY <1>8, <1>9, <1>11, <1>12

\* A failure that no record is there to follow is recorded, or an end of its turn stands.
LEMMA NothingToFollow ==
  ASSUME FollowInv, bound, NEW g \in Follower, FollowerOK(g), g.at = "recording", Anchor(g) = {}
  PROVE  g.turn \in SettledTurns
<1> USE FollowerAssumption
<1>1. g.turn \in 1..turns /\ turns \in 0..MaxTurns /\ g.turn \in Turns
  <2>1. g.turn \in 1..turns
    BY DEF FollowerOK
  <2>2. turns \in 0..MaxTurns
    BY DEF FollowInv, FollowTypeOK
  <2> QED
    BY <2>1, <2>2 DEF Turns
<1>2. CASE Of(g.turn) # {}
  <2>1. Ends(Last(Of(g.turn))) /\ ~WentOn(Last(Of(g.turn)))
    BY <1>2 DEF Anchor
  <2> QED
    BY <1>1, <1>2, <2>1 DEF SettledTurns, IsSettled
<1>3. CASE Of(g.turn) = {}
  <2>1. UNION {Of(t) : t \in g.before} = {}
    BY <1>3 DEF Anchor
  <2>2. PICK s \in HookedTurns : s <= g.turn /\ g.before = s..(g.turn - 1)
    BY DEF FollowerOK
  <2>3. Of(s) # {} /\ s \in Nat
    BY DEF HookedTurns, Of, Turns
  <2>4. s # g.turn
    BY <1>3, <2>3
  <2>5. s \in g.before
    BY <1>1, <2>2, <2>3, <2>4
  <2>6. Of(s) \in {Of(t) : t \in g.before}
    BY <2>5
  <2> QED
    BY <2>1, <2>3, <2>6
<1> QED
  BY <1>2, <1>3

\* The record a failure follows is the last of its turn's and those before it.
LEMMA WhatIsFollowed ==
  ASSUME FollowInv, bound, NEW g \in Follower, FollowerOK(g), g.at = "recording",
         ~ \E r \in Of(g.turn) : r.kind = "failed", NEW last \in Anchor(g)
  PROVE  /\ last \in records /\ last.turn <= g.turn
         /\ \A r \in records : r.turn <= g.turn => r.obs <= last.obs
         /\ last.turn = g.turn => last.kind # "failed"
         /\ g.turn \notin SettledTurns
<1> USE FollowerAssumption
<1>1. FollowTypeOK /\ OrderOK /\ StampsOK
  BY DEF FollowInv
<1>2. g.turn \in 1..turns /\ turns \in Nat
  BY <1>1 DEF FollowerOK, FollowTypeOK
<1>3. \A r \in records : r.turn \in Nat /\ r.obs \in Nat /\ r \in Record
  BY <1>1, RecordTyped DEF FollowTypeOK
<1>4. CASE Of(g.turn) # {}
  <2>1. last = Last(Of(g.turn)) /\ (~Ends(last) \/ WentOn(last))
    BY <1>4 DEF Anchor
  <2>2. Of(g.turn) \subseteq Record
    BY <1>1 DEF Of, FollowTypeOK
  <2>3. last \in Of(g.turn) /\ \A q \in Of(g.turn) : q.obs <= last.obs
    BY <1>4, <2>1, <2>2, LastRecord
  <2>4. last \in records /\ last.turn = g.turn
    BY <2>3 DEF Of
  <2>5. ASSUME NEW r \in records, r.turn <= g.turn
        PROVE  r.obs <= last.obs
    <3>1. CASE r.turn = g.turn
      BY <2>3, <3>1 DEF Of
    <3>2. CASE r.turn < g.turn
      <4>1. r.obs < last.obs
        BY <1>1, <2>4, <3>2 DEF OrderOK
      <4> QED
        BY <1>3, <2>4, <4>1
    <3> QED
      BY <1>2, <1>3, <2>5, <3>1, <3>2
  <2>6. last.kind # "failed"
    BY <2>3
  <2>7. ~IsSettled(g.turn)
    BY <2>1 DEF IsSettled
  <2> QED
    BY <1>2, <2>4, <2>5, <2>6, <2>7 DEF SettledTurns
<1>5. CASE Of(g.turn) = {}
  <2>1. PICK earlier : earlier = UNION {Of(t) : t \in g.before}
    OBVIOUS
  <2>2. earlier # {} /\ last = Last(earlier)
    BY <1>5, <2>1 DEF Anchor
  <2>3. PICK s \in HookedTurns : s <= g.turn /\ g.before = s..(g.turn - 1)
    BY DEF FollowerOK
  <2>4. s \in Nat /\ \E h \in records : h.turn = s
    BY DEF HookedTurns, Turns
  <2>5. PICK h \in records : h.turn = s
    BY <2>4
  <2>6. earlier \subseteq records /\ \A r \in records : r \in earlier <=> r.turn \in s..(g.turn - 1)
    BY <2>1, <2>3 DEF Of
  <2>7. earlier \subseteq Record
    BY <1>3, <2>6
  <2>8. last \in earlier /\ \A q \in earlier : q.obs <= last.obs
    BY <2>2, <2>7, LastRecord
  <2>9. last \in records /\ last.turn \in s..(g.turn - 1)
    BY <2>6, <2>8
  <2>10. \A r \in records : r.turn # g.turn
    BY <1>5 DEF Of
  <2>11. h \in earlier
    BY <1>2, <2>3, <2>4, <2>5, <2>6, <2>10
  <2>12. ASSUME NEW r \in records, r.turn <= g.turn
         PROVE  r.obs <= last.obs
    <3>1. CASE r.turn >= s
      <4>1. r \in earlier
        BY <1>2, <1>3, <2>4, <2>6, <2>10, <2>12, <3>1
      <4> QED
        BY <2>8, <4>1
    <3>2. CASE r.turn < s
      <4>1. r.obs < h.obs /\ h.obs <= last.obs
        BY <1>1, <2>5, <2>8, <2>11, <3>2 DEF OrderOK
      <4> QED
        BY <1>3, <2>5, <2>9, <4>1
    <3> QED
      BY <1>3, <2>4, <3>1, <3>2
  <2>13. ~IsSettled(g.turn)
    BY <1>5 DEF IsSettled
  <2>14. last.turn <= g.turn /\ last.turn # g.turn
    BY <1>2, <2>4, <2>9
  <2> QED
    BY <2>9, <2>12, <2>13, <2>14 DEF SettledTurns
<1> QED
  BY <1>4, <1>5

\* What hooks and failures of later turns recorded lies further on than the stamp after the
\* record the failure follows: a later failure whose turn no hook has a record of would have
\* been recorded over this one, which is not settled.
LEMMA LaterIsFurtherOn ==
  ASSUME FollowInv, bound, NEW g \in Follower, FollowerOK(g), g.at = "recording",
         ~ \E r \in Of(g.turn) : r.kind = "failed", NEW last \in Anchor(g)
  PROVE  /\ \E n \in 0..Past, j \in 0..(g.turn - 1) : last.obs = Stamp(n) + j
         /\ \A r \in records : r.turn > g.turn => r.obs > last.obs + 1
<1> USE FollowerAssumption
<1>1. FollowTypeOK /\ OrderOK /\ StampsOK /\ FailuresOK
  BY DEF FollowInv
<1>2. g.turn \in 1..turns /\ turns \in 0..MaxTurns /\ turns \in Nat /\ Past \in Int
  BY <1>1 DEF FollowerOK, FollowTypeOK, Past
<1>3. \A r \in records : r.turn \in Nat /\ r.obs \in Nat
  BY <1>1, RecordTyped
<1>4. /\ last \in records /\ last.turn <= g.turn
      /\ last.turn = g.turn => last.kind # "failed"
      /\ g.turn \notin SettledTurns
  BY WhatIsFollowed
<1>5. PICK n \in 0..Past, j \in 0..(g.turn - 1) : last.obs = Stamp(n) + j
  <2>1. PICK n \in 0..Past, j \in 0..last.turn :
        last.obs = Stamp(n) + j /\ (last.kind # "failed" => j = 0)
    BY <1>1, <1>4 DEF StampsOK, RecordOK
  <2>2. j \in 0..(g.turn - 1)
    <3>1. last.turn \in Nat
      BY <1>3, <1>4
    <3>2. CASE last.turn = g.turn
      BY <1>2, <1>4, <2>1, <3>2
    <3>3. CASE last.turn # g.turn
      BY <1>2, <1>4, <2>1, <3>1, <3>3
    <3> QED
      BY <3>2, <3>3
  <2> QED
    BY <2>1, <2>2
<1>6. n \in Nat /\ Stamp(n) \in Nat
  BY <1>2, Stamping
<1>7. ASSUME NEW h \in records, h.kind # "failed", h.turn > g.turn
      PROVE  h.obs > last.obs + 1
  <2>1. PICK m \in 0..Past, k \in 0..h.turn : h.obs = Stamp(m) + k /\ (h.kind # "failed" => k = 0)
    BY <1>1 DEF StampsOK, RecordOK
  <2>2. m \in Nat /\ Stamp(m) \in Nat /\ h.obs = Stamp(m)
    <3>1. m \in Nat
      BY <1>2
    <3>2. Stamp(m) \in Nat
      BY <3>1, Stamping
    <3> QED
      BY <1>7, <2>1, <3>1, <3>2
  <2>3. last.turn < h.turn
    BY <1>2, <1>3, <1>4, <1>7
  <2>4. last.obs < h.obs
    BY <1>1, <1>4, <2>3 DEF OrderOK
  <2>5. ~(m < n) /\ m # n
    <3>1. m < n => Stamp(m) + MaxTurns + 2 <= Stamp(n)
      BY <1>6, <2>2, Stamping
    <3> QED
      BY <1>2, <1>5, <1>6, <2>2, <2>4, <3>1
  <2>6. Stamp(n) + MaxTurns + 2 <= Stamp(m)
    <3>1. n < m
      BY <1>6, <2>2, <2>5
    <3> QED
      BY <1>6, <2>2, <3>1, Stamping
  <2> QED
    BY <1>2, <1>5, <1>6, <2>2, <2>6
<1>8. ASSUME NEW r \in records, r.turn > g.turn
      PROVE  r.obs > last.obs + 1
  <2>1. CASE r.kind # "failed"
    BY <1>7, <1>8, <2>1
  <2>2. CASE r.kind = "failed"
    <3>1. g.turn \in 1..(r.turn - 1)
      BY <1>2, <1>3, <1>8
    <3>2. Behind(g.turn, r.turn) /\ g.turn \in FailedTurns
      BY <1>1, <2>2, <3>1 DEF FailuresOK, FollowerOK
    <3>3. PICK v \in HookedTurns : g.turn < v /\ v <= r.turn
      BY <1>4, <3>2 DEF Behind
    <3>4. PICK h \in records : h.turn = v /\ h.kind # "failed"
      BY DEF HookedTurns
    <3>5. h.obs > last.obs + 1
      BY <1>2, <1>3, <1>7, <3>3, <3>4
    <3>6. h.obs < r.obs
      <4>1. CASE h.turn < r.turn
        BY <1>1, <4>1 DEF OrderOK
      <4>2. CASE h.turn = r.turn
        BY <1>1, <2>2, <3>4, <4>2 DEF OrderOK
      <4> QED
        BY <1>3, <3>3, <3>4, <4>1, <4>2
    <3> QED
      BY <1>3, <1>4, <3>5, <3>6
  <2> QED
    BY <2>1, <2>2
<1> QED
  BY <1>5, <1>8

\* What the plan of a failure writes: the record fits between those of turns up to its own and
\* those of later ones, and the tab is told if there are none.
LEMMA WhatPlanWrites ==
  ASSUME FollowInv, bound, NEW g \in Follower, FollowerOK(g), g.at = "recording"
  PROVE  /\ \/ Plan(g).records = records /\ g.turn \in SettledTurns
            \/ /\ ~ \E r \in Of(g.turn) : r.kind = "failed"
               /\ \E n \in 0..Past, j \in 0..g.turn :
                    /\ Plan(g).records = records \cup {Failure(g.turn, Stamp(n) + j)}
                    /\ \A r \in records : /\ r.turn <= g.turn => r.obs < Stamp(n) + j
                                          /\ r.turn > g.turn => r.obs > Stamp(n) + j
         /\ \/ Plan(g).slot = slot
            \/ /\ \E n \in 0..Past, j \in 0..MaxTurns :
                    Plan(g).slot = [word |-> "notify", obs |-> Stamp(n) + j, by |-> g.turn]
               /\ \A r \in records : r.turn <= g.turn
<1> USE FollowerAssumption
<1>1. FollowTypeOK /\ StampsOK /\ HookOK
  BY DEF FollowInv
<1>2. g.turn \in 1..turns /\ turns \in 0..MaxTurns /\ g.turn \in Turns /\ Past \in Int
  <2>1. g.turn \in 1..turns
    BY DEF FollowerOK
  <2>2. turns \in 0..MaxTurns /\ Past \in Int
    BY <1>1 DEF FollowTypeOK, Past
  <2> QED
    BY <2>1, <2>2 DEF Turns
<1>3. \A r \in records : r.turn \in Nat /\ r.obs \in Nat
  BY <1>1, RecordTyped
<1>4. latest \in Nat /\ slot.obs \in Nat
  BY <1>1, RecordTyped
<1>5. CASE Anchor(g) = {} \/ \E r \in Of(g.turn) : r.kind = "failed"
  <2>1. Plan(g).records = records /\ Plan(g).slot = slot
    BY <1>5 DEF Plan
  <2>2. g.turn \in SettledTurns
    <3>1. CASE Anchor(g) = {}
      BY <3>1, NothingToFollow
    <3>2. CASE \E r \in Of(g.turn) : r.kind = "failed"
      BY <1>2, <3>2 DEF SettledTurns, IsSettled
    <3> QED
      BY <1>5, <3>1, <3>2
  <2> QED
    BY <2>1, <2>2
<1>6. CASE Anchor(g) # {} /\ ~ \E r \in Of(g.turn) : r.kind = "failed"
  <2>1. PICK last \in Anchor(g) : last = CHOOSE r \in Anchor(g) : TRUE
    BY <1>6
  <2>2. PICK end : end = JustAfter({last.obs, latest})
    OBVIOUS
  <2>3. PICK shown : shown = JustAfter({last.obs, latest, slot.obs})
    OBVIOUS
  <2>4. /\ last \in records /\ last.turn <= g.turn /\ last.obs \in Nat
        /\ \A r \in records : r.turn <= g.turn => r.obs <= last.obs
    BY <1>3, <1>6, WhatIsFollowed
  <2>5. PICK n \in 0..Past, j \in 0..(g.turn - 1) : last.obs = Stamp(n) + j
    BY <1>6, LaterIsFurtherOn
  <2>6. \A r \in records : r.turn > g.turn => r.obs > last.obs + 1
    BY <1>6, LaterIsFurtherOn
  <2>7. n \in Nat /\ Stamp(n) \in Nat /\ last.obs + 1 = Stamp(n) + (j + 1) /\ j + 1 \in 0..g.turn
        /\ j + 1 \in 0..MaxTurns
    BY <1>2, <2>5, Stamping
  <2>8. PICK m \in 0..Past : latest = Stamp(m)
    BY <1>1 DEF StampsOK
  <2>9. 1 \in 0..g.turn /\ 1 \in 0..MaxTurns /\ latest + 1 = Stamp(m) + 1
    BY <1>2, <2>8
  <2>10. CASE IsNewest(last)
    <3>1. \A r \in records : r.obs <= last.obs
      BY <2>10 DEF IsNewest
    <3>2. \A r \in records : r.turn <= g.turn
      <4> SUFFICES ASSUME NEW r \in records, r.turn > g.turn
                   PROVE  FALSE
        BY <1>2, <1>3
      <4> QED
        BY <1>3, <2>4, <2>6, <3>1
    <3>3. Plan(g).records = records \cup {Failure(g.turn, end)}
      BY <1>6, <2>1, <2>2, <2>10 DEF Plan
    <3>4. end = (IF last.obs >= latest THEN last.obs + 1 ELSE latest + 1)
      BY <1>4, <2>2, <2>4, AfterStamps
    <3>5. PICK k \in 0..Past, i \in 0..g.turn : end = Stamp(k) + i
      <4>1. CASE end = last.obs + 1
        BY <2>5, <2>7, <4>1
      <4>2. CASE end = latest + 1
        BY <2>8, <2>9, <4>2
      <4> QED
        BY <3>4, <4>1, <4>2
    <3>6. \A r \in records : r.obs < end
      BY <1>3, <1>4, <2>4, <3>1, <3>4
    <3>7. \A r \in records : ~(r.turn > g.turn)
      BY <1>2, <1>3, <3>2
    <3>8. \E k2 \in 0..Past, i2 \in 0..g.turn :
            /\ Plan(g).records = records \cup {Failure(g.turn, Stamp(k2) + i2)}
            /\ \A r \in records : /\ r.turn <= g.turn => r.obs < Stamp(k2) + i2
                                  /\ r.turn > g.turn => r.obs > Stamp(k2) + i2
      BY <3>3, <3>5, <3>6, <3>7
    <3>9. \/ Plan(g).slot = slot
          \/ /\ slot.word # "notify"
             /\ Plan(g).slot = [word |-> "notify", obs |-> shown, by |-> g.turn]
      BY <1>6, <2>1, <2>3, <2>10 DEF Plan
    <3>10. ASSUME slot.word # "notify"
           PROVE  \E k3 \in 0..Past, i3 \in 0..MaxTurns : shown = Stamp(k3) + i3
      <4>1. PICK k3 \in 0..Past, i3 \in 0..MaxTurns :
            slot.obs = Stamp(k3) + i3 /\ (slot.word # "notify" => i3 = 0)
        BY <1>1 DEF StampsOK
      <4>2. k3 \in Nat /\ Stamp(k3) \in Nat /\ slot.obs + 1 = Stamp(k3) + 1
        <5>1. k3 \in Nat
          BY <1>2
        <5>2. Stamp(k3) \in Nat
          BY <5>1, Stamping
        <5> QED
          BY <3>10, <4>1, <5>1, <5>2
      <4>3. shown \in {last.obs + 1, latest + 1, slot.obs + 1}
        BY <1>4, <2>3, <2>4, AfterStamps
      <4>4. CASE shown = last.obs + 1
        BY <2>5, <2>7, <4>4
      <4>5. CASE shown = latest + 1
        BY <2>8, <2>9, <4>5
      <4>6. CASE shown = slot.obs + 1
        BY <2>9, <4>2, <4>6
      <4> QED
        BY <4>3, <4>4, <4>5, <4>6
    <3> QED
      BY <1>6, <3>2, <3>8, <3>9, <3>10
  <2>11. CASE ~IsNewest(last)
    <3>1. Plan(g).records = records \cup {Failure(g.turn, last.obs + 1)} /\ Plan(g).slot = slot
      BY <1>6, <2>1, <2>11 DEF Plan
    <3>2. \A r \in records : /\ r.turn <= g.turn => r.obs < last.obs + 1
                             /\ r.turn > g.turn => r.obs > last.obs + 1
      BY <1>3, <2>4, <2>6
    <3>3. \E k2 \in 0..Past, i2 \in 0..g.turn :
            /\ Plan(g).records = records \cup {Failure(g.turn, Stamp(k2) + i2)}
            /\ \A r \in records : /\ r.turn <= g.turn => r.obs < Stamp(k2) + i2
                                  /\ r.turn > g.turn => r.obs > Stamp(k2) + i2
      BY <2>5, <2>7, <3>1, <3>2
    <3> QED
      BY <1>6, <3>1, <3>3
  <2> QED
    BY <2>10, <2>11
<1> QED
  BY <1>5, <1>6

\* A failure put on record is one more end, and undoes none.
LEMMA FailureSettles ==
  ASSUME FollowTypeOK, NEW t \in Turns, NEW obs, latest' = latest,
         records' = records \cup {Failure(t, obs)}
  PROVE  HookedTurns \subseteq HookedTurns' /\ SettledTurns \subseteq SettledTurns'
         /\ t \in SettledTurns'
<1>1. PICK new : new = Failure(t, obs)
  OBVIOUS
<1>2. records' = records \cup {new} /\ new.turn = t /\ new.kind = "failed"
  BY <1>1 DEF Failure
<1>3. HookedTurns \subseteq HookedTurns'
  BY <1>2 DEF HookedTurns
<1>4. t \in SettledTurns'
  <2>1. new \in Of(t)'
    BY <1>2 DEF Of
  <2> QED
    BY <1>2, <2>1 DEF SettledTurns, IsSettled
<1>5. ASSUME NEW x \in SettledTurns, x # t
      PROVE  x \in SettledTurns'
  <2>1. x \in Turns /\ IsSettled(x)
    BY DEF SettledTurns
  <2>2. Of(x)' = Of(x)
    BY <1>2, <1>5 DEF Of
  <2>3. \A e : WentOn(e)' => WentOn(e)
    BY <1>2 DEF WentOn
  <2>4. CASE \E r \in Of(x) : r.kind = "failed"
    BY <2>1, <2>2, <2>4 DEF SettledTurns, IsSettled
  <2>5. CASE Of(x) # {} /\ Ends(Last(Of(x))) /\ ~WentOn(Last(Of(x)))
    <3>1. PICK e : e = Last(Of(x))
      OBVIOUS
    <3>2. Last(Of(x))' = e
      BY <2>2, <3>1 DEF Last
    <3>3. Ends(e) /\ ~WentOn(e)'
      BY <2>3, <2>5, <3>1
    <3>4. IsSettled(x)'
      BY <2>2, <2>5, <3>2, <3>3 DEF IsSettled, Ends
    <3> QED
      BY <2>1, <3>4 DEF SettledTurns
  <2> QED
    BY <2>1, <2>4, <2>5 DEF IsSettled
<1> QED
  BY <1>3, <1>4, <1>5

\* What a follower writes of a failure, both files, either or none, keeps what is on record.
LEMMA PlanKeeps ==
  ASSUME FollowInv, bound, NEW g \in Follower, FollowerOK(g), g.at = "recording",
         slot' = slot \/ slot' = Plan(g).slot, records' = records \/ records' = Plan(g).records,
         latest' = latest, UNCHANGED <<codex, hook, hooksRun, bound>>
  PROVE  /\ Carries /\ StampsOK' /\ OrderOK' /\ FailuresOK' /\ NotifyIsOfNewestTurn'
         /\ records' \subseteq Record
         /\ slot' \in [word : {"none", "thinking", "stop", "notify"},
                       obs : Stamps, by : 0..(2 * MaxTurns)]
         /\ records' = Plan(g).records => g.turn \in SettledTurns'
<1> USE FollowerAssumption
<1>1. FollowTypeOK /\ RolloutOK /\ StampsOK /\ OrderOK /\ FailuresOK /\ NotifyIsOfNewestTurn
  BY DEF FollowInv
<1>2. /\ g.turn \in 1..turns /\ turns \in 0..MaxTurns /\ g.turn \in Turns /\ g.turn \in TurnIds
      /\ g.turn \in FailedTurns
  <2>1. g.turn \in 1..turns /\ g.turn \in FailedTurns
    BY DEF FollowerOK
  <2>2. turns \in 0..MaxTurns
    BY <1>1 DEF FollowTypeOK
  <2> QED
    BY <2>1, <2>2 DEF Turns, TurnIds
<1>3. Past' = Past /\ Past \in Int /\ Past <= MaxHooks /\ turns' = turns
  BY <1>1 DEF Past, FollowTypeOK, codex
<1>4. \/ Plan(g).records = records /\ g.turn \in SettledTurns
      \/ /\ ~ \E r \in Of(g.turn) : r.kind = "failed"
         /\ \E n \in 0..Past, j \in 0..g.turn :
              /\ Plan(g).records = records \cup {Failure(g.turn, Stamp(n) + j)}
              /\ \A r \in records : /\ r.turn <= g.turn => r.obs < Stamp(n) + j
                                    /\ r.turn > g.turn => r.obs > Stamp(n) + j
  BY WhatPlanWrites
<1>5. \/ slot' = slot
      \/ /\ \E n \in 0..Past, j \in 0..MaxTurns :
              slot' = [word |-> "notify", obs |-> Stamp(n) + j, by |-> g.turn]
         /\ \A r \in records : r.turn <= g.turn
  BY WhatPlanWrites
<1>6. /\ HookedTurns \subseteq HookedTurns' /\ SettledTurns \subseteq SettledTurns'
      /\ records' = Plan(g).records => g.turn \in SettledTurns'
  <2>1. CASE records' = records
    <3>1. HookedTurns' = HookedTurns /\ SettledTurns' = SettledTurns
      BY <2>1, RecordsTell
    <3>2. CASE Plan(g).records = records
      <4>1. g.turn \in SettledTurns
        <5>1. ASSUME NEW obs, Plan(g).records = records \cup {Failure(g.turn, obs)},
                     ~ \E r \in Of(g.turn) : r.kind = "failed"
              PROVE  FALSE
          <6>1. Failure(g.turn, obs) \in records
            BY <3>2, <5>1
          <6>2. Failure(g.turn, obs).turn = g.turn /\ Failure(g.turn, obs).kind = "failed"
            BY DEF Failure
          <6> QED
            BY <5>1, <6>1, <6>2 DEF Of
        <5> QED
          BY <1>4, <5>1
      <4> QED
        BY <3>1, <4>1
    <3> QED
      BY <2>1, <3>1, <3>2
  <2>2. CASE records' # records
    <3>1. PICK obs : records' = records \cup {Failure(g.turn, obs)}
      BY <1>4, <2>2
    <3> QED
      BY <1>1, <1>2, <3>1, FailureSettles
  <2> QED
    BY <2>1, <2>2
<1>7. Carries /\ FailedTurns' = FailedTurns
  BY <1>1, <1>6, StillCarries
<1>8. NotifyIsOfNewestTurn'
  <2>1. \A r \in records' : r \in records \/ r.kind = "failed"
    BY <1>4 DEF Failure
  <2>2. CASE slot' = slot
    BY <1>1, <2>1, <2>2 DEF NotifyIsOfNewestTurn
  <2>3. CASE slot'.by = g.turn /\ \A r \in records : r.turn <= g.turn
    BY <2>1, <2>3 DEF NotifyIsOfNewestTurn
  <2> QED
    BY <1>5, <2>2, <2>3
<1>9. (\E n \in 0..Past : latest = Stamp(n))'
  BY <1>1, <1>3 DEF StampsOK
<1>10. (\E n \in 0..Past, j \in 0..MaxTurns :
      slot.obs = Stamp(n) + j /\ (slot.word # "notify" => j = 0))'
  <2>1. CASE slot' = slot
    BY <1>1, <1>3, <2>1 DEF StampsOK
  <2>2. CASE \E n \in 0..Past, j \in 0..MaxTurns :
               slot' = [word |-> "notify", obs |-> Stamp(n) + j, by |-> g.turn]
    BY <1>3, <2>2
  <2> QED
    BY <1>5, <2>1, <2>2
<1>11. ASSUME NEW r \in records
       PROVE  RecordOK(r)'
  BY <1>1, <1>3, <1>7 DEF StampsOK, RecordOK
<1>12. slot' \in [word : {"none", "thinking", "stop", "notify"},
                  obs : Stamps, by : 0..(2 * MaxTurns)]
  <2>1. CASE slot' = slot
    BY <1>1, <2>1 DEF FollowTypeOK
  <2>2. CASE \E n \in 0..Past, j \in 0..MaxTurns :
               slot' = [word |-> "notify", obs |-> Stamp(n) + j, by |-> g.turn]
    <3>1. PICK n \in 0..Past, j \in 0..MaxTurns :
                 slot' = [word |-> "notify", obs |-> Stamp(n) + j, by |-> g.turn]
      BY <2>2
    <3>2. n \in 0..MaxHooks /\ j \in 0..(MaxTurns + 1)
      BY <1>3, <3>1
    <3>3. Stamp(n) + j \in Stamps /\ g.turn \in 0..(2 * MaxTurns)
      BY <1>2, <3>2, StampTyped
    <3> QED
      BY <3>1, <3>3
  <2> QED
    BY <1>5, <2>1, <2>2
<1>13. CASE records' = records
  <2>1. FailuresOK' /\ OrderOK' /\ records' \subseteq Record
    BY <1>1, <1>7, <1>13, FailuresKept DEF OrderOK, FollowTypeOK
  <2>2. StampsOK'
    BY <1>9, <1>10, <1>11, <1>13 DEF StampsOK
  <2> QED
    BY <1>6, <1>7, <1>8, <1>12, <2>1, <2>2
<1>14. CASE records' # records
  <2>1. PICK n \in 0..Past, j \in 0..g.turn :
          /\ records' = records \cup {Failure(g.turn, Stamp(n) + j)}
          /\ \A r \in records : /\ r.turn <= g.turn => r.obs < Stamp(n) + j
                                /\ r.turn > g.turn => r.obs > Stamp(n) + j
    BY <1>4, <1>14
  <2>2. ~ \E r \in Of(g.turn) : r.kind = "failed"
    BY <1>4, <1>14
  <2>3. PICK new : new = Failure(g.turn, Stamp(n) + j)
    OBVIOUS
  <2>4. /\ new = Failure(g.turn, Stamp(n) + j) /\ new.turn = g.turn /\ new.kind = "failed"
        /\ new.obs = Stamp(n) + j
    BY <2>3 DEF Failure
  <2>5. /\ records' = records \cup {new}
        /\ \A r \in records : r.turn <= g.turn => r.obs < new.obs
        /\ \A r \in records : r.turn > g.turn => r.obs > new.obs
    BY <2>1, <2>4
  <2>6. n \in 0..MaxHooks /\ j \in 0..(MaxTurns + 1) /\ g.turn \in Nat
    BY <1>2, <1>3, <2>1
  <2>7. new \in Record
    BY <1>2, <2>4, <2>6, StampTyped DEF Record, Failure
  <2>8. records' \subseteq Record
    BY <1>1, <2>5, <2>7 DEF FollowTypeOK
  <2>9. RecordOK(new)'
    BY <1>2, <1>3, <1>7, <2>1, <2>4 DEF RecordOK
  <2>10. StampsOK'
    <3>1. \A r \in records' : RecordOK(r)'
      BY <1>11, <2>5, <2>9
    <3> QED
      BY <1>9, <1>10, <3>1 DEF StampsOK
  <2>11. \A r \in records : r.turn \in Nat /\ r.obs \in Nat
    BY <1>1, RecordTyped
  <2>12. ASSUME NEW r \in records', NEW q \in records'
         PROVE  /\ r.turn < q.turn => r.obs < q.obs
                /\ r.turn = q.turn /\ r.kind = "failed" /\ q.kind # "failed" => q.obs < r.obs
    <3>1. CASE r \in records /\ q \in records
      BY <1>1, <3>1 DEF OrderOK
    <3>2. CASE r \in records /\ q = new
      <4>1. r.turn < q.turn => r.turn <= g.turn
        BY <2>4, <2>6, <2>11, <3>2
      <4>2. r.turn < q.turn => r.obs < q.obs
        BY <2>5, <3>2, <4>1
      <4> QED
        BY <2>4, <3>2, <4>2
    <3>3. CASE r = new /\ q \in records
      <4>1. r.turn < q.turn => r.obs < q.obs
        BY <2>4, <2>5, <2>6, <2>11, <3>3
      <4>2. r.turn = q.turn => q.obs < r.obs
        <5>1. r.turn = q.turn => q.turn <= g.turn
          BY <2>4, <2>6, <3>3
        <5> QED
          BY <2>5, <3>3, <5>1
      <4> QED
        BY <4>1, <4>2
    <3>4. CASE r = new /\ q = new
      BY <2>4, <2>6, <3>4
    <3> QED
      BY <2>5, <3>1, <3>2, <3>3, <3>4
  <2>13. OrderOK'
    BY <2>12 DEF OrderOK
  <2>14. FailuresOK'
    <3>1. ASSUME NEW r \in records', r.kind = "failed", NEW t \in 1..(r.turn - 1)
          PROVE  Behind(t, r.turn)'
      <4>1. CASE r \in records
        <5>1. Behind(t, r.turn) /\ r.turn \in 1..turns /\ t < turns /\ t \in Nat /\ r.turn \in Nat
          BY <1>1, <1>2, <3>1, <4>1 DEF FailuresOK, StampsOK, RecordOK
        <5> QED
          BY <1>1, <1>7, <5>1, BehindKept
      <4>2. CASE r = new
        <5>1. Behind(t, g.turn) /\ t < turns /\ t \in Nat
          BY <1>2, <2>4, <3>1, <4>2 DEF FollowerOK
        <5>2. Behind(t, g.turn)'
          BY <1>1, <1>7, <2>6, <5>1, BehindKept
        <5> QED
          BY <2>4, <4>2, <5>2
      <4> QED
        BY <2>5, <4>1, <4>2
    <3> QED
      BY <3>1 DEF FailuresOK
  <2> QED
    BY <1>6, <1>7, <1>8, <1>12, <2>8, <2>10, <2>13, <2>14
<1> QED
  BY <1>13, <1>14

\* A failure recorded, or not because the binding is over, keeps the invariant.
LEMMA RecordFailureKeeps ==
  ASSUME FollowInv, NEW f \in DOMAIN followers, RecordFailure(f)
  PROVE  FollowInv'
<1> USE FollowerAssumption
<1>1. FollowTypeOK /\ FollowersOK /\ RolloutOK
  BY DEF FollowInv
<1>2. PICK g \in Follower : g = followers[f]
  BY <1>1, FollowerTyped
<1>3. /\ g.at = "recording" /\ UNCHANGED <<latest, named, deaths>> /\ Unchanged
      /\ IF bound THEN slot' = Plan(g).slot /\ records' = Plan(g).records
         ELSE UNCHANGED <<slot, records>>
      /\ IF g.held THEN followers' = [followers EXCEPT ![f].at = "reading"] /\ UNCHANGED lock
         ELSE Leave(f)
  BY <1>2 DEF RecordFailure, Followable
<1>4. FollowerOK(g)
  BY <1>1, <1>2, <1>3 DEF FollowersOK
<1>5. UNCHANGED <<codex, hook, hooksRun, bound, noticed>>
  BY <1>3 DEF Unchanged
<1>6. deaths' \in 0..MaxDeaths /\ named' \in 0..(2 * MaxTurns)
  BY <1>1, <1>3 DEF FollowTypeOK
<1>7. PICK back : back = [g EXCEPT !.at = "reading"]
  OBVIOUS
<1>8. /\ back \in Follower /\ back.at = "reading" /\ back.held = g.held /\ back.turn = g.turn
      /\ back.offset = g.offset /\ back.ended = g.ended /\ back.before = g.before
  BY <1>7 DEF Follower
<1>9. PICK new \in Follower : /\ followers' = [followers EXCEPT ![f] = new] /\ MovesLock(f, new)
                              /\ new = back \/ new.at = "left"
  <2>1. CASE g.held
    <3>1. followers' = [followers EXCEPT ![f] = back] /\ lock' = lock
      BY <1>1, <1>2, <1>3, <1>7, <2>1 DEF FollowTypeOK
    <3>2. MovesLock(f, back)
      BY <1>2, <1>8, <3>1 DEF MovesLock
    <3> QED
      BY <1>8, <3>1, <3>2
  <2>2. CASE ~g.held
    BY <1>3, <2>2, LeavingIsLeft
  <2> QED
    BY <2>1, <2>2
<1>10. CASE bound
  <2>1. slot' = Plan(g).slot /\ records' = Plan(g).records
    BY <1>3, <1>10
  <2>2. /\ Carries /\ StampsOK' /\ OrderOK' /\ FailuresOK' /\ NotifyIsOfNewestTurn'
        /\ records' \subseteq Record
        /\ slot' \in [word : {"none", "thinking", "stop", "notify"},
                      obs : Stamps, by : 0..(2 * MaxTurns)]
        /\ g.turn \in SettledTurns'
    BY <1>3, <1>4, <1>5, <1>10, <2>1, PlanKeeps
  <2>3. FollowerOK(g)'
    BY <1>1, <1>4, <2>2, FollowerKept
  <2>4. FollowerOK(back)'
    BY <1>8, <2>2, <2>3 DEF FollowerOK
  <2>5. new.at = "left" \/ FollowerOK(new)'
    BY <1>9, <2>4
  <2>6. FollowTypeOK' /\ RolloutOK' /\ HookOK' /\ FollowersOK'
    BY <1>3, <1>5, <1>6, <1>9, <2>2, <2>5, FollowerMoves
  <2> QED
    BY <2>2, <2>6 DEF FollowInv
<1>11. CASE ~bound
  <2>1. UNCHANGED files
    BY <1>3, <1>11 DEF files
  <2>2. FollowerOK(back)
    BY <1>4, <1>8, <1>11 DEF FollowerOK
  <2>3. new.at = "left" \/ FollowerOK(new)
    BY <1>9, <2>2
  <2> QED
    BY <1>3, <1>6, <1>9, <2>1, <2>3, FollowerReads
<1> QED
  BY <1>10, <1>11

\* A follower that dies, perhaps between its two files, keeps the invariant.
LEMMA DieKeeps ==
  ASSUME FollowInv, NEW f \in DOMAIN followers, Die(f)
  PROVE  FollowInv'
<1> USE FollowerAssumption
<1>1. FollowTypeOK /\ FollowersOK /\ RolloutOK
  BY DEF FollowInv
<1>2. PICK g \in Follower : g = followers[f]
  BY <1>1, FollowerTyped
<1>3. /\ g.at # "left" /\ deaths < MaxDeaths /\ deaths' = deaths + 1 /\ Leave(f)
      /\ UNCHANGED <<records, latest, named>> /\ Unchanged
      /\ slot' = slot \/ (g.at = "recording" /\ bound /\ slot' = Plan(g).slot)
  BY <1>2 DEF Die, Followable
<1>4. FollowerOK(g)
  BY <1>1, <1>2, <1>3 DEF FollowersOK
<1>5. UNCHANGED <<codex, hook, hooksRun, bound, noticed>>
  BY <1>3 DEF Unchanged
<1>6. deaths' \in 0..MaxDeaths /\ named' \in 0..(2 * MaxTurns)
  BY <1>1, <1>3 DEF FollowTypeOK
<1>7. /\ Left \in Follower /\ Left.at = "left" /\ followers' = [followers EXCEPT ![f] = Left]
      /\ MovesLock(f, Left)
  BY <1>3, LeavingIsLeft
<1>8. CASE slot' = slot
  <2>1. UNCHANGED files
    BY <1>3, <1>8 DEF files
  <2> QED
    BY <1>3, <1>6, <1>7, <2>1, FollowerReads
<1>9. CASE g.at = "recording" /\ bound /\ slot' = Plan(g).slot
  <2>1. /\ Carries /\ StampsOK' /\ OrderOK' /\ FailuresOK' /\ NotifyIsOfNewestTurn'
        /\ records' \subseteq Record
        /\ slot' \in [word : {"none", "thinking", "stop", "notify"},
                      obs : Stamps, by : 0..(2 * MaxTurns)]
    BY <1>3, <1>4, <1>5, <1>9, PlanKeeps
  <2>2. FollowTypeOK' /\ RolloutOK' /\ HookOK' /\ FollowersOK'
    BY <1>3, <1>5, <1>6, <1>7, <2>1, FollowerMoves
  <2> QED
    BY <2>1, <2>2 DEF FollowInv
<1> QED
  BY <1>3, <1>8, <1>9

\* At the start nothing is written, recorded or followed.
LEMMA FollowInitOK == FollowInit => FollowInv
<1> USE FollowerAssumption
<1> SUFFICES ASSUME FollowInit
             PROVE  FollowInv
  OBVIOUS
<1>1. /\ rollout = << >> /\ running = 0 /\ turns = 0 /\ hook = NoHook /\ hooksRun = 0
      /\ records = {} /\ latest = 0 /\ slot = [word |-> "none", obs |-> 0, by |-> 0]
      /\ followers = << >> /\ lock = Free /\ named = 0 /\ bound = TRUE /\ deaths = 0 /\ noticed = {}
  BY DEF FollowInit
<1>2. 0 \in Stamps /\ Stamp(0) = 0
  <2>1. Stamp(0) = 0 /\ Stamp(MaxHooks + 1) \in Nat
    BY Stamping
  <2> QED
    BY <2>1 DEF Stamps
<1>3. rollout \in Seq(Line) /\ followers \in Seq(Follower)
      /\ DOMAIN rollout = {} /\ DOMAIN followers = {} /\ Len(followers) = 0
  BY <1>1
<1>4. FollowTypeOK
  BY <1>1, <1>2, <1>3 DEF FollowTypeOK, NoHook
<1>5. RolloutOK /\ FailuresOK /\ OrderOK /\ FollowersOK /\ NotifyIsOfNewestTurn
  <2>1. RolloutOK
    BY <1>1, <1>3 DEF RolloutOK
  <2> QED
    BY <1>1, <1>3, <2>1 DEF FailuresOK, OrderOK, FollowersOK, NotifyIsOfNewestTurn
<1>6. HookOK
  BY <1>1, <1>3 DEF HookOK, NoHook, Free, Asker
<1>7. StampsOK
  <2>1. Past = 0 /\ 0 \in 0..0 /\ 0 \in 0..MaxTurns /\ 0 = Stamp(0) + 0
    BY <1>1, <1>2 DEF Past, NoHook
  <2>2. slot.obs = Stamp(0) + 0 /\ latest = Stamp(0)
    BY <1>1, <1>2
  <2> QED
    BY <1>1, <2>1, <2>2 DEF StampsOK
<1> QED
  BY <1>4, <1>5, <1>6, <1>7 DEF FollowInv

\* Every step keeps the invariant.
LEMMA FollowNextOK == FollowInv /\ [FollowNext]_followVars => FollowInv'
<1> SUFFICES ASSUME FollowInv, [FollowNext]_followVars
             PROVE  FollowInv'
  OBVIOUS
<1>1. CASE StartTurn
  BY <1>1, StartTurnKeeps
<1>2. CASE StartReview
  BY <1>2, StartReviewKeeps
<1>3. CASE Unbind
  BY <1>3, UnbindKeeps
<1>4. CASE \E kind \in {"prompt", "work", "stop"} : RunHook(kind)
  BY <1>4, RunHookKeeps
<1>5. CASE \E kind \in {"failed", "complete"} : EndTurn(kind)
  BY <1>5, EndTurnKeeps
<1>6. CASE HookStep
  BY <1>6, ApplyHookKeeps, StartFollowerKeeps, StartAfterAskingKeeps DEF HookStep
<1>7. ASSUME NEW f \in DOMAIN followers, FollowerStep(f)
      PROVE  FollowInv'
  BY <1>7, TakeTurnKeeps, ReadSignalKeeps, RecordFailureKeeps DEF FollowerStep
<1>8. ASSUME NEW f \in DOMAIN followers, Die(f)
      PROVE  FollowInv'
  BY <1>8, DieKeeps
<1>9. CASE UNCHANGED followVars
  <2>1. /\ rollout' = rollout /\ running' = running /\ turns' = turns /\ hook' = hook
        /\ hooksRun' = hooksRun /\ records' = records /\ latest' = latest /\ slot' = slot
        /\ followers' = followers /\ lock' = lock /\ named' = named /\ bound' = bound
        /\ deaths' = deaths /\ noticed' = noticed
    BY <1>9 DEF followVars
  <2>2. FollowTypeOK /\ RolloutOK /\ HookOK /\ Past' = Past /\ Past \in Int
    BY <2>1 DEF FollowInv, Past, FollowTypeOK
  <2>3. HookedTurns' = HookedTurns /\ SettledTurns' = SettledTurns
    BY <2>1, RecordsTell
  <2>4. Carries /\ RolloutOK'
    BY <2>1, <2>2, <2>3, StillCarries DEF codex
  <2>5. StampsOK' /\ OrderOK' /\ FailuresOK' /\ FollowersOK' /\ NotifyIsOfNewestTurn'
    BY <2>1, <2>2, <2>4, CodexKeeps DEF files
  <2>6. FollowTypeOK' /\ HookOK'
    BY <2>1, <2>2, <2>3 DEF FollowTypeOK, HookOK
  <2> QED
    BY <2>4, <2>5, <2>6 DEF FollowInv
<1> QED
  BY <1>1, <1>2, <1>3, <1>4, <1>5, <1>6, <1>7, <1>8, <1>9 DEF FollowNext

\* A failure that a follower reads late, even after later turns have run and failed, is recorded
\* where it happened, after the hooks of its turn and those before it and before those of later
\* turns, and the tab's notify never stands over what a hook of a later turn recorded: however
\* many hooks, turns and followers there are, whichever of them die, and whoever holds the lock.
THEOREM FailuresStandInPlace == FollowSpec => []FailuresInPlace
<1>1. FollowInv => FailuresInPlace
  <2>1. ASSUME FollowInv, NEW end \in records, end.kind = "failed", NEW r \in records, r # end
        PROVE  /\ r.turn < end.turn => r.obs < end.obs
               /\ r.turn > end.turn => r.obs > end.obs
    <3>1. \A p \in records : p.turn \in Nat /\ p.obs \in Nat
      BY <2>1, RecordTyped DEF FollowInv
    <3>2. OrderOK
      BY <2>1 DEF FollowInv
    <3> QED
      BY <3>1, <3>2 DEF OrderOK
  <2> QED
    BY <2>1 DEF FollowInv, FailuresInPlace, FailuresInOrder
<1> QED
  BY <1>1, FollowInitOK, FollowNextOK, PTL DEF FollowSpec
=============================================================================
