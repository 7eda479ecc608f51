----------------------------- MODULE StateLocks -----------------------------
(***************************************************************************)
(* The file locks of the state root and the commands that take them.  A    *)
(* command opens each lock file, creating it, and polls it until it has it *)
(* or the time it may wait is over; it holds what it has while it waits    *)
(* for the next, does its work under all of them, and the kernel releases  *)
(* them when it drops them or dies.  A lock is held on the file that was   *)
(* opened, not on its path: sweep removes the tree of a closed pane with   *)
(* the lock files in it, its own among them, and who comes later creates   *)
(* and takes new ones.                                                     *)
(***************************************************************************)
EXTENDS Naturals, Sequences

CONSTANTS
  Process,    \* processes that run a command
  Panes,      \* how many panes there are
  Launch,     \* launches of a pane
  Session,    \* provider sessions
  MaxUnlinks  \* bound: how often a lock's file is removed while one that was opened before is in use

ASSUME LocksAssumption == Panes \in Nat /\ MaxUnlinks \in Nat

\* Pane addresses, in the order of their address.
Pane == 1..Panes

VARIABLES
  todo,     \* the locks a process's command has yet to take, in order
  held,     \* the locks it holds, in the order it took them
  opened    \* the files it has open, by path: 0 for none, 1 for the one that is there, and one
            \* more for each time the path was removed since it was opened

vars == <<todo, held, opened>>

LaunchLock(p, l) == <<"launch", p, l>>
ClaimLock(p) == <<"claim", p>>
ReviewLock(p) == <<"review", p>>
SessionLock(s) == <<"session", s>>
FollowerLock(p, l) == <<"follower", p, l>>

\* The lock files in a pane's tree; a binding's follower lock is below its launch.
LocksOf(p) == {ClaimLock(p), ReviewLock(p)} \cup
              (UNION {{LaunchLock(p, l), FollowerLock(p, l)} : l \in Launch})
Lock == (UNION {LocksOf(p) : p \in Pane}) \cup {SessionLock(s) : s \in Session}

\* Most hooks, and sweep; any launch of the pane has one of its own.
LaunchAndClaim(p, l) == <<LaunchLock(p, l), ClaimLock(p)>>

\* ResumeReview::locks, and the same locks of the destination.
Group(p, l) == <<LaunchLock(p, l), ClaimLock(p), ReviewLock(p)>>

\* Mutant: the destination's group always comes first.
DestinationFirst(source, l, destination, m) == Group(destination, m) \o Group(source, l)

\* binding_mutation_for_session: the lower address first.
CarryGroups(source, l, destination, m) ==
  IF source < destination THEN Group(source, l) \o Group(destination, m)
  ELSE Group(destination, m) \o Group(source, l)


\* apply_mark_clear, apply_review_event, and prompt returns that withdraw a review.
PaneFlagAndActivity(p, l) == <<LaunchLock(p, l), ClaimLock(p), ReviewLock(p)>>

\* A follower that reports an end.
Follower(p, l) == <<FollowerLock(p, l), LaunchLock(p, l), ClaimLock(p)>>

\* Mutant: a hook of a launch holds the launch's lock alone.
HooksUnclaimed(p) ==
  {<<ClaimLock(p)>>, <<ClaimLock(p), ReviewLock(p)>>} \cup
  (UNION {{<<LaunchLock(p, l)>>, PaneFlagAndActivity(p, l), Follower(p, l)} : l \in Launch})

\* The locks of each command: a claim, a publication or a mute; a review of a mark or of the
\* user; and those of a launch.
PaneCommands(p) ==
  {<<ClaimLock(p)>>, <<ClaimLock(p), ReviewLock(p)>>} \cup
  (UNION {{LaunchAndClaim(p, l), PaneFlagAndActivity(p, l), Follower(p, l)} : l \in Launch})

\* A registration alone, and one with a prior binding in another pane.
Plain(s, p, l) == <<SessionLock(s), LaunchLock(p, l), ClaimLock(p)>>
Carry(s, p, l, q, m) == <<SessionLock(s)>> \o CarryGroups(p, l, q, m)

Registrations(s) ==
  {Plain(s, p, l) : p \in Pane, l \in Launch} \cup
  {Carry(s, c[1], c[2], c[3], c[4]) : c \in {c \in Pane \X Launch \X Pane \X Launch : c[1] # c[3]}}

Command == (UNION {PaneCommands(p) : p \in Pane}) \cup (UNION {Registrations(s) : s \in Session})

Holds(x, lock) == \E i \in DOMAIN held[x] : held[x][i] = lock
Running(x) == todo[x] # << >> \/ held[x] # << >>
Waiting(x) == todo[x] # << >>
AtWork(x) == Running(x) /\ ~Waiting(x)

\* x polls the file that y holds.
Blocks(y, x) ==
  /\ Waiting(x) /\ opened[x][Head(todo[x])] # 0
  /\ Holds(y, Head(todo[x])) /\ opened[y][Head(todo[x])] = opened[x][Head(todo[x])]

NoFiles == [lock \in Lock |-> 0]

Init ==
  /\ todo = [x \in Process |-> << >>] /\ held = [x \in Process |-> << >>]
  /\ opened = [x \in Process |-> NoFiles]

Begin(x, command) ==
  /\ ~Running(x)
  /\ todo' = [todo EXCEPT ![x] = command]
  /\ UNCHANGED <<held, opened>>

\* open_state_lock: once, before the first poll.
Open(x) ==
  /\ Waiting(x) /\ opened[x][Head(todo[x])] = 0
  /\ opened' = [opened EXCEPT ![x][Head(todo[x])] = 1]
  /\ UNCHANGED <<todo, held>>

\* File::try_lock
MayTake(x) ==
  /\ Waiting(x) /\ opened[x][Head(todo[x])] # 0
  /\ \A y \in Process : ~Blocks(y, x)

\* acquire: one poll that finds the file's lock free.
Acquire(x) ==
  /\ MayTake(x)
  /\ held' = [held EXCEPT ![x] = Append(@, Head(todo[x]))]
  /\ todo' = [todo EXCEPT ![x] = Tail(@)]
  /\ UNCHANGED opened

\* Mutant: sweep removes the session's directory with the pane's tree.
TreeAndSessions(p) == LocksOf(p) \cup {SessionLock(s) : s \in Session}

\* The lock files in what sweep removes: a pane's tree, or one binding's records in it.
Removed(p) == LocksOf(p)

\* A sweep at work removes one of them; it may fail or die before it has removed them all.
\* Which tree it may remove is a matter of the records; a file nobody has open goes without
\* a trace.
Unlink(x, p, lock) ==
  /\ AtWork(x) /\ \E l \in Launch : held[x] = LaunchAndClaim(p, l)
  /\ lock \in Removed(p)
  /\ \E y \in Process : opened[y][lock] # 0
  /\ \A y \in Process : opened[y][lock] <= MaxUnlinks
  /\ opened' = [y \in Process |->
                  [opened[y] EXCEPT ![lock] = IF @ = 0 THEN 0 ELSE @ + 1]]
  /\ UNCHANGED <<todo, held>>

Release(x) ==
  /\ todo' = [todo EXCEPT ![x] = << >>] /\ held' = [held EXCEPT ![x] = << >>]
  /\ opened' = [opened EXCEPT ![x] = NoFiles]

\* commit_waiting, with_lock: the work is done under all the locks, which are then dropped.
Finish(x) == AtWork(x) /\ Release(x)

\* The wait for one lock is over: what was taken is dropped and the command fails.
TimeOut(x) == (\E y \in Process : Blocks(y, x)) /\ Release(x)

Die(x) == Running(x) /\ Release(x)

Next == \E x \in Process :
          \/ \E command \in Command : Begin(x, command)
          \/ \E p \in Pane : \E lock \in Lock : Unlink(x, p, lock)
          \/ Open(x) \/ Acquire(x) \/ Finish(x) \/ TimeOut(x) \/ Die(x)

Spec == Init /\ [][Next]_vars

(***************************************************************************)
(* A process goes on to open its files and with its work once it has its   *)
(* locks.  One that waits polls every ten milliseconds and holders release *)
(* within one, so a lock that is free again and again is taken at last.    *)
(* Nothing is assumed of timeouts: they are the way out the commands       *)
(* should not need.                                                        *)
(***************************************************************************)
FairSpec ==
  Spec /\ \A x \in Process : WF_vars(Open(x)) /\ SF_vars(Acquire(x)) /\ WF_vars(Finish(x))

-----------------------------------------------------------------------------
TypeOK ==
  /\ todo \in [Process -> Seq(Lock)] /\ held \in [Process -> Seq(Lock)]
  /\ \A x \in Process : Running(x) => held[x] \o todo[x] \in Command
  /\ opened \in [Process -> [Lock -> 0..(MaxUnlinks + 1)]]

WritesIn(x, p) == AtWork(x) /\ \E lock \in LocksOf(p) : Holds(x, lock)
WasRemoved(x, lock) == opened[x][lock] > 1

\* No two commands are at work in one pane, of whichever launches, unless one of them had the
\* pane's claim lock open when sweep removed its file: no other lock file of the tree that goes
\* lets a second one in (docs/accepted-limitations.md names that case).  Registrations of one
\* session are never at work at once, whichever panes go.
OneWriter ==
  \A x, y \in Process : x # y =>
    /\ \A p \in Pane :
         WritesIn(x, p) /\ WritesIn(y, p) => WasRemoved(x, ClaimLock(p)) \/ WasRemoved(y, ClaimLock(p))
    /\ \A s \in Session : ~(Holds(x, SessionLock(s)) /\ Holds(y, SessionLock(s)))

\* The locks of every command, and who may be at work under them.
LocksOK == TypeOK /\ OneWriter

\* No commands wait for each other's locks in a circle, nor one for itself, whatever commands
\* meet and whichever lock files sweep removes: claims, hooks, sweep, followers, reviews, and
\* two sessions that move reviews between the same two panes in opposite directions.
NoCircularWait ==
  \A S \in (SUBSET Process) \ {{}} : ~ \A x \in S : \E y \in S : Blocks(y, x)

=============================================================================
