-------------------------- MODULE StateLocksProofs --------------------------
(***************************************************************************)
(* Proofs about StateLocks: the claim lock keeps the writers of a pane     *)
(* apart as long as its file stays, and the order in which commands take   *)
(* their locks admits no circle, for any number of processes, panes,       *)
(* launches and sessions.  And about HoldCheck, whose decisions rest on    *)
(* both.                                                                   *)
(***************************************************************************)
EXTENDS StateLocks, HoldCheck, SequenceTheorems, WellFoundedInduction, TLAPS

-----------------------------------------------------------------------------
(***************************************************************************)
(* The order of the locks: a session's before all others, then pane by     *)
(* pane the followers', the launches', the claim's and the review's.       *)
(***************************************************************************)
Rank(lock) ==
  IF lock[1] = "session" THEN 0
  ELSE 4 * lock[2] + (IF lock[1] = "follower" THEN 0
                      ELSE IF lock[1] = "launch" THEN 1
                      ELSE IF lock[1] = "claim" THEN 2 ELSE 3)

Ascending(s) == \A i, j \in DOMAIN s : i < j => Rank(s[i]) < Rank(s[j])

\* A lock of a pane's tree is a lock, and says which pane's it is.
LEMMA TreeLocks ==
  ASSUME NEW p \in Pane, NEW lock \in LocksOf(p)
  PROVE  lock \in Lock /\ lock[1] # "session" /\ lock[2] = p
<1>1. lock \in Lock
  <2>1. UNION {LocksOf(q) : q \in Pane} \subseteq Lock
    BY DEF Lock
  <2> QED
    BY <2>1
<1>2. CASE lock \in {ClaimLock(p), ReviewLock(p)}
  BY <1>1, <1>2 DEF ClaimLock, ReviewLock
<1>3. CASE \E l \in Launch : lock \in {LaunchLock(p, l), FollowerLock(p, l)}
  BY <1>1, <1>3 DEF LaunchLock, FollowerLock
<1>4. lock \in {ClaimLock(p), ReviewLock(p)} \/ \E l \in Launch : lock \in {LaunchLock(p, l), FollowerLock(p, l)}
  BY DEF LocksOf
<1> QED
  BY <1>2, <1>3, <1>4

\* The ranks of a pane's own locks.
LEMMA PaneRanks ==
  ASSUME NEW p \in Pane
  PROVE  /\ p \in Nat /\ p <= Panes
         /\ Rank(ClaimLock(p)) = 4 * p + 2 /\ ClaimLock(p) \in Lock /\ ClaimLock(p) \in LocksOf(p)
         /\ Rank(ReviewLock(p)) = 4 * p + 3 /\ ReviewLock(p) \in Lock
<1>1. p \in Nat /\ p <= Panes
  BY LocksAssumption DEF Pane
<1>2. ClaimLock(p) \in LocksOf(p) /\ ReviewLock(p) \in LocksOf(p)
  BY DEF LocksOf
<1>3. ClaimLock(p) \in Lock /\ ReviewLock(p) \in Lock
  BY <1>2, TreeLocks
<1>4. Rank(ClaimLock(p)) = 4 * p + 2
  BY <1>1 DEF Rank, ClaimLock
<1>5. Rank(ReviewLock(p)) = 4 * p + 3
  BY <1>1 DEF Rank, ReviewLock
<1> QED
  BY <1>1, <1>2, <1>3, <1>4, <1>5

\* The ranks of the locks of its launches.
LEMMA LaunchRanks ==
  ASSUME NEW p \in Pane, NEW l \in Launch
  PROVE  /\ Rank(FollowerLock(p, l)) = 4 * p /\ FollowerLock(p, l) \in Lock
         /\ Rank(LaunchLock(p, l)) = 4 * p + 1 /\ LaunchLock(p, l) \in Lock
<1>1. p \in Nat
  BY PaneRanks
<1>2. FollowerLock(p, l) \in LocksOf(p) /\ LaunchLock(p, l) \in LocksOf(p)
  <2>1. {LaunchLock(p, l), FollowerLock(p, l)} \subseteq LocksOf(p)
    BY DEF LocksOf
  <2> QED
    BY <2>1
<1>3. FollowerLock(p, l) \in Lock /\ LaunchLock(p, l) \in Lock
  BY <1>2, TreeLocks
<1>4. Rank(FollowerLock(p, l)) = 4 * p
  BY <1>1 DEF Rank, FollowerLock
<1>5. Rank(LaunchLock(p, l)) = 4 * p + 1
  BY <1>1 DEF Rank, LaunchLock
<1> QED
  BY <1>3, <1>4, <1>5

\* A session's lock comes before every other.
LEMMA SessionRank ==
  ASSUME NEW s \in Session
  PROVE  /\ Rank(SessionLock(s)) = 0 /\ SessionLock(s) \in Lock
         /\ SessionLock(s)[1] = "session"
<1> DEFINE locks == {SessionLock(r) : r \in Session}
<1>1. SessionLock(s) \in locks
  OBVIOUS
<1>2. SessionLock(s) \in Lock
  <2>1. locks \subseteq Lock
    BY DEF Lock
  <2> HIDE DEF locks
  <2> QED
    BY <1>1, <2>1
<1>3. Rank(SessionLock(s)) = 0 /\ SessionLock(s)[1] = "session"
  BY DEF Rank, SessionLock
<1> QED
  BY <1>2, <1>3

\* A lock's rank is bounded by the panes there are.
LEMMA RankBound ==
  ASSUME NEW lock \in Lock
  PROVE  Rank(lock) \in Nat /\ Rank(lock) <= 4 * Panes + 3
<1> DEFINE ofSessions == {SessionLock(r) : r \in Session}
           ofPanes == UNION {LocksOf(q) : q \in Pane}
<1>1. CASE lock \in ofSessions
  BY <1>1, SessionRank, LocksAssumption
<1>2. CASE lock \in ofPanes
  <2>1. PICK p \in Pane : lock \in LocksOf(p)
    BY <1>2
  <2>2. lock[1] # "session" /\ lock[2] = p /\ p \in Nat /\ p <= Panes
    BY <2>1, TreeLocks, PaneRanks
  <2> QED
    BY <2>2, LocksAssumption DEF Rank
<1>3. lock \in ofPanes \cup ofSessions
  BY DEF Lock
<1> HIDE DEF ofPanes, ofSessions
<1> QED
  BY <1>1, <1>2, <1>3

\* A command of one lock.
LEMMA OneAscends ==
  ASSUME NEW a \in Lock
  PROVE  <<a>> \in Seq(Lock) /\ <<a>> # << >> /\ Ascending(<<a>>)
  BY DEF Ascending

\* A command of two locks.
LEMMA TwoAscend ==
  ASSUME NEW a \in Lock, NEW b \in Lock, Rank(a) < Rank(b)
  PROVE  <<a, b>> \in Seq(Lock) /\ <<a, b>> # << >> /\ Ascending(<<a, b>>)
  BY DEF Ascending

\* A command of three.
LEMMA ThreeAscend ==
  ASSUME NEW a \in Lock, NEW b \in Lock, NEW c \in Lock, Rank(a) < Rank(b), Rank(b) < Rank(c)
  PROVE  <<a, b, c>> \in Seq(Lock) /\ <<a, b, c>> # << >> /\ Ascending(<<a, b, c>>)
<1>1. Rank(a) < Rank(c)
  BY RankBound
<1> QED
  BY <1>1 DEF Ascending

\* Locks of which each comes after all of the first command's go on in its order.
LEMMA ConcatAscends ==
  ASSUME NEW s \in Seq(Lock), NEW t \in Seq(Lock), s # << >>, Ascending(s), Ascending(t),
         \A i \in DOMAIN s, j \in DOMAIN t : Rank(s[i]) < Rank(t[j])
  PROVE  s \o t \in Seq(Lock) /\ s \o t # << >> /\ Ascending(s \o t)
<1>1. s \o t \in Seq(Lock) /\ Len(s \o t) = Len(s) + Len(t) /\ Len(s) > 0
  OBVIOUS
<1>2. \A i \in DOMAIN (s \o t) : \/ i \in DOMAIN s /\ (s \o t)[i] = s[i]
                                 \/ i - Len(s) \in DOMAIN t /\ (s \o t)[i] = t[i - Len(s)] /\ i > Len(s)
  OBVIOUS
<1>3. ASSUME NEW i \in DOMAIN (s \o t), NEW j \in DOMAIN (s \o t), i < j
      PROVE  Rank((s \o t)[i]) < Rank((s \o t)[j])
  <2>1. CASE j <= Len(s)
    BY <1>2, <1>3, <2>1 DEF Ascending
  <2>2. CASE i > Len(s)
    BY <1>2, <1>3, <2>2 DEF Ascending
  <2>3. CASE i <= Len(s) /\ j > Len(s)
    BY <1>2, <1>3, <2>3
  <2> QED
    BY <2>1, <2>2, <2>3
<1> QED
  BY <1>1, <1>3 DEF Ascending

\* The locks of one pane's review are in order, above all lower panes' and every session's.
LEMMA GroupAscends ==
  ASSUME NEW p \in Pane, NEW l \in Launch
  PROVE  /\ Group(p, l) \in Seq(Lock) /\ Group(p, l) # << >> /\ Ascending(Group(p, l))
         /\ \A i \in DOMAIN Group(p, l) : Rank(Group(p, l)[i]) \in (4 * p + 1)..(4 * p + 3)
         /\ Range(Group(p, l)) = {LaunchLock(p, l), ClaimLock(p), ReviewLock(p)}
<1>1. Group(p, l) \in Seq(Lock) /\ Group(p, l) # << >> /\ Ascending(Group(p, l))
  BY PaneRanks, LaunchRanks, ThreeAscend DEF Group
<1>2. ASSUME NEW i \in DOMAIN Group(p, l)
      PROVE  Rank(Group(p, l)[i]) \in (4 * p + 1)..(4 * p + 3)
  <2>1. Group(p, l)[i] \in {LaunchLock(p, l), ClaimLock(p), ReviewLock(p)}
    BY DEF Group
  <2> QED
    BY <2>1, PaneRanks, LaunchRanks
<1>3. Range(Group(p, l)) = {LaunchLock(p, l), ClaimLock(p), ReviewLock(p)}
  BY DEF Group, Range
<1> QED
  BY <1>1, <1>2, <1>3

\* The two groups of a carry, in the order of their addresses.
LEMMA CarryAscends ==
  ASSUME NEW s \in Session, NEW p \in Pane, NEW q \in Pane, NEW l \in Launch, NEW m \in Launch,
         p < q
  PROVE  LET c == <<SessionLock(s)>> \o (Group(p, l) \o Group(q, m))
         IN c \in Seq(Lock) /\ c # << >> /\ Ascending(c)
<1> DEFINE g == Group(p, l) \o Group(q, m)
<1>1. p \in Nat /\ q \in Nat
  BY PaneRanks
<1>2. \A i \in DOMAIN Group(p, l), j \in DOMAIN Group(q, m) :
        Rank(Group(p, l)[i]) < Rank(Group(q, m)[j])
  BY <1>1, GroupAscends
<1>3. g \in Seq(Lock) /\ g # << >> /\ Ascending(g)
  BY <1>2, GroupAscends, ConcatAscends
<1>4. \A j \in DOMAIN g : Rank(g[j]) > 0
  <2>1. Range(g) = Range(Group(p, l)) \cup Range(Group(q, m))
    BY GroupAscends, RangeConcatenation
  <2>2. \A o \in Pane, n \in Launch : \A lock \in Range(Group(o, n)) : Rank(lock) > 0
    <3> SUFFICES ASSUME NEW o \in Pane, NEW n \in Launch, NEW lock \in Range(Group(o, n))
                 PROVE  Rank(lock) > 0
      OBVIOUS
    <3>1. lock \in {LaunchLock(o, n), ClaimLock(o), ReviewLock(o)}
      BY GroupAscends
    <3> QED
      BY <3>1, PaneRanks, LaunchRanks
  <2> HIDE DEF g
  <2>3. \A lock \in Range(g) : Rank(lock) > 0
    BY <2>1, <2>2
  <2> QED
    BY <2>3 DEF Range
<1> HIDE DEF g
<1>5. \A i \in DOMAIN <<SessionLock(s)>>, j \in DOMAIN g : Rank(<<SessionLock(s)>>[i]) < Rank(g[j])
  BY <1>4, SessionRank
<1>6. <<SessionLock(s)>> \in Seq(Lock) /\ <<SessionLock(s)>> # << >> /\ Ascending(<<SessionLock(s)>>)
  BY SessionRank, OneAscends
<1> QED
  BY <1>3, <1>5, <1>6, ConcatAscends DEF g

\* What a command is: one of a pane's or of a launch's, a registration, or one with a carry.
LEMMA CommandForms ==
  ASSUME NEW c \in Command
  PROVE  \/ \E p \in Pane : c = <<ClaimLock(p)>> \/ c = <<ClaimLock(p), ReviewLock(p)>>
         \/ \E p \in Pane, l \in Launch :
              \/ c = <<LaunchLock(p, l), ClaimLock(p)>>
              \/ c = <<LaunchLock(p, l), ClaimLock(p), ReviewLock(p)>>
              \/ c = <<FollowerLock(p, l), LaunchLock(p, l), ClaimLock(p)>>
         \/ \E s \in Session, p \in Pane, l \in Launch :
              c = <<SessionLock(s), LaunchLock(p, l), ClaimLock(p)>>
         \/ \E s \in Session, p, q \in Pane, l, m \in Launch :
              p < q /\ c = <<SessionLock(s)>> \o (Group(p, l) \o Group(q, m))
<1>1. CASE \E p \in Pane : c \in PaneCommands(p)
  <2>1. PICK p \in Pane : c \in PaneCommands(p)
    BY <1>1
  <2> DEFINE own == {<<ClaimLock(p)>>, <<ClaimLock(p), ReviewLock(p)>>}
             ofLaunches == UNION {{LaunchAndClaim(p, l), PaneFlagAndActivity(p, l), Follower(p, l)} :
                                    l \in Launch}
  <2>2. c \in own \cup ofLaunches
    BY <2>1 DEF PaneCommands
  <2>3. CASE c \in own
    BY <2>3
  <2>4. CASE c \in ofLaunches
    <3>1. PICK l \in Launch : c \in {LaunchAndClaim(p, l), PaneFlagAndActivity(p, l), Follower(p, l)}
      BY <2>4
    <3> QED
      BY <3>1 DEF LaunchAndClaim, PaneFlagAndActivity, Follower
  <2> HIDE DEF own, ofLaunches
  <2> QED
    BY <2>2, <2>3, <2>4
<1>2. CASE \E s \in Session : c \in Registrations(s)
  <2>1. PICK s \in Session : c \in Registrations(s)
    BY <1>2
  <2> DEFINE pairs == {d \in Pane \X Launch \X Pane \X Launch : d[1] # d[3]}
             plain == {Plain(s, p, l) : p \in Pane, l \in Launch}
             carries == {Carry(s, d[1], d[2], d[3], d[4]) : d \in pairs}
  <2>2. c \in plain \cup carries
    BY <2>1 DEF Registrations
  <2>3. CASE c \in plain
    <3>1. PICK p \in Pane, l \in Launch : c = Plain(s, p, l)
      BY <2>3
    <3>2. c = <<SessionLock(s), LaunchLock(p, l), ClaimLock(p)>>
      BY <3>1 DEF Plain
    <3> QED
      BY <3>2
  <2>4. CASE c \in carries
    <3>1. PICK d \in pairs : c = Carry(s, d[1], d[2], d[3], d[4])
      BY <2>4
    <3>2. PICK p \in Pane, l \in Launch, q \in Pane, m \in Launch : p # q /\ c = Carry(s, p, l, q, m)
      BY <3>1
    <3>3. p \in Nat /\ q \in Nat
      BY PaneRanks
    <3>4. CASE p < q
      <4>1. c = <<SessionLock(s)>> \o (Group(p, l) \o Group(q, m))
        BY <3>2, <3>4 DEF Carry, CarryGroups
      <4> QED
        BY <4>1, <3>4
    <3>5. CASE q < p
      <4>1. c = <<SessionLock(s)>> \o (Group(q, m) \o Group(p, l))
        BY <3>2, <3>3, <3>5 DEF Carry, CarryGroups
      <4> QED
        BY <4>1, <3>5
    <3>6. p < q \/ q < p
      BY <3>2, <3>3
    <3> QED
      BY <3>4, <3>5, <3>6
  <2> HIDE DEF plain, carries
  <2> QED
    BY <2>2, <2>3, <2>4
<1>3. (\E p \in Pane : c \in PaneCommands(p)) \/ (\E s \in Session : c \in Registrations(s))
  <2> DEFINE ofPanes == UNION {PaneCommands(p) : p \in Pane}
             ofSessions == UNION {Registrations(s) : s \in Session}
  <2>1. c \in ofPanes \cup ofSessions
    BY DEF Command
  <2>2. c \in ofPanes => \E p \in Pane : c \in PaneCommands(p)
    OBVIOUS
  <2>3. c \in ofSessions => \E s \in Session : c \in Registrations(s)
    OBVIOUS
  <2> HIDE DEF ofPanes, ofSessions
  <2> QED
    BY <2>1, <2>2, <2>3
<1> QED
  BY <1>1, <1>2, <1>3

\* Every command takes its locks in their order.
LEMMA CommandsAscend == \A c \in Command : c \in Seq(Lock) /\ c # << >> /\ Ascending(c)
<1> SUFFICES ASSUME NEW c \in Command PROVE c \in Seq(Lock) /\ c # << >> /\ Ascending(c)
  OBVIOUS
<1>1. CASE \E p \in Pane : c = <<ClaimLock(p)>> \/ c = <<ClaimLock(p), ReviewLock(p)>>
  <2>1. PICK p \in Pane : c = <<ClaimLock(p)>> \/ c = <<ClaimLock(p), ReviewLock(p)>>
    BY <1>1
  <2>2. CASE c = <<ClaimLock(p)>>
    BY <2>2, PaneRanks, OneAscends
  <2>3. CASE c = <<ClaimLock(p), ReviewLock(p)>>
    BY <2>3, PaneRanks, TwoAscend
  <2> QED
    BY <2>1, <2>2, <2>3
<1>2. CASE \E p \in Pane, l \in Launch :
             \/ c = <<LaunchLock(p, l), ClaimLock(p)>>
             \/ c = <<LaunchLock(p, l), ClaimLock(p), ReviewLock(p)>>
             \/ c = <<FollowerLock(p, l), LaunchLock(p, l), ClaimLock(p)>>
  <2>1. PICK p \in Pane, l \in Launch :
             \/ c = <<LaunchLock(p, l), ClaimLock(p)>>
             \/ c = <<LaunchLock(p, l), ClaimLock(p), ReviewLock(p)>>
             \/ c = <<FollowerLock(p, l), LaunchLock(p, l), ClaimLock(p)>>
    BY <1>2
  <2>2. CASE c = <<LaunchLock(p, l), ClaimLock(p)>>
    BY <2>2, PaneRanks, LaunchRanks, TwoAscend
  <2>3. CASE c = <<LaunchLock(p, l), ClaimLock(p), ReviewLock(p)>>
    BY <2>3, PaneRanks, LaunchRanks, ThreeAscend
  <2>4. CASE c = <<FollowerLock(p, l), LaunchLock(p, l), ClaimLock(p)>>
    BY <2>4, PaneRanks, LaunchRanks, ThreeAscend
  <2> QED
    BY <2>1, <2>2, <2>3, <2>4
<1>3. CASE \E s \in Session, p \in Pane, l \in Launch :
             c = <<SessionLock(s), LaunchLock(p, l), ClaimLock(p)>>
  <2>1. PICK s \in Session, p \in Pane, l \in Launch :
               c = <<SessionLock(s), LaunchLock(p, l), ClaimLock(p)>>
    BY <1>3
  <2>2. Rank(SessionLock(s)) < Rank(LaunchLock(p, l)) /\ Rank(LaunchLock(p, l)) < Rank(ClaimLock(p))
    BY PaneRanks, LaunchRanks, SessionRank
  <2> QED
    BY <2>1, <2>2, PaneRanks, LaunchRanks, SessionRank, ThreeAscend
<1>4. CASE \E s \in Session, p, q \in Pane, l, m \in Launch :
             p < q /\ c = <<SessionLock(s)>> \o (Group(p, l) \o Group(q, m))
  BY <1>4, CarryAscends
<1> QED
  BY <1>1, <1>2, <1>3, <1>4, CommandForms

\* A command that takes any lock of a pane's tree takes the pane's claim lock.
LEMMA ClaimAmongThem ==
  ASSUME NEW c \in Command, NEW p \in Pane, NEW lock \in Range(c), lock \in LocksOf(p)
  PROVE  ClaimLock(p) \in Range(c)
<1>1. lock[1] # "session" /\ lock[2] = p
  BY TreeLocks
<1>2. \A q \in Pane : ClaimLock(q)[2] = q /\ ReviewLock(q)[2] = q
  BY DEF ClaimLock, ReviewLock
<1>3. \A q \in Pane, l \in Launch : LaunchLock(q, l)[2] = q /\ FollowerLock(q, l)[2] = q
  BY DEF LaunchLock, FollowerLock
<1>4. \A s \in Session : lock # SessionLock(s)
  BY <1>1, SessionRank
<1>5. CASE \E q \in Pane : c = <<ClaimLock(q)>> \/ c = <<ClaimLock(q), ReviewLock(q)>>
  <2>1. PICK q \in Pane : c = <<ClaimLock(q)>> \/ c = <<ClaimLock(q), ReviewLock(q)>>
    BY <1>5
  <2>2. ClaimLock(q) \in Range(c) /\ Range(c) \subseteq {ClaimLock(q), ReviewLock(q)}
    BY <2>1 DEF Range
  <2> QED
    BY <2>2, <1>1, <1>2
<1>6. CASE \E q \in Pane, l \in Launch :
             \/ c = <<LaunchLock(q, l), ClaimLock(q)>>
             \/ c = <<LaunchLock(q, l), ClaimLock(q), ReviewLock(q)>>
             \/ c = <<FollowerLock(q, l), LaunchLock(q, l), ClaimLock(q)>>
  <2>1. PICK q \in Pane, l \in Launch :
             \/ c = <<LaunchLock(q, l), ClaimLock(q)>>
             \/ c = <<LaunchLock(q, l), ClaimLock(q), ReviewLock(q)>>
             \/ c = <<FollowerLock(q, l), LaunchLock(q, l), ClaimLock(q)>>
    BY <1>6
  <2>2. /\ ClaimLock(q) \in Range(c)
        /\ Range(c) \subseteq {LaunchLock(q, l), ClaimLock(q), ReviewLock(q), FollowerLock(q, l)}
    BY <2>1 DEF Range
  <2> QED
    BY <2>2, <1>1, <1>2, <1>3
<1>7. CASE \E s \in Session, q \in Pane, l \in Launch :
             c = <<SessionLock(s), LaunchLock(q, l), ClaimLock(q)>>
  <2>1. PICK s \in Session, q \in Pane, l \in Launch :
               c = <<SessionLock(s), LaunchLock(q, l), ClaimLock(q)>>
    BY <1>7
  <2>2. Range(c) = {SessionLock(s), LaunchLock(q, l), ClaimLock(q)}
    BY <2>1 DEF Range
  <2> QED
    BY <2>2, <1>1, <1>2, <1>3, <1>4
<1>8. CASE \E s \in Session, q, r \in Pane, l, m \in Launch :
             q < r /\ c = <<SessionLock(s)>> \o (Group(q, l) \o Group(r, m))
  <2>1. PICK s \in Session, q \in Pane, r \in Pane, l \in Launch, m \in Launch :
               c = <<SessionLock(s)>> \o (Group(q, l) \o Group(r, m))
    BY <1>8
  <2> DEFINE g == Group(q, l) \o Group(r, m)
             first == <<SessionLock(s)>>
  <2>2. g \in Seq(Lock) /\ Range(g) = Range(Group(q, l)) \cup Range(Group(r, m))
    BY GroupAscends, RangeConcatenation
  <2>3. first \in Seq(Lock) /\ Range(first) = {SessionLock(s)}
    BY SessionRank DEF Range
  <2>4. c = first \o g
    BY <2>1
  <2> HIDE DEF g, first
  <2>5. /\ Range(c) = Range(first) \cup Range(g)
        /\ Range(Group(q, l)) = {LaunchLock(q, l), ClaimLock(q), ReviewLock(q)}
        /\ Range(Group(r, m)) = {LaunchLock(r, m), ClaimLock(r), ReviewLock(r)}
    BY <2>2, <2>3, <2>4, GroupAscends, RangeConcatenation
  <2>6. Range(c) = {SessionLock(s), LaunchLock(q, l), ClaimLock(q), ReviewLock(q),
                    LaunchLock(r, m), ClaimLock(r), ReviewLock(r)}
    BY <2>2, <2>3, <2>5
  <2> QED
    BY <2>6, <1>1, <1>2, <1>3, <1>4
<1> QED
  BY <1>5, <1>6, <1>7, <1>8, CommandForms

-----------------------------------------------------------------------------
\* Taking the next lock moves it from what is to be taken to what is held.
LEMMA TakeNext ==
  ASSUME NEW S, NEW h \in Seq(S), NEW t \in Seq(S), t # << >>
  PROVE  /\ Append(h, Head(t)) \in Seq(S) /\ Tail(t) \in Seq(S)
         /\ Append(h, Head(t)) \o Tail(t) = h \o t
<1>1. Head(t) \in S /\ Tail(t) \in Seq(S) /\ t = <<Head(t)>> \o Tail(t)
  BY HeadTailProperties
<1>2. Append(h, Head(t)) = h \o <<Head(t)>>
  BY <1>1, AppendIsConcat
<1>3. (h \o <<Head(t)>>) \o Tail(t) = h \o (<<Head(t)>> \o Tail(t))
  BY <1>1, ConcatAssociative
<1> QED
  BY <1>1, <1>2, <1>3, AppendProperties

\* A command that holds nothing has all its locks to take.
LEMMA EmptyConcat == ASSUME NEW S, NEW t \in Seq(S) PROVE << >> \o t = t
  BY ConcatEmptySeq

(***************************************************************************)
(* Why the claim lock keeps writers apart: what is held is an open file,   *)
(* two commands that hold a lock hold two files of it, and only removal    *)
(* makes two.                                                              *)
(***************************************************************************)
HoldsFiles ==
  \A x \in Process, lock \in Lock : Holds(x, lock) => opened[x][lock] > 0

OneHolderAFile ==
  \A x, y \in Process, lock \in Lock :
    x # y /\ Holds(x, lock) /\ Holds(y, lock) => opened[x][lock] # opened[y][lock]

SessionsStay == \A x \in Process, s \in Session : opened[x][SessionLock(s)] <= 1

FilesInv == TypeOK /\ HoldsFiles /\ OneHolderAFile /\ SessionsStay

\* A command that ends, gives up or dies leaves the others' locks as they are.
LEMMA ReleaseStep ==
  ASSUME FilesInv, NEW x \in Process, Release(x)
  PROVE  FilesInv'
<1>1. /\ todo' \in [Process -> Seq(Lock)] /\ held' \in [Process -> Seq(Lock)]
      /\ todo'[x] = << >> /\ held'[x] = << >>
      /\ \A y \in Process \ {x} : todo'[y] = todo[y] /\ held'[y] = held[y]
  BY DEF FilesInv, TypeOK, Release
<1>2. /\ opened' \in [Process -> [Lock -> 0..(MaxUnlinks + 1)]]
      /\ \A lock \in Lock : opened'[x][lock] = 0
      /\ \A y \in Process \ {x} : opened'[y] = opened[y]
  BY LocksAssumption DEF FilesInv, TypeOK, Release, NoFiles
<1>3. TypeOK'
  BY <1>1, <1>2 DEF FilesInv, TypeOK, Running
<1>4. \A lock : ~Holds(x, lock)'
  BY <1>1 DEF Holds
<1>5. \A y \in Process \ {x}, lock \in Lock : Holds(y, lock)' <=> Holds(y, lock)
  BY <1>1 DEF Holds
<1>6. HoldsFiles' /\ OneHolderAFile'
  BY <1>2, <1>4, <1>5 DEF FilesInv, HoldsFiles, OneHolderAFile
<1>7. SessionsStay'
  BY <1>2, SessionRank DEF FilesInv, SessionsStay
<1> QED
  BY <1>3, <1>6, <1>7 DEF FilesInv

\* A lock is taken only on a file that nobody holds, and next in the command's order.
LEMMA AcquireStep ==
  ASSUME FilesInv, NEW x \in Process, Acquire(x)
  PROVE  FilesInv'
<1> DEFINE h == held[x]
           t == todo[x]
<1>1. h \in Seq(Lock) /\ t \in Seq(Lock) /\ t # << >>
  BY DEF FilesInv, TypeOK, Acquire, MayTake, Waiting
<1>2. /\ Append(h, Head(t)) \in Seq(Lock) /\ Tail(t) \in Seq(Lock)
      /\ Append(h, Head(t)) \o Tail(t) = h \o t
  BY <1>1, TakeNext
<1>3. /\ todo' \in [Process -> Seq(Lock)] /\ held' \in [Process -> Seq(Lock)] /\ opened' = opened
      /\ held'[x] = Append(h, Head(t)) /\ todo'[x] = Tail(t)
      /\ \A y \in Process \ {x} : todo'[y] = todo[y] /\ held'[y] = held[y]
  BY <1>2 DEF FilesInv, TypeOK, Acquire
<1>4. TypeOK'
  <2> SUFFICES ASSUME NEW y \in Process, Running(y)'
               PROVE  held'[y] \o todo'[y] \in Command
    BY <1>3 DEF FilesInv, TypeOK
  <2>1. CASE y = x
    BY <2>1, <1>1, <1>2, <1>3 DEF FilesInv, TypeOK, Running
  <2>2. CASE y # x
    BY <2>2, <1>3 DEF FilesInv, TypeOK, Running
  <2> QED
    BY <2>1, <2>2
<1>5. \A y \in Process \ {x}, lock \in Lock : Holds(y, lock)' <=> Holds(y, lock)
  BY <1>3 DEF Holds
<1>6. \A lock \in Lock : Holds(x, lock)' => Holds(x, lock) \/ lock = Head(t)
  <2> HIDE DEF h, t
  <2>1. \A i \in DOMAIN Append(h, Head(t)) :
          (i \in DOMAIN h /\ Append(h, Head(t))[i] = h[i]) \/ Append(h, Head(t))[i] = Head(t)
    BY <1>1
  <2> QED
    BY <2>1, <1>3 DEF Holds, h
<1>7. Head(t) \in Lock
  BY <1>1
<1>8. /\ opened[x][Head(t)] # 0
      /\ \A y \in Process : Holds(y, Head(t)) => opened[y][Head(t)] # opened[x][Head(t)]
  BY DEF Acquire, MayTake, Blocks
<1>9. opened[x][Head(t)] > 0
  BY <1>7, <1>8, LocksAssumption DEF FilesInv, TypeOK
<1>10. HoldsFiles'
  BY <1>3, <1>5, <1>6, <1>9 DEF FilesInv, HoldsFiles
<1>11. OneHolderAFile'
  <2> SUFFICES ASSUME NEW y \in Process, NEW z \in Process, NEW lock \in Lock,
                      y # z, Holds(y, lock)', Holds(z, lock)'
               PROVE  opened[y][lock] # opened[z][lock]
    BY <1>3 DEF OneHolderAFile
  <2> HIDE DEF h, t
  <2>1. CASE y # x /\ z # x
    BY <2>1, <1>5 DEF FilesInv, OneHolderAFile
  <2>2. CASE y = x
    BY <2>2, <1>5, <1>6, <1>8 DEF FilesInv, OneHolderAFile
  <2>3. CASE z = x
    BY <2>3, <1>5, <1>6, <1>8 DEF FilesInv, OneHolderAFile
  <2> QED
    BY <2>1, <2>2, <2>3
<1> QED
  BY <1>3, <1>4, <1>10, <1>11 DEF FilesInv, SessionsStay

\* A command begins without locks.
LEMMA BeginStep ==
  ASSUME FilesInv, NEW x \in Process, NEW command \in Command, Begin(x, command)
  PROVE  FilesInv'
<1>1. command \in Seq(Lock)
  BY CommandsAscend
<1>2. /\ todo' \in [Process -> Seq(Lock)] /\ held' = held /\ opened' = opened
      /\ held[x] = << >> /\ todo'[x] = command
      /\ \A y \in Process \ {x} : todo'[y] = todo[y]
  BY <1>1 DEF FilesInv, TypeOK, Begin, Running
<1>3. TypeOK'
  <2> SUFFICES ASSUME NEW y \in Process, Running(y)'
               PROVE  held'[y] \o todo'[y] \in Command
    BY <1>2 DEF FilesInv, TypeOK
  <2>1. CASE y = x
    BY <2>1, <1>1, <1>2, EmptyConcat
  <2>2. CASE y # x
    BY <2>2, <1>2 DEF FilesInv, TypeOK, Running
  <2> QED
    BY <2>1, <2>2
<1>4. \A y \in Process, lock \in Lock : Holds(y, lock)' <=> Holds(y, lock)
  BY <1>2 DEF Holds
<1> QED
  BY <1>2, <1>3, <1>4 DEF FilesInv, HoldsFiles, OneHolderAFile, SessionsStay

\* The file a command opens is one it does not hold.
LEMMA OpenStep ==
  ASSUME FilesInv, NEW x \in Process, Open(x)
  PROVE  FilesInv'
<1> DEFINE next == Head(todo[x])
<1>1. next \in Lock /\ opened[x][next] = 0
  BY DEF Open, Waiting, FilesInv, TypeOK
<1>2. ~Holds(x, next)
  BY <1>1 DEF FilesInv, HoldsFiles
<1>3. /\ todo' = todo /\ held' = held
      /\ opened' \in [Process -> [Lock -> 0..(MaxUnlinks + 1)]]
      /\ opened'[x][next] = 1
      /\ \A lock \in Lock \ {next} : opened'[x][lock] = opened[x][lock]
      /\ \A y \in Process \ {x} : opened'[y] = opened[y]
  BY <1>1, LocksAssumption DEF Open, FilesInv, TypeOK
<1>4. TypeOK'
  BY <1>3 DEF FilesInv, TypeOK, Running
<1>5. \A y \in Process, lock \in Lock : Holds(y, lock)' <=> Holds(y, lock)
  BY <1>3 DEF Holds
<1> HIDE DEF next
<1>6. HoldsFiles' /\ OneHolderAFile'
  BY <1>2, <1>3, <1>5 DEF FilesInv, HoldsFiles, OneHolderAFile
<1>7. SessionsStay'
  BY <1>3, SessionRank DEF FilesInv, SessionsStay
<1> QED
  BY <1>4, <1>6, <1>7 DEF FilesInv

\* A removed file stays apart from every other file of its path, and is no session's.
LEMMA UnlinkStep ==
  ASSUME FilesInv, NEW x \in Process, NEW p \in Pane, NEW gone \in Lock, Unlink(x, p, gone)
  PROVE  FilesInv'
<1>1. gone \in LocksOf(p) /\ todo' = todo /\ held' = held
  BY DEF Unlink, Removed
<1>2. \A y \in Process : opened[y][gone] \in 0..MaxUnlinks
  BY LocksAssumption DEF Unlink, FilesInv, TypeOK
<1>3. /\ opened' \in [Process -> [Lock -> 0..(MaxUnlinks + 1)]]
      /\ \A y \in Process : /\ opened'[y][gone] = IF opened[y][gone] = 0 THEN 0 ELSE opened[y][gone] + 1
                            /\ \A lock \in Lock \ {gone} : opened'[y][lock] = opened[y][lock]
  <2>1. opened' = [y \in Process |->
                    [opened[y] EXCEPT ![gone] = IF @ = 0 THEN 0 ELSE @ + 1]]
    BY DEF Unlink
  <2>2. \A y \in Process : opened[y] \in [Lock -> 0..(MaxUnlinks + 1)]
    BY DEF FilesInv, TypeOK
  <2>3. \A y \in Process : (IF opened[y][gone] = 0 THEN 0 ELSE opened[y][gone] + 1) \in 0..(MaxUnlinks + 1)
    <3> SUFFICES ASSUME NEW n \in 0..MaxUnlinks
                 PROVE  (IF n = 0 THEN 0 ELSE n + 1) \in 0..(MaxUnlinks + 1)
      BY <1>2
    <3> QED
      BY LocksAssumption
  <2> QED
    BY <2>1, <2>2, <2>3
<1>4. TypeOK'
  BY <1>1, <1>3 DEF FilesInv, TypeOK, Running
<1>5. \A y \in Process, lock \in Lock : Holds(y, lock)' <=> Holds(y, lock)
  BY <1>1 DEF Holds
<1>6. HoldsFiles'
  BY <1>2, <1>3, <1>5 DEF FilesInv, HoldsFiles
<1>7. OneHolderAFile'
  <2> SUFFICES ASSUME NEW y \in Process, NEW z \in Process, NEW lock \in Lock,
                      y # z, Holds(y, lock)', Holds(z, lock)'
               PROVE  opened'[y][lock] # opened'[z][lock]
    BY DEF OneHolderAFile
  <2>1. /\ opened[y][lock] # opened[z][lock] /\ opened[y][lock] > 0 /\ opened[z][lock] > 0
    BY <1>5 DEF FilesInv, HoldsFiles, OneHolderAFile
  <2>2. CASE lock = gone
    <3>1. /\ opened'[y][gone] = opened[y][gone] + 1 /\ opened'[z][gone] = opened[z][gone] + 1
      BY <2>1, <2>2, <1>2, <1>3
    <3>2. opened[y][gone] \in Nat /\ opened[z][gone] \in Nat
      BY <1>2, LocksAssumption
    <3> QED
      BY <2>1, <2>2, <3>1, <3>2
  <2>3. CASE lock # gone
    BY <2>1, <2>3, <1>3
  <2> QED
    BY <2>2, <2>3
<1>8. SessionsStay'
  <2>1. \A s \in Session : SessionLock(s) # gone
    BY <1>1, TreeLocks, SessionRank
  <2> QED
    BY <2>1, <1>3, SessionRank DEF FilesInv, SessionsStay
<1> QED
  BY <1>4, <1>6, <1>7, <1>8 DEF FilesInv

\* Files stay apart, whatever commands meet, give up or die and whichever files sweep removes.
LEMMA FilesStayApart == Spec => []FilesInv
<1>1. Init => FilesInv
  BY LocksAssumption, SessionRank
     DEF Init, FilesInv, TypeOK, HoldsFiles, OneHolderAFile, SessionsStay, Holds, Running, NoFiles
<1>2. FilesInv /\ [Next]_vars => FilesInv'
  <2> SUFFICES ASSUME FilesInv, [Next]_vars PROVE FilesInv'
    OBVIOUS
  <2>1. CASE UNCHANGED vars
    BY <2>1 DEF vars, FilesInv, TypeOK, HoldsFiles, OneHolderAFile, SessionsStay, Holds, Running
  <2>2. CASE Next
    <3>1. PICK x \in Process : \/ \E command \in Command : Begin(x, command)
                               \/ \E p \in Pane : \E lock \in Lock : Unlink(x, p, lock)
                               \/ Open(x) \/ Acquire(x) \/ Release(x)
      BY <2>2 DEF Next, Finish, TimeOut, Die
    <3> QED
      BY <3>1, BeginStep, UnlinkStep, OpenStep, AcquireStep, ReleaseStep
  <2> QED
    BY <2>1, <2>2
<1> QED
  BY <1>1, <1>2, PTL DEF Spec

\* Whoever is at work in a pane holds its claim lock.
LEMMA WritersHoldTheClaim ==
  ASSUME FilesInv, NEW x \in Process, NEW p \in Pane, WritesIn(x, p)
  PROVE  Holds(x, ClaimLock(p))
<1>1. todo[x] = << >> /\ held[x] \in Seq(Lock) /\ held[x] \o todo[x] \in Command
  BY DEF FilesInv, TypeOK, WritesIn, AtWork, Waiting
<1>2. held[x] \in Command
  <2>1. held[x] \o << >> = held[x]
    BY <1>1, ConcatEmptySeq
  <2> QED
    BY <1>1, <2>1
<1>3. PICK lock \in LocksOf(p) : lock \in Range(held[x])
  BY DEF WritesIn, Holds, Range
<1>4. ClaimLock(p) \in Range(held[x])
  BY <1>2, <1>3, ClaimAmongThem
<1> QED
  BY <1>4 DEF Holds, Range

\* Of two writers in a pane, the claim lock file of one was removed with the tree.
LEMMA FilesGiveWriters == FilesInv => LocksOK
<1> SUFFICES ASSUME FilesInv, NEW x \in Process, NEW y \in Process, x # y
             PROVE  /\ \A p \in Pane : WritesIn(x, p) /\ WritesIn(y, p) =>
                         WasRemoved(x, ClaimLock(p)) \/ WasRemoved(y, ClaimLock(p))
                    /\ \A s \in Session : ~(Holds(x, SessionLock(s)) /\ Holds(y, SessionLock(s)))
  BY DEF LocksOK, OneWriter, FilesInv
<1>1. ASSUME NEW p \in Pane, WritesIn(x, p), WritesIn(y, p)
      PROVE  WasRemoved(x, ClaimLock(p)) \/ WasRemoved(y, ClaimLock(p))
  <2>1. Holds(x, ClaimLock(p)) /\ Holds(y, ClaimLock(p)) /\ ClaimLock(p) \in Lock
    BY <1>1, WritersHoldTheClaim, PaneRanks
  <2>2. /\ opened[x][ClaimLock(p)] # opened[y][ClaimLock(p)]
        /\ opened[x][ClaimLock(p)] > 0 /\ opened[y][ClaimLock(p)] > 0
    BY <2>1 DEF FilesInv, HoldsFiles, OneHolderAFile
  <2>3. opened[x][ClaimLock(p)] \in Nat /\ opened[y][ClaimLock(p)] \in Nat
    BY <2>1, LocksAssumption DEF FilesInv, TypeOK
  <2> QED
    BY <2>2, <2>3 DEF WasRemoved
<1>2. ASSUME NEW s \in Session, Holds(x, SessionLock(s)), Holds(y, SessionLock(s))
      PROVE  FALSE
  <2>1. SessionLock(s) \in Lock
    BY SessionRank
  <2>2. /\ opened[x][SessionLock(s)] # opened[y][SessionLock(s)]
        /\ opened[x][SessionLock(s)] > 0 /\ opened[y][SessionLock(s)] > 0
        /\ opened[x][SessionLock(s)] <= 1 /\ opened[y][SessionLock(s)] <= 1
    BY <1>2, <2>1 DEF FilesInv, HoldsFiles, OneHolderAFile, SessionsStay
  <2>3. opened[x][SessionLock(s)] \in Nat /\ opened[y][SessionLock(s)] \in Nat
    BY <2>1, LocksAssumption DEF FilesInv, TypeOK
  <2> QED
    BY <2>2, <2>3
<1> QED
  BY <1>1, <1>2

\* No two commands are at work in one pane unless the claim lock file one of them holds was
\* removed by sweep, and none ever in one session's registration (acquire, open_state_lock,
\* and the removal of a pane's tree with the lock files in it).
THEOREM WritersStayApart == Spec => []LocksOK
  BY FilesStayApart, FilesGiveWriters, PTL

-----------------------------------------------------------------------------
\* What a process waits for comes after all it holds.
LEMMA WaitsForLater ==
  ASSUME LocksOK, NEW x \in Process, Waiting(x), NEW lock, Holds(x, lock)
  PROVE  /\ Head(todo[x]) \in Lock /\ lock \in Lock
         /\ Rank(lock) < Rank(Head(todo[x]))
<1> DEFINE h == held[x]
           t == todo[x]
<1>1. h \in Seq(Lock) /\ t \in Seq(Lock) /\ t # << >> /\ h \o t \in Command
  BY DEF LocksOK, TypeOK, Running, Waiting
<1>2. PICK i \in DOMAIN h : h[i] = lock
  BY DEF Holds
<1>3. Ascending(h \o t)
  BY <1>1, CommandsAscend
<1> HIDE DEF h, t
<1>4. /\ i \in DOMAIN (h \o t) /\ Len(h) + 1 \in DOMAIN (h \o t) /\ i < Len(h) + 1
      /\ (h \o t)[i] = lock /\ (h \o t)[Len(h) + 1] = Head(t)
      /\ Head(t) \in Lock /\ lock \in Lock
  BY <1>1, <1>2
<1> QED
  BY <1>3, <1>4 DEF Ascending, t

\* A set of numbers up to a bound has a greatest.
LEMMA Greatest ==
  ASSUME NEW n \in Nat, NEW T, T \subseteq 0..n, T # {}
  PROVE  \E m \in T : \A k \in T : k <= m
<1> DEFINE below == {n - k : k \in T}
<1>1. below \subseteq Nat /\ below # {}
  OBVIOUS
<1>2. PICK b \in below : \A d \in below : ~(<<d, b>> \in OpToRel(<, Nat))
  BY <1>1, NatLessThanWellFounded, WFMin
<1>3. \A d \in below : ~(d < b)
  BY <1>1, <1>2 DEF OpToRel
<1>4. PICK m \in T : b = n - m
  OBVIOUS
<1> QED
  BY <1>3, <1>4

\* In a circle, the process that waits for the last of the locks waited for would wait for
\* one that comes before what its holder holds and after what its holder waits for.
LEMMA NoCircle == LocksOK => NoCircularWait
<1> SUFFICES ASSUME LocksOK, NEW S \in (SUBSET Process) \ {{}},
                    \A x \in S : Waiting(x) /\ \E y \in S : Holds(y, Head(todo[x]))
             PROVE  FALSE
  BY DEF NoCircularWait, Blocks
<1> DEFINE R(x) == Rank(Head(todo[x]))
           T == {R(x) : x \in S}
<1>1. ASSUME NEW x \in S PROVE Head(todo[x]) \in Lock
  <2>1. todo[x] \in Seq(Lock) /\ todo[x] # << >>
    BY DEF LocksOK, TypeOK, Waiting
  <2> QED
    BY <2>1
<1>2. T \subseteq 0..(4 * Panes + 3) /\ T # {}
  <2>1. ASSUME NEW x \in S PROVE R(x) \in 0..(4 * Panes + 3)
    BY <1>1, RankBound, LocksAssumption
  <2> HIDE DEF R
  <2> QED
    BY <2>1
<1>3. PICK m \in T : \A k \in T : k <= m
  <2>1. 4 * Panes + 3 \in Nat
    BY LocksAssumption
  <2> HIDE DEF T
  <2> QED
    BY <1>2, <2>1, Greatest
<1>4. PICK x \in S : m = R(x)
  OBVIOUS
<1>5. PICK y \in S : Holds(y, Head(todo[x]))
  OBVIOUS
<1>6. R(x) < R(y)
  BY <1>5, WaitsForLater
<1>7. R(y) <= R(x) /\ R(x) \in Nat /\ R(y) \in Nat
  BY <1>3, <1>4, <1>1, RankBound
<1> QED
  BY <1>6, <1>7

\* No commands of claims, hooks, sweep, followers, reviews and registrations wait for each
\* other in a circle (binding_mutation_for_session, commit_waiting).
THEOREM NoDeadlock == Spec => []NoCircularWait
  BY WritersStayApart, NoCircle, PTL

-----------------------------------------------------------------------------
(***************************************************************************)
(* HoldCheck: a Stop's decision under the locks on what its checks said    *)
(* without them.  Each of its actions stands for what one command does     *)
(* while it holds the locks above.                                         *)
(***************************************************************************)
EndForm == [by : Hooks \cup {None}, recorded : BOOLEAN, notes : SUBSET Purpose, missed : BOOLEAN]
EventForm == [kind : Kind, turn : Nat, at : Nat, end : EndForm]
SlotForm == [at : Nat, word : {"thinking", "notify", "stop"}, notes : SUBSET Purpose,
             by : Hooks \cup {None}]
ChildForm == [here : BOOLEAN, waiting : BOOLEAN, last : Nat, cleared : Nat,
              under : Hooks \cup {None}]
HookForm == [phase : {"idle", "begun", "looked", "checked", "done"}, kind : Kind \cup {None},
             turn : Nat, at : Nat, lists : BOOLEAN, look : {None} \cup SUBSET EventForm,
             notes : SUBSET Purpose, missed : BOOLEAN]

Runs(h) == hook[h].phase \in {"begun", "looked", "checked"}

FormsOK ==
  /\ clock \in Nat /\ turn \in Nat /\ latest \in Nat
  /\ slot \in SlotForm /\ child \in ChildForm /\ pool \subseteq EventForm
  /\ hook \in [Hooks -> HookForm]

\* Every hook has a clock value of its own, and the slot's is of a hook that is done.
StampsOK ==
  /\ slot.at <= clock
  /\ \A h \in Hooks : Runs(h) => hook[h].at \in 1..clock /\ hook[h].at # slot.at
  /\ \A g, h \in Hooks : Runs(g) /\ Runs(h) /\ g # h => hook[g].at # hook[h].at

PoolOK ==
  /\ \A e, o \in pool : e.kind = o.kind /\ e.turn = o.turn /\ e # o => e.kind = "tool"
  /\ \A e \in pool : e.kind = "stop" <=> e.end # NoEnd
  /\ \A e \in pool : e.kind = "stop" => e.end.by \in Hooks /\ hook[e.end.by].phase = "done"

SlotOK ==
  /\ slot.notes # {} => slot.word = "stop"
  /\ slot.by # None => hook[slot.by].phase = "done"
  /\ child.waiting => child.here

\* The pool went on from what a look saw: it holds what no later step brings back.
WentOn(seen, now) ==
  \E e \in now : /\ e \notin seen
                 /\ \A o \in seen : o.kind = e.kind /\ o.turn = e.turn /\ e.kind # "tool" => o.at < e.at

LooksOK ==
  \A h \in Hooks :
    /\ hook[h].phase = "begun" => ~hook[h].missed /\ hook[h].notes = {}
    /\ hook[h].phase \in {"looked", "checked"} =>
         /\ hook[h].look # None /\ hook[h].missed => WentOn(hook[h].look, pool)
         /\ hook[h].look # None /\ ~hook[h].missed => hook[h].look = pool
         /\ "quiet" \in hook[h].notes => hook[h].look # None

RecordsInv == FormsOK /\ StampsOK /\ PoolOK /\ SlotOK
HoldInv == RecordsInv /\ LooksOK /\ NotesHideNoAsk /\ SlotTellsTheEnd /\ QuietSawEveryEvent

\* What the pool becomes with an event.
LEMMA PoolForms ==
  ASSUME pool \subseteq EventForm, NEW e \in EventForm
  PROVE  \/ PoolWith(e) = pool
         \/ /\ e \notin pool /\ e \in PoolWith(e)
            /\ \A o \in PoolWith(e) : o \in pool \/ o = e
            /\ \A o \in pool : o \in PoolWith(e) \/ (o.kind = e.kind /\ o.turn = e.turn /\ e.kind \notin {"prompt", "tool"})
            /\ \A o \in pool : o.kind = e.kind /\ o.turn = e.turn /\ e.kind # "tool" =>
                 o.at < e.at /\ o \notin PoolWith(e)
<1>1. PICK same : same = {o \in pool : o.kind = e.kind /\ o.turn = e.turn /\ e.kind # "tool"}
  OBVIOUS
<1>2. PoolWith(e) = IF \E o \in same : e.kind = "prompt" \/ o.at >= e.at THEN pool ELSE (pool \ same) \cup {e}
  BY <1>1 DEF PoolWith
<1>3. CASE \E o \in same : e.kind = "prompt" \/ o.at >= e.at
  BY <1>2, <1>3
<1>4. CASE ~(\E o \in same : e.kind = "prompt" \/ o.at >= e.at) /\ e \in pool
  <2>1. e.at \in Nat
    BY DEF EventForm
  <2>2. e \notin same
    BY <1>4, <2>1
  <2>3. e.kind = "tool"
    BY <1>1, <1>4, <2>2
  <2>4. same = {}
    BY <1>1, <2>3
  <2> QED
    BY <1>2, <1>4, <2>4
<1>5. CASE ~(\E o \in same : e.kind = "prompt" \/ o.at >= e.at) /\ e \notin pool
  <2>1. PoolWith(e) = (pool \ same) \cup {e}
    BY <1>2, <1>5
  <2>2. \A o \in same : o.at < e.at /\ e.kind # "prompt"
    BY <1>1, <1>5 DEF EventForm
  <2> QED
    BY <1>1, <1>5, <2>1, <2>2
<1> QED
  BY <1>3, <1>4, <1>5

\* What went on goes on.
LEMMA WentOnLasts ==
  ASSUME pool \subseteq EventForm, NEW e \in EventForm, PoolWith(e) # pool,
         NEW seen \in SUBSET EventForm
  PROVE  /\ seen = pool => WentOn(seen, PoolWith(e))
         /\ WentOn(seen, pool) => WentOn(seen, PoolWith(e))
<1>1. /\ e \notin pool /\ e \in PoolWith(e)
      /\ \A o \in pool : o \in PoolWith(e) \/ (o.kind = e.kind /\ o.turn = e.turn /\ e.kind \notin {"prompt", "tool"})
      /\ \A o \in pool : o.kind = e.kind /\ o.turn = e.turn /\ e.kind # "tool" => o.at < e.at
  BY PoolForms
<1>2. ASSUME seen = pool
      PROVE  WentOn(seen, PoolWith(e))
  BY <1>1, <1>2 DEF WentOn
<1>3. ASSUME WentOn(seen, pool)
      PROVE  WentOn(seen, PoolWith(e))
  <2>1. PICK n \in pool : /\ n \notin seen
                          /\ \A o \in seen : o.kind = n.kind /\ o.turn = n.turn /\ n.kind # "tool" => o.at < n.at
    BY <1>3 DEF WentOn
  <2>2. CASE n \in PoolWith(e)
    BY <2>1, <2>2 DEF WentOn
  <2>3. CASE n \notin PoolWith(e)
    <3>1. n.kind = e.kind /\ n.turn = e.turn /\ e.kind # "tool" /\ n.at < e.at
      BY <1>1, <2>3
    <3>2. n.at \in Nat /\ e.at \in Nat /\ \A o \in seen : o.at \in Nat
      BY DEF EventForm
    <3>3. \A o \in seen : o.kind = e.kind /\ o.turn = e.turn => o.at < e.at
      BY <2>1, <3>1, <3>2
    <3>4. e \notin seen
      BY <3>2, <3>3
    <3> QED
      BY <1>1, <3>3, <3>4 DEF WentOn
  <2> QED
    BY <2>2, <2>3
<1> QED
  BY <1>2, <1>3

\* Every hook's record is one.
LEMMA HookForms ==
  ASSUME FormsOK, NEW h \in Hooks
  PROVE  /\ hook[h] \in HookForm /\ hook[h].at \in Nat /\ hook[h].turn \in Nat
         /\ hook[h].notes \subseteq Purpose /\ hook[h].missed \in BOOLEAN
         /\ DOMAIN hook = Hooks /\ Done \in HookForm /\ Done.phase = "done" /\ Done.notes = {}
         /\ None \notin Hooks
  BY HoldAssumption DEF FormsOK, HookForm, Done, Idle

\* What the slot becomes with a word.
LEMMA TakesForms ==
  ASSUME FormsOK, NEW h \in Hooks, NEW word \in {"thinking", "notify", "stop"},
         NEW notes \in SUBSET Purpose
  PROVE  /\ Takes(h, word, notes) \in SlotForm
         /\ \/ /\ Takes(h, word, notes) = slot
               /\ (slot.word = word /\ slot.notes = notes) \/ hook[h].at <= slot.at
            \/ /\ Takes(h, word, notes) =
                    [at |-> hook[h].at, word |-> word, notes |-> notes, by |-> IF word = "stop" THEN h ELSE None]
               /\ hook[h].at > slot.at
<1>1. slot \in SlotForm /\ hook[h].at \in Nat /\ slot.at \in Nat
  BY HookForms DEF FormsOK, SlotForm
<1>2. [at |-> hook[h].at, word |-> word, notes |-> notes, by |-> IF word = "stop" THEN h ELSE None] \in SlotForm
  BY <1>1 DEF SlotForm
<1>3. CASE [word |-> slot.word, notes |-> slot.notes] = [word |-> word, notes |-> notes]
  <2>1. slot.word = word /\ slot.notes = notes
    BY <1>3
  <2> QED
    BY <1>1, <1>3, <2>1 DEF Takes
<1>4. CASE hook[h].at <= slot.at
  BY <1>1, <1>4 DEF Takes
<1>5. CASE ~([word |-> slot.word, notes |-> slot.notes] = [word |-> word, notes |-> notes]) /\ ~(hook[h].at <= slot.at)
  BY <1>1, <1>2, <1>5 DEF Takes
<1> QED
  BY <1>3, <1>4, <1>5

\* A hook that is done says its word, pools its event, and the others miss it.
Commits(h, word, notes, e) ==
  /\ Runs(h)
  /\ slot' = slot \/ slot' = Takes(h, word, notes)
  /\ pool' = pool \/ pool' = PoolWith(e)
  /\ hook' = Missing(h)
  /\ latest' \in Nat /\ child' \in ChildForm /\ (child'.waiting => child'.here)
  /\ UNCHANGED <<clock, turn>>

\* What a commit leaves holds of the records and the looks.
LEMMA CommitStep ==
  ASSUME RecordsInv, LooksOK, QuietSawEveryEvent, SlotTellsTheEnd, NEW h \in Hooks,
         NEW word \in {"thinking", "notify", "stop"}, NEW notes \in SUBSET Purpose,
         notes # {} => word = "stop", NEW e \in EventForm, Commits(h, word, notes, e),
         e.kind = "stop" <=> e.end # NoEnd,
         e.kind = "stop" => e.end.by = h /\ e.end.notes = notes,
         QuietEnd(e) => ~e.end.missed
  PROVE  RecordsInv' /\ LooksOK' /\ QuietSawEveryEvent' /\ SlotTellsTheEnd'
<1>1. /\ FormsOK /\ StampsOK /\ PoolOK /\ SlotOK /\ None \notin Hooks
      /\ hook \in [Hooks -> HookForm] /\ pool \subseteq EventForm /\ clock \in Nat
  BY HookForms DEF RecordsInv, FormsOK
<1>2. /\ slot' \in SlotForm
      /\ slot' = slot \/ (slot'.at = hook[h].at /\ slot'.word = word /\ slot'.notes = notes
                          /\ slot'.by \in {h, None} /\ slot'.by = IF word = "stop" THEN h ELSE None)
  BY <1>1, TakesForms DEF Commits, FormsOK, SlotForm
<1>3. \/ pool' = pool
      \/ /\ e \notin pool /\ e \in pool'
         /\ \A o \in pool' : o \in pool \/ o = e
         /\ \A o \in pool : o \in pool' \/ (o.kind = e.kind /\ o.turn = e.turn /\ e.kind \notin {"prompt", "tool"})
         /\ \A o \in pool : o.kind = e.kind /\ o.turn = e.turn /\ e.kind # "tool" =>
              o.at < e.at /\ o \notin pool'
  BY <1>1, PoolForms DEF Commits
<1>4. ASSUME NEW g \in Hooks
      PROVE  /\ hook'[g] \in HookForm
             /\ g = h => hook'[g] = Done
             /\ g # h /\ hook[g].phase \notin {"looked", "checked"} => hook'[g] = hook[g]
             /\ g # h /\ hook[g].phase \in {"looked", "checked"} =>
                  hook'[g] = [hook[g] EXCEPT !.missed = @ \/ pool' # pool]
             /\ hook'[g].phase = hook[g].phase \/ hook'[g].phase = "done"
             /\ Runs(g)' => g # h /\ Runs(g) /\ hook'[g].at = hook[g].at
  <2>1. hook[g] \in HookForm /\ Done \in HookForm
    BY <1>1, HookForms
  <2>2. hook'[g] = IF g = h THEN Done
                   ELSE IF hook[g].phase \in {"looked", "checked"}
                   THEN [hook[g] EXCEPT !.missed = @ \/ pool' # pool] ELSE hook[g]
    BY DEF Commits, Missing
  <2>3. CASE g = h
    BY <2>1, <2>2, <2>3, HookForms, <1>1 DEF Runs
  <2>4. CASE g # h /\ hook[g].phase \in {"looked", "checked"}
    <3>1. PICK m \in BOOLEAN : m = (hook[g].missed \/ pool' # pool)
      <4>1. hook[g].missed \in BOOLEAN
        BY <2>1 DEF HookForm
      <4> QED
        BY <4>1
    <3>2. hook'[g] = [hook[g] EXCEPT !.missed = m]
      BY <2>2, <2>4, <3>1
    <3>3. hook'[g] \in HookForm /\ hook'[g].phase = hook[g].phase /\ hook'[g].at = hook[g].at
      BY <2>1, <3>2 DEF HookForm
    <3> QED
      BY <2>2, <2>4, <3>3 DEF Runs
  <2>5. CASE g # h /\ hook[g].phase \notin {"looked", "checked"}
    BY <2>1, <2>2, <2>5 DEF Runs
  <2> QED
    BY <2>3, <2>4, <2>5
<1>5. hook' \in [Hooks -> HookForm] /\ hook'[h].phase = "done"
  <2>1. hook' = [g \in Hooks |-> hook'[g]]
    BY DEF Commits, Missing
  <2> QED
    BY <1>1, <1>4, <2>1, HookForms
<1>6. FormsOK'
  <2>1. pool' \subseteq EventForm
    BY <1>1, <1>3
  <2> QED
    BY <1>1, <1>2, <1>5, <2>1 DEF FormsOK, Commits
<1>7. StampsOK'
  <2>1. clock' = clock /\ Runs(h) /\ hook[h].at \in 1..clock
    BY <1>1 DEF Commits, StampsOK
  <2>2. slot'.at <= clock
    BY <1>1, <1>2, <2>1 DEF StampsOK
  <2>3. ASSUME NEW g \in Hooks, Runs(g)'
        PROVE  hook'[g].at \in 1..clock /\ hook'[g].at # slot'.at
    <3>1. g # h /\ Runs(g) /\ hook'[g].at = hook[g].at
      BY <1>4, <2>3
    <3> QED
      BY <1>1, <1>2, <2>1, <3>1 DEF StampsOK
  <2>4. ASSUME NEW f \in Hooks, NEW g \in Hooks, Runs(f)', Runs(g)', f # g
        PROVE  hook'[f].at # hook'[g].at
    <3>1. Runs(f) /\ hook'[f].at = hook[f].at /\ Runs(g) /\ hook'[g].at = hook[g].at
      BY <1>4, <2>4
    <3> QED
      BY <1>1, <2>4, <3>1 DEF StampsOK
  <2> QED
    BY <2>1, <2>2, <2>3, <2>4 DEF StampsOK
<1>8. \A g \in Hooks : hook[g].phase = "done" => hook'[g].phase = "done"
  BY <1>4
<1>9. PoolOK'
  <2>1. \A a, b \in pool' : a.kind = b.kind /\ a.turn = b.turn /\ a # b => a.kind = "tool"
    BY <1>1, <1>3 DEF PoolOK
  <2>2. \A a \in pool' : a.kind = "stop" <=> a.end # NoEnd
    BY <1>1, <1>3 DEF PoolOK
  <2>3. \A a \in pool' : a.kind = "stop" => a.end.by \in Hooks /\ hook'[a.end.by].phase = "done"
    BY <1>1, <1>3, <1>5, <1>8 DEF PoolOK
  <2> QED
    BY <2>1, <2>2, <2>3 DEF PoolOK
<1>10. SlotOK'
  <2>1. slot'.notes # {} => slot'.word = "stop"
    BY <1>1, <1>2 DEF SlotOK
  <2>2. slot'.by # None => hook'[slot'.by].phase = "done"
    <3>1. slot.by # None => slot.by \in Hooks
      BY <1>1 DEF FormsOK, SlotForm
    <3> QED
      BY <1>1, <1>2, <1>5, <1>8, <3>1 DEF SlotOK
  <2> QED
    BY <2>1, <2>2 DEF SlotOK, Commits
<1>11. LooksOK'
  <2>0. ASSUME NEW g \in Hooks, hook'[g].phase = "begun"
        PROVE  ~hook'[g].missed /\ hook'[g].notes = {}
    <3>1. hook'[g] = hook[g]
      BY <1>4, <1>5, <2>0
    <3> QED
      BY <2>0, <3>1 DEF LooksOK
  <2> SUFFICES ASSUME NEW g \in Hooks, hook'[g].phase \in {"looked", "checked"}
               PROVE  /\ hook'[g].look # None /\ hook'[g].missed => WentOn(hook'[g].look, pool')
                      /\ hook'[g].look # None /\ ~hook'[g].missed => hook'[g].look = pool'
                      /\ "quiet" \in hook'[g].notes => hook'[g].look # None
    BY <2>0 DEF LooksOK, WentOn
  <2>1. g # h /\ hook[g].phase \in {"looked", "checked"}
    BY <1>4, <1>5
  <2>2. /\ hook'[g].look = hook[g].look /\ hook'[g].notes = hook[g].notes
        /\ hook'[g].missed = (hook[g].missed \/ pool' # pool)
    <3>1. hook[g] \in HookForm
      BY <1>1
    <3>2. hook'[g] = [hook[g] EXCEPT !.missed = @ \/ pool' # pool]
      BY <1>4, <2>1
    <3> QED
      BY <3>1, <3>2 DEF HookForm
  <2>3. /\ hook[g].look # None /\ hook[g].missed => WentOn(hook[g].look, pool)
        /\ hook[g].look # None /\ ~hook[g].missed => hook[g].look = pool
        /\ "quiet" \in hook[g].notes => hook[g].look # None
        /\ hook[g].look # None => hook[g].look \in SUBSET EventForm
    BY <1>1, <2>1 DEF LooksOK, HookForm
  <2>4. CASE pool' = pool
    BY <2>2, <2>3, <2>4
  <2>5. CASE pool' # pool
    <3>1. pool' = PoolWith(e)
      BY <2>5 DEF Commits
    <3> QED
      BY <1>1, <2>2, <2>3, <2>5, <3>1, WentOnLasts
  <2> QED
    BY <2>4, <2>5
<1>12. QuietSawEveryEvent'
  BY <1>3 DEF QuietSawEveryEvent, QuietEnd
<1>13. SlotTellsTheEnd'
  <2> SUFFICES ASSUME NEW a \in pool', a.kind = "stop", slot'.by = a.end.by
               PROVE  slot'.notes = a.end.notes
    BY DEF SlotTellsTheEnd
  <2>1. hook[h].phase # "done"
    BY DEF Commits, Runs
  <2>2. a \in pool => a.end.by \in Hooks /\ hook[a.end.by].phase = "done"
    BY <1>1 DEF PoolOK
  <2>3. a \notin pool => a = e /\ a.end.by = h /\ a.end.notes = notes
    BY <1>3
  <2>4. CASE slot' = slot
    <3>1. a.end.by # h
      BY <1>1, <2>1, <2>4 DEF SlotOK
    <3> QED
      BY <2>3, <2>4, <3>1 DEF SlotTellsTheEnd
  <2>5. CASE slot'.notes = notes /\ slot'.by \in {h, None}
    BY <1>1, <2>1, <2>2, <2>3, <2>5
  <2> QED
    BY <1>2, <2>4, <2>5
<1> QED
  BY <1>6, <1>7, <1>9, <1>10, <1>11, <1>12, <1>13 DEF RecordsInv

\* A hook that leaves the pool alone leaves the others unaware.
LEMMA DoneMissesNothing ==
  ASSUME FormsOK, NEW h \in Hooks, hook' = [hook EXCEPT ![h] = Done], pool' = pool
  PROVE  hook' = Missing(h)
<1>1. hook \in [Hooks -> HookForm]
  BY DEF FormsOK
<1>2. ASSUME NEW g \in Hooks
      PROVE  [hook[g] EXCEPT !.missed = @ \/ pool' # pool] = hook[g]
  <2>1. hook[g] \in HookForm /\ hook[g].missed \in BOOLEAN
    BY <1>1 DEF HookForm
  <2>2. (hook[g].missed \/ pool' # pool) = hook[g].missed
    BY <2>1
  <2>3. [hook[g] EXCEPT !.missed = hook[g].missed] = hook[g]
    BY <2>1 DEF HookForm
  <2> QED
    BY <2>2, <2>3
<1> QED
  BY <1>1, <1>2 DEF Missing

\* A hook steps up to its decision: the records rest.
LEMMA HookGoesOn ==
  ASSUME HoldInv, NEW h \in Hooks, NEW new \in HookForm, hook' = [hook EXCEPT ![h] = new],
         hook[h].phase # "done", new.phase \in {"begun", "looked", "checked"},
         UNCHANGED records, turn' \in Nat,
         \/ hook[h].phase = "idle" /\ clock' = clock + 1 /\ new.at = clock'
         \/ Runs(h) /\ clock' = clock /\ new.at = hook[h].at,
         new.phase = "begun" => ~new.missed /\ new.notes = {},
         new.phase # "begun" =>
           /\ new.look # None /\ new.missed => WentOn(new.look, pool)
           /\ new.look # None /\ ~new.missed => new.look = pool
           /\ "quiet" \in new.notes => new.look # None
  PROVE  HoldInv'
<1>1. /\ FormsOK /\ StampsOK /\ PoolOK /\ SlotOK /\ hook \in [Hooks -> HookForm] /\ clock \in Nat
      /\ slot.at \in Nat
  BY DEF HoldInv, RecordsInv, FormsOK, SlotForm
<1>2. UNCHANGED <<child, slot, pool, latest>>
  BY DEF records
<1>3. hook' \in [Hooks -> HookForm] /\ hook'[h] = new /\ \A g \in Hooks : g # h => hook'[g] = hook[g]
  BY <1>1
<1>4. FormsOK'
  BY <1>1, <1>2, <1>3 DEF FormsOK
<1>5. \A g \in Hooks : hook[g].phase = "done" => hook'[g].phase = "done"
  BY <1>3
<1>6. StampsOK'
  <2>1. slot'.at <= clock' /\ clock <= clock'
    BY <1>1, <1>2 DEF StampsOK
  <2>2. ASSUME NEW g \in Hooks, Runs(g)'
        PROVE  /\ hook'[g].at \in 1..clock' /\ hook'[g].at # slot'.at
               /\ g # h => Runs(g) /\ hook'[g].at = hook[g].at /\ hook[g].at \in 1..clock
    <3>1. CASE g # h
      <4>1. Runs(g) /\ hook'[g] = hook[g]
        BY <1>3, <2>2, <3>1 DEF Runs
      <4> QED
        BY <1>1, <1>2, <2>1, <4>1, <3>1 DEF StampsOK
    <3>2. CASE g = h
      BY <1>1, <1>2, <1>3, <3>2 DEF StampsOK
    <3> QED
      BY <3>1, <3>2
  <2>3. ASSUME NEW g \in Hooks, Runs(g)', g # h
        PROVE  hook'[g].at # hook'[h].at
    <3>1. Runs(g) /\ hook'[g].at = hook[g].at /\ hook[g].at \in 1..clock
      BY <2>2, <2>3
    <3> QED
      BY <1>1, <1>3, <2>3, <3>1 DEF StampsOK
  <2>4. ASSUME NEW f \in Hooks, NEW g \in Hooks, Runs(f)', Runs(g)', f # g
        PROVE  hook'[f].at # hook'[g].at
    <3>1. CASE f # h /\ g # h
      <4>1. Runs(f) /\ hook'[f].at = hook[f].at /\ Runs(g) /\ hook'[g].at = hook[g].at
        BY <2>2, <2>4, <3>1
      <4> QED
        BY <1>1, <2>4, <4>1 DEF StampsOK
    <3>2. CASE f = h \/ g = h
      BY <2>3, <2>4, <3>2
    <3> QED
      BY <3>1, <3>2
  <2> QED
    BY <2>1, <2>2, <2>4 DEF StampsOK
<1>7. PoolOK'
  BY <1>1, <1>2, <1>5 DEF PoolOK
<1>8. SlotOK'
  <2>1. slot.by # None => slot.by \in Hooks
    BY <1>1 DEF FormsOK, SlotForm
  <2> QED
    BY <1>1, <1>2, <1>5, <2>1 DEF SlotOK
<1>9. LooksOK'
  <2> SUFFICES ASSUME NEW g \in Hooks
               PROVE  /\ hook'[g].phase = "begun" => ~hook'[g].missed /\ hook'[g].notes = {}
                      /\ hook'[g].phase \in {"looked", "checked"} =>
                           /\ hook'[g].look # None /\ hook'[g].missed => WentOn(hook'[g].look, pool)
                           /\ hook'[g].look # None /\ ~hook'[g].missed => hook'[g].look = pool
                           /\ "quiet" \in hook'[g].notes => hook'[g].look # None
    BY <1>2 DEF LooksOK, WentOn
  <2>1. CASE g = h
    BY <1>3, <2>1
  <2>2. CASE g # h
    BY <1>3, <2>2 DEF HoldInv, LooksOK
  <2> QED
    BY <2>1, <2>2
<1>10. NotesHideNoAsk' /\ SlotTellsTheEnd' /\ QuietSawEveryEvent'
  BY <1>2 DEF HoldInv, NotesHideNoAsk, SlotTellsTheEnd, QuietSawEveryEvent, QuietEnd
<1> QED
  BY <1>4, <1>6, <1>7, <1>8, <1>9, <1>10 DEF HoldInv, RecordsInv

\* A hook begins, looks at the records, and runs its checks.
LEMMA BeginsAndChecks ==
  ASSUME HoldInv, NEW h \in Hooks, HookBegins(h) \/ Look(h) \/ Check(h)
  PROVE  HoldInv'
<1>1. /\ FormsOK /\ hook \in [Hooks -> HookForm] /\ hook[h] \in HookForm /\ clock \in Nat /\ turn \in Nat
      /\ pool \subseteq EventForm
  BY DEF HoldInv, RecordsInv, FormsOK
<1>2. CASE HookBegins(h)
  <2>1. PICK kind \in Kind, t \in {turn, turn + 1}, lists \in BOOLEAN :
          /\ kind = "stop" <=> h \in Stops
          /\ t # turn => kind = "prompt"
          /\ lists => kind = "stop" /\ provider = "claude"
          /\ turn' = t
          /\ hook' = [hook EXCEPT ![h] = [Idle EXCEPT !.phase = "begun", !.kind = kind,
                        !.turn = IF kind = "ask" THEN 0 ELSE t, !.at = clock', !.lists = lists]]
    BY <1>2 DEF HookBegins
  <2>2. PICK new : new = [Idle EXCEPT !.phase = "begun", !.kind = kind,
                           !.turn = IF kind = "ask" THEN 0 ELSE t, !.at = clock', !.lists = lists]
    OBVIOUS
  <2>3. hook[h].phase = "idle" /\ clock' = clock + 1 /\ UNCHANGED records
    BY <1>2 DEF HookBegins
  <2>4. /\ new \in HookForm /\ new.phase = "begun" /\ new.at = clock' /\ ~new.missed /\ new.notes = {}
        /\ turn' \in Nat
    <3>1. clock' \in Nat /\ t \in Nat /\ turn' \in Nat
      BY <1>1, <2>1, <2>3
    <3>2. PICK of \in Nat : of = IF kind = "ask" THEN 0 ELSE t
      BY <3>1
    <3>3. new = [phase |-> "begun", kind |-> kind, turn |-> of, at |-> clock', lists |-> lists,
                 look |-> None, notes |-> {}, missed |-> FALSE]
      BY <2>2, <3>2 DEF Idle
    <3>4. kind \in Kind \cup {None} /\ None \in {None} \cup SUBSET EventForm /\ {} \in SUBSET Purpose
      OBVIOUS
    <3>5. new \in HookForm
      BY <3>1, <3>3, <3>4 DEF HookForm
    <3> QED
      BY <3>1, <3>3, <3>5
  <2>5. hook' = [hook EXCEPT ![h] = new]
    BY <2>1, <2>2
  <2> QED
    BY <2>3, <2>4, <2>5, HookGoesOn
<1>3. CASE Look(h)
  <2>1. /\ hook[h].phase = "begun" /\ UNCHANGED <<clock, turn, records>>
        /\ ~hook[h].missed /\ hook[h].notes = {}
    BY <1>3 DEF Look, HoldInv, LooksOK
  <2>2. PICK phase \in {"looked", "checked"}, look \in {None, pool} :
          hook' = [hook EXCEPT ![h].phase = phase, ![h].look = look]
    <3>1. PICK prospective \in BOOLEAN :
            hook' = [hook EXCEPT ![h].phase = IF bound = "current" THEN "looked" ELSE "checked",
                                 ![h].look = IF bound = "current" /\ prospective THEN pool ELSE None]
      BY <1>3 DEF Look
    <3> QED
      BY <3>1
  <2>3. PICK new : new = [hook[h] EXCEPT !.phase = phase, !.look = look]
    OBVIOUS
  <2>4. /\ new \in HookForm /\ new.phase = phase /\ new.at = hook[h].at /\ new.look = look
        /\ new.missed = hook[h].missed /\ new.notes = hook[h].notes
    BY <1>1, <2>3 DEF HookForm
  <2>5. hook' = [hook EXCEPT ![h] = new]
    BY <1>1, <2>2, <2>3
  <2> QED
    BY <1>1, <2>1, <2>4, <2>5, HookGoesOn DEF Runs
<1>4. CASE Check(h)
  <2>1. hook[h].phase = "looked" /\ UNCHANGED <<clock, turn, records>>
    BY <1>4 DEF Check
  <2>2. PICK notes \in SUBSET Purpose :
          /\ "quiet" \in notes => hook[h].look # None
          /\ hook' = [hook EXCEPT ![h].phase = "checked", ![h].notes = notes]
    BY <1>4 DEF Check
  <2>3. PICK new : new = [hook[h] EXCEPT !.phase = "checked", !.notes = notes]
    OBVIOUS
  <2>4. /\ new \in HookForm /\ new.phase = "checked" /\ new.at = hook[h].at /\ new.look = hook[h].look
        /\ new.missed = hook[h].missed /\ new.notes = notes
    BY <1>1, <2>3 DEF HookForm
  <2>5. hook' = [hook EXCEPT ![h] = new]
    BY <1>1, <2>2, <2>3
  <2>6. /\ hook[h].look # None /\ hook[h].missed => WentOn(hook[h].look, pool)
        /\ hook[h].look # None /\ ~hook[h].missed => hook[h].look = pool
    BY <2>1 DEF HoldInv, LooksOK
  <2>7. /\ new.look # None /\ new.missed => WentOn(new.look, pool)
        /\ new.look # None /\ ~new.missed => new.look = pool
        /\ "quiet" \in new.notes => new.look # None
    BY <2>2, <2>4, <2>6
  <2>8. Runs(h) /\ clock' = clock /\ turn' \in Nat /\ hook[h].phase # "done" /\ UNCHANGED records
    BY <1>1, <2>1 DEF Runs
  <2> QED
    BY <2>4, <2>5, <2>7, <2>8, HookGoesOn
<1> QED
  BY <1>2, <1>3, <1>4

\* What hooks pool is an event.
LEMMA EventForms ==
  ASSUME FormsOK, NEW h \in Hooks, NEW kind \in Kind, NEW end \in EndForm
  PROVE  /\ Event(kind, h, end) \in EventForm /\ Event(kind, h, end).kind = kind
         /\ Event(kind, h, end).end = end /\ NoEnd \in EndForm
  BY HookForms DEF Event, EventForm, EndForm, NoEnd

\* A child stays one, and a Stop's decision lets none wait that it saw.
LEMMA ChildForms ==
  ASSUME FormsOK, SlotOK, NEW h \in Hooks, NEW activity \in SlotForm
  PROVE  /\ ChildAfterStop(h, activity) \in ChildForm
         /\ ChildAfterStop(h, activity).waiting => child.waiting /\ ChildAfterStop(h, activity).here
         /\ set # "unreadable" /\ provider = "claude" /\ child.last <= hook[h].at /\ ~hook[h].lists
              => ~ChildAfterStop(h, activity).waiting
<1>1. PICK order : order = IF provider = "codex" THEN activity.at ELSE hook[h].at
  OBVIOUS
<1>2. PICK cleared : cleared = IF provider = "codex" /\ order > child.cleared THEN order ELSE child.cleared
  OBVIOUS
<1>3. order \in Nat /\ cleared \in Nat /\ child \in ChildForm /\ None \in Hooks \cup {None}
  BY <1>1, <1>2, HookForms DEF FormsOK, SlotForm, ChildForm
<1>4. /\ NoChild(cleared) \in ChildForm /\ ~NoChild(cleared).waiting
      /\ [child EXCEPT !.cleared = cleared] \in ChildForm
      /\ [child EXCEPT !.cleared = cleared].waiting = child.waiting
      /\ [child EXCEPT !.cleared = cleared].here = child.here
  BY <1>3 DEF NoChild, ChildForm
<1>5. ChildAfterStop(h, activity) =
        IF set = "unreadable" THEN child
        ELSE IF child.last <= order /\ ~hook[h].lists THEN NoChild(cleared)
        ELSE [child EXCEPT !.cleared = cleared]
  BY <1>1, <1>2 DEF ChildAfterStop
<1>6. child.waiting => child.here
  BY DEF SlotOK
<1>7. provider = "claude" => order = hook[h].at
  BY <1>1
<1> QED
  BY <1>3, <1>4, <1>5, <1>6, <1>7

\* The decision of a Stop.
LEMMA DecideStep ==
  ASSUME HoldInv, NEW h \in Hooks, Decide(h)
  PROVE  HoldInv'
<1>1. /\ FormsOK /\ StampsOK /\ PoolOK /\ SlotOK /\ LooksOK /\ hook[h] \in HookForm /\ slot \in SlotForm
      /\ child \in ChildForm /\ None \notin Hooks /\ latest \in Nat
  BY HookForms DEF HoldInv, RecordsInv, FormsOK
<1>2. hook[h].phase = "checked" /\ UNCHANGED <<provider, clock, turn, bound, set, latest>>
  BY <1>1 DEF Decide, records
<1>3. CASE bound = "away" \/ IsRepeat(h)
  <2>1. hook' = [hook EXCEPT ![h] = Done] /\ UNCHANGED <<child, slot, pool, latest>>
    BY <1>3 DEF Decide, records
  <2>2. hook' = Missing(h)
    BY <1>1, <2>1, DoneMissesNothing
  <2>3. PICK e : e = Event("tool", h, NoEnd)
    OBVIOUS
  <2>4. e \in EventForm /\ e.kind = "tool" /\ e.end = NoEnd
    <3>1. NoEnd \in EndForm
      BY DEF NoEnd, EndForm
    <3> QED
      BY <1>1, <2>3, <3>1, EventForms DEF Kind
  <2>5. Commits(h, "notify", {}, e)
    BY <1>1, <1>2, <2>1, <2>2 DEF Commits, Runs, SlotOK
  <2>6. RecordsInv' /\ LooksOK' /\ QuietSawEveryEvent' /\ SlotTellsTheEnd'
    BY <2>4, <2>5, CommitStep DEF HoldInv, QuietEnd, Purpose
  <2>7. NotesHideNoAsk'
    BY <2>1 DEF HoldInv, NotesHideNoAsk
  <2> QED
    BY <2>6, <2>7 DEF HoldInv
<1>4. CASE ~(bound = "away" \/ IsRepeat(h))
  <2>1. PICK end : end = [by |-> h, recorded |-> ~Superseded(h), notes |-> Kept(h), missed |-> hook[h].missed]
    OBVIOUS
  <2>2. /\ slot' = IF Superseded(h) THEN slot ELSE Takes(h, "stop", Kept(h))
        /\ child' = IF Superseded(h) THEN child ELSE ChildAfterStop(h, slot')
        /\ pool' = PoolWith(Event("stop", h, end))
        /\ hook' = Missing(h)
    BY <1>4, <2>1 DEF Decide, Base
  <2>3. Kept(h) \subseteq Purpose /\ Kept(h) \subseteq hook[h].notes
    BY <1>1 DEF Kept, HookForm
  <2>4. end \in EndForm /\ end.by = h /\ end.notes = Kept(h) /\ end.missed = hook[h].missed
    BY <1>1, <2>1, <2>3 DEF EndForm, HookForm, Superseded
  <2>5. PICK e : e = Event("stop", h, end)
    OBVIOUS
  <2>6. e \in EventForm /\ e.kind = "stop" /\ e.end = end
    BY <1>1, <2>4, <2>5, EventForms DEF Kind
  <2>7. e.end # NoEnd
    BY <1>1, <2>4, <2>6 DEF NoEnd
  <2>8. QuietEnd(e) => ~e.end.missed
    <3>1. SUFFICES ASSUME "quiet" \in Kept(h), hook[h].missed
                   PROVE  FALSE
      BY <2>4, <2>6 DEF QuietEnd
    <3>2. hook[h].look = pool /\ "quiet" \in hook[h].notes
      BY <3>1 DEF Kept
    <3>3. WentOn(hook[h].look, pool)
      BY <1>1, <1>2, <3>1, <3>2 DEF LooksOK
    <3> QED
      BY <3>2, <3>3 DEF WentOn
  <2>9. slot' \in SlotForm
    BY <1>1, <2>2, <2>3, TakesForms
  <2>10. child' \in ChildForm /\ (child'.waiting => child'.here /\ child.waiting)
    BY <1>1, <2>2, <2>9, ChildForms DEF SlotOK
  <2>11. Commits(h, "stop", Kept(h), e)
    BY <1>1, <1>2, <2>2, <2>5, <2>10 DEF Commits, Runs
  <2>12. RecordsInv' /\ LooksOK' /\ QuietSawEveryEvent' /\ SlotTellsTheEnd'
    BY <2>3, <2>4, <2>6, <2>7, <2>8, <2>11, CommitStep DEF HoldInv
  <2>13. NotesHideNoAsk'
    <3>1. CASE Superseded(h)
      BY <2>2, <3>1 DEF HoldInv, NotesHideNoAsk
    <3>2. CASE ~Superseded(h) /\ Kept(h) = {}
      <4>1. /\ slot.at <= hook[h].at /\ slot.at # hook[h].at /\ slot.at \in Nat /\ hook[h].at \in Nat
        BY <1>1, <1>2, <3>2 DEF Superseded, StampsOK, Runs, SlotForm, HookForm
      <4>2. slot'.notes = {}
        BY <1>1, <2>2, <2>3, <3>2, <4>1, TakesForms
      <4> QED
        BY <4>2 DEF NotesHideNoAsk
    <3>3. CASE ~Superseded(h) /\ Kept(h) # {}
      <4>1. set = "sound" /\ ~WaitsThrough(h) /\ bound # "ended"
        BY <3>3 DEF Kept, Superseded
      <4>2. child.waiting => provider = "claude" /\ ~(child.last > hook[h].at) /\ ~hook[h].lists
        BY <4>1 DEF WaitsThrough, ChildWaits
      <4>3. ~child'.waiting
        <5>1. child' = ChildAfterStop(h, slot')
          BY <2>2, <3>3
        <5>2. child.last \in Nat /\ hook[h].at \in Nat
          BY <1>1 DEF ChildForm, HookForm
        <5> QED
          BY <1>1, <2>9, <2>10, <4>1, <4>2, <5>1, <5>2, ChildForms
      <4> QED
        BY <4>3 DEF NotesHideNoAsk
    <3> QED
      BY <3>1, <3>2, <3>3
  <2> QED
    BY <2>12, <2>13 DEF HoldInv
<1> QED
  BY <1>3, <1>4

\* The lead's other hooks, and a child's request.
LEMMA OthersStep ==
  ASSUME HoldInv, NEW h \in Hooks, Work(h) \/ Ask(h)
  PROVE  HoldInv'
<1>1. /\ FormsOK /\ StampsOK /\ PoolOK /\ SlotOK /\ LooksOK /\ hook[h] \in HookForm /\ slot \in SlotForm
      /\ child \in ChildForm /\ None \notin Hooks /\ latest \in Nat /\ pool \subseteq EventForm
      /\ hook[h].at \in Nat /\ {} \in SUBSET Purpose
  BY HookForms DEF HoldInv, RecordsInv, FormsOK
<1>2. hook[h].phase = "begun" /\ UNCHANGED <<provider, clock, turn, bound, set>> /\ Runs(h)
  BY DEF Work, Ask, Runs
<1>3. ASSUME NEW word \in {"thinking", "notify"}, NEW kind \in {"prompt", "tool"},
             Commits(h, word, {}, Event(kind, h, NoEnd)), NotesHideNoAsk'
      PROVE  HoldInv'
  <2>1. NoEnd \in EndForm
    BY DEF NoEnd, EndForm
  <2>2. PICK e : e = Event(kind, h, NoEnd)
    OBVIOUS
  <2>3. e \in EventForm /\ e.kind = kind /\ e.end = NoEnd
    BY <1>1, <2>1, <2>2, EventForms DEF Kind
  <2>4. RecordsInv' /\ LooksOK' /\ QuietSawEveryEvent' /\ SlotTellsTheEnd'
    BY <1>1, <1>3, <2>2, <2>3, CommitStep DEF HoldInv, QuietEnd
  <2> QED
    BY <1>3, <2>4 DEF HoldInv
<1>4. CASE bound = "away"
  <2>1. hook' = [hook EXCEPT ![h] = Done] /\ UNCHANGED <<child, slot, pool, latest>>
    BY <1>4 DEF Work, Ask, records
  <2>2. hook' = Missing(h)
    BY <1>1, <2>1, DoneMissesNothing
  <2>3. Commits(h, "notify", {}, Event("tool", h, NoEnd))
    BY <1>1, <1>2, <2>1, <2>2 DEF Commits, SlotOK
  <2>4. NotesHideNoAsk'
    BY <2>1 DEF HoldInv, NotesHideNoAsk
  <2> QED
    BY <1>3, <2>3, <2>4
<1>5. CASE Work(h) /\ bound # "away"
  <2>1. PICK kind \in {"prompt", "tool"} : kind = hook[h].kind
    BY <1>5 DEF Work
  <2>2. /\ slot' = slot \/ slot' = Takes(h, "thinking", {})
        /\ pool' = PoolWith(Event(kind, h, NoEnd))
        /\ latest' \in {latest, hook[h].at} /\ hook' = Missing(h) /\ child' = child
    BY <1>5, <2>1 DEF Work
  <2>3. Commits(h, "thinking", {}, Event(kind, h, NoEnd))
    BY <1>1, <1>2, <2>2 DEF Commits, SlotOK
  <2>4. NotesHideNoAsk'
    <3>1. slot' = slot \/ slot'.notes = {}
      BY <1>1, <2>2, TakesForms
    <3> QED
      BY <2>2, <3>1 DEF HoldInv, NotesHideNoAsk
  <2> QED
    BY <1>3, <2>3, <2>4
<1>6. CASE Ask(h) /\ bound # "away"
  <2>1. /\ slot' = Takes(h, "notify", {}) /\ hook' = [hook EXCEPT ![h] = Done]
        /\ UNCHANGED <<pool, latest>>
        /\ \/ child' = child
           \/ child' = [child EXCEPT !.here = TRUE, !.waiting = TRUE, !.last = hook[h].at, !.under = slot.by]
    BY <1>6 DEF Ask
  <2>2. hook' = Missing(h)
    BY <1>1, <2>1, DoneMissesNothing
  <2>3. /\ child' \in ChildForm /\ (child'.waiting => child'.here)
        /\ child' = child \/ (child'.last = hook[h].at /\ child'.under = slot.by)
    BY <1>1, <2>1 DEF ChildForm, SlotForm, SlotOK
  <2>4. Commits(h, "notify", {}, Event("tool", h, NoEnd))
    BY <1>1, <1>2, <2>1, <2>2, <2>3 DEF Commits
  <2>5. NotesHideNoAsk'
    <3>1. /\ slot'.notes # {} => slot' = slot /\ hook[h].at <= slot.at
      BY <1>1, <2>1, TakesForms
    <3>2. hook[h].at # slot.at /\ slot.at \in Nat
      BY <1>1, <1>2 DEF StampsOK, SlotForm
    <3> QED
      BY <1>1, <2>3, <3>1, <3>2 DEF HoldInv, NotesHideNoAsk
  <2> QED
    BY <1>3, <2>4, <2>5
<1> QED
  BY <1>4, <1>5, <1>6

\* Every step keeps what the decisions rest on.
LEMMA HoldStep == HoldInv /\ [HoldNext]_holdVars => HoldInv'
<1> SUFFICES ASSUME HoldInv, [HoldNext]_holdVars
             PROVE  HoldInv'
  OBVIOUS
<1>1. ASSUME NEW h \in Hooks, HookBegins(h) \/ Look(h) \/ Check(h)
      PROVE  HoldInv'
  BY <1>1, BeginsAndChecks
<1>2. ASSUME NEW h \in Hooks, Decide(h)
      PROVE  HoldInv'
  BY <1>2, DecideStep
<1>3. ASSUME NEW h \in Hooks, Work(h) \/ Ask(h)
      PROVE  HoldInv'
  BY <1>3, OthersStep
<1> USE DEF HoldInv, RecordsInv, FormsOK, StampsOK, Runs, PoolOK, SlotOK, LooksOK, WentOn,
NotesHideNoAsk,
            SlotTellsTheEnd, QuietSawEveryEvent, QuietEnd
<1>4. CASE Unsettles
  BY <1>4 DEF Unsettles
<1>5. CASE ChildStep
  <2>1. /\ UNCHANGED <<turn, slot, pool, latest, hook>> /\ clock' = clock + 1 /\ clock \in Nat
        /\ ~child'.waiting /\ child' \in ChildForm /\ slot.at \in Nat
    <3>1. /\ UNCHANGED <<turn, slot, pool, latest, hook>> /\ clock' = clock + 1 /\ clock \in Nat
          /\ child \in ChildForm /\ slot.at \in Nat
      BY <1>5 DEF ChildStep, SlotForm
    <3>2. CASE child' = [child EXCEPT !.waiting = FALSE, !.last = clock', !.under = None]
      <4>1. clock' \in Nat /\ None \in Hooks \cup {None}
        BY <3>1
      <4>2. child' \in ChildForm /\ child'.waiting = FALSE
        BY <3>1, <3>2, <4>1 DEF ChildForm
      <4> QED
        BY <3>1, <4>2
    <3>3. CASE child' = NoChild(child.cleared)
      BY <3>1, <3>3 DEF ChildForm, NoChild
    <3> QED
      BY <1>5, <3>1, <3>2, <3>3 DEF ChildStep
  <2>2. StampsOK'
    BY <2>1
  <2> QED
    BY <2>1, <2>2
<1>6. CASE UNCHANGED holdVars
  BY <1>6 DEF holdVars, records
<1> QED
  BY <1>1, <1>2, <1>3, <1>4, <1>5, <1>6 DEF HoldNext

\* The first records.
LEMMA FirstRecords == HoldInit => HoldInv
<1> SUFFICES ASSUME HoldInit
             PROVE  HoldInv
  OBVIOUS
<1>1. \A h \in Hooks : hook[h] = Idle
  BY DEF HoldInit
<1>2. FormsOK
  BY DEF HoldInit, FormsOK, SlotForm, ChildForm, EventForm, EndForm, HookForm, NoEnd, Idle, Kind
<1>3. StampsOK /\ LooksOK
  BY <1>1 DEF HoldInit, StampsOK, LooksOK, Runs, Idle
<1>4. PoolOK /\ SlotOK
  BY DEF HoldInit, PoolOK, SlotOK, NoEnd
<1>5. NotesHideNoAsk /\ SlotTellsTheEnd /\ QuietSawEveryEvent
  BY DEF HoldInit, NotesHideNoAsk, SlotTellsTheEnd, QuietSawEveryEvent, QuietEnd
<1> QED
  BY <1>2, <1>3, <1>4, <1>5 DEF HoldInv, RecordsInv

\* What the invariant says of types.
LEMMA HoldTypes == HoldInv => NotesAreTrue
  BY DEF HoldInv, RecordsInv, FormsOK, PoolOK, SlotOK, SlotForm, HookForm, NotesAreTrue, HoldTypeOK

\* The notes the tab shows are those of the stored end, and hide no child that asks.
THEOREM DecidedNotesAreTrue == HoldSpec => []NotesAreTrue
  BY FirstRecords, HoldStep, HoldTypes, PTL DEF HoldSpec

\* A quiet end's checks were shown every event the pool held when it was decided.
THEOREM QuietEndsSawAll == HoldSpec => []QuietSawEveryEvent
<1>1. HoldInv => QuietSawEveryEvent
  BY DEF HoldInv
<1> QED
  BY <1>1, FirstRecords, HoldStep, PTL DEF HoldSpec

\* An end nothing followed stays in the pool.
LEMMA EndsStay ==
  ASSUME HoldInv, [HoldNext]_holdVars, NEW e \in pool, e.kind = "stop", ~NewerSeen(e.at)
  PROVE  e \in pool'
<1>1. FormsOK /\ pool \subseteq EventForm /\ e \in EventForm
  BY DEF HoldInv, RecordsInv, FormsOK
<1>2. ASSUME NEW h \in Hooks, NEW o \in EventForm, pool' = PoolWith(o), e \notin pool'
      PROVE  e.turn = o.turn /\ o.kind = "stop"
  BY <1>1, <1>2, PoolForms
<1>3. ASSUME NEW h \in Hooks, Decide(h)
      PROVE  e \in pool'
  <2>1. CASE bound = "away" \/ IsRepeat(h)
    BY <1>3, <2>1 DEF Decide, records
  <2>2. CASE ~(bound = "away" \/ IsRepeat(h))
    <3>1. PICK end : /\ end = [by |-> h, recorded |-> ~Superseded(h), notes |-> Kept(h), missed |-> hook[h].missed]
                     /\ pool' = PoolWith(Event("stop", h, end))
      BY <1>3, <2>2 DEF Decide
    <3>2. end \in EndForm
      <4>1. Kept(h) \subseteq Purpose /\ hook[h].missed \in BOOLEAN
        BY <1>1, HookForms DEF Kept
      <4> QED
        BY <3>1, <4>1 DEF EndForm, Superseded
    <3>3. PICK o : o = Event("stop", h, end)
      OBVIOUS
    <3>4. o \in EventForm /\ o.turn = hook[h].turn
      BY <1>1, <3>2, <3>3, EventForms DEF Kind, Event
    <3>5. CASE e \notin pool'
      <4>1. e.turn = hook[h].turn
        BY <1>2, <3>1, <3>3, <3>4, <3>5
      <4>2. Repeats(e, hook[h].at)
        BY DEF NewerSeen, Repeats
      <4> QED
        BY <2>2, <4>1, <4>2 DEF IsRepeat
    <3> QED
      BY <3>5
  <2> QED
    BY <2>1, <2>2
<1>4. ASSUME NEW h \in Hooks, Work(h)
      PROVE  e \in pool'
  <2>1. CASE bound = "away"
    BY <1>4, <2>1 DEF Work, records
  <2>2. CASE bound # "away"
    <3>1. PICK kind \in {"prompt", "tool"} : pool' = PoolWith(Event(kind, h, NoEnd))
      BY <1>4, <2>2 DEF Work
    <3>2. NoEnd \in EndForm
      BY DEF NoEnd, EndForm
    <3>3. Event(kind, h, NoEnd) \in EventForm /\ Event(kind, h, NoEnd).kind = kind
      BY <1>1, <3>2, EventForms DEF Kind
    <3> QED
      BY <1>2, <3>1, <3>3
  <2> QED
    BY <2>1, <2>2
<1>5. ASSUME NEW h \in Hooks, HookBegins(h) \/ Look(h) \/ Check(h) \/ Ask(h)
      PROVE  e \in pool'
  BY <1>5 DEF HookBegins, Look, Check, Ask, records
<1>6. CASE Unsettles \/ ChildStep \/ UNCHANGED holdVars
  BY <1>6 DEF Unsettles, ChildStep, holdVars, records
<1> QED
  BY <1>3, <1>4, <1>5, <1>6 DEF HoldNext

\* The end of a turn stands against a second delivery of it.
THEOREM DecisionsStand == HoldSpec => DecisionStands
<1>1. HoldInv /\ [HoldNext]_holdVars =>
        [\A e \in pool : e.kind = "stop" /\ ~NewerSeen(e.at) => e \in pool']_holdVars
  BY EndsStay
<1> QED
  BY <1>1, FirstRecords, HoldStep, PTL DEF HoldSpec, DecisionStands
=============================================================================
