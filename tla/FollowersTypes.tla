---------------------------- MODULE FollowersTypes ----------------------------
(***************************************************************************)
(* The type invariant of Followers: its bound on the versions, by counting *)
(* the writes.  And planSync (syncplanner.hpp), the other way to bring two *)
(* version maps together: it reconciles any two of them.                   *)
(***************************************************************************)
EXTENDS FollowersProofs, SyncPlanner, FiniteSetTheorems

-----------------------------------------------------------------------------
(* The versions: one for every write that has listed the clients.          *)

\* The writes in a queue of tasks.
WritesIn(s) == {i \in 1 .. Len(s) : s[i].op \in WriteOps}

\* The workers that are about to list the clients for a write.
Listing == {w \in Workers : job[w].at = "list"}

\* The writes that have listed the clients.
Used == MaxWrites - left.writes - Cardinality(WritesIn(tasks)) - Cardinality(Listing)

\* No version anywhere exceeds n.
Within(n) ==
  /\ version <= n /\ stored <= n /\ follower.view <= n
  /\ \A i \in 1 .. Len(tasks) : tasks[i].ver <= n
  /\ \A w \in Workers : job[w].ver <= n
  /\ \A c \in Conns : \A i \in 1 .. Len(session[c].out) : session[c].out[i].ver <= n

\* Every write that has listed the clients raises the versions by at most one.
Bounded == IsFiniteSet(Listing) /\ Used >= 0 /\ Within(Used)

\* The writes in the queue can be counted.
LEMMA WritesInFinite ==
  ASSUME NEW s \in Seq(TaskType)
  PROVE  IsFiniteSet(WritesIn(s)) /\ Cardinality(WritesIn(s)) \in Nat
<1>1. IsFiniteSet(1 .. Len(s))
  BY FS_Interval
<1>2. WritesIn(s) \in SUBSET (1 .. Len(s))
  BY Zenon DEF WritesIn
<1> QED
  BY Zenon, <1>1, <1>2, FS_Subset, FS_CardinalityType

\* The writes that have listed the clients are a number up to MaxWrites.
LEMMA UsedInt ==
  ASSUME Shape, IsFiniteSet(Listing)
  PROVE  /\ Used \in Int /\ Used <= MaxWrites /\ left.writes \in Nat
         /\ Cardinality(WritesIn(tasks)) \in Nat /\ Cardinality(Listing) \in Nat
<1>1. Cardinality(WritesIn(tasks)) \in Nat /\ Cardinality(Listing) \in Nat
  BY Zenon, WritesInFinite, FS_CardinalityType DEF Shape, Typed
<1>2. left.writes \in Nat /\ MaxWrites \in Nat
  BY FollowersAssumption DEF Shape, Typed, LeftType
<1> QED
  BY <1>1, <1>2 DEF Used

\* What the frames of connection d become, with versions up to n.
FlowsWithin(d, n) ==
  LET o == session[d].out
      p == session'[d].out
  IN \/ p = o
     \/ p = <<>>
     \/ \E f \in FrameType : f.ver <= n /\ p = Append(o, f)
     \/ o # <<>> /\ p = Tail(o)

\* Initially no write has been used.
LEMMA InitBounded ==
  ASSUME Init
  PROVE  Bounded
<1>1. Shape
  BY Zenon, InitShape
<1>2. PICK s \in Scenarios : left = [writes |-> s.writes, conns |-> s.conns, faults |-> s.faults]
  BY Zenon DEF Init
<1>3. s.writes \in 0 .. MaxWrites /\ MaxWrites \in Nat
  BY Zenon, <1>2, FollowersAssumption
<1>4. Listing = {}
  BY Zenon DEF Init, Listing, Idle
<1>5. WritesIn(tasks) = {}
  BY DEF Init, WritesIn
<1>6. IsFiniteSet(Listing) /\ Cardinality(Listing) = 0 /\ Cardinality(WritesIn(tasks)) = 0
  BY Zenon, <1>4, <1>5, FS_EmptySet
<1>7. Used \in Nat
  BY <1>2, <1>3, <1>6 DEF Used
<1>8. Within(Used)
  <2>1. version <= Used /\ stored <= Used /\ follower.view <= Used
    BY <1>7 DEF Init, Absent
  <2>2. \A i \in 1 .. Len(tasks) : tasks[i].ver <= Used
    BY DEF Init
  <2>3. \A w \in Workers : job[w].ver <= Used
    <3>1. \A w \in Workers : job[w].ver = Absent
      BY Zenon DEF Init, Idle
    <3>2. Absent <= Used
      BY <1>7 DEF Absent
    <3> QED
      BY Zenon, <3>1, <3>2
  <2>4. \A c \in Conns : \A i \in 1 .. Len(session[c].out) : session[c].out[i].ver <= Used
    BY DEF Init, NewSession
  <2> QED
    BY Zenon, <2>1, <2>2, <2>3, <2>4 DEF Within
<1> QED
  BY <1>6, <1>7, <1>8 DEF Bounded

\* Every step keeps the versions within the number of writes used.
LEMMA BoundedStep ==
  Shape /\ Bounded /\ [Next]_vars => Bounded'
\* A write that is queued is one more.
<1>WritesInAppend.
    ASSUME NEW s \in Seq(TaskType), NEW t \in TaskType
    PROVE  Cardinality(WritesIn(Append(s, t))) = Cardinality(WritesIn(s)) + (IF t.op \in WriteOps THEN 1 ELSE 0)
  <2> USE <1>WritesInAppend
  <2> DEFINE r == Append(s, t)
  <2>1. Len(s) \in Nat /\ Appended(s, r, t) /\ r \in Seq(TaskType)
    BY AppendFacts
  <2> HIDE DEF r
  <2>2. WritesIn(r) = IF t.op \in WriteOps THEN WritesIn(s) \cup {Len(s) + 1} ELSE WritesIn(s)
    BY <2>1 DEF WritesIn, Appended
  <2>3. Len(s) + 1 \notin WritesIn(s)
    BY <2>1 DEF WritesIn
  <2>4. IsFiniteSet(WritesIn(s)) /\ Cardinality(WritesIn(s)) \in Nat
    BY Zenon, WritesInFinite
  <2>5. Cardinality(WritesIn(s) \cup {Len(s) + 1}) = Cardinality(WritesIn(s)) + 1
    BY Zenon, <2>3, <2>4, FS_AddElement
  <2>6. Cardinality(WritesIn(r)) = Cardinality(WritesIn(s)) + (IF t.op \in WriteOps THEN 1 ELSE 0)
    BY <2>2, <2>4, <2>5
  <2> QED
    BY Zenon, <2>6 DEF r
\* A write that is taken is one less.
<1>WritesInTail.
    ASSUME NEW s \in Seq(TaskType), s # <<>>
    PROVE  Cardinality(WritesIn(Tail(s))) = Cardinality(WritesIn(s)) - (IF s[1].op \in WriteOps THEN 1 ELSE 0)
  <2> USE <1>WritesInTail
  <2> DEFINE r == Tail(s)
             S == WritesIn(r)
             T == WritesIn(s) \ {1}
             f == [i \in S |-> i + 1]
  <2>1. r \in Seq(TaskType) /\ Len(s) \in Nat /\ Len(r) = Len(s) - 1 /\ \A i \in 1 .. Len(r) : r[i] = s[i + 1]
    BY TailFacts
  <2> HIDE DEF r
  <2>2. \A i \in S : i \in Int /\ i + 1 \in T
    BY <2>1 DEF WritesIn
  <2>3. \A k \in T : k - 1 \in S /\ k \in Int
    BY <2>1 DEF WritesIn
  <2> HIDE DEF S, T
  <2>4. f \in [S -> T] /\ IsInjective(f)
    BY <2>2 DEF IsInjective
  <2>5. \A k \in T : \E i \in S : f[i] = k
    <3> TAKE k \in T
    <3>1. k - 1 \in S /\ f[k - 1] = k
      BY <2>3
    <3> QED
      BY Zenon, <3>1
  <2>6. f \in Bijection(S, T)
    BY Zenon, <2>4, <2>5 DEF Bijection, Injection, Surjection
  <2>7. ExistsBijection(S, T)
    BY Zenon, <2>6 DEF ExistsBijection
  <2>8. IsFiniteSet(S)
    BY Zenon, <2>1, WritesInFinite DEF S
  <2>9. Cardinality(T) = Cardinality(S)
    BY Zenon, <2>7, <2>8, FS_Bijection
  <2>10. /\ IsFiniteSet(WritesIn(s)) /\ Cardinality(WritesIn(s)) \in Nat
         /\ Cardinality(T) = IF 1 \in WritesIn(s) THEN Cardinality(WritesIn(s)) - 1 ELSE Cardinality(WritesIn(s))
    BY Zenon, WritesInFinite, FS_RemoveElement DEF T
  <2>11. 1 \in WritesIn(s) <=> s[1].op \in WriteOps
    BY TailFacts DEF WritesIn
  <2> QED
    BY <2>9, <2>10, <2>11 DEF S, r
\* The types of all versions.
<1>VersInt.
    ASSUME Shape
    PROVE  /\ version \in Int /\ stored \in Int /\ follower.view \in Int
           /\ \A i \in 1 .. Len(tasks) : tasks[i].ver \in Int
           /\ \A w \in Workers : job[w].ver \in Int
           /\ \A c \in Conns : session[c].out \in Seq(FrameType)
           /\ \A c \in Conns : \A i \in 1 .. Len(session[c].out) : session[c].out[i].ver \in Int
  <2> USE <1>VersInt
  <2>1. VerType \subseteq Int
    BY DEF VerType, Absent
  <2>2. \A i \in 1 .. Len(tasks) : tasks[i] \in TaskType
    BY DEF Shape, Typed
  <2>3. \A c \in Conns : session[c].out \in Seq(FrameType)
    BY Zenon DEF Shape, Typed, SessionType
  <2>4. \A c \in Conns : \A i \in 1 .. Len(session[c].out) : session[c].out[i] \in FrameType
    BY <2>3
  <2> QED
    BY Zenon, <2>1, <2>2, <2>3, <2>4 DEF Shape, Typed, TaskType, JobType, FrameType, FollowerType
\* Frames with a version up to n keep the sessions within n.
<1>FramesWithin.
    ASSUME Shape, NEW n \in Int, Within(n), \A d \in Conns : FlowsWithin(d, n)
    PROVE  \A c \in Conns : \A i \in 1 .. Len(session'[c].out) : session'[c].out[i].ver <= n
  <2> USE <1>FramesWithin
  <2> SUFFICES ASSUME NEW d \in Conns, NEW i \in 1 .. Len(session'[d].out)
               PROVE  session'[d].out[i].ver <= n
    BY Zenon
  <2> DEFINE o == session[d].out
             p == session'[d].out
  <2>1. o \in Seq(FrameType) /\ \A k \in 1 .. Len(o) : o[k].ver <= n
    BY Zenon DEF Shape, Typed, SessionType, Within
  <2>2. \/ p = o
        \/ p = <<>>
        \/ \E f \in FrameType : f.ver <= n /\ p = Append(o, f)
        \/ o # <<>> /\ p = Tail(o)
    BY Zenon DEF FlowsWithin
  <2>3. i \in 1 .. Len(p)
    BY Zenon
  <2> HIDE DEF o, p
  <2>4. CASE \E f \in FrameType : f.ver <= n /\ p = Append(o, f)
    <3>1. PICK f \in FrameType : f.ver <= n /\ p = Append(o, f)
      BY Zenon, <2>4
    <3>2. Appended(o, p, f)
      BY Zenon, <2>1, <3>1, AppendFacts
    <3>3. p[i].ver <= n
      BY <2>1, <2>3, <3>1, <3>2 DEF Appended
    <3> QED
      BY Zenon, <3>3 DEF p
  <2>5. CASE o # <<>> /\ p = Tail(o)
    <3>1. Len(p) = Len(o) - 1 /\ Len(o) \in Nat /\ p[i] = o[i + 1]
      BY <2>1, <2>3, <2>5, TailFacts
    <3>2. p[i].ver <= n
      BY <2>1, <2>3, <3>1
    <3> QED
      BY Zenon, <3>2 DEF p
  <2>6. CASE p = o
    <3>1. p[i].ver <= n
      BY Zenon, <2>1, <2>3, <2>6
    <3> QED
      BY Zenon, <3>1 DEF p
  <2>7. CASE p = <<>>
    BY <2>3, <2>7
  <2> QED
    BY Zenon, <2>2, <2>4, <2>5, <2>6, <2>7
\* A step that neither adds a write nor lists the clients for one.
<1>BoundedRest.
    ASSUME Shape, Shape', Bounded, left'.writes = left.writes,
           version' <= Used, stored' <= Used, follower'.view <= Used,
           UNCHANGED tasks \/ \E t \in TaskType : tasks' = Append(tasks, t) /\ t.op \notin WriteOps /\ t.ver <= Used,
           \/ UNCHANGED job
           \/ \E w \in Workers : Only(w) /\ job[w].at # "list" /\ job'[w].at # "list" /\ job'[w].ver <= Used,
           \A d \in Conns : FlowsWithin(d, Used)
    PROVE  Bounded'
  <2> USE <1>BoundedRest
  <2>1. Listing' = Listing
    BY Zenon DEF Listing, Only
  <2>2. tasks \in Seq(TaskType) /\ Used \in Int /\ Cardinality(WritesIn(tasks)) \in Nat
    BY Zenon, UsedInt DEF Shape, Typed, Bounded
  <2>3. /\ Cardinality(WritesIn(tasks')) = Cardinality(WritesIn(tasks))
        /\ \A i \in 1 .. Len(tasks') : tasks'[i].ver <= Used
    <3>1. CASE UNCHANGED tasks
      BY Zenon, <3>1 DEF Bounded, Within
    <3>2. CASE \E t \in TaskType : tasks' = Append(tasks, t) /\ t.op \notin WriteOps /\ t.ver <= Used
      <4>1. PICK t \in TaskType : tasks' = Append(tasks, t) /\ t.op \notin WriteOps /\ t.ver <= Used
        BY Zenon, <3>2
      <4>2. Appended(tasks, tasks', t) /\ Len(tasks) \in Nat
        BY <2>2, <4>1, AppendFacts
      <4>3. \A i \in 1 .. Len(tasks') : tasks'[i].ver <= Used
        BY <4>1, <4>2 DEF Appended, Bounded, Within
      <4> QED
        BY <2>2, <4>1, <4>3, <1>WritesInAppend
    <3> QED
      BY Zenon, <3>1, <3>2
  <2>4. \A w \in Workers : job'[w].ver <= Used
    BY Zenon DEF Only, Bounded, Within
  <2>5. \A c \in Conns : \A i \in 1 .. Len(session'[c].out) : session'[c].out[i].ver <= Used
    BY Zenon, <2>2, <1>FramesWithin DEF Bounded
  <2>6. Used' = Used
    BY Zenon, <2>1, <2>3 DEF Used
  <2>7. Within(Used)'
    BY Zenon, <2>3, <2>4, <2>5, <2>6 DEF Within
  <2> QED
    BY Zenon, <2>1, <2>6, <2>7 DEF Bounded
\* The sessions stay within n if nothing is posted ...
<1>SameWithin.
    ASSUME UNCHANGED session, NEW n
    PROVE  \A d \in Conns : FlowsWithin(d, n)
  BY Zenon, <1>SameWithin DEF FlowsWithin
\* ... if a version up to n is posted ...
<1>PostedWithin.
    ASSUME NEW c \in Conns, NEW f \in FrameType, Posted(c, f), NEW n \in Int, f.ver <= n
    PROVE  \A d \in Conns : FlowsWithin(d, n)
  BY Zenon, <1>PostedWithin DEF FlowsWithin, Posted
\* ... or sent.
<1>SentWithin.
    ASSUME Typed, NEW c \in Conns, NEW f \in FrameType, Sent(c, f), NEW n \in Int, f.ver <= n
    PROVE  \A d \in Conns : FlowsWithin(d, n)
  <2> USE <1>SentWithin
  <2>1. /\ \A d \in Conns \ {c} : session'[d] = session[d]
        /\ session'[c].out = session[c].out \/ session'[c].out = Append(session[c].out, f)
    BY Zenon, SentFacts
  <2> QED
    BY Zenon, <2>1 DEF FlowsWithin
\* A write that has listed the clients.
<1>WritesBounded.
    ASSUME Shape, Shape', Bounded, NEW w \in Workers,
           Fanout(w) \/ FanoutRejected(w) \/ Commit(w) \/ SendDelta(w)
             \/ PushToClient(w) \/ AnswerWriter(w) \/ Undo(w)
    PROVE  Bounded'
  <2> USE <1>WritesBounded
  <2>a. /\ Used \in Int /\ version <= Used /\ stored <= Used /\ follower.view <= Used /\ job[w].ver <= Used
        /\ Absent <= Used
    BY UsedInt DEF Bounded, Within, Absent
  <2>b. /\ Idle.at # "list" /\ Idle.ver <= Used
    BY Zenon, <2>a DEF Idle
  <2>c. ASSUME Fault
        PROVE  left'.writes = left.writes
    BY Zenon, <2>c DEF Fault, Shape, Typed, LeftType
  <2>d. ASSUME Only(w), job[w].at # "list",
               job'[w] = Idle \/ (job'[w].ver = job[w].ver /\ job'[w].at # "list")
        PROVE  \E v \in Workers : Only(v) /\ job[v].at # "list" /\ job'[v].at # "list" /\ job'[v].ver <= Used
    BY Zenon, <2>a, <2>b, <2>d
  <2>2. CASE Fanout(w)
    <3>1. /\ UNCHANGED <<version, tasks, session, follower, left>> /\ stored' <= Used
      BY Zenon, <2>a, <2>2 DEF Fanout
    <3>2. Only(w) /\ job[w].at # "list" /\ job'[w].at # "list" /\ job'[w].ver = job[w].ver
      BY Zenon, <2>2, FanoutMoves DEF Moved
    <3> QED
      BY Zenon, <2>a, <2>d, <3>1, <3>2, <1>SameWithin, <1>BoundedRest
  <2>3. CASE FanoutRejected(w)
    <3>1. /\ UNCHANGED <<version, session, follower>> /\ stored' <= Used /\ left'.writes = left.writes
      BY Zenon, <2>a, <2>c, <2>3 DEF FanoutRejected
    <3>2. Only(w) /\ job[w].at # "list" /\ job'[w].at # "list" /\ job'[w].ver = job[w].ver
      BY Zenon, <2>3, RejectMoves DEF Moved
    <3>3. UNCHANGED tasks \/ \E t \in TaskType : tasks' = Append(tasks, t) /\ t.op \notin WriteOps /\ t.ver <= Used
      <4>1. /\ Task("ROLLBACK", 0, Absent) \in TaskType /\ Task("ROLLBACK", 0, Absent).ver = Absent
            /\ Task("ROLLBACK", 0, Absent).op \notin WriteOps
        BY FollowersAssumption DEF Task, TaskType, Ops, VerType, WriteOps
      <4>2. UNCHANGED tasks \/ tasks' = Append(tasks, Task("ROLLBACK", 0, Absent))
        BY Zenon, <2>3 DEF FanoutRejected, Submit
      <4> QED
        BY Zenon, <2>a, <4>1, <4>2
    <3> QED
      BY Zenon, <2>a, <2>d, <3>1, <3>2, <3>3, <1>SameWithin, <1>BoundedRest
  <2>4. CASE Commit(w)
    <3>1. /\ UNCHANGED <<stored, tasks, session, follower, left>> /\ version' <= Used
      BY Zenon, <2>a, <2>4 DEF Commit
    <3>2. Only(w) /\ job[w].at # "list" /\ job'[w].at # "list" /\ job'[w].ver = job[w].ver
      BY Zenon, <2>4, CommitMoves DEF Moved
    <3> QED
      BY Zenon, <2>a, <2>d, <3>1, <3>2, <1>SameWithin, <1>BoundedRest
  <2>5. CASE SendDelta(w)
    <3>1. UNCHANGED <<version, stored, tasks, follower, left>>
      BY Zenon, <2>5 DEF SendDelta
    <3>2. Only(w) /\ job[w].at # "list" /\ job'[w].at # "list" /\ job'[w].ver = job[w].ver
      BY Zenon, <2>5, DeltaMoves DEF Moved
    <3>3. \A d \in Conns : FlowsWithin(d, Used)
      <4>1. CASE endpoint # 0 /\ session[endpoint].state = "alive"
        <5>1. endpoint \in Conns
          BY <4>1, FollowersAssumption DEF Conns, Shape, Typed
        <5>2. Frame("STATE_DELTA", job[w].ver).ver = job[w].ver
          BY Zenon DEF Frame
        <5> QED
          BY Zenon, <2>a, <2>5, <4>1, <5>1, <5>2, DeltaMoves, <1>PostedWithin
      <4>2. CASE ~(endpoint # 0 /\ session[endpoint].state = "alive")
        <5>1. UNCHANGED session
          BY Zenon, <2>5, <4>2 DEF SendDelta
        <5> QED
          BY Zenon, <5>1, <1>SameWithin
      <4> QED
        BY Zenon, <4>1, <4>2
    <3> QED
      BY Zenon, <2>a, <2>d, <3>1, <3>2, <3>3, <1>BoundedRest
  <2>6. CASE PushToClient(w)
    <3>1. UNCHANGED <<version, stored, tasks, follower, left>>
      BY Zenon, <2>6 DEF PushToClient
    <3>2. Only(w) /\ job[w].at # "list" /\ job'[w].at # "list" /\ job'[w].ver = job[w].ver
      BY Zenon, <2>6, PushMoves DEF Moved
    <3>3. \A d \in Conns : FlowsWithin(d, Used)
      <4>1. CASE job[w].list # 0
        <5>1. job[w].list \in Conns
          BY <4>1, FollowersAssumption DEF Conns, Shape, Typed, JobType
        <5>2. Frame("PUSH", job[w].ver).ver = job[w].ver
          BY Zenon DEF Frame
        <5> QED
          BY Zenon, <2>a, <2>6, <4>1, <5>1, <5>2, PushMoves, <1>PostedWithin
      <4>2. CASE job[w].list = 0
        <5>1. UNCHANGED session
          BY Zenon, <2>6, <4>2 DEF PushToClient
        <5> QED
          BY Zenon, <5>1, <1>SameWithin
      <4> QED
        BY Zenon, <4>1, <4>2
    <3> QED
      BY Zenon, <2>a, <2>d, <3>1, <3>2, <3>3, <1>BoundedRest
  <2>7. CASE AnswerWriter(w)
    <3>1. UNCHANGED <<version, stored, tasks, session, follower>> /\ left'.writes = left.writes
      BY Zenon, <2>c, <2>7 DEF AnswerWriter
    <3>2. Only(w) /\ job[w].at # "list" /\ (job'[w] = Idle \/ (job'[w].ver = job[w].ver /\ job'[w].at # "list"))
      BY Zenon, <2>7, AnswerMoves DEF Ends, Moved
    <3> QED
      BY Zenon, <2>a, <2>d, <3>1, <3>2, <1>SameWithin, <1>BoundedRest
  <2>8. CASE Undo(w)
    <3>1. UNCHANGED <<version, tasks, session, follower, left>> /\ stored' <= Used
      BY Zenon, <2>a, <2>8 DEF Undo
    <3>2. Only(w) /\ job[w].at # "list" /\ (job'[w] = Idle \/ (job'[w].ver = job[w].ver /\ job'[w].at # "list"))
      BY Zenon, <2>8, UndoMoves DEF Ends, Moved
    <3> QED
      BY Zenon, <2>a, <2>d, <3>1, <3>2, <1>SameWithin, <1>BoundedRest
  <2> QED
    BY Zenon, <2>2, <2>3, <2>4, <2>5, <2>6, <2>7, <2>8
\* A write lists the clients: its version is at most one higher than those given
\* out before, and it is one of the writes used from then on.
<1>ListBounded.
    ASSUME Shape, Shape', Bounded, NEW w \in Workers, ListClients(w)
    PROVE  Bounded'
  <2> USE <1>ListBounded
  <2>1. /\ job[w].at = "list" /\ job'[w].at = "fanout" /\ Only(w)
        /\ job'[w].ver \in {0, Absent, version + 1, job[w].ver + 1}
    BY Zenon, ListMoves DEF Moved
  <2>2. UNCHANGED <<version, stored, tasks, session, follower, left>>
    BY Zenon DEF ListClients
  <2>3. w \in Listing /\ Listing' = Listing \ {w}
    BY Zenon, <2>1 DEF Listing, Only
  <2>4. /\ IsFiniteSet(Listing') /\ Cardinality(Listing) \in Nat
        /\ Cardinality(Listing') = Cardinality(Listing) - 1
    BY Zenon, <2>3, FS_RemoveElement, FS_CardinalityType DEF Bounded
  <2>5. Used \in Int /\ left.writes \in Nat /\ Cardinality(WritesIn(tasks)) \in Nat
    BY Zenon, UsedInt DEF Bounded
  <2>6. Used' = Used + 1
    BY <2>2, <2>4, <2>5, FollowersAssumption DEF Used
  <2>7. Within(Used)'
    <3>1. version' <= Used + 1 /\ stored' <= Used + 1 /\ follower'.view <= Used + 1
      BY <2>2, <2>5, <1>VersInt DEF Bounded, Within
    <3>2. \A i \in 1 .. Len(tasks') : tasks'[i].ver <= Used + 1
      BY <2>2, <2>5, <1>VersInt DEF Bounded, Within
    <3>3. \A c \in Conns : \A i \in 1 .. Len(session'[c].out) : session'[c].out[i].ver <= Used + 1
      BY <2>2, <2>5, <1>VersInt DEF Bounded, Within
    <3>4. \A v \in Workers : job'[v].ver <= Used + 1
      <4>1. \A v \in Workers : job[v].ver \in Int /\ job[v].ver <= Used
        BY Zenon, <1>VersInt DEF Bounded, Within
      <4>2. job'[w].ver <= Used + 1
        <5>1. version \in Int /\ version <= Used /\ Used >= 0
          BY Zenon, <1>VersInt DEF Bounded, Within
        <5>2. job[w].ver \in Int /\ job[w].ver <= Used
          BY Zenon, <4>1
        <5> QED
          BY <2>1, <2>5, <5>1, <5>2 DEF Absent
      <4> QED
        BY <2>1, <2>5, <4>1, <4>2 DEF Only
    <3> QED
      BY Zenon, <2>5, <2>6, <3>1, <3>2, <3>3, <3>4 DEF Within
  <2> QED
    BY <2>4, <2>5, <2>6, <2>7 DEF Bounded
\* A worker takes a task.
<1>TakeBounded.
    ASSUME Shape, Shape', Bounded, NEW w \in Workers, TakeTask(w)
    PROVE  Bounded'
  <2> USE <1>TakeBounded
  <2>1. /\ tasks # <<>> /\ tasks' = Tail(tasks) /\ job[w].at = "idle" /\ Only(w)
        /\ job'[w].ver = tasks[1].ver /\ job'[w].at = FirstPoint(tasks[1].op)
    BY Zenon, TakeMoves DEF Moved
  <2>2. UNCHANGED <<version, stored, session, follower, left>>
    BY Zenon DEF TakeTask
  <2>3. tasks \in Seq(TaskType) /\ tasks' \in Seq(TaskType) /\ tasks[1] \in TaskType /\ Len(tasks) >= 1
        /\ Len(tasks) \in Nat /\ Len(tasks') = Len(tasks) - 1
        /\ \A i \in 1 .. Len(tasks') : tasks'[i] = tasks[i + 1]
    BY <2>1, TailFacts DEF Shape, Typed
  <2>4. (job'[w].at = "list") <=> (tasks[1].op \in WriteOps)
    BY Zenon, <2>1, <2>3 DEF FirstPoint, TaskType, Ops, WriteOps
  <2>5. w \notin Listing /\ Listing' = IF tasks[1].op \in WriteOps THEN Listing \cup {w} ELSE Listing
    BY Zenon, <2>1, <2>4 DEF Listing, Only
  <2>6. /\ IsFiniteSet(Listing') /\ Cardinality(Listing) \in Nat
        /\ Cardinality(Listing') = Cardinality(Listing) + (IF tasks[1].op \in WriteOps THEN 1 ELSE 0)
    <3>1. IsFiniteSet(Listing) /\ Cardinality(Listing) \in Nat
      BY Zenon, FS_CardinalityType DEF Bounded
    <3>2. IsFiniteSet(Listing \cup {w}) /\ Cardinality(Listing \cup {w}) = Cardinality(Listing) + 1
      BY Zenon, <2>5, <3>1, FS_AddElement
    <3> QED
      BY <2>5, <3>1, <3>2
  <2>7. Cardinality(WritesIn(tasks')) = Cardinality(WritesIn(tasks)) - (IF tasks[1].op \in WriteOps THEN 1 ELSE 0)
    BY Zenon, <2>1, <2>3, <1>WritesInTail
  <2>8. Used \in Int /\ left.writes \in Nat /\ Cardinality(WritesIn(tasks)) \in Nat
    BY Zenon, UsedInt DEF Bounded
  <2>9. Used' = Used
    BY <2>2, <2>6, <2>7, <2>8, FollowersAssumption DEF Used
  <2>10. \A i \in 1 .. Len(tasks') : tasks'[i].ver <= Used
    BY <2>3 DEF Bounded, Within
  <2>11. \A v \in Workers : job'[v].ver <= Used
    BY <2>1, <2>3 DEF Bounded, Within, Only
  <2>12. Within(Used)'
    BY Zenon, <2>2, <2>9, <2>10, <2>11 DEF Within, Bounded
  <2> QED
    BY Zenon, <2>6, <2>9, <2>12 DEF Bounded
\* Another client asks for a write.
<1>RequestBounded.
    ASSUME Shape, Shape', Bounded, NEW op \in WriteOps, Request(op)
    PROVE  Bounded'
  <2> USE <1>RequestBounded
  <2> DEFINE t == Task(op, 0, version)
  <2>1. /\ UNCHANGED <<version, stored, job, session, follower>> /\ tasks' = Append(tasks, t)
        /\ left'.writes = left.writes - 1
    BY Zenon DEF Request, Submit, Shape, Typed, LeftType
  <2>2. t \in TaskType /\ t.op = op /\ t.ver = version
    BY FollowersAssumption DEF Task, TaskType, Ops, Shape, Typed
  <2> HIDE DEF t
  <2>3. tasks \in Seq(TaskType) /\ Len(tasks) \in Nat /\ Appended(tasks, tasks', t)
    BY <2>1, <2>2, AppendFacts DEF Shape, Typed
  <2>4. Cardinality(WritesIn(tasks')) = Cardinality(WritesIn(tasks)) + 1
    BY Zenon, <2>1, <2>2, <2>3, <1>WritesInAppend
  <2>5. /\ Used \in Int /\ left.writes \in Nat /\ Cardinality(WritesIn(tasks)) \in Nat
        /\ Cardinality(Listing) \in Nat
    BY Zenon, UsedInt DEF Bounded
  <2>6. Listing' = Listing
    BY Zenon, <2>1 DEF Listing
  <2>7. Used' = Used
    <3>1. Used' = MaxWrites - left'.writes - Cardinality(WritesIn(tasks')) - Cardinality(Listing)
      BY Zenon, <2>6 DEF Used
    <3>2. Used = MaxWrites - left.writes - Cardinality(WritesIn(tasks)) - Cardinality(Listing)
      BY Zenon DEF Used
    <3>3. \A m, l, a, b \in Int : m - (l - 1) - (a + 1) - b = m - l - a - b
      OBVIOUS
    <3>4. MaxWrites \in Int /\ left.writes \in Int /\ Cardinality(WritesIn(tasks)) \in Int /\ Cardinality(Listing) \in Int
      BY <2>5, FollowersAssumption
    <3>5. Used' = MaxWrites - (left.writes - 1) - (Cardinality(WritesIn(tasks)) + 1) - Cardinality(Listing)
      BY Zenon, <2>1, <2>4, <3>1
    <3> QED
      BY <3>2, <3>3, <3>4, <3>5
  <2>8. \A i \in 1 .. Len(tasks') : tasks'[i].ver <= Used
    BY <2>2, <2>3 DEF Appended, Bounded, Within
  <2>9. Within(Used)'
    BY Zenon, <2>1, <2>7, <2>8 DEF Within, Bounded
  <2> QED
    BY Zenon, <2>6, <2>7, <2>9 DEF Bounded
\* The steps of the pool that concern the follower.
<1>ServeBounded.
    ASSUME Shape, Shape', Bounded, NEW w \in Workers,
           Handshake(w) \/ Register(w) \/ GetFileVersionMap(w) \/ BurstAndStart(w)
             \/ SendStateSnap(w) \/ AnswerSync(w) \/ AnswerClose(w) \/ CloseSession(w) \/ EraseClient(w)
    PROVE  Bounded'
  <2> USE <1>ServeBounded
  <2>a. /\ Used \in Int /\ version <= Used /\ stored <= Used /\ follower.view <= Used /\ job[w].ver <= Used
        /\ Absent <= Used
    BY UsedInt DEF Bounded, Within, Absent
  <2>b. /\ Idle.at # "list" /\ Idle.ver <= Used
    BY Zenon, <2>a DEF Idle
  <2>d. ASSUME Only(w), job[w].at # "list",
               job'[w] = Idle \/ (job'[w].ver <= Used /\ job'[w].at # "list")
        PROVE  \E v \in Workers : Only(v) /\ job[v].at # "list" /\ job'[v].at # "list" /\ job'[v].ver <= Used
    BY Zenon, <2>a, <2>b, <2>d
  <2>e. Typed
    BY Zenon DEF Shape
  <2>2. CASE Handshake(w)
    <3>1. UNCHANGED <<version, stored, tasks, left>>
      BY Zenon, <2>2 DEF Handshake
    <3>2. Only(w) /\ job[w].at # "list" /\ (job'[w] = Idle \/ (job'[w].ver <= Used /\ job'[w].at # "list"))
      BY Zenon, <2>2, <2>a, HandshakeMoves DEF Moved
    <3>3. follower'.view = follower.view
      BY Zenon, <2>2, HandshakeMoves
    <3>4. \A d \in Conns : FlowsWithin(d, Used)
      <4>1. CASE UNCHANGED session
        BY Zenon, <4>1, <1>SameWithin
      <4>2. CASE session' = [session EXCEPT ![job[w].c].state = "alive"]
        <5>1. job[w].c \in Conns
          BY Zenon, <2>2, HandshakeMoves
        <5>2. \A d \in Conns : session'[d].out = session[d].out
          BY Zenon, <2>e, <4>2, <5>1, StateFacts
        <5> QED
          BY Zenon, <5>2 DEF FlowsWithin
      <4> QED
        BY Zenon, <2>2, <4>1, <4>2, HandshakeMoves
    <3> QED
      BY Zenon, <2>a, <2>d, <3>1, <3>2, <3>3, <3>4, <1>BoundedRest
  <2>3. CASE Register(w)
    <3>1. UNCHANGED <<version, stored, tasks, session, follower, left>>
      BY Zenon, <2>3 DEF Register
    <3>2. Only(w) /\ job[w].at # "list" /\ (job'[w] = Idle \/ (job'[w].ver <= Used /\ job'[w].at # "list"))
      BY Zenon, <2>3, <2>a, RegisterMoves DEF Moved
    <3> QED
      BY Zenon, <2>a, <2>d, <3>1, <3>2, <1>SameWithin, <1>BoundedRest
  <2>4. CASE GetFileVersionMap(w)
    <3>1. UNCHANGED <<version, stored, tasks, session, follower, left>>
      BY Zenon, <2>4 DEF GetFileVersionMap
    <3>2. Only(w) /\ job[w].at # "list" /\ (job'[w] = Idle \/ (job'[w].ver <= Used /\ job'[w].at # "list"))
      BY Zenon, <2>4, <2>a, ReadMoves DEF Moved
    <3> QED
      BY Zenon, <2>a, <2>d, <3>1, <3>2, <1>SameWithin, <1>BoundedRest
  <2>5. CASE BurstAndStart(w)
    <3>1. UNCHANGED <<version, stored, tasks, follower, left>>
      BY Zenon, <2>5 DEF BurstAndStart
    <3>2. Only(w) /\ job[w].at # "list" /\ (job'[w] = Idle \/ (job'[w].ver <= Used /\ job'[w].at # "list"))
      BY Zenon, <2>5, <2>a, BurstMoves DEF Moved
    <3>3. Frame("PUSH", job[w].ver).ver <= Used
      BY Zenon, <2>a DEF Frame
    <3>4. \A d \in Conns : FlowsWithin(d, Used)
      BY Zenon, <2>5, <3>3, BurstMoves DEF FlowsWithin
    <3> QED
      BY Zenon, <2>a, <2>d, <3>1, <3>2, <3>4, <1>BoundedRest
  <2>6. CASE SendStateSnap(w)
    <3>1. UNCHANGED <<version, stored, tasks, follower, left>>
      BY Zenon, <2>6 DEF SendStateSnap
    <3>2. Only(w) /\ job[w].at # "list" /\ (job'[w] = Idle \/ (job'[w].ver <= Used /\ job'[w].at # "list"))
      BY Zenon, <2>6, <2>a, SnapMoves DEF Moved
    <3>3. Frame("STATE_SNAP", job[w].ver).ver <= Used
      BY Zenon, <2>a DEF Frame
    <3>4. \A d \in Conns : FlowsWithin(d, Used)
      BY Zenon, <2>a, <2>e, <2>6, <3>3, SnapMoves, <1>SentWithin
    <3> QED
      BY Zenon, <2>a, <2>d, <3>1, <3>2, <3>4, <1>BoundedRest
  <2>7. CASE AnswerSync(w)
    <3>1. UNCHANGED <<version, stored, tasks, follower, left>>
      BY Zenon, <2>7 DEF AnswerSync
    <3>2. Only(w) /\ job[w].at # "list" /\ (job'[w] = Idle \/ (job'[w].ver <= Used /\ job'[w].at # "list"))
      BY Zenon, <2>7, <2>a, SyncMoves DEF Ends, Moved
    <3>3. Frame("RESPONSE", job[w].ver).ver <= Used
      BY Zenon, <2>a DEF Frame
    <3>4. \A d \in Conns : FlowsWithin(d, Used)
      BY Zenon, <2>a, <2>e, <2>7, <3>3, SyncMoves, <1>SentWithin, <1>SameWithin
    <3> QED
      BY Zenon, <2>a, <2>d, <3>1, <3>2, <3>4, <1>BoundedRest
  <2>8. CASE AnswerClose(w)
    <3>1. UNCHANGED <<version, stored, tasks, session, follower, left>>
      BY Zenon, <2>8 DEF AnswerClose
    <3>2. Only(w) /\ job[w].at # "list" /\ (job'[w] = Idle \/ (job'[w].ver <= Used /\ job'[w].at # "list"))
      BY Zenon, <2>8, <2>a, CloseMoves DEF Moved
    <3> QED
      BY Zenon, <2>a, <2>d, <3>1, <3>2, <1>SameWithin, <1>BoundedRest
  <2>9. CASE CloseSession(w)
    <3>1. /\ UNCHANGED <<version, stored, follower, left>> /\ tasks' = Append(tasks, Task("ERASE", 0, Absent))
          /\ session' = [session EXCEPT ![job[w].c].state = "dead"]
      BY Zenon, <2>9 DEF CloseSession, Submit
    <3>2. Only(w) /\ job[w].at # "list" /\ (job'[w] = Idle \/ (job'[w].ver <= Used /\ job'[w].at # "list"))
      BY Zenon, <2>9, <2>a, ClosingMoves DEF Moved
    <3>3. /\ Task("ERASE", 0, Absent) \in TaskType /\ Task("ERASE", 0, Absent).ver = Absent
          /\ Task("ERASE", 0, Absent).op \notin WriteOps
      BY FollowersAssumption DEF Task, TaskType, Ops, VerType, WriteOps
    <3>4. \A d \in Conns : FlowsWithin(d, Used)
      <4>1. job[w].c \in Conns
        BY Zenon, <2>9, ClosingMoves
      <4>2. \A d \in Conns : session'[d].out = session[d].out
        BY Zenon, <2>e, <3>1, <4>1, StateFacts
      <4> QED
        BY Zenon, <4>2 DEF FlowsWithin
    <3> QED
      BY Zenon, <2>a, <2>d, <3>1, <3>2, <3>3, <3>4, <1>BoundedRest
  <2>10. CASE EraseClient(w)
    <3>1. UNCHANGED <<version, stored, tasks, session, follower, left>>
      BY Zenon, <2>10 DEF EraseClient
    <3>2. Only(w) /\ job[w].at # "list" /\ (job'[w] = Idle \/ (job'[w].ver <= Used /\ job'[w].at # "list"))
      BY Zenon, <2>10, <2>a, EraseMoves DEF Moved
    <3> QED
      BY Zenon, <2>a, <2>d, <3>1, <3>2, <1>SameWithin, <1>BoundedRest
  <2> QED
    BY Zenon, <2>2, <2>3, <2>4, <2>5, <2>6, <2>7, <2>8, <2>9, <2>10
\* The steps of the sessions, the follower and the heartbeat thread.
<1>SessionBounded.
    ASSUME Shape, Shape', Bounded,
           (\E c \in Conns : ReadRequest(c) \/ SessionDies(c)) \/ SendSync \/ ReadFrame \/ HbFindDead \/ HbErase
             \/ Connect \/ Break \/ Unmount \/ HeartbeatTimeout
    PROVE  Bounded'
  <2> USE <1>SessionBounded
  <2>a. /\ Used \in Int /\ version <= Used /\ stored <= Used /\ follower.view <= Used /\ Absent <= Used
    BY UsedInt DEF Bounded, Within, Absent
  <2>e. Typed
    BY Zenon DEF Shape
  <2>f. ASSUME Fault
        PROVE  left'.writes = left.writes
    BY Zenon, <2>f DEF Fault, Shape, Typed, LeftType
  <2>1. ASSUME NEW c \in Conns, ReadRequest(c)
        PROVE  Bounded'
    <3>1. /\ UNCHANGED <<version, stored, job, follower, left>>
          /\ tasks' = Append(tasks, Task(session[c].request, c, Absent))
          /\ session' = [session EXCEPT ![c].request = "none"] /\ session[c].request # "none"
      BY Zenon, <2>1 DEF ReadRequest, Submit
    <3>2. session[c].request \in {"SYNC", "CLOSE"}
      BY Zenon, <2>e, <3>1 DEF Typed, SessionType
    <3>3. /\ Task(session[c].request, c, Absent) \in TaskType /\ Task(session[c].request, c, Absent).ver = Absent
          /\ Task(session[c].request, c, Absent).op \notin WriteOps
      BY <3>2, FollowersAssumption DEF Task, TaskType, Ops, VerType, WriteOps, Conns
    <3>4. \A d \in Conns : session'[d].out = session[d].out
      BY Zenon, <2>e, <3>1, RequestFacts
    <3>5. \A d \in Conns : FlowsWithin(d, Used)
      BY Zenon, <3>4 DEF FlowsWithin
    <3> QED
      BY Zenon, <2>a, <3>1, <3>3, <3>5, <1>BoundedRest
  <2>2. ASSUME NEW c \in Conns, SessionDies(c)
        PROVE  Bounded'
    <3>1. /\ UNCHANGED <<version, stored, tasks, job, follower, left>>
          /\ session' = [session EXCEPT ![c].state = "dead"]
      BY Zenon, <2>2 DEF SessionDies
    <3>2. \A d \in Conns : session'[d].out = session[d].out
      BY Zenon, <2>e, <3>1, StateFacts
    <3>3. \A d \in Conns : FlowsWithin(d, Used)
      BY Zenon, <3>2 DEF FlowsWithin
    <3> QED
      BY Zenon, <2>a, <3>1, <3>3, <1>BoundedRest
  <2>3. CASE SendSync
    <3>1. /\ UNCHANGED <<version, stored, tasks, job, left>> /\ follower' = [follower EXCEPT !.at = "sync"]
          /\ session' = [session EXCEPT ![follower.c].request = "SYNC"] /\ follower.at # "off"
      BY Zenon, <2>3 DEF SendSync
    <3>2. follower.c \in Conns /\ follower'.view = follower.view
      BY Zenon, <2>e, <3>1, FollowerConn, FollowerAt
    <3>3. \A d \in Conns : session'[d].out = session[d].out
      BY Zenon, <2>e, <3>1, <3>2, RequestFacts
    <3>4. \A d \in Conns : FlowsWithin(d, Used)
      BY Zenon, <3>3 DEF FlowsWithin
    <3> QED
      BY Zenon, <2>a, <3>1, <3>2, <3>4, <1>BoundedRest
  <2>4. CASE ReadFrame
    <3> DEFINE c == follower.c
    <3>1. UNCHANGED <<version, stored, tasks, job, left>>
      BY Zenon, <2>4 DEF ReadFrame
    <3>2. /\ c \in Conns /\ session[c].out # <<>> /\ session[c].out \in Seq(FrameType)
          /\ \A d \in Conns \ {c} : session'[d] = session[d]
          /\ session'[c].out = Tail(session[c].out)
          /\ follower'.view \in {session[c].out[1].ver, follower.view}
      BY Zenon, <2>4, FrameFacts
    <3> HIDE DEF c
    <3>3. Len(session[c].out) \in Nat /\ Len(session[c].out) >= 1
      BY <3>2, TailFacts
    <3>4. session[c].out[1].ver <= Used
      BY <3>2, <3>3 DEF Bounded, Within
    <3>5. \A d \in Conns : FlowsWithin(d, Used)
      BY Zenon, <3>2 DEF FlowsWithin
    <3> QED
      BY Zenon, <2>a, <3>1, <3>2, <3>4, <3>5, <1>BoundedRest
  <2>5. CASE HbFindDead \/ HbErase
    <3>1. UNCHANGED <<version, stored, tasks, job, session, follower, left>>
      BY Zenon, <2>5 DEF HbFindDead, HbErase
    <3> QED
      BY Zenon, <2>a, <3>1, <1>SameWithin, <1>BoundedRest
  <2>6. CASE Connect
    <3> DEFINE c == follower.c + 1
    <3>1. /\ UNCHANGED <<version, stored, job>>
      BY Zenon, <2>6 DEF Connect
    <3>2. /\ c \in Conns /\ \A d \in Conns \ {c} : session'[d] = session[d]
          /\ session'[c].out = <<>> /\ follower'.view = follower.view /\ left'.writes = left.writes
          /\ Task("ACCEPT", c, Absent) \in TaskType /\ tasks' = Append(tasks, Task("ACCEPT", c, Absent))
      BY Zenon, <2>6, ConnectFacts
    <3> HIDE DEF c
    <3>3. Task("ACCEPT", c, Absent).op \notin WriteOps /\ Task("ACCEPT", c, Absent).ver = Absent
      BY Zenon DEF Task, WriteOps
    <3>4. \A d \in Conns : FlowsWithin(d, Used)
      BY Zenon, <3>2 DEF FlowsWithin
    <3> QED
      BY Zenon, <2>a, <3>1, <3>2, <3>3, <3>4, <1>BoundedRest
  <2>7. ASSUME follower.at # "off", NEW l \in {"closed", "down"}, NEW r \in {"none", "CLOSE"},
               NEW v \in {follower.view, Absent}, Off(l, r, v), UNCHANGED <<version, stored, tasks, job>>,
               left'.writes = left.writes
        PROVE  Bounded'
    <3>1. v \in VerType /\ v <= Used
      BY Zenon, <2>a, <2>e DEF Typed, FollowerType, VerType
    <3>2. /\ follower.c \in Conns /\ \A d \in Conns \ {follower.c} : session'[d] = session[d]
          /\ session'[follower.c].out = <<>> /\ follower'.view = v
      BY Zenon, <2>7, <3>1, OffFacts
    <3>3. \A d \in Conns : FlowsWithin(d, Used)
      BY Zenon, <3>2 DEF FlowsWithin
    <3> QED
      BY Zenon, <2>a, <2>7, <3>1, <3>2, <3>3, <1>BoundedRest
  <2>8. CASE Break
    BY Zenon, <2>7, <2>8, <2>f DEF Break
  <2>9. CASE Unmount
    BY Zenon, <2>7, <2>9 DEF Unmount
  <2>10. CASE HeartbeatTimeout
    BY Zenon, <2>7, <2>10 DEF HeartbeatTimeout
  <2> QED
    BY Zenon, <2>1, <2>2, <2>3, <2>4, <2>5, <2>6, <2>8, <2>9, <2>10
<1>1.
    ASSUME Shape, Bounded, [Next]_vars
    PROVE  Bounded'
  <2> USE <1>1
  <2>1. Shape'
    BY Zenon, ShapeStep
  <2>2. CASE UNCHANGED vars
    BY Zenon, <2>2 DEF vars, Bounded, Within, Used, Listing
  <2>3. ASSUME NEW op \in WriteOps, Request(op)
        PROVE  Bounded'
    BY Zenon, <2>1, <2>3, <1>RequestBounded
  <2>4. ASSUME NEW w \in Workers, WorkerStep(w)
        PROVE  Bounded'
    BY Zenon, <2>1, <2>4, <1>TakeBounded, <1>ListBounded, <1>WritesBounded, <1>ServeBounded DEF WorkerStep
  <2>5. ASSUME (\E c \in Conns : SessionStep(c)) \/ FollowerStep \/ HbStep \/ Connect \/ Break \/ Unmount
        PROVE  Bounded'
    BY Zenon, <2>1, <2>5, <1>SessionBounded DEF SessionStep, FollowerStep, HbStep
  <2> QED
    BY Zenon, <2>2, <2>3, <2>4, <2>5 DEF Next
<1> QED
  BY <1>1

\* Versions within the number of writes used are those of TypeOK.
LEMMA BoundedTyped ==
  ASSUME Shape, Bounded
  PROVE  TypeOK
<1>1. Used \in Int /\ Used <= MaxWrites /\ MaxWrites \in Nat
  BY Zenon, UsedInt, FollowersAssumption DEF Bounded
<1>2. \A v \in VerType : v <= Used => v \in Versions
  BY <1>1 DEF VerType, Versions, Absent
<1>3. version \in Versions /\ stored \in Versions /\ follower.view \in Versions
  BY Zenon, <1>2 DEF Shape, Typed, Bounded, Within, FollowerType
<1>4. tasks \in Seq([op: Ops, c: 0 .. MaxConns, ver: Versions])
  <2>1. tasks \in Seq(TaskType)
    BY Zenon DEF Shape, Typed
  <2>2. \A i \in 1 .. Len(tasks) : tasks[i] \in TaskType /\ tasks[i].ver \in Versions
    <3>1. \A i \in 1 .. Len(tasks) : tasks[i] \in TaskType
      BY <2>1
    <3>2. \A i \in 1 .. Len(tasks) : tasks[i].ver <= Used
      BY Zenon DEF Bounded, Within
    <3> QED
      BY Zenon, <1>2, <3>1, <3>2 DEF TaskType
  <2>3. \A i \in 1 .. Len(tasks) : tasks[i] \in [op: Ops, c: 0 .. MaxConns, ver: Versions]
    BY Zenon, <2>2 DEF TaskType
  <2> DEFINE T == [op: Ops, c: 0 .. MaxConns, ver: Versions]
  <2>4. \A i \in 1 .. Len(tasks) : tasks[i] \in T
    BY Zenon, <2>3
  <2> HIDE DEF T
  <2>5. tasks \in Seq(T)
    BY <2>1, <2>4
  <2> QED
    BY Zenon, <2>5 DEF T
<1>5. job \in [Workers -> Job]
  <2>1. \A w \in Workers : job[w] \in JobType /\ job[w].ver \in Versions
    BY Zenon, <1>2 DEF Shape, Typed, Bounded, Within, JobType
  <2>2. \A w \in Workers : job[w] \in Job
    BY Zenon, <2>1 DEF JobType, Job, Points
  <2> QED
    BY Zenon, <2>2 DEF Shape, Typed
<1>6. ASSUME NEW c \in Conns
      PROVE  /\ session[c].link \in {"none", "up", "closed", "down"}
             /\ session[c].state \in {"new", "alive", "dead"}
             /\ session[c].request \in {"none", "SYNC", "CLOSE"}
             /\ session[c].out \in Seq(Frames)
  <2>1. session[c] \in SessionType /\ session[c].out \in Seq(FrameType)
    BY Zenon DEF Shape, Typed, SessionType
  <2>2. \A i \in 1 .. Len(session[c].out) : session[c].out[i] \in FrameType /\ session[c].out[i].ver \in Versions
    <3>1. \A i \in 1 .. Len(session[c].out) : session[c].out[i] \in FrameType
      BY <2>1
    <3>2. \A i \in 1 .. Len(session[c].out) : session[c].out[i].ver <= Used
      BY Zenon DEF Bounded, Within
    <3> QED
      BY Zenon, <1>2, <3>1, <3>2 DEF FrameType
  <2>3. \A i \in 1 .. Len(session[c].out) : session[c].out[i] \in Frames
    BY Zenon, <2>2 DEF FrameType, Frames
  <2>4. session[c].out \in Seq(Frames)
    BY <2>1, <2>3
  <2> QED
    BY Zenon, <2>1, <2>4 DEF SessionType
<1>7. follower \in [c: 0 .. MaxConns, at: {"off", "handshake", "new", "sync", "on"}, view: Versions]
  BY Zenon, <1>3 DEF Shape, Typed, FollowerType
<1> QED
  BY Zenon, <1>3, <1>4, <1>5, <1>6, <1>7 DEF TypeOK, Shape, Typed, LeftType

\* The type invariant.  That no version exceeds MaxWrites + 1 is the part that
\* takes an argument: a version is given out once per write, so the writes still to
\* come, queued or about to list the clients bound it.
THEOREM FollowersTyped == Spec => []TypeOK
<1>1. Init => Shape /\ Bounded
  BY Zenon, InitShape, InitBounded
<1>2. Shape /\ Bounded /\ [Next]_vars => Shape' /\ Bounded'
  BY Zenon, ShapeStep, BoundedStep
<1>3. Shape /\ Bounded => TypeOK
  BY Zenon, BoundedTyped
<1> QED
  BY <1>1, <1>2, <1>3, PTL DEF Spec

-----------------------------------------------------------------------------
(* planSync.                                                               *)

\* The version map of a type-correct state gives every file in it a version.
LEMMA MapValues ==
  ASSUME NEW m \in VersionMaps
  PROVE  /\ DOMAIN m \subseteq Files
         /\ \A f \in DOMAIN m : m[f] \in 0 .. MaxVersion /\ m[f] \in Int
BY PlannerAssumption DEF VersionMaps

\* The empty map is a version map.
LEMMA EmptyMap == [f \in {} |-> 0] \in VersionMaps
<1>1. {} \in SUBSET Files
  BY Zenon
<1>2. [f \in {} |-> 0] \in [{} -> 0 .. MaxVersion]
  BY Zenon
<1> QED
  BY Zenon, <1>1, <1>2 DEF VersionMaps

\* What holds between the steps of the two loops: the types, and what the
\* plan says of the files visited so far.
Loops == PlannerTypeOK /\ PlannerInv

\* One visit of a loop: planning the operations of file f extends the plan from
\* the files of S to those of S and f.
LEMMA Visit ==
  ASSUME PlannerTypeOK, NEW S, NEW f \in Files, PlannedFor(S), f \notin S,
         UNCHANGED <<localMap, remoteMap>>,
         NEW new \in SUBSET SyncOps, ops' = ops \cup new,
         \A o \in new : o.filePath = f,
         \A o \in SyncOps : o.filePath = f =>
           (o \in new <=> Due(o))
  PROVE  PlannedFor(S \cup {f})'
<1> SUFFICES ASSUME NEW o \in SyncOps
             PROVE  o \in ops' <=> o.filePath \in S \cup {f} /\ Due(o)
  BY Zenon DEF PlannedFor, Due
<1>1. CASE o.filePath = f
  <2>1. o \notin ops
    BY Zenon, <1>1 DEF PlannedFor, SyncOps
  <2> QED
    BY Zenon, <1>1, <2>1
<1>2. CASE o.filePath # f
  <2>1. o \in ops' <=> o \in ops
    BY Zenon, <1>2
  <2> QED
    BY Zenon, <1>2, <2>1 DEF PlannedFor, SyncOps
<1> QED
  BY Zenon, <1>1, <1>2

\* Every step of planSync, from two version maps on, keeps the invariant of its
\* two loops.
THEOREM LoopsInvariant == PlannerSpec => []Loops
<1>1. PlannerInit => Loops
  BY Zenon, EmptyMap DEF PlannerInit, Loops, PlannerTypeOK, PlannerInv
<1>2. Loops /\ [PlannerNext]_planVars => Loops'
  <2> SUFFICES ASSUME Loops, [PlannerNext]_planVars PROVE Loops'
    BY Zenon
  <2>0. PlannerTypeOK /\ PlannerInv
    BY Zenon DEF Loops
  <2>a. /\ DOMAIN localMap \subseteq Files /\ DOMAIN remoteMap \subseteq Files
        /\ \A f \in DOMAIN localMap : localMap[f] \in 0 .. MaxVersion /\ localMap[f] \in Int
        /\ \A f \in DOMAIN remoteMap : remoteMap[f] \in 0 .. MaxVersion /\ remoteMap[f] \in Int
    BY Zenon, <2>0, MapValues DEF PlannerTypeOK
  <2>1. ASSUME NEW l \in VersionMaps, NEW r \in VersionMaps, PlanSync(l, r)
        PROVE  Loops'
    <3>1. DOMAIN l \subseteq Files /\ DOMAIN r \subseteq Files
      BY Zenon, MapValues
    <3>2. PlannerTypeOK'
      BY Zenon, <2>0, <2>1, <3>1 DEF PlannerTypeOK, PlanSync
    <3>3. ops' = {} /\ (DOMAIN localMap \ todo)' = {}
      BY Zenon, <2>0, <2>1 DEF PlannerInv, PlanSync
    <3>4. PlannedFor(DOMAIN localMap \ todo)'
      BY Zenon, <3>3 DEF PlannedFor
    <3> QED
      BY Zenon, <2>1, <3>2, <3>3, <3>4 DEF Loops, PlannerInv, PlanSync
  <2>2. ASSUME NEW f \in Files, LocalEntry(f) PROVE Loops'
    <3>s. PICK S : S = DOMAIN localMap \ todo
      BY Zenon
    <3>n. PICK new : new = IF f \in remote THEN Compared(f)
                           ELSE {SyncOp("CREATE_REMOTE", f, localMap[f])}
      BY Zenon
    <3>1. /\ ops' = ops \cup new /\ UNCHANGED <<localMap, remoteMap, loop>>
          /\ todo' = todo \ {f} /\ remote' = remote \ {f} /\ loop = "local"
      BY Zenon, <2>2, <3>n DEF LocalEntry
    <3>2. /\ f \in todo /\ todo \subseteq DOMAIN localMap
          /\ remote = DOMAIN remoteMap \ S /\ PlannedFor(S)
      BY Zenon, <2>0, <2>2, <3>s DEF LocalEntry, PlannerInv
    <3>3. f \in DOMAIN localMap /\ f \notin S /\ (f \in remote <=> f \in DOMAIN remoteMap)
      BY Zenon, <3>2, <3>s
    <3>4. new \in SUBSET SyncOps /\ \A o \in new : o.filePath = f
      BY <2>a, <3>n, <3>3 DEF Compared, SyncOp, SyncOps, SyncActions
    <3>5. \A o \in SyncOps : o.filePath = f =>
           (o \in new <=> Due(o))
      BY <2>a, <3>n, <3>3 DEF Compared, SyncOp, SyncOps, SyncActions, Due
    <3>6. PlannedFor(S \cup {f})'
      BY Zenon, <2>0, <3>1, <3>2, <3>3, <3>4, <3>5, Visit
    <3>7. (DOMAIN localMap \ todo)' = S \cup {f}
      BY Zenon, <3>1, <3>3, <3>s
    <3>8. PlannerTypeOK'
      BY Zenon, <2>0, <3>1, <3>4 DEF PlannerTypeOK, SyncOps
    <3>9. PlannedFor(DOMAIN localMap \ todo)'
      BY Zenon, <3>6, <3>7 DEF PlannedFor
    <3> QED
      BY Zenon, <3>1, <3>2, <3>3, <3>8, <3>9, <3>s DEF Loops, PlannerInv
  <2>3. CASE LocalDone
    <3>1. /\ UNCHANGED <<localMap, remoteMap, remote, ops>>
          /\ loop = "local" /\ loop' = "remote" /\ todo = {} /\ todo' = remote
      BY Zenon, <2>3 DEF LocalDone
    <3>2. remote = DOMAIN remoteMap \ DOMAIN localMap /\ PlannedFor(DOMAIN localMap)
      <4>1. DOMAIN localMap \ todo = DOMAIN localMap
        BY Zenon, <3>1
      <4> QED
        BY Zenon, <2>0, <3>1, <4>1 DEF PlannerInv
    <3>3. ((DOMAIN localMap \cup DOMAIN remoteMap) \ todo)' = DOMAIN localMap
      BY Zenon, <3>1, <3>2
    <3>4. PlannedFor((DOMAIN localMap \cup DOMAIN remoteMap) \ todo)'
      BY Zenon, <3>1, <3>2, <3>3 DEF PlannedFor, Due
    <3> QED
      BY Zenon, <2>0, <3>1, <3>2, <3>4 DEF Loops, PlannerTypeOK, PlannerInv
  <2>4. ASSUME NEW f \in Files, RemoteEntry(f) PROVE Loops'
    <3>s. PICK S : S = (DOMAIN localMap \cup DOMAIN remoteMap) \ todo
      BY Zenon
    <3>n. PICK new : new = {SyncOp("DOWNLOAD", f, remoteMap[f])}
      BY Zenon
    <3>1. /\ ops' = ops \cup new /\ UNCHANGED <<localMap, remoteMap, remote, loop>>
          /\ todo' = todo \ {f} /\ f \in todo /\ loop = "remote"
      BY Zenon, <2>4, <3>n DEF RemoteEntry
    <3>2. /\ todo \subseteq DOMAIN remoteMap \ DOMAIN localMap
          /\ PlannedFor(S)
      BY Zenon, <2>0, <3>1, <3>s DEF PlannerInv
    <3>3. f \in DOMAIN remoteMap \ DOMAIN localMap /\ f \notin S
      BY Zenon, <3>1, <3>2, <3>s
    <3>4. new \in SUBSET SyncOps /\ \A o \in new : o.filePath = f
      BY <2>a, <3>n, <3>3 DEF SyncOp, SyncOps, SyncActions
    <3>5. \A o \in SyncOps : o.filePath = f =>
           (o \in new <=> Due(o))
      BY <2>a, <3>n, <3>3 DEF SyncOp, SyncOps, SyncActions, Due
    <3>6. PlannedFor(S \cup {f})'
      BY Zenon, <2>0, <3>1, <3>2, <3>3, <3>4, <3>5, Visit
    <3>7. ((DOMAIN localMap \cup DOMAIN remoteMap) \ todo)' = S \cup {f}
      BY Zenon, <3>1, <3>3, <3>s
    <3>8. PlannerTypeOK'
      BY Zenon, <2>0, <3>1, <3>4 DEF PlannerTypeOK, SyncOps
    <3>9. PlannedFor((DOMAIN localMap \cup DOMAIN remoteMap) \ todo)'
      BY Zenon, <3>6, <3>7 DEF PlannedFor
    <3> QED
      BY Zenon, <3>1, <3>2, <3>8, <3>9 DEF Loops, PlannerInv
  <2>5. CASE Return
    <3> DEFINE D == (DOMAIN localMap \cup DOMAIN remoteMap) \ todo
    <3>1. /\ loop = "remote" /\ todo = {} /\ loop' = "done"
          /\ UNCHANGED <<localMap, remoteMap, remote, todo, ops>>
      BY Zenon, <2>5 DEF Return
    <3>2. PlannedFor(D)
      BY Zenon, <2>0, <3>1 DEF Loops, PlannerInv
    <3>3. PlannedFor(D)'
      BY Zenon, <3>1, <3>2 DEF PlannedFor, Due
    <3>4. PlannerTypeOK'
      BY Zenon, <2>0, <3>1 DEF Loops, PlannerTypeOK
    <3> QED
      BY Zenon, <2>0, <3>1, <3>3, <3>4 DEF Loops, PlannerInv
  <2>6. CASE UNCHANGED planVars
    BY Zenon, <2>0, <2>6 DEF planVars, Loops, PlannerTypeOK, PlannerInv, PlannedFor, Due
  <2> QED
    BY Zenon, <2>1, <2>2, <2>3, <2>4, <2>5, <2>6 DEF PlannerNext
<1> QED
  BY <1>1, <1>2, PTL DEF PlannerSpec

\* planSync reconciles any two version maps, whatever the files and versions.
THEOREM PlanCorrect == PlannerSpec => []PlanReconciles
<1>1. Loops => PlanReconciles
  <2> SUFFICES ASSUME Loops, loop = "done",
                      NEW f \in DOMAIN localMap \cup DOMAIN remoteMap
               PROVE  /\ \A o1, o2 \in ops : o1.filePath = f /\ o2.filePath = f => o1 = o2
                      /\ ~Planned(f, SyncActions) => /\ f \in DOMAIN localMap \cap DOMAIN remoteMap
                                                     /\ localMap[f] = remoteMap[f]
                      /\ \A o \in ops : o.filePath = f =>
                           IF o.action = "DOWNLOAD"
                           THEN /\ f \in DOMAIN remoteMap /\ o.version = remoteMap[f]
                                /\ f \in DOMAIN localMap => localMap[f] < remoteMap[f]
                           ELSE /\ f \in DOMAIN localMap /\ o.version = localMap[f]
                                /\ f \in DOMAIN remoteMap => remoteMap[f] < localMap[f]
    BY Zenon DEF PlanReconciles
  <2>1. PlannerTypeOK /\ PlannerInv
    BY Zenon DEF Loops
  <2>2. /\ DOMAIN localMap \subseteq Files /\ DOMAIN remoteMap \subseteq Files
        /\ \A g \in DOMAIN localMap : localMap[g] \in 0 .. MaxVersion /\ localMap[g] \in Int
        /\ \A g \in DOMAIN remoteMap : remoteMap[g] \in 0 .. MaxVersion /\ remoteMap[g] \in Int
    BY Zenon, <2>1, MapValues DEF PlannerTypeOK
  <2>3. PlannedFor(DOMAIN localMap \cup DOMAIN remoteMap)
    <3>1. (DOMAIN localMap \cup DOMAIN remoteMap) \ todo = DOMAIN localMap \cup DOMAIN remoteMap
      BY Zenon, <2>1 DEF PlannerInv
    <3> QED
      BY Zenon, <2>1, <3>1 DEF PlannerInv
  <2>4. ops \subseteq SyncOps
    BY Zenon, <2>1 DEF PlannerTypeOK, SyncOps
  <2>5. \A o \in SyncOps : o.filePath = f =>
          (o \in ops <=> Due(o))
    BY Zenon, <2>3 DEF PlannedFor, SyncOps
  <2>6. ASSUME NEW o1 \in ops, NEW o2 \in ops, o1.filePath = f, o2.filePath = f
        PROVE  o1 = o2
    <3>1. o1.action = o2.action /\ o1.version = o2.version
      BY <2>2, <2>4, <2>5, <2>6 DEF Due
    <3> QED
      BY <2>4, <2>6, <3>1 DEF SyncOps
  <2>7. ASSUME ~Planned(f, SyncActions)
        PROVE  f \in DOMAIN localMap \cap DOMAIN remoteMap /\ localMap[f] = remoteMap[f]
    <3>1. \A o \in SyncOps : o.filePath = f => o \notin ops
      BY Zenon, <2>7 DEF Planned, SyncOps
    <3>2. \A a \in SyncActions, v \in 0 .. MaxVersion :
            SyncOp(a, f, v) \in SyncOps /\ SyncOp(a, f, v).filePath = f
              /\ SyncOp(a, f, v).action = a /\ SyncOp(a, f, v).version = v
      BY Zenon, <2>2 DEF SyncOp, SyncOps
    <3>3. ASSUME f \in DOMAIN localMap PROVE f \in DOMAIN remoteMap
      BY <2>2, <2>5, <3>1, <3>2, <3>3 DEF SyncActions, Due
    <3>4. ASSUME f \in DOMAIN remoteMap PROVE f \in DOMAIN localMap
      BY <2>2, <2>5, <3>1, <3>2, <3>4 DEF SyncActions, Due
    <3>5. f \in DOMAIN localMap \cap DOMAIN remoteMap
      BY Zenon, <3>3, <3>4
    <3>6. ~(localMap[f] > remoteMap[f])
      BY <2>2, <2>5, <3>1, <3>2, <3>5 DEF SyncActions, Due
    <3>7. ~(localMap[f] < remoteMap[f])
      BY <2>2, <2>5, <3>1, <3>2, <3>5 DEF SyncActions, Due
    <3> QED
      BY <2>2, <3>5, <3>6, <3>7
  <2>8. ASSUME NEW o \in ops, o.filePath = f
        PROVE  IF o.action = "DOWNLOAD"
               THEN /\ f \in DOMAIN remoteMap /\ o.version = remoteMap[f]
                    /\ f \in DOMAIN localMap => localMap[f] < remoteMap[f]
               ELSE /\ f \in DOMAIN localMap /\ o.version = localMap[f]
                    /\ f \in DOMAIN remoteMap => remoteMap[f] < localMap[f]
    BY Zenon, <2>2, <2>4, <2>5, <2>8 DEF Due
  <2> QED
    BY Zenon, <2>6, <2>7, <2>8
<1> QED
  BY <1>1, LoopsInvariant, PTL
=============================================================================
