--------------------------- MODULE FollowersProofs ---------------------------
(***************************************************************************)
(* What holds of Followers for every number of workers, writes,            *)
(* connections and faults: an accepted follower stays registered, and ends *)
(* up with the server's version unless one of the named events has         *)
(* happened.  (The types are in FollowersTypes.)                           *)
(*                                                                         *)
(* The invariant has four parts.  Shape: where each kind of job can be,    *)
(* and what a connection that is up, over or not yet made looks like.      *)
(* Registered: who will register the connection.  Course: a connection is  *)
(* accepted once and asks once for its listing, so that what is queued,    *)
(* served and posted for it tells how far the follower can have come.      *)
(* Following: as long as none of the events has happened, the follower     *)
(* will have the server's version once it has read its frames, or there is *)
(* a write whose delta or push is to come.                                 *)
(***************************************************************************)
EXTENDS Followers, TLAPS

-----------------------------------------------------------------------------
(* Types, and where a job can be.                                          *)

\* The versions, not yet bounded.
VerType == Nat \cup {Absent}

TaskType == [op: Ops, c: 0 .. MaxConns, ver: VerType]

Points == {"idle", "list", "fanout", "commit", "delta", "push", "answer", "handshake",
           "register", "read", "burst", "snap", "closing", "erase", "undo", "stuck"}

JobType == [op: Ops \cup {"idle"}, c: 0 .. MaxConns, ver: VerType, at: Points,
            list: 0 .. MaxConns]

FrameType == [what: {"PUSH", "STATE_SNAP", "STATE_DELTA", "RESPONSE"}, ver: VerType]

SessionType == [link: {"none", "up", "closed", "down"}, state: {"new", "alive", "dead"},
                request: {"none", "SYNC", "CLOSE"}, out: Seq(FrameType)]

FollowerType == [c: 0 .. MaxConns, at: {"off", "handshake", "new", "sync", "on"}, view: VerType]

LeftType == [writes: 0 .. MaxWrites, conns: 0 .. MaxConns, faults: Nat]

\* The types of the variables.
Typed ==
  /\ kind \in {"CLIENT", "STANDBY"}
  /\ version \in VerType /\ stored \in VerType
  /\ tasks \in Seq(TaskType)
  /\ job \in [Workers -> JobType]
  /\ session \in [Conns -> SessionType]
  /\ endpoint \in 0 .. MaxConns
  /\ hb \in {"asleep", "erase"}
  /\ follower \in FollowerType
  /\ left \in LeftType
  /\ events \subseteq Events

\* A task or a job about connection c is about one the follower has had.
Known(c, op) == c <= follower.c /\ (op \in {"ACCEPT", "SYNC", "CLOSE"} => c # 0)

\* The points of a task's code.
Legal(j) ==
  /\ j.op = "idle" => j.at = "idle"
  /\ j.op \in WriteOps => j.at \in {"list", "fanout", "commit", "delta", "push", "answer", "stuck"}
  /\ j.op = "ACCEPT" => j.at \in {"handshake", "register", "read", "burst", "snap"}
  /\ j.op = "SYNC" => j.at \in {"read", "answer", "stuck"} /\ kind = "CLIENT"
  /\ j.op = "CLOSE" => j.at \in {"answer", "closing", "stuck"} /\ kind = "CLIENT"
  /\ j.op = "ERASE" => j.at = "erase"
  /\ j.op = "ROLLBACK" => j.at \in {"undo", "stuck"}
  /\ j.at \in {"push", "burst"} => kind = "CLIENT"
  /\ j.at \in {"delta", "snap"} => kind = "STANDBY"
  /\ j.op = "DELETE" /\ j.at \in {"fanout", "commit", "delta", "push"} => j.ver = Absent

\* Every worker is at a point of its task's code.
Jobs == \A w \in Workers : Legal(job[w]) /\ Known(job[w].c, job[w].op) /\ job[w].list <= follower.c

\* The tasks are about connections there have been.
Queue ==
  \A i \in 1 .. Len(tasks) :
    /\ Known(tasks[i].c, tasks[i].op)
    /\ tasks[i].op \in {"SYNC", "CLOSE"} => kind = "CLIENT"

\* The connections: the last one may be up, later ones are untouched.
Links ==
  /\ follower.c + left.conns <= MaxConns
  /\ endpoint <= follower.c
  /\ follower.at # "off" => follower.c # 0 /\ session[follower.c].link = "up"
  /\ \A c \in Conns : /\ c > follower.c => session[c] = NewSession
                      /\ session[c].link = "up" => c = follower.c /\ follower.at # "off"
  /\ kind = "STANDBY" => /\ follower.at \notin {"new", "sync"}
                         /\ \A c \in Conns : session[c].request = "none"

\* The frames of each kind of follower.
FramesOf == IF kind = "CLIENT" THEN {"PUSH", "RESPONSE"} ELSE {"STATE_SNAP", "STATE_DELTA"}

Streams == \A c \in Conns : \A i \in 1 .. Len(session[c].out) : session[c].out[i].what \in FramesOf

\* The shape of every reachable state.
Shape == Typed /\ Jobs /\ Queue /\ Links /\ Streams

\* How a step can change the jobs, the tasks and a session.
Only(w) == \A v \in Workers \ {w} : job'[v] = job[v]

\* t is s and then e.
Appended(s, t, e) ==
  /\ Len(t) = Len(s) + 1 /\ t[Len(s) + 1] = e
  /\ \A i \in 1 .. Len(s) : t[i] = s[i]

\* Only the frames of session c change: f is the last.
Posted(c, f) ==
  /\ \A d \in Conns \ {c} : session'[d] = session[d]
  /\ session'[c].link = session[c].link /\ session'[c].state = session[c].state
  /\ session'[c].request = session[c].request
  /\ session'[c].out = Append(session[c].out, f)

\* One worker has moved.
LEMMA SetFacts ==
  ASSUME Typed, NEW w \in Workers, NEW j \in JobType, Set(w, j)
  PROVE  job' \in [Workers -> JobType] /\ job'[w] = j /\ Only(w)
BY Zenon DEF Typed, Set, Only

\* A worker that goes on to another point of its code keeps its task.
LEMMA GotoFacts ==
  ASSUME Typed, NEW w \in Workers, NEW at \in Points, Goto(w, at)
  PROVE  /\ job' \in [Workers -> JobType] /\ Only(w)
         /\ job'[w].op = job[w].op /\ job'[w].c = job[w].c /\ job'[w].ver = job[w].ver
         /\ job'[w].list = job[w].list /\ job'[w].at = at
<1>1. job[w] \in JobType
  BY Zenon DEF Typed
<1>2. [job[w] EXCEPT !.at = at] \in JobType
  BY Zenon, <1>1 DEF JobType
<1>3. job'[w] = [job[w] EXCEPT !.at = at] /\ job' \in [Workers -> JobType] /\ Only(w)
  BY Zenon, <1>2, SetFacts DEF Goto
<1> QED
  BY Zenon, <1>1, <1>3 DEF JobType

\* An idle worker has no task, connection or list.
LEMMA IdleFacts ==
  /\ Idle \in JobType /\ Idle.op = "idle" /\ Idle.at = "idle" /\ Idle.c = 0 /\ Idle.list = 0
BY FollowersAssumption DEF Idle, JobType, Points, VerType

\* What push_back leaves in a queue.
LEMMA AppendFacts ==
  ASSUME NEW S, NEW s \in Seq(S), NEW e \in S
  PROVE  Append(s, e) \in Seq(S) /\ Appended(s, Append(s, e), e)
BY DEF Appended

\* What is left of a queue once its oldest element is taken.
LEMMA TailFacts ==
  ASSUME NEW S, NEW s \in Seq(S), s # <<>>
  PROVE  /\ Tail(s) \in Seq(S) /\ Len(Tail(s)) = Len(s) - 1 /\ Len(s) >= 1
         /\ Head(s) = s[1] /\ Head(s) \in S
         /\ \A i \in 1 .. Len(Tail(s)) : Tail(s)[i] = s[i + 1]
OBVIOUS

\* A frame posted on a session is the last of its frames and changes nothing else.
LEMMA PostFacts ==
  ASSUME Typed, NEW c \in Conns, NEW f \in FrameType, Post(c, f)
  PROVE  session' \in [Conns -> SessionType] /\ Posted(c, f)
<1>1. session[c] \in SessionType /\ session[c].out \in Seq(FrameType)
  BY Zenon DEF Typed, SessionType
<1>2. Append(session[c].out, f) \in Seq(FrameType)
  BY <1>1
<1> DEFINE o == Append(session[c].out, f)
<1>3. session' = [session EXCEPT ![c] = [session[c] EXCEPT !.out = o]]
  BY Zenon DEF Post, Typed
<1>4. o \in Seq(FrameType)
  BY Zenon, <1>2
<1> HIDE DEF o
<1>5. [session[c] EXCEPT !.out = o] \in SessionType
  BY Zenon, <1>1, <1>4 DEF SessionType
<1>6. session'[c] = [session[c] EXCEPT !.out = o] /\ \A d \in Conns \ {c} : session'[d] = session[d]
  BY Zenon, <1>3 DEF Typed
<1>7. session' \in [Conns -> SessionType]
  BY Zenon, <1>3, <1>5 DEF Typed
<1>8. /\ session'[c].link = session[c].link /\ session'[c].state = session[c].state
      /\ session'[c].request = session[c].request /\ session'[c].out = o
  BY Zenon, <1>1, <1>6 DEF SessionType
<1> QED
  BY Zenon, <1>6, <1>7, <1>8 DEF Posted, o

\* A field of a session other than its frames.
LEMMA StateFacts ==
  ASSUME Typed, NEW c \in Conns, NEW s \in {"new", "alive", "dead"},
         session' = [session EXCEPT ![c].state = s]
  PROVE  /\ session' \in [Conns -> SessionType]
         /\ \A d \in Conns \ {c} : session'[d] = session[d]
         /\ session'[c].link = session[c].link /\ session'[c].state = s
         /\ session'[c].request = session[c].request /\ session'[c].out = session[c].out
<1>1. session[c] \in SessionType
  BY Zenon DEF Typed
<1>2. session' = [session EXCEPT ![c] = [session[c] EXCEPT !.state = s]]
  BY Zenon DEF Typed
<1>3. [session[c] EXCEPT !.state = s] \in SessionType
  BY Zenon, <1>1 DEF SessionType
<1> QED
  BY <1>1, <1>2, <1>3 DEF Typed, SessionType

\* A request read or written on a session changes nothing else of it.
LEMMA RequestFacts ==
  ASSUME Typed, NEW c \in Conns, NEW r \in {"none", "SYNC", "CLOSE"},
         session' = [session EXCEPT ![c].request = r]
  PROVE  /\ session' \in [Conns -> SessionType]
         /\ \A d \in Conns \ {c} : session'[d] = session[d]
         /\ session'[c].link = session[c].link /\ session'[c].state = session[c].state
         /\ session'[c].request = r /\ session'[c].out = session[c].out
<1>1. session[c] \in SessionType
  BY Zenon DEF Typed
<1>2. session' = [session EXCEPT ![c] = [session[c] EXCEPT !.request = r]]
  BY Zenon DEF Typed
<1>3. [session[c] EXCEPT !.request = r] \in SessionType
  BY Zenon, <1>1 DEF SessionType
<1> QED
  BY <1>1, <1>2, <1>3 DEF Typed, SessionType

-----------------------------------------------------------------------------
(* The steps of a worker.                                                  *)

\* Worker w goes on to a point of its task's code, the others stay.
Moved(w) ==
  /\ job' \in [Workers -> JobType] /\ Only(w)
  /\ Legal(job'[w]) /\ Known(job'[w].c, job'[w].op) /\ job'[w].list <= follower.c

\* A worker ends its task.
LEMMA EndFacts ==
  ASSUME Shape, NEW w \in Workers, Set(w, Idle)
  PROVE  Moved(w) /\ job'[w] = Idle
<1>1. job' \in [Workers -> JobType] /\ job'[w] = Idle /\ Only(w) /\ follower \in FollowerType
  BY Zenon, IdleFacts, SetFacts DEF Shape, Typed
<1> QED
  BY <1>1, IdleFacts DEF Moved, Legal, Known, FollowerType, Ops, WriteOps

\* It goes on to another point.
LEMMA NextFacts ==
  ASSUME Shape, NEW w \in Workers, NEW at \in Points, Goto(w, at), Legal([job[w] EXCEPT !.at = at])
  PROVE  /\ Moved(w)
         /\ job'[w].op = job[w].op /\ job'[w].c = job[w].c /\ job'[w].ver = job[w].ver
         /\ job'[w].list = job[w].list /\ job'[w].at = at
<1>1. job[w] \in JobType
  BY Zenon DEF Shape, Typed
<1>2. [job[w] EXCEPT !.at = at] \in JobType
  BY Zenon, <1>1 DEF JobType
<1>3. job'[w] = [job[w] EXCEPT !.at = at] /\ job' \in [Workers -> JobType] /\ Only(w)
  BY Zenon, <1>2, SetFacts DEF Goto, Shape
<1>4. /\ job'[w].op = job[w].op /\ job'[w].c = job[w].c /\ job'[w].ver = job[w].ver
      /\ job'[w].list = job[w].list /\ job'[w].at = at
  BY Zenon, <1>1, <1>3 DEF JobType
<1> QED
  BY Zenon, <1>3, <1>4 DEF Moved, Shape, Jobs

\* workerLoop: an idle worker takes the oldest task and starts at its first point.
LEMMA TakeMoves ==
  ASSUME Shape, NEW w \in Workers, TakeTask(w)
  PROVE  /\ Moved(w) /\ tasks # <<>> /\ tasks' = Tail(tasks)
         /\ job[w].op = "idle" /\ job[w].at = "idle"
         /\ job'[w].op = tasks[1].op /\ job'[w].c = tasks[1].c /\ job'[w].ver = tasks[1].ver
         /\ job'[w].list = 0 /\ job'[w].at = FirstPoint(tasks[1].op)
<1> DEFINE t == Head(tasks)
           j == [op |-> t.op, c |-> t.c, ver |-> t.ver, at |-> FirstPoint(t.op), list |-> 0]
<1>1. tasks \in Seq(TaskType) /\ tasks # <<>> /\ kind \in {"CLIENT", "STANDBY"} /\ follower \in FollowerType
  BY Zenon DEF TakeTask, Shape, Typed
<1>2. t = tasks[1] /\ t \in TaskType /\ 1 \in 1 .. Len(tasks)
  BY <1>1, TailFacts
<1>3. Known(t.c, t.op) /\ (t.op \in {"SYNC", "CLOSE"} => kind = "CLIENT")
  BY Zenon, <1>2 DEF Shape, Queue
<1>4. Set(w, j) /\ tasks' = Tail(tasks) /\ job[w] = Idle
  BY Zenon DEF TakeTask
<1> HIDE DEF t
<1>5. t.op \in Ops /\ t.c \in 0 .. MaxConns /\ t.ver \in VerType
  BY Zenon, <1>2 DEF TaskType
<1>6. FirstPoint(t.op) \in Points
  BY Zenon, <1>5 DEF FirstPoint, Points, Ops, WriteOps
<1>7. j \in JobType
  BY <1>5, <1>6, FollowersAssumption DEF JobType
<1>8. job'[w] = j /\ job' \in [Workers -> JobType] /\ Only(w)
  BY Zenon, <1>4, <1>7, SetFacts DEF Shape
<1>9. /\ job'[w].op = t.op /\ job'[w].c = t.c /\ job'[w].ver = t.ver
      /\ job'[w].list = 0 /\ job'[w].at = FirstPoint(t.op)
  BY <1>8
<1>10. Legal(job'[w])
  BY Zenon, <1>3, <1>5, <1>9 DEF Legal, FirstPoint, Ops, WriteOps
<1> QED
  BY <1>1, <1>2, <1>3, <1>4, <1>8, <1>9, <1>10, IdleFacts DEF Moved, Known, FollowerType

\* A write lists the clients: only from the point before, with a version of its own.
LEMMA ListMoves ==
  ASSUME Shape, NEW w \in Workers, ListClients(w)
  PROVE  /\ Moved(w) /\ job[w].op \in WriteOps /\ job[w].at = "list"
         /\ job'[w].op = job[w].op /\ job'[w].c = job[w].c /\ job'[w].at = "fanout"
         /\ job'[w].list = IF kind = "CLIENT" THEN endpoint ELSE 0
         /\ job'[w].ver \in {0, Absent, version + 1, job[w].ver + 1}
<1> DEFINE new == CASE job[w].op = "CREATE" -> 0
                    [] job[w].op = "UPDATE" -> (IF version # Absent THEN version ELSE job[w].ver) + 1
                    [] job[w].op = "DELETE" -> Absent
           l == IF kind = "CLIENT" THEN endpoint ELSE 0
<1>1. /\ job[w] \in JobType /\ version \in VerType /\ kind \in {"CLIENT", "STANDBY"}
      /\ endpoint \in 0 .. MaxConns /\ follower \in FollowerType /\ endpoint <= follower.c
      /\ Legal(job[w]) /\ Known(job[w].c, job[w].op)
  BY Zenon DEF Shape, Typed, Jobs, Links
<1>2. job[w].at = "list" /\ job[w].op \in WriteOps
  BY Zenon, <1>1 DEF ListClients, Legal, JobType, Ops
<1>3. /\ new \in VerType
      /\ new \in {0, Absent, version + 1, job[w].ver + 1}
      /\ job[w].op = "DELETE" => new = Absent
  BY <1>1, <1>2 DEF VerType, WriteOps, JobType, Absent
<1>4. l \in 0 .. MaxConns /\ l <= follower.c
  BY <1>1, FollowersAssumption DEF FollowerType
<1>5. Set(w, [job[w] EXCEPT !.at = "fanout", !.ver = new, !.list = l])
  BY Zenon DEF ListClients
<1> HIDE DEF new, l
<1>6. [job[w] EXCEPT !.at = "fanout", !.ver = new, !.list = l] \in JobType
  BY Zenon, <1>1, <1>3, <1>4 DEF JobType, Points
<1>7. /\ job'[w] = [job[w] EXCEPT !.at = "fanout", !.ver = new, !.list = l]
      /\ job' \in [Workers -> JobType] /\ Only(w)
  BY Zenon, <1>5, <1>6, SetFacts DEF Shape
<1>8. /\ job'[w].op = job[w].op /\ job'[w].c = job[w].c /\ job'[w].at = "fanout"
      /\ job'[w].list = l /\ job'[w].ver = new
  BY Zenon, <1>1, <1>7 DEF JobType
<1>9. Legal(job'[w])
  BY Zenon, <1>2, <1>3, <1>8 DEF Legal, WriteOps
<1> QED
  BY Zenon, <1>1, <1>2, <1>3, <1>4, <1>7, <1>8, <1>9 DEF Moved, l, Known

\* A write that has reached a quorum goes on to its pushes or its commit.
LEMMA FanoutMoves ==
  ASSUME Shape, NEW w \in Workers, Fanout(w)
  PROVE  /\ Moved(w) /\ job[w].op \in WriteOps /\ job[w].at = "fanout"
         /\ job'[w].op = job[w].op /\ job'[w].c = job[w].c /\ job'[w].ver = job[w].ver
         /\ job'[w].list = job[w].list
         /\ job'[w].at = IF kind = "CLIENT" /\ job[w].op = "DELETE" THEN "push" ELSE "commit"
<1>1. job[w] \in JobType /\ kind \in {"CLIENT", "STANDBY"} /\ Legal(job[w]) /\ job[w].at = "fanout"
  BY Zenon DEF Shape, Typed, Jobs, Fanout
<1>2. job[w].op \in WriteOps
  BY Zenon, <1>1 DEF Legal, JobType, Ops
<1> DEFINE at == IF kind = "CLIENT" /\ job[w].op = "DELETE" THEN "push" ELSE "commit"
<1>3. After(w) = at /\ at \in Points
  BY Zenon, <1>1 DEF After, Points
<1>4. Legal([job[w] EXCEPT !.at = at])
  BY Zenon, <1>1, <1>2 DEF Legal, WriteOps, JobType
<1>5. Goto(w, at)
  BY Zenon, <1>3 DEF Fanout
<1> HIDE DEF at
<1>6. Moved(w) /\ job'[w].op = job[w].op /\ job'[w].c = job[w].c /\ job'[w].ver = job[w].ver
         /\ job'[w].list = job[w].list /\ job'[w].at = at
  BY Zenon, <1>3, <1>4, <1>5, NextFacts
<1> QED
  BY Zenon, <1>1, <1>2, <1>6 DEF at

\* A write below quorum goes on to its answer.
LEMMA RejectMoves ==
  ASSUME Shape, NEW w \in Workers, FanoutRejected(w)
  PROVE  /\ Moved(w) /\ job[w].op \in WriteOps /\ job[w].at = "fanout"
         /\ job'[w].op = job[w].op /\ job'[w].c = job[w].c /\ job'[w].ver = job[w].ver
         /\ job'[w].list = job[w].list /\ job'[w].at = "answer"
<1>1. job[w] \in JobType /\ kind \in {"CLIENT", "STANDBY"} /\ Legal(job[w]) /\ job[w].at = "fanout"
  BY Zenon DEF Shape, Typed, Jobs, FanoutRejected
<1>2. job[w].op \in WriteOps
  BY Zenon, <1>1 DEF Legal, JobType, Ops
<1>3. Legal([job[w] EXCEPT !.at = "answer"])
  BY Zenon, <1>1, <1>2 DEF Legal, WriteOps, JobType
<1>4. Goto(w, "answer") /\ "answer" \in Points
  BY Zenon DEF FanoutRejected, Points
<1> QED
  BY Zenon, <1>1, <1>2, <1>3, <1>4, NextFacts

\* A write that has been committed goes on to its delta, its pushes or its answer.
LEMMA CommitMoves ==
  ASSUME Shape, NEW w \in Workers, Commit(w)
  PROVE  /\ Moved(w) /\ job[w].op \in WriteOps /\ job[w].at = "commit"
         /\ job'[w].op = job[w].op /\ job'[w].c = job[w].c /\ job'[w].ver = job[w].ver
         /\ job'[w].list = job[w].list
         /\ job'[w].at = IF kind = "STANDBY" THEN "delta"
                         ELSE IF job[w].op = "DELETE" THEN "answer" ELSE "push"
<1>1. job[w] \in JobType /\ kind \in {"CLIENT", "STANDBY"} /\ Legal(job[w]) /\ job[w].at = "commit"
  BY Zenon DEF Shape, Typed, Jobs, Commit
<1>2. job[w].op \in WriteOps
  BY Zenon, <1>1 DEF Legal, JobType, Ops
<1> DEFINE at == IF kind = "STANDBY" THEN "delta" ELSE IF job[w].op = "DELETE" THEN "answer" ELSE "push"
<1>3. After(w) = at /\ at \in Points
  BY Zenon, <1>1 DEF After, Points
<1>4. Legal([job[w] EXCEPT !.at = at])
  BY Zenon, <1>1, <1>2 DEF Legal, WriteOps, JobType
<1>5. Goto(w, at)
  BY Zenon, <1>3 DEF Commit
<1> HIDE DEF at
<1>6. Moved(w) /\ job'[w].op = job[w].op /\ job'[w].c = job[w].c /\ job'[w].ver = job[w].ver
         /\ job'[w].list = job[w].list /\ job'[w].at = at
  BY Zenon, <1>3, <1>4, <1>5, NextFacts
<1> QED
  BY Zenon, <1>1, <1>2, <1>6 DEF at

\* sendDelta posts one STATE_DELTA on the registered session, if that is alive.
LEMMA DeltaMoves ==
  ASSUME Shape, NEW w \in Workers, SendDelta(w)
  PROVE  /\ Moved(w) /\ job[w].op \in WriteOps /\ job[w].at = "delta" /\ kind = "STANDBY"
         /\ job'[w].op = job[w].op /\ job'[w].c = job[w].c /\ job'[w].ver = job[w].ver
         /\ job'[w].list = job[w].list /\ job'[w].at = "answer"
         /\ IF endpoint # 0 /\ session[endpoint].state = "alive"
            THEN Posted(endpoint, Frame("STATE_DELTA", job[w].ver)) ELSE UNCHANGED session
         /\ session' \in [Conns -> SessionType] /\ Frame("STATE_DELTA", job[w].ver) \in FrameType
<1>1. job[w] \in JobType /\ kind \in {"CLIENT", "STANDBY"} /\ Legal(job[w]) /\ job[w].at = "delta"
  BY Zenon DEF Shape, Typed, Jobs, SendDelta
<1>2. job[w].op \in WriteOps /\ kind = "STANDBY"
  BY Zenon, <1>1 DEF Legal, JobType, Ops
<1>3. Legal([job[w] EXCEPT !.at = "answer"])
  BY Zenon, <1>1, <1>2 DEF Legal, WriteOps, JobType
<1>4. Goto(w, "answer") /\ "answer" \in Points
  BY Zenon, <1>1 DEF SendDelta, Points, After
<1>5. Moved(w) /\ job'[w].op = job[w].op /\ job'[w].c = job[w].c /\ job'[w].ver = job[w].ver
         /\ job'[w].list = job[w].list /\ job'[w].at = "answer"
  BY Zenon, <1>3, <1>4, NextFacts
<1>6. Frame("STATE_DELTA", job[w].ver) \in FrameType
  BY Zenon, <1>1 DEF Frame, FrameType, JobType
<1>7. CASE endpoint # 0 /\ session[endpoint].state = "alive"
  <2>1. endpoint \in Conns /\ Post(endpoint, Frame("STATE_DELTA", job[w].ver))
    BY <1>7, FollowersAssumption DEF SendDelta, Conns, Shape, Typed
  <2> QED
    BY Zenon, <1>1, <1>2, <1>5, <1>6, <1>7, <2>1, PostFacts DEF Shape
<1>8. CASE ~(endpoint # 0 /\ session[endpoint].state = "alive")
  <2>1. UNCHANGED session
    BY Zenon, <1>8 DEF SendDelta
  <2> QED
    BY Zenon, <1>1, <1>2, <1>5, <1>6, <1>8, <2>1 DEF Shape, Typed
<1> QED
  BY Zenon, <1>7, <1>8

\* The push posts one PUSH on the session that was listed.
LEMMA PushMoves ==
  ASSUME Shape, NEW w \in Workers, PushToClient(w)
  PROVE  /\ Moved(w) /\ job[w].op \in WriteOps /\ job[w].at = "push" /\ kind = "CLIENT"
         /\ job'[w].op = job[w].op /\ job'[w].c = job[w].c /\ job'[w].ver = job[w].ver
         /\ job'[w].list = job[w].list
         /\ job'[w].at = IF job[w].op = "DELETE" THEN "commit" ELSE "answer"
         /\ IF job[w].list # 0
            THEN Posted(job[w].list, Frame("PUSH", job[w].ver)) ELSE UNCHANGED session
         /\ session' \in [Conns -> SessionType] /\ Frame("PUSH", job[w].ver) \in FrameType
<1>1. job[w] \in JobType /\ kind \in {"CLIENT", "STANDBY"} /\ Legal(job[w]) /\ job[w].at = "push"
  BY Zenon DEF Shape, Typed, Jobs, PushToClient
<1>2. job[w].op \in WriteOps /\ kind = "CLIENT"
  BY Zenon, <1>1 DEF Legal, JobType, Ops
<1> DEFINE at == IF job[w].op = "DELETE" THEN "commit" ELSE "answer"
<1>3. After(w) = at /\ at \in Points
  BY Zenon, <1>1 DEF After, Points
<1>4. Legal([job[w] EXCEPT !.at = at])
  BY Zenon, <1>1, <1>2 DEF Legal, WriteOps, JobType
<1>5. Goto(w, at)
  BY Zenon, <1>3 DEF PushToClient
<1> HIDE DEF at
<1>6. Moved(w) /\ job'[w].op = job[w].op /\ job'[w].c = job[w].c /\ job'[w].ver = job[w].ver
         /\ job'[w].list = job[w].list /\ job'[w].at = at
  BY Zenon, <1>3, <1>4, <1>5, NextFacts
<1>7. Frame("PUSH", job[w].ver) \in FrameType
  BY Zenon, <1>1 DEF Frame, FrameType, JobType
<1>8. CASE job[w].list # 0
  <2>1. job[w].list \in Conns /\ Post(job[w].list, Frame("PUSH", job[w].ver))
    BY <1>1, <1>8, FollowersAssumption DEF PushToClient, Conns, JobType
  <2> QED
    BY Zenon, <1>1, <1>2, <1>6, <1>7, <1>8, <2>1, PostFacts DEF Shape, at
<1>9. CASE job[w].list = 0
  <2>1. UNCHANGED session
    BY Zenon, <1>9 DEF PushToClient
  <2> QED
    BY Zenon, <1>1, <1>2, <1>6, <1>7, <1>9, <2>1 DEF Shape, Typed, at
<1> QED
  BY Zenon, <1>8, <1>9

\* A worker ends its task or is lost in a call.
Ends(w) ==
  /\ Moved(w)
  /\ \/ job'[w] = Idle
     \/ /\ job'[w].op = job[w].op /\ job'[w].c = job[w].c /\ job'[w].ver = job[w].ver
        /\ job'[w].list = job[w].list /\ job'[w].at = "stuck"

\* A call to a session ends the task, or its worker is lost in it.
LEMMA EndsFacts ==
  ASSUME Shape, NEW w \in Workers, Set(w, Idle) \/ Goto(w, "stuck"),
         job[w].op \in WriteOps \cup {"SYNC", "CLOSE", "ROLLBACK"}
  PROVE  Ends(w)
<1>1. job[w] \in JobType /\ Legal(job[w])
  BY Zenon DEF Shape, Typed, Jobs
<1>2. Legal([job[w] EXCEPT !.at = "stuck"]) /\ "stuck" \in Points
  BY Zenon, <1>1 DEF Legal, JobType, Points, WriteOps
<1> QED
  BY Zenon, <1>2, EndFacts, NextFacts DEF Ends

\* The answer to the writer ends the write.
LEMMA AnswerMoves ==
  ASSUME Shape, NEW w \in Workers, AnswerWriter(w)
  PROVE  Ends(w) /\ job[w].op \in WriteOps /\ job[w].at = "answer"
BY Zenon, EndsFacts DEF AnswerWriter

\* The rollback of a create is a task of its own.
LEMMA UndoMoves ==
  ASSUME Shape, NEW w \in Workers, Undo(w)
  PROVE  Ends(w) /\ job[w].op = "ROLLBACK" /\ job[w].at = "undo"
<1>1. job[w] \in JobType /\ Legal(job[w]) /\ job[w].at = "undo"
  BY Zenon DEF Shape, Typed, Jobs, Undo
<1>2. job[w].op = "ROLLBACK"
  BY Zenon, <1>1 DEF Legal, JobType, Ops, WriteOps
<1> QED
  BY Zenon, <1>1, <1>2, EndsFacts DEF Undo

\* A job about the connection of a client or a standby.
LEMMA JobConn ==
  ASSUME Shape, NEW w \in Workers, job[w].op \in {"ACCEPT", "SYNC", "CLOSE"}
  PROVE  job[w].c \in Conns /\ job[w].c <= follower.c
BY FollowersAssumption DEF Shape, Typed, Jobs, Known, JobType, Conns

\* The last connection is the follower's, and up as long as it is not off.
LEMMA FollowerConn ==
  ASSUME Shape, follower.at # "off"
  PROVE  follower.c \in Conns /\ Up(follower.c)
BY FollowersAssumption DEF Shape, Typed, Links, FollowerType, Conns, Up

\* A connection is up exactly if it is the one the follower has.
LEMMA UpConn ==
  ASSUME Shape, NEW c \in Conns
  PROVE  Up(c) <=> c = follower.c /\ follower.at # "off"
BY Zenon, FollowersAssumption DEF Shape, Links, Conns, Up

\* A new point of the follower's own code.
LEMMA FollowerAt ==
  ASSUME Typed, NEW at \in {"off", "handshake", "new", "sync", "on"}, follower' = [follower EXCEPT !.at = at]
  PROVE  /\ follower' \in FollowerType /\ follower'.c = follower.c /\ follower'.at = at
         /\ follower'.view = follower.view
BY Zenon DEF Typed, FollowerType

\* handleAccept: the handshake of a connection that is up is the follower's own.
LEMMA HandshakeMoves ==
  ASSUME Shape, NEW w \in Workers, Handshake(w)
  PROVE  /\ Moved(w) /\ job[w].op = "ACCEPT" /\ job[w].at = "handshake" /\ job[w].c \in Conns
         /\ \/ /\ ~Up(job[w].c) /\ job'[w] = Idle /\ UNCHANGED <<session, follower>>
            \/ /\ Up(job[w].c) /\ job[w].c = follower.c /\ follower.at # "off"
               /\ job'[w].op = "ACCEPT" /\ job'[w].c = job[w].c /\ job'[w].ver = job[w].ver
               /\ follower' \in FollowerType /\ follower'.c = follower.c /\ follower'.view = follower.view
               /\ \/ /\ kind = "STANDBY" /\ follower'.at = "on" /\ job'[w].at = "read"
                     /\ session' = [session EXCEPT ![job[w].c].state = "alive"]
                  \/ /\ kind = "CLIENT" /\ follower'.at = "new" /\ job'[w].at = "register"
                     /\ UNCHANGED session
<1>1. job[w] \in JobType /\ Legal(job[w]) /\ job[w].at = "handshake"
  BY Zenon DEF Shape, Typed, Jobs, Handshake
<1>2. job[w].op = "ACCEPT"
  BY Zenon, <1>1 DEF Legal, JobType, Ops, WriteOps
<1>3. job[w].c \in Conns
  BY Zenon, <1>2, JobConn
<1>4. CASE ~Up(job[w].c) /\ Set(w, Idle) /\ UNCHANGED <<session, follower>>
  BY Zenon, <1>1, <1>2, <1>3, <1>4, EndFacts
<1>5. CASE Up(job[w].c) /\ kind = "STANDBY" /\ StandbyStarts(w)
  <2>1. Legal([job[w] EXCEPT !.at = "read"]) /\ "read" \in Points /\ Goto(w, "read")
    BY Zenon, <1>1, <1>2, <1>5 DEF Legal, JobType, Points, WriteOps, StandbyStarts
  <2>2. /\ Moved(w) /\ job'[w].op = job[w].op /\ job'[w].c = job[w].c /\ job'[w].at = "read"
        /\ job'[w].ver = job[w].ver
    BY Zenon, <2>1, NextFacts
  <2>3. follower' \in FollowerType /\ follower'.c = follower.c /\ follower'.at = "on"
        /\ follower'.view = follower.view
    BY Zenon, <1>5, FollowerAt DEF StandbyStarts, Shape
  <2>4. session' = [session EXCEPT ![job[w].c].state = "alive"]
    BY Zenon, <1>5 DEF StandbyStarts
  <2> QED
    BY Zenon, <1>1, <1>2, <1>3, <1>5, <2>2, <2>3, <2>4, UpConn
<1>6. CASE Up(job[w].c) /\ kind = "CLIENT" /\ Goto(w, "register")
           /\ follower' = [follower EXCEPT !.at = "new"] /\ UNCHANGED session
  <2>1. Legal([job[w] EXCEPT !.at = "register"]) /\ "register" \in Points
    BY Zenon, <1>1, <1>2 DEF Legal, JobType, Points, WriteOps
  <2>2. Moved(w) /\ job'[w].op = job[w].op /\ job'[w].c = job[w].c /\ job'[w].at = "register"
        /\ job'[w].ver = job[w].ver
    BY Zenon, <1>6, <2>1, NextFacts
  <2>3. follower' \in FollowerType /\ follower'.c = follower.c /\ follower'.at = "new"
        /\ follower'.view = follower.view
    BY Zenon, <1>6, FollowerAt DEF Shape
  <2> QED
    BY Zenon, <1>1, <1>2, <1>3, <1>6, <2>2, <2>3, UpConn
<1> QED
  BY Zenon, <1>4, <1>5, <1>6 DEF Handshake

\* registerStandby, or the assignment to clientEndpointMap_: the name becomes the
\* connection of the job.
LEMMA RegisterMoves ==
  ASSUME Shape, NEW w \in Workers, Register(w)
  PROVE  /\ Moved(w) /\ job[w].op = "ACCEPT" /\ job[w].at = "register" /\ job[w].c \in Conns
         /\ endpoint' = job[w].c /\ job[w].c <= follower.c
         /\ IF kind = "CLIENT"
            THEN /\ job'[w].op = "ACCEPT" /\ job'[w].c = job[w].c /\ job'[w].at = "read"
                 /\ job'[w].ver = job[w].ver
            ELSE job'[w] = Idle
<1>1. job[w] \in JobType /\ Legal(job[w]) /\ job[w].at = "register" /\ endpoint' = job[w].c
  BY Zenon DEF Shape, Typed, Jobs, Register
<1>2. job[w].op = "ACCEPT"
  BY Zenon, <1>1 DEF Legal, JobType, Ops, WriteOps
<1>3. job[w].c \in Conns /\ job[w].c <= follower.c
  BY Zenon, <1>2, JobConn
<1>4. CASE kind = "CLIENT"
  <2>1. Legal([job[w] EXCEPT !.at = "read"]) /\ "read" \in Points /\ Goto(w, "read")
    BY Zenon, <1>1, <1>2, <1>4 DEF Legal, JobType, Points, WriteOps, Register
  <2> QED
    BY Zenon, <1>1, <1>2, <1>3, <1>4, <2>1, NextFacts
<1>5. CASE kind # "CLIENT"
  <2>1. Set(w, Idle)
    BY Zenon, <1>5 DEF Register
  <2> QED
    BY Zenon, <1>1, <1>2, <1>3, <1>5, <2>1, EndFacts
<1> QED
  BY Zenon, <1>4, <1>5

\* getFileVersionMap: the job keeps the higher of the two versions.
LEMMA ReadMoves ==
  ASSUME Shape, NEW w \in Workers, GetFileVersionMap(w)
  PROVE  /\ Moved(w) /\ job[w].op \in {"ACCEPT", "SYNC"} /\ job[w].at = "read"
         /\ job'[w].op = job[w].op /\ job'[w].c = job[w].c /\ job'[w].list = job[w].list
         /\ job'[w].ver = IF stored > version THEN stored ELSE version
         /\ job'[w].at = IF job[w].op = "SYNC" THEN "answer" ELSE IF kind = "CLIENT" THEN "burst" ELSE "snap"
<1> DEFINE listed == IF stored > version THEN stored ELSE version
           at == IF job[w].op = "SYNC" THEN "answer" ELSE IF kind = "CLIENT" THEN "burst" ELSE "snap"
<1>1. /\ job[w] \in JobType /\ Legal(job[w]) /\ job[w].at = "read" /\ Known(job[w].c, job[w].op)
      /\ job[w].list <= follower.c
      /\ version \in VerType /\ stored \in VerType /\ kind \in {"CLIENT", "STANDBY"}
  BY Zenon DEF Shape, Typed, Jobs, GetFileVersionMap
<1>2. job[w].op \in {"ACCEPT", "SYNC"}
  BY Zenon, <1>1 DEF Legal, JobType, Ops, WriteOps
<1>3. Set(w, [job[w] EXCEPT !.ver = listed, !.at = at])
  BY Zenon, <1>2 DEF GetFileVersionMap
<1>4. listed \in VerType /\ at \in Points
  BY Zenon, <1>1 DEF Points
<1>5. at \in {"answer", "burst", "snap"} /\ (job[w].op = "SYNC" <=> at = "answer")
      /\ (at = "burst" => kind = "CLIENT") /\ (at = "snap" => kind = "STANDBY")
  BY Zenon, <1>1
<1> HIDE DEF listed, at
<1>6. [job[w] EXCEPT !.ver = listed, !.at = at] \in JobType
  BY Zenon, <1>1, <1>4 DEF JobType
<1>7. /\ job'[w] = [job[w] EXCEPT !.ver = listed, !.at = at]
      /\ job' \in [Workers -> JobType] /\ Only(w)
  BY Zenon, <1>3, <1>6, SetFacts DEF Shape
<1>8. /\ job'[w].op = job[w].op /\ job'[w].c = job[w].c /\ job'[w].at = at
      /\ job'[w].list = job[w].list /\ job'[w].ver = listed
  BY Zenon, <1>1, <1>7 DEF JobType
<1>9. Legal(job'[w])
  BY Zenon, <1>1, <1>2, <1>5, <1>8 DEF Legal, WriteOps
<1> QED
  BY Zenon, <1>1, <1>2, <1>7, <1>8, <1>9 DEF Moved, Known, listed, at

\* The burst of a client posts at most one PUSH, and its session starts.
LEMMA BurstMoves ==
  ASSUME Shape, NEW w \in Workers, BurstAndStart(w)
  PROVE  /\ Moved(w) /\ job[w].op = "ACCEPT" /\ job[w].at = "burst" /\ job[w].c \in Conns
         /\ kind = "CLIENT" /\ job'[w] = Idle
         /\ session' \in [Conns -> SessionType] /\ Frame("PUSH", job[w].ver) \in FrameType
         /\ \A d \in Conns \ {job[w].c} : session'[d] = session[d]
         /\ session'[job[w].c].link = session[job[w].c].link /\ session'[job[w].c].state = "alive"
         /\ session'[job[w].c].request = session[job[w].c].request
         /\ session'[job[w].c].out \in {session[job[w].c].out,
                                        Append(session[job[w].c].out, Frame("PUSH", job[w].ver))}
<1> DEFINE c == job[w].c
           o == IF job[w].ver # Absent /\ version # Absent
                THEN Append(session[c].out, Frame("PUSH", job[w].ver)) ELSE session[c].out
<1>1. job[w] \in JobType /\ Legal(job[w]) /\ job[w].at = "burst" /\ Set(w, Idle)
  BY Zenon DEF Shape, Typed, Jobs, BurstAndStart
<1>2. job[w].op = "ACCEPT" /\ kind = "CLIENT"
  BY Zenon, <1>1 DEF Legal, JobType, Ops, WriteOps
<1>3. c \in Conns
  BY Zenon, <1>2, JobConn
<1>4. Moved(w) /\ job'[w] = Idle
  BY Zenon, <1>1, EndFacts
<1>5. Frame("PUSH", job[w].ver) \in FrameType
  BY Zenon, <1>1 DEF Frame, FrameType, JobType
<1>6. session \in [Conns -> SessionType] /\ session[c] \in SessionType /\ session[c].out \in Seq(FrameType)
  BY Zenon, <1>3 DEF Shape, Typed, SessionType
<1>7. o \in Seq(FrameType) /\ o \in {session[c].out, Append(session[c].out, Frame("PUSH", job[w].ver))}
  BY <1>5, <1>6
<1>8. session' = [session EXCEPT ![c] = [session[c] EXCEPT !.state = "alive", !.out = o]]
  BY Zenon, <1>3, <1>6 DEF BurstAndStart
<1> HIDE DEF o, c
<1>9. [session[c] EXCEPT !.state = "alive", !.out = o] \in SessionType
  BY Zenon, <1>6, <1>7 DEF SessionType
<1>10. /\ session'[c] = [session[c] EXCEPT !.state = "alive", !.out = o]
       /\ session' \in [Conns -> SessionType] /\ \A d \in Conns \ {c} : session'[d] = session[d]
  BY Zenon, <1>3, <1>6, <1>8, <1>9
<1>11. /\ session'[c].link = session[c].link /\ session'[c].state = "alive"
       /\ session'[c].request = session[c].request /\ session'[c].out = o
  BY Zenon, <1>6, <1>10 DEF SessionType
<1> QED
  BY Zenon, <1>1, <1>2, <1>3, <1>4, <1>5, <1>7, <1>10, <1>11 DEF c

\* A call that only sends.
LEMMA SentFacts ==
  ASSUME Typed, NEW c \in Conns, NEW f \in FrameType, Sent(c, f)
  PROVE  /\ session' \in [Conns -> SessionType]
         /\ \A d \in Conns \ {c} : session'[d] = session[d]
         /\ session'[c].link = session[c].link /\ session'[c].request = session[c].request
         /\ Up(c) => session'[c].state = session[c].state /\ session'[c].out = Append(session[c].out, f)
         /\ ~Up(c) => session'[c].state = "dead" /\ session'[c].out = session[c].out
<1>1. CASE Up(c)
  <2>1. Post(c, f)
    BY Zenon, <1>1 DEF Sent, Post
  <2> QED
    BY Zenon, <1>1, <2>1, PostFacts DEF Posted
<1>2. CASE ~Up(c)
  <2>1. session' = [session EXCEPT ![c].state = "dead"]
    BY Zenon, <1>2 DEF Sent
  <2> QED
    BY Zenon, <1>2, <2>1, StateFacts
<1> QED
  BY Zenon, <1>1, <1>2

\* sendStateSnap sends what the job has read, before the standby is registered.
LEMMA SnapMoves ==
  ASSUME Shape, NEW w \in Workers, SendStateSnap(w)
  PROVE  /\ Moved(w) /\ job[w].op = "ACCEPT" /\ job[w].at = "snap" /\ job[w].c \in Conns
         /\ kind = "STANDBY" /\ job'[w].op = "ACCEPT" /\ job'[w].at = "register"
         /\ job'[w].c = job[w].c /\ job'[w].ver = job[w].ver
         /\ Sent(job[w].c, Frame("STATE_SNAP", job[w].ver)) /\ Frame("STATE_SNAP", job[w].ver) \in FrameType
<1>1. job[w] \in JobType /\ Legal(job[w]) /\ job[w].at = "snap" /\ Goto(w, "register")
  BY Zenon DEF Shape, Typed, Jobs, SendStateSnap
<1>2. job[w].op = "ACCEPT" /\ kind = "STANDBY"
  BY Zenon, <1>1 DEF Legal, JobType, Ops, WriteOps
<1>3. job[w].c \in Conns
  BY Zenon, <1>2, JobConn
<1>4. Legal([job[w] EXCEPT !.at = "register"]) /\ "register" \in Points
  BY Zenon, <1>1, <1>2 DEF Legal, JobType, Points, WriteOps
<1>5. Moved(w) /\ job'[w].op = job[w].op /\ job'[w].at = "register" /\ job'[w].c = job[w].c /\ job'[w].ver = job[w].ver
  BY Zenon, <1>1, <1>4, NextFacts
<1>6. Frame("STATE_SNAP", job[w].ver) \in FrameType
  BY Zenon, <1>1 DEF Frame, FrameType, JobType
<1> QED
  BY Zenon, <1>1, <1>2, <1>3, <1>5, <1>6 DEF SendStateSnap

\* The answer to SYNC_STATUS sends what the job has read, or its worker is lost.
LEMMA SyncMoves ==
  ASSUME Shape, NEW w \in Workers, AnswerSync(w)
  PROVE  /\ Ends(w) /\ job[w].op = "SYNC" /\ job[w].at = "answer" /\ job[w].c \in Conns /\ kind = "CLIENT"
         /\ Frame("RESPONSE", job[w].ver) \in FrameType
         /\ IF session[job[w].c].state = "dead"
            THEN UNCHANGED session /\ job'[w].op = "SYNC" /\ job'[w].c = job[w].c /\ job'[w].at = "stuck"
            ELSE Sent(job[w].c, Frame("RESPONSE", job[w].ver)) /\ job'[w] = Idle
<1>1. job[w] \in JobType /\ Legal(job[w]) /\ job[w].at = "answer" /\ job[w].op = "SYNC"
  BY Zenon DEF Shape, Typed, Jobs, AnswerSync
<1>2. job[w].c \in Conns /\ kind = "CLIENT"
  BY Zenon, <1>1, JobConn DEF Legal
<1>3. Ends(w)
  BY Zenon, <1>1, EndsFacts DEF AnswerSync
<1>4. Frame("RESPONSE", job[w].ver) \in FrameType
  BY Zenon, <1>1 DEF Frame, FrameType, JobType
<1>5. CASE session[job[w].c].state = "dead"
  <2>1. Goto(w, "stuck") /\ UNCHANGED session
    BY Zenon, <1>5 DEF AnswerSync
  <2>2. job'[w].op = job[w].op /\ job'[w].c = job[w].c /\ job'[w].at = "stuck"
    BY Zenon, <2>1, GotoFacts DEF Shape, Points
  <2> QED
    BY Zenon, <1>1, <1>2, <1>3, <1>4, <1>5, <2>1, <2>2
<1>6. CASE session[job[w].c].state # "dead"
  <2>1. Set(w, Idle) /\ Sent(job[w].c, Frame("RESPONSE", job[w].ver))
    BY Zenon, <1>6 DEF AnswerSync
  <2> QED
    BY Zenon, <1>1, <1>2, <1>3, <1>4, <1>6, <2>1, EndFacts
<1> QED
  BY Zenon, <1>5, <1>6

\* The answer to CLOSE goes out, or its worker is lost.
LEMMA CloseMoves ==
  ASSUME Shape, NEW w \in Workers, AnswerClose(w)
  PROVE  /\ Moved(w) /\ job[w].op = "CLOSE" /\ job'[w].op = "CLOSE" /\ job'[w].c = job[w].c
         /\ job[w].at = "answer" /\ job'[w].at \in {"stuck", "closing"} /\ job'[w].ver = job[w].ver
<1>1. job[w] \in JobType /\ Legal(job[w]) /\ job[w].at = "answer" /\ job[w].op = "CLOSE"
  BY Zenon DEF Shape, Typed, Jobs, AnswerClose
<1>2. PICK at \in {"stuck", "closing"} : Goto(w, at)
  BY Zenon DEF AnswerClose
<1>3. Legal([job[w] EXCEPT !.at = at]) /\ at \in Points
  BY Zenon, <1>1, <1>2 DEF Legal, JobType, Points, WriteOps
<1> QED
  BY Zenon, <1>1, <1>2, <1>3, NextFacts

\* setIsAlive(false) ends the task.
LEMMA ClosingMoves ==
  ASSUME Shape, NEW w \in Workers, CloseSession(w)
  PROVE  /\ Moved(w) /\ job[w].op = "CLOSE" /\ job'[w] = Idle /\ job[w].c \in Conns
         /\ job[w].at = "closing"
<1>1. job[w] \in JobType /\ Legal(job[w]) /\ job[w].at = "closing" /\ Set(w, Idle)
  BY Zenon DEF Shape, Typed, Jobs, CloseSession
<1>2. job[w].op = "CLOSE"
  BY Zenon, <1>1 DEF Legal, JobType, Ops, WriteOps
<1> QED
  BY Zenon, <1>1, <1>2, JobConn, EndFacts

\* The task that forgets a client ends with it.
LEMMA EraseMoves ==
  ASSUME Shape, NEW w \in Workers, EraseClient(w)
  PROVE  /\ Moved(w) /\ job[w].op = "ERASE" /\ job'[w] = Idle /\ job[w].at = "erase"
<1>1. job[w] \in JobType /\ Legal(job[w]) /\ job[w].at = "erase" /\ Set(w, Idle)
  BY Zenon DEF Shape, Typed, Jobs, EraseClient
<1>2. job[w].op = "ERASE"
  BY Zenon, <1>1 DEF Legal, JobType, Ops, WriteOps
<1> QED
  BY Zenon, <1>1, <1>2, EndFacts

-----------------------------------------------------------------------------
(* The steps of the sessions, the follower and its connection.             *)

\* A new connection: its session is untouched, and its acceptance is queued.
LEMMA ConnectFacts ==
  ASSUME Shape, Connect
  PROVE  LET c == follower.c + 1
         IN /\ c \in Conns /\ session[c] = NewSession
            /\ session' \in [Conns -> SessionType] /\ \A d \in Conns \ {c} : session'[d] = session[d]
            /\ session'[c].link = "up" /\ session'[c].state = "new"
            /\ session'[c].request = "none" /\ session'[c].out = <<>>
            /\ follower' \in FollowerType /\ follower'.c = c /\ follower'.at = "handshake"
            /\ follower'.view = follower.view
            /\ left' \in LeftType /\ left'.conns = left.conns - 1 /\ left'.writes = left.writes
            /\ Task("ACCEPT", c, Absent) \in TaskType /\ tasks' = Append(tasks, Task("ACCEPT", c, Absent))
<1> DEFINE c == follower.c + 1
<1>1. /\ follower \in FollowerType /\ left \in LeftType /\ left.conns > 0
      /\ follower.c + left.conns <= MaxConns /\ MaxConns \in Nat
  BY Zenon, FollowersAssumption DEF Connect, Shape, Typed, Links
<1>2. c \in Conns /\ follower.c \in Nat /\ c \in 0 .. MaxConns
  BY <1>1 DEF Conns, FollowerType, LeftType
<1>3. session[c] = NewSession
  BY <1>2 DEF Shape, Links
<1>4. session' = [session EXCEPT ![c] = [session[c] EXCEPT !.link = "up"]]
  BY Zenon, <1>2 DEF Connect, Shape, Typed
<1>5. follower' = [follower EXCEPT !.c = c, !.at = "handshake"]
  BY Zenon DEF Connect
<1>6. Task("ACCEPT", c, Absent) \in TaskType /\ tasks' = Append(tasks, Task("ACCEPT", c, Absent))
  BY Zenon, <1>2 DEF Task, TaskType, Ops, VerType, Connect, Submit
<1>7. left' \in LeftType /\ left'.conns = left.conns - 1 /\ left'.writes = left.writes
  BY <1>1 DEF Connect, LeftType
<1> HIDE DEF c
<1>8. /\ [session[c] EXCEPT !.link = "up"] \in SessionType
      /\ [session[c] EXCEPT !.link = "up"].link = "up" /\ [session[c] EXCEPT !.link = "up"].state = "new"
      /\ [session[c] EXCEPT !.link = "up"].request = "none" /\ [session[c] EXCEPT !.link = "up"].out = <<>>
  <2>1. <<>> \in Seq(FrameType)
    OBVIOUS
  <2> DEFINE e == <<>>
  <2>2. session[c] = [link |-> "none", state |-> "new", request |-> "none", out |-> e] /\ e \in Seq(FrameType)
    BY Zenon, <1>3, <2>1 DEF NewSession
  <2> HIDE DEF e
  <2>3. [session[c] EXCEPT !.link = "up"] = [link |-> "up", state |-> "new", request |-> "none", out |-> e]
    BY <2>2
  <2> QED
    BY Zenon, <2>2, <2>3 DEF SessionType, e
<1>9. /\ session'[c] = [session[c] EXCEPT !.link = "up"] /\ session' \in [Conns -> SessionType]
      /\ \A d \in Conns \ {c} : session'[d] = session[d]
  BY Zenon, <1>2, <1>4, <1>8 DEF Shape, Typed
<1>10. follower' \in FollowerType /\ follower'.c = c /\ follower'.at = "handshake" /\ follower'.view = follower.view
  BY Zenon, <1>1, <1>2, <1>5 DEF FollowerType
<1> QED
  BY Zenon, <1>2, <1>3, <1>6, <1>7, <1>8, <1>9, <1>10 DEF c

\* A connection that ends takes along the frames that were not read.
LEMMA OffFacts ==
  ASSUME Shape, follower.at # "off", NEW l \in {"closed", "down"}, NEW r \in {"none", "CLOSE"},
         NEW v \in VerType, Off(l, r, v)
  PROVE  LET c == follower.c
         IN /\ c \in Conns
            /\ session' \in [Conns -> SessionType] /\ \A d \in Conns \ {c} : session'[d] = session[d]
            /\ session'[c].link = l /\ session'[c].state = session[c].state
            /\ session'[c].request = r /\ session'[c].out = <<>>
            /\ follower' \in FollowerType /\ follower'.c = c /\ follower'.at = "off" /\ follower'.view = v
<1> DEFINE c == follower.c
           s == [session[c] EXCEPT !.link = l, !.request = r, !.out = <<>>]
<1>1. c \in Conns /\ follower \in FollowerType /\ session[c] \in SessionType
  BY Zenon, FollowerConn DEF Shape, Typed
<1>2. session' = [session EXCEPT ![c] = s]
  BY Zenon, <1>1 DEF Off, Shape, Typed
<1>3. follower' \in FollowerType /\ follower'.c = c /\ follower'.at = "off" /\ follower'.view = v
  BY Zenon, <1>1 DEF Off, FollowerType
<1>4. s \in SessionType /\ s.link = l /\ s.state = session[c].state /\ s.request = r /\ s.out = <<>>
  <2>1. <<>> \in Seq(FrameType)
    OBVIOUS
  <2> DEFINE e == <<>>
             x == session[c]
  <2>2. e \in Seq(FrameType) /\ x \in SessionType /\ s = [x EXCEPT !.link = l, !.request = r, !.out = e]
    BY Zenon, <1>1, <2>1
  <2> HIDE DEF e, x, s
  <2>3. s \in SessionType /\ s.link = l /\ s.state = x.state /\ s.request = r /\ s.out = e
    BY Zenon, <2>2 DEF SessionType
  <2> QED
    BY Zenon, <2>3 DEF e, x
<1> HIDE DEF c, s
<1>5. session'[c] = s /\ session' \in [Conns -> SessionType] /\ \A d \in Conns \ {c} : session'[d] = session[d]
  BY Zenon, <1>1, <1>2, <1>4 DEF Shape, Typed
<1> QED
  BY Zenon, <1>1, <1>3, <1>4, <1>5 DEF c

\* The follower reads the oldest frame; its map gets the frame's version, unless
\* it waits for its listing or keeps an entry that the listing lacks.
LEMMA FrameFacts ==
  ASSUME Shape, ReadFrame
  PROVE  LET c == follower.c
             f == session[c].out[1]
         IN /\ c \in Conns /\ session[c].out # <<>> /\ session[c].out \in Seq(FrameType) /\ f \in FrameType
            /\ session[c].state = "alive"
            /\ session' \in [Conns -> SessionType] /\ \A d \in Conns \ {c} : session'[d] = session[d]
            /\ session'[c].link = session[c].link /\ session'[c].state = session[c].state
            /\ session'[c].request = session[c].request /\ session'[c].out = Tail(session[c].out)
            /\ f.what \in FramesOf
            /\ follower.at \in {"new", "sync", "on"}
            /\ follower' \in FollowerType /\ follower'.c = c
            /\ follower'.at = IF f.what = "RESPONSE" THEN "on" ELSE follower.at
            /\ follower'.view \in {f.ver, follower.view}
            /\ f.what = "RESPONSE" \/ follower.at # "sync" =>
                 follower'.view = f.ver \/ "kept" \in events'
<1> DEFINE c == follower.c
           o == Tail(session[c].out)
           f == session[c].out[1]
           view == CASE f.what = "PUSH" -> Pushed(f)
                     [] f.what = "RESPONSE" -> Merged(f)
                     [] f.what \in {"STATE_SNAP", "STATE_DELTA"} -> Applied(f)
<1>1. /\ follower.at \in {"new", "sync", "on"} /\ session[c].state = "alive" /\ session[c].out # <<>>
      /\ follower \in FollowerType
  BY Zenon DEF ReadFrame, Shape, Typed
<1>2. c \in Conns /\ session[c] \in SessionType /\ session[c].out \in Seq(FrameType)
  BY Zenon, <1>1, FollowerConn DEF Shape, Typed, SessionType
<1>3. f = Head(session[c].out) /\ f \in FrameType /\ o \in Seq(FrameType) /\ 1 \in 1 .. Len(session[c].out)
  BY <1>1, <1>2, TailFacts
<1>4. session' = [session EXCEPT ![c] = [session[c] EXCEPT !.out = o]]
  BY Zenon, <1>2 DEF ReadFrame, Shape, Typed
<1>5. /\ follower' = [follower EXCEPT !.view = view, !.at = IF f.what = "RESPONSE" THEN "on" ELSE follower.at]
      /\ Happens("kept", f.what = "RESPONSE" /\ view # f.ver)
  BY Zenon, <1>3 DEF ReadFrame
<1>6. f.what \in FramesOf
  BY Zenon, <1>2, <1>3 DEF Shape, Streams
<1> HIDE DEF o, f, c
<1>7. /\ view \in {f.ver, follower.view}
      /\ follower.at # "sync" /\ f.what # "RESPONSE" => view = f.ver
  BY Zenon, <1>3 DEF Pushed, Merged, Applied, FrameType
<1> HIDE DEF view
<1>8. [session[c] EXCEPT !.out = o] \in SessionType
  BY Zenon, <1>2, <1>3 DEF SessionType
<1>9. /\ session'[c] = [session[c] EXCEPT !.out = o] /\ session' \in [Conns -> SessionType]
      /\ \A d \in Conns \ {c} : session'[d] = session[d]
  BY Zenon, <1>2, <1>4, <1>8 DEF Shape, Typed
<1>10. /\ session'[c].link = session[c].link /\ session'[c].state = session[c].state
       /\ session'[c].request = session[c].request /\ session'[c].out = o
  BY Zenon, <1>2, <1>9 DEF SessionType
<1>11. view \in VerType
  BY Zenon, <1>1, <1>3, <1>7 DEF FrameType, FollowerType
<1>12. /\ follower' \in FollowerType /\ follower'.c = follower.c /\ follower'.view = view
       /\ follower'.at = IF f.what = "RESPONSE" THEN "on" ELSE follower.at
  BY Zenon, <1>1, <1>5, <1>11 DEF FollowerType
<1>13. f.what = "RESPONSE" => view = f.ver \/ "kept" \in events'
  BY Zenon, <1>5 DEF Happens
<1> QED
  BY Zenon, <1>1, <1>2, <1>3, <1>6, <1>7, <1>9, <1>10, <1>12, <1>13 DEF c, o, f

-----------------------------------------------------------------------------
(* The shape is kept.                                                      *)

\* What the frames of connection d become.
Flows(d) ==
  LET o == session[d].out
      p == session'[d].out
  IN \/ p = o
     \/ p = <<>>
     \/ \E f \in FrameType : f.what \in FramesOf /\ p = Append(o, f)
     \/ o # <<>> /\ p = Tail(o)

\* What a step that keeps the connection may do to the sessions ...
SessionsOK ==
  /\ session' \in [Conns -> SessionType]
  /\ \A d \in Conns : /\ Flows(d)
                      /\ session'[d].link = session[d].link
                      /\ d > follower.c => session'[d] = session[d]
                      /\ kind = "STANDBY" => session'[d].request = "none"

\* ... to the tasks ...
TasksOK ==
  \/ UNCHANGED tasks
  \/ tasks # <<>> /\ tasks' = Tail(tasks)
  \/ \E t \in TaskType : /\ tasks' = Append(tasks, t) /\ Known(t.c, t.op)
                         /\ t.op \in {"SYNC", "CLOSE"} => kind = "CLIENT"

\* ... and to the rest.
OthersOK ==
  /\ UNCHANGED kind /\ version' \in VerType /\ stored' \in VerType
  /\ endpoint' \in 0 .. MaxConns /\ endpoint' <= follower.c
  /\ hb' \in {"asleep", "erase"}
  /\ follower' \in FollowerType /\ follower'.c = follower.c
  /\ follower'.at = "off" <=> follower.at = "off"
  /\ kind = "STANDBY" => follower'.at \notin {"new", "sync"}
  /\ left' \in LeftType /\ left'.conns = left.conns
  /\ events' \subseteq Events

\* An event is one of those named, and is not forgotten.
LEMMA EventsOK ==
  ASSUME Shape, NEW e \in Events, NEW b, Happens(e, b)
  PROVE  events' \subseteq Events /\ events \subseteq events'
BY Zenon DEF Happens, Shape, Typed

\* The initial state.
LEMMA InitShape ==
  ASSUME Init
  PROVE  Shape
<1>1. PICK s \in Scenarios : kind = s.kind /\ left = [writes |-> s.writes, conns |-> s.conns, faults |-> s.faults]
  BY Zenon DEF Init
<1>2. /\ s.kind \in {"CLIENT", "STANDBY"} /\ s.writes \in 0 .. MaxWrites /\ s.conns \in 0 .. MaxConns
      /\ s.faults \in Nat /\ MaxConns \in Nat
  BY Zenon, FollowersAssumption
<1>3. kind \in {"CLIENT", "STANDBY"} /\ left \in LeftType /\ left.conns <= MaxConns
  BY <1>1, <1>2 DEF LeftType
<1>4. NewSession \in SessionType /\ NewSession.link = "none" /\ NewSession.request = "none" /\ NewSession.out = <<>>
  <2> DEFINE e == <<>>
  <2>1. e \in Seq(FrameType) /\ NewSession = [link |-> "none", state |-> "new", request |-> "none", out |-> e]
    BY DEF NewSession
  <2> HIDE DEF e
  <2>2. NewSession \in SessionType /\ NewSession.link = "none" /\ NewSession.request = "none" /\ NewSession.out = e
    BY Zenon, <2>1 DEF SessionType
  <2> QED
    BY Zenon, <2>2 DEF e
<1>5. /\ version \in VerType /\ stored \in VerType /\ tasks = <<>> /\ tasks \in Seq(TaskType)
      /\ endpoint = 0 /\ 0 \in 0 .. MaxConns /\ hb \in {"asleep", "erase"} /\ events \subseteq Events
  BY <1>2 DEF Init, VerType
<1>6. follower \in FollowerType /\ follower.c = 0 /\ follower.at = "off"
  BY Zenon, <1>5 DEF Init, FollowerType, VerType
<1>7. job \in [Workers -> JobType] /\ \A w \in Workers : job[w] = Idle
  BY Zenon, IdleFacts DEF Init
<1>8. session \in [Conns -> SessionType] /\ \A c \in Conns : session[c] = NewSession
  BY Zenon, <1>4 DEF Init
<1>9. Typed
  BY Zenon, <1>3, <1>5, <1>6, <1>7, <1>8 DEF Typed
<1>10. Jobs
  <2>1. Legal(Idle)
    BY Zenon, IdleFacts DEF Legal, WriteOps
  <2>2. Known(Idle.c, Idle.op) /\ Idle.list <= follower.c
    BY <1>6, IdleFacts DEF Known
  <2> QED
    BY Zenon, <1>7, <2>1, <2>2 DEF Jobs
<1>11. Queue
  BY <1>5 DEF Queue
<1>12. Links
  BY <1>2, <1>3, <1>4, <1>5, <1>6, <1>8 DEF Links, LeftType
<1>13. Streams
  BY <1>4, <1>8 DEF Streams
<1> QED
  BY Zenon, <1>9, <1>10, <1>11, <1>12, <1>13 DEF Shape

\* Every step.
LEMMA ShapeStep ==
  Shape /\ [Next]_vars => Shape'
\* Jobs is kept when one worker moves ...
<1>JobsMoved.
    ASSUME Shape, NEW w \in Workers, Moved(w), UNCHANGED kind, follower'.c = follower.c
    PROVE  Jobs'
  BY <1>JobsMoved DEF Shape, Jobs, Moved, Only, Legal, Known
\* ... and when none does.
<1>JobsKept.
    ASSUME Shape, UNCHANGED <<job, kind>>, follower'.c \in {follower.c, follower.c + 1}
    PROVE  Jobs'
  <2> USE <1>JobsKept
  <2>1. follower.c \in Nat /\ \A w \in Workers : job[w].c \in Nat /\ job[w].list \in Nat
    BY FollowersAssumption DEF Shape, Typed, FollowerType, JobType
  <2> QED
    BY <2>1 DEF Shape, Jobs, Legal, Known
\* Queue is kept when the tasks are ...
<1>QueueKept.
    ASSUME Shape, UNCHANGED <<tasks, kind>>, follower'.c = follower.c
    PROVE  Queue'
  BY Zenon, <1>QueueKept DEF Shape, Queue, Known
\* ... when one is added ...
<1>QueueGrows.
    ASSUME Shape, NEW t \in TaskType, tasks' = Append(tasks, t), UNCHANGED kind,
           follower'.c \in {follower.c, follower.c + 1}, follower.c \in Nat,
           t.c <= follower'.c, t.op \in {"ACCEPT", "SYNC", "CLOSE"} => t.c # 0,
           t.op \in {"SYNC", "CLOSE"} => kind = "CLIENT"
    PROVE  tasks' \in Seq(TaskType) /\ Queue'
  <2> USE <1>QueueGrows
  <2>1. tasks \in Seq(TaskType) /\ tasks' \in Seq(TaskType) /\ Appended(tasks, tasks', t)
    BY Zenon, AppendFacts DEF Shape, Typed
  <2>2. \A i \in 1 .. Len(tasks) : tasks[i].c \in Nat
    <3>1. \A i \in 1 .. Len(tasks) : tasks[i] \in TaskType
      BY <2>1
    <3> QED
      BY <3>1, FollowersAssumption DEF TaskType
  <2>3. ASSUME NEW i \in 1 .. Len(tasks')
        PROVE  /\ tasks'[i].c <= follower'.c
               /\ tasks'[i].op \in {"ACCEPT", "SYNC", "CLOSE"} => tasks'[i].c # 0
               /\ tasks'[i].op \in {"SYNC", "CLOSE"} => kind = "CLIENT"
    <3>1. CASE i \in 1 .. Len(tasks)
      BY <2>1, <2>2, <3>1 DEF Appended, Shape, Queue, Known
    <3>2. CASE i = Len(tasks) + 1
      BY Zenon, <2>1, <3>2 DEF Appended
    <3> QED
      BY <2>1, <3>1, <3>2 DEF Appended
  <2> QED
    BY Zenon, <2>1, <2>3 DEF Queue, Known
\* ... and when one is taken.
<1>QueueShrinks.
    ASSUME Shape, tasks # <<>>, tasks' = Tail(tasks), UNCHANGED kind, follower'.c = follower.c
    PROVE  tasks' \in Seq(TaskType) /\ Queue'
  <2> USE <1>QueueShrinks
  <2>1. /\ tasks' \in Seq(TaskType) /\ Len(tasks') = Len(tasks) - 1 /\ Len(tasks) \in Nat
        /\ \A i \in 1 .. Len(tasks') : tasks'[i] = tasks[i + 1]
    BY TailFacts DEF Shape, Typed
  <2>2. \A i \in 1 .. Len(tasks') : i + 1 \in 1 .. Len(tasks)
    BY <2>1
  <2> QED
    BY Zenon, <2>1, <2>2 DEF Shape, Queue, Known
\* Streams is kept when frames of the follower's kind are added, read or dropped.
<1>StreamsStep.
    ASSUME Shape, UNCHANGED kind, \A d \in Conns : Flows(d)
    PROVE  Streams'
  <2> USE <1>StreamsStep
  <2> SUFFICES ASSUME NEW d \in Conns, NEW i \in 1 .. Len(session'[d].out)
               PROVE  session'[d].out[i].what \in FramesOf
    BY Zenon DEF Streams, FramesOf
  <2> DEFINE o == session[d].out
             p == session'[d].out
  <2>1. o \in Seq(FrameType) /\ \A k \in 1 .. Len(o) : o[k].what \in FramesOf
    BY Zenon DEF Shape, Typed, SessionType, Streams
  <2>2. \/ p = o
        \/ p = <<>>
        \/ \E f \in FrameType : f.what \in FramesOf /\ p = Append(o, f)
        \/ o # <<>> /\ p = Tail(o)
    BY Zenon DEF Flows
  <2>3. i \in 1 .. Len(p)
    BY Zenon
  <2> HIDE DEF o, p
  <2>4. CASE \E f \in FrameType : f.what \in FramesOf /\ p = Append(o, f)
    <3>1. PICK f \in FrameType : f.what \in FramesOf /\ p = Append(o, f)
      BY Zenon, <2>4
    <3>2. Appended(o, p, f)
      BY Zenon, <2>1, <3>1, AppendFacts
    <3>3. p[i].what \in FramesOf
      BY <2>1, <2>3, <3>1, <3>2 DEF Appended
    <3> QED
      BY Zenon, <3>3 DEF p
  <2>5. CASE o # <<>> /\ p = Tail(o)
    <3>1. Len(p) = Len(o) - 1 /\ Len(o) \in Nat /\ p[i] = o[i + 1]
      BY <2>1, <2>3, <2>5, TailFacts
    <3>2. p[i].what \in FramesOf
      BY <2>1, <2>3, <3>1
    <3> QED
      BY Zenon, <3>2 DEF p
  <2>6. CASE p = o
    <3>1. p[i].what \in FramesOf
      BY Zenon, <2>1, <2>3, <2>6
    <3> QED
      BY Zenon, <3>1 DEF p
  <2>7. CASE p = <<>>
    BY <2>3, <2>7
  <2> QED
    BY Zenon, <2>2, <2>4, <2>5, <2>6, <2>7
\* A step that keeps the connection.
<1>LinksStep.
    ASSUME Shape, UNCHANGED kind, follower'.c = follower.c, left'.conns = left.conns,
           follower'.at = "off" <=> follower.at = "off", endpoint' <= follower.c,
           \A d \in Conns : /\ session'[d].link = session[d].link
                            /\ d > follower.c => session'[d] = session[d]
                            /\ kind = "STANDBY" => session'[d].request = "none",
           kind = "STANDBY" => follower'.at \notin {"new", "sync"}
    PROVE  Links'
  <2> USE <1>LinksStep
  <2>1. follower.at # "off" => follower.c \in Conns
    BY Zenon, FollowerConn
  <2> QED
    BY Zenon, <2>1 DEF Shape, Links
\* A step that keeps the connection keeps the shape.
<1>SteadyShape.
    ASSUME Shape, SessionsOK, TasksOK, OthersOK, UNCHANGED job \/ \E w \in Workers : Moved(w)
    PROVE  Shape'
  <2> USE <1>SteadyShape
  <2>1. job' \in [Workers -> JobType] /\ Jobs'
    <3>1. CASE UNCHANGED job
      BY Zenon, <3>1, <1>JobsKept DEF OthersOK, Shape, Typed
    <3>2. CASE \E w \in Workers : Moved(w)
      BY Zenon, <3>2, <1>JobsMoved DEF OthersOK, Moved
    <3> QED
      BY Zenon, <3>1, <3>2
  <2>2. tasks' \in Seq(TaskType) /\ Queue'
    <3>1. CASE UNCHANGED tasks
      BY Zenon, <3>1, <1>QueueKept DEF OthersOK, Shape, Typed
    <3>2. CASE tasks # <<>> /\ tasks' = Tail(tasks)
      BY Zenon, <3>2, <1>QueueShrinks DEF OthersOK
    <3>3. CASE \E t \in TaskType : /\ tasks' = Append(tasks, t) /\ Known(t.c, t.op)
                                   /\ t.op \in {"SYNC", "CLOSE"} => kind = "CLIENT"
      <4>1. follower.c \in Nat
        BY FollowersAssumption DEF Shape, Typed, FollowerType
      <4> QED
        BY Zenon, <3>3, <4>1, <1>QueueGrows DEF OthersOK, Known
    <3> QED
      BY Zenon, <3>1, <3>2, <3>3 DEF TasksOK
  <2>3. Links'
    BY Zenon, <1>LinksStep DEF OthersOK, SessionsOK
  <2>4. Streams'
    BY Zenon, <1>StreamsStep DEF OthersOK, SessionsOK
  <2>5. Typed'
    BY Zenon, <2>1, <2>2 DEF OthersOK, SessionsOK, Shape, Typed
  <2> QED
    BY Zenon, <2>1, <2>2, <2>3, <2>4, <2>5 DEF Shape
\* It may leave the sessions alone ...
<1>SessionsSame.
    ASSUME Shape, UNCHANGED session
    PROVE  SessionsOK
  BY Zenon, <1>SessionsSame DEF SessionsOK, Flows, Shape, Typed, Links
\* ... change one of them ...
<1>SessionsTouched.
    ASSUME Shape, NEW c \in Conns, c <= follower.c, session' \in [Conns -> SessionType],
           \A d \in Conns \ {c} : session'[d] = session[d],
           session'[c].link = session[c].link, kind = "STANDBY" => session'[c].request = "none", Flows(c)
    PROVE  SessionsOK
  <2> USE <1>SessionsTouched
  <2>1. c \in Nat /\ follower.c \in Nat
    BY FollowersAssumption DEF Shape, Typed, FollowerType, Conns
  <2>2. \A d \in Conns \ {c} : Flows(d)
    BY Zenon DEF Flows
  <2> QED
    BY <2>1, <2>2 DEF SessionsOK, Shape, Links
\* ... post a frame ...
<1>SessionsPosted.
    ASSUME Shape, NEW c \in Conns, c <= follower.c, NEW f \in FrameType, f.what \in FramesOf,
           session' \in [Conns -> SessionType], Posted(c, f)
    PROVE  SessionsOK
  <2> USE <1>SessionsPosted
  <2>1. Flows(c)
    BY Zenon DEF Flows, Posted
  <2> QED
    BY Zenon, <2>1, <1>SessionsTouched DEF Posted, Shape, Links
\* ... or send one.
<1>SessionsSent.
    ASSUME Shape, NEW c \in Conns, c <= follower.c, NEW f \in FrameType, f.what \in FramesOf, Sent(c, f)
    PROVE  SessionsOK
  <2> USE <1>SessionsSent
  <2>1. /\ session' \in [Conns -> SessionType]
        /\ \A d \in Conns \ {c} : session'[d] = session[d]
        /\ session'[c].link = session[c].link /\ session'[c].request = session[c].request
        /\ Up(c) => session'[c].out = Append(session[c].out, f)
        /\ ~Up(c) => session'[c].out = session[c].out
    BY Zenon, SentFacts DEF Shape
  <2>2. Flows(c)
    BY Zenon, <2>1 DEF Flows
  <2> QED
    BY Zenon, <2>1, <2>2, <1>SessionsTouched DEF Shape, Links
\* The steps of the pool that concern a write.
<1>WriteShape.
    ASSUME Shape, NEW w \in Workers,
           ListClients(w) \/ Fanout(w) \/ FanoutRejected(w) \/ Commit(w) \/ SendDelta(w)
             \/ PushToClient(w) \/ AnswerWriter(w) \/ Undo(w)
    PROVE  Shape'
  <2> USE <1>WriteShape
  <2> USE DEF Shape
  <2>a. /\ kind \in {"CLIENT", "STANDBY"} /\ version \in VerType /\ stored \in VerType /\ left \in LeftType
        /\ endpoint \in 0 .. MaxConns /\ endpoint <= follower.c /\ hb \in {"asleep", "erase"}
        /\ follower \in FollowerType /\ (kind = "STANDBY" => follower.at \notin {"new", "sync"})
        /\ events \subseteq Events /\ job[w] \in JobType /\ job[w].ver \in VerType /\ job[w].list \in 0 .. MaxConns
        /\ job[w].list <= follower.c
    BY Zenon DEF Typed, Links, Jobs, JobType
  <2>b. ASSUME Fault
        PROVE  left' \in LeftType /\ left'.conns = left.conns /\ left'.writes = left.writes
    BY <2>a, <2>b DEF Fault, LeftType
  <2>1. CASE ListClients(w)
    <3>1. OthersOK /\ TasksOK /\ UNCHANGED session
      BY Zenon, <2>a, <2>1, EventsOK DEF ListClients, OthersOK, TasksOK, Events
    <3> QED
      BY Zenon, <2>1, <3>1, ListMoves, <1>SteadyShape, <1>SessionsSame
  <2>2. CASE Fanout(w)
    <3>1. OthersOK /\ TasksOK /\ UNCHANGED session
      BY Zenon, <2>a, <2>2 DEF Fanout, OthersOK, TasksOK
    <3> QED
      BY Zenon, <2>2, <3>1, FanoutMoves, <1>SteadyShape, <1>SessionsSame
  <2>3. CASE FanoutRejected(w)
    <3>1. OthersOK /\ UNCHANGED session
      BY Zenon, <2>a, <2>b, <2>3, EventsOK DEF FanoutRejected, OthersOK, Events
    <3>2. TasksOK
      <4>1. Task("ROLLBACK", 0, Absent) \in TaskType /\ Known(0, "ROLLBACK") /\ Task("ROLLBACK", 0, Absent).c = 0
            /\ Task("ROLLBACK", 0, Absent).op = "ROLLBACK"
        BY <2>a, FollowersAssumption DEF Task, TaskType, Ops, VerType, Known, FollowerType
      <4>2. UNCHANGED tasks \/ tasks' = Append(tasks, Task("ROLLBACK", 0, Absent))
        BY Zenon, <2>3 DEF FanoutRejected, Submit
      <4> QED
        BY Zenon, <4>1, <4>2 DEF TasksOK
    <3> QED
      BY Zenon, <2>3, <3>1, <3>2, RejectMoves, <1>SteadyShape, <1>SessionsSame
  <2>4. CASE Commit(w)
    <3>1. OthersOK /\ TasksOK /\ UNCHANGED session
      BY Zenon, <2>a, <2>4 DEF Commit, OthersOK, TasksOK
    <3> QED
      BY Zenon, <2>4, <3>1, CommitMoves, <1>SteadyShape, <1>SessionsSame
  <2>5. CASE SendDelta(w)
    <3>1. OthersOK /\ TasksOK
      BY Zenon, <2>a, <2>5, EventsOK DEF SendDelta, OthersOK, TasksOK, Events
    <3>2. SessionsOK
      <4>1. CASE endpoint # 0 /\ session[endpoint].state = "alive"
        <5>1. endpoint \in Conns /\ Frame("STATE_DELTA", job[w].ver).what \in FramesOf
          <6>1. kind = "STANDBY"
            BY Zenon, <2>5, DeltaMoves
          <6> QED
            BY <2>a, <4>1, <6>1, FollowersAssumption DEF Conns, Frame, FramesOf
        <5> QED
          BY Zenon, <2>a, <2>5, <4>1, <5>1, DeltaMoves, <1>SessionsPosted
      <4>2. CASE ~(endpoint # 0 /\ session[endpoint].state = "alive")
        <5>1. UNCHANGED session
          BY Zenon, <2>5, <4>2 DEF SendDelta
        <5> QED
          BY Zenon, <5>1, <1>SessionsSame
      <4> QED
        BY Zenon, <4>1, <4>2
    <3> QED
      BY Zenon, <2>5, <3>1, <3>2, DeltaMoves, <1>SteadyShape
  <2>6. CASE PushToClient(w)
    <3>1. OthersOK /\ TasksOK
      BY Zenon, <2>a, <2>6, EventsOK DEF PushToClient, OthersOK, TasksOK, Events
    <3>2. SessionsOK
      <4>1. CASE job[w].list # 0
        <5>1. job[w].list \in Conns /\ Frame("PUSH", job[w].ver).what \in FramesOf
          <6>1. kind = "CLIENT"
            BY Zenon, <2>6, PushMoves
          <6> QED
            BY <2>a, <4>1, <6>1, FollowersAssumption DEF Conns, Frame, FramesOf
        <5> QED
          BY Zenon, <2>a, <2>6, <4>1, <5>1, PushMoves, <1>SessionsPosted
      <4>2. CASE job[w].list = 0
        <5>1. UNCHANGED session
          BY Zenon, <2>6, <4>2 DEF PushToClient
        <5> QED
          BY Zenon, <5>1, <1>SessionsSame
      <4> QED
        BY Zenon, <4>1, <4>2
    <3> QED
      BY Zenon, <2>6, <3>1, <3>2, PushMoves, <1>SteadyShape
  <2>7. CASE AnswerWriter(w)
    <3>1. OthersOK /\ TasksOK /\ UNCHANGED session
      BY Zenon, <2>a, <2>b, <2>7 DEF AnswerWriter, OthersOK, TasksOK
    <3> QED
      BY Zenon, <2>7, <3>1, AnswerMoves, <1>SteadyShape, <1>SessionsSame DEF Ends
  <2>8. CASE Undo(w)
    <3>1. OthersOK /\ TasksOK /\ UNCHANGED session
      BY Zenon, <2>a, <2>8 DEF Undo, OthersOK, TasksOK, VerType
    <3> QED
      BY Zenon, <2>8, <3>1, UndoMoves, <1>SteadyShape, <1>SessionsSame DEF Ends
  <2> QED
    BY Zenon, <2>1, <2>2, <2>3, <2>4, <2>5, <2>6, <2>7, <2>8
\* The steps of the pool that concern the follower.
<1>ServeShape.
    ASSUME Shape, NEW w \in Workers,
           TakeTask(w) \/ Handshake(w) \/ Register(w) \/ GetFileVersionMap(w) \/ BurstAndStart(w)
             \/ SendStateSnap(w) \/ AnswerSync(w) \/ AnswerClose(w) \/ CloseSession(w) \/ EraseClient(w)
    PROVE  Shape'
  <2> USE <1>ServeShape
  <2> USE DEF Shape
  <2>a. /\ kind \in {"CLIENT", "STANDBY"} /\ version \in VerType /\ stored \in VerType /\ left \in LeftType
        /\ endpoint \in 0 .. MaxConns /\ endpoint <= follower.c /\ hb \in {"asleep", "erase"}
        /\ follower \in FollowerType /\ (kind = "STANDBY" => follower.at \notin {"new", "sync"})
        /\ events \subseteq Events /\ job[w] \in JobType /\ 0 \in 0 .. MaxConns /\ 0 <= follower.c
    BY FollowersAssumption DEF Typed, Links, FollowerType
  <2>1. CASE TakeTask(w)
    <3>1. OthersOK /\ UNCHANGED session
      BY Zenon, <2>a, <2>1 DEF TakeTask, OthersOK
    <3>2. TasksOK
      BY Zenon, <2>1, TakeMoves DEF TasksOK
    <3> QED
      BY Zenon, <2>1, <3>1, <3>2, TakeMoves, <1>SteadyShape, <1>SessionsSame
  <2>2. CASE Handshake(w)
    <3>1. OthersOK /\ TasksOK
      BY Zenon, <2>a, <2>2, HandshakeMoves DEF Handshake, OthersOK, TasksOK
    <3>2. SessionsOK
      <4>1. CASE UNCHANGED session
        BY Zenon, <4>1, <1>SessionsSame
      <4>2. CASE Up(job[w].c) /\ session' = [session EXCEPT ![job[w].c].state = "alive"]
        <5>1. job[w].c \in Conns /\ job[w].c <= follower.c
          BY Zenon, <2>2, HandshakeMoves, JobConn
        <5>2. /\ session' \in [Conns -> SessionType]
              /\ \A d \in Conns \ {job[w].c} : session'[d] = session[d]
              /\ session'[job[w].c].link = session[job[w].c].link
              /\ session'[job[w].c].request = session[job[w].c].request
              /\ session'[job[w].c].out = session[job[w].c].out
          BY Zenon, <4>2, <5>1, StateFacts
        <5> QED
          BY Zenon, <5>1, <5>2, <1>SessionsTouched DEF Flows, Links
      <4> QED
        BY Zenon, <2>2, <4>1, <4>2, HandshakeMoves
    <3> QED
      BY Zenon, <2>2, <3>1, <3>2, HandshakeMoves, <1>SteadyShape
  <2>3. CASE Register(w)
    <3>1. job[w].c \in 0 .. MaxConns
      BY Zenon, <2>a DEF JobType
    <3>2. OthersOK /\ TasksOK /\ UNCHANGED session
      BY Zenon, <2>a, <2>3, <3>1, EventsOK, RegisterMoves DEF Register, OthersOK, TasksOK, Events
    <3> QED
      BY Zenon, <2>3, <3>2, RegisterMoves, <1>SteadyShape, <1>SessionsSame
  <2>4. CASE GetFileVersionMap(w)
    <3>1. OthersOK /\ TasksOK /\ UNCHANGED session
      BY Zenon, <2>a, <2>4 DEF GetFileVersionMap, OthersOK, TasksOK
    <3> QED
      BY Zenon, <2>4, <3>1, ReadMoves, <1>SteadyShape, <1>SessionsSame
  <2>5. CASE BurstAndStart(w)
    <3>1. OthersOK /\ TasksOK
      BY Zenon, <2>a, <2>5 DEF BurstAndStart, OthersOK, TasksOK
    <3>2. job[w].c \in Conns /\ job[w].c <= follower.c
      BY Zenon, <2>5, BurstMoves, JobConn
    <3>3. Frame("PUSH", job[w].ver).what \in FramesOf
      BY Zenon, <2>5, BurstMoves DEF Frame, FramesOf
    <3>4. Flows(job[w].c)
      BY Zenon, <2>5, <3>3, BurstMoves DEF Flows
    <3>5. SessionsOK
      BY Zenon, <2>5, <3>2, <3>4, BurstMoves, <1>SessionsTouched
    <3> QED
      BY Zenon, <2>5, <3>1, <3>5, BurstMoves, <1>SteadyShape
  <2>6. CASE SendStateSnap(w)
    <3>1. OthersOK /\ TasksOK
      BY Zenon, <2>a, <2>6 DEF SendStateSnap, OthersOK, TasksOK
    <3>2. job[w].c \in Conns /\ job[w].c <= follower.c
      BY Zenon, <2>6, SnapMoves, JobConn
    <3>3. Frame("STATE_SNAP", job[w].ver).what \in FramesOf
      BY Zenon, <2>6, SnapMoves DEF Frame, FramesOf
    <3>4. SessionsOK
      BY Zenon, <2>6, <3>2, <3>3, SnapMoves, <1>SessionsSent
    <3> QED
      BY Zenon, <2>6, <3>1, <3>4, SnapMoves, <1>SteadyShape
  <2>7. CASE AnswerSync(w)
    <3>1. OthersOK /\ TasksOK
      BY Zenon, <2>a, <2>7, EventsOK DEF AnswerSync, OthersOK, TasksOK, Events
    <3>2. job[w].c \in Conns /\ job[w].c <= follower.c
      BY Zenon, <2>7, SyncMoves, JobConn
    <3>3. Frame("RESPONSE", job[w].ver).what \in FramesOf
      BY Zenon, <2>7, SyncMoves DEF Frame, FramesOf
    <3>4. SessionsOK
      BY Zenon, <2>7, <3>2, <3>3, SyncMoves, <1>SessionsSent, <1>SessionsSame
    <3> QED
      BY Zenon, <2>7, <3>1, <3>4, SyncMoves, <1>SteadyShape DEF Ends
  <2>8. CASE AnswerClose(w)
    <3>1. OthersOK /\ TasksOK /\ UNCHANGED session
      BY Zenon, <2>a, <2>8 DEF AnswerClose, OthersOK, TasksOK
    <3> QED
      BY Zenon, <2>8, <3>1, CloseMoves, <1>SteadyShape, <1>SessionsSame
  <2>9. CASE CloseSession(w)
    <3>1. OthersOK
      BY Zenon, <2>a, <2>9 DEF CloseSession, OthersOK
    <3>2. TasksOK
      <4>1. Task("ERASE", 0, Absent) \in TaskType /\ Known(0, "ERASE") /\ Task("ERASE", 0, Absent).c = 0
            /\ Task("ERASE", 0, Absent).op = "ERASE"
        BY Zenon, <2>a, FollowersAssumption DEF Task, TaskType, Ops, VerType, Known, FollowerType
      <4> QED
        BY Zenon, <2>9, <4>1 DEF TasksOK, CloseSession, Submit
    <3>3. job[w].c \in Conns /\ job[w].c <= follower.c /\ session' = [session EXCEPT ![job[w].c].state = "dead"]
      BY Zenon, <2>9, ClosingMoves, JobConn DEF CloseSession
    <3>4. /\ session' \in [Conns -> SessionType]
          /\ \A d \in Conns \ {job[w].c} : session'[d] = session[d]
          /\ session'[job[w].c].link = session[job[w].c].link
          /\ session'[job[w].c].request = session[job[w].c].request
          /\ session'[job[w].c].out = session[job[w].c].out
      BY Zenon, <3>3, StateFacts
    <3>5. SessionsOK
      BY Zenon, <3>3, <3>4, <1>SessionsTouched DEF Flows, Links
    <3> QED
      BY Zenon, <2>9, <3>1, <3>2, <3>5, ClosingMoves, <1>SteadyShape
  <2>10. CASE EraseClient(w)
    <3>1. OthersOK /\ TasksOK /\ UNCHANGED session
      BY Zenon, <2>a, <2>10, EventsOK DEF EraseClient, OthersOK, TasksOK, Events
    <3> QED
      BY Zenon, <2>10, <3>1, EraseMoves, <1>SteadyShape, <1>SessionsSame
  <2> QED
    BY Zenon, <2>1, <2>2, <2>3, <2>4, <2>5, <2>6, <2>7, <2>8, <2>9, <2>10
\* The requests, and the steps of the sessions and the heartbeat thread.
<1>SessionShape.
    ASSUME Shape,
           (\E op \in WriteOps : Request(op)) \/ (\E c \in Conns : ReadRequest(c) \/ SessionDies(c))
             \/ SendSync \/ ReadFrame \/ HbFindDead \/ HbErase
    PROVE  Shape'
  <2> USE <1>SessionShape
  <2> USE DEF Shape
  <2>a. /\ kind \in {"CLIENT", "STANDBY"} /\ version \in VerType /\ stored \in VerType /\ left \in LeftType
        /\ endpoint \in 0 .. MaxConns /\ endpoint <= follower.c /\ hb \in {"asleep", "erase"}
        /\ follower \in FollowerType /\ (kind = "STANDBY" => follower.at \notin {"new", "sync"})
        /\ events \subseteq Events /\ 0 \in 0 .. MaxConns /\ 0 <= follower.c
    BY FollowersAssumption DEF Typed, Links, FollowerType
  <2>b. ASSUME NEW c \in Conns, session[c].state # "new"
        PROVE  c <= follower.c
    <3>1. c \in Nat /\ follower.c \in Nat
      BY <2>a, FollowersAssumption DEF Conns, FollowerType
    <3> QED
      BY <2>b, <3>1 DEF Links, NewSession
  <2>1. ASSUME NEW op \in WriteOps, Request(op)
        PROVE  Shape'
    <3>1. left' \in LeftType /\ left'.conns = left.conns
      BY <2>1, <2>a, FollowersAssumption DEF Request, LeftType
    <3>2. OthersOK /\ UNCHANGED <<session, job>>
      BY Zenon, <2>1, <2>a, <3>1 DEF Request, OthersOK
    <3>3. /\ Task(op, 0, version) \in TaskType /\ Known(0, op)
          /\ Task(op, 0, version).c = 0 /\ Task(op, 0, version).op = op /\ op \notin {"SYNC", "CLOSE"}
      BY Zenon, <2>a, FollowersAssumption DEF Task, TaskType, Ops, WriteOps, Known, FollowerType
    <3>4. TasksOK
      BY Zenon, <2>1, <3>3 DEF TasksOK, Request, Submit
    <3> QED
      BY Zenon, <3>2, <3>4, <1>SteadyShape, <1>SessionsSame
  <2>2. ASSUME NEW c \in Conns, ReadRequest(c)
        PROVE  Shape'
    <3>1. session[c] \in SessionType /\ c <= follower.c /\ c # 0 /\ c \in 0 .. MaxConns
      BY <2>2, <2>b, FollowersAssumption DEF Typed, ReadRequest, Conns
    <3>2. session[c].request \in {"SYNC", "CLOSE"} /\ kind = "CLIENT"
      BY Zenon, <2>2, <2>a, <3>1 DEF ReadRequest, SessionType, Links
    <3>3. OthersOK /\ UNCHANGED job
      BY Zenon, <2>2, <2>a DEF ReadRequest, OthersOK
    <3>4. /\ Task(session[c].request, c, Absent) \in TaskType
          /\ Task(session[c].request, c, Absent).c = c
          /\ Task(session[c].request, c, Absent).op = session[c].request
          /\ Known(c, session[c].request)
      BY Zenon, <3>1, <3>2 DEF Task, TaskType, Ops, VerType, Known
    <3>5. TasksOK
      BY Zenon, <2>2, <3>2, <3>4 DEF TasksOK, ReadRequest, Submit
    <3>6. session' = [session EXCEPT ![c].request = "none"]
      BY Zenon, <2>2 DEF ReadRequest
    <3>7. SessionsOK
      BY Zenon, <3>1, <3>6, RequestFacts, <1>SessionsTouched DEF Flows
    <3> QED
      BY Zenon, <3>3, <3>5, <3>7, <1>SteadyShape
  <2>3. ASSUME NEW c \in Conns, SessionDies(c)
        PROVE  Shape'
    <3>1. c <= follower.c /\ session' = [session EXCEPT ![c].state = "dead"]
      BY Zenon, <2>3, <2>b DEF SessionDies
    <3>2. SessionsOK
      <4>1. /\ session' \in [Conns -> SessionType]
            /\ \A d \in Conns \ {c} : session'[d] = session[d]
            /\ session'[c].link = session[c].link /\ session'[c].request = session[c].request
            /\ session'[c].out = session[c].out
        BY Zenon, <3>1, StateFacts
      <4> QED
        BY Zenon, <3>1, <4>1, <1>SessionsTouched DEF Flows, Links
    <3>3. OthersOK /\ TasksOK /\ UNCHANGED job
      BY Zenon, <2>3, <2>a DEF SessionDies, OthersOK, TasksOK
    <3> QED
      BY Zenon, <3>2, <3>3, <1>SteadyShape
  <2>4. CASE SendSync
    <3>1. follower.c \in Conns /\ kind = "CLIENT" /\ follower.c <= follower.c
      BY <2>4, <2>a, FollowerConn DEF SendSync, FollowerType
    <3>2. SessionsOK
      BY Zenon, <2>4, <3>1, RequestFacts, <1>SessionsTouched DEF Flows, SendSync
    <3>3. follower' \in FollowerType /\ follower'.c = follower.c /\ follower'.at = "sync" /\ follower.at = "new"
      BY Zenon, <2>4, FollowerAt DEF SendSync
    <3>4. OthersOK /\ TasksOK /\ UNCHANGED job
      BY Zenon, <2>4, <2>a, <3>1, <3>3 DEF SendSync, OthersOK, TasksOK
    <3> QED
      BY Zenon, <3>2, <3>4, <1>SteadyShape
  <2>5. CASE ReadFrame
    <3> DEFINE c == follower.c
               f == session[c].out[1]
    <3>1. /\ c \in Conns /\ session[c].out # <<>>
          /\ session' \in [Conns -> SessionType] /\ \A d \in Conns \ {c} : session'[d] = session[d]
          /\ session'[c].link = session[c].link
          /\ session'[c].request = session[c].request /\ session'[c].out = Tail(session[c].out)
          /\ f.what \in FramesOf
          /\ follower.at \in {"new", "sync", "on"}
          /\ follower' \in FollowerType /\ follower'.c = c
          /\ follower'.at = IF f.what = "RESPONSE" THEN "on" ELSE follower.at
      BY Zenon, <2>5, FrameFacts
    <3>2. Flows(c)
      BY Zenon, <3>1 DEF Flows
    <3>3. c <= follower.c
      BY <2>a DEF FollowerType
    <3>4. SessionsOK
      BY Zenon, <3>1, <3>2, <3>3, <1>SessionsTouched DEF Links
    <3>5. events' \subseteq Events
      BY Zenon, <2>5, EventsOK DEF ReadFrame, Events
    <3> HIDE DEF c, f
    <3>6. OthersOK /\ TasksOK /\ UNCHANGED job
      <4>1. follower' \in FollowerType /\ follower'.c = follower.c /\ follower'.at \in {"on", follower.at} /\ follower.at # "off"
        BY Zenon, <3>1 DEF c
      <4> QED
        BY Zenon, <2>5, <2>a, <3>5, <4>1 DEF ReadFrame, OthersOK, TasksOK
    <3> QED
      BY Zenon, <3>4, <3>6, <1>SteadyShape
  <2>6. CASE HbFindDead
    <3>1. OthersOK /\ TasksOK /\ UNCHANGED <<job, session>>
      BY Zenon, <2>6, <2>a DEF HbFindDead, OthersOK, TasksOK
    <3> QED
      BY Zenon, <3>1, <1>SteadyShape, <1>SessionsSame
  <2>7. CASE HbErase
    <3>1. OthersOK /\ TasksOK /\ UNCHANGED <<job, session>>
      BY Zenon, <2>7, <2>a, EventsOK DEF HbErase, OthersOK, TasksOK, Events
    <3> QED
      BY Zenon, <3>1, <1>SteadyShape, <1>SessionsSame
  <2> QED
    BY Zenon, <2>1, <2>2, <2>3, <2>4, <2>5, <2>6, <2>7
\* A new connection keeps the shape.
<1>ConnectShape.
    ASSUME Shape, Connect
    PROVE  Shape'
  <2> USE <1>ConnectShape
  <2> USE DEF Shape
  <2> DEFINE c == follower.c + 1
  <2>1. /\ c \in Conns /\ session[c] = NewSession
        /\ session' \in [Conns -> SessionType] /\ \A d \in Conns \ {c} : session'[d] = session[d]
        /\ session'[c].link = "up" /\ session'[c].state = "new"
        /\ session'[c].request = "none" /\ session'[c].out = <<>>
        /\ follower' \in FollowerType /\ follower'.c = c /\ follower'.at = "handshake"
        /\ left' \in LeftType /\ left'.conns = left.conns - 1
        /\ Task("ACCEPT", c, Absent) \in TaskType /\ tasks' = Append(tasks, Task("ACCEPT", c, Absent))
    BY Zenon, ConnectFacts
  <2>2. /\ UNCHANGED <<kind, version, stored, job, endpoint, hb, events>> /\ follower.at = "off"
        /\ follower.c \in Nat /\ left \in LeftType
    BY FollowersAssumption DEF Connect, Typed, FollowerType
  <2>3. Jobs'
    BY Zenon, <2>1, <2>2, <1>JobsKept
  <2>4. tasks' \in Seq(TaskType) /\ Queue'
    <3>1. Task("ACCEPT", c, Absent).c = c /\ Task("ACCEPT", c, Absent).op = "ACCEPT" /\ c # 0 /\ c <= c
      BY <2>2 DEF Task
    <3> QED
      BY Zenon, <2>1, <2>2, <3>1, <1>QueueGrows
  <2>5. Streams'
    <3>1. \A d \in Conns : Flows(d)
      BY Zenon, <2>1 DEF Flows
    <3> QED
      BY Zenon, <2>2, <3>1, <1>StreamsStep
  <2>6. Links'
    <3>1. follower'.c + left'.conns <= MaxConns
      BY <2>1, <2>2 DEF Links, LeftType
    <3>2. endpoint' <= follower'.c
      BY <2>1, <2>2 DEF Links, Typed
    <3>3. follower'.c # 0 /\ session'[follower'.c].link = "up"
      BY <2>1, <2>2
    <3>4. ASSUME NEW d \in Conns
          PROVE  /\ d > follower'.c => session'[d] = NewSession
                 /\ session'[d].link = "up" => d = follower'.c /\ follower'.at # "off"
                 /\ kind = "STANDBY" => session'[d].request = "none"
      BY <2>1, <2>2, FollowersAssumption DEF Links, Conns
    <3> QED
      BY Zenon, <2>1, <2>2, <3>1, <3>2, <3>3, <3>4 DEF Links
  <2>7. Typed'
    BY Zenon, <2>1, <2>2, <2>4 DEF Typed
  <2> QED
    BY Zenon, <2>3, <2>4, <2>5, <2>6, <2>7
\* The end of a connection keeps the shape.
<1>OffShape.
    ASSUME Shape, Break \/ Unmount \/ HeartbeatTimeout
    PROVE  Shape'
  <2> USE <1>OffShape
  <2> USE DEF Shape
  <2> DEFINE c == follower.c
  <2>1. /\ UNCHANGED <<kind, version, stored, tasks, job, endpoint, hb, events>> /\ follower.at # "off"
        /\ left' \in LeftType /\ left'.conns = left.conns
    <3>1. left \in LeftType
      BY Zenon DEF Typed
    <3> QED
      BY <3>1 DEF Break, Unmount, HeartbeatTimeout, Fault, LeftType
  <2>2. \E l \in {"closed", "down"}, r \in {"none", "CLOSE"}, v \in VerType :
           Off(l, r, v) /\ (kind = "STANDBY" => r = "none")
    <3>1. follower.view \in VerType /\ Absent \in VerType
      BY Zenon DEF Typed, FollowerType, VerType
    <3> QED
      BY Zenon, <3>1 DEF Break, Unmount, HeartbeatTimeout
  <2>3. /\ c \in Conns
        /\ session' \in [Conns -> SessionType] /\ \A d \in Conns \ {c} : session'[d] = session[d]
        /\ session'[c].link # "up" /\ session'[c].out = <<>>
        /\ kind = "STANDBY" => session'[c].request = "none"
        /\ follower' \in FollowerType /\ follower'.c = c /\ follower'.at = "off"
    BY Zenon, <2>1, <2>2, OffFacts
  <2>4. Jobs' /\ Queue'
    BY Zenon, <2>1, <2>3, <1>JobsKept, <1>QueueKept
  <2>5. Streams'
    <3>1. \A d \in Conns : Flows(d)
      BY Zenon, <2>3 DEF Flows
    <3> QED
      BY Zenon, <2>1, <3>1, <1>StreamsStep
  <2>6. Links'
    <3>1. \A d \in Conns : d > follower.c => d # c
      BY FollowersAssumption DEF Conns, Typed, FollowerType
    <3> QED
      BY <2>1, <2>3, <3>1 DEF Links
  <2>7. Typed'
    BY Zenon, <2>1, <2>3 DEF Typed
  <2> QED
    BY Zenon, <2>4, <2>5, <2>6, <2>7
\* A step in which nothing changes keeps the shape.
<1>StutterShape.
    ASSUME Shape, UNCHANGED vars
    PROVE  Shape'
  <2> USE <1>StutterShape
  <2>1. OthersOK /\ TasksOK /\ UNCHANGED <<job, session>>
    BY Zenon DEF vars, Shape, Typed, Links, OthersOK, TasksOK
  <2> QED
    BY Zenon, <2>1, <1>SteadyShape, <1>SessionsSame
<1>1.
    ASSUME Shape, [Next]_vars
    PROVE  Shape'
  <2> USE <1>1
  <2>1. ASSUME NEW w \in Workers, WorkerStep(w)
        PROVE  Shape'
    BY Zenon, <2>1, <1>WriteShape, <1>ServeShape DEF WorkerStep
  <2>2. CASE (\E op \in WriteOps : Request(op)) \/ (\E c \in Conns : SessionStep(c)) \/ HbStep
             \/ SendSync \/ ReadFrame
    BY Zenon, <2>2, <1>SessionShape DEF SessionStep, HbStep
  <2> QED
    BY Zenon, <2>1, <2>2, <1>ConnectShape, <1>OffShape, <1>StutterShape DEF Next, FollowerStep
<1> QED
  BY <1>1

\* Every reachable state has the shape: each worker of the pool is at a point of
\* the task it runs, and about a connection the follower has had; at most the
\* follower's last connection is up, and its session carries the frames of its kind.
THEOREM ShapeInvariant == Spec => []Shape
BY InitShape, ShapeStep, PTL DEF Spec

-----------------------------------------------------------------------------
(* The tasks, jobs and frames of one connection.                           *)

\* Is a task op about connection c in s, ...
InTasks(s, op, c) == \E i \in 1 .. Len(s) : s[i].op = op /\ s[i].c = c

\* ... is it there twice, ...
Twice(s, op, c) == \E i, k \in 1 .. Len(s) : i # k /\ s[i].op = op /\ s[i].c = c /\ s[k].op = op /\ s[k].c = c

\* ... and is a listing among the frames o?
Answered(o) == \E i \in 1 .. Len(o) : o[i].what = "RESPONSE"

\* A task is in the queue once it is added ...
LEMMA InAppend ==
  ASSUME NEW s \in Seq(TaskType), NEW t \in TaskType, NEW op, NEW c
  PROVE  InTasks(Append(s, t), op, c) <=> InTasks(s, op, c) \/ (t.op = op /\ t.c = c)
<1> DEFINE r == Append(s, t)
<1>1. Appended(s, r, t) /\ Len(s) \in Nat
  BY AppendFacts
<1> HIDE DEF r
<1>2. InTasks(r, op, c) <=> InTasks(s, op, c) \/ (t.op = op /\ t.c = c)
  BY <1>1 DEF InTasks, Appended
<1> QED
  BY Zenon, <1>2 DEF r

\* ... until it is taken.
LEMMA InTail ==
  ASSUME NEW s \in Seq(TaskType), s # <<>>, NEW op, NEW c
  PROVE  InTasks(s, op, c) <=> InTasks(Tail(s), op, c) \/ (s[1].op = op /\ s[1].c = c)
<1> DEFINE r == Tail(s)
<1>1. Len(s) \in Nat /\ Len(s) >= 1 /\ Len(r) = Len(s) - 1 /\ \A i \in 1 .. Len(r) : r[i] = s[i + 1]
  BY TailFacts
<1> HIDE DEF r
<1>2. ASSUME InTasks(s, op, c)
      PROVE  InTasks(r, op, c) \/ (s[1].op = op /\ s[1].c = c)
  <2>1. PICK i \in 1 .. Len(s) : s[i].op = op /\ s[i].c = c
    BY Zenon, <1>2 DEF InTasks
  <2>2. CASE i = 1
    BY Zenon, <2>1, <2>2
  <2>3. CASE i # 1
    <3>1. i - 1 \in 1 .. Len(r) /\ r[i - 1] = s[i]
      BY <1>1, <2>3
    <3> QED
      BY Zenon, <2>1, <3>1 DEF InTasks
  <2> QED
    BY Zenon, <2>2, <2>3
<1>3. ASSUME InTasks(r, op, c) \/ (s[1].op = op /\ s[1].c = c)
      PROVE  InTasks(s, op, c)
  BY <1>1, <1>3 DEF InTasks
<1> QED
  BY Zenon, <1>2, <1>3 DEF r

\* A task that was not queued is not queued twice when it is added ...
LEMMA TwiceAppend ==
  ASSUME NEW s \in Seq(TaskType), NEW t \in TaskType, NEW op, NEW c,
         ~Twice(s, op, c), ~(t.op = op /\ t.c = c) \/ ~InTasks(s, op, c)
  PROVE  ~Twice(Append(s, t), op, c)
<1> DEFINE r == Append(s, t)
<1>1. Appended(s, r, t) /\ Len(s) \in Nat
  BY AppendFacts
<1> HIDE DEF r
<1>2. ~Twice(r, op, c)
  BY <1>1 DEF InTasks, Twice, Appended
<1> QED
  BY Zenon, <1>2 DEF r

\* ... and not again once it is taken.
LEMMA TwiceTail ==
  ASSUME NEW s \in Seq(TaskType), s # <<>>, NEW op, NEW c, ~Twice(s, op, c)
  PROVE  /\ ~Twice(Tail(s), op, c)
         /\ s[1].op = op /\ s[1].c = c => ~InTasks(Tail(s), op, c)
<1> DEFINE r == Tail(s)
<1>1. Len(s) \in Nat /\ Len(s) >= 1 /\ Len(r) = Len(s) - 1 /\ \A i \in 1 .. Len(r) : r[i] = s[i + 1]
  BY TailFacts
<1> HIDE DEF r
<1>2. \A i \in 1 .. Len(r) : i + 1 \in 1 .. Len(s) /\ i + 1 # 1 /\ i \in Int
  BY <1>1
<1>3. ~Twice(r, op, c)
  <2> SUFFICES ASSUME NEW i \in 1 .. Len(r), NEW k \in 1 .. Len(r), i # k,
                      r[i].op = op, r[i].c = c, r[k].op = op, r[k].c = c
               PROVE  FALSE
    BY Zenon DEF Twice
  <2>1. i + 1 # k + 1 /\ i + 1 \in 1 .. Len(s) /\ k + 1 \in 1 .. Len(s)
    BY <1>2
  <2>2. r[i] = s[i + 1] /\ r[k] = s[k + 1]
    BY Zenon, <1>1
  <2> QED
    BY Zenon, <2>1, <2>2 DEF Twice
<1>4. s[1].op = op /\ s[1].c = c => ~InTasks(r, op, c)
  <2> SUFFICES ASSUME s[1].op = op, s[1].c = c, NEW i \in 1 .. Len(r), r[i].op = op, r[i].c = c
               PROVE  FALSE
    BY Zenon DEF InTasks
  <2>1. 1 # i + 1 /\ i + 1 \in 1 .. Len(s) /\ 1 \in 1 .. Len(s) /\ r[i] = s[i + 1]
    BY <1>1, <1>2
  <2> QED
    BY Zenon, <2>1 DEF Twice
<1> QED
  BY Zenon, <1>3, <1>4 DEF r

\* A listing is among the frames once it is posted ...
LEMMA AnsweredAppend ==
  ASSUME NEW s \in Seq(FrameType), NEW f \in FrameType
  PROVE  Answered(Append(s, f)) <=> Answered(s) \/ f.what = "RESPONSE"
<1> DEFINE r == Append(s, f)
<1>1. Appended(s, r, f) /\ Len(s) \in Nat
  BY AppendFacts
<1> HIDE DEF r
<1>2. Answered(r) <=> Answered(s) \/ f.what = "RESPONSE"
  BY <1>1 DEF Answered, Appended
<1> QED
  BY Zenon, <1>2 DEF r

\* ... until it is read.
LEMMA AnsweredTail ==
  ASSUME NEW s \in Seq(FrameType), s # <<>>
  PROVE  Answered(s) <=> Answered(Tail(s)) \/ s[1].what = "RESPONSE"
<1> DEFINE r == Tail(s)
<1>1. Len(s) \in Nat /\ Len(s) >= 1 /\ Len(r) = Len(s) - 1 /\ \A i \in 1 .. Len(r) : r[i] = s[i + 1]
  BY TailFacts
<1> HIDE DEF r
<1>2. ASSUME Answered(s)
      PROVE  Answered(r) \/ s[1].what = "RESPONSE"
  <2>1. PICK i \in 1 .. Len(s) : s[i].what = "RESPONSE"
    BY Zenon, <1>2 DEF Answered
  <2>2. CASE i # 1
    <3>1. i - 1 \in 1 .. Len(r) /\ r[i - 1] = s[i]
      BY <1>1, <2>2
    <3> QED
      BY Zenon, <2>1, <3>1 DEF Answered
  <2> QED
    BY Zenon, <2>1, <2>2
<1>3. ASSUME Answered(r) \/ s[1].what = "RESPONSE"
      PROVE  Answered(s)
  BY <1>1, <1>3 DEF Answered
<1> QED
  BY Zenon, <1>2, <1>3 DEF r

\* No listing is among no frames.
LEMMA AnsweredNone == ~Answered(<<>>)
BY DEF Answered

-----------------------------------------------------------------------------
(* The steps that leave the follower's requests alone.                     *)

\* The tasks that serve the follower.
PeerOps == {"ACCEPT", "SYNC", "CLOSE"}

\* At most one task is added, with an operation of S.
Grown(S) ==
  \/ UNCHANGED tasks
  \/ \E t \in TaskType : tasks' = Append(tasks, t) /\ t.op \in S

\* A step that takes up, adds and answers no request of the follower.
Quiet ==
  /\ UNCHANGED <<kind, endpoint, follower>>
  /\ events \subseteq events'
  /\ Grown(Ops \ PeerOps)
  /\ UNCHANGED job \/ \E w \in Workers : Only(w) /\ job[w].op \notin PeerOps /\ job'[w].op \notin PeerOps
  /\ \A d \in Conns : /\ session'[d].state = session[d].state /\ session'[d].request = session[d].request
                      /\ Answered(session'[d].out) <=> Answered(session[d].out)

\* A frame other than a listing answers no request.
LEMMA PostedQuiet ==
  ASSUME Shape, NEW c \in Conns, NEW f \in FrameType, f.what # "RESPONSE", Posted(c, f)
  PROVE  \A d \in Conns : /\ session'[d].state = session[d].state /\ session'[d].request = session[d].request
                          /\ Answered(session'[d].out) <=> Answered(session[d].out)
<1>1. session[c].out \in Seq(FrameType)
  BY Zenon DEF Shape, Typed, SessionType
<1>2. Answered(session'[c].out) <=> Answered(session[c].out)
  BY Zenon, <1>1, AnsweredAppend DEF Posted
<1> QED
  BY Zenon, <1>2 DEF Posted

\* A write leaves the follower's requests alone.
LEMMA WritesQuiet ==
  ASSUME Shape, NEW w \in Workers,
         ListClients(w) \/ Fanout(w) \/ FanoutRejected(w) \/ Commit(w) \/ SendDelta(w)
           \/ PushToClient(w) \/ AnswerWriter(w) \/ Undo(w)
  PROVE  Quiet
<1>a. \A op \in WriteOps \cup {"ROLLBACK", "idle"} : op \notin PeerOps
  BY Zenon DEF WriteOps, PeerOps
<1>b. Idle.op = "idle"
  BY Zenon DEF Idle
<1>c. ASSUME UNCHANGED session
      PROVE  \A d \in Conns : /\ session'[d].state = session[d].state /\ session'[d].request = session[d].request
                              /\ Answered(session'[d].out) <=> Answered(session[d].out)
  BY Zenon, <1>c
<1>1. CASE ListClients(w)
  <2>1. UNCHANGED <<kind, endpoint, follower, tasks, session>> /\ events \subseteq events'
    BY Zenon, <1>1, EventsOK DEF ListClients, Events
  <2>2. Only(w) /\ job[w].op \notin PeerOps /\ job'[w].op \notin PeerOps
    BY Zenon, <1>1, <1>a, ListMoves DEF Moved
  <2> QED
    BY Zenon, <1>c, <2>1, <2>2 DEF Quiet, Grown
<1>2. CASE Fanout(w)
  <2>1. UNCHANGED <<kind, endpoint, follower, tasks, session, events>>
    BY Zenon, <1>2 DEF Fanout
  <2>2. Only(w) /\ job[w].op \notin PeerOps /\ job'[w].op \notin PeerOps
    BY Zenon, <1>2, <1>a, FanoutMoves DEF Moved
  <2> QED
    BY Zenon, <1>c, <2>1, <2>2 DEF Quiet, Grown
<1>3. CASE FanoutRejected(w)
  <2>1. UNCHANGED <<kind, endpoint, follower, session>> /\ events \subseteq events'
    BY Zenon, <1>3, EventsOK DEF FanoutRejected, Events
  <2>2. Only(w) /\ job[w].op \notin PeerOps /\ job'[w].op \notin PeerOps
    BY Zenon, <1>3, <1>a, RejectMoves DEF Moved
  <2>3. Grown(Ops \ PeerOps)
    <3>1. Task("ROLLBACK", 0, Absent) \in TaskType /\ Task("ROLLBACK", 0, Absent).op \in Ops \ PeerOps
      BY FollowersAssumption DEF Task, TaskType, Ops, VerType, PeerOps
    <3>2. UNCHANGED tasks \/ tasks' = Append(tasks, Task("ROLLBACK", 0, Absent))
      BY Zenon, <1>3 DEF FanoutRejected, Submit
    <3> QED
      BY Zenon, <3>1, <3>2 DEF Grown
  <2> QED
    BY Zenon, <1>c, <2>1, <2>2, <2>3 DEF Quiet
<1>4. CASE Commit(w)
  <2>1. UNCHANGED <<kind, endpoint, follower, tasks, session, events>>
    BY Zenon, <1>4 DEF Commit
  <2>2. Only(w) /\ job[w].op \notin PeerOps /\ job'[w].op \notin PeerOps
    BY Zenon, <1>4, <1>a, CommitMoves DEF Moved
  <2> QED
    BY Zenon, <1>c, <2>1, <2>2 DEF Quiet, Grown
<1>5. CASE SendDelta(w)
  <2>1. UNCHANGED <<kind, endpoint, follower, tasks>> /\ events \subseteq events'
    BY Zenon, <1>5, EventsOK DEF SendDelta, Events
  <2>2. Only(w) /\ job[w].op \notin PeerOps /\ job'[w].op \notin PeerOps
    BY Zenon, <1>5, <1>a, DeltaMoves DEF Moved
  <2>3. \A d \in Conns : /\ session'[d].state = session[d].state /\ session'[d].request = session[d].request
                         /\ Answered(session'[d].out) <=> Answered(session[d].out)
    <3>1. CASE endpoint # 0 /\ session[endpoint].state = "alive"
      <4>1. endpoint \in Conns
        BY <3>1, FollowersAssumption DEF Conns, Shape, Typed
      <4>2. Frame("STATE_DELTA", job[w].ver).what # "RESPONSE"
        BY Zenon DEF Frame
      <4> QED
        BY Zenon, <1>5, <3>1, <4>1, <4>2, DeltaMoves, PostedQuiet
    <3>2. CASE ~(endpoint # 0 /\ session[endpoint].state = "alive")
      <4>1. UNCHANGED session
        BY Zenon, <1>5, <3>2 DEF SendDelta
      <4> QED
        BY Zenon, <4>1
    <3> QED
      BY Zenon, <3>1, <3>2
  <2> QED
    BY Zenon, <2>1, <2>2, <2>3 DEF Quiet, Grown
<1>6. CASE PushToClient(w)
  <2>1. UNCHANGED <<kind, endpoint, follower, tasks>> /\ events \subseteq events'
    BY Zenon, <1>6, EventsOK DEF PushToClient, Events
  <2>2. Only(w) /\ job[w].op \notin PeerOps /\ job'[w].op \notin PeerOps
    BY Zenon, <1>6, <1>a, PushMoves DEF Moved
  <2>3. \A d \in Conns : /\ session'[d].state = session[d].state /\ session'[d].request = session[d].request
                         /\ Answered(session'[d].out) <=> Answered(session[d].out)
    <3>1. CASE job[w].list # 0
      <4>1. job[w].list \in Conns
        BY <3>1, FollowersAssumption DEF Conns, Shape, Typed, JobType
      <4>2. Frame("PUSH", job[w].ver).what # "RESPONSE"
        BY Zenon DEF Frame
      <4> QED
        BY Zenon, <1>6, <3>1, <4>1, <4>2, PushMoves, PostedQuiet
    <3>2. CASE job[w].list = 0
      <4>1. UNCHANGED session
        BY Zenon, <1>6, <3>2 DEF PushToClient
      <4> QED
        BY Zenon, <4>1
    <3> QED
      BY Zenon, <3>1, <3>2
  <2> QED
    BY Zenon, <2>1, <2>2, <2>3 DEF Quiet, Grown
<1>7. CASE AnswerWriter(w)
  <2>1. UNCHANGED <<kind, endpoint, follower, tasks, session, events>>
    BY Zenon, <1>7 DEF AnswerWriter
  <2>2. Only(w) /\ job[w].op \notin PeerOps /\ job'[w].op \notin PeerOps
    BY Zenon, <1>7, <1>a, <1>b, AnswerMoves DEF Ends, Moved
  <2> QED
    BY Zenon, <1>c, <2>1, <2>2 DEF Quiet, Grown
<1>8. CASE Undo(w)
  <2>1. UNCHANGED <<kind, endpoint, follower, tasks, session, events>>
    BY Zenon, <1>8 DEF Undo
  <2>2. Only(w) /\ job[w].op \notin PeerOps /\ job'[w].op \notin PeerOps
    BY Zenon, <1>8, <1>a, <1>b, UndoMoves DEF Ends, Moved
  <2> QED
    BY Zenon, <1>c, <2>1, <2>2 DEF Quiet, Grown
<1> QED
  BY Zenon, <1>1, <1>2, <1>3, <1>4, <1>5, <1>6, <1>7, <1>8

\* So do the requests of other clients, the heartbeat thread that finds a session
\* dead, and a step in which nothing changes.
LEMMA OthersQuiet ==
  ASSUME Shape, (\E op \in WriteOps : Request(op)) \/ HbFindDead \/ UNCHANGED vars
  PROVE  Quiet
<1>1. ASSUME NEW op \in WriteOps, Request(op)
      PROVE  Quiet
  <2>1. UNCHANGED <<kind, endpoint, follower, job, session, events>> /\ tasks' = Append(tasks, Task(op, 0, version))
    BY Zenon, <1>1 DEF Request, Submit
  <2>2. Task(op, 0, version) \in TaskType /\ Task(op, 0, version).op \in Ops \ PeerOps
    BY FollowersAssumption DEF Task, TaskType, Ops, WriteOps, PeerOps, Shape, Typed
  <2> QED
    BY Zenon, <2>1, <2>2 DEF Quiet, Grown
<1>2. CASE HbFindDead
  BY Zenon, <1>2 DEF HbFindDead, Quiet, Grown
<1>3. CASE UNCHANGED vars
  BY Zenon, <1>3 DEF vars, Quiet, Grown
<1> QED
  BY Zenon, <1>1, <1>2, <1>3

-----------------------------------------------------------------------------
(* The name of the follower.                                               *)

\* The job has still to register connection c.
Waiting(j, c) == j.op = "ACCEPT" /\ j.c = c /\ (kind = "CLIENT" => j.at \in {"handshake", "register"})

\* Connection c is still to be registered.
AcceptWaits(c) == InTasks(tasks, "ACCEPT", c) \/ \E w \in Workers : Waiting(job[w], c)

\* A connection of the follower has its name, or will be given it.
Registered ==
  \A c \in Conns : c = follower.c /\ follower.at # "off" /\ "displaced" \notin events
                     => endpoint = c \/ AcceptWaits(c)

\* A worker's step does not lose a connection that is to be registered.
Passes(c) ==
  \/ UNCHANGED job
  \/ \E w \in Workers : Only(w) /\ (Waiting(job[w], c) => Waiting(job'[w], c))

\* Every step keeps Registered.
LEMMA RegisteredStep ==
  Shape /\ Registered /\ [Next]_vars => Registered'
\* A connection that is to be registered still is.
<1>WaitsKept.
    ASSUME Shape, NEW c \in Conns, AcceptWaits(c), UNCHANGED kind, Grown(Ops), Passes(c)
    PROVE  AcceptWaits(c)'
  <2> USE <1>WaitsKept
  <2>1. tasks \in Seq(TaskType)
    BY Zenon DEF Shape, Typed
  <2>2. CASE InTasks(tasks, "ACCEPT", c)
    <3>1. ASSUME NEW t \in TaskType, tasks' = Append(tasks, t)
          PROVE  InTasks(tasks', "ACCEPT", c)
      BY Zenon, <2>1, <2>2, <3>1, InAppend
    <3>2. InTasks(tasks', "ACCEPT", c)
      BY Zenon, <2>2, <3>1 DEF Grown
    <3> QED
      BY Zenon, <3>2 DEF AcceptWaits
  <2>3. CASE \E w \in Workers : Waiting(job[w], c)
    BY Zenon, <2>3 DEF AcceptWaits, Passes, Only, Waiting
  <2> QED
    BY Zenon, <2>2, <2>3 DEF AcceptWaits
\* Registered is kept by a step that does not touch the name.
<1>RegisteredKept.
    ASSUME Shape, Registered, UNCHANGED <<kind, endpoint>>, follower'.c = follower.c,
           follower'.at # "off" => follower.at # "off", events \subseteq events', Grown(Ops),
           \A c \in Conns : c = follower.c /\ follower.at # "off" => Passes(c)
    PROVE  Registered'
  <2> USE <1>RegisteredKept
  <2> SUFFICES ASSUME NEW c \in Conns, c = follower'.c, follower'.at # "off", "displaced" \notin events',
                      endpoint' # c
               PROVE  AcceptWaits(c)'
    BY Zenon DEF Registered
  <2>1. AcceptWaits(c) /\ Passes(c)
    BY Zenon DEF Registered
  <2> QED
    BY Zenon, <2>1, <1>WaitsKept
\* Registered is kept by a quiet step.
<1>QuietRegistered.
    ASSUME Shape, Registered, Quiet
    PROVE  Registered'
  <2> USE <1>QuietRegistered
  <2>1. Grown(Ops)
    BY Zenon DEF Quiet, Grown
  <2>2. \A c \in Conns : Passes(c)
    BY Zenon DEF Quiet, Passes, Waiting, PeerOps
  <2> QED
    BY Zenon, <2>1, <2>2, <1>RegisteredKept DEF Quiet
\* The acceptance of a connection is taken from the queue by the worker that will
\* register it.
<1>TakeRegistered.
    ASSUME Shape, Registered, NEW w \in Workers, TakeTask(w)
    PROVE  Registered'
  <2> USE <1>TakeRegistered
  <2>1. /\ UNCHANGED <<kind, endpoint, follower, events>>
    BY Zenon DEF TakeTask
  <2>2. /\ Only(w) /\ tasks # <<>> /\ tasks' = Tail(tasks) /\ job[w].op = "idle"
        /\ job'[w].op = tasks[1].op /\ job'[w].c = tasks[1].c /\ job'[w].at = FirstPoint(tasks[1].op)
    BY Zenon, TakeMoves DEF Moved
  <2>3. tasks \in Seq(TaskType)
    BY Zenon DEF Shape, Typed
  <2> SUFFICES ASSUME NEW c \in Conns, c = follower'.c, follower'.at # "off", "displaced" \notin events',
                      endpoint' # c
               PROVE  AcceptWaits(c)'
    BY Zenon DEF Registered
  <2>4. AcceptWaits(c)
    BY Zenon, <2>1 DEF Registered
  <2>5. CASE InTasks(tasks, "ACCEPT", c)
    <3>1. CASE InTasks(Tail(tasks), "ACCEPT", c)
      BY Zenon, <2>2, <3>1 DEF AcceptWaits
    <3>2. CASE tasks[1].op = "ACCEPT" /\ tasks[1].c = c
      <4>1. FirstPoint("ACCEPT") = "handshake"
        BY Zenon DEF FirstPoint, WriteOps
      <4> QED
        BY Zenon, <2>2, <3>2, <4>1 DEF Waiting, AcceptWaits
    <3> QED
      BY Zenon, <2>2, <2>3, <2>5, <3>1, <3>2, InTail
  <2>6. CASE \E v \in Workers : Waiting(job[v], c)
    <3>1. PICK v \in Workers : Waiting(job[v], c)
      BY Zenon, <2>6
    <3>2. job'[v] = job[v]
      BY Zenon, <2>2, <3>1 DEF Only, Waiting
    <3> QED
      BY Zenon, <2>1, <3>1, <3>2 DEF AcceptWaits, Waiting
  <2> QED
    BY Zenon, <2>4, <2>5, <2>6 DEF AcceptWaits
\* The handshake goes on to the registration, or the connection is over.
<1>HandshakeRegistered.
    ASSUME Shape, Registered, NEW w \in Workers, Handshake(w)
    PROVE  Registered'
  <2> USE <1>HandshakeRegistered
  <2>1. UNCHANGED <<kind, endpoint, tasks, events>>
    BY Zenon DEF Handshake
  <2>2. /\ Only(w) /\ job[w].op = "ACCEPT" /\ job[w].c \in Conns /\ follower'.c = follower.c
        /\ (follower'.at # "off" => follower.at # "off")
    BY Zenon, HandshakeMoves DEF Moved
  <2>3. ASSUME NEW c \in Conns, c = follower.c, follower.at # "off"
        PROVE  Passes(c)
    <3>1. Up(c)
      BY Zenon, <2>3, UpConn
    <3>2. CASE ~Up(job[w].c)
      BY Zenon, <2>2, <3>1, <3>2 DEF Passes, Waiting
    <3>3. CASE Up(job[w].c)
      <4>1. /\ job'[w].op = "ACCEPT" /\ job'[w].c = job[w].c
            /\ kind = "CLIENT" => job'[w].at = "register"
        BY Zenon, <3>3, HandshakeMoves
      <4> QED
        BY Zenon, <2>2, <4>1 DEF Passes, Waiting
    <3> QED
      BY Zenon, <3>2, <3>3
  <2> QED
    BY Zenon, <2>1, <2>2, <2>3, <1>RegisteredKept DEF Grown
\* The registration gives the name to the connection, or to an older one, which
\* displaces the follower.
<1>RegisterRegistered.
    ASSUME Shape, Registered, NEW w \in Workers, Register(w)
    PROVE  Registered'
  <2> USE <1>RegisterRegistered
  <2>1. UNCHANGED <<kind, tasks, follower>> /\ Happens("displaced", endpoint > job[w].c)
    BY Zenon DEF Register
  <2>2. /\ Only(w) /\ job[w].op = "ACCEPT" /\ job[w].c \in Conns /\ endpoint' = job[w].c /\ job[w].c <= follower.c
    BY Zenon, RegisterMoves DEF Moved
  <2>3. follower.c \in Nat /\ job[w].c \in Nat
    BY <2>2 DEF Shape, Typed, FollowerType, Conns
  <2> SUFFICES ASSUME NEW c \in Conns, c = follower'.c, follower'.at # "off", "displaced" \notin events',
                      endpoint' # c
               PROVE  AcceptWaits(c)'
    BY Zenon DEF Registered
  <2>4. job[w].c # c /\ job[w].c < c /\ c = follower.c
    BY <2>1, <2>2, <2>3
  <2>5. ~(endpoint > job[w].c) /\ "displaced" \notin events
    BY Zenon, <2>1 DEF Happens
  <2>6. endpoint # c
    BY Zenon, <2>3, <2>4, <2>5
  <2>7. AcceptWaits(c)
    BY Zenon, <2>1, <2>4, <2>5, <2>6 DEF Registered
  <2>8. Passes(c)
    BY Zenon, <2>2, <2>4 DEF Passes, Waiting
  <2> QED
    BY Zenon, <2>1, <2>7, <2>8, <1>WaitsKept DEF Grown
\* The name is erased.
<1>EraseRegistered.
    ASSUME Shape, Registered, endpoint' = 0, Happens("displaced", Up(endpoint)),
           UNCHANGED <<kind, tasks, follower>>,
           UNCHANGED job \/ \E w \in Workers : Only(w) /\ job[w].op = "ERASE"
    PROVE  Registered'
  <2> USE <1>EraseRegistered
  <2> SUFFICES ASSUME NEW c \in Conns, c = follower'.c, follower'.at # "off", "displaced" \notin events',
                      endpoint' # c
               PROVE  AcceptWaits(c)'
    BY Zenon DEF Registered
  <2>1. ~Up(endpoint) /\ "displaced" \notin events
    BY Zenon DEF Happens
  <2>2. endpoint # c
    BY Zenon, <2>1, UpConn
  <2>3. AcceptWaits(c)
    BY Zenon, <2>1, <2>2 DEF Registered
  <2>4. Passes(c)
    BY Zenon DEF Passes, Waiting
  <2> QED
    BY Zenon, <2>3, <2>4, <1>WaitsKept DEF Grown
\* The other steps of the pool.
<1>ServeRegistered.
    ASSUME Shape, Registered, NEW w \in Workers,
           GetFileVersionMap(w) \/ BurstAndStart(w) \/ SendStateSnap(w) \/ AnswerSync(w)
             \/ AnswerClose(w) \/ CloseSession(w)
    PROVE  Registered'
  <2> USE <1>ServeRegistered
  <2>1. CASE GetFileVersionMap(w)
    <3>1. UNCHANGED <<kind, endpoint, tasks, follower, events>>
      BY Zenon, <2>1 DEF GetFileVersionMap
    <3>2. \A c \in Conns : Passes(c)
      BY Zenon, <2>1, ReadMoves DEF Moved, Passes, Waiting
    <3> QED
      BY Zenon, <3>1, <3>2, <1>RegisteredKept DEF Grown
  <2>2. CASE BurstAndStart(w)
    <3>1. UNCHANGED <<kind, endpoint, tasks, follower, events>>
      BY Zenon, <2>2 DEF BurstAndStart
    <3>2. \A c \in Conns : Passes(c)
      BY Zenon, <2>2, BurstMoves DEF Moved, Passes, Waiting
    <3> QED
      BY Zenon, <3>1, <3>2, <1>RegisteredKept DEF Grown
  <2>3. CASE SendStateSnap(w)
    <3>1. UNCHANGED <<kind, endpoint, tasks, follower, events>>
      BY Zenon, <2>3 DEF SendStateSnap
    <3>2. \A c \in Conns : Passes(c)
      BY Zenon, <2>3, SnapMoves DEF Moved, Passes, Waiting
    <3> QED
      BY Zenon, <3>1, <3>2, <1>RegisteredKept DEF Grown
  <2>4. CASE AnswerSync(w)
    <3>1. UNCHANGED <<kind, endpoint, tasks, follower>>
      BY Zenon, <2>4 DEF AnswerSync
    <3>2. events \subseteq events'
      BY Zenon, <2>4 DEF AnswerSync, Happens
    <3>3. \A c \in Conns : Passes(c)
      BY Zenon, <2>4, SyncMoves DEF Ends, Moved, Passes, Waiting
    <3> QED
      BY Zenon, <3>1, <3>2, <3>3, <1>RegisteredKept DEF Grown
  <2>5. CASE AnswerClose(w)
    <3>1. UNCHANGED <<kind, endpoint, tasks, follower, events>>
      BY Zenon, <2>5 DEF AnswerClose
    <3>2. \A c \in Conns : Passes(c)
      BY Zenon, <2>5, CloseMoves DEF Moved, Passes, Waiting
    <3> QED
      BY Zenon, <3>1, <3>2, <1>RegisteredKept DEF Grown
  <2>6. CASE CloseSession(w)
    <3>1. UNCHANGED <<kind, endpoint, follower, events>> /\ tasks' = Append(tasks, Task("ERASE", 0, Absent))
      BY Zenon, <2>6 DEF CloseSession, Submit
    <3>2. \A c \in Conns : Passes(c)
      BY Zenon, <2>6, ClosingMoves DEF Moved, Passes, Waiting
    <3>3. Task("ERASE", 0, Absent) \in TaskType /\ Task("ERASE", 0, Absent).op \in Ops
      BY FollowersAssumption DEF Task, TaskType, Ops, VerType
    <3>4. Grown(Ops)
      BY Zenon, <3>1, <3>3 DEF Grown
    <3> QED
      BY Zenon, <3>1, <3>2, <3>4, <1>RegisteredKept
  <2> QED
    BY Zenon, <2>1, <2>2, <2>3, <2>4, <2>5, <2>6
\* The sessions and the follower.
<1>SessionRegistered.
    ASSUME Shape, Registered,
           (\E c \in Conns : ReadRequest(c) \/ SessionDies(c)) \/ SendSync \/ ReadFrame
             \/ Connect \/ Break \/ Unmount \/ HeartbeatTimeout
    PROVE  Registered'
  <2> USE <1>SessionRegistered
  <2>a. ASSUME UNCHANGED job
        PROVE  \A c \in Conns : Passes(c)
    BY Zenon, <2>a DEF Passes
  <2>1. ASSUME NEW c \in Conns, ReadRequest(c)
        PROVE  Registered'
    <3>1. /\ UNCHANGED <<kind, endpoint, job, follower, events>>
          /\ tasks' = Append(tasks, Task(session[c].request, c, Absent)) /\ session[c].request # "none"
      BY Zenon, <2>1 DEF ReadRequest, Submit
    <3>2. session[c].request \in {"SYNC", "CLOSE"}
      BY Zenon, <3>1 DEF Shape, Typed, SessionType
    <3>3. Task(session[c].request, c, Absent) \in TaskType /\ Task(session[c].request, c, Absent).op \in Ops
      BY <3>2, FollowersAssumption DEF Task, TaskType, Ops, VerType, Conns
    <3>4. Grown(Ops)
      BY Zenon, <3>1, <3>3 DEF Grown
    <3> QED
      BY Zenon, <2>a, <3>1, <3>4, <1>RegisteredKept
  <2>2. ASSUME NEW c \in Conns, SessionDies(c)
        PROVE  Registered'
    BY Zenon, <2>2, <2>a, <1>RegisteredKept DEF SessionDies, Grown
  <2>3. CASE SendSync
    <3>1. UNCHANGED <<kind, endpoint, job, tasks, events>> /\ follower.at = "new"
      BY Zenon, <2>3 DEF SendSync
    <3>2. follower'.c = follower.c
      BY Zenon, <2>3, FollowerAt DEF SendSync, Shape
    <3> QED
      BY Zenon, <2>a, <3>1, <3>2, <1>RegisteredKept DEF Grown
  <2>4. CASE ReadFrame
    <3>1. UNCHANGED <<kind, endpoint, job, tasks>> /\ follower.at # "off"
      BY Zenon, <2>4 DEF ReadFrame
    <3>2. events \subseteq events'
      BY Zenon, <2>4 DEF ReadFrame, Happens
    <3>3. follower'.c = follower.c
      BY Zenon, <2>4, FrameFacts
    <3> QED
      BY Zenon, <2>a, <3>1, <3>2, <3>3, <1>RegisteredKept DEF Grown
  <2>5. CASE Connect
    <3> DEFINE n == follower.c + 1
    <3>1. follower'.c = n /\ Task("ACCEPT", n, Absent) \in TaskType /\ tasks' = Append(tasks, Task("ACCEPT", n, Absent))
      BY Zenon, <2>5, ConnectFacts
    <3> HIDE DEF n
    <3>2. tasks \in Seq(TaskType)
      BY Zenon DEF Shape, Typed
    <3>3. Task("ACCEPT", n, Absent).op = "ACCEPT" /\ Task("ACCEPT", n, Absent).c = n
      BY Zenon DEF Task
    <3>4. InTasks(tasks', "ACCEPT", n)
      BY Zenon, <3>1, <3>2, <3>3, InAppend
    <3> QED
      BY Zenon, <3>1, <3>4 DEF Registered, AcceptWaits
  <2>6. ASSUME NEW l, NEW r, NEW v, Off(l, r, v)
        PROVE  Registered'
    <3>1. follower'.at = "off"
      BY Zenon, <2>6 DEF Off, Shape, Typed, FollowerType
    <3> QED
      BY Zenon, <3>1 DEF Registered
  <2>7. CASE Break \/ Unmount \/ HeartbeatTimeout
    BY Zenon, <2>6, <2>7 DEF Break, Unmount, HeartbeatTimeout
  <2> QED
    BY Zenon, <2>1, <2>2, <2>3, <2>4, <2>5, <2>7
<1>1.
    ASSUME Shape, Registered, [Next]_vars
    PROVE  Registered'
  <2> USE <1>1
  <2>1. CASE UNCHANGED vars
    BY Zenon, <2>1, OthersQuiet, <1>QuietRegistered
  <2>2. ASSUME NEW op \in WriteOps, Request(op)
        PROVE  Registered'
    BY Zenon, <2>2, OthersQuiet, <1>QuietRegistered
  <2>3. ASSUME NEW w \in Workers, WorkerStep(w)
        PROVE  Registered'
    <3>1. CASE EraseClient(w)
      <4>1. Only(w) /\ job[w].op = "ERASE"
        BY Zenon, <3>1, EraseMoves DEF Moved
      <4> QED
        BY Zenon, <3>1, <4>1, <1>EraseRegistered DEF EraseClient
    <3> QED
      BY Zenon, <2>3, <3>1, WritesQuiet, <1>QuietRegistered, <1>TakeRegistered, <1>HandshakeRegistered, <1>RegisterRegistered,
         <1>ServeRegistered DEF WorkerStep
  <2>4. CASE HbFindDead
    BY Zenon, <2>4, OthersQuiet, <1>QuietRegistered
  <2>5. CASE HbErase
    BY Zenon, <2>5, <1>EraseRegistered DEF HbErase
  <2>6. CASE (\E c \in Conns : SessionStep(c)) \/ FollowerStep \/ Connect \/ Break \/ Unmount
    BY Zenon, <2>6, <1>SessionRegistered DEF SessionStep, FollowerStep
  <2> QED
    BY Zenon, <2>1, <2>2, <2>3, <2>4, <2>5, <2>6 DEF Next, HbStep
<1> QED
  BY <1>1

\* Initially there is no connection.
LEMMA InitRegistered ==
  ASSUME Init
  PROVE  Registered
BY Zenon DEF Init, Registered

\* With nothing under way, a connection that is not to be registered has the name.
LEMMA RegisteredThen ==
  ASSUME Shape, Registered
  PROVE  StaysRegistered
<1> SUFFICES ASSUME Quiescent, follower.at = "on", "displaced" \notin events
             PROVE  endpoint = follower.c
  BY Zenon DEF StaysRegistered
<1>1. follower.c \in Conns
  BY Zenon, FollowerConn
<1>2. ~InTasks(tasks, "ACCEPT", follower.c)
  BY DEF Quiescent, InTasks
<1>3. \A w \in Workers : ~Waiting(job[w], follower.c)
  BY Zenon DEF Quiescent, Shape, Jobs, Legal, Waiting
<1> QED
  BY Zenon, <1>1, <1>2, <1>3 DEF Registered, AcceptWaits

\* A follower that has been accepted stays under its name in clientEndpointMap_ or
\* standbys_ as long as its connection lasts, unless it was displaced, for any
\* number of connections, workers and writes in any order.
THEOREM RegistrationCorrect == Spec => []StaysRegistered
<1>1. Init => Shape /\ Registered
  BY Zenon, InitShape, InitRegistered
<1>2. Shape /\ Registered /\ [Next]_vars => Shape' /\ Registered'
  BY Zenon, ShapeStep, RegisteredStep
<1>3. Shape /\ Registered => StaysRegistered
  BY Zenon, RegisteredThen
<1> QED
  BY <1>1, <1>2, <1>3, PTL DEF Spec

-----------------------------------------------------------------------------
(* The course of a connection: accepted once, asked for its listing once.  *)

\* A worker serves operation op of connection c.
HasJob(op, c) == \E w \in Workers : job[w].op = op /\ job[w].c = c

\* A SYNC_STATUS of connection c is to be read, queued or served.
Asking(c) == session[c].request = "SYNC" \/ InTasks(tasks, "SYNC", c) \/ HasJob("SYNC", c)

\* What is asked for once on a connection.
OnceOps == {"ACCEPT", "SYNC"}

\* A connection is accepted once and asks once for its listing.
Unique ==
  /\ \A op \in OnceOps : \A c \in Conns : ~Twice(tasks, op, c)
  /\ \A w, v \in Workers : job[w].op \in OnceOps /\ job[v].op = job[w].op /\ job[v].c = job[w].c => w = v
  /\ \A w \in Workers : job[w].op \in OnceOps => ~InTasks(tasks, job[w].op, job[w].c)
  /\ \A c \in Conns : session[c].request = "SYNC" => ~InTasks(tasks, "SYNC", c) /\ ~HasJob("SYNC", c)

\* Where the follower is, by what of its requests is still to be served.
Stages ==
  \A c \in Conns : c = follower.c /\ follower.at # "off" =>
    /\ Asking(c) => follower.at = "sync" /\ ~Answered(session[c].out)
    /\ follower.at \in {"handshake", "new"} => ~Answered(session[c].out)
    /\ kind = "STANDBY" /\ follower.at = "on" => session[c].state = "alive"
    /\ follower.at = "handshake" =>
         /\ endpoint # c
         /\ \A w \in Workers : job[w].op = "ACCEPT" /\ job[w].c = c => job[w].at = "handshake"
    /\ \/ InTasks(tasks, "ACCEPT", c)
       \/ \E w \in Workers : job[w].op = "ACCEPT" /\ job[w].c = c /\ job[w].at = "handshake"
       => follower.at = "handshake"

\* The session of a client starts at the end of its acceptance, not before.
Started ==
  kind = "CLIENT" => \A c \in Conns :
    /\ InTasks(tasks, "ACCEPT", c) \/ HasJob("ACCEPT", c) => session[c].state = "new"
    /\ \A op \in {"SYNC", "CLOSE"} : InTasks(tasks, op, c) \/ HasJob(op, c) => session[c].state # "new"
    /\ Answered(session[c].out) => session[c].state # "new"
    /\ c = follower.c /\ follower.at = "on" => session[c].state # "new"

\* The course of a connection.
Course == Unique /\ Stages /\ Started

\* A step takes up no request of the follower and serves no handshake.
Holds == \A v \in Workers : job'[v].op \in PeerOps => job'[v].op = job[v].op /\ job'[v].c = job[v].c

HoldsAt == \A v \in Workers : job'[v].op = "ACCEPT" => (job'[v].at = "handshake" <=> job[v].at = "handshake")

Asks == \A d \in Conns : session'[d].request = "SYNC" => session[d].request = "SYNC"

\* What a worker does with a request it has: keep it or end it.
Keeps(w) ==
  /\ Only(w)
  /\ job'[w].op \in PeerOps =>
       /\ job'[w].op = job[w].op /\ job'[w].c = job[w].c
       /\ job'[w].at = "handshake" <=> job[w].at = "handshake"

\* A session that turns s.
LEMMA TurnFacts ==
  ASSUME Shape, NEW b \in Conns, NEW s \in {"new", "alive", "dead"}, session' = [session EXCEPT ![b].state = s]
  PROVE  \A d \in Conns : /\ session'[d].request = session[d].request /\ session'[d].out = session[d].out
                          /\ session'[d].state = IF d = b THEN s ELSE session[d].state
<1>1. /\ \A d \in Conns \ {b} : session'[d] = session[d]
      /\ session'[b].state = s /\ session'[b].request = session[b].request /\ session'[b].out = session[b].out
  BY Zenon, StateFacts DEF Shape
<1> QED
  BY <1>1

\* Every step keeps Course.
LEMMA CourseStep ==
  Shape /\ Course /\ [Next]_vars => Course'
\* A task of another kind changes nothing about the tasks of this one.
<1>GrownIn.
    ASSUME Shape, NEW S, Grown(S), NEW op \in Ops, op \notin S, NEW c
    PROVE  /\ InTasks(tasks', op, c) <=> InTasks(tasks, op, c)
           /\ ~Twice(tasks, op, c) => ~Twice(tasks', op, c)
  <2> USE <1>GrownIn
  <2>1. tasks \in Seq(TaskType)
    BY Zenon DEF Shape, Typed
  <2>2. CASE UNCHANGED tasks
    BY Zenon, <2>2
  <2>3. ASSUME NEW t \in TaskType, tasks' = Append(tasks, t), t.op \in S
        PROVE  /\ InTasks(tasks', op, c) <=> InTasks(tasks, op, c)
               /\ ~Twice(tasks, op, c) => ~Twice(tasks', op, c)
    <3>1. t.op # op
      BY Zenon, <2>3
    <3>2. InTasks(Append(tasks, t), op, c) <=> InTasks(tasks, op, c)
      BY Zenon, <2>1, <3>1, InAppend
    <3>3. ~Twice(tasks, op, c) => ~Twice(Append(tasks, t), op, c)
      BY Zenon, <2>1, <3>1, TwiceAppend
    <3> QED
      BY Zenon, <2>3, <3>2, <3>3
  <2> QED
    BY Zenon, <2>2, <2>3 DEF Grown
\* Unique is kept by a step that takes up no request of the follower.
<1>UniqueKept.
    ASSUME Shape, Unique, Grown(Ops \ OnceOps), Holds, Asks
    PROVE  Unique'
  <2> USE <1>UniqueKept
  <2>1. \A op \in OnceOps : op \in Ops /\ op \notin Ops \ OnceOps /\ op \in PeerOps
    BY Zenon DEF OnceOps, Ops, PeerOps
  <2>2. \A op \in OnceOps : \A c : /\ InTasks(tasks', op, c) <=> InTasks(tasks, op, c)
                                   /\ ~Twice(tasks, op, c) => ~Twice(tasks', op, c)
    BY Zenon, <2>1, <1>GrownIn
  <2>3. \A op \in OnceOps : \A c \in Conns : ~Twice(tasks', op, c)
    BY Zenon, <2>2 DEF Unique
  <2>4. \A w, v \in Workers : job'[w].op \in OnceOps /\ job'[v].op = job'[w].op /\ job'[v].c = job'[w].c => w = v
    BY Zenon, <2>1 DEF Unique, Holds
  <2>5. \A w \in Workers : job'[w].op \in OnceOps => ~InTasks(tasks', job'[w].op, job'[w].c)
    BY Zenon, <2>1, <2>2 DEF Unique, Holds
  <2>6. ASSUME NEW c \in Conns, session'[c].request = "SYNC"
        PROVE  ~InTasks(tasks', "SYNC", c) /\ ~HasJob("SYNC", c)'
    <3>1. session[c].request = "SYNC" /\ "SYNC" \in OnceOps /\ "SYNC" \in PeerOps
      BY Zenon, <2>6 DEF Asks, OnceOps, PeerOps
    <3> QED
      BY Zenon, <2>2, <3>1 DEF Unique, HasJob, Holds
  <2> QED
    BY Zenon, <2>3, <2>4, <2>5, <2>6 DEF Unique
\* Stages is kept by a step that leaves the follower where it is.
<1>StagesKept.
    ASSUME Shape, Stages, UNCHANGED kind, follower'.c = follower.c, follower'.at = follower.at,
           endpoint' \in {endpoint, 0}, Grown(Ops \ OnceOps), Holds, HoldsAt, Asks,
           \A c \in Conns : c = follower.c /\ follower.at # "off" =>
              /\ Answered(session'[c].out) => Answered(session[c].out)
              /\ kind = "STANDBY" /\ session[c].state = "alive" => session'[c].state = "alive"
    PROVE  Stages'
  <2> USE <1>StagesKept
  <2> SUFFICES ASSUME NEW c \in Conns, c = follower.c, follower.at # "off"
               PROVE  /\ Asking(c)' => follower.at = "sync" /\ ~Answered(session'[c].out)
                      /\ follower.at \in {"handshake", "new"} => ~Answered(session'[c].out)
                      /\ kind = "STANDBY" /\ follower.at = "on" => session'[c].state = "alive"
                      /\ follower.at = "handshake" =>
                           /\ endpoint' # c
                           /\ \A w \in Workers : job'[w].op = "ACCEPT" /\ job'[w].c = c => job'[w].at = "handshake"
                      /\ \/ InTasks(tasks', "ACCEPT", c)
                         \/ \E w \in Workers : job'[w].op = "ACCEPT" /\ job'[w].c = c /\ job'[w].at = "handshake"
                         => follower.at = "handshake"
    BY Zenon DEF Stages
  <2>1. /\ InTasks(tasks', "ACCEPT", c) <=> InTasks(tasks, "ACCEPT", c)
        /\ InTasks(tasks', "SYNC", c) <=> InTasks(tasks, "SYNC", c)
    BY <1>GrownIn DEF OnceOps, Ops
  <2>2. Asking(c)' => Asking(c)
    BY Zenon, <2>1 DEF Asking, HasJob, Asks, Holds, PeerOps
  <2>3. \A w \in Workers : job'[w].op = "ACCEPT" =>
           job[w].op = "ACCEPT" /\ job'[w].c = job[w].c /\ (job'[w].at = "handshake" <=> job[w].at = "handshake")
    BY Zenon DEF Holds, HoldsAt, PeerOps
  <2>4. c # 0
    BY DEF Conns
  <2>5. /\ Answered(session'[c].out) => Answered(session[c].out)
        /\ kind = "STANDBY" /\ session[c].state = "alive" => session'[c].state = "alive"
    BY Zenon
  <2> QED
    BY Zenon, <2>1, <2>2, <2>3, <2>4, <2>5 DEF Stages
\* Started is kept by a step that starts no session and takes up no request.
<1>StartedKept.
    ASSUME Shape, Started, UNCHANGED kind, follower'.c = follower.c, follower'.at = "on" => follower.at = "on",
           Grown(Ops \ PeerOps), Holds,
           kind = "CLIENT" => \A c \in Conns : /\ Answered(session'[c].out) => Answered(session[c].out)
                                               /\ session'[c].state = "new" <=> session[c].state = "new"
    PROVE  Started'
  <2> USE <1>StartedKept
  <2> SUFFICES ASSUME kind = "CLIENT", NEW c \in Conns
               PROVE  /\ InTasks(tasks', "ACCEPT", c) \/ HasJob("ACCEPT", c)' => session'[c].state = "new"
                      /\ \A op \in {"SYNC", "CLOSE"} : InTasks(tasks', op, c) \/ HasJob(op, c)' => session'[c].state # "new"
                      /\ Answered(session'[c].out) => session'[c].state # "new"
                      /\ c = follower'.c /\ follower'.at = "on" => session'[c].state # "new"
    BY Zenon DEF Started
  <2>1. \A op \in PeerOps : op \in Ops /\ op \notin Ops \ PeerOps
    BY Zenon DEF PeerOps, Ops
  <2>2. \A op \in PeerOps : InTasks(tasks', op, c) <=> InTasks(tasks, op, c)
    BY Zenon, <2>1, <1>GrownIn
  <2>3. \A op \in PeerOps : HasJob(op, c)' => HasJob(op, c)
    BY Zenon DEF HasJob, Holds
  <2>4. {"ACCEPT", "SYNC", "CLOSE"} \subseteq PeerOps
    BY Zenon DEF PeerOps
  <2> QED
    BY Zenon, <2>2, <2>3, <2>4 DEF Started
\* Course is kept by a quiet step.
<1>QuietCourse.
    ASSUME Shape, Course, Quiet
    PROVE  Course'
  <2> USE <1>QuietCourse
  <2>1. Grown(Ops \ OnceOps) /\ Grown(Ops \ PeerOps)
    BY Zenon DEF Quiet, Grown, OnceOps, PeerOps
  <2>2. Holds /\ HoldsAt
    BY Zenon DEF Quiet, Holds, HoldsAt, Only, PeerOps
  <2>3. Asks
    BY Zenon DEF Quiet, Asks
  <2>4. Unique'
    BY Zenon, <2>1, <2>2, <2>3, <1>UniqueKept DEF Course
  <2>5. Stages'
    BY Zenon, <2>1, <2>2, <2>3, <1>StagesKept DEF Course, Quiet
  <2>6. Started'
    BY Zenon, <2>1, <2>2, <2>3, <1>StartedKept DEF Course, Quiet
  <2> QED
    BY Zenon, <2>4, <2>5, <2>6 DEF Course
\* Course is kept by a worker that keeps its request.
<1>KeptCourse.
    ASSUME Shape, Course, UNCHANGED <<kind, follower>>, endpoint' \in {endpoint, 0}, Grown(Ops \ PeerOps),
           UNCHANGED job \/ \E w \in Workers : Keeps(w), Asks,
           \A c \in Conns :
             /\ Answered(session'[c].out) => Answered(session[c].out)
             /\ c = follower.c /\ follower.at # "off" /\ kind = "STANDBY" /\ session[c].state = "alive"
                  => session'[c].state = "alive"
             /\ kind = "CLIENT" => (session'[c].state = "new" <=> session[c].state = "new")
    PROVE  Course'
  <2> USE <1>KeptCourse
  <2>1. Grown(Ops \ OnceOps)
    BY Zenon DEF Grown, OnceOps, PeerOps
  <2>2. Holds /\ HoldsAt
    BY Zenon DEF Holds, HoldsAt, Keeps, Only, PeerOps
  <2>3. Unique'
    BY Zenon, <2>1, <2>2, <1>UniqueKept DEF Course
  <2>4. Stages'
    BY Zenon, <2>1, <2>2, <1>StagesKept DEF Course
  <2>5. Started'
    BY Zenon, <2>1, <2>2, <1>StartedKept DEF Course
  <2> QED
    BY Zenon, <2>3, <2>4, <2>5 DEF Course
\* Steps that end or go on with a request.
<1>ServeCourse.
    ASSUME Shape, Course, NEW w \in Workers,
           GetFileVersionMap(w) \/ SendStateSnap(w) \/ AnswerClose(w) \/ CloseSession(w) \/ EraseClient(w)
    PROVE  Course'
  <2> USE <1>ServeCourse
  <2>a. Idle.op \notin PeerOps /\ "ERASE" \notin PeerOps
    BY Zenon DEF Idle, PeerOps
  <2>1. CASE GetFileVersionMap(w)
    <3>1. UNCHANGED <<kind, endpoint, tasks, session, follower>>
      BY Zenon, <2>1 DEF GetFileVersionMap
    <3>2. Keeps(w)
      BY Zenon, <2>1, ReadMoves DEF Moved, Keeps
    <3> QED
      BY Zenon, <3>1, <3>2, <1>KeptCourse DEF Grown, Asks
  <2>2. CASE SendStateSnap(w)
    <3>1. UNCHANGED <<kind, endpoint, tasks, follower>>
      BY Zenon, <2>2 DEF SendStateSnap
    <3>2. Keeps(w) /\ job[w].c \in Conns /\ kind = "STANDBY"
      BY Zenon, <2>2, SnapMoves DEF Moved, Keeps
    <3> DEFINE f == Frame("STATE_SNAP", job[w].ver)
               b == job[w].c
    <3>3. f \in FrameType /\ Sent(b, f) /\ f.what # "RESPONSE"
      BY Zenon, <2>2, SnapMoves DEF Frame
    <3>4. Typed /\ session[b].out \in Seq(FrameType)
      BY Zenon, <3>2 DEF Shape, Typed, SessionType
    <3>5. b \in Conns /\ (Up(b) <=> b = follower.c /\ follower.at # "off")
      BY Zenon, <3>2, UpConn
    <3> HIDE DEF f, b
    <3>6. /\ \A d \in Conns \ {b} : session'[d] = session[d]
          /\ session'[b].request = session[b].request
          /\ Up(b) => session'[b].state = session[b].state /\ session'[b].out = Append(session[b].out, f)
          /\ ~Up(b) => session'[b].state = "dead" /\ session'[b].out = session[b].out
      BY Zenon, <3>3, <3>4, <3>5, SentFacts
    <3>7. Answered(session'[b].out) <=> Answered(session[b].out)
      BY Zenon, <3>3, <3>4, <3>6, AnsweredAppend
    <3>8. Asks
      BY Zenon, <3>6 DEF Asks
    <3>9. \A c \in Conns :
             /\ Answered(session'[c].out) => Answered(session[c].out)
             /\ c = follower.c /\ follower.at # "off" /\ kind = "STANDBY" /\ session[c].state = "alive"
                  => session'[c].state = "alive"
             /\ kind = "CLIENT" => (session'[c].state = "new" <=> session[c].state = "new")
      BY Zenon, <3>2, <3>5, <3>6, <3>7
    <3> QED
      BY Zenon, <3>1, <3>2, <3>8, <3>9, <1>KeptCourse DEF Grown
  <2>3. CASE AnswerClose(w)
    <3>1. UNCHANGED <<kind, endpoint, tasks, session, follower>>
      BY Zenon, <2>3 DEF AnswerClose
    <3>2. Keeps(w)
      BY Zenon, <2>3, CloseMoves DEF Moved, Keeps
    <3> QED
      BY Zenon, <3>1, <3>2, <1>KeptCourse DEF Grown, Asks
  <2>4. CASE CloseSession(w)
    <3>1. /\ UNCHANGED <<kind, endpoint, follower>> /\ tasks' = Append(tasks, Task("ERASE", 0, Absent))
          /\ session' = [session EXCEPT ![job[w].c].state = "dead"]
      BY Zenon, <2>4 DEF CloseSession, Submit
    <3>2. Keeps(w) /\ job[w].op = "CLOSE" /\ job[w].c \in Conns
      BY Zenon, <2>4, <2>a, ClosingMoves DEF Moved, Keeps
    <3>3. Task("ERASE", 0, Absent) \in TaskType /\ Task("ERASE", 0, Absent).op \in Ops \ PeerOps
      BY FollowersAssumption DEF Task, TaskType, Ops, VerType, PeerOps
    <3>4. Grown(Ops \ PeerOps)
      BY Zenon, <3>1, <3>3 DEF Grown
    <3>5. kind = "CLIENT" /\ session[job[w].c].state # "new"
      <4>1. kind = "CLIENT"
        BY Zenon, <3>2 DEF Shape, Jobs, Legal
      <4>2. HasJob("CLOSE", job[w].c)
        BY Zenon, <3>2 DEF HasJob
      <4> QED
        BY Zenon, <3>2, <4>1, <4>2 DEF Course, Started
    <3>6. \A d \in Conns : /\ session'[d].request = session[d].request /\ session'[d].out = session[d].out
                           /\ session'[d].state = IF d = job[w].c THEN "dead" ELSE session[d].state
      BY Zenon, <3>1, <3>2, TurnFacts
    <3>7. Asks
      BY Zenon, <3>6 DEF Asks
    <3>8. \A c \in Conns :
             /\ Answered(session'[c].out) => Answered(session[c].out)
             /\ c = follower.c /\ follower.at # "off" /\ kind = "STANDBY" /\ session[c].state = "alive"
                  => session'[c].state = "alive"
             /\ kind = "CLIENT" => (session'[c].state = "new" <=> session[c].state = "new")
      BY Zenon, <3>5, <3>6
    <3> QED
      BY Zenon, <3>1, <3>2, <3>4, <3>7, <3>8, <1>KeptCourse
  <2>5. CASE EraseClient(w)
    <3>1. UNCHANGED <<kind, tasks, session, follower>> /\ endpoint' = 0
      BY Zenon, <2>5 DEF EraseClient
    <3>2. Keeps(w)
      BY Zenon, <2>5, <2>a, EraseMoves DEF Moved, Keeps
    <3> QED
      BY Zenon, <3>1, <3>2, <1>KeptCourse DEF Grown, Asks
  <2> QED
    BY Zenon, <2>1, <2>2, <2>3, <2>4, <2>5
\* Course is kept when the name is erased ...
<1>HbEraseCourse.
    ASSUME Shape, Course, HbErase
    PROVE  Course'
  BY Zenon, <1>KeptCourse, <1>HbEraseCourse DEF HbErase, Grown, Asks
\* ... and when a session dies.
<1>DiesCourse.
    ASSUME Shape, Course, NEW b \in Conns, SessionDies(b)
    PROVE  Course'
  <2> USE <1>DiesCourse
  <2>1. /\ UNCHANGED <<kind, endpoint, follower, tasks, job>> /\ session[b].state = "alive" /\ ~Up(b)
        /\ session' = [session EXCEPT ![b].state = "dead"]
    BY Zenon DEF SessionDies
  <2>2. \A d \in Conns : /\ session'[d].request = session[d].request /\ session'[d].out = session[d].out
                         /\ session'[d].state = IF d = b THEN "dead" ELSE session[d].state
    BY Zenon, <2>1, TurnFacts
  <2>3. ~(b = follower.c /\ follower.at # "off")
    BY Zenon, <2>1, UpConn
  <2>4. \A c \in Conns :
           /\ Answered(session'[c].out) => Answered(session[c].out)
           /\ c = follower.c /\ follower.at # "off" /\ kind = "STANDBY" /\ session[c].state = "alive"
                => session'[c].state = "alive"
           /\ kind = "CLIENT" => (session'[c].state = "new" <=> session[c].state = "new")
    BY <2>1, <2>2, <2>3
  <2>5. Asks
    BY Zenon, <2>2 DEF Asks
  <2> QED
    BY Zenon, <2>1, <2>4, <2>5, <1>KeptCourse DEF Grown
\* A worker takes a task: what was asked for in the queue now is by a job.
<1>TakeCourse.
    ASSUME Shape, Course, NEW w \in Workers, TakeTask(w)
    PROVE  Course'
  <2> USE <1>TakeCourse
  <2> DEFINE t == tasks[1]
  <2>1. UNCHANGED <<kind, session, endpoint, follower>>
    BY Zenon DEF TakeTask
  <2>2. /\ Only(w) /\ tasks # <<>> /\ tasks' = Tail(tasks) /\ job[w].op = "idle"
        /\ job'[w].op = t.op /\ job'[w].c = t.c /\ job'[w].at = FirstPoint(t.op)
    BY Zenon, TakeMoves DEF Moved
  <2>3. tasks \in Seq(TaskType) /\ Len(tasks) >= 1 /\ t \in TaskType
    BY Zenon, <2>2, TailFacts DEF Shape, Typed
  <2>4. t.op \in PeerOps => t.c \in Conns
    <3>1. Known(t.c, t.op) /\ t.c \in 0 .. MaxConns
      BY <2>3 DEF Shape, Queue, TaskType
    <3> QED
      BY <3>1, FollowersAssumption DEF Known, PeerOps, Conns
  <2>5. t.op = "ACCEPT" => job'[w].at = "handshake"
    BY Zenon, <2>2 DEF FirstPoint, WriteOps
  <2> HIDE DEF t
  <2>6. \A op, c : InTasks(tasks, op, c) <=> InTasks(tasks', op, c) \/ (t.op = op /\ t.c = c)
    BY Zenon, <2>2, <2>3, InTail DEF t
  <2>7. \A op, c : ~Twice(tasks, op, c) => ~Twice(tasks', op, c) /\ (t.op = op /\ t.c = c => ~InTasks(tasks', op, c))
    BY Zenon, <2>2, <2>3, TwiceTail DEF t
  <2>8. \A v \in Workers \ {w} : job'[v] = job[v]
    BY Zenon, <2>2 DEF Only
  <2>9. OnceOps \subseteq PeerOps /\ "idle" \notin PeerOps
    BY Zenon DEF OnceOps, PeerOps
  <2>10. \A op \in PeerOps : \A c \in Conns : HasJob(op, c)' => HasJob(op, c) \/ (t.op = op /\ t.c = c)
    BY Zenon, <2>2, <2>8 DEF HasJob
  <2>11. \A op, c : InTasks(tasks', op, c) => InTasks(tasks, op, c)
    BY Zenon, <2>6
  <2>12. Unique'
    <3>1. \A op \in OnceOps : \A c \in Conns : ~Twice(tasks', op, c)
      BY Zenon, <2>7 DEF Course, Unique
    <3>2. \A u \in Workers \ {w} : ~(t.op \in OnceOps /\ job[u].op = t.op /\ job[u].c = t.c)
      BY Zenon, <2>6 DEF Course, Unique
    <3>3. \A u, v \in Workers : job'[u].op \in OnceOps /\ job'[v].op = job'[u].op /\ job'[v].c = job'[u].c => u = v
      BY <2>2, <2>8, <3>2 DEF Course, Unique
    <3>4. \A u \in Workers : job'[u].op \in OnceOps => ~InTasks(tasks', job'[u].op, job'[u].c)
      <4>1. t.op \in OnceOps => ~InTasks(tasks', t.op, t.c)
        BY Zenon, <2>4, <2>7, <2>9 DEF Course, Unique
      <4> QED
        BY Zenon, <2>2, <2>8, <2>11, <4>1 DEF Course, Unique
    <3>5. ASSUME NEW c \in Conns, session'[c].request = "SYNC"
          PROVE  ~InTasks(tasks', "SYNC", c) /\ ~HasJob("SYNC", c)'
      BY Zenon, <2>1, <2>6, <2>10, <3>5 DEF Course, Unique, PeerOps
    <3> QED
      BY Zenon, <3>1, <3>3, <3>4, <3>5 DEF Unique
  <2>13. Stages'
    <3> SUFFICES ASSUME NEW c \in Conns, c = follower.c, follower.at # "off"
                 PROVE  /\ Asking(c)' => follower.at = "sync" /\ ~Answered(session[c].out)
                        /\ follower.at \in {"handshake", "new"} => ~Answered(session[c].out)
                        /\ kind = "STANDBY" /\ follower.at = "on" => session[c].state = "alive"
                        /\ follower.at = "handshake" =>
                             /\ endpoint # c
                             /\ \A v \in Workers : job'[v].op = "ACCEPT" /\ job'[v].c = c => job'[v].at = "handshake"
                        /\ \/ InTasks(tasks', "ACCEPT", c)
                           \/ \E v \in Workers : job'[v].op = "ACCEPT" /\ job'[v].c = c /\ job'[v].at = "handshake"
                           => follower.at = "handshake"
      BY Zenon, <2>1 DEF Stages
    <3>1. Asking(c)' => Asking(c)
      BY Zenon, <2>1, <2>6, <2>10 DEF Asking, PeerOps
    <3>2. follower.at = "handshake" =>
            \A v \in Workers : job'[v].op = "ACCEPT" /\ job'[v].c = c => job'[v].at = "handshake"
      BY Zenon, <2>2, <2>5, <2>8 DEF Course, Stages
    <3>3. \/ InTasks(tasks', "ACCEPT", c)
          \/ \E v \in Workers : job'[v].op = "ACCEPT" /\ job'[v].c = c /\ job'[v].at = "handshake"
          => follower.at = "handshake"
      BY <2>2, <2>6, <2>8 DEF Course, Stages
    <3> QED
      BY Zenon, <3>1, <3>2, <3>3 DEF Course, Stages
  <2>14. Started'
    <3>1. \A op \in PeerOps : \A c \in Conns : InTasks(tasks', op, c) \/ HasJob(op, c)' => InTasks(tasks, op, c) \/ HasJob(op, c)
      BY Zenon, <2>6, <2>10
    <3>2. {"ACCEPT", "SYNC", "CLOSE"} \subseteq PeerOps
      BY Zenon DEF PeerOps
    <3> QED
      BY Zenon, <2>1, <3>1, <3>2 DEF Course, Started
  <2> QED
    BY Zenon, <2>12, <2>13, <2>14 DEF Course
\* The handshake: the follower goes on from the only job that accepts it.
<1>HandshakeCourse.
    ASSUME Shape, Course, NEW w \in Workers, Handshake(w)
    PROVE  Course'
  <2> USE <1>HandshakeCourse
  <2>a. job[w].c \in Conns
    BY Zenon, HandshakeMoves
  <2>b. PICK b \in Conns : b = job[w].c
    BY Zenon, <2>a
  <2>1. UNCHANGED <<kind, endpoint, tasks>>
    BY Zenon DEF Handshake
  <2>2. Only(w) /\ job[w].op = "ACCEPT" /\ job[w].at = "handshake" /\ b = job[w].c
    BY Zenon, <2>b, HandshakeMoves DEF Moved
  <2>3. CASE ~Up(b) /\ job'[w] = Idle /\ UNCHANGED <<session, follower>>
    <3>1. Keeps(w)
      BY <2>2, <2>3 DEF Keeps, Idle, PeerOps
    <3> QED
      BY Zenon, <2>1, <2>3, <3>1, <1>KeptCourse DEF Grown, Asks
  <2>4. ASSUME Up(b), b = follower.c, follower.at # "off", job'[w].op = "ACCEPT", job'[w].c = b,
               job'[w].at # "handshake", follower'.c = b, follower'.at \in {"new", "on"},
               \A d \in Conns : session'[d].request = session[d].request /\ session'[d].out = session[d].out,
               kind = "STANDBY" => follower'.at = "on" /\ session'[b].state = "alive",
               kind = "CLIENT" => follower'.at = "new" /\ UNCHANGED session
        PROVE  Course'
    <3>1. Holds /\ Asks /\ Grown(Ops \ OnceOps) /\ Grown(Ops \ PeerOps)
      BY Zenon, <2>1, <2>2, <2>4 DEF Holds, Asks, Grown, Only
    <3>2. Unique'
      BY Zenon, <3>1, <1>UniqueKept DEF Course
    <3>3. follower.at = "handshake"
      BY Zenon, <2>2, <2>4 DEF Course, Stages
    <3>4. ~Asking(b) /\ ~Answered(session[b].out)
      BY Zenon, <2>2, <2>4, <3>3 DEF Course, Stages
    <3>5. ~InTasks(tasks, "ACCEPT", b) /\ \A v \in Workers \ {w} : ~(job[v].op = "ACCEPT" /\ job[v].c = b)
      BY Zenon, <2>2 DEF Course, Unique, OnceOps
    <3>6. \A v \in Workers : job'[v].op = "ACCEPT" /\ job'[v].c = b => v = w
      BY Zenon, <2>2, <3>5 DEF Only
    <3>7. ~Asking(b)'
      BY Zenon, <2>1, <2>2, <2>4, <3>1, <3>4 DEF Asking, HasJob, Holds, PeerOps
    <3>8. Stages'
      <4> SUFFICES /\ ~Asking(b)' /\ ~Answered(session'[b].out)
                   /\ kind = "STANDBY" => session'[b].state = "alive"
                   /\ ~InTasks(tasks', "ACCEPT", b)
                   /\ \A v \in Workers : ~(job'[v].op = "ACCEPT" /\ job'[v].c = b /\ job'[v].at = "handshake")
        BY Zenon, <2>1, <2>4 DEF Stages
      <4> QED
        BY Zenon, <2>1, <2>4, <3>4, <3>5, <3>6, <3>7
    <3>9. kind = "CLIENT" => \A c \in Conns : /\ Answered(session'[c].out) => Answered(session[c].out)
                                              /\ session'[c].state = "new" <=> session[c].state = "new"
      BY Zenon, <2>4
    <3>10. kind \in {"CLIENT", "STANDBY"}
      BY Zenon DEF Shape, Typed
    <3>11. kind = "CLIENT" => Started'
      BY Zenon, <2>1, <2>4, <3>1, <3>9, <1>StartedKept DEF Course
    <3>12. Started'
      BY Zenon, <2>1, <3>10, <3>11 DEF Started
    <3> QED
      BY Zenon, <3>2, <3>8, <3>12 DEF Course
  <2>5. CASE Up(b)
    <3>1. /\ b = follower.c /\ follower.at # "off" /\ job'[w].op = "ACCEPT" /\ job'[w].c = b /\ follower'.c = b
          /\ \/ /\ kind = "STANDBY" /\ follower'.at = "on" /\ job'[w].at = "read"
                /\ session' = [session EXCEPT ![b].state = "alive"]
             \/ /\ kind = "CLIENT" /\ follower'.at = "new" /\ job'[w].at = "register"
                /\ UNCHANGED session
      BY Zenon, <2>b, <2>5, HandshakeMoves
    <3>2. CASE kind = "CLIENT"
      BY Zenon, <2>4, <2>5, <3>1, <3>2
    <3>3. CASE kind = "STANDBY"
      <4>1. \A d \in Conns : /\ session'[d].request = session[d].request /\ session'[d].out = session[d].out
                             /\ session'[d].state = IF d = b THEN "alive" ELSE session[d].state
        BY Zenon, <2>2, <3>1, <3>3, TurnFacts
      <4>2. session'[b].state = "alive"
        BY Zenon, <2>2, <4>1
      <4> QED
        BY Zenon, <2>4, <2>5, <3>1, <3>3, <4>1, <4>2
    <3> QED
      BY Zenon, <3>1, <3>2, <3>3
  <2> QED
    BY Zenon, <2>b, <2>3, <2>5, HandshakeMoves
\* The registration: the follower is past its handshake.
<1>RegisterCourse.
    ASSUME Shape, Course, NEW w \in Workers, Register(w)
    PROVE  Course'
  <2> USE <1>RegisterCourse
  <2>1. UNCHANGED <<kind, tasks, session, follower>>
    BY Zenon DEF Register
  <2>2. /\ Only(w) /\ job[w].op = "ACCEPT" /\ job[w].at = "register" /\ job[w].c \in Conns /\ endpoint' = job[w].c
        /\ IF kind = "CLIENT"
           THEN job'[w].op = "ACCEPT" /\ job'[w].c = job[w].c /\ job'[w].at = "read"
           ELSE job'[w] = Idle
    BY Zenon, RegisterMoves DEF Moved
  <2>3. Holds /\ HoldsAt /\ Asks /\ Grown(Ops \ OnceOps) /\ Grown(Ops \ PeerOps)
    <3>1. Asks /\ Grown(Ops \ OnceOps) /\ Grown(Ops \ PeerOps)
      BY Zenon, <2>1 DEF Asks, Grown
    <3>2. job'[w].op \in PeerOps =>
            job'[w].op = job[w].op /\ job'[w].c = job[w].c /\ job'[w].at = "read"
      BY <2>2 DEF Idle, PeerOps
    <3>3. Holds
      BY Zenon, <2>2, <3>2 DEF Holds, Only
    <3>4. HoldsAt
      BY Zenon, <2>2, <3>2 DEF HoldsAt, Only, PeerOps
    <3> QED
      BY Zenon, <3>1, <3>3, <3>4
  <2>4. Unique'
    BY Zenon, <2>3, <1>UniqueKept DEF Course
  <2>5. Started'
    BY Zenon, <2>1, <2>3, <1>StartedKept DEF Course
  <2>6. Stages'
    <3> SUFFICES ASSUME NEW c \in Conns, c = follower.c, follower.at # "off"
                 PROVE  /\ Asking(c)' => follower.at = "sync" /\ ~Answered(session[c].out)
                        /\ follower.at \in {"handshake", "new"} => ~Answered(session[c].out)
                        /\ kind = "STANDBY" /\ follower.at = "on" => session[c].state = "alive"
                        /\ follower.at = "handshake" =>
                             /\ endpoint' # c
                             /\ \A v \in Workers : job'[v].op = "ACCEPT" /\ job'[v].c = c => job'[v].at = "handshake"
                        /\ \/ InTasks(tasks, "ACCEPT", c)
                           \/ \E v \in Workers : job'[v].op = "ACCEPT" /\ job'[v].c = c /\ job'[v].at = "handshake"
                           => follower.at = "handshake"
      BY Zenon, <2>1 DEF Stages
    <3>1. Asking(c)' => Asking(c)
      BY Zenon, <2>1, <2>3 DEF Asking, HasJob, Holds, PeerOps
    <3>2. \A v \in Workers : job'[v].op = "ACCEPT" =>
             job[v].op = "ACCEPT" /\ job'[v].c = job[v].c /\ (job'[v].at = "handshake" <=> job[v].at = "handshake")
      BY Zenon, <2>3 DEF Holds, HoldsAt, PeerOps
    <3>3. follower.at = "handshake" => endpoint' # c
      BY Zenon, <2>2 DEF Course, Stages
    <3> QED
      BY Zenon, <3>1, <3>2, <3>3 DEF Course, Stages
  <2> QED
    BY Zenon, <2>4, <2>5, <2>6 DEF Course
\* The burst: the session starts, and its acceptance is over.
<1>BurstCourse.
    ASSUME Shape, Course, NEW w \in Workers, BurstAndStart(w)
    PROVE  Course'
  <2> USE <1>BurstCourse
  <2> DEFINE b == job[w].c
             f == Frame("PUSH", job[w].ver)
  <2>1. UNCHANGED <<kind, endpoint, tasks, follower>>
    BY Zenon DEF BurstAndStart
  <2>2. /\ Only(w) /\ job[w].op = "ACCEPT" /\ job[w].at = "burst" /\ b \in Conns /\ kind = "CLIENT" /\ job'[w] = Idle
        /\ f \in FrameType
        /\ \A d \in Conns \ {b} : session'[d] = session[d]
        /\ session'[b].state = "alive" /\ session'[b].request = session[b].request
        /\ session'[b].out \in {session[b].out, Append(session[b].out, f)}
    BY Zenon, BurstMoves DEF Moved
  <2>3. f.what # "RESPONSE" /\ session[b].out \in Seq(FrameType)
    BY Zenon, <2>2 DEF Frame, Shape, Typed, SessionType
  <2>4. ~InTasks(tasks, "ACCEPT", b) /\ \A v \in Workers \ {w} : ~(job[v].op = "ACCEPT" /\ job[v].c = b)
    BY Zenon, <2>2 DEF Course, Unique, OnceOps
  <2> HIDE DEF b, f
  <2>5. Answered(session'[b].out) => Answered(session[b].out)
    BY Zenon, <2>2, <2>3, AnsweredAppend
  <2>6. Holds /\ HoldsAt /\ Asks /\ Grown(Ops \ OnceOps) /\ Grown(Ops \ PeerOps)
    BY <2>1, <2>2 DEF Holds, HoldsAt, Asks, Grown, Only, Idle, PeerOps
  <2>7. Unique'
    BY Zenon, <2>6, <1>UniqueKept DEF Course
  <2>8. Stages'
    <3>1. \A c \in Conns : c = follower.c /\ follower.at # "off" =>
              /\ Answered(session'[c].out) => Answered(session[c].out)
              /\ kind = "STANDBY" /\ session[c].state = "alive" => session'[c].state = "alive"
      BY Zenon, <2>2, <2>5
    <3> QED
      BY Zenon, <2>1, <2>6, <3>1, <1>StagesKept DEF Course
  <2>9. Started'
    <3> SUFFICES ASSUME NEW c \in Conns
                 PROVE  /\ InTasks(tasks, "ACCEPT", c) \/ HasJob("ACCEPT", c)' => session'[c].state = "new"
                        /\ \A op \in {"SYNC", "CLOSE"} : InTasks(tasks, op, c) \/ HasJob(op, c)' => session'[c].state # "new"
                        /\ Answered(session'[c].out) => session'[c].state # "new"
                        /\ c = follower.c /\ follower.at = "on" => session'[c].state # "new"
      BY Zenon, <2>1 DEF Started
    <3>1. \A op \in PeerOps : HasJob(op, c)' => HasJob(op, c)
      BY Zenon, <2>6 DEF HasJob, Holds
    <3>2. {"ACCEPT", "SYNC", "CLOSE"} \subseteq PeerOps
      BY Zenon DEF PeerOps
    <3>3. CASE c = b
      <4>1. ~HasJob("ACCEPT", c)'
        BY <2>2, <2>4, <3>3 DEF HasJob, Only, Idle
      <4> QED
        BY Zenon, <2>2, <2>4, <3>3, <4>1
    <3>4. CASE c # b
      <4>1. session'[c] = session[c]
        BY Zenon, <2>2, <3>4
      <4> QED
        BY Zenon, <2>2, <3>1, <3>2, <4>1 DEF Course, Started
    <3> QED
      BY Zenon, <3>3, <3>4
  <2> QED
    BY Zenon, <2>7, <2>8, <2>9 DEF Course
\* The answer to SYNC_STATUS: the listing is among the frames, and nothing asks for
\* it any more.
<1>SyncCourse.
    ASSUME Shape, Course, NEW w \in Workers, AnswerSync(w)
    PROVE  Course'
  <2> USE <1>SyncCourse
  <2>a. job[w].c \in Conns
    BY Zenon, SyncMoves
  <2>b. PICK b \in Conns : b = job[w].c
    BY Zenon, <2>a
  <2> DEFINE f == Frame("RESPONSE", job[w].ver)
  <2>1. UNCHANGED <<kind, endpoint, tasks, follower>>
    BY Zenon DEF AnswerSync
  <2>2. /\ Only(w) /\ job[w].op = "SYNC" /\ b = job[w].c /\ kind = "CLIENT" /\ f \in FrameType
        /\ IF session[b].state = "dead"
           THEN UNCHANGED session /\ job'[w].op = "SYNC" /\ job'[w].c = b /\ job'[w].at = "stuck"
           ELSE Sent(b, f) /\ job'[w] = Idle
    BY Zenon, <2>b, SyncMoves DEF Ends, Moved
  <2>3. f.what = "RESPONSE"
    BY Zenon DEF Frame
  <2>4. session[b].state # "new"
    <3>1. HasJob("SYNC", b)
      BY Zenon, <2>2 DEF HasJob
    <3> QED
      BY Zenon, <2>2, <3>1 DEF Course, Started
  <2>5. CASE session[b].state = "dead"
    <3>1. Keeps(w)
      BY Zenon, <2>2, <2>5, SyncMoves DEF Keeps
    <3> QED
      BY Zenon, <2>1, <2>2, <2>5, <3>1, <1>KeptCourse DEF Grown, Asks
  <2>6. CASE session[b].state # "dead"
    <3>1. ~InTasks(tasks, "SYNC", b) /\ \A v \in Workers \ {w} : ~(job[v].op = "SYNC" /\ job[v].c = b)
      BY Zenon, <2>2 DEF Course, Unique, OnceOps
    <3>2. session[b].request # "SYNC"
      BY Zenon, <2>2 DEF Course, Unique, HasJob
    <3>3. Typed /\ Sent(b, f)
      BY Zenon, <2>2, <2>6 DEF Shape
    <3>4. Up(b) <=> b = follower.c /\ follower.at # "off"
      BY Zenon, <2>2, UpConn
    <3>5. b = follower.c /\ follower.at # "off" => follower.at = "sync"
      BY Zenon, <2>2 DEF Course, Stages, Asking, HasJob
    <3> HIDE DEF f
    <3>6. /\ \A d \in Conns \ {b} : session'[d] = session[d]
          /\ session'[b].request = session[b].request
          /\ Up(b) => session'[b].state = session[b].state /\ session'[b].out = Append(session[b].out, f)
          /\ ~Up(b) => session'[b].state = "dead" /\ session'[b].out = session[b].out
      BY Zenon, <2>2, <3>3, SentFacts
    <3>7. Holds /\ HoldsAt /\ Asks /\ Grown(Ops \ OnceOps) /\ Grown(Ops \ PeerOps)
      <4>1. Holds /\ HoldsAt
        BY <2>2, <2>6 DEF Holds, HoldsAt, Only, Idle, PeerOps
      <4>2. Asks
        BY Zenon, <3>6 DEF Asks
      <4> QED
        BY Zenon, <2>1, <4>1, <4>2 DEF Grown
    <3>8. Unique'
      BY Zenon, <3>7, <1>UniqueKept DEF Course
    <3>9. ~Asking(b)'
      <4>1. \A v \in Workers : ~(job'[v].op = "SYNC" /\ job'[v].c = b)
        BY <2>2, <2>6, <3>1 DEF Only, Idle
      <4>2. session'[b].request # "SYNC" /\ ~InTasks(tasks', "SYNC", b)
        BY Zenon, <2>1, <3>1, <3>2, <3>6
      <4> QED
        BY Zenon, <4>1, <4>2 DEF Asking, HasJob
    <3>10. \A c \in Conns : session'[c].state = "new" <=> session[c].state = "new"
      BY Zenon, <2>4, <3>6
    <3>11. Stages'
      <4>1. CASE b = follower.c /\ follower.at # "off"
        <5>1. \A v \in Workers : job'[v].op = "ACCEPT" =>
                 job[v].op = "ACCEPT" /\ job'[v].c = job[v].c /\ job'[v].at = job[v].at
          BY <2>2, <2>6 DEF Only, Idle
        <5>2. /\ InTasks(tasks, "ACCEPT", b) => follower.at = "handshake"
              /\ \A v \in Workers : job[v].op = "ACCEPT" /\ job[v].c = b /\ job[v].at = "handshake" => follower.at = "handshake"
          BY Zenon, <4>1 DEF Course, Stages
        <5> QED
          BY Zenon, <2>1, <2>2, <3>5, <3>9, <4>1, <5>1, <5>2 DEF Stages
      <4>2. CASE ~(b = follower.c /\ follower.at # "off")
        <5>1. \A c \in Conns : c = follower.c /\ follower.at # "off" =>
                 /\ Answered(session'[c].out) => Answered(session[c].out)
                 /\ kind = "STANDBY" /\ session[c].state = "alive" => session'[c].state = "alive"
          BY Zenon, <3>6, <4>2
        <5> QED
          BY Zenon, <2>1, <3>7, <5>1, <1>StagesKept DEF Course
      <4> QED
        BY Zenon, <4>1, <4>2
    <3>12. Started'
      <4> SUFFICES ASSUME NEW c \in Conns
                   PROVE  /\ InTasks(tasks, "ACCEPT", c) \/ HasJob("ACCEPT", c)' => session'[c].state = "new"
                          /\ \A op \in {"SYNC", "CLOSE"} : InTasks(tasks, op, c) \/ HasJob(op, c)' => session'[c].state # "new"
                          /\ Answered(session'[c].out) => session'[c].state # "new"
                          /\ c = follower.c /\ follower.at = "on" => session'[c].state # "new"
        BY Zenon, <2>1 DEF Started
      <4>1. \A op \in PeerOps : HasJob(op, c)' => HasJob(op, c)
        BY Zenon, <3>7 DEF HasJob, Holds
      <4>2. {"ACCEPT", "SYNC", "CLOSE"} \subseteq PeerOps
        BY Zenon DEF PeerOps
      <4>3. Answered(session'[c].out) => session'[c].state # "new"
        <5>1. CASE c = b
          BY Zenon, <2>4, <3>10, <5>1
        <5>2. CASE c # b
          BY Zenon, <2>2, <3>6, <5>2 DEF Course, Started
        <5> QED
          BY Zenon, <5>1, <5>2
      <4> QED
        BY Zenon, <2>2, <3>10, <4>1, <4>2, <4>3 DEF Course, Started
    <3> QED
      BY Zenon, <3>8, <3>11, <3>12 DEF Course
  <2> QED
    BY Zenon, <2>5, <2>6
\* The session's worker reads a request: it is queued, and no longer to be read.
<1>RequestCourse.
    ASSUME Shape, Course, NEW b \in Conns, ReadRequest(b)
    PROVE  Course'
  <2> USE <1>RequestCourse
  <2> DEFINE q == session[b].request
             t == Task(q, b, Absent)
  <2>1. /\ UNCHANGED <<kind, endpoint, follower, job>> /\ session[b].state = "alive" /\ q # "none"
        /\ tasks' = Append(tasks, t) /\ session' = [session EXCEPT ![b].request = "none"]
    BY Zenon DEF ReadRequest, Submit
  <2>2. q \in {"SYNC", "CLOSE"} /\ tasks \in Seq(TaskType)
    BY Zenon, <2>1 DEF Shape, Typed, SessionType
  <2>3. t \in TaskType /\ t.op = q /\ t.c = b
    BY <2>2, FollowersAssumption DEF Task, TaskType, Ops, VerType, Conns
  <2>4. /\ \A d \in Conns \ {b} : session'[d] = session[d]
        /\ session'[b].state = "alive" /\ session'[b].request = "none" /\ session'[b].out = session[b].out
    BY Zenon, <2>1, RequestFacts DEF Shape
  <2>5. kind = "CLIENT"
    BY Zenon, <2>1 DEF Shape, Typed, Links
  <2>q. PICK r \in {"SYNC", "CLOSE"} : r = q
    BY Zenon, <2>2
  <2> HIDE DEF t, q
  <2>6. \A op, c : InTasks(tasks', op, c) <=> InTasks(tasks, op, c) \/ (r = op /\ b = c)
    BY Zenon, <2>1, <2>2, <2>3, <2>q, InAppend
  <2>7. r = "SYNC" => ~InTasks(tasks, "SYNC", b) /\ ~HasJob("SYNC", b)
    BY Zenon, <2>q DEF Course, Unique, q
  <2>8. \A op, c : HasJob(op, c)' <=> HasJob(op, c)
    BY Zenon, <2>1 DEF HasJob
  <2>9. \A d \in Conns : /\ session'[d].request = "SYNC" => session[d].request = "SYNC" /\ d # b
                         /\ session'[d].out = session[d].out /\ session'[d].state = session[d].state
    BY Zenon, <2>1, <2>4
  <2>10. Unique'
    <3>1. ASSUME NEW op \in OnceOps, NEW c \in Conns
          PROVE  ~Twice(tasks', op, c)
      <4>1. ~Twice(tasks, op, c)
        BY Zenon DEF Course, Unique
      <4>2. ~(t.op = op /\ t.c = c) \/ ~InTasks(tasks, op, c)
        BY Zenon, <2>3, <2>7, <2>q DEF OnceOps
      <4> QED
        BY Zenon, <2>1, <2>2, <2>3, <4>1, <4>2, TwiceAppend
    <3>2. \A w, v \in Workers : job'[w].op \in OnceOps /\ job'[v].op = job'[w].op /\ job'[v].c = job'[w].c => w = v
      BY Zenon, <2>1 DEF Course, Unique
    <3>3. ASSUME NEW w \in Workers, job'[w].op \in OnceOps
          PROVE  ~InTasks(tasks', job'[w].op, job'[w].c)
      <4>1. ~InTasks(tasks, job[w].op, job[w].c) /\ job'[w] = job[w]
        BY Zenon, <2>1, <3>3 DEF Course, Unique
      <4>2. ~(r = job[w].op /\ b = job[w].c)
        BY Zenon, <2>1, <2>7, <3>3 DEF HasJob, OnceOps
      <4> QED
        BY Zenon, <2>6, <4>1, <4>2
    <3>4. ASSUME NEW c \in Conns, session'[c].request = "SYNC"
          PROVE  ~InTasks(tasks', "SYNC", c) /\ ~HasJob("SYNC", c)'
      BY Zenon, <2>6, <2>8, <2>9, <3>4 DEF Course, Unique
    <3> QED
      BY Zenon, <3>1, <3>2, <3>3, <3>4 DEF Unique
  <2>11. Stages'
    <3>1. \A c \in Conns : Asking(c)' => Asking(c)
      BY <2>6, <2>8, <2>9, <2>q DEF Asking, q
    <3>2. \A c \in Conns : InTasks(tasks', "ACCEPT", c) <=> InTasks(tasks, "ACCEPT", c)
      BY <2>6
    <3> QED
      BY <2>1, <2>9, <3>1, <3>2 DEF Course, Stages
  <2>12. Started'
    <3> SUFFICES ASSUME NEW c \in Conns
                 PROVE  /\ InTasks(tasks', "ACCEPT", c) \/ HasJob("ACCEPT", c)' => session'[c].state = "new"
                        /\ \A op \in {"SYNC", "CLOSE"} : InTasks(tasks', op, c) \/ HasJob(op, c)' => session'[c].state # "new"
                        /\ Answered(session'[c].out) => session'[c].state # "new"
                        /\ c = follower.c /\ follower.at = "on" => session'[c].state # "new"
      BY Zenon, <2>1 DEF Started
    <3> QED
      BY <2>1, <2>5, <2>6, <2>8, <2>9 DEF Course, Started
  <2> QED
    BY Zenon, <2>10, <2>11, <2>12 DEF Course
\* Client::syncStatus: the client asks for its listing, once.
<1>SendSyncCourse.
    ASSUME Shape, Course, SendSync
    PROVE  Course'
  <2> USE <1>SendSyncCourse
  <2>1. /\ UNCHANGED <<kind, endpoint, tasks, job>> /\ follower.at = "new"
        /\ follower' = [follower EXCEPT !.at = "sync"] /\ session' = [session EXCEPT ![follower.c].request = "SYNC"]
    BY Zenon DEF SendSync
  <2>2. follower.c \in Conns
    BY Zenon, <2>1, FollowerConn
  <2>3. PICK b \in Conns : b = follower.c
    BY Zenon, <2>2
  <2>4. /\ \A d \in Conns \ {b} : session'[d] = session[d]
        /\ session'[b].state = session[b].state /\ session'[b].out = session[b].out
    BY Zenon, <2>1, <2>3, RequestFacts DEF Shape
  <2>5. follower'.c = b /\ follower'.at = "sync"
    BY Zenon, <2>1, <2>3, FollowerAt DEF Shape
  <2>6. ~Asking(b) /\ ~Answered(session[b].out)
    BY Zenon, <2>1, <2>3 DEF Course, Stages
  <2>7. Unique'
    <3>1. \A c \in Conns : session'[c].request = "SYNC" => ~InTasks(tasks, "SYNC", c) /\ ~HasJob("SYNC", c)
      BY Zenon, <2>4, <2>6 DEF Course, Unique, Asking
    <3> QED
      BY Zenon, <2>1, <3>1 DEF Course, Unique, HasJob
  <2>8. Stages'
    <3>1. /\ ~InTasks(tasks, "ACCEPT", b)
          /\ \A w \in Workers : ~(job[w].op = "ACCEPT" /\ job[w].c = b /\ job[w].at = "handshake")
      BY Zenon, <2>1, <2>3 DEF Course, Stages
    <3> QED
      BY Zenon, <2>1, <2>4, <2>5, <2>6, <3>1 DEF Stages
  <2>9. Started'
    <3>1. Holds /\ Grown(Ops \ PeerOps)
      BY Zenon, <2>1 DEF Holds, Grown
    <3>2. \A c \in Conns : /\ Answered(session'[c].out) => Answered(session[c].out)
                           /\ session'[c].state = "new" <=> session[c].state = "new"
      BY Zenon, <2>4
    <3> QED
      BY Zenon, <2>1, <2>3, <2>5, <3>1, <3>2, <1>StartedKept DEF Course
  <2> QED
    BY Zenon, <2>7, <2>8, <2>9 DEF Course
\* The follower reads a frame: with its listing it is past SYNC_STATUS.
<1>FrameCourse.
    ASSUME Shape, Course, ReadFrame
    PROVE  Course'
  <2> USE <1>FrameCourse
  <2>1. UNCHANGED <<kind, endpoint, tasks, job>>
    BY Zenon DEF ReadFrame
  <2>2. follower.c \in Conns
    BY Zenon, FrameFacts
  <2>3. PICK b \in Conns : b = follower.c
    BY Zenon, <2>2
  <2> DEFINE o == session[b].out
             f == o[1]
  <2>4. /\ o # <<>> /\ o \in Seq(FrameType) /\ session[b].state = "alive"
        /\ \A d \in Conns \ {b} : session'[d] = session[d]
        /\ session'[b].state = "alive" /\ session'[b].request = session[b].request /\ session'[b].out = Tail(o)
        /\ f.what \in FramesOf
        /\ follower.at \in {"new", "sync", "on"} /\ follower'.c = b
        /\ follower'.at = IF f.what = "RESPONSE" THEN "on" ELSE follower.at
    BY Zenon, <2>3, FrameFacts
  <2> HIDE DEF o, f
  <2>5. Answered(session[b].out) <=> Answered(session'[b].out) \/ f.what = "RESPONSE"
    BY <2>4, AnsweredTail DEF o, f
  <2>6. Holds /\ HoldsAt /\ Asks /\ Grown(Ops \ OnceOps) /\ Grown(Ops \ PeerOps)
    BY Zenon, <2>1, <2>4 DEF Holds, HoldsAt, Asks, Grown
  <2>7. Unique'
    BY Zenon, <2>6, <1>UniqueKept DEF Course
  <2>8. \A c \in Conns : /\ Answered(session'[c].out) => Answered(session[c].out)
                         /\ session'[c].state = session[c].state
    BY Zenon, <2>4, <2>5
  <2>9. Stages'
    <3>1. CASE f.what # "RESPONSE"
      BY Zenon, <2>1, <2>3, <2>4, <2>6, <2>8, <3>1, <1>StagesKept DEF Course
    <3>2. CASE f.what = "RESPONSE"
      <4>1. follower'.at = "on" /\ Answered(session[b].out) /\ kind = "CLIENT"
        BY Zenon, <2>4, <2>5, <3>2 DEF FramesOf
      <4>2. ~Asking(b) /\ follower.at # "handshake"
        BY Zenon, <2>3, <2>4, <4>1 DEF Course, Stages
      <4>3. ~Asking(b)'
        BY Zenon, <2>1, <2>4, <4>2 DEF Asking, HasJob
      <4>4. /\ ~InTasks(tasks, "ACCEPT", b)
            /\ \A w \in Workers : ~(job[w].op = "ACCEPT" /\ job[w].c = b /\ job[w].at = "handshake")
        BY Zenon, <2>3, <2>4, <4>2 DEF Course, Stages
      <4> QED
        BY Zenon, <2>1, <2>4, <4>1, <4>3, <4>4 DEF Stages
    <3> QED
      BY Zenon, <3>1, <3>2
  <2>10. Started'
    <3> SUFFICES ASSUME kind = "CLIENT", NEW c \in Conns
                 PROVE  /\ InTasks(tasks, "ACCEPT", c) \/ HasJob("ACCEPT", c)' => session'[c].state = "new"
                        /\ \A op \in {"SYNC", "CLOSE"} : InTasks(tasks, op, c) \/ HasJob(op, c)' => session'[c].state # "new"
                        /\ Answered(session'[c].out) => session'[c].state # "new"
                        /\ c = follower'.c /\ follower'.at = "on" => session'[c].state # "new"
      BY Zenon, <2>1 DEF Started
    <3>1. \A op : HasJob(op, c)' <=> HasJob(op, c)
      BY Zenon, <2>1 DEF HasJob
    <3>2. c = follower'.c => session'[c].state # "new"
      BY Zenon, <2>4
    <3> QED
      BY <2>8, <3>1, <3>2 DEF Course, Started
  <2> QED
    BY Zenon, <2>7, <2>9, <2>10 DEF Course
\* A new connection starts with nothing asked for.
<1>ConnectCourse.
    ASSUME Shape, Course, Connect
    PROVE  Course'
  <2> USE <1>ConnectCourse
  <2>1. UNCHANGED <<kind, endpoint, job>>
    BY Zenon DEF Connect
  <2>2. follower.c + 1 \in Conns
    BY Zenon, ConnectFacts
  <2>3. PICK b \in Conns : b = follower.c + 1
    BY Zenon, <2>2
  <2> DEFINE t == Task("ACCEPT", b, Absent)
  <2>4. /\ \A d \in Conns \ {b} : session'[d] = session[d]
        /\ session'[b].state = "new" /\ session'[b].request = "none" /\ session'[b].out = <<>>
        /\ follower'.c = b /\ follower'.at = "handshake"
        /\ t \in TaskType /\ tasks' = Append(tasks, t)
    BY Zenon, <2>3, ConnectFacts
  <2>5. t.op = "ACCEPT" /\ t.c = b
    BY Zenon DEF Task
  <2> HIDE DEF t
  <2>6. tasks \in Seq(TaskType) /\ follower.c \in Nat /\ b \in Nat /\ endpoint \in Nat /\ endpoint <= follower.c
    BY DEF Shape, Typed, Links, FollowerType, Conns
  <2>7. \A op \in PeerOps : ~InTasks(tasks, op, b) /\ ~HasJob(op, b)
    <3>1. \A i \in 1 .. Len(tasks) : tasks[i].c # b
      <4>1. \A i \in 1 .. Len(tasks) : tasks[i] \in TaskType /\ tasks[i].c <= follower.c
        BY <2>6 DEF Shape, Queue, Known
      <4>2. \A i \in 1 .. Len(tasks) : tasks[i].c \in Nat
        BY <4>1, FollowersAssumption DEF TaskType
      <4> QED
        BY <2>3, <2>6, <4>1, <4>2
    <3>2. ASSUME NEW w \in Workers
          PROVE  job[w].c # b
      <4>1. job[w].c <= follower.c /\ job[w] \in JobType
        BY Zenon DEF Shape, Typed, Jobs, Known
      <4>2. job[w].c \in Int
        BY <4>1 DEF JobType
      <4> QED
        BY <2>3, <2>6, <4>1, <4>2
    <3> QED
      BY Zenon, <3>1, <3>2 DEF InTasks, HasJob
  <2>8. \A op, c : InTasks(tasks', op, c) <=> InTasks(tasks, op, c) \/ (op = "ACCEPT" /\ b = c)
    BY Zenon, <2>4, <2>5, <2>6, InAppend
  <2>9. \A op, c : HasJob(op, c)' <=> HasJob(op, c)
    BY Zenon, <2>1 DEF HasJob
  <2>10. ~Answered(session'[b].out)
    BY Zenon, <2>4, AnsweredNone
  <2>a. {"ACCEPT", "SYNC", "CLOSE"} \subseteq PeerOps /\ OnceOps \subseteq PeerOps
    BY Zenon DEF PeerOps, OnceOps
  <2>11. Unique'
    <3>1. ASSUME NEW op \in OnceOps, NEW c \in Conns
          PROVE  ~Twice(tasks', op, c)
      <4>1. ~Twice(tasks, op, c)
        BY Zenon DEF Course, Unique
      <4>2. ~(t.op = op /\ t.c = c) \/ ~InTasks(tasks, op, c)
        BY Zenon, <2>5, <2>7, <2>a
      <4> QED
        BY Zenon, <2>4, <2>6, <4>1, <4>2, TwiceAppend
    <3>2. \A w, v \in Workers : job'[w].op \in OnceOps /\ job'[v].op = job'[w].op /\ job'[v].c = job'[w].c => w = v
      BY Zenon, <2>1 DEF Course, Unique
    <3>3. ASSUME NEW w \in Workers, job'[w].op \in OnceOps
          PROVE  ~InTasks(tasks', job'[w].op, job'[w].c)
      <4>1. ~InTasks(tasks, job[w].op, job[w].c) /\ job'[w] = job[w]
        BY Zenon, <2>1, <3>3 DEF Course, Unique
      <4>2. ~(job[w].op = "ACCEPT" /\ job[w].c = b)
        BY Zenon, <2>7, <2>a DEF HasJob
      <4> QED
        BY Zenon, <2>8, <4>1, <4>2
    <3>4. ASSUME NEW c \in Conns, session'[c].request = "SYNC"
          PROVE  ~InTasks(tasks', "SYNC", c) /\ ~HasJob("SYNC", c)'
      BY Zenon, <2>4, <2>8, <2>9, <3>4 DEF Course, Unique
    <3> QED
      BY Zenon, <3>1, <3>2, <3>3, <3>4 DEF Unique
  <2>12. Stages'
    <3>1. ~Asking(b)'
      BY <2>4, <2>7, <2>8, <2>9, <2>a DEF Asking
    <3>2. endpoint' # b
      BY <2>1, <2>3, <2>6
    <3>3. \A w \in Workers : ~(job'[w].op = "ACCEPT" /\ job'[w].c = b)
      BY Zenon, <2>1, <2>7, <2>a DEF HasJob
    <3> QED
      BY Zenon, <2>4, <2>10, <3>1, <3>2, <3>3 DEF Stages
  <2>13. Started'
    <3> SUFFICES ASSUME kind = "CLIENT", NEW c \in Conns
                 PROVE  /\ InTasks(tasks', "ACCEPT", c) \/ HasJob("ACCEPT", c)' => session'[c].state = "new"
                        /\ \A op \in {"SYNC", "CLOSE"} : InTasks(tasks', op, c) \/ HasJob(op, c)' => session'[c].state # "new"
                        /\ Answered(session'[c].out) => session'[c].state # "new"
                        /\ c = follower'.c /\ follower'.at = "on" => session'[c].state # "new"
      BY Zenon, <2>1 DEF Started
    <3>1. CASE c = b
      BY Zenon, <2>4, <2>7, <2>8, <2>9, <2>10, <2>a, <3>1
    <3>2. CASE c # b
      BY <2>4, <2>8, <2>9, <3>2 DEF Course, Started
    <3> QED
      BY Zenon, <3>1, <3>2
  <2> QED
    BY Zenon, <2>11, <2>12, <2>13 DEF Course
\* The connection is gone.
<1>OffCourse.
    ASSUME Shape, Course, Break \/ Unmount \/ HeartbeatTimeout
    PROVE  Course'
  <2> USE <1>OffCourse
  <2>1. UNCHANGED <<kind, endpoint, tasks, job>> /\ follower.at # "off"
    BY Zenon DEF Break, Unmount, HeartbeatTimeout
  <2>2. PICK l \in {"closed", "down"}, r \in {"none", "CLOSE"}, v \in {follower.view, Absent} : Off(l, r, v)
    BY Zenon DEF Break, Unmount, HeartbeatTimeout
  <2>3. v \in VerType
    BY Zenon DEF Shape, Typed, FollowerType, VerType
  <2>4. follower.c \in Conns
    BY Zenon, <2>1, FollowerConn
  <2>5. PICK b \in Conns : b = follower.c
    BY Zenon, <2>4
  <2>6. /\ \A d \in Conns \ {b} : session'[d] = session[d]
        /\ session'[b].state = session[b].state /\ session'[b].request = r /\ session'[b].out = <<>>
        /\ follower'.c = b /\ follower'.at = "off"
    BY Zenon, <2>1, <2>2, <2>3, <2>5, OffFacts
  <2>7. Holds /\ Asks /\ Grown(Ops \ OnceOps) /\ Grown(Ops \ PeerOps)
    BY Zenon, <2>1, <2>6 DEF Holds, Asks, Grown
  <2>8. Unique'
    BY Zenon, <2>7, <1>UniqueKept DEF Course
  <2>9. Stages'
    BY Zenon, <2>6 DEF Stages
  <2>10. \A c \in Conns : /\ Answered(session'[c].out) => Answered(session[c].out)
                          /\ session'[c].state = "new" <=> session[c].state = "new"
    BY Zenon, <2>6, AnsweredNone
  <2>11. Started'
    BY Zenon, <2>1, <2>5, <2>6, <2>7, <2>10, <1>StartedKept DEF Course
  <2> QED
    BY Zenon, <2>8, <2>9, <2>11 DEF Course
<1>1.
    ASSUME Shape, Course, [Next]_vars
    PROVE  Course'
  <2> USE <1>1
  <2>1. CASE UNCHANGED vars
    BY Zenon, <2>1, OthersQuiet, <1>QuietCourse
  <2>2. ASSUME NEW op \in WriteOps, Request(op)
        PROVE  Course'
    BY Zenon, <2>2, OthersQuiet, <1>QuietCourse
  <2>3. ASSUME NEW w \in Workers, WorkerStep(w)
        PROVE  Course'
    BY Zenon, <2>3, WritesQuiet, <1>QuietCourse, <1>TakeCourse, <1>HandshakeCourse, <1>RegisterCourse, <1>BurstCourse, <1>SyncCourse,
       <1>ServeCourse DEF WorkerStep
  <2>4. ASSUME NEW c \in Conns, SessionStep(c)
        PROVE  Course'
    BY Zenon, <2>4, <1>RequestCourse, <1>DiesCourse DEF SessionStep
  <2>5. CASE HbStep
    BY Zenon, <2>5, OthersQuiet, <1>QuietCourse, <1>HbEraseCourse DEF HbStep
  <2>6. CASE FollowerStep \/ Connect \/ Break \/ Unmount
    BY Zenon, <2>6, <1>SendSyncCourse, <1>FrameCourse, <1>ConnectCourse, <1>OffCourse DEF FollowerStep
  <2> QED
    BY Zenon, <2>1, <2>2, <2>3, <2>4, <2>5, <2>6 DEF Next
<1> QED
  BY <1>1

\* Initially there is no connection.
LEMMA InitCourse ==
  ASSUME Init
  PROVE  Course
<1>1. /\ \A op, c : ~InTasks(tasks, op, c) /\ ~Twice(tasks, op, c)
      /\ follower.at = "off"
  BY DEF Init, InTasks, Twice
<1>2. \A w \in Workers : job[w].op = "idle"
  BY Zenon DEF Init, Idle
<1>3. \A c \in Conns : session[c].request = "none" /\ session[c].out = <<>>
  BY Zenon DEF Init, NewSession
<1>4. Unique
  BY Zenon, <1>1, <1>2, <1>3 DEF Unique, OnceOps
<1>5. Stages
  BY Zenon, <1>1 DEF Stages
<1>6. Started
  BY Zenon, <1>1, <1>2, <1>3, AnsweredNone DEF Started, HasJob
<1> QED
  BY Zenon, <1>4, <1>5, <1>6 DEF Course

-----------------------------------------------------------------------------
(* What the follower will have once it has read its frames.                *)

\* The version the follower will have once it has read the frames o.
Eventual(o, view) == IF o # <<>> THEN o[Len(o)].ver ELSE view

\* A write between its fan-out and its answer.
Active(j) == j.at \in {"fanout", "commit", "delta", "push"}

\* A write that has reached the datanodes and not yet the server's map.
Uncommitted(j) == j.at = "commit" \/ (j.at = "push" /\ j.op = "DELETE")

\* A rollback is queued.
Rolls(s) == \E i \in 1 .. Len(s) : s[i].op = "ROLLBACK"

\* One write is under way at a time and none is rolled back; the datanodes are
\* ahead of the server's map exactly between its fan-out and its commit.
Alone ==
  /\ \A w, v \in Workers : Active(job[w]) /\ Active(job[v]) => w = v
  /\ ~Rolls(tasks) /\ \A w \in Workers : job[w].op # "ROLLBACK"
  /\ \A w \in Workers : job[w].at = "delta" \/ (job[w].at = "push" /\ job[w].op # "DELETE") => version = job[w].ver
  /\ \A w \in Workers : Uncommitted(job[w]) => stored = job[w].ver
  /\ stored # version => \E w \in Workers : Uncommitted(job[w])

\* A delta, a push, or the commit of a delete is still to come.
DeltaComes == \E w \in Workers : job[w].at \in {"commit", "delta"}

PushComes == \E w \in Workers : job[w].at = "push" \/ (job[w].at = "commit" /\ job[w].op # "DELETE")

DeleteCommits == \E w \in Workers : job[w].at = "commit" /\ job[w].op = "DELETE"

\* The client has its listing, or will once it has read its frames.
Synced(c) == follower.at = "on" \/ (follower.at = "sync" /\ Answered(session[c].out))

\* A registered standby has the server's version once it has read its frames, or a
\* delta is to come; one that is not registered yet has that in its snapshot.
StandbyKept ==
  \A c \in Conns : kind = "STANDBY" /\ c = follower.c /\ follower.at = "on" =>
    /\ endpoint = c => Eventual(session[c].out, follower.view) = version \/ DeltaComes
    /\ \A w \in Workers : job[w].op = "ACCEPT" /\ job[w].c = c =>
         /\ job[w].at \in {"snap", "register"} => job[w].ver = version \/ DeltaComes
         /\ job[w].at = "register" => Eventual(session[c].out, follower.view) = job[w].ver

\* A client with its listing has the server's version once it has read its frames,
\* or a push is to come; a delete is pushed before it is committed.
ClientKept ==
  \A c \in Conns : kind = "CLIENT" /\ c = follower.c /\ Synced(c) =>
    PushComes \/ Eventual(session[c].out, follower.view) = IF DeleteCommits THEN Absent ELSE version

\* What keeps the follower up.
Following == Alone /\ StandbyKept /\ ClientKept

\* No write changes its place.
Calm == \A v \in Workers : Active(job'[v]) \/ Active(job[v]) => job'[v] = job[v]

\* The handshakes of standbys between their snapshot and their registration stay.
Windows ==
  \A v \in Workers : job'[v].op = "ACCEPT" /\ job'[v].at \in {"snap", "register"} /\ kind = "STANDBY" => job'[v] = job[v]

-----------------------------------------------------------------------------
(* The follower keeps up: the writes, then the handshakes and listings,    *)
(* then the follower's own steps.                                          *)

\* Until one of the events happens the follower keeps up.
KeepsUp == events = {} => Following

\* Every step keeps the follower up, as long as none of the events happens.
LEMMA KeepsUpStep ==
  Shape /\ Registered /\ Course /\ KeepsUp /\ [Next]_vars => KeepsUp'
\* A frame that is posted is what the follower will have ...
<1>LastAppend.
    ASSUME NEW s \in Seq(FrameType), NEW f \in FrameType, NEW v
    PROVE  Eventual(Append(s, f), v) = f.ver
  <2> USE <1>LastAppend
  <2> DEFINE r == Append(s, f)
  <2>1. Appended(s, r, f) /\ Len(s) \in Nat
    BY AppendFacts
  <2> HIDE DEF r
  <2>2. r # <<>>
    BY <2>1 DEF Appended
  <2>3. r[Len(r)] = f
    BY Zenon, <2>1 DEF Appended
  <2>4. Eventual(r, v) = f.ver
    BY Zenon, <2>2, <2>3 DEF Eventual
  <2> QED
    BY Zenon, <2>4 DEF r
\* ... and reading a frame changes nothing about that, if the frame's version is
\* taken over or another frame follows.
<1>LastTail.
    ASSUME NEW s \in Seq(FrameType), s # <<>>, NEW u, NEW v, u = s[1].ver \/ Tail(s) # <<>>
    PROVE  Eventual(Tail(s), u) = Eventual(s, v)
  <2> USE <1>LastTail
  <2> DEFINE r == Tail(s)
  <2>1. /\ Len(s) \in Nat /\ Len(s) >= 1 /\ Len(r) = Len(s) - 1 /\ \A i \in 1 .. Len(r) : r[i] = s[i + 1]
        /\ r \in Seq(FrameType)
    BY TailFacts
  <2>2. u = s[1].ver \/ r # <<>>
    BY Zenon
  <2> HIDE DEF r
  <2>3. CASE r = <<>>
    <3>1. Len(s) = 1
      BY <2>1, <2>3
    <3> QED
      BY Zenon, <2>2, <2>3, <3>1 DEF Eventual, r
  <2>4. CASE r # <<>>
    <3>1. Len(r) >= 1
      BY <2>1, <2>4
    <3>2. r[Len(r)] = s[Len(s)]
      BY <2>1, <3>1
    <3>3. Eventual(r, u) = Eventual(s, v)
      BY Zenon, <2>4, <3>2 DEF Eventual
    <3> QED
      BY Zenon, <3>3 DEF r
  <2> QED
    BY Zenon, <2>3, <2>4
\* Only a write below quorum queues a rollback.
<1>RollsAppend.
    ASSUME Shape, Grown(Ops \ {"ROLLBACK"}), ~Rolls(tasks)
    PROVE  ~Rolls(tasks')
  <2> USE <1>RollsAppend
  <2>1. tasks \in Seq(TaskType)
    BY Zenon DEF Shape, Typed
  <2>2. CASE UNCHANGED tasks
    BY Zenon, <2>2
  <2>3. ASSUME NEW t \in TaskType, tasks' = Append(tasks, t), t.op # "ROLLBACK"
        PROVE  ~Rolls(tasks')
    <3>1. Appended(tasks, tasks', t) /\ Len(tasks) \in Nat
      BY <2>1, <2>3, AppendFacts
    <3> QED
      BY <2>3, <3>1 DEF Rolls, Appended
  <2> QED
    BY Zenon, <2>2, <2>3 DEF Grown
\* Alone is kept by a step that moves no write ...
<1>AloneKept.
    ASSUME Alone, UNCHANGED <<version, stored>>, Calm, ~Rolls(tasks'), \A v \in Workers : job'[v].op # "ROLLBACK"
    PROVE  Alone'
  <2> USE <1>AloneKept
  <2>1. \A v \in Workers : Uncommitted(job'[v]) \/ Uncommitted(job[v]) => job'[v] = job[v]
    BY Zenon DEF Calm, Active, Uncommitted
  <2>2. \A w, v \in Workers : Active(job'[w]) /\ Active(job'[v]) => w = v
    BY Zenon DEF Alone, Calm
  <2>3. \A w \in Workers : job'[w].at = "delta" \/ (job'[w].at = "push" /\ job'[w].op # "DELETE") => version = job'[w].ver
    BY Zenon DEF Alone, Calm, Active
  <2>4. \A w \in Workers : Uncommitted(job'[w]) => stored = job'[w].ver
    BY Zenon, <2>1 DEF Alone
  <2>5. stored # version => \E w \in Workers : Uncommitted(job'[w])
    BY Zenon, <2>1 DEF Alone
  <2> QED
    BY Zenon, <2>2, <2>3, <2>4, <2>5 DEF Alone
\* ... which also leaves the deltas, pushes and deletes that are to come.
<1>CalmComes.
    ASSUME Calm
    PROVE  (DeltaComes' <=> DeltaComes) /\ (PushComes' <=> PushComes) /\ (DeleteCommits' <=> DeleteCommits)
  BY Zenon, <1>CalmComes DEF Calm, Active, DeltaComes, PushComes, DeleteCommits
\* Both kinds of follower keep up in a step that posts and reads no frame of
\* theirs and leaves the deltas and pushes that are to come.
<1>SidesKept.
    ASSUME Shape, StandbyKept, ClientKept, UNCHANGED <<kind, version, follower>>, endpoint' \in {endpoint, 0},
           DeltaComes => DeltaComes', PushComes => PushComes', kind = "CLIENT" => (DeleteCommits' <=> DeleteCommits),
           Windows, \A c \in Conns : c = follower.c /\ follower.at # "off" => session'[c].out = session[c].out
    PROVE  StandbyKept' /\ ClientKept'
  <2> USE <1>SidesKept
  <2>1. \A c \in Conns : c # 0
    BY DEF Conns
  <2>2. StandbyKept'
    <3> SUFFICES ASSUME NEW c \in Conns, kind = "STANDBY", c = follower.c, follower.at = "on"
                 PROVE  /\ endpoint' = c => Eventual(session[c].out, follower.view) = version \/ DeltaComes'
                        /\ \A w \in Workers : job'[w].op = "ACCEPT" /\ job'[w].c = c =>
                             /\ job'[w].at \in {"snap", "register"} => job'[w].ver = version \/ DeltaComes'
                             /\ job'[w].at = "register" => Eventual(session[c].out, follower.view) = job'[w].ver
      BY Zenon DEF StandbyKept
    <3>1. endpoint' = c => Eventual(session[c].out, follower.view) = version \/ DeltaComes'
      BY Zenon, <2>1 DEF StandbyKept
    <3>2. \A w \in Workers : job'[w].op = "ACCEPT" /\ job'[w].c = c =>
             /\ job'[w].at \in {"snap", "register"} => job'[w].ver = version \/ DeltaComes'
             /\ job'[w].at = "register" => Eventual(session[c].out, follower.view) = job'[w].ver
      BY Zenon DEF StandbyKept, Windows
    <3> QED
      BY Zenon, <3>1, <3>2
  <2>3. ClientKept'
    <3> SUFFICES ASSUME NEW c \in Conns, kind = "CLIENT", c = follower.c, Synced(c)
                 PROVE  PushComes' \/ Eventual(session[c].out, follower.view) = IF DeleteCommits' THEN Absent ELSE version
      BY Zenon DEF ClientKept, Synced
    <3> QED
      BY Zenon DEF ClientKept
  <2> QED
    BY Zenon, <2>2, <2>3
\* A step that moves no write and posts and reads no frame of the follower.
<1>CalmFollowing.
    ASSUME Shape, Following, UNCHANGED <<kind, version, stored, follower>>, endpoint' \in {endpoint, 0}, Calm,
           Windows, ~Rolls(tasks'), \A v \in Workers : job'[v].op # "ROLLBACK",
           \A c \in Conns : c = follower.c /\ follower.at # "off" => session'[c].out = session[c].out
    PROVE  Following'
  <2> USE <1>CalmFollowing
  <2>1. Alone'
    BY Zenon, <1>AloneKept DEF Following
  <2>2. StandbyKept' /\ ClientKept'
    BY Zenon, <1>CalmComes, <1>SidesKept DEF Following
  <2> QED
    BY Zenon, <2>1, <2>2 DEF Following
\* A job that is no write under way moves no write.
<1>CalmJob.
    ASSUME NEW w \in Workers, Only(w), ~Active(job[w]), ~Active(job'[w])
    PROVE  Calm
  BY Zenon, <1>CalmJob DEF Calm, Only
\* A worker that does not read or send a snapshot keeps the handshakes of standbys.
<1>WindowsJob.
    ASSUME NEW w \in Workers, Only(w),
           job'[w].op = "ACCEPT" /\ job'[w].at \in {"snap", "register"} => kind # "STANDBY" \/ job'[w] = job[w]
    PROVE  Windows
  BY Zenon, <1>WindowsJob DEF Windows, Only
\* The pool, where no write and no frame is concerned.
<1>PoolFollowing.
    ASSUME Shape, Following, NEW w \in Workers,
           TakeTask(w) \/ AnswerWriter(w) \/ AnswerClose(w) \/ CloseSession(w) \/ EraseClient(w)
    PROVE  Following'
  <2> USE <1>PoolFollowing
  <2>a. /\ ~Active(Idle) /\ Idle.op = "idle" /\ ~Rolls(tasks) /\ \A v \in Workers : job[v].op # "ROLLBACK"
    BY Zenon DEF Active, Idle, Following, Alone
  <2>b. ASSUME Only(w), job'[w].op # "ROLLBACK"
        PROVE  \A v \in Workers : job'[v].op # "ROLLBACK"
    BY Zenon, <2>a, <2>b DEF Only
  <2>1. CASE TakeTask(w)
    <3>1. UNCHANGED <<kind, version, stored, endpoint, follower, session>>
      BY Zenon, <2>1 DEF TakeTask
    <3>2. /\ Only(w) /\ tasks # <<>> /\ tasks' = Tail(tasks) /\ job[w].at = "idle"
          /\ job'[w].op = tasks[1].op /\ job'[w].at = FirstPoint(tasks[1].op)
      BY Zenon, <2>1, TakeMoves DEF Moved
    <3>3. tasks \in Seq(TaskType) /\ Len(tasks) \in Nat /\ Len(tasks) >= 1 /\ tasks[1] \in TaskType
          /\ Len(tasks') = Len(tasks) - 1 /\ \A i \in 1 .. Len(tasks') : tasks'[i] = tasks[i + 1]
      BY <3>2, TailFacts DEF Shape, Typed
    <3>4. ~Rolls(tasks') /\ tasks[1].op # "ROLLBACK"
      BY <2>a, <3>3 DEF Rolls
    <3>5. job'[w].at \in {"list", "handshake", "read", "answer", "erase"}
      BY Zenon, <3>2, <3>3, <3>4 DEF FirstPoint, TaskType, Ops, WriteOps
    <3>6. Calm /\ Windows
      BY Zenon, <3>2, <3>5, <1>CalmJob, <1>WindowsJob DEF Active
    <3>7. \A v \in Workers : job'[v].op # "ROLLBACK"
      BY Zenon, <2>b, <3>2, <3>4
    <3> QED
      BY Zenon, <3>1, <3>4, <3>6, <3>7, <1>CalmFollowing
  <2>2. CASE AnswerWriter(w)
    <3>1. UNCHANGED <<kind, version, stored, endpoint, follower, session, tasks>>
      BY Zenon, <2>2 DEF AnswerWriter
    <3>2. /\ Only(w) /\ job[w].op \in WriteOps /\ job[w].at = "answer"
          /\ job'[w] = Idle \/ (job'[w].op = job[w].op /\ job'[w].at = "stuck")
      BY Zenon, <2>2, AnswerMoves DEF Ends, Moved
    <3>3. ~Active(job[w]) /\ ~Active(job'[w]) /\ job'[w].op # "ROLLBACK" /\ job'[w].op # "ACCEPT"
      BY Zenon, <2>a, <3>2 DEF Active, WriteOps
    <3>4. Calm /\ Windows
      BY Zenon, <3>2, <3>3, <1>CalmJob, <1>WindowsJob
    <3> QED
      BY Zenon, <2>a, <2>b, <3>1, <3>2, <3>3, <3>4, <1>CalmFollowing
  <2>3. CASE AnswerClose(w)
    <3>1. UNCHANGED <<kind, version, stored, endpoint, follower, session, tasks>>
      BY Zenon, <2>3 DEF AnswerClose
    <3>2. Only(w) /\ job[w].at = "answer" /\ job'[w].op = "CLOSE" /\ job'[w].at \in {"stuck", "closing"}
      BY Zenon, <2>3, CloseMoves DEF Moved
    <3>3. ~Active(job[w]) /\ ~Active(job'[w]) /\ job'[w].op # "ROLLBACK" /\ job'[w].op # "ACCEPT"
      BY Zenon, <2>a, <3>2 DEF Active
    <3>4. Calm /\ Windows
      BY Zenon, <3>2, <3>3, <1>CalmJob, <1>WindowsJob
    <3> QED
      BY Zenon, <2>a, <2>b, <3>1, <3>2, <3>3, <3>4, <1>CalmFollowing
  <2>4. CASE CloseSession(w)
    <3>1. /\ UNCHANGED <<kind, version, stored, endpoint, follower>> /\ tasks' = Append(tasks, Task("ERASE", 0, Absent))
          /\ session' = [session EXCEPT ![job[w].c].state = "dead"]
      BY Zenon, <2>4 DEF CloseSession, Submit
    <3>2. Only(w) /\ job[w].at = "closing" /\ job'[w] = Idle /\ job[w].c \in Conns
      BY Zenon, <2>4, ClosingMoves DEF Moved
    <3>3. ~Active(job[w]) /\ ~Active(job'[w]) /\ job'[w].op # "ROLLBACK" /\ job'[w].op # "ACCEPT"
      BY Zenon, <2>a, <3>2 DEF Active
    <3>4. Calm /\ Windows
      BY Zenon, <3>2, <3>3, <1>CalmJob, <1>WindowsJob
    <3>5. Task("ERASE", 0, Absent) \in TaskType /\ Task("ERASE", 0, Absent).op \in Ops \ {"ROLLBACK"}
      BY FollowersAssumption DEF Task, TaskType, Ops, VerType
    <3>6. ~Rolls(tasks')
      BY Zenon, <2>a, <3>1, <3>5, <1>RollsAppend DEF Grown
    <3>7. \A c \in Conns : session'[c].out = session[c].out
      BY Zenon, <3>1, <3>2, TurnFacts
    <3> QED
      BY Zenon, <2>b, <3>1, <3>2, <3>3, <3>4, <3>6, <3>7, <1>CalmFollowing
  <2>5. CASE EraseClient(w)
    <3>1. UNCHANGED <<kind, version, stored, follower, session, tasks>> /\ endpoint' = 0
      BY Zenon, <2>5 DEF EraseClient
    <3>2. Only(w) /\ job[w].at = "erase" /\ job'[w] = Idle
      BY Zenon, <2>5, EraseMoves DEF Moved
    <3>3. ~Active(job[w]) /\ ~Active(job'[w]) /\ job'[w].op # "ROLLBACK" /\ job'[w].op # "ACCEPT"
      BY Zenon, <2>a, <3>2 DEF Active
    <3>4. Calm /\ Windows
      BY Zenon, <3>2, <3>3, <1>CalmJob, <1>WindowsJob
    <3> QED
      BY Zenon, <2>a, <2>b, <3>1, <3>2, <3>3, <3>4, <1>CalmFollowing
  <2> QED
    BY Zenon, <2>1, <2>2, <2>3, <2>4, <2>5
\* The requests, the sessions and the heartbeat thread.
<1>SessionFollowing.
    ASSUME Shape, Following,
           (\E op \in WriteOps : Request(op)) \/ (\E c \in Conns : ReadRequest(c) \/ SessionDies(c))
             \/ HbFindDead \/ HbErase \/ UNCHANGED vars
    PROVE  Following'
  <2> USE <1>SessionFollowing
  <2>a. ~Rolls(tasks) /\ \A v \in Workers : job[v].op # "ROLLBACK"
    BY Zenon DEF Following, Alone
  <2>b. ASSUME UNCHANGED job
        PROVE  Calm /\ Windows /\ \A v \in Workers : job'[v].op # "ROLLBACK"
    BY Zenon, <2>a, <2>b DEF Calm, Windows
  <2>1. ASSUME NEW op \in WriteOps, Request(op)
        PROVE  Following'
    <3>1. UNCHANGED <<kind, version, stored, endpoint, follower, job, session>>
          /\ tasks' = Append(tasks, Task(op, 0, version))
      BY Zenon, <2>1 DEF Request, Submit
    <3>2. Task(op, 0, version) \in TaskType /\ Task(op, 0, version).op \in Ops \ {"ROLLBACK"}
      BY FollowersAssumption DEF Task, TaskType, Ops, WriteOps, Shape, Typed
    <3>3. ~Rolls(tasks')
      BY Zenon, <2>a, <3>1, <3>2, <1>RollsAppend DEF Grown
    <3> QED
      BY Zenon, <2>b, <3>1, <3>3, <1>CalmFollowing
  <2>2. ASSUME NEW c \in Conns, ReadRequest(c)
        PROVE  Following'
    <3>1. /\ UNCHANGED <<kind, version, stored, endpoint, follower, job>> /\ session[c].request # "none"
          /\ tasks' = Append(tasks, Task(session[c].request, c, Absent))
          /\ session' = [session EXCEPT ![c].request = "none"]
      BY Zenon, <2>2 DEF ReadRequest, Submit
    <3>2. session[c].request \in {"SYNC", "CLOSE"}
      BY Zenon, <3>1 DEF Shape, Typed, SessionType
    <3>3. /\ Task(session[c].request, c, Absent) \in TaskType
          /\ Task(session[c].request, c, Absent).op \in Ops \ {"ROLLBACK"}
      BY <3>2, FollowersAssumption DEF Task, TaskType, Ops, VerType, Conns
    <3>4. ~Rolls(tasks')
      BY Zenon, <2>a, <3>1, <3>3, <1>RollsAppend DEF Grown
    <3>5. \A d \in Conns : session'[d].out = session[d].out
      BY Zenon, <3>1, RequestFacts DEF Shape
    <3> QED
      BY Zenon, <2>b, <3>1, <3>4, <3>5, <1>CalmFollowing
  <2>3. ASSUME NEW c \in Conns, SessionDies(c)
        PROVE  Following'
    <3>1. /\ UNCHANGED <<kind, version, stored, endpoint, follower, job, tasks>>
          /\ session' = [session EXCEPT ![c].state = "dead"]
      BY Zenon, <2>3 DEF SessionDies
    <3>2. \A d \in Conns : session'[d].out = session[d].out
      BY Zenon, <3>1, TurnFacts
    <3> QED
      BY Zenon, <2>a, <2>b, <3>1, <3>2, <1>CalmFollowing
  <2>4. CASE HbFindDead \/ HbErase \/ UNCHANGED vars
    <3>1. UNCHANGED <<kind, version, stored, follower, job, tasks, session>> /\ endpoint' \in {endpoint, 0}
      BY Zenon, <2>4 DEF HbFindDead, HbErase, vars
    <3> QED
      BY Zenon, <2>a, <2>b, <3>1, <1>CalmFollowing
  <2> QED
    BY Zenon, <2>1, <2>2, <2>3, <2>4
\* A write under way is the only one, unless two have overlapped.
<1>Sole.
    ASSUME Alone, NEW w \in Workers, Active(job[w])
    PROVE  \A v \in Workers \ {w} : ~Active(job[v])
  BY Zenon, <1>Sole DEF Alone
\* A write lists the clients: it is the only one under way.
<1>ListFollowing.
    ASSUME Shape, Following, NEW w \in Workers, ListClients(w), events' = {}
    PROVE  Following'
  <2> USE <1>ListFollowing
  <2>1. UNCHANGED <<kind, version, stored, tasks, session, endpoint, follower>>
    BY Zenon DEF ListClients
  <2>2. /\ Only(w) /\ job[w].op \in WriteOps /\ job[w].at = "list" /\ job'[w].op = job[w].op /\ job'[w].at = "fanout"
    BY Zenon, ListMoves DEF Moved
  <2>3. \A v \in Workers \ {w} : job[v].op \in WriteOps => job[v].at \in {"list", "answer", "stuck"}
    <3>1. ~\E o \in Workers \ {w} : job[o].op \in WriteOps /\ job[o].at \notin {"list", "answer", "stuck"}
      BY Zenon DEF ListClients, Happens
    <3> QED
      BY Zenon, <3>1
  <2>4. \A v \in Workers : Active(job[v]) => job[v].op \in WriteOps
    BY Zenon DEF Shape, Typed, Jobs, Legal, JobType, Ops, Active
  <2>5. \A v \in Workers \ {w} : ~Active(job[v]) /\ job'[v] = job[v]
    BY Zenon, <2>2, <2>3, <2>4 DEF Active, Only
  <2>6. ~Active(job[w]) /\ Active(job'[w]) /\ ~Uncommitted(job'[w])
    BY Zenon, <2>2 DEF Active, Uncommitted
  <2>7. Alone'
    <3>1. \A v \in Workers : ~Uncommitted(job[v]) /\ ~Uncommitted(job'[v])
      BY Zenon, <2>2, <2>5, <2>6 DEF Uncommitted, Active
    <3>2. stored = version
      BY Zenon, <3>1 DEF Following, Alone
    <3>3. \A v \in Workers : job'[v].op # "ROLLBACK" /\ job'[v].at # "delta" /\ job'[v].at # "push"
      BY Zenon, <2>2, <2>5 DEF Following, Alone, Active
    <3> QED
      BY Zenon, <2>1, <2>5, <3>1, <3>2, <3>3 DEF Following, Alone
  <2>8. StandbyKept' /\ ClientKept'
    <3>1. \A v \in Workers : job'[v].at \in {"commit", "delta", "push"} \/ job[v].at \in {"commit", "delta", "push"}
                               => job'[v] = job[v]
      BY Zenon, <2>2, <2>5
    <3>2. (DeltaComes => DeltaComes') /\ (PushComes => PushComes') /\ (DeleteCommits' <=> DeleteCommits)
      BY Zenon, <3>1 DEF DeltaComes, PushComes, DeleteCommits
    <3>3. Windows
      BY Zenon, <2>2, <1>WindowsJob
    <3> QED
      BY Zenon, <2>1, <3>2, <3>3, <1>SidesKept DEF Following
  <2> QED
    BY Zenon, <2>7, <2>8 DEF Following
\* It reaches the datanodes: they are ahead of the server's map until it commits.
<1>FanoutFollowing.
    ASSUME Shape, Following, NEW w \in Workers, Fanout(w)
    PROVE  Following'
  <2> USE <1>FanoutFollowing
  <2>1. UNCHANGED <<kind, version, tasks, session, endpoint, follower>> /\ stored' = job[w].ver
    BY Zenon DEF Fanout
  <2>2. /\ Only(w) /\ job[w].op \in WriteOps /\ job[w].at = "fanout" /\ job'[w].op = job[w].op /\ job'[w].ver = job[w].ver
        /\ job'[w].at = IF kind = "CLIENT" /\ job[w].op = "DELETE" THEN "push" ELSE "commit"
    BY Zenon, FanoutMoves DEF Moved
  <2>3. \A v \in Workers \ {w} : ~Active(job[v]) /\ job'[v] = job[v]
    BY Zenon, <2>2, <1>Sole DEF Following, Active, Only
  <2>4. Uncommitted(job'[w]) /\ Active(job'[w]) /\ job'[w].op # "ROLLBACK"
    BY Zenon, <2>2 DEF Uncommitted, Active, WriteOps
  <2>5. Alone'
    <3>1. \A v \in Workers : Active(job'[v]) => v = w
      BY Zenon, <2>3
    <3>2. \A v \in Workers : Uncommitted(job'[v]) => v = w
      BY Zenon, <3>1 DEF Uncommitted, Active
    <3>3. \A v \in Workers : ~(job'[v].at = "delta" \/ (job'[v].at = "push" /\ job'[v].op # "DELETE"))
      BY Zenon, <2>2, <2>3 DEF Active
    <3>4. \A v \in Workers : job'[v].op # "ROLLBACK"
      BY Zenon, <2>3, <2>4 DEF Following, Alone
    <3> QED
      BY Zenon, <2>1, <2>2, <2>4, <3>1, <3>2, <3>3, <3>4 DEF Following, Alone
  <2>6. StandbyKept' /\ ClientKept'
    <3>1. \A v \in Workers : job[v].at \notin {"commit", "delta", "push"}
      BY Zenon, <2>2, <2>3 DEF Active
    <3>2. ~DeltaComes /\ ~PushComes /\ ~DeleteCommits
      BY Zenon, <3>1 DEF DeltaComes, PushComes, DeleteCommits
    <3>3. kind = "CLIENT" => ~DeleteCommits'
      BY Zenon, <2>2, <2>3, <3>1 DEF DeleteCommits
    <3>4. Windows
      BY Zenon, <2>2, <1>WindowsJob
    <3> QED
      BY Zenon, <2>1, <3>2, <3>3, <3>4, <1>SidesKept DEF Following
  <2> QED
    BY Zenon, <2>5, <2>6 DEF Following
\* It is rejected, and has reached no datanode.
<1>RejectFollowing.
    ASSUME Shape, Following, NEW w \in Workers, FanoutRejected(w), events' = {}
    PROVE  Following'
  <2> USE <1>RejectFollowing
  <2>1. UNCHANGED <<kind, version, session, endpoint, follower, tasks, stored>>
    <3>1. stored' = stored
      BY Zenon DEF FanoutRejected, Happens
    <3> QED
      BY Zenon, <3>1 DEF FanoutRejected
  <2>2. /\ Only(w) /\ job[w].op \in WriteOps /\ job[w].at = "fanout" /\ job'[w].op = job[w].op /\ job'[w].at = "answer"
    BY Zenon, RejectMoves DEF Moved
  <2>3. \A v \in Workers \ {w} : ~Active(job[v]) /\ job'[v] = job[v]
    BY Zenon, <2>2, <1>Sole DEF Following, Active, Only
  <2>4. \A v \in Workers : ~Active(job'[v]) /\ job'[v].op # "ROLLBACK"
    BY Zenon, <2>2, <2>3 DEF Active, Following, Alone
  <2>5. Alone'
    <3>1. \A v \in Workers : ~Uncommitted(job[v])
      BY Zenon, <2>2, <2>3 DEF Uncommitted, Active
    <3>2. stored = version
      BY Zenon, <3>1 DEF Following, Alone
    <3> QED
      BY Zenon, <2>1, <2>4, <3>2 DEF Following, Alone, Active, Uncommitted
  <2>6. StandbyKept' /\ ClientKept'
    <3>1. \A v \in Workers : job[v].at \notin {"commit", "delta", "push"}
      BY Zenon, <2>2, <2>3 DEF Active
    <3>2. ~DeltaComes /\ ~PushComes /\ ~DeleteCommits
      BY Zenon, <3>1 DEF DeltaComes, PushComes, DeleteCommits
    <3>3. ~DeleteCommits'
      BY Zenon, <2>4 DEF DeleteCommits, Active
    <3>4. Windows
      BY Zenon, <2>2, <1>WindowsJob
    <3> QED
      BY Zenon, <2>1, <3>2, <3>3, <3>4, <1>SidesKept DEF Following
  <2> QED
    BY Zenon, <2>5, <2>6 DEF Following
\* It is committed: its delta or push is to come, or, in a delete, has been posted.
<1>CommitFollowing.
    ASSUME Shape, Following, NEW w \in Workers, Commit(w)
    PROVE  Following'
  <2> USE <1>CommitFollowing
  <2>1. UNCHANGED <<kind, stored, tasks, session, endpoint, follower>> /\ version' = job[w].ver
    BY Zenon DEF Commit
  <2>2. /\ Only(w) /\ job[w].op \in WriteOps /\ job[w].at = "commit" /\ job'[w].op = job[w].op /\ job'[w].ver = job[w].ver
        /\ job'[w].at = IF kind = "STANDBY" THEN "delta" ELSE IF job[w].op = "DELETE" THEN "answer" ELSE "push"
    BY Zenon, CommitMoves DEF Moved
  <2>3. \A v \in Workers \ {w} : ~Active(job[v]) /\ job'[v] = job[v]
    BY Zenon, <2>2, <1>Sole DEF Following, Active, Only
  <2>4. stored = job[w].ver
    BY Zenon, <2>2 DEF Following, Alone, Uncommitted
  <2>5. Alone'
    <3>1. \A v \in Workers : Active(job'[v]) => v = w
      BY Zenon, <2>3
    <3>2. \A v \in Workers : ~Uncommitted(job'[v])
      BY Zenon, <2>2, <2>3 DEF Uncommitted, Active
    <3>3. \A v \in Workers : job'[v].op # "ROLLBACK"
      BY Zenon, <2>2, <2>3 DEF Following, Alone
    <3>4. \A v \in Workers : job'[v].at = "delta" \/ (job'[v].at = "push" /\ job'[v].op # "DELETE") => v = w
      BY Zenon, <3>1 DEF Active
    <3> QED
      BY Zenon, <2>1, <2>2, <2>4, <3>1, <3>2, <3>3, <3>4 DEF Following, Alone
  <2>6. StandbyKept'
    <3> SUFFICES ASSUME NEW c \in Conns, kind = "STANDBY", c = follower.c, follower.at = "on"
                 PROVE  /\ endpoint = c => Eventual(session[c].out, follower.view) = version' \/ DeltaComes'
                        /\ \A v \in Workers : job'[v].op = "ACCEPT" /\ job'[v].c = c =>
                             /\ job'[v].at \in {"snap", "register"} => job'[v].ver = version' \/ DeltaComes'
                             /\ job'[v].at = "register" => Eventual(session[c].out, follower.view) = job'[v].ver
      BY Zenon, <2>1 DEF StandbyKept
    <3>1. DeltaComes'
      BY Zenon, <2>2 DEF DeltaComes
    <3>2. \A v \in Workers : job'[v].at = "register" => job'[v] = job[v]
      BY Zenon, <2>2, <2>3
    <3> QED
      BY Zenon, <3>1, <3>2 DEF Following, StandbyKept
  <2>7. ClientKept'
    <3> SUFFICES ASSUME NEW c \in Conns, kind = "CLIENT", c = follower.c, Synced(c)
                 PROVE  PushComes' \/ Eventual(session[c].out, follower.view) = IF DeleteCommits' THEN Absent ELSE version'
      BY Zenon, <2>1 DEF ClientKept, Synced
    <3>1. CASE job[w].op # "DELETE"
      <4>1. PushComes'
        BY Zenon, <2>2, <3>1 DEF PushComes
      <4> QED
        BY Zenon, <4>1
    <3>2. CASE job[w].op = "DELETE"
      <4>1. ~PushComes /\ DeleteCommits
        BY Zenon, <2>2, <2>3, <3>2 DEF PushComes, DeleteCommits, Active
      <4>2. Eventual(session[c].out, follower.view) = Absent
        BY Zenon, <4>1 DEF Following, ClientKept
      <4>3. job[w].ver = Absent
        BY Zenon, <2>2, <3>2 DEF Shape, Jobs, Legal
      <4> QED
        BY Zenon, <2>1, <4>2, <4>3
    <3> QED
      BY Zenon, <3>1, <3>2
  <2> QED
    BY Zenon, <2>5, <2>6, <2>7 DEF Following
\* Its delta is posted to the standby that is registered; one that is not has the
\* same version in its snapshot.
<1>DeltaFollowing.
    ASSUME Shape, Course, Following, NEW w \in Workers, SendDelta(w), events' = {}
    PROVE  Following'
  <2> USE <1>DeltaFollowing
  <2> DEFINE f == Frame("STATE_DELTA", job[w].ver)
  <2>1. UNCHANGED <<kind, version, stored, tasks, endpoint, follower>>
    BY Zenon DEF SendDelta
  <2>2. /\ Only(w) /\ job[w].op \in WriteOps /\ job[w].at = "delta" /\ kind = "STANDBY" /\ job'[w].op = job[w].op
        /\ job'[w].at = "answer" /\ f \in FrameType
        /\ IF endpoint # 0 /\ session[endpoint].state = "alive" THEN Posted(endpoint, f) ELSE UNCHANGED session
    BY Zenon, DeltaMoves DEF Moved
  <2>3. \A v \in Workers \ {w} : ~Active(job[v]) /\ job'[v] = job[v]
    BY Zenon, <2>2, <1>Sole DEF Following, Active, Only
  <2>4. job[w].ver = version /\ f.ver = job[w].ver
    BY Zenon, <2>2 DEF Following, Alone, Frame
  <2>5. \A o \in Workers : InWindow(job[o]) => job[o].ver = job[w].ver
    <3>1. ~\E o \in Workers : InWindow(job[o]) /\ job[o].ver # job[w].ver
      BY Zenon DEF SendDelta, Happens
    <3> QED
      BY Zenon, <3>1
  <2> HIDE DEF f
  <2>6. Alone'
    <3>1. \A v \in Workers : ~Active(job'[v]) /\ job'[v].op # "ROLLBACK"
      BY Zenon, <2>2, <2>3 DEF Active, Following, Alone
    <3>2. \A v \in Workers : ~Uncommitted(job[v])
      BY Zenon, <2>2, <2>3 DEF Uncommitted, Active
    <3>3. stored = version
      BY Zenon, <3>2 DEF Following, Alone
    <3> QED
      BY Zenon, <2>1, <3>1, <3>3 DEF Following, Alone, Active, Uncommitted
  <2>7. StandbyKept'
    <3> SUFFICES ASSUME NEW c \in Conns, c = follower.c, follower.at = "on"
                 PROVE  /\ endpoint = c => Eventual(session'[c].out, follower.view) = version
                        /\ \A v \in Workers : job'[v].op = "ACCEPT" /\ job'[v].c = c =>
                             /\ job'[v].at \in {"snap", "register"} => job'[v].ver = version
                             /\ job'[v].at = "register" => Eventual(session'[c].out, follower.view) = job'[v].ver
      BY Zenon, <2>1 DEF StandbyKept
    <3>1. session[c].state = "alive" /\ session[c].out \in Seq(FrameType) /\ c # 0
      BY <2>2 DEF Course, Stages, Shape, Typed, SessionType, Conns
    <3>2. \A v \in Workers : job'[v].op = "ACCEPT" =>
             job'[v] = job[v] /\ (job'[v].at \in {"snap", "register"} => job'[v].ver = version)
      <4>1. \A v \in Workers : job'[v].op = "ACCEPT" => job'[v] = job[v]
        BY Zenon, <2>2, <2>3 DEF WriteOps
      <4> QED
        BY Zenon, <2>4, <2>5, <4>1 DEF InWindow
    <3>3. endpoint = c => Eventual(session'[c].out, follower.view) = version
      <4>1. endpoint = c => session'[c].out = Append(session[c].out, f)
        BY Zenon, <2>2, <3>1 DEF Posted
      <4> QED
        BY Zenon, <2>2, <2>4, <3>1, <4>1, <1>LastAppend
    <3>4. endpoint # c => session'[c] = session[c]
      BY Zenon, <2>2 DEF Posted
    <3>5. ASSUME NEW v \in Workers, job'[v].op = "ACCEPT", job'[v].c = c, job'[v].at = "register"
          PROVE  Eventual(session'[c].out, follower.view) = job'[v].ver
      <4>1. CASE endpoint = c
        BY Zenon, <3>2, <3>3, <3>5, <4>1
      <4>2. CASE endpoint # c
        BY Zenon, <2>2, <3>2, <3>4, <3>5, <4>2 DEF Following, StandbyKept
      <4> QED
        BY Zenon, <4>1, <4>2
    <3> QED
      BY Zenon, <3>2, <3>3, <3>5
  <2>8. ClientKept'
    BY Zenon, <2>1, <2>2 DEF ClientKept
  <2> QED
    BY Zenon, <2>6, <2>7, <2>8 DEF Following
\* A client that has its listing, or will read it, is registered and has no
\* SYNC_STATUS to come.
<1>SyncedRegistered.
    ASSUME Shape, Registered, Course, events = {}, NEW c \in Conns, c = follower.c, kind = "CLIENT", Synced(c)
    PROVE  endpoint = c /\ ~SyncToCome
  <2> USE <1>SyncedRegistered
  <2>1. follower.at # "off" /\ follower.at \notin {"handshake", "new"}
    BY Zenon DEF Synced
  <2>2. session[c].state # "new"
    BY Zenon DEF Synced, Course, Started
  <2>3. ~AcceptWaits(c)
    BY Zenon, <2>2 DEF AcceptWaits, Waiting, Course, Started, HasJob
  <2>4. endpoint = c
    BY Zenon, <2>1, <2>3 DEF Registered
  <2>5. ~Asking(c)
    BY Zenon, <2>1 DEF Synced, Course, Stages
  <2>6. ~SyncToCome
    BY Zenon, <2>1, <2>5 DEF SyncToCome, Asking, InTasks, HasJob
  <2> QED
    BY Zenon, <2>4, <2>6
\* It is pushed to the client that was listed: the one that is registered, unless
\* the client registered in between and had its listing by then.
<1>PushFollowing.
    ASSUME Shape, Registered, Course, Following, NEW w \in Workers, PushToClient(w), events = {}, events' = {}
    PROVE  Following'
  <2> USE <1>PushFollowing
  <2> DEFINE f == Frame("PUSH", job[w].ver)
  <2>1. UNCHANGED <<kind, version, stored, tasks, endpoint, follower>>
    BY Zenon DEF PushToClient
  <2>2. /\ Only(w) /\ job[w].op \in WriteOps /\ job[w].at = "push" /\ kind = "CLIENT" /\ job'[w].op = job[w].op
        /\ job'[w].ver = job[w].ver
        /\ job'[w].at = IF job[w].op = "DELETE" THEN "commit" ELSE "answer"
        /\ f \in FrameType
        /\ IF job[w].list # 0 THEN Posted(job[w].list, f) ELSE UNCHANGED session
    BY Zenon, PushMoves DEF Moved
  <2>3. \A v \in Workers \ {w} : ~Active(job[v]) /\ job'[v] = job[v]
    BY Zenon, <2>2, <1>Sole DEF Following, Active, Only
  <2>4. f.ver = job[w].ver /\ f.what = "PUSH"
    BY Zenon DEF Frame
  <2>5. endpoint \in {0, job[w].list} \/ SyncToCome
    BY Zenon DEF PushToClient, Happens
  <2>6. /\ job[w].op # "DELETE" => version = job[w].ver
        /\ job[w].op = "DELETE" => stored = job[w].ver /\ job[w].ver = Absent
    BY Zenon, <2>2 DEF Following, Alone, Uncommitted, Shape, Jobs, Legal
  <2> HIDE DEF f
  <2>7. Alone'
    <3>1. \A v \in Workers : Active(job'[v]) => v = w
      BY Zenon, <2>3
    <3>2. \A v \in Workers : job'[v].op # "ROLLBACK"
      BY Zenon, <2>2, <2>3 DEF Following, Alone
    <3>3. \A v \in Workers : ~(job'[v].at = "delta" \/ (job'[v].at = "push" /\ job'[v].op # "DELETE"))
      BY Zenon, <2>2, <2>3 DEF Active
    <3>4. CASE job[w].op = "DELETE"
      <4>1. Uncommitted(job'[w]) /\ \A v \in Workers : Uncommitted(job'[v]) => v = w
        BY Zenon, <2>2, <3>1, <3>4 DEF Uncommitted, Active
      <4> QED
        BY Zenon, <2>1, <2>2, <2>6, <3>1, <3>2, <3>3, <3>4, <4>1 DEF Following, Alone
    <3>5. CASE job[w].op # "DELETE"
      <4>1. \A v \in Workers : ~Uncommitted(job[v]) /\ ~Uncommitted(job'[v])
        BY Zenon, <2>2, <2>3, <3>5 DEF Uncommitted, Active
      <4>2. stored = version
        BY Zenon, <4>1 DEF Following, Alone
      <4> QED
        BY Zenon, <2>1, <3>1, <3>2, <3>3, <4>1, <4>2 DEF Following, Alone
    <3> QED
      BY Zenon, <3>4, <3>5
  <2>8. StandbyKept'
    BY Zenon, <2>1, <2>2 DEF StandbyKept
  <2>9. ClientKept'
    <3> SUFFICES ASSUME NEW c \in Conns, c = follower.c, Synced(c)'
                 PROVE  Eventual(session'[c].out, follower.view) = IF DeleteCommits' THEN Absent ELSE version
      BY Zenon, <2>1 DEF ClientKept
    <3>1. session[c].out \in Seq(FrameType) /\ c # 0
      BY DEF Shape, Typed, SessionType, Conns
    <3>2. session'[c] = session[c] \/ session'[c].out = Append(session[c].out, f)
      BY Zenon, <2>2 DEF Posted
    <3>3. Answered(session'[c].out) <=> Answered(session[c].out)
      <4>1. f \in FrameType
        BY Zenon, <2>2
      <4>2. Answered(Append(session[c].out, f)) <=> Answered(session[c].out)
        BY Zenon, <2>4, <3>1, <4>1, AnsweredAppend
      <4> QED
        BY Zenon, <3>2, <4>2
    <3>4. Synced(c)
      BY Zenon, <2>1, <3>3 DEF Synced
    <3>5. endpoint = c /\ ~SyncToCome
      BY Zenon, <2>2, <3>4, <1>SyncedRegistered
    <3>6. job[w].list = c
      BY Zenon, <2>5, <3>1, <3>5
    <3>7. session'[c].out = Append(session[c].out, f)
      BY Zenon, <2>2, <3>1, <3>6 DEF Posted
    <3>8. Eventual(session'[c].out, follower.view) = job[w].ver
      <4>1. f \in FrameType /\ f.ver = job[w].ver
        BY Zenon, <2>2, <2>4
      <4>2. Eventual(Append(session[c].out, f), follower.view) = f.ver
        BY Zenon, <3>1, <4>1, <1>LastAppend
      <4> QED
        BY Zenon, <3>7, <4>1, <4>2
    <3>9. DeleteCommits' <=> job[w].op = "DELETE"
      BY Zenon, <2>2, <2>3 DEF DeleteCommits, Active
    <3> QED
      BY Zenon, <2>6, <3>8, <3>9
  <2> QED
    BY Zenon, <2>7, <2>8, <2>9 DEF Following
\* A step of a handshake or of a request of the follower leaves the writes alone.
<1>PeerAlone.
    ASSUME Shape, Following, NEW w \in Workers, Only(w), UNCHANGED <<version, stored, tasks>>,
           job[w].op \in {"ACCEPT", "SYNC"}, job'[w] = Idle \/ (job'[w].op = job[w].op /\ Legal(job'[w]))
    PROVE  Alone' /\ Calm
  <2> USE <1>PeerAlone
  <2>1. ~Active(job[w])
    BY Zenon DEF Shape, Jobs, Legal, Active
  <2>2. ~Active(job'[w]) /\ job'[w].op # "ROLLBACK"
    BY DEF Legal, Active, Idle
  <2>3. Calm
    BY Zenon, <2>1, <2>2, <1>CalmJob
  <2>4. ~Rolls(tasks') /\ \A v \in Workers : job'[v].op # "ROLLBACK"
    BY Zenon, <2>2 DEF Following, Alone, Only
  <2> QED
    BY Zenon, <2>3, <2>4, <1>AloneKept DEF Following
\* The handshake: a standby is on, with its snapshot to come and no delta before
\* it; a client is to ask for its listing.
<1>HandshakeFollowing.
    ASSUME Shape, Course, Following, NEW w \in Workers, Handshake(w)
    PROVE  Following'
  <2> USE <1>HandshakeFollowing
  <2>1. UNCHANGED <<kind, version, stored, tasks, endpoint>>
    BY Zenon DEF Handshake
  <2>2. PICK b \in Conns : b = job[w].c
    BY Zenon, HandshakeMoves
  <2>3. /\ Only(w) /\ job[w].op = "ACCEPT" /\ job[w].at = "handshake" /\ Legal(job'[w])
        /\ \/ /\ job'[w] = Idle /\ UNCHANGED <<session, follower>>
           \/ /\ b = follower.c /\ follower.at # "off" /\ job'[w].op = "ACCEPT" /\ job'[w].c = b
              /\ follower'.c = b
              /\ \/ kind = "STANDBY" /\ follower'.at = "on" /\ job'[w].at = "read"
                 \/ kind = "CLIENT" /\ follower'.at = "new"
    BY Zenon, <2>2, HandshakeMoves DEF Moved
  <2>4. Alone' /\ Calm
    BY Zenon, <2>1, <2>3, <1>PeerAlone
  <2>5. CASE job'[w] = Idle /\ UNCHANGED <<session, follower>>
    <3>0. job'[w].op # "ACCEPT"
      BY <2>5 DEF Idle
    <3>1. Windows
      BY Zenon, <2>3, <3>0, <1>WindowsJob
    <3>2. ~Rolls(tasks') /\ \A v \in Workers : job'[v].op # "ROLLBACK"
      BY Zenon, <2>4 DEF Alone
    <3> QED
      BY Zenon, <2>1, <2>4, <2>5, <3>1, <3>2, <1>CalmFollowing
  <2>6. CASE b = follower.c /\ follower.at # "off" /\ follower'.c = b /\ kind = "STANDBY" /\ follower'.at = "on"
             /\ job'[w].at = "read"
    <3>1. follower.at = "handshake"
      BY Zenon, <2>2, <2>3, <2>6 DEF Course, Stages
    <3>2. endpoint # b /\ \A v \in Workers : job[v].op = "ACCEPT" /\ job[v].c = b => job[v].at = "handshake"
      BY Zenon, <2>6, <3>1 DEF Course, Stages
    <3>3. \A v \in Workers : job'[v].op = "ACCEPT" /\ job'[v].c = b => job'[v].at \notin {"snap", "register"}
      BY Zenon, <2>3, <2>6, <3>2 DEF Only
    <3>4. StandbyKept'
      BY Zenon, <2>1, <2>6, <3>2, <3>3 DEF StandbyKept
    <3>5. ClientKept'
      BY Zenon, <2>1, <2>6 DEF ClientKept
    <3> QED
      BY Zenon, <2>4, <3>4, <3>5 DEF Following
  <2>7. CASE kind = "CLIENT" /\ follower'.at = "new"
    <3>1. StandbyKept'
      BY Zenon, <2>1, <2>7 DEF StandbyKept
    <3>2. ClientKept'
      BY Zenon, <2>7 DEF ClientKept, Synced
    <3> QED
      BY Zenon, <2>4, <3>1, <3>2 DEF Following
  <2> QED
    BY Zenon, <2>3, <2>5, <2>6, <2>7
\* The registration: the standby's last frame is its snapshot, which no delta has
\* overtaken.
<1>RegisterFollowing.
    ASSUME Shape, Following, NEW w \in Workers, Register(w)
    PROVE  Following'
  <2> USE <1>RegisterFollowing
  <2>1. UNCHANGED <<kind, version, stored, tasks, session, follower>>
    BY Zenon DEF Register
  <2>2. /\ Only(w) /\ job[w].op = "ACCEPT" /\ job[w].at = "register" /\ endpoint' = job[w].c /\ Legal(job'[w])
        /\ IF kind = "CLIENT" THEN job'[w].op = "ACCEPT" ELSE job'[w] = Idle
    BY Zenon, RegisterMoves DEF Moved
  <2>3. Alone' /\ Calm
    BY Zenon, <2>1, <2>2, <1>PeerAlone
  <2>4. (DeltaComes' <=> DeltaComes) /\ (PushComes' <=> PushComes) /\ (DeleteCommits' <=> DeleteCommits)
    BY Zenon, <2>3, <1>CalmComes
  <2>5. StandbyKept'
    <3> SUFFICES ASSUME NEW c \in Conns, kind = "STANDBY", c = follower.c, follower.at = "on"
                 PROVE  /\ endpoint' = c => Eventual(session[c].out, follower.view) = version \/ DeltaComes
                        /\ \A v \in Workers : job'[v].op = "ACCEPT" /\ job'[v].c = c =>
                             /\ job'[v].at \in {"snap", "register"} => job'[v].ver = version \/ DeltaComes
                             /\ job'[v].at = "register" => Eventual(session[c].out, follower.view) = job'[v].ver
      BY Zenon, <2>1, <2>4 DEF StandbyKept
    <3>1. \A v \in Workers : job'[v].op = "ACCEPT" => job'[v] = job[v]
      BY <2>2 DEF Only, Idle
    <3>2. endpoint' = c => Eventual(session[c].out, follower.view) = version \/ DeltaComes
      BY Zenon, <2>2 DEF Following, StandbyKept
    <3> QED
      BY Zenon, <3>1, <3>2 DEF Following, StandbyKept
  <2>6. ClientKept'
    BY Zenon, <2>1, <2>4 DEF Following, ClientKept, Synced
  <2> QED
    BY Zenon, <2>3, <2>5, <2>6 DEF Following
\* getFileVersionMap: the datanodes are ahead of the server's map only for a write
\* whose delta is to come.
<1>ReadFollowing.
    ASSUME Shape, Following, NEW w \in Workers, GetFileVersionMap(w)
    PROVE  Following'
  <2> USE <1>ReadFollowing
  <2>1. UNCHANGED <<kind, version, stored, tasks, session, endpoint, follower>>
    BY Zenon DEF GetFileVersionMap
  <2>2. /\ Only(w) /\ job[w].op \in {"ACCEPT", "SYNC"} /\ job[w].at = "read" /\ job'[w].op = job[w].op
        /\ job'[w].c = job[w].c /\ Legal(job'[w])
        /\ job'[w].ver = IF stored > version THEN stored ELSE version
        /\ job'[w].at = IF job[w].op = "SYNC" THEN "answer" ELSE IF kind = "CLIENT" THEN "burst" ELSE "snap"
    BY Zenon, ReadMoves DEF Moved
  <2>3. Alone' /\ Calm
    BY Zenon, <2>1, <2>2, <1>PeerAlone
  <2>4. (DeltaComes' <=> DeltaComes) /\ (PushComes' <=> PushComes) /\ (DeleteCommits' <=> DeleteCommits)
    BY Zenon, <2>3, <1>CalmComes
  <2>5. StandbyKept'
    <3> SUFFICES ASSUME NEW c \in Conns, kind = "STANDBY", c = follower.c, follower.at = "on"
                 PROVE  /\ endpoint = c => Eventual(session[c].out, follower.view) = version \/ DeltaComes
                        /\ \A v \in Workers : job'[v].op = "ACCEPT" /\ job'[v].c = c =>
                             /\ job'[v].at \in {"snap", "register"} => job'[v].ver = version \/ DeltaComes
                             /\ job'[v].at = "register" => Eventual(session[c].out, follower.view) = job'[v].ver
      BY Zenon, <2>1, <2>4 DEF StandbyKept
    <3>1. \A v \in Workers \ {w} : job'[v] = job[v]
      BY Zenon, <2>2 DEF Only
    <3>2. job'[w].ver = version \/ DeltaComes
      <4>1. CASE stored = version
        BY Zenon, <2>2, <4>1
      <4>2. CASE stored # version
        <5>1. PICK v \in Workers : Uncommitted(job[v])
          BY Zenon, <4>2 DEF Following, Alone
        <5>2. job[v].at = "commit"
          BY Zenon, <5>1 DEF Uncommitted, Shape, Jobs, Legal
        <5> QED
          BY Zenon, <5>2 DEF DeltaComes
      <4> QED
        BY Zenon, <4>1, <4>2
    <3>3. job'[w].at # "register"
      BY Zenon, <2>2
    <3> QED
      BY Zenon, <3>1, <3>2, <3>3 DEF Following, StandbyKept
  <2>6. ClientKept'
    BY Zenon, <2>1, <2>4 DEF Following, ClientKept, Synced
  <2> QED
    BY Zenon, <2>3, <2>5, <2>6 DEF Following
\* The burst: the client has not asked for its listing.
<1>BurstFollowing.
    ASSUME Shape, Course, Following, NEW w \in Workers, BurstAndStart(w)
    PROVE  Following'
  <2> USE <1>BurstFollowing
  <2>1. UNCHANGED <<kind, version, stored, tasks, endpoint, follower>>
    BY Zenon DEF BurstAndStart
  <2> DEFINE f == Frame("PUSH", job[w].ver)
  <2>2. PICK b \in Conns : b = job[w].c
    BY Zenon, BurstMoves
  <2>3. /\ Only(w) /\ job[w].op = "ACCEPT" /\ kind = "CLIENT" /\ job'[w] = Idle /\ f \in FrameType
        /\ \A d \in Conns \ {b} : session'[d] = session[d]
        /\ session'[b].out \in {session[b].out, Append(session[b].out, f)}
    BY Zenon, <2>2, BurstMoves DEF Moved
  <2>4. f.what = "PUSH"
    BY Zenon DEF Frame
  <2> HIDE DEF f
  <2>5. Alone' /\ Calm
    BY Zenon, <2>1, <2>3, <1>PeerAlone
  <2>6. (PushComes' <=> PushComes) /\ (DeleteCommits' <=> DeleteCommits)
    BY Zenon, <2>5, <1>CalmComes
  <2>7. StandbyKept'
    BY Zenon, <2>1, <2>3 DEF StandbyKept
  <2>8. ClientKept'
    <3> SUFFICES ASSUME NEW c \in Conns, c = follower.c, Synced(c)'
                 PROVE  PushComes \/ Eventual(session'[c].out, follower.view) = IF DeleteCommits THEN Absent ELSE version
      BY Zenon, <2>1, <2>6 DEF ClientKept
    <3>1. CASE c # b
      <4>1. session'[c] = session[c]
        BY Zenon, <2>3, <3>1
      <4>2. Synced(c)
        BY Zenon, <2>1, <4>1 DEF Synced
      <4> QED
        BY Zenon, <2>3, <4>1, <4>2 DEF Following, ClientKept
    <3>2. CASE c = b
      <4>1. session[c].state = "new"
        BY Zenon, <2>2, <2>3, <3>2 DEF Course, Started, HasJob
      <4>2. ~Answered(session[c].out) /\ follower.at # "on"
        BY Zenon, <2>3, <4>1 DEF Course, Started
      <4>3. session[c].out \in Seq(FrameType)
        BY Zenon DEF Shape, Typed, SessionType
      <4>4. Answered(Append(session[c].out, f)) <=> Answered(session[c].out)
        BY Zenon, <2>3, <2>4, <4>3, AnsweredAppend
      <4>5. ~Answered(session'[c].out)
        BY Zenon, <2>3, <3>2, <4>2, <4>4
      <4> QED
        BY Zenon, <2>1, <4>2, <4>5 DEF Synced
    <3> QED
      BY Zenon, <3>1, <3>2
  <2> QED
    BY Zenon, <2>5, <2>7, <2>8 DEF Following
\* The snapshot is posted: its version is current, or a delta is to come.
<1>SnapFollowing.
    ASSUME Shape, Course, Following, NEW w \in Workers, SendStateSnap(w)
    PROVE  Following'
  <2> USE <1>SnapFollowing
  <2>1. UNCHANGED <<kind, version, stored, tasks, endpoint, follower>>
    BY Zenon DEF SendStateSnap
  <2> DEFINE f == Frame("STATE_SNAP", job[w].ver)
  <2>2. PICK b \in Conns : b = job[w].c
    BY Zenon, SnapMoves
  <2>3. /\ Only(w) /\ job[w].op = "ACCEPT" /\ job[w].at = "snap" /\ kind = "STANDBY" /\ job'[w].op = "ACCEPT"
        /\ job'[w].at = "register" /\ job'[w].c = b /\ job'[w].ver = job[w].ver /\ f \in FrameType /\ Legal(job'[w])
        /\ Sent(b, f)
    BY Zenon, <2>2, SnapMoves DEF Moved
  <2>4. f.ver = job[w].ver
    BY Zenon DEF Frame
  <2> HIDE DEF f
  <2>5. /\ \A d \in Conns \ {b} : session'[d] = session[d]
        /\ Up(b) => session'[b].out = Append(session[b].out, f)
    BY Zenon, <2>3, SentFacts DEF Shape
  <2>6. Alone' /\ Calm
    BY Zenon, <2>1, <2>3, <1>PeerAlone
  <2>7. DeltaComes' <=> DeltaComes
    BY Zenon, <2>6, <1>CalmComes
  <2>8. StandbyKept'
    <3> SUFFICES ASSUME NEW c \in Conns, c = follower.c, follower.at = "on"
                 PROVE  /\ endpoint = c => Eventual(session'[c].out, follower.view) = version \/ DeltaComes
                        /\ \A v \in Workers : job'[v].op = "ACCEPT" /\ job'[v].c = c =>
                             /\ job'[v].at \in {"snap", "register"} => job'[v].ver = version \/ DeltaComes
                             /\ job'[v].at = "register" => Eventual(session'[c].out, follower.view) = job'[v].ver
      BY Zenon, <2>1, <2>7 DEF StandbyKept
    <3>1. \A v \in Workers \ {w} : job'[v] = job[v]
      BY Zenon, <2>3 DEF Only
    <3>2. CASE c # b
      <4>1. session'[c] = session[c] /\ job'[w].c # c
        BY Zenon, <2>3, <2>5, <3>2
      <4>2. Eventual(session'[c].out, follower.view) = Eventual(session[c].out, follower.view)
        BY Zenon, <4>1
      <4>3. endpoint = c => Eventual(session'[c].out, follower.view) = version \/ DeltaComes
        BY Zenon, <2>3, <4>2 DEF Following, StandbyKept
      <4>4. ASSUME NEW v \in Workers, job'[v].op = "ACCEPT", job'[v].c = c
            PROVE  /\ job'[v].at \in {"snap", "register"} => job'[v].ver = version \/ DeltaComes
                   /\ job'[v].at = "register" => Eventual(session'[c].out, follower.view) = job'[v].ver
        <5>1. job'[v] = job[v]
          BY Zenon, <3>1, <4>1, <4>4
        <5>2. /\ job[v].at \in {"snap", "register"} => job[v].ver = version \/ DeltaComes
              /\ job[v].at = "register" => Eventual(session[c].out, follower.view) = job[v].ver
          BY Zenon, <2>3, <4>4, <5>1 DEF Following, StandbyKept
        <5> QED
          BY Zenon, <4>2, <5>1, <5>2
      <4> QED
        BY Zenon, <4>3, <4>4
    <3>3. CASE c = b
      <4>1. Up(c)
        BY Zenon, UpConn
      <4>2. session'[c].out = Append(session[c].out, f) /\ session[c].out \in Seq(FrameType)
        BY Zenon, <2>5, <3>3, <4>1 DEF Shape, Typed, SessionType
      <4>3. Eventual(session'[c].out, follower.view) = job[w].ver
        BY Zenon, <2>3, <2>4, <4>2, <1>LastAppend
      <4>4. job[w].ver = version \/ DeltaComes
        BY Zenon, <2>2, <2>3, <3>3 DEF Following, StandbyKept
      <4>5. \A v \in Workers : job'[v].op = "ACCEPT" /\ job'[v].c = c => v = w
        BY Zenon, <2>2, <2>3, <3>1, <3>3 DEF Course, Unique, OnceOps
      <4> QED
        BY Zenon, <2>3, <4>3, <4>4, <4>5
    <3> QED
      BY Zenon, <3>2, <3>3
  <2>9. ClientKept'
    BY Zenon, <2>1, <2>3 DEF ClientKept
  <2> QED
    BY Zenon, <2>6, <2>8, <2>9 DEF Following
\* The listing is posted: its version is current, or a push is to come.
<1>SyncFollowing.
    ASSUME Shape, Course, Following, NEW w \in Workers, AnswerSync(w), events' = {}
    PROVE  Following'
  <2> USE <1>SyncFollowing
  <2>1. UNCHANGED <<kind, version, stored, tasks, endpoint, follower>>
    BY Zenon DEF AnswerSync
  <2> DEFINE f == Frame("RESPONSE", job[w].ver)
  <2>2. PICK b \in Conns : b = job[w].c
    BY Zenon, SyncMoves
  <2>3. /\ Only(w) /\ job[w].op = "SYNC" /\ job[w].at = "answer" /\ kind = "CLIENT" /\ f \in FrameType /\ Legal(job'[w])
        /\ IF session[b].state = "dead" THEN UNCHANGED session /\ job'[w].op = "SYNC"
           ELSE Sent(b, f) /\ job'[w] = Idle
    BY Zenon, <2>2, SyncMoves DEF Ends, Moved
  <2>4. f.ver = job[w].ver
    BY Zenon DEF Frame
  <2>5. Alone' /\ Calm
    BY Zenon, <2>1, <2>3, <1>PeerAlone
  <2>6. (PushComes' <=> PushComes) /\ (DeleteCommits' <=> DeleteCommits)
    BY Zenon, <2>5, <1>CalmComes
  <2>7. CASE session[b].state # "dead" /\ b = follower.c /\ follower.at # "off"
    <3>1. Sent(b, f) /\ Up(b)
      BY Zenon, <2>3, <2>7, UpConn
    <3>a. f \in FrameType
      BY Zenon, <2>3
    <3>2. /\ job[w].ver = version \/ \E o \in Workers : job[o].at = "commit" /\ job[o].ver = job[w].ver
          /\ \A o \in Workers : job[o].at = "commit" => job[o].op # "DELETE"
      <4> DEFINE late == \/ job[w].ver # version /\ \A o \in {o \in Workers : job[o].at = "commit"} : job[o].ver # job[w].ver
                         \/ \E o \in {o \in Workers : job[o].at = "commit"} : job[o].op = "DELETE"
      <4>1. Happens("stale", late)
        BY Zenon, <2>2, <2>7 DEF AnswerSync
      <4>2. ~late
        BY Zenon, <4>1 DEF Happens
      <4> QED
        BY Zenon, <4>2
    <3> HIDE DEF f
    <3>3. session'[b].out = Append(session[b].out, f) /\ session[b].out \in Seq(FrameType)
      BY Zenon, <3>1, <3>a, SentFacts DEF Shape, Typed, SessionType
    <3>4. Eventual(session'[b].out, follower.view) = job[w].ver
      BY <2>4, <3>a, <3>3, <1>LastAppend
    <3>5. ~DeleteCommits /\ (job[w].ver = version \/ PushComes)
      BY Zenon, <3>2 DEF DeleteCommits, PushComes
    <3>6. ClientKept'
      BY Zenon, <2>1, <2>6, <2>7, <3>4, <3>5 DEF ClientKept
    <3>7. StandbyKept'
      BY Zenon, <2>1, <2>3 DEF StandbyKept
    <3> QED
      BY Zenon, <2>5, <3>6, <3>7 DEF Following
  <2>8. CASE session[b].state = "dead" \/ ~(b = follower.c /\ follower.at # "off")
    <3>a. f \in FrameType
      BY Zenon, <2>3
    <3> HIDE DEF f
    <3>1. \A c \in Conns : c = follower.c /\ follower.at # "off" => session'[c].out = session[c].out
      <4>1. CASE session[b].state = "dead"
        BY Zenon, <2>3, <4>1
      <4>2. CASE session[b].state # "dead"
        <5>1. Sent(b, f)
          BY Zenon, <2>3, <4>2 DEF f
        <5>2. \A d \in Conns \ {b} : session'[d] = session[d]
          BY Zenon, <3>a, <5>1, SentFacts DEF Shape
        <5> QED
          BY Zenon, <2>8, <4>2, <5>2
      <4> QED
        BY Zenon, <4>1, <4>2
    <3>2. job'[w].op # "ACCEPT"
      BY <2>3 DEF Idle
    <3>3. Windows
      BY Zenon, <2>3, <3>2, <1>WindowsJob
    <3>4. ~Rolls(tasks') /\ \A v \in Workers : job'[v].op # "ROLLBACK"
      BY Zenon, <2>5 DEF Alone
    <3> QED
      BY Zenon, <2>1, <2>5, <3>1, <3>3, <3>4, <1>CalmFollowing
  <2> QED
    BY Zenon, <2>7, <2>8
\* Client::syncStatus: the listing is still to be posted.
<1>SendSyncFollowing.
    ASSUME Shape, Course, Following, SendSync
    PROVE  Following'
  <2> USE <1>SendSyncFollowing
  <2>1. UNCHANGED <<kind, version, stored, tasks, job, endpoint>> /\ follower.at = "new"
    BY Zenon DEF SendSync
  <2>2. PICK b \in Conns : b = follower.c
    BY Zenon, <2>1, FollowerConn
  <2>3. session' = [session EXCEPT ![b].request = "SYNC"] /\ follower' = [follower EXCEPT !.at = "sync"]
    BY Zenon, <2>2 DEF SendSync
  <2>4. follower'.c = b /\ follower'.at = "sync"
    BY Zenon, <2>2, <2>3, FollowerAt DEF Shape
  <2>5. session'[b].out = session[b].out
    BY Zenon, <2>3, RequestFacts DEF Shape
  <2>6. ~Answered(session[b].out)
    BY Zenon, <2>1, <2>2 DEF Course, Stages
  <2>7. Alone'
    BY Zenon, <2>1 DEF Following, Alone
  <2>8. StandbyKept'
    BY Zenon, <2>4 DEF StandbyKept
  <2>9. ClientKept'
    BY Zenon, <2>4, <2>5, <2>6 DEF ClientKept, Synced
  <2> QED
    BY Zenon, <2>7, <2>8, <2>9 DEF Following
\* The follower reads a frame: a push it drops is followed by the listing.
<1>FrameFollowing.
    ASSUME Shape, Course, Following, ReadFrame, events' = {}
    PROVE  Following'
  <2> USE <1>FrameFollowing
  <2>1. UNCHANGED <<kind, version, stored, tasks, job, endpoint>>
    BY Zenon DEF ReadFrame
  <2>2. PICK b \in Conns : b = follower.c
    BY Zenon, FrameFacts
  <2> DEFINE o == session[b].out
             f == o[1]
  <2>3. /\ o # <<>> /\ o \in Seq(FrameType) /\ session'[b].out = Tail(o) /\ f.what \in FramesOf
        /\ follower.at \in {"new", "sync", "on"} /\ follower'.c = b
        /\ follower'.at = IF f.what = "RESPONSE" THEN "on" ELSE follower.at
        /\ f.what = "RESPONSE" \/ follower.at # "sync" => follower'.view = f.ver
    BY Zenon, <2>2, FrameFacts
  <2> HIDE DEF o, f
  <2>4. Answered(o) <=> Answered(Tail(o)) \/ f.what = "RESPONSE"
    BY Zenon, <2>3, AnsweredTail DEF f
  <2>5. follower'.view = f.ver \/ Tail(o) # <<>> => Eventual(Tail(o), follower'.view) = Eventual(o, follower.view)
    BY Zenon, <2>3, <1>LastTail DEF f
  <2>6. Alone'
    BY Zenon, <2>1 DEF Following, Alone
  <2>7. (DeltaComes' <=> DeltaComes) /\ (PushComes' <=> PushComes) /\ (DeleteCommits' <=> DeleteCommits)
    BY Zenon, <2>1 DEF DeltaComes, PushComes, DeleteCommits
  <2>8. StandbyKept'
    <3> SUFFICES ASSUME kind = "STANDBY", follower'.at = "on"
                 PROVE  /\ endpoint = b => Eventual(Tail(o), follower'.view) = version \/ DeltaComes
                        /\ \A v \in Workers : job[v].op = "ACCEPT" /\ job[v].c = b =>
                             /\ job[v].at \in {"snap", "register"} => job[v].ver = version \/ DeltaComes
                             /\ job[v].at = "register" => Eventual(Tail(o), follower'.view) = job[v].ver
      BY Zenon, <2>1, <2>3, <2>7 DEF StandbyKept
    <3>1. f.what # "RESPONSE" /\ follower.at = "on"
      BY Zenon, <2>3 DEF FramesOf
    <3>2. Eventual(Tail(o), follower'.view) = Eventual(o, follower.view)
      BY Zenon, <2>3, <2>5, <3>1
    <3> QED
      BY Zenon, <2>2, <3>1, <3>2 DEF Following, StandbyKept, o
  <2>9. ClientKept'
    <3> SUFFICES ASSUME kind = "CLIENT", Synced(b)'
                 PROVE  PushComes \/ Eventual(Tail(o), follower'.view) = IF DeleteCommits THEN Absent ELSE version
      BY Zenon, <2>1, <2>3, <2>7 DEF ClientKept
    <3>1. follower'.at = "on" \/ (follower'.at = "sync" /\ Answered(Tail(o)))
      BY Zenon, <2>3 DEF Synced
    <3>2. follower.at = "new" => ~Answered(o)
      BY Zenon, <2>2 DEF Course, Stages, o
    <3>3. Synced(b)
      BY Zenon, <2>3, <2>4, <3>1, <3>2 DEF Synced, o
    <3>4. Answered(Tail(o)) => Tail(o) # <<>>
      BY Zenon, AnsweredNone
    <3>5. follower'.view = f.ver \/ Tail(o) # <<>>
      BY Zenon, <2>3, <3>1, <3>4
    <3>6. Eventual(Tail(o), follower'.view) = Eventual(o, follower.view)
      BY Zenon, <2>5, <3>5
    <3> QED
      BY Zenon, <2>2, <3>3, <3>6 DEF Following, ClientKept, o
  <2> QED
    BY Zenon, <2>6, <2>8, <2>9 DEF Following
\* A connection is made or ends: the follower is not on.
<1>LinkFollowing.
    ASSUME Shape, Following, Connect \/ Break \/ Unmount \/ HeartbeatTimeout
    PROVE  Following'
  <2> USE <1>LinkFollowing
  <2>1. UNCHANGED <<kind, version, stored, job>> /\ follower'.at \in {"handshake", "off"} /\ Grown(Ops \ {"ROLLBACK"})
    <3>1. CASE Connect
      <4> DEFINE t == Task("ACCEPT", follower.c + 1, Absent)
      <4>1. follower'.at = "handshake" /\ t \in TaskType /\ tasks' = Append(tasks, t)
        BY Zenon, <3>1, ConnectFacts
      <4>2. t.op \in Ops \ {"ROLLBACK"}
        BY Zenon DEF Task, Ops
      <4> HIDE DEF t
      <4>3. Grown(Ops \ {"ROLLBACK"})
        BY Zenon, <4>1, <4>2 DEF Grown
      <4> QED
        BY Zenon, <3>1, <4>1, <4>3 DEF Connect
    <3>2. CASE Break \/ Unmount \/ HeartbeatTimeout
      <4>1. UNCHANGED <<kind, version, stored, tasks, job>> /\ follower.at # "off"
        BY Zenon, <3>2 DEF Break, Unmount, HeartbeatTimeout
      <4>2. PICK l \in {"closed", "down"}, r \in {"none", "CLOSE"}, v \in {follower.view, Absent} : Off(l, r, v)
        BY Zenon, <3>2 DEF Break, Unmount, HeartbeatTimeout
      <4>3. v \in VerType
        BY Zenon DEF Shape, Typed, FollowerType, VerType
      <4>4. follower'.at = "off"
        BY Zenon, <4>1, <4>2, <4>3, OffFacts
      <4> QED
        BY Zenon, <4>1, <4>4 DEF Grown
    <3> QED
      BY Zenon, <3>1, <3>2
  <2>2. ~Rolls(tasks')
    BY Zenon, <2>1, <1>RollsAppend DEF Following, Alone
  <2>3. Alone'
    BY Zenon, <2>1, <2>2 DEF Following, Alone
  <2>4. StandbyKept' /\ ClientKept'
    BY Zenon, <2>1 DEF StandbyKept, ClientKept, Synced
  <2> QED
    BY Zenon, <2>3, <2>4 DEF Following
\* Events are never forgotten.
<1>EventsGrow.
    ASSUME [Next]_vars
    PROVE  events \subseteq events'
  <2> USE <1>EventsGrow
  <2>1. ASSUME NEW e, NEW p, Happens(e, p)
        PROVE  events \subseteq events'
    BY Zenon, <2>1 DEF Happens
  <2>2. ASSUME NEW w \in Workers, WorkerStep(w)
        PROVE  events \subseteq events'
    <3>1. CASE ListClients(w) \/ FanoutRejected(w) \/ SendDelta(w) \/ PushToClient(w) \/ Register(w) \/ EraseClient(w)
      BY Zenon, <2>1, <3>1 DEF ListClients, FanoutRejected, SendDelta, PushToClient, Register, EraseClient
    <3>2. CASE AnswerSync(w)
      BY Zenon, <2>1, <3>2 DEF AnswerSync
    <3>3. CASE TakeTask(w) \/ Fanout(w) \/ Commit(w) \/ AnswerWriter(w) \/ Undo(w) \/ Handshake(w)
               \/ GetFileVersionMap(w) \/ BurstAndStart(w) \/ SendStateSnap(w) \/ AnswerClose(w) \/ CloseSession(w)
      BY Zenon, <3>3 DEF TakeTask, Fanout, Commit, AnswerWriter, Undo, Handshake, GetFileVersionMap, BurstAndStart,
                  SendStateSnap, AnswerClose, CloseSession
    <3> QED
      BY Zenon, <2>2, <3>1, <3>2, <3>3 DEF WorkerStep
  <2>3. CASE ReadFrame \/ HbErase
    BY Zenon, <2>1, <2>3 DEF ReadFrame, HbErase
  <2>4. CASE (\E op \in WriteOps : Request(op)) \/ (\E c \in Conns : SessionStep(c)) \/ SendSync \/ HeartbeatTimeout
             \/ HbFindDead \/ Connect \/ Break \/ Unmount \/ UNCHANGED vars
    BY Zenon, <2>4 DEF Request, SessionStep, ReadRequest, SessionDies, SendSync, HeartbeatTimeout, HbFindDead, Connect,
                Break, Unmount, vars
  <2> QED
    BY Zenon, <2>2, <2>3, <2>4 DEF Next, FollowerStep, HbStep
<1>1.
    ASSUME Shape, Registered, Course, KeepsUp, [Next]_vars
    PROVE  KeepsUp'
  <2> USE <1>1
  <2> SUFFICES ASSUME events' = {}
               PROVE  Following'
    BY Zenon DEF KeepsUp
  <2>1. events = {} /\ Following
    BY Zenon, <1>EventsGrow DEF KeepsUp
  <2>2. ASSUME NEW w \in Workers, WorkerStep(w)
        PROVE  Following'
    <3>1. CASE TakeTask(w) \/ AnswerWriter(w) \/ AnswerClose(w) \/ CloseSession(w) \/ EraseClient(w)
      BY Zenon, <2>1, <3>1, <1>PoolFollowing
    <3>2. CASE ListClients(w) \/ Fanout(w) \/ FanoutRejected(w) \/ Commit(w) \/ SendDelta(w) \/ PushToClient(w)
      BY Zenon, <2>1, <3>2, <1>ListFollowing, <1>FanoutFollowing, <1>RejectFollowing, <1>CommitFollowing, <1>DeltaFollowing, <1>PushFollowing
    <3>3. CASE Undo(w)
      BY Zenon, <2>1, <3>3, UndoMoves DEF Following, Alone
    <3>4. CASE Handshake(w) \/ Register(w) \/ GetFileVersionMap(w)
      BY Zenon, <2>1, <3>4, <1>HandshakeFollowing, <1>RegisterFollowing, <1>ReadFollowing
    <3>5. CASE BurstAndStart(w) \/ SendStateSnap(w) \/ AnswerSync(w)
      BY Zenon, <2>1, <3>5, <1>BurstFollowing, <1>SnapFollowing, <1>SyncFollowing
    <3> QED
      BY Zenon, <2>2, <3>1, <3>2, <3>3, <3>4, <3>5 DEF WorkerStep
  <2>3. CASE (\E op \in WriteOps : Request(op)) \/ (\E c \in Conns : SessionStep(c)) \/ HbStep \/ UNCHANGED vars
    BY Zenon, <2>1, <2>3, <1>SessionFollowing DEF SessionStep, HbStep
  <2>4. CASE SendSync \/ ReadFrame
    BY Zenon, <2>1, <2>4, <1>SendSyncFollowing, <1>FrameFollowing
  <2>5. CASE Connect \/ Break \/ Unmount \/ HeartbeatTimeout
    BY Zenon, <2>1, <2>5, <1>LinkFollowing
  <2> QED
    BY Zenon, <2>2, <2>3, <2>4, <2>5 DEF Next, FollowerStep
<1> QED
  BY <1>1

\* Initially there is no follower, and the datanodes have the server's version.
LEMMA InitKeepsUp ==
  ASSUME Init
  PROVE  KeepsUp
<1>1. /\ tasks = <<>> /\ stored = version /\ follower.at = "off"
      /\ \A w \in Workers : job[w].at = "idle" /\ job[w].op = "idle"
  BY Zenon DEF Init, Idle
<1>2. ~Rolls(tasks)
  BY <1>1 DEF Rolls
<1>3. Alone
  BY Zenon, <1>1, <1>2 DEF Alone, Active, Uncommitted
<1>4. StandbyKept /\ ClientKept
  BY Zenon, <1>1 DEF StandbyKept, ClientKept, Synced
<1> QED
  BY Zenon, <1>3, <1>4 DEF KeepsUp, Following

\* With nothing under way no frame is left to be read and none to come: the
\* follower has what its last frame said.
LEMMA KeepsUpThen ==
  ASSUME Shape, Registered, KeepsUp
  PROVE  InStep
<1> SUFFICES ASSUME Quiescent, follower.at = "on", events = {}
             PROVE  follower.view = version
  BY Zenon DEF InStep
<1>1. PICK c \in Conns : c = follower.c /\ Up(c)
  BY Zenon, FollowerConn
<1>2. session[c].out = <<>>
  BY Zenon, <1>1 DEF Quiescent
<1>3. Eventual(session[c].out, follower.view) = follower.view
  BY Zenon, <1>2 DEF Eventual
<1>4. ~DeltaComes /\ ~PushComes /\ ~DeleteCommits
  BY Zenon DEF Quiescent, DeltaComes, PushComes, DeleteCommits
<1>5. endpoint = c
  BY Zenon, <1>1, RegisteredThen DEF StaysRegistered
<1>6. StandbyKept /\ ClientKept
  BY Zenon DEF KeepsUp, Following
<1>7. CASE kind = "STANDBY"
  BY Zenon, <1>1, <1>3, <1>4, <1>5, <1>6, <1>7 DEF StandbyKept
<1>8. CASE kind = "CLIENT"
  BY Zenon, <1>1, <1>3, <1>4, <1>6, <1>8 DEF ClientKept, Synced
<1> QED
  BY Zenon, <1>7, <1>8 DEF Shape, Typed

\* With nothing under way, a connected client or standby has the version the server
\* has, whatever order its connection, the writes, their pushes and deltas took,
\* unless one of the named events has happened: the list of events is complete, for
\* any number of workers, writes, connections and faults.
THEOREM FollowersCorrect == Spec => []InStep
<1> DEFINE Inv == Shape /\ Registered /\ Course /\ KeepsUp
<1>1. Init => Inv
  BY Zenon, InitShape, InitRegistered, InitCourse, InitKeepsUp
<1>2. Inv /\ [Next]_vars => Inv'
  BY Zenon, ShapeStep, RegisteredStep, CourseStep, KeepsUpStep
<1>3. Inv => InStep
  BY Zenon, KeepsUpThen
<1> QED
  BY <1>1, <1>2, <1>3, PTL DEF Spec
=============================================================================
