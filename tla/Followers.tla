------------------------------ MODULE Followers ------------------------------
(***************************************************************************)
(* The peers that keep up with the server's version map, and the thread    *)
(* pool that serves them.  A mounted client keeps versions_ from the push  *)
(* of every write and the answer to SYNC_STATUS (client.cpp); a standby    *)
(* server keeps versionMap_ from a STATE_SNAP and the STATE_DELTA of every *)
(* write (standby_replica_manager.cpp, replica_watcher.cpp).               *)
(*                                                                         *)
(* One path and one follower, which may connect again under its name; the  *)
(* writes come from other clients.  A task of requestPool_ runs as a job   *)
(* of a worker, one action per critical section or call; a session is a    *)
(* queue of frames in the order they were posted.                          *)
(***************************************************************************)
EXTENDS Integers, Sequences

CONSTANTS Workers,    \* the threads of requestPool_
          MaxWrites,  \* bound: writes requested by other clients
          MaxConns,   \* bound: connections of the follower
          Scenarios   \* bound: what the follower is, how many writes and
                      \* connections there are, and how often a connection is
                      \* lost, a write rejected or a writer lost

ASSUME FollowersAssumption ==
  /\ MaxWrites \in Nat /\ MaxConns \in Nat
  /\ Scenarios \subseteq [kind: {"CLIENT", "STANDBY"}, writes: 0 .. MaxWrites,
                         conns: 0 .. MaxConns, faults: Nat]

VARIABLES
  kind,      \* what the follower is
  version,   \* persistedVersionMap_[path], Absent if there is none
  stored,    \* the highest version a datanode lists for the path
  tasks,     \* ThreadPool::tasks_
  job,       \* per worker: the task it runs and where it is
  session,   \* per connection of the follower: the server's session
  endpoint,  \* the session under the follower's name: clientEndpointMap_ or
             \* standbys_, 0 if absent
  hb,        \* standbyHbThread_: has it found the follower dead?
  follower,  \* its connection and what its map has for the path
  left,      \* the writes, connections and faults still to come
  events     \* auxiliary: what has happened of the events named below

vars == <<kind, version, stored, tasks, job, session, endpoint, hb, follower, left, events>>

-----------------------------------------------------------------------------
(* Data. *)

Absent == -1

Versions == Absent .. MaxWrites + 1

Conns == 1 .. MaxConns

WriteOps == {"CREATE", "UPDATE", "DELETE"}

Ops == WriteOps \cup {"ACCEPT", "SYNC", "CLOSE", "ERASE", "ROLLBACK"}

Task(op, c, v) == [op |-> op, c |-> c, ver |-> v]

Idle == [op |-> "idle", c |-> 0, ver |-> Absent, at |-> "idle", list |-> 0]

Job == [op: Ops \cup {"idle"}, c: 0 .. MaxConns, ver: Versions,
        at: {"idle", "list", "fanout", "commit", "delta", "push", "answer",
             "handshake", "register", "read", "burst", "snap", "closing", "erase",
             "undo", "stuck"},
        list: 0 .. MaxConns]

\* A frame that carries the version of the path, or its absence.
Frame(what, v) == [what |-> what, ver |-> v]

Frames == [what: {"PUSH", "STATE_SNAP", "STATE_DELTA", "RESPONSE"}, ver: Versions]

NewSession == [link |-> "none", state |-> "new", request |-> "none", out |-> <<>>]

(* How a follower can fall behind although every thread does its part:       *)
(*   "overlap"    two writes are under way at once                           *)
(*   "rejected"   a write below quorum has reached a datanode                *)
(*   "window"     a delta is sent between the snapshot of a standby and its  *)
(*                registration                                               *)
(*   "unlisted"   a write listed the clients before this one registered and  *)
(*                is pushed after its SYNC_STATUS was served                 *)
(*   "stale"      a listing is answered that a write has overtaken           *)
(*   "kept"       the listing lacks a path the client still has              *)
(*   "displaced"  the name of a live connection is erased, or overwritten by *)
(*                an older one                                               *)
Events == {"overlap", "rejected", "window", "unlisted", "stale", "kept",
           "displaced"}

Happens(e, when) == events' = IF when THEN events \cup {e} ELSE events

\* The type invariant.
TypeOK ==
  /\ kind \in {"CLIENT", "STANDBY"}
  /\ version \in Versions /\ stored \in Versions
  /\ tasks \in Seq([op: Ops, c: 0 .. MaxConns, ver: Versions])
  /\ job \in [Workers -> Job]
  /\ \A c \in Conns : /\ session[c].link \in {"none", "up", "closed", "down"}
                      /\ session[c].state \in {"new", "alive", "dead"}
                      /\ session[c].request \in {"none", "SYNC", "CLOSE"}
                      /\ session[c].out \in Seq(Frames)
  /\ endpoint \in 0 .. MaxConns
  /\ hb \in {"asleep", "erase"}
  /\ follower \in [c: 0 .. MaxConns, at: {"off", "handshake", "new", "sync", "on"},
                   view: Versions]
  /\ left \in [writes: 0 .. MaxWrites, conns: 0 .. MaxConns, faults: Nat]
  /\ events \subseteq Events

Init ==
  /\ \E s \in Scenarios :
       /\ kind = s.kind
       /\ left = [writes |-> s.writes, conns |-> s.conns, faults |-> s.faults]
  /\ version \in {Absent, 0} /\ stored = version
  /\ tasks = <<>>
  /\ job = [w \in Workers |-> Idle]
  /\ session = [c \in Conns |-> NewSession]
  /\ endpoint = 0
  /\ hb = "asleep"
  /\ follower = [c |-> 0, at |-> "off", view |-> Absent]
  /\ events = {}

Post(c, f) == session' = [session EXCEPT ![c].out = Append(@, f)]

Submit(t) == tasks' = Append(tasks, t)

Set(w, j) == job' = [job EXCEPT ![w] = j]

Goto(w, at) == Set(w, [job[w] EXCEPT !.at = at])

Fault == left.faults > 0 /\ left' = [left EXCEPT !.faults = @ - 1]

Up(c) == c # 0 /\ session[c].link = "up"

-----------------------------------------------------------------------------
(* The thread pool. *)

\* A request of another client, handed to the pool by its session.
Request(op) ==
  /\ left.writes > 0
  /\ op = "CREATE" <=> version = Absent
  /\ left' = [left EXCEPT !.writes = @ - 1]
  /\ Submit(Task(op, 0, version))
  /\ UNCHANGED <<kind, version, stored, job, session, endpoint, hb, follower,
                 events>>

\* Mutant of FirstPoint: a rollback starts where no step continues it.
FirstPointLost(op) == CASE op \in WriteOps -> "list"
                        [] op = "ACCEPT" -> "handshake"
                        [] op = "SYNC" -> "read"
                        [] op = "CLOSE" -> "answer"
                        [] op = "ERASE" -> "erase"
                        [] op = "ROLLBACK" -> "delete"

FirstPoint(op) == CASE op \in WriteOps -> "list"
                    [] op = "ACCEPT" -> "handshake"
                    [] op = "SYNC" -> "read"
                    [] op = "CLOSE" -> "answer"
                    [] op = "ERASE" -> "erase"
                    [] op = "ROLLBACK" -> "undo"

\* workerLoop: an idle worker takes the oldest task.
TakeTask(w) ==
  /\ job[w] = Idle /\ tasks # <<>>
  /\ LET t == Head(tasks)
     IN Set(w, [op |-> t.op, c |-> t.c, ver |-> t.ver, at |-> FirstPoint(t.op),
                list |-> 0])
  /\ tasks' = Tail(tasks)
  /\ UNCHANGED <<kind, version, stored, session, endpoint, hb, follower, left,
                 events>>

-----------------------------------------------------------------------------
(* A write: propagateCreateFile, propagateUpdateFile, propagateDeleteFile.    *)

\* The version to write and the clients to push it to.  (An update reads them
\* under two locks: what happens in between is an overlapping write.)
ListClients(w) ==
  LET j == job[w]
      new == CASE j.op = "CREATE" -> 0
               [] j.op = "UPDATE" -> (IF version # Absent THEN version ELSE j.ver) + 1
               [] j.op = "DELETE" -> Absent
  IN /\ j.at = "list"
     /\ Set(w, [j EXCEPT !.at = "fanout", !.ver = new,
                         !.list = IF kind = "CLIENT" THEN endpoint ELSE 0])
     /\ Happens("overlap", \E o \in Workers \ {w} :
                             /\ job[o].op \in WriteOps
                             /\ job[o].at \notin {"list", "answer", "stuck"})
     /\ UNCHANGED <<kind, version, stored, tasks, session, endpoint, hb, follower, left>>

\* The order of the steps that follow the fan-out and concern the follower:
\* commit, delta, pushes; in a delete the pushes come first.
After(w) ==
  LET deleting == job[w].op = "DELETE"
      client == kind = "CLIENT"
  IN CASE job[w].at = "fanout" -> IF client /\ deleting THEN "push" ELSE "commit"
       [] job[w].at = "commit" -> IF ~client THEN "delta"
                                  ELSE IF deleting THEN "answer" ELSE "push"
       [] job[w].at = "delta" -> "answer"
       [] job[w].at = "push" -> IF deleting THEN "commit" ELSE "answer"

\* The calls to the datanodes reach a quorum ...
Fanout(w) ==
  /\ job[w].at = "fanout"
  /\ stored' = job[w].ver
  /\ Goto(w, After(w))
  /\ UNCHANGED <<kind, version, tasks, session, endpoint, hb, follower, left,
                 events>>

\* ... or not; the create is then undone by a task of its own.
FanoutRejected(w) ==
  /\ job[w].at = "fanout" /\ Fault
  /\ stored' \in {stored, job[w].ver}
  /\ IF job[w].op = "CREATE" /\ stored' # stored
     THEN Submit(Task("ROLLBACK", 0, Absent)) ELSE UNCHANGED tasks
  /\ Goto(w, "answer")
  /\ Happens("rejected", stored' # stored)
  /\ UNCHANGED <<kind, version, session, endpoint, hb, follower>>

Commit(w) ==
  /\ job[w].at = "commit"
  /\ version' = job[w].ver
  /\ Goto(w, After(w))
  /\ UNCHANGED <<kind, stored, tasks, session, endpoint, hb, follower, left,
                 events>>

\* Has the handshake of a standby read the map, and not yet registered?
InWindow(j) == j.op = "ACCEPT" /\ j.at \in {"snap", "register"}

\* Mutant of SendDelta: a delete is not sent on.
SendDeltaWritesOnly(w) ==
  /\ job[w].at = "delta"
  /\ IF endpoint # 0 /\ session[endpoint].state = "alive" /\ job[w].ver # Absent
     THEN Post(endpoint, Frame("STATE_DELTA", job[w].ver)) ELSE UNCHANGED session
  /\ Happens("window", \E o \in Workers : InWindow(job[o]) /\ job[o].ver # job[w].ver)
  /\ Goto(w, After(w))
  /\ UNCHANGED <<kind, version, stored, tasks, endpoint, hb, follower, left>>

\* sendDelta to the registered standby, if its session is alive.
SendDelta(w) ==
  /\ job[w].at = "delta"
  /\ IF endpoint # 0 /\ session[endpoint].state = "alive"
     THEN Post(endpoint, Frame("STATE_DELTA", job[w].ver)) ELSE UNCHANGED session
  /\ Happens("window", \E o \in Workers : InWindow(job[o]) /\ job[o].ver # job[w].ver)
  /\ Goto(w, After(w))
  /\ UNCHANGED <<kind, version, stored, tasks, endpoint, hb, follower, left>>

\* Is the client's SYNC_STATUS still to be served?
SyncToCome ==
  LET c == follower.c
  IN \/ follower.at \in {"handshake", "new"}
     \/ c # 0 /\ session[c].request = "SYNC"
     \/ \E i \in 1 .. Len(tasks) : tasks[i].op = "SYNC" /\ tasks[i].c = c
     \/ \E w \in Workers : job[w].op = "SYNC" /\ job[w].c = c /\ job[w].at = "read"

\* The push to the client, as listed before the fan-out, dead or alive.
PushToClient(w) ==
  /\ job[w].at = "push"
  /\ IF job[w].list # 0 THEN Post(job[w].list, Frame("PUSH", job[w].ver))
     ELSE UNCHANGED session
  /\ Happens("unlisted", endpoint \notin {0, job[w].list} /\ ~SyncToCome)
  /\ Goto(w, After(w))
  /\ UNCHANGED <<kind, version, stored, tasks, endpoint, hb, follower, left>>

\* The answer to the writer.  If its session is gone the worker never returns
\* from the call.
AnswerWriter(w) ==
  /\ job[w].at = "answer" /\ job[w].op \in WriteOps
  /\ \/ Set(w, Idle) /\ UNCHANGED left
     \/ Goto(w, "stuck") /\ Fault
  /\ UNCHANGED <<kind, version, stored, tasks, session, endpoint, hb, follower,
                 events>>

\* The rollback of a create, on a datanode that had stored it; if its session
\* has died the worker is lost too.
Undo(w) ==
  /\ job[w].at = "undo"
  /\ \/ stored' = Absent /\ Set(w, Idle)
     \/ UNCHANGED stored /\ Goto(w, "stuck")
  /\ UNCHANGED <<kind, version, tasks, session, endpoint, hb, follower, left, events>>

-----------------------------------------------------------------------------
(* The follower connects: handleAccept, handleStandbyConnect, registerStandby. *)

\* acceptThread_ hands the connection to the pool.
Connect ==
  LET c == follower.c + 1
  IN /\ follower.at = "off" /\ left.conns > 0
     /\ left' = [left EXCEPT !.conns = @ - 1]
     /\ follower' = [follower EXCEPT !.c = c, !.at = "handshake"]
     /\ session' = [session EXCEPT ![c].link = "up"]
     /\ Submit(Task("ACCEPT", c, Absent))
     /\ UNCHANGED <<kind, version, stored, job, endpoint, hb, events>>

\* handleStandbyConnect: the session of a standby starts before its snapshot.
StandbyStarts(w) ==
  /\ session' = [session EXCEPT ![job[w].c].state = "alive"]
  /\ follower' = [follower EXCEPT !.at = "on"]
  /\ Goto(w, "read")

\* IDENTIFY, its answer and the ACK.
Handshake(w) ==
  /\ job[w].at = "handshake"
  /\ \/ ~Up(job[w].c) /\ Set(w, Idle) /\ UNCHANGED <<session, follower>>
     \/ Up(job[w].c) /\ kind = "STANDBY" /\ StandbyStarts(w)
     \/ /\ Up(job[w].c) /\ kind = "CLIENT" /\ Goto(w, "register")
        /\ follower' = [follower EXCEPT !.at = "new"]
        /\ UNCHANGED session
  /\ UNCHANGED <<kind, version, stored, tasks, endpoint, hb, left, events>>

\* Mutant of Register: an entry that exists is kept, as insert would do.
RegisterInsert(w) ==
  /\ job[w].at = "register"
  /\ endpoint' = IF endpoint = 0 THEN job[w].c ELSE endpoint
  /\ IF kind = "CLIENT" THEN Goto(w, "read") ELSE Set(w, Idle)
  /\ UNCHANGED <<kind, version, stored, tasks, session, hb, follower, left, events>>

\* clientEndpointMap_[name] = session, before the listing; standbys_[name] =
\* session, after the snapshot.
Register(w) ==
  /\ job[w].at = "register"
  /\ endpoint' = job[w].c
  /\ IF kind = "CLIENT" THEN Goto(w, "read") ELSE Set(w, Idle)
  /\ Happens("displaced", endpoint > job[w].c)
  /\ UNCHANGED <<kind, version, stored, tasks, session, hb, follower, left>>

\* getFileVersionMap: the server's map first, then the datanodes' listings.
GetFileVersionMap(w) ==
  LET listed == IF stored > version THEN stored ELSE version
      next == CASE job[w].op = "SYNC" -> "answer"
                [] job[w].op = "ACCEPT" -> IF kind = "CLIENT" THEN "burst" ELSE "snap"
  IN /\ job[w].at = "read"
     /\ Set(w, [job[w] EXCEPT !.ver = listed, !.at = next])
     /\ UNCHANGED <<kind, version, stored, tasks, session, endpoint, hb, follower, left, events>>

\* Mutant of BurstAndStart: without a file to push the session is not started.
BurstElseNothing(w) ==
  /\ job[w].at = "burst"
  /\ session' = IF job[w].ver = Absent \/ version = Absent THEN session
                ELSE [session EXCEPT ![job[w].c].state = "alive",
                                     ![job[w].c].out = Append(@, Frame("PUSH", job[w].ver))]
  /\ Set(w, Idle)
  /\ UNCHANGED <<kind, version, stored, tasks, endpoint, hb, follower, left, events>>

\* The file is pushed, if the server has a holder for it, and the session
\* starts: what was posted on it before goes out in that order.
BurstAndStart(w) ==
  LET c == job[w].c
  IN /\ job[w].at = "burst"
     /\ session' =
          [session EXCEPT
             ![c].state = "alive",
             ![c].out = IF job[w].ver # Absent /\ version # Absent
                        THEN Append(@, Frame("PUSH", job[w].ver)) ELSE @]
     /\ Set(w, Idle)
     /\ UNCHANGED <<kind, version, stored, tasks, endpoint, hb, follower, left,
                    events>>

\* A call that only sends: the frame goes out, or the session turns dead.
Sent(c, f) ==
  session' = IF Up(c) THEN [session EXCEPT ![c].out = Append(@, f)]
             ELSE [session EXCEPT ![c].state = "dead"]

\* sendStateSnap.
SendStateSnap(w) ==
  /\ job[w].at = "snap"
  /\ Sent(job[w].c, Frame("STATE_SNAP", job[w].ver))
  /\ Goto(w, "register")
  /\ UNCHANGED <<kind, version, stored, tasks, endpoint, hb, follower, left,
                 events>>

-----------------------------------------------------------------------------
(* Requests of a client: SYNC_STATUS and CLOSE, and the end of its session. *)

\* The session's worker reads a request and hands it to the pool.
ReadRequest(c) ==
  /\ session[c].state = "alive" /\ session[c].request # "none"
  /\ Submit(Task(session[c].request, c, Absent))
  /\ session' = [session EXCEPT ![c].request = "none"]
  /\ UNCHANGED <<kind, version, stored, job, endpoint, hb, follower, left,
                 events>>

\* A request in the pool; the session reads no further meanwhile.
Suspended(c) ==
  \/ \E i \in 1 .. Len(tasks) : tasks[i].c = c /\ tasks[i].op \in {"SYNC", "CLOSE"}
  \/ \E w \in Workers : job[w].c = c /\ job[w].op \in {"SYNC", "CLOSE"}

\* The session finds its connection broken, in a read or in a send: isAlive()
\* turns false and the worker leaves its loop.
SessionDies(c) ==
  /\ session[c].state = "alive" /\ ~Up(c)
  /\ \/ session[c].request # "CLOSE" /\ ~Suspended(c)
     \/ session[c].out # <<>>
  /\ session' = [session EXCEPT ![c].state = "dead"]
  /\ UNCHANGED <<kind, version, stored, tasks, job, endpoint, hb, follower, left, events>>

\* response(...): on a session whose worker is gone the call never returns.
AnswerSync(w) ==
  LET c == job[w].c
      committing == {o \in Workers : job[o].at = "commit"}
      overtaken == \/ job[w].ver # version /\ \A o \in committing : job[o].ver # job[w].ver
                   \/ \E o \in committing : job[o].op = "DELETE"
  IN /\ job[w].at = "answer" /\ job[w].op = "SYNC"
     /\ IF session[c].state = "dead"
        THEN Goto(w, "stuck") /\ UNCHANGED <<session, events>>
        ELSE /\ Sent(c, Frame("RESPONSE", job[w].ver))
             /\ Set(w, Idle)
             /\ Happens("stale", overtaken)
     /\ UNCHANGED <<kind, version, stored, tasks, endpoint, hb, follower, left>>

AnswerClose(w) ==
  /\ job[w].at = "answer" /\ job[w].op = "CLOSE"
  /\ Goto(w, IF session[job[w].c].state = "dead" THEN "stuck" ELSE "closing")
  /\ UNCHANGED <<kind, version, stored, tasks, session, endpoint, hb, follower, left, events>>

\* setIsAlive(false), and a task to forget the client ...
CloseSession(w) ==
  /\ job[w].at = "closing"
  /\ session' = [session EXCEPT ![job[w].c].state = "dead"]
  /\ Submit(Task("ERASE", 0, Absent))
  /\ Set(w, Idle)
  /\ UNCHANGED <<kind, version, stored, endpoint, hb, follower, left, events>>

\* ... by its name, whoever has it by now.
EraseClient(w) ==
  /\ job[w].at = "erase"
  /\ endpoint' = 0
  /\ Set(w, Idle)
  /\ Happens("displaced", Up(endpoint))
  /\ UNCHANGED <<kind, version, stored, tasks, session, hb, follower, left>>

-----------------------------------------------------------------------------
(* The follower. *)

\* Client::syncStatus, some time after the session was started.
SendSync ==
  /\ follower.at = "new"
  /\ follower' = [follower EXCEPT !.at = "sync"]
  /\ session' = [session EXCEPT ![follower.c].request = "SYNC"]
  /\ UNCHANGED <<kind, version, stored, tasks, job, endpoint, hb, left, events>>

\* A push sets or erases the entry; one that arrives while the client waits for
\* its listing is read and dropped.
Pushed(f) == IF follower.at = "sync" THEN follower.view ELSE f.ver

\* The listing is merged into the map the client has.
Merged(f) == IF f.ver = Absent THEN follower.view ELSE f.ver

\* A snapshot replaces the map of the standby, a delta sets or erases an entry.
Applied(f) == f.ver

\* The next frame of the server.
ReadFrame ==
  LET c == follower.c
      f == Head(session[c].out)
      view == CASE f.what = "PUSH" -> Pushed(f)
                [] f.what = "RESPONSE" -> Merged(f)
                [] f.what \in {"STATE_SNAP", "STATE_DELTA"} -> Applied(f)
  IN /\ follower.at \in {"new", "sync", "on"}
     /\ session[c].state = "alive" /\ session[c].out # <<>>
     /\ session' = [session EXCEPT ![c].out = Tail(@)]
     /\ follower' = [follower EXCEPT !.view = view,
                                     !.at = IF f.what = "RESPONSE" THEN "on" ELSE @]
     /\ Happens("kept", f.what = "RESPONSE" /\ view # f.ver)
     /\ UNCHANGED <<kind, version, stored, tasks, job, endpoint, hb, left>>

\* The connection is gone, what was not read with it.
Off(link, request, view) ==
  /\ session' = [session EXCEPT ![follower.c] =
                   [@ EXCEPT !.link = link, !.request = request, !.out = <<>>]]
  /\ follower' = [follower EXCEPT !.at = "off", !.view = view]

\* The connection breaks, or the follower ends without a word.
Break ==
  /\ follower.at # "off" /\ Fault
  /\ \E view \in {follower.view, Absent} : Off("down", "none", view)
  /\ UNCHANGED <<kind, version, stored, tasks, job, endpoint, hb, events>>

\* A client is unmounted: CLOSE is the last thing it sends.
Unmount ==
  /\ kind = "CLIENT" /\ follower.at = "on"
  /\ Off("closed", "CLOSE", Absent)
  /\ UNCHANGED <<kind, version, stored, tasks, job, endpoint, hb, left, events>>

\* A standby whose name is not registered gets no LEADER_HB and gives up.
HeartbeatTimeout ==
  /\ kind = "STANDBY" /\ follower.at = "on" /\ endpoint # follower.c
  /\ Off("down", "none", follower.view)
  /\ UNCHANGED <<kind, version, stored, tasks, job, endpoint, hb, left, events>>

-----------------------------------------------------------------------------
(* StandbyReplicaManager::sendHeartbeats. *)

\* The registered session is found dead ...
HbFindDead ==
  /\ kind = "STANDBY" /\ hb = "asleep"
  /\ endpoint # 0 /\ session[endpoint].state = "dead"
  /\ hb' = "erase"
  /\ UNCHANGED <<kind, version, stored, tasks, job, session, endpoint, follower, left, events>>

\* Mutant of HbErase: the dead are found and stay in the registry.
HbEraseNothing ==
  /\ hb = "erase"
  /\ hb' = "asleep"
  /\ UNCHANGED <<kind, version, stored, tasks, job, session, endpoint, follower, left,
                 events>>

\* ... and its name is erased, under another lock.
HbErase ==
  /\ hb = "erase"
  /\ hb' = "asleep"
  /\ endpoint' = 0
  /\ Happens("displaced", Up(endpoint))
  /\ UNCHANGED <<kind, version, stored, tasks, job, session, follower, left>>

-----------------------------------------------------------------------------

WorkerStep(w) ==
  \/ TakeTask(w)
  \/ ListClients(w) \/ Fanout(w) \/ FanoutRejected(w) \/ Commit(w) \/ SendDelta(w)
  \/ PushToClient(w) \/ AnswerWriter(w) \/ Undo(w)
  \/ Handshake(w) \/ Register(w) \/ GetFileVersionMap(w) \/ BurstAndStart(w)
  \/ SendStateSnap(w)
  \/ AnswerSync(w) \/ AnswerClose(w) \/ CloseSession(w) \/ EraseClient(w)

SessionStep(c) == ReadRequest(c) \/ SessionDies(c)

FollowerStep == SendSync \/ ReadFrame \/ HeartbeatTimeout

HbStep == HbFindDead \/ HbErase

Next ==
  \/ \E op \in WriteOps : Request(op)
  \/ \E w \in Workers : WorkerStep(w)
  \/ \E c \in Conns : SessionStep(c)
  \/ FollowerStep \/ HbStep
  \/ Connect \/ Break \/ Unmount

Spec == Init /\ [][Next]_vars

\* Every thread goes on: the workers of the pool, whose calls to datanodes end
\* with an answer or a broken connection, the workers of the sessions, the
\* follower and the heartbeat thread.  Nobody has to write or to connect.
FairSpec ==
  /\ Spec
  /\ \A w \in Workers : WF_vars(WorkerStep(w))
  /\ \A c \in Conns : WF_vars(SessionStep(c))
  /\ WF_vars(FollowerStep)
  /\ WF_vars(HbStep)

-----------------------------------------------------------------------------
(* Properties. *)

Quiescent ==
  /\ tasks = <<>> /\ hb = "asleep"
  /\ \A w \in Workers : job[w].at \in {"idle", "stuck"}
  /\ \A c \in Conns : Up(c) => session[c].out = <<>> /\ session[c].request = "none"

\* README.md, Server-to-Client Push Invalidation and Primary-to-Standby
\* Replication: with nothing under way, a connected follower has the version
\* the server has, whatever order its connection, the writes and the pushes
\* took, unless one of the events above has happened.
InStep ==
  Quiescent /\ follower.at = "on" /\ events = {} => follower.view = version

\* A follower that has been accepted stays under its name in the server's map
\* as long as its connection lasts, unless it was displaced.
StaysRegistered ==
  Quiescent /\ follower.at = "on" /\ "displaced" \notin events
    => endpoint = follower.c

\* A thread of the pool that calls a session whose worker is gone is lost.
PoolLost == \A w \in Workers : job[w].at = "stuck"

\* Unless the whole pool is lost, every task is served in the end, and a
\* follower that stays connected is accepted, gets its snapshot or listing and
\* catches up with the last write.
CatchesUp ==
  <>[](\/ PoolLost
       \/ tasks = <<>> /\ \/ follower.at = "off" \/ events # {}
                          \/ follower.at = "on" /\ follower.view = version)

\* sendHeartbeats: a dead session does not stay in the standby registry, not
\* even one that is registered after it has died.
DeadStandbyLeaves ==
  (kind = "STANDBY" /\ endpoint # 0 /\ session[endpoint].state = "dead")
    ~> (endpoint = 0 \/ session[endpoint].state = "alive")

\* README.md, Primary-to-Standby Replication, on the snapshot: "From that point
\* on the primary sends `STATE_DELTA` frames after every committed write": a
\* standby misses no delta between its snapshot and its registration.
StandbyHasNoWindow ==
  kind = "STANDBY" /\ Quiescent /\ follower.at = "on" /\ events \subseteq {"window"}
    => follower.view = version

\* README.md, Server-to-Client Push Invalidation: "After every committed write
\* it pushes the updated file to all other clients": a client that registers
\* while a write is under way learns of it too.
ClientMissesNoWrite ==
  kind = "CLIENT" /\ Quiescent /\ follower.at = "on"
    /\ events \subseteq {"unlisted", "stale"}
    => follower.view = version

\* A client whose session has died does not stay in clientEndpointMap_, where
\* every later push is queued for it.
DeadClientLeaves ==
  (kind = "CLIENT" /\ endpoint # 0 /\ session[endpoint].state = "dead")
    ~> (endpoint = 0 \/ session[endpoint].state = "alive")

\* The pool keeps a thread that can serve requests.
PoolSurvives == ~PoolLost
=============================================================================
