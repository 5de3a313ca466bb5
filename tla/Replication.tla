----------------------------- MODULE Replication -----------------------------
(***************************************************************************)
(* The copies of one file: ReplicationManager (replication_manager.cpp),   *)
(* HeartbeatManager, the handshake of a datanode (server.cpp,              *)
(* handleAccept) and the datanode's own request handlers                   *)
(* (squidprotocol.cpp, requestDispatcher).  The maps of the server are     *)
(* keyed by path, so the module follows a single one; the other paths      *)
(* matter only to a crash, see Restart.                                    *)
(*                                                                         *)
(* A call to a datanode is one action, a critical section under            *)
(* stateMutex_ is one action, and everything else may happen in between.   *)
(* persistState is called without the mutex, except while a datanode       *)
(* registers: it reads the map and, later, renames its file into place.    *)
(***************************************************************************)
EXTENDS Integers, FiniteSets

CONSTANTS N,           \* datanodes, named 1 .. N in the order of their names
          RF,          \* replicationFactor_
          Writers,     \* pool threads serving client requests on the path
          CreateOver,  \* may a client create a path that already exists?
          CrashInRewrite,  \* may a crash hit setFileVersion at its rewrite?
          MaxWrites,   \* bound: writes issued
          Scenarios    \* bound: the requests clients send, how many connections
                       \* break and how often the server restarts

ASSUME ReplicationAssumption ==
  /\ N \in Nat \ {0} /\ RF \in Nat \ {0}
  /\ CreateOver \in BOOLEAN /\ CrashInRewrite \in BOOLEAN
  /\ MaxWrites \in Nat
  /\ Scenarios \subseteq [ops: SUBSET {"CREATE", "UPDATE", "DELETE", "READ"},
                         breaks: Nat, restarts: Nat]

Nodes == 1 .. N

quorum == RF \div 2 + 1

VARIABLES
  disk,         \* per datanode: the bytes it stores and the version it records
  conn,         \* per datanode: its latest connection
  gen,          \* per datanode: the number of its latest session
  dead,         \* per datanode: the sessions with isAlive() = false
  endpoint,     \* dataNodeEndpointMap_: session of each datanode, 0 if absent
  holder,       \* dataNodeReplicationMap_[path]: likewise
  version,      \* persistedVersionMap_[path] in memory, -1 if absent
  fileVersion,  \* the entry of the path in the server's fileVersions.txt
  job,          \* per writer: the request it serves
  reg,          \* per datanode: the handshake it is going through
  hb,           \* the heartbeat thread
  rollbacks,    \* deletes submitted to the pool by a failed create
  writes,       \* how many writes were issued; a write's number is its bytes
  acked,        \* auxiliary: highest version answered with an ACK since the
                \* last delete, and the last write ever so answered
  rejected,     \* auxiliary: the writes answered with a NACK
  events,       \* auxiliary: what has happened of the events named below
  scenario      \* the requests clients send, and the faults still to come

net == <<conn, gen, dead>>
maps == <<endpoint, holder, version, fileVersion>>
aux == <<acked, rejected, events>>
vars == <<disk, net, maps, job, reg, hb, rollbacks, writes, aux, scenario>>

-----------------------------------------------------------------------------
(* Data. *)

NoBytes == 0

PartialBytes == MaxWrites + 1

Bytes == 0 .. MaxWrites + 1

NoRecord == -2

NotListed == -3

\* A copy: the number of the write whose bytes it has, and the version the
\* datanode recorded for the path.
Copy == [data: Bytes, ver: Int]

NoCopy == [data |-> NoBytes, ver |-> NoRecord]

Sessions == [Nodes -> Nat]

None == [n \in Nodes |-> 0]

Members(m) == {n \in Nodes : m[n] # 0}

Size(m) == Cardinality(Members(m))

First(m) == CHOOSE n \in Members(m) : \A k \in Members(m) : n <= k

Drop(m, n) == [m EXCEPT ![n] = 0]

Alive(m) == [n \in Nodes |-> IF m[n] \in dead[n] THEN 0 ELSE m[n]]

Larger(a, b) == IF a > b THEN a ELSE b

Smaller(a, b) == IF a < b THEN a ELSE b

Idle == [op |-> "idle", at |-> "idle", ver |-> -1, data |-> NoBytes,
         todo |-> None, oks |-> None, size |-> 0, snap |-> -1]

Job == [op: {"idle", "CREATE", "UPDATE", "DELETE", "READ"},
        at: {"idle", "snapshot", "fanout", "persist", "save", "rename", "answer",
             "hung"},
        ver: Int, data: Bytes, todo: Sessions, oks: Sessions, size: Nat,
        snap: Int]

NothingAcked == [ver |-> -1, write |-> 0]

(* Events that undo what the program otherwise keeps up: a save of a map     *)
(* that has changed since it was read; a rollback that runs during another   *)
(* request; a rebalance that stores bytes older than the last acknowledged   *)
(* write, or any while a write is under way; a restart that cuts a write off;*)
(* a delete, after which versions start again; a datanode that registers     *)
(* with a higher version than a write under way has taken.                   *)
Events == {"stale save", "late rollback", "stale copy", "cut write", "deleted",
           "outdone"}

Happens(e, when) == events' = IF when THEN events \cup {e} ELSE events

Writing(w) == job[w].op \in {"CREATE", "UPDATE"}

NoReg == [at |-> "idle", listed |-> NotListed]

Asleep == [at |-> "asleep", todo |-> None, lost |-> {}, map |-> None,
           bytes |-> NoBytes, snap |-> -1]

\* The type invariant.
TypeOK ==
  /\ disk \in [Nodes -> Copy]
  /\ conn \in [Nodes -> {"up", "garbled", "down"}]
  /\ gen \in Sessions /\ dead \in [Nodes -> SUBSET Nat]
  /\ endpoint \in Sessions /\ holder \in Sessions
  /\ version \in Int /\ fileVersion \in Int
  /\ job \in [Writers -> Job]
  /\ reg \in [Nodes -> [at: {"idle", "sync", "register", "build", "merge"},
                        listed: Int]]
  /\ hb \in [at: {"asleep", "probe", "erase", "save", "rename", "source", "pick",
                  "copy", "hung"},
             todo: Sessions, lost: SUBSET Nodes, map: Sessions, bytes: Bytes,
             snap: Int]
  /\ rollbacks \subseteq Nodes \X Nat
  /\ writes \in 0 .. MaxWrites
  /\ acked \in [ver: Int, write: 0 .. MaxWrites]
  /\ rejected \subseteq 1 .. MaxWrites
  /\ events \subseteq Events
  /\ \E full \in Scenarios : /\ scenario.ops = full.ops
                            /\ scenario.breaks \in 0 .. full.breaks
                            /\ scenario.restarts \in 0 .. full.restarts

Init ==
  /\ disk = [n \in Nodes |-> NoCopy]
  /\ conn = [n \in Nodes |-> "up"]
  /\ gen = [n \in Nodes |-> 1]
  /\ dead = [n \in Nodes |-> {}]
  /\ endpoint = [n \in Nodes |-> 1]
  /\ holder = None
  /\ version = -1 /\ fileVersion = -1
  /\ job = [w \in Writers |-> Idle]
  /\ reg = [n \in Nodes |-> NoReg]
  /\ hb = Asleep
  /\ rollbacks = {}
  /\ writes = 0
  /\ acked = NothingAcked
  /\ rejected = {}
  /\ events = {}
  /\ scenario \in Scenarios

-----------------------------------------------------------------------------
(* Connections and calls. *)

Usable(n, k) == conn[n] = "up" /\ gen[n] = k /\ k \notin dead[n]

Breaks(n) ==
  /\ scenario.breaks > 0
  /\ scenario' = [scenario EXCEPT !.breaks = @ - 1]
  /\ conn' = [conn EXCEPT ![n] = "down"]

\* The call is answered: the datanode now has copy c.
Answered(n, k, c) ==
  /\ Usable(n, k)
  /\ disk' = [disk EXCEPT ![n] = c]
  /\ UNCHANGED <<conn, dead, scenario>>

\* The call fails and isAlive() turns false: the connection was already
\* useless, or it breaks now and leaves the datanode with one of the copies.
Failed(n, k, copies) ==
  /\ dead' = [dead EXCEPT ![n] = @ \cup {k}]
  /\ \/ ~Usable(n, k) /\ UNCHANGED <<disk, conn, scenario>>
     \/ /\ Usable(n, k) /\ Breaks(n)
        /\ \E c \in copies : disk' = [disk EXCEPT ![n] = c]

\* A call on a session that is dead already fails too if the worker is still
\* emptying its queue.  Once the worker has left its loop nobody runs the
\* task, and the calling thread waits for ever: the points "hung" below.

\* What an interrupted createFile or updateFile leaves: receiveFile truncates
\* the target first and removes it when the connection fails, a datanode that
\* dies keeps what it had received, and the version is recorded at the end.
Torn(n, c) ==
  {disk[n], c} \cup {[disk[n] EXCEPT !.data = d] :
                      d \in {NoBytes, PartialBytes, c.data}}

\* deleteFileAndVersion drops the version only if there was a file to remove.
Deleted(n) == IF disk[n].data = NoBytes THEN disk[n] ELSE NoCopy

\* getFileVersion: -1 without a record.
RecordedVersion(n) == Larger(disk[n].ver, -1)

\* SYNC_STATUS: a file on disk is listed, with version 0 without a record.
Listed(n) == IF disk[n].data = NoBytes THEN NotListed
             ELSE IF disk[n].ver = NoRecord THEN 0 ELSE disk[n].ver

BreakLink(n) ==
  /\ conn[n] = "up" /\ Breaks(n)
  /\ UNCHANGED <<disk, gen, dead, maps, job, reg, hb, rollbacks, writes, aux>>

-----------------------------------------------------------------------------
(* Client requests: handleClientRequest and ReplicationManager. *)

Set(w, j) == job' = [job EXCEPT ![w] = j]

\* propagateCreateFile is sent to every datanode there is.
StartCreate(w) ==
  /\ job[w] = Idle /\ "CREATE" \in scenario.ops /\ writes < MaxWrites
  /\ CreateOver \/ version = -1
  /\ writes' = writes + 1
  /\ Set(w, [Idle EXCEPT !.op = "CREATE", !.at = "fanout", !.ver = 0,
                         !.data = writes + 1, !.todo = endpoint])
  /\ UNCHANGED <<disk, net, maps, reg, hb, rollbacks, aux, scenario>>

\* Mutant of StartUpdate: the version is not raised.
StartUpdateSameVersion(w) ==
  /\ job[w] = Idle /\ "UPDATE" \in scenario.ops /\ writes < MaxWrites
  /\ acked.write # 0 \/ Members(holder) # {}
  /\ writes' = writes + 1
  /\ Set(w, [Idle EXCEPT !.op = "UPDATE", !.at = "snapshot", !.ver = Larger(version, 0),
                         !.data = writes + 1])
  /\ UNCHANGED <<disk, net, maps, reg, hb, rollbacks, aux, scenario>>

\* A client updates a path it has opened: one that exists, or existed once.
\* propagateUpdateFile takes the version under one lock ...
StartUpdate(w) ==
  /\ job[w] = Idle /\ "UPDATE" \in scenario.ops /\ writes < MaxWrites
  /\ acked.write # 0 \/ Members(holder) # {}
  /\ writes' = writes + 1
  /\ \E clientSeen \in 0 .. writes :
       Set(w, [Idle EXCEPT !.op = "UPDATE", !.at = "snapshot",
                 !.ver = (IF version # -1 THEN version ELSE clientSeen) + 1,
                 !.data = writes + 1])
  /\ UNCHANGED <<disk, net, maps, reg, hb, rollbacks, aux, scenario>>

\* Mutant of SnapshotHolders: the request ends up where nothing continues it.
SnapshotHoldersLost(w) ==
  /\ job[w].op = "UPDATE" /\ job[w].at = "snapshot"
  /\ Set(w, [job[w] EXCEPT !.at = "commit", !.todo = holder])
  /\ UNCHANGED <<disk, net, maps, reg, hb, rollbacks, writes, aux, scenario>>

\* ... and the holders under another.
SnapshotHolders(w) ==
  /\ job[w].op = "UPDATE" /\ job[w].at = "snapshot"
  /\ Set(w, [job[w] EXCEPT !.at = "fanout", !.todo = holder,
                           !.size = Size(holder)])
  /\ UNCHANGED <<disk, net, maps, reg, hb, rollbacks, writes, aux, scenario>>

StartDelete(w) ==
  /\ job[w] = Idle /\ "DELETE" \in scenario.ops
  /\ Set(w, [Idle EXCEPT !.op = "DELETE", !.at = "fanout", !.todo = holder])
  /\ UNCHANGED <<disk, net, maps, reg, hb, rollbacks, writes, aux, scenario>>

\* getFileFromDataNode: the live holders, and the version expected of them.
StartRead(w) ==
  /\ job[w] = Idle /\ "READ" \in scenario.ops /\ Members(Alive(holder)) # {}
  /\ Set(w, [Idle EXCEPT !.op = "READ", !.at = "fanout", !.ver = version,
                         !.todo = Alive(holder)])
  /\ UNCHANGED <<disk, net, maps, reg, hb, rollbacks, writes, aux, scenario>>

\* Mutant of Fanout: a datanode that was called counts as one that answered.
FanoutCountsCalls(w) ==
  LET j == job[w]
      n == First(j.todo)
      k == j.todo[n]
      c == [data |-> j.data, ver |-> j.ver]
  IN /\ j.at = "fanout" /\ j.op \in {"CREATE", "UPDATE"} /\ Members(j.todo) # {}
     /\ Answered(n, k, c) \/ Failed(n, k, Torn(n, c))
     /\ Set(w, [j EXCEPT !.todo = Drop(@, n), !.oks[n] = k])
     /\ UNCHANGED <<gen, maps, reg, hb, rollbacks, writes, aux>>

\* The next datanode of a write's fan-out, in the order of the names: skipped
\* when its session is not alive, else called.
Fanout(w) ==
  LET j == job[w]
      n == First(j.todo)
      k == j.todo[n]
      c == IF j.op = "DELETE" THEN Deleted(n) ELSE [data |-> j.data, ver |-> j.ver]
      rest == [j EXCEPT !.todo = Drop(@, n)]
      called == IF j.op = "DELETE" THEN [rest EXCEPT !.size = @ + 1] ELSE rest
  IN /\ j.at = "fanout" /\ j.op # "READ" /\ Members(j.todo) # {}
     /\ \/ /\ k \in dead[n] /\ Set(w, rest)
           /\ UNCHANGED <<disk, conn, dead, scenario>>
        \/ /\ k \notin dead[n]
           /\ \/ Answered(n, k, c) /\ Set(w, [called EXCEPT !.oks[n] = k])
              \/ /\ Failed(n, k, IF j.op = "DELETE" THEN {disk[n], c} ELSE Torn(n, c))
                 /\ Set(w, called)
     /\ UNCHANGED <<gen, maps, reg, hb, rollbacks, writes, aux>>

FanoutDone(w, op) ==
  job[w].op = op /\ job[w].at = "fanout" /\ Members(job[w].todo) = {}

\* propagateCreateFile after the fan-out.
CommitCreate(w) ==
  LET j == job[w]
  IN /\ FanoutDone(w, "CREATE")
     /\ IF Size(j.oks) < quorum
        THEN /\ rollbacks' = rollbacks \cup {<<n, j.oks[n]>> : n \in Members(j.oks)}
             /\ rejected' = rejected \cup {j.data}
             /\ Set(w, Idle)
             /\ UNCHANGED <<holder, version>>
        ELSE /\ holder' = [n \in Nodes |-> IF j.oks[n] # 0 THEN j.oks[n] ELSE holder[n]]
             /\ version' = j.ver
             /\ Set(w, [j EXCEPT !.at = "persist"])
             /\ UNCHANGED <<rollbacks, rejected>>
     /\ UNCHANGED <<disk, net, endpoint, fileVersion, reg, hb, writes, acked, events,
                    scenario>>

\* propagateUpdateFile after the fan-out: below quorum nothing is undone.
CommitUpdate(w) ==
  LET j == job[w]
  IN /\ FanoutDone(w, "UPDATE")
     /\ IF Size(j.oks) < Smaller(quorum, j.size)
        THEN /\ rejected' = rejected \cup {j.data}
             /\ Set(w, Idle)
             /\ UNCHANGED version
        ELSE /\ version' = j.ver
             /\ Set(w, [j EXCEPT !.at = "persist"])
             /\ UNCHANGED rejected
     /\ UNCHANGED <<disk, net, endpoint, holder, fileVersion, reg, hb, rollbacks,
                    writes, acked, events, scenario>>

\* propagateDeleteFile after the fan-out; the client gets an ACK either way.
CommitDelete(w) ==
  LET j == job[w]
  IN /\ FanoutDone(w, "DELETE")
     /\ IF j.size > 0 /\ Size(j.oks) < Smaller(quorum, j.size)
        THEN Set(w, Idle) /\ UNCHANGED <<holder, version, acked, events>>
        ELSE /\ holder' = None /\ version' = -1 /\ acked' = [acked EXCEPT !.ver = -1]
             /\ Set(w, [j EXCEPT !.at = "persist"])
             /\ Happens("deleted", TRUE)
     /\ UNCHANGED <<disk, net, endpoint, fileVersion, reg, hb, rollbacks, writes,
                    rejected, scenario>>

\* setFileVersion after a create or an update.  After a delete,
\* deleteFileAndVersion finds no such file in the server's own directory.
SetFileVersion(w) ==
  /\ job[w].at = "persist"
  /\ fileVersion' = IF job[w].op = "DELETE" THEN fileVersion ELSE job[w].ver
  /\ Set(w, [job[w] EXCEPT !.at = "save"])
  /\ UNCHANGED <<disk, net, endpoint, holder, version, reg, hb, rollbacks, writes,
                 aux, scenario>>

\* persistState: read the map in memory ...
PersistRead(w) ==
  /\ job[w].at = "save"
  /\ Set(w, [job[w] EXCEPT !.at = "rename", !.snap = version])
  /\ UNCHANGED <<disk, net, maps, reg, hb, rollbacks, writes, aux, scenario>>

\* Mutant of PersistWrite: an empty file is renamed into place.
PersistEmpty(w) ==
  /\ job[w].at = "rename"
  /\ Set(w, [job[w] EXCEPT !.at = "answer"])
  /\ fileVersion' = -1
  /\ UNCHANGED <<disk, net, endpoint, holder, version, reg, hb, rollbacks, writes,
                 aux, scenario>>

\* ... and put what was read into the file.  Two calls share one temporary
\* file: the one that writes it last decides what the file has.
PersistWrite(w) ==
  /\ job[w].at = "rename"
  /\ fileVersion' = job[w].snap
  /\ Set(w, [job[w] EXCEPT !.at = "answer"])
  /\ Happens("stale save", job[w].snap # version)
  /\ UNCHANGED <<disk, net, endpoint, holder, version, reg, hb, rollbacks, writes,
                 acked, rejected, scenario>>

\* The ACK to the client.
Answer(w) ==
  /\ job[w].at = "answer" /\ job[w].op # "READ"
  /\ acked' = IF job[w].op = "DELETE" THEN acked
              ELSE [ver |-> Larger(acked.ver, job[w].ver), write |-> job[w].data]
  /\ Set(w, Idle)
  /\ UNCHANGED <<disk, net, maps, reg, hb, rollbacks, writes, rejected, events,
                 scenario>>

\* A task submitted by a failed create: deleteFile on a node that had stored
\* it.  On a dead session the pool thread that runs it never returns.
Rollback(n, k) ==
  /\ <<n, k>> \in rollbacks
  /\ rollbacks' = rollbacks \ {<<n, k>>}
  /\ \/ k \in dead[n] /\ UNCHANGED <<disk, conn, dead, scenario>>
     \/ Answered(n, k, Deleted(n))
     \/ Failed(n, k, {disk[n], Deleted(n)})
  /\ Happens("late rollback", \E w \in Writers : job[w] # Idle)
  /\ UNCHANGED <<gen, maps, job, reg, hb, writes, acked, rejected>>

\* readFile on a session, which nobody checks again after the snapshot.  For a
\* missing file the datanode answers ACK, no bytes, NACK: the server reads the
\* NACK as a file size and the stream is out of step from then on.
ReadFails(n, k) ==
  \/ Failed(n, k, {disk[n]})
  \/ /\ Usable(n, k) /\ disk[n].data = NoBytes
     /\ conn' = [conn EXCEPT ![n] = "garbled"]
     /\ UNCHANGED <<disk, dead, scenario>>

\* getFileFromDataNode, the next holder.
ReadHolder(w) ==
  LET j == job[w]
      n == First(j.todo)
      k == j.todo[n]
      rest == [j EXCEPT !.todo = Drop(@, n)]
      next == IF Members(rest.todo) = {} THEN Idle ELSE rest
      current == j.ver < 0 \/ RecordedVersion(n) >= j.ver
  IN /\ j.op = "READ" /\ j.at = "fanout"
     /\ \/ /\ k \in dead[n] /\ Set(w, [j EXCEPT !.at = "hung"])
           /\ UNCHANGED <<disk, conn, dead, scenario>>
        \/ /\ Usable(n, k) /\ disk[n].data # NoBytes
           /\ Set(w, IF current THEN [rest EXCEPT !.at = "answer",
                                                  !.data = disk[n].data]
                     ELSE next)
           /\ UNCHANGED <<disk, conn, dead, scenario>>
        \/ ReadFails(n, k) /\ Set(w, next)
     /\ UNCHANGED <<gen, maps, reg, hb, rollbacks, writes, aux>>

\* READ_FILE: the bytes go out with the version known by now.
AnswerRead(w) ==
  /\ job[w].op = "READ" /\ job[w].at = "answer"
  /\ Set(w, Idle)
  /\ UNCHANGED <<disk, net, maps, reg, hb, rollbacks, writes, aux, scenario>>

-----------------------------------------------------------------------------
(* A datanode connects: handleAccept, registerDataNodeFiles, and the rebuild *)
(* of the lock map, which also raises recorded versions.                     *)

\* The datanode's next connection; its previous handshake is over, or its
\* thread will never return from the call it is in.
Connect(n) ==
  /\ conn[n] = "down"
  /\ reg[n] = NoReg \/ (reg[n].at = "sync" /\ gen[n] \in dead[n])
  /\ conn' = [conn EXCEPT ![n] = "up"]
  /\ gen' = [gen EXCEPT ![n] = @ + 1]
  /\ endpoint' = [endpoint EXCEPT ![n] = gen[n] + 1]
  /\ reg' = [reg EXCEPT ![n].at = "sync"]
  /\ UNCHANGED <<disk, dead, holder, version, fileVersion, job, hb, rollbacks,
                 writes, aux, scenario>>

\* syncStatus on the new session, which a call of another thread may have
\* found dead already: then the thread stays in the call.
SyncStatus(n) ==
  LET k == gen[n]
  IN /\ reg[n].at = "sync"
     /\ \/ Answered(n, k, disk[n])
           /\ reg' = [reg EXCEPT ![n] = [at |-> "register", listed |-> Listed(n)]]
        \/ Failed(n, k, {disk[n]})
           /\ reg' = [reg EXCEPT ![n] = [at |-> "register", listed |-> NotListed]]
     /\ UNCHANGED <<gen, maps, job, hb, rollbacks, writes, aux>>

\* Mutant of RegisterDataNodeFiles: the last datanode wins, not the highest
\* version.
RegisterLastWins(n) ==
  LET listed == reg[n].listed
  IN /\ reg[n].at = "register"
     /\ holder' = IF listed = NotListed THEN holder
                  ELSE [holder EXCEPT ![n] = gen[n]]
     /\ version' = IF listed = NotListed THEN version ELSE listed
     /\ fileVersion' = version'
     /\ reg' = [reg EXCEPT ![n] = [at |-> "build", listed |-> NotListed]]
     /\ UNCHANGED <<disk, net, endpoint, job, hb, rollbacks, writes, aux, scenario>>

\* registerDataNodeFiles, under the lock, persistState included.
RegisterDataNodeFiles(n) ==
  LET listed == reg[n].listed
  IN /\ reg[n].at = "register"
     /\ holder' = IF listed = NotListed THEN holder
                  ELSE [holder EXCEPT ![n] = gen[n]]
     /\ version' = IF listed > Larger(version, 0) THEN listed ELSE version
     /\ fileVersion' = version'
     /\ reg' = [reg EXCEPT ![n] = [at |-> "build", listed |-> NotListed]]
     /\ Happens("outdone", \E w \in Writers : Writing(w) /\ listed > job[w].ver)
     /\ UNCHANGED <<disk, net, endpoint, job, hb, rollbacks, writes, acked, rejected,
                    scenario>>

\* buildFileLockMap: query some live datanode ...
BuildFetch(n) ==
  /\ reg[n].at = "build"
  /\ \E m \in Members(Alive(endpoint)) :
       \/ Answered(m, endpoint[m], disk[m])
          /\ reg' = [reg EXCEPT ![n] = [at |-> "merge", listed |-> Listed(m)]]
       \/ Failed(m, endpoint[m], {disk[m]}) /\ UNCHANGED reg
  /\ UNCHANGED <<gen, maps, job, hb, rollbacks, writes, aux>>

\* ... merge its listing, and go on to the next one or stop.
BuildMerge(n) ==
  /\ reg[n].at = "merge"
  /\ fileVersion' = Larger(fileVersion, reg[n].listed)
  /\ reg' = [reg EXCEPT ![n] = [at |-> "build", listed |-> NotListed]]
  /\ UNCHANGED <<disk, net, endpoint, holder, version, job, hb, rollbacks, writes,
                 aux, scenario>>

BuildDone(n) ==
  /\ reg[n].at = "build"
  /\ reg' = [reg EXCEPT ![n] = NoReg]
  /\ UNCHANGED <<disk, net, maps, job, hb, rollbacks, writes, aux, scenario>>

-----------------------------------------------------------------------------
(* The heartbeat thread: sendHeartbeats, eraseFromReplicationMap and         *)
(* rebalanceFileReplication.                                                 *)

HbRest == <<gen, job, reg, rollbacks, writes, acked, rejected>>

HbStart ==
  /\ hb.at = "asleep"
  /\ hb' = [Asleep EXCEPT !.at = "probe", !.todo = endpoint]
  /\ UNCHANGED <<disk, conn, dead, scenario, maps, events, HbRest>>

\* heartbeat() is called on every session, alive or not.
HbProbe ==
  LET n == First(hb.todo)
      k == hb.todo[n]
      rest == [hb EXCEPT !.todo = Drop(@, n)]
  IN /\ hb.at = "probe" /\ Members(hb.todo) # {}
     /\ \/ /\ k \in dead[n] /\ hb' = [Asleep EXCEPT !.at = "hung"]
           /\ UNCHANGED <<disk, conn, dead, scenario>>
        \/ Answered(n, k, disk[n]) /\ hb' = rest
        \/ Failed(n, k, {disk[n]}) /\ hb' = [rest EXCEPT !.lost = @ \cup {n}]
     /\ UNCHANGED <<maps, events, HbRest>>

\* The dead are erased by name, whatever session the name has by now.
HbEvict ==
  /\ hb.at = "probe" /\ Members(hb.todo) = {}
  /\ endpoint' = [n \in Nodes |-> IF n \in hb.lost THEN 0 ELSE endpoint[n]]
  /\ hb' = [hb EXCEPT !.at = "erase"]
  /\ UNCHANGED <<disk, conn, dead, scenario, holder, version, fileVersion, events,
                 HbRest>>

\* eraseFromReplicationMap for the next dead node.  Its session object goes
\* away with its last entry, which closes a connection that was out of step.
EraseFromReplicationMap ==
  /\ hb.at = "erase" /\ hb.lost # {}
  /\ LET n == CHOOSE m \in hb.lost : \A o \in hb.lost : m <= o
         left == Drop(holder, n)
         rebalances == holder[n] # 0 /\ Size(left) < quorum
     IN /\ holder' = left
        /\ conn' = IF conn[n] = "garbled" /\ endpoint[n] = 0
                   THEN [conn EXCEPT ![n] = "down"] ELSE conn
        /\ hb' = [hb EXCEPT !.lost = @ \ {n},
                            !.at = "save",
                            !.map = IF rebalances THEN left ELSE None]
  /\ UNCHANGED <<disk, dead, scenario, endpoint, version, fileVersion, events, HbRest>>

\* persistState, after an erasure or a rebalance.
HbPersistRead ==
  /\ hb.at = "save"
  /\ hb' = [hb EXCEPT !.at = "rename", !.snap = version]
  /\ UNCHANGED <<disk, conn, dead, scenario, maps, events, HbRest>>

HbPersistWrite ==
  /\ hb.at = "rename"
  /\ fileVersion' = hb.snap
  /\ hb' = [hb EXCEPT !.at = IF hb.map = None THEN "erase" ELSE "source",
                      !.snap = -1]
  /\ Happens("stale save", hb.snap # version)
  /\ UNCHANGED <<disk, conn, dead, scenario, endpoint, holder, version, HbRest>>

HbSleep ==
  /\ hb.at = "erase" /\ hb.lost = {}
  /\ hb' = Asleep
  /\ UNCHANGED <<disk, conn, dead, scenario, maps, events, HbRest>>

\* rebalanceFileReplication reads the first remaining holder, whatever
\* version it has, and then picks the live datanodes that are not holders.
RebalanceRead ==
  LET n == First(hb.map)
      k == hb.map[n]
      done == [hb EXCEPT !.at = "erase", !.map = None]
  IN /\ hb.at = "source"
     /\ \/ /\ k \in dead[n] /\ hb' = [Asleep EXCEPT !.at = "hung"]
           /\ UNCHANGED <<disk, conn, dead, scenario>>
        \/ /\ Usable(n, k) /\ disk[n].data # NoBytes
           /\ hb' = [hb EXCEPT !.at = "pick", !.bytes = disk[n].data]
           /\ UNCHANGED <<disk, conn, dead, scenario>>
        \/ ReadFails(n, k) /\ hb' = done
     /\ UNCHANGED <<maps, events, HbRest>>

RebalancePick ==
  /\ hb.at = "pick"
  /\ hb' = [hb EXCEPT !.at = "copy",
              !.todo = [n \in Nodes |-> IF hb.map[n] # 0 THEN 0
                                        ELSE Alive(endpoint)[n]]]
  /\ UNCHANGED <<disk, conn, dead, scenario, maps, events, HbRest>>

\* createFile on the next candidate, with the version the server has on file.
RebalanceCopy ==
  LET n == First(hb.todo)
      k == hb.todo[n]
      c == [data |-> hb.bytes, ver |-> fileVersion]
      rest == [hb EXCEPT !.todo = Drop(@, n)]
      stored == [rest EXCEPT !.map[n] = k]
  IN /\ hb.at = "copy" /\ Members(hb.todo) # {}
     /\ \/ /\ k \in dead[n] /\ hb' = [Asleep EXCEPT !.at = "hung"]
           /\ UNCHANGED <<disk, conn, dead, scenario>>
        \/ /\ Answered(n, k, c)
           /\ hb' = IF Size(stored.map) >= RF
                    THEN [stored EXCEPT !.todo = None] ELSE stored
        \/ Failed(n, k, Torn(n, c)) /\ hb' = rest
     /\ Happens("stale copy", hb.bytes < acked.write \/ \E w \in Writers : Writing(w))
     /\ UNCHANGED <<maps, HbRest>>

RebalanceMerge ==
  /\ hb.at = "copy" /\ Members(hb.todo) = {}
  /\ holder' = [n \in Nodes |-> IF hb.map[n] # 0 THEN hb.map[n] ELSE holder[n]]
  /\ hb' = [hb EXCEPT !.at = "save", !.map = None, !.bytes = NoBytes]
  /\ UNCHANGED <<disk, conn, dead, scenario, endpoint, version, fileVersion, events,
                 HbRest>>

-----------------------------------------------------------------------------
\* The server process ends and starts again: the constructor loads the
\* versions from fileVersions.txt; sessions and holders are gone.  The file
\* has the versions of all paths and setFileVersion truncates it before it
\* writes them back, so a crash there, in a write of any path, empties it.
Restart ==
  /\ scenario.restarts > 0
  /\ scenario' = [scenario EXCEPT !.restarts = @ - 1]
  /\ \/ version' = fileVersion
     \/ CrashInRewrite /\ version' = -1
  /\ fileVersion' = version'
  /\ endpoint' = None /\ holder' = None
  /\ conn' = [n \in Nodes |-> "down"]
  /\ job' = [w \in Writers |-> Idle]
  /\ reg' = [n \in Nodes |-> NoReg]
  /\ hb' = Asleep
  /\ rollbacks' = {}
  /\ Happens("cut write", \E w \in Writers : Writing(w))
  /\ UNCHANGED <<disk, gen, dead, writes, acked, rejected>>

WriterStep(w) ==
  \/ StartCreate(w) \/ StartUpdate(w) \/ StartDelete(w) \/ StartRead(w)
  \/ SnapshotHolders(w) \/ Fanout(w) \/ ReadHolder(w)
  \/ CommitCreate(w) \/ CommitUpdate(w) \/ CommitDelete(w)
  \/ SetFileVersion(w) \/ PersistRead(w) \/ PersistWrite(w) \/ Answer(w)
  \/ AnswerRead(w)

DatanodeStep(n) ==
  \/ BreakLink(n) \/ Connect(n) \/ SyncStatus(n) \/ RegisterDataNodeFiles(n)
  \/ BuildFetch(n) \/ BuildMerge(n) \/ BuildDone(n)

HeartbeatStep ==
  \/ HbStart \/ HbProbe \/ HbEvict \/ EraseFromReplicationMap
  \/ HbPersistRead \/ HbPersistWrite \/ HbSleep
  \/ RebalanceRead \/ RebalancePick \/ RebalanceCopy \/ RebalanceMerge

Next ==
  \/ \E w \in Writers : WriterStep(w)
  \/ \E n \in Nodes : DatanodeStep(n)
  \/ \E r \in rollbacks : Rollback(r[1], r[2])
  \/ HeartbeatStep
  \/ Restart

Spec == Init /\ [][Next]_vars

\* The heartbeat thread keeps looping (server.cpp, heartbeatThread_); nothing
\* is assumed of the others.
FairSpec == Spec /\ WF_vars(HeartbeatStep)

-----------------------------------------------------------------------------
(* Properties. *)

\* A version the server has acknowledged stands: as long as the file is not
\* deleted the server knows a version at least as high, through broken
\* connections, rejoining datanodes, rebalancing and restarts.
AckedVersionStands == version >= acked.ver

\* replication_manager.hpp: persistState does "Persist both state files
\* atomically": the version on file is never older than one that was
\* persisted before its ACK.
PersistedVersionStands == fileVersion >= acked.ver

\* What remains of it: only a save that was overtaken between its read of the
\* map and its rename takes the version on file below an acknowledged one.
PersistedUnlessOvertaken ==
  "stale save" \notin events => fileVersion >= acked.ver

\* README.md, Versioning: "Every file carries a monotonically increasing
\* integer version counter": while the server runs, the version it knows of an
\* existing file never goes down.
VersionNeverDecreases ==
  [][version' # -1 /\ scenario'.restarts = scenario.restarts
     => version' >= version]_vars

\* What remains of it with one request at a time: the version goes down only
\* when a datanode that was away registers one that is higher than the version
\* a write under way has taken, and that write then commits.
VersionUnlessOutdone ==
  [][/\ version' # -1 /\ scenario'.restarts = scenario.restarts
     /\ "outdone" \notin events
     => version' >= version]_vars

\* README.md, Server Thread Architecture: the heartbeat thread "pings all
\* datanodes, evicts dead ones": a session that was found dead does not stay in
\* dataNodeEndpointMap_ for ever.
DeadAreEvicted ==
  \A n \in Nodes : endpoint[n] \in dead[n] ~> endpoint[n] \notin dead[n]

\* The step in which an update turns from sent to committed.
Commits(w) == job[w].at = "fanout" /\ job'[w].at = "persist"

\* README.md, Versioning: "The server increments the version on every
\* committed write": no two committed updates get the same version.
UpdateIncrementsVersion ==
  [][\A w \in Writers : Commits(w) /\ job[w].op = "UPDATE"
       => version' > version]_vars

\* README.md, Write Path: "a committed version is guaranteed to be present on
\* a majority of datanodes before the client is told it succeeded".
CommittedOnMajority ==
  [][\A w \in Writers : Commits(w) /\ job[w].op # "DELETE"
       => Cardinality({n \in Nodes : disk[n].data = job[w].data}) >= quorum]_vars

\* What remains of it: an update of a file that has a quorum of holders, and
\* every create, is on a quorum of datanodes when it is committed, unless the
\* rollback of an earlier create or a rebalance ran meanwhile.
CommittedOnQuorum ==
  [][\A w \in Writers : /\ Commits(w) /\ job[w].op # "DELETE"
                        /\ job[w].op = "UPDATE" => job[w].size >= quorum
                        /\ events \cap {"late rollback", "stale copy"} = {}
       => Cardinality({n \in Nodes : disk[n].data = job[w].data}) >= quorum]_vars

\* README.md, Write Path: "If fewer than quorum datanodes ACK, the write is
\* rolled back and the client receives a NACK": READ_FILE never answers with
\* the bytes of a write its client was told had failed.
RejectedBytesUnread ==
  \A w \in Writers : job[w].op = "READ" /\ job[w].at = "answer"
    => job[w].data \notin rejected

\* README.md, Versioning: "Version numbers are used for [...] read-quorum
\* staleness detection": a holder's copy that getFileFromDataNode would accept
\* as current is no older than the last write that was acknowledged.  (A torn
\* copy is not counted as older: it is accepted only until the write that tore
\* it commits.)
AcceptedCopiesAreFresh ==
  \A n \in Members(holder) :
    /\ Usable(n, holder[n]) /\ disk[n].data # NoBytes
    /\ version >= 0 /\ RecordedVersion(n) >= version
    => disk[n].data >= acked.write

\* What remains of it: as long as no write was rejected or cut off by a restart,
\* no rebalance and no save was overtaken by a write and the file was not
\* deleted, every copy accepted as current has the bytes of the last
\* acknowledged write, through evictions, rebalancing, restarts and datanodes
\* that come back with old copies.
FreshUnlessOverlapped ==
  rejected = {} /\ events = {} => AcceptedCopiesAreFresh
=============================================================================
