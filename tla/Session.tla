------------------------------- MODULE Session -------------------------------
(***************************************************************************)
(* One connection between a client and the server: two ConnectionSession  *)
(* objects, each with a worker thread that drains a task queue and reads   *)
(* frames, the server's pool thread that answers a request, and the        *)
(* threads that post pushes for other clients' changes.                    *)
(*                                                                         *)
(* The wire is a FIFO of items in each direction.  An item is a frame (a   *)
(* request, "response", "map", "push", "del", "rel") or raw bytes          *)
(* ("bytes", and "junk": the rest of a frame whose first eight bytes were  *)
(* read as a file size).  Frames carry no correlation id in the code; the  *)
(* id of an item is the call it belongs to and is never read by a guard.   *)
(*                                                                         *)
(* Operations: "REQUEST" has one answer (ACQUIRE_LOCK, RELEASE_LOCK,       *)
(* DELETE_FILE, HEARTBEAT), "READ" an ACK, bytes and a result, "UPDATE"    *)
(* (also CREATE_FILE) an ACK, bytes from the client and a result, "SYNC"   *)
(* a version map, "CLOSE" ends the connection.                             *)
(***************************************************************************)
EXTENDS Integers, Sequences

CONSTANTS
    MaxCalls,    \* bound: calls of the client on this connection
    MaxPushes,   \* bound: tasks posted by other threads
    PushKinds    \* the tasks they post: a subset of {"push", "del", "rel"}

ASSUME SessionAssumption ==
    /\ MaxCalls \in Nat
    /\ MaxPushes \in Nat
    /\ PushKinds \subseteq {"push", "del", "rel"}

VARIABLES
    call,       \* the client's call: id, op, and what its worker waits for
    acked,      \* calls that returned an ACK to the client's caller
    disturbed,  \* history: pushes taken for an answer, requests taken for one
    cAlive,     \* isAlive() of the client's session
    closed,     \* the client has closed the socket
    toServer,   \* items on their way to the server
    toClient,   \* items on their way to the client
    queue,      \* tasks_ of the server's session
    worker,     \* the server session's worker: where it is, and for which call
    sAlive,     \* isAlive() of the server's session
    suspended,  \* readSuspended_
    handlers,   \* requests being handled by pool threads
    done,       \* requests the server carried out
    stored,     \* pairs: update, and the update its stored bytes belong to
    pushes      \* tasks posted so far

clientVars == <<call, acked, disturbed, cAlive, closed>>
serverVars == <<queue, worker, sAlive, suspended, handlers, done, stored, pushes>>
vars == <<clientVars, toServer, toClient, serverVars>>

Ops == {"REQUEST", "READ", "UPDATE", "SYNC", "CLOSE"}
Raw == {"bytes", "junk"}
Item(k, id, ok) == [k |-> k, id |-> id, ok |-> ok]
NoId == 0

IsAck(i) == i.k = "response" /\ i.ok

\* The history of answers that were none: a push or lease notice a call took,
\* or a request the server's worker took.
TakenForAnswer(i) == IF i.k \in {"push", "del", "rel"} \cup Ops THEN {i.k} ELSE {}

\* What is left of an item whose first eight bytes were taken for a size.
AfterSize(s) == <<Item("junk", Head(s).id, FALSE)>> \o Tail(s)

Init ==
    /\ call = [id |-> NoId, op |-> "REQUEST", at |-> "idle"]
    /\ acked = {} /\ disturbed = {} /\ cAlive = TRUE /\ closed = FALSE
    /\ toServer = <<>> /\ toClient = <<>>
    /\ queue = <<>> /\ worker = [at |-> "loop", id |-> NoId]
    /\ sAlive = TRUE /\ suspended = FALSE
    /\ handlers = {} /\ done = {} /\ stored = {} /\ pushes = 0

-----------------------------------------------------------------------------
(* The client.                                                             *)

\* A file operation of the caller: the session is alive, the task is queued.
Call(op) ==
    /\ call.at = "idle" /\ cAlive /\ call.id < MaxCalls
    /\ call' = [id |-> call.id + 1, op |-> op, at |-> "queued"]
    /\ UNCHANGED <<acked, disturbed, cAlive, closed, toServer, toClient, serverVars>>

\* What the call waits for once its request is sent.
FirstWait(op) == IF op \in {"READ", "UPDATE"} THEN "ack" ELSE "result"

\* The worker takes the call from its queue and sends the request.
SendRequest ==
    /\ call.at = "queued" /\ cAlive /\ call.op # "CLOSE"
    /\ call' = [call EXCEPT !.at = FirstWait(call.op)]
    /\ toServer' = Append(toServer, Item(call.op, call.id, TRUE))
    /\ UNCHANGED <<acked, disturbed, cAlive, closed, toClient, serverVars>>

\* closeConn sends CLOSE and closes the channel without waiting.
SendClose ==
    /\ call.at = "queued" /\ cAlive /\ call.op = "CLOSE"
    /\ call' = [call EXCEPT !.at = "idle"]
    /\ toServer' = Append(toServer, Item(call.op, call.id, TRUE))
    /\ cAlive' = FALSE /\ closed' = TRUE
    /\ UNCHANGED <<acked, disturbed, toClient, serverVars>>

Executing == call.at \in {"ack", "data", "result"}

Return(ok) ==
    /\ call' = [call EXCEPT !.at = "idle"]
    /\ acked' = IF ok THEN acked \cup {call.id} ELSE acked

\* Raw bytes where a frame is due have no magic: the session is dead.
TakeBadFrame ==
    /\ Executing /\ call.at # "data" /\ cAlive
    /\ toClient # <<>> /\ Head(toClient).k \in Raw
    /\ cAlive' = FALSE
    /\ Return(FALSE)
    /\ toClient' = Tail(toClient)
    /\ UNCHANGED <<disturbed, closed, toServer, serverVars>>

\* waitForAck: anything but an ACK ends the call; after it an update sends its
\* bytes and a read receives them.
TakeAck ==
    /\ call.at = "ack" /\ cAlive /\ toClient # <<>> /\ Head(toClient).k \notin Raw
    /\ toClient' = Tail(toClient)
    /\ disturbed' = disturbed \cup TakenForAnswer(Head(toClient))
    /\ \/ /\ ~IsAck(Head(toClient))
          /\ Return(FALSE)
          /\ UNCHANGED toServer
       \/ /\ IsAck(Head(toClient)) /\ call.op = "READ"
          /\ call' = [call EXCEPT !.at = "data"]
          /\ UNCHANGED <<acked, toServer>>
       \/ /\ IsAck(Head(toClient)) /\ call.op = "UPDATE"
          /\ call' = [call EXCEPT !.at = "result"]
          /\ toServer' = Append(toServer, Item("bytes", call.id, TRUE))
          /\ UNCHANGED acked
    /\ UNCHANGED <<cAlive, closed, serverVars>>

\* receiveFile: a frame in place of the bytes is a size out of range.
TakeData ==
    /\ call.at = "data" /\ cAlive /\ toClient # <<>>
    /\ \/ /\ Head(toClient).k = "bytes"
          /\ call' = [call EXCEPT !.at = "result"]
          /\ toClient' = Tail(toClient)
          /\ UNCHANGED acked
       \/ /\ Head(toClient).k # "bytes"
          /\ Return(FALSE)
          /\ toClient' = AfterSize(toClient)
    /\ UNCHANGED <<disturbed, cAlive, closed, toServer, serverVars>>

\* The frame that ends a call is returned whatever it is.
TakeResult ==
    /\ call.at = "result" /\ call.op # "SYNC" /\ cAlive
    /\ toClient # <<>> /\ Head(toClient).k \notin Raw
    /\ toClient' = Tail(toClient)
    /\ disturbed' = disturbed \cup TakenForAnswer(Head(toClient))
    /\ Return(IsAck(Head(toClient)))
    /\ UNCHANGED <<cAlive, closed, toServer, serverVars>>

\* A push with its bytes, or a frame without bytes, is consumed whole.
DropPush == toClient' = SubSeq(toClient, IF Head(toClient).k = "push" THEN 3 ELSE 2, Len(toClient))

\* syncStatus discards pushes until a response comes; a lock notice kills it.
TakeSync ==
    /\ call.at = "result" /\ call.op = "SYNC" /\ cAlive
    /\ toClient # <<>> /\ Head(toClient).k \notin Raw
    /\ DropPush
    /\ \/ /\ Head(toClient).k \in {"push", "del"}
          /\ UNCHANGED <<call, acked, cAlive>>
       \/ /\ Head(toClient).k \in {"response", "map"}
          /\ Return(FALSE)
          /\ UNCHANGED cAlive
       \/ /\ Head(toClient).k = "rel"
          /\ cAlive' = FALSE
          /\ Return(FALSE)
    /\ UNCHANGED <<disturbed, closed, toServer, serverVars>>

\* The read loop between calls: pushes go to handlePush, a stray response is
\* logged, raw bytes end the session.
ReadLoop ==
    /\ call.at \in {"idle", "queued"} /\ cAlive /\ toClient # <<>>
    /\ \/ /\ Head(toClient).k \notin Raw
          /\ DropPush
          /\ UNCHANGED cAlive
       \/ /\ Head(toClient).k \in Raw
          /\ cAlive' = FALSE
          /\ toClient' = Tail(toClient)
    /\ UNCHANGED <<call, acked, disturbed, closed, toServer, serverVars>>

\* Mutant: a frame that does not come in time only fails the call.
TimeoutStaysAlive ==
    /\ Executing /\ cAlive /\ toClient = <<>>
    /\ Return(FALSE)
    /\ UNCHANGED <<disturbed, cAlive, closed, toServer, toClient, serverVars>>

\* Mutant: the last answer of a call is awaited without a timeout.
TimeoutNotForResults ==
    /\ Executing /\ call.at # "result" /\ cAlive /\ toClient = <<>>
    /\ Return(FALSE)
    /\ cAlive' = (call.at = "data")
    /\ UNCHANGED <<disturbed, closed, toServer, toClient, serverVars>>

\* SO_RCVTIMEO: a frame that does not come kills the session, missing file
\* bytes only fail the call.
Timeout ==
    /\ Executing /\ cAlive /\ toClient = <<>>
    /\ Return(FALSE)
    /\ cAlive' = (call.at = "data")
    /\ UNCHANGED <<disturbed, closed, toServer, toClient, serverVars>>

\* reconnect() stops the dead session, which closes the socket.
HangUp ==
    /\ ~cAlive /\ ~closed
    /\ closed' = TRUE
    /\ UNCHANGED <<call, acked, disturbed, cAlive, toServer, toClient, serverVars>>

ClientStep == SendRequest \/ SendClose \/ TakeBadFrame \/ TakeAck \/ TakeData
              \/ TakeResult \/ TakeSync \/ ReadLoop \/ Timeout

-----------------------------------------------------------------------------
(* The server.                                                             *)

\* Sending to a closed socket is lost, and may be noticed.
Send(items) ==
    \/ /\ ~closed
       /\ toClient' = toClient \o items
       /\ UNCHANGED sAlive
    \/ /\ closed
       /\ sAlive' \in {sAlive, FALSE}
       /\ UNCHANGED toClient

\* The handler's call() returns: its next step may start.
Completed(id, ok) ==
    handlers' = {IF h.id = id THEN [h EXCEPT !.waiting = FALSE, !.todo = Tail(@), !.ok = ok] ELSE h :
                    h \in handlers}

\* The steps a request needs: the calls of handleClientRequest on the session.
Programs(op) ==
    CASE op = "READ"   -> {<<"ack", "bytes", "result">>, <<"nack">>}
      [] op = "UPDATE" -> {<<"recv", "result">>}
      [] op = "SYNC"   -> {<<"map">>}
      [] OTHER         -> {<<"result">>}

\* Mutant: the read loop does not suspend itself.
ReadRequestNoSuspend ==
    /\ worker.at = "loop" /\ sAlive /\ toServer # <<>>
    /\ toServer' = Tail(toServer)
    /\ Head(toServer).k \in Ops
    /\ \E todo \in Programs(Head(toServer).k) :
          handlers' = handlers \cup
              {[id |-> Head(toServer).id, op |-> Head(toServer).k, todo |-> todo,
                waiting |-> FALSE, ok |-> TRUE]}
    /\ UNCHANGED <<clientVars, toClient, queue, worker, sAlive, suspended, done, stored, pushes>>

\* The read loop gives a request to the pool and suspends itself.
ReadRequest ==
    /\ worker.at = "loop" /\ sAlive /\ ~suspended /\ toServer # <<>>
    /\ toServer' = Tail(toServer)
    /\ \/ /\ Head(toServer).k \in Ops
          /\ suspended' = TRUE
          /\ \E todo \in Programs(Head(toServer).k) :
                handlers' = handlers \cup
                    {[id |-> Head(toServer).id, op |-> Head(toServer).k, todo |-> todo,
                      waiting |-> FALSE, ok |-> TRUE]}
          /\ UNCHANGED sAlive
       \/ /\ Head(toServer).k \in Raw
          /\ sAlive' = FALSE
          /\ UNCHANGED <<suspended, handlers>>
    /\ UNCHANGED <<clientVars, toClient, queue, worker, done, stored, pushes>>

\* The task a step submits with call(), and whether the request is carried out
\* with it: the operation runs before its result is sent.
Tasks(h) ==
    CASE Head(h.todo) = "ack"    -> {Item("response", h.id, TRUE)}
      [] Head(h.todo) = "nack"   -> {Item("response", h.id, FALSE)}
      [] Head(h.todo) = "result" -> {Item("response", h.id, ok) : ok \in {FALSE, h.ok}}
      [] OTHER                   -> {Item(Head(h.todo), h.id, TRUE)}

HandlerCall(h) ==
    /\ ~h.waiting /\ h.todo # <<>>
    /\ handlers' = (handlers \ {h}) \cup {[h EXCEPT !.waiting = TRUE]}
    /\ \E task \in Tasks(h) :
          /\ queue' = Append(queue, task)
          /\ done' = IF Head(h.todo) = "result" /\ task.ok THEN done \cup {h.id} ELSE done
    /\ UNCHANGED <<clientVars, toServer, toClient, worker, sAlive, suspended, stored, pushes>>

\* The handler returns and reads resume; CLOSE marks the session dead first.
HandlerDone(h) ==
    /\ ~h.waiting /\ h.todo = <<>>
    /\ handlers' = handlers \ {h}
    /\ suspended' = FALSE
    /\ sAlive' = (sAlive /\ h.op # "CLOSE")
    /\ UNCHANGED <<clientVars, toServer, toClient, queue, worker, done, stored, pushes>>

\* pushCreateFile, pushUpdateFile, pushDeleteFile, and the lock manager's
\* notice of an expired lease, posted by other threads at any time.
Post(kind) ==
    /\ pushes < MaxPushes
    /\ pushes' = pushes + 1
    /\ queue' = Append(queue, Item(kind, NoId, TRUE))
    /\ UNCHANGED <<clientVars, toServer, toClient, worker, sAlive, suspended, handlers, done, stored>>

\* drainQueue runs one task.  The task of an update sends the ACK and stays to
\* receive the bytes; the lease notice stays to receive an answer.
RunTask ==
    /\ worker.at = "loop" /\ queue # <<>>
    /\ queue' = Tail(queue)
    /\ LET task == Head(queue) IN
       \/ /\ task.k \in {"response", "map", "bytes"}
          /\ Send(<<task>>)
          /\ Completed(task.id, TRUE)
          /\ UNCHANGED worker
       \/ /\ task.k = "recv"
          /\ Send(<<Item("response", task.id, TRUE)>>)
          /\ worker' = [at |-> "recv", id |-> task.id]
          /\ UNCHANGED handlers
       \/ /\ task.k = "push"
          /\ Send(<<task, Item("bytes", NoId, TRUE)>>)
          /\ UNCHANGED <<handlers, worker>>
       \/ /\ task.k = "del"
          /\ Send(<<task>>)
          /\ UNCHANGED <<handlers, worker>>
       \/ /\ task.k = "rel"
          /\ Send(<<task>>)
          /\ worker' = [at |-> "wait", id |-> NoId]
          /\ UNCHANGED handlers
    /\ UNCHANGED <<clientVars, toServer, suspended, done, stored, pushes>>

\* Mutant: a frame in place of the bytes is skipped.
ReceiveBytesSkipsFrames ==
    /\ worker.at = "recv" /\ toServer # <<>>
    /\ toServer' = Tail(toServer)
    /\ \/ /\ Head(toServer).k = "bytes"
          /\ worker' = [at |-> "loop", id |-> NoId]
          /\ stored' = stored \cup {<<worker.id, Head(toServer).id>>}
          /\ Completed(worker.id, TRUE)
       \/ /\ Head(toServer).k # "bytes"
          /\ UNCHANGED <<worker, stored, handlers>>
    /\ UNCHANGED <<clientVars, toClient, queue, sAlive, suspended, done, pushes>>

\* receiveFileData inside the task of an update.
ReceiveBytes ==
    /\ worker.at = "recv"
    /\ worker' = [at |-> "loop", id |-> NoId]
    /\ \/ /\ toServer # <<>> /\ Head(toServer).k = "bytes"
          /\ stored' = stored \cup {<<worker.id, Head(toServer).id>>}
          /\ toServer' = Tail(toServer)
          /\ Completed(worker.id, TRUE)
       \/ /\ toServer # <<>> /\ Head(toServer).k # "bytes"
          /\ toServer' = AfterSize(toServer)
          /\ Completed(worker.id, FALSE)
          /\ UNCHANGED stored
       \/ /\ toServer = <<>> /\ closed
          /\ Completed(worker.id, FALSE)
          /\ UNCHANGED <<toServer, stored>>
    /\ UNCHANGED <<clientVars, toClient, queue, sAlive, suspended, done, pushes>>

\* releaseLock on the worker: the next frame, whatever it is, is the answer.
ReceiveAnswer ==
    /\ worker.at = "wait"
    /\ worker' = [at |-> "loop", id |-> NoId]
    /\ \/ /\ toServer # <<>>
          /\ toServer' = Tail(toServer)
          /\ sAlive' = (sAlive /\ Head(toServer).k \notin Raw)
          /\ disturbed' = disturbed \cup TakenForAnswer(Head(toServer))
       \/ /\ toServer = <<>> /\ closed
          /\ sAlive' = FALSE
          /\ UNCHANGED <<toServer, disturbed>>
    /\ UNCHANGED <<call, acked, cAlive, closed, toClient, queue, suspended, handlers, done, stored, pushes>>

\* The read loop finds the socket closed.
ReadEnd ==
    /\ worker.at = "loop" /\ sAlive /\ ~suspended /\ toServer = <<>> /\ closed
    /\ sAlive' = FALSE
    /\ UNCHANGED <<clientVars, toServer, toClient, queue, worker, suspended, handlers, done, stored, pushes>>

\* The worker leaves its loop; what is queued stays queued.
WorkerExit ==
    /\ worker.at = "loop" /\ ~sAlive
    /\ worker' = [at |-> "exited", id |-> NoId]
    /\ UNCHANGED <<clientVars, toServer, toClient, queue, sAlive, suspended, handlers, done, stored, pushes>>

ServerStep == ReadRequest \/ RunTask \/ ReceiveBytes \/ ReceiveAnswer \/ ReadEnd \/ WorkerExit

HandlerStep == \E h \in handlers : HandlerCall(h) \/ HandlerDone(h)

Next ==
    \/ \E op \in Ops : Call(op)
    \/ SendRequest \/ SendClose \/ TakeBadFrame \/ TakeAck \/ TakeData
    \/ TakeResult \/ TakeSync \/ ReadLoop \/ Timeout \/ HangUp
    \/ ReadRequest \/ RunTask \/ ReceiveBytes \/ ReceiveAnswer \/ ReadEnd \/ WorkerExit
    \/ \E h \in handlers : HandlerCall(h) \/ HandlerDone(h)
    \/ \E kind \in PushKinds : Post(kind)

Spec == Init /\ [][Next]_vars

\* Worker and pool threads are scheduled; receives on the client's socket time
\* out.  Callers, other clients and reconnection owe nothing.
Fairness == WF_vars(ClientStep) /\ WF_vars(ServerStep) /\ WF_vars(HandlerStep)

FairSpec == Spec /\ Fairness

-----------------------------------------------------------------------------
\* A session has at most one request in the pool, and its reads are suspended
\* for as long (suspendReads and resumeReads around handleClientRequest).
OneHandlerAtATime ==
    /\ \A g, h \in handlers : g = h
    /\ handlers # {} => suspended

\* The bytes the server takes for an update are the ones the client sent for
\* it, even after calls that took pushes for their answers (receiveFileData
\* right behind the ACK, in one task): the one thing that shifts them is a
\* request that the worker takes for the answer to a lease notice.
StoredBytesAreOwn == disturbed \cap Ops = {} => \A p \in stored : p[1] = p[2]

\* As long as no call took a push or a notice for its answer, an ACK returned
\* to the caller is the ACK of an operation the server carried out: refused
\* transfers, timeouts, swallowed requests and dead sessions never shift the
\* answers by one.
AcksAreOwnUndisturbed == disturbed \subseteq Ops => acked \subseteq done

\* "the client's read loop can classify every incoming frame by opcode alone
\* without ambiguity" (README): an ACK returned to the caller means that the
\* server carried out that operation.
AcksAreOwn == acked \subseteq done

\* A call that the client's worker has begun returns (the receive timeout of
\* the client's socket bounds every wait inside it).
BegunCallReturns == Executing ~> ~Executing

=============================================================================
