---------------------------- MODULE SessionProofs ----------------------------
(***************************************************************************)
(* What Session promises, for any number of calls and of pushes: one       *)
(* request at a time in the pool, the bytes of an update are its own, and  *)
(* an ACK is the ACK of the operation it is returned for as long as no     *)
(* call took a push for its answer.  Below it, the frames of a connection: *)
(* SeqChannel's sequence numbers deliver each once and in order.           *)
(***************************************************************************)
EXTENDS Session, SeqChannel, TLAPS

-----------------------------------------------------------------------------
(* Types.                                                                  *)

Ids == Nat \ {NoId}

\* What a handler may still have to do.
Rest(op) ==
    CASE op = "READ"   -> {<<"ack", "bytes", "result">>, <<"bytes", "result">>,
                           <<"result">>, <<"nack">>, <<>>}
      [] op = "UPDATE" -> {<<"recv", "result">>, <<"result">>, <<>>}
      [] op = "SYNC"   -> {<<"map">>, <<>>}
      [] OTHER         -> {<<"result">>, <<>>}

Todos == {<<"ack", "bytes", "result">>, <<"bytes", "result">>, <<"result">>,
          <<"nack">>, <<"recv", "result">>, <<"map">>, <<>>}

Notices == {"push", "del", "rel"}
Answers == {"response", "map"}

\* The tasks of a handler.
OwnTasks == {"response", "map", "bytes", "recv"}

Handler == [id: Ids, op: Ops, todo: Todos, waiting: BOOLEAN, ok: BOOLEAN]
ServerItem == [k: Ops \cup Raw, id: Ids, ok: BOOLEAN]
ClientItem == [k: Answers \cup Notices \cup Raw, id: Nat, ok: BOOLEAN]
Task == [k: OwnTasks \cup Notices, id: Nat, ok: BOOLEAN]

CallTyped ==
    /\ call \in [id: Nat, op: Ops, at: {"idle", "queued", "ack", "data", "result"}]
    /\ call.at # "idle" => call.id # NoId
    /\ acked \subseteq Nat /\ disturbed \subseteq Notices \cup Ops
    /\ cAlive \in BOOLEAN /\ closed \in BOOLEAN
    /\ closed => ~cAlive

WireTyped == toServer \in Seq(ServerItem) /\ toClient \in Seq(ClientItem)

PoolTyped ==
    /\ queue \in Seq(Task)
    /\ worker \in [at: {"loop", "recv", "wait", "exited"}, id: Nat]
    /\ sAlive \in BOOLEAN /\ suspended \in BOOLEAN
    /\ handlers \subseteq Handler
    /\ \A h \in handlers : h.todo \in Rest(h.op)
    /\ done \subseteq Nat /\ stored \subseteq Nat \X Nat

Typed == CallTyped /\ WireTyped /\ PoolTyped

-----------------------------------------------------------------------------
(* The pool: the one handler, and its one task.                            *)

Single ==
    /\ \A g \in handlers, h \in handlers : g = h
    /\ handlers # {} => suspended

\* Task t is the one handler h waits for.
TaskOf(t, h) ==
    /\ h.waiting /\ h.todo # <<>> /\ t.id = h.id
    /\ t.k = "recv" <=> h.todo = <<"recv", "result">>
    /\ t.k = "bytes" <=> h.todo = <<"bytes", "result">>
    /\ h.todo = <<"ack", "bytes", "result">> => t.ok
    /\ h.todo = <<"nack">> => ~t.ok
    /\ t.k = "map" <=> h.todo = <<"map">>

QueueInv ==
    /\ \A i \in 1 .. Len(queue) : queue[i].k \in OwnTasks =>
          /\ worker.at # "recv"
          /\ \E h \in handlers :
                TaskOf(queue[i], h) /\ (h.todo = <<"result">> /\ queue[i].ok => h.id \in done)
          /\ \A j \in 1 .. Len(queue) : queue[j].k \in OwnTasks => j = i
    /\ \A i \in 1 .. Len(queue) : queue[i].k \in Notices => queue[i].id = NoId
    /\ worker.at = "recv" =>
          \E h \in handlers : h.waiting /\ h.id = worker.id /\ h.todo = <<"recv", "result">>

-----------------------------------------------------------------------------
(* The bytes of updates.                                                   *)

Receiving(h) == h.todo = <<"recv", "result">>

\* The bytes of an update are right behind its request, or what is left of it;
\* junk is only at the front.
Ordered(s) ==
    \A i \in 2 .. Len(s) :
       /\ s[i].k # "junk"
       /\ s[i].k = "bytes" => s[i - 1].k \in {"UPDATE", "junk"} /\ s[i - 1].id = s[i].id

\* While there is junk in front nobody waits for bytes; the request of a call
\* that waits for its ACK is the last thing sent.
StreamInv ==
    /\ Ordered(toServer)
    /\ toServer # <<>> /\ toServer[1].k = "junk" => \A h \in handlers : ~Receiving(h)
    /\ call.at = "ack" =>
          /\ call.op \in {"READ", "UPDATE"}
          /\ toServer # <<>> => /\ toServer[Len(toServer)].id = call.id
                                /\ toServer[Len(toServer)].k \in {call.op, "junk"}

\* A handler that waits for bytes finds its own in front, or some other call's
\* request, or nothing yet.
BytesInv ==
    disturbed \cap Ops = {} =>
       /\ \A h \in handlers : Receiving(h) =>
             /\ toServer # <<>> /\ toServer[1].k = "bytes" => toServer[1].id = h.id
             /\ call.at = "ack" /\ toServer = <<>> => h.id = call.id
       /\ \A p \in stored : p[1] = p[2]

-----------------------------------------------------------------------------
(* The answers.                                                            *)

\* Item i is an answer, or bytes, to a call.
Mine(i) == toClient[i].id # NoId

NothingMine == \A i \in 1 .. Len(toClient) : ~Mine(i)

FirstMine(i) == Mine(i) /\ \A j \in 1 .. i - 1 : ~Mine(j)

Finished == \A h \in handlers : h.todo = <<>>

\* Nothing of the call comes after item i.
Final(i) == Finished /\ \A j \in i + 1 .. Len(toClient) : ~Mine(j)

\* The bytes of a read come next for the call, as far as they are sent.
BytesNext(from) ==
    \/ \E i \in from .. Len(toClient) :
          /\ Mine(i) /\ toClient[i].k = "bytes"
          /\ \A j \in from .. i - 1 : ~Mine(j)
    \/ /\ \A i \in from .. Len(toClient) : ~Mine(i)
       /\ \E h \in handlers : h.todo = <<"bytes", "result">>

\* A read gave up on its bytes and they are still to come: they will end the
\* session before any answer behind them is read.
Late == call.at # "data" /\ BytesNext(1)

\* Item i ends the call, and an ACK says that it was carried out.
IsResult(i) == Final(i) /\ (IsAck(toClient[i]) => call.id \in done)

Pending ==
    /\ \A i \in 1 .. Len(toClient) : Mine(i) => toClient[i].id = call.id
    /\ \A h \in handlers : h.todo # <<>> =>
          h.id = call.id /\ h.op = call.op /\ Executing
    /\ \A i \in 1 .. Len(toServer) :
          /\ toServer[i].k # "junk"
          /\ toServer[i].k \in Ops =>
                /\ toServer[i].id = call.id /\ toServer[i].k = call.op
                /\ call.at = FirstWait(call.op)
                /\ Finished /\ NothingMine /\ Len(toServer) = 1
          /\ toServer[i].k = "bytes" =>
                /\ call.at = "result" /\ call.op = "UPDATE" /\ worker.at = "recv"
                /\ Len(toServer) = 1

AtRest == call.at \in {"idle", "queued"} => Finished /\ NothingMine

AtAck ==
    /\ call.at = "ack" /\ call.op = "UPDATE" =>
          /\ \A h \in handlers : h.todo # <<>> => Receiving(h)
          /\ \A i \in 1 .. Len(toClient) : Mine(i) =>
                /\ worker.at = "recv" /\ toClient[i].k = "response" /\ toClient[i].ok
                /\ \A j \in 1 .. Len(toClient) : Mine(j) => j = i
    /\ call.at = "ack" /\ call.op = "READ" =>
          /\ \A h \in handlers :
                /\ h.todo \in {<<"ack", "bytes", "result">>, <<"nack">>} => NothingMine
                /\ h.todo = <<"result">> => ~NothingMine
          /\ \A i \in 1 .. Len(toClient) : Mine(i) /\ toClient[i].k \in Answers =>
                IF FirstMine(i) /\ toClient[i].ok THEN BytesNext(i + 1) ELSE IsResult(i)

AtData ==
    call.at = "data" =>
        /\ call.op = "READ" /\ BytesNext(1)
        /\ \A h \in handlers : h.todo \notin {<<"ack", "bytes", "result">>, <<"nack">>}
        /\ \A i \in 1 .. Len(toClient) : Mine(i) /\ toClient[i].k \in Answers => IsResult(i)

AtResult ==
    call.at = "result" =>
        /\ \A h \in handlers :
              /\ h.todo # <<"ack", "bytes", "result">>
              /\ Receiving(h) /\ call.op = "UPDATE" => worker.at = "recv"
        /\ \A i \in 1 .. Len(toClient) : Mine(i) /\ toClient[i].k \in Answers => IsResult(i)

InStep == Pending /\ AtRest /\ AtAck /\ AtData /\ AtResult

Sound ==
    /\ cAlive /\ disturbed \subseteq Ops
    /\ toClient # <<>> => toClient[1].k # "junk"

\* A push has its bytes behind it, notices belong to no call and answers to
\* one; junk is only at the front.
WireOK(s) ==
    \A i \in 1 .. Len(s) :
       /\ s[i].k = "push" => i < Len(s) /\ s[i + 1].id = NoId
       /\ s[i].k \in Notices => s[i].id = NoId
       /\ s[i].k \in Answers => s[i].id # NoId
       /\ i > 1 => s[i].k # "junk"

WireInv == WireOK(toClient)

AnswerInv ==
    /\ Sound => Late \/ InStep
    /\ disturbed \subseteq Ops => acked \subseteq done

-----------------------------------------------------------------------------
(* Sequences.                                                              *)

\* What is left of a queue, and what its head is.
LEMMA TailFacts ==
    ASSUME NEW S, NEW s \in Seq(S), s # <<>>
    PROVE  /\ Tail(s) \in Seq(S) /\ Len(Tail(s)) = Len(s) - 1 /\ Len(s) \in Nat \ {0}
           /\ \A i \in 1 .. Len(s) - 1 : Tail(s)[i] = s[i + 1]
           /\ Head(s) = s[1] /\ Head(s) \in S
OBVIOUS

\* One item at the end.
LEMMA AppendFacts ==
    ASSUME NEW S, NEW s \in Seq(S), NEW x \in S
    PROVE  /\ Append(s, x) \in Seq(S) /\ Append(s, x) # <<>>
           /\ Len(Append(s, x)) = Len(s) + 1 /\ Len(s) \in Nat
           /\ \A i \in 1 .. Len(s) : Append(s, x)[i] = s[i]
           /\ Append(s, x)[Len(s) + 1] = x
OBVIOUS

\* A frame sent.
LEMMA SendOne ==
    ASSUME NEW S, NEW s \in Seq(S), NEW x \in S
    PROVE  /\ s \o <<x>> \in Seq(S) /\ s \o <<x>> # <<>>
           /\ Len(s \o <<x>>) = Len(s) + 1 /\ Len(s) \in Nat
           /\ \A i \in 1 .. Len(s) : (s \o <<x>>)[i] = s[i]
           /\ (s \o <<x>>)[Len(s) + 1] = x
OBVIOUS

\* A frame and its bytes sent.
LEMMA SendTwo ==
    ASSUME NEW S, NEW s \in Seq(S), NEW x \in S, NEW y \in S
    PROVE  /\ s \o <<x, y>> \in Seq(S) /\ s \o <<x, y>> # <<>>
           /\ Len(s \o <<x, y>>) = Len(s) + 2 /\ Len(s) \in Nat
           /\ \A i \in 1 .. Len(s) : (s \o <<x, y>>)[i] = s[i]
           /\ (s \o <<x, y>>)[Len(s) + 1] = x /\ (s \o <<x, y>>)[Len(s) + 2] = y
OBVIOUS

\* A frame read as a file size.
LEMMA AfterSizeFacts ==
    ASSUME NEW S, NEW s \in Seq(S), s # <<>>, Item("junk", Head(s).id, FALSE) \in S
    PROVE  /\ AfterSize(s) \in Seq(S) /\ AfterSize(s) # <<>>
           /\ Len(AfterSize(s)) = Len(s) /\ Len(s) \in Nat \ {0}
           /\ AfterSize(s)[1] = Item("junk", s[1].id, FALSE)
           /\ \A i \in 2 .. Len(s) : AfterSize(s)[i] = s[i]
<1> DEFINE j == Item("junk", Head(s).id, FALSE)
<1>1. Head(s) = s[1] OBVIOUS
<1>2. j \in S /\ AfterSize(s) = <<j>> \o Tail(s) BY Zenon DEF AfterSize
<1>3. j = Item("junk", s[1].id, FALSE) BY Zenon, <1>1
<1> HIDE DEF j
<1>4. /\ Tail(s) \in Seq(S) /\ Len(Tail(s)) = Len(s) - 1 /\ Len(s) \in Nat \ {0}
      /\ \A i \in 1 .. Len(s) - 1 : Tail(s)[i] = s[i + 1]
    OBVIOUS
<1>5. \A u \in Seq(S) :
          /\ <<j>> \o u \in Seq(S) /\ <<j>> \o u # <<>> /\ Len(<<j>> \o u) = Len(u) + 1
          /\ (<<j>> \o u)[1] = j
          /\ \A i \in 2 .. Len(u) + 1 : (<<j>> \o u)[i] = u[i - 1]
    BY <1>2
<1>6. /\ AfterSize(s) \in Seq(S) /\ AfterSize(s) # <<>>
      /\ Len(AfterSize(s)) = Len(s)
      /\ AfterSize(s)[1] = j
      /\ \A i \in 2 .. Len(s) : AfterSize(s)[i] = Tail(s)[i - 1]
    BY <1>2, <1>4, <1>5
<1> QED BY <1>6, <1>3, <1>4

\* A push and its bytes dropped.
LEMMA DropTwo ==
    ASSUME NEW S, NEW s \in Seq(S), Len(s) >= 2
    PROVE  LET t == SubSeq(s, 3, Len(s))
           IN  /\ t \in Seq(S) /\ Len(t) = Len(s) - 2 /\ Len(s) \in Nat
               /\ \A i \in 1 .. Len(s) - 2 : t[i] = s[i + 2]
<1> DEFINE n == Len(s)
           t == SubSeq(s, 3, n)
<1>1. n \in Int /\ n \in Nat /\ n >= 2 OBVIOUS
<1>2. \A i \in 3 .. n : s[i] \in S OBVIOUS
<1> HIDE DEF n
<1>3. /\ SubSeq(s, 3, n) \in Seq(S)
      /\ Len(SubSeq(s, 3, n)) = IF 3 <= n THEN n - 3 + 1 ELSE 0
      /\ \A i \in 1 .. n - 3 + 1 : SubSeq(s, 3, n)[i] = s[3 + i - 1]
    BY <1>1, <1>2
<1> HIDE DEF t
<1>4. t \in Seq(S) /\ Len(t) = n - 2
    BY <1>1, <1>3 DEF t
<1>5. \A i \in 1 .. n - 2 : t[i] = s[i + 2]
  <2> TAKE i \in 1 .. n - 2
  <2>1. i \in 1 .. n - 3 + 1 /\ 3 + i - 1 = i + 2 BY <1>1
  <2> QED BY Zenon, <1>3, <2>1 DEF t
<1> QED BY Zenon, <1>1, <1>4, <1>5 DEF t, n

\* A frame without bytes dropped.
LEMMA DropOne ==
    ASSUME NEW S, NEW s \in Seq(S), s # <<>>
    PROVE  SubSeq(s, 2, Len(s)) = Tail(s)
OBVIOUS

-----------------------------------------------------------------------------
(* Steps of a handler.                                                     *)

\* What is left after a step.
LEMMA TodoTail ==
    /\ Tail(<<"ack", "bytes", "result">>) = <<"bytes", "result">>
    /\ Tail(<<"bytes", "result">>) = <<"result">>
    /\ Tail(<<"recv", "result">>) = <<"result">>
    /\ Tail(<<"result">>) = <<>> /\ Tail(<<"nack">>) = <<>> /\ Tail(<<"map">>) = <<>>
OBVIOUS

\* The next step of a handler.
LEMMA TodoHead ==
    /\ Head(<<"ack", "bytes", "result">>) = "ack"
    /\ Head(<<"bytes", "result">>) = "bytes"
    /\ Head(<<"recv", "result">>) = "recv"
    /\ Head(<<"result">>) = "result" /\ Head(<<"nack">>) = "nack" /\ Head(<<"map">>) = "map"
OBVIOUS

\* Programs differ.
LEMMA TodosDiffer ==
    /\ <<"ack", "bytes", "result">> \notin {<<"bytes", "result">>, <<"recv", "result">>,
                                            <<"result">>, <<"nack">>, <<"map">>, <<>>}
    /\ <<"bytes", "result">> \notin {<<"recv", "result">>, <<"result">>, <<"nack">>,
                                     <<"map">>, <<>>}
    /\ <<"recv", "result">> \notin {<<"result">>, <<"nack">>, <<"map">>, <<>>}
    /\ <<"result">> \notin {<<"nack">>, <<"map">>, <<>>}
    /\ <<"nack">> \notin {<<"map">>, <<>>}
    /\ <<"map">> # <<>>
BY Zenon

\* A step taken leaves a rest of the same program.
LEMMA RestTail ==
    ASSUME NEW op \in Ops, NEW todo \in Rest(op), todo # <<>>
    PROVE  Tail(todo) \in Rest(op) /\ Tail(todo) \in Todos
<1>1. CASE op = "READ" BY Zenon, <1>1, TodoTail DEF Rest, Todos
<1>2. CASE op = "UPDATE" BY Zenon, <1>2, TodoTail DEF Rest, Todos
<1>3. CASE op = "SYNC" BY Zenon, <1>3, TodoTail DEF Rest, Todos
<1>4. CASE op \in {"REQUEST", "CLOSE"} BY Zenon, <1>4, TodoTail DEF Rest, Todos
<1> QED BY Zenon, <1>1, <1>2, <1>3, <1>4 DEF Ops

\* A program is a rest of itself.
LEMMA ProgramRest ==
    ASSUME NEW op \in Ops, NEW todo \in Programs(op)
    PROVE  todo \in Rest(op) /\ todo \in Todos /\ todo # <<>>
<1>1. CASE op = "READ" BY <1>1 DEF Rest, Todos, Programs
<1>2. CASE op = "UPDATE" BY <1>2 DEF Rest, Todos, Programs
<1>3. CASE op = "SYNC" BY <1>3 DEF Rest, Todos, Programs
<1>4. CASE op \in {"REQUEST", "CLOSE"} BY <1>4 DEF Rest, Todos, Programs
<1> QED BY Zenon, <1>1, <1>2, <1>3, <1>4 DEF Ops

\* A handler after its call() returned.
Stepped(h, ok) == [h EXCEPT !.waiting = FALSE, !.todo = Tail(@), !.ok = ok]

\* The one handler takes a step.
LEMMA CompletedFacts ==
    ASSUME Typed, Single, NEW id \in Nat, NEW ok \in BOOLEAN, Completed(id, ok),
           NEW h \in handlers, h.id = id, h.todo # <<>>
    PROVE  /\ handlers = {h} /\ handlers' = {Stepped(h, ok)}
           /\ Stepped(h, ok) \in Handler /\ Stepped(h, ok).todo \in Rest(h.op)
           /\ Stepped(h, ok).id = h.id /\ Stepped(h, ok).op = h.op
           /\ Stepped(h, ok).todo = Tail(h.todo) /\ ~Stepped(h, ok).waiting
<1>1. h \in Handler /\ h.todo \in Rest(h.op) BY Zenon DEF Typed, PoolTyped
<1>2. Tail(h.todo) \in Rest(h.op) /\ Tail(h.todo) \in Todos
    BY Zenon, <1>1, RestTail DEF Handler
<1>3. handlers = {h} BY Zenon DEF Single
<1>4. handlers' = {Stepped(h, ok)} BY Zenon, <1>3 DEF Completed, Stepped
<1>5. Stepped(h, ok) = [id |-> h.id, op |-> h.op, todo |-> Tail(h.todo),
                        waiting |-> FALSE, ok |-> ok]
  <2> DEFINE rest == Tail(h.todo)
  <2>1. Stepped(h, ok) = [h EXCEPT !.waiting = FALSE, !.todo = rest, !.ok = ok]
      BY Zenon DEF Stepped
  <2> HIDE DEF rest
  <2>2. Stepped(h, ok) = [id |-> h.id, op |-> h.op, todo |-> rest,
                          waiting |-> FALSE, ok |-> ok]
      BY Zenon, <1>1, <2>1 DEF Handler
  <2> QED BY Zenon, <2>2 DEF rest
<1> QED BY <1>1, <1>2, <1>3, <1>4, <1>5 DEF Handler

-----------------------------------------------------------------------------
(* Types, the one handler and its one task.                                *)

PoolInv == Typed /\ Single /\ QueueInv

\* Nothing is going on at first.
LEMMA PoolInit == Init => PoolInv
<1> SUFFICES ASSUME Init PROVE PoolInv BY Zenon
<1> USE DEF Init
<1>1. CallTyped BY Zenon DEF CallTyped, NoId, Ops
<1>2. WireTyped BY DEF WireTyped
<1>3. PoolTyped
  <2>1. worker \in [at: {"loop", "recv", "wait", "exited"}, id: Nat] BY Zenon DEF NoId
  <2>2. queue \in Seq(Task) OBVIOUS
  <2> QED BY Zenon, <2>1, <2>2 DEF PoolTyped
<1>4. Single BY Zenon DEF Single
<1>5. QueueInv BY DEF QueueInv
<1> QED BY Zenon, <1>1, <1>2, <1>3, <1>4, <1>5 DEF PoolInv, Typed

\* The client's steps keep the types of its own state.
LEMMA CallTypedStep ==
    ASSUME Typed, Next
    PROVE  CallTyped'
<1> USE DEF Typed, CallTyped, NoId
<1>1. ASSUME NEW op \in Ops, Call(op) PROVE CallTyped'
    BY <1>1 DEF Call
<1>2. CASE SendRequest BY Zenon, <1>2 DEF SendRequest, FirstWait
<1>3. CASE SendClose BY Zenon, <1>3 DEF SendClose
<1>4. CASE TakeBadFrame BY Zenon, <1>4 DEF TakeBadFrame, Return
<1>5. \A i : TakenForAnswer(i) \subseteq Notices \cup Ops
    BY Zenon DEF TakenForAnswer, Notices
<1>8. CASE TakeAck
  <2>1. disturbed' \subseteq Notices \cup Ops BY Zenon, <1>5, <1>8 DEF TakeAck
  <2>2. acked' = acked /\ cAlive' = cAlive /\ closed' = closed BY Zenon, <1>8 DEF TakeAck, Return
  <2>3. \E at \in {"idle", "data", "result"} : call' = [call EXCEPT !.at = at]
      BY Zenon, <1>8 DEF TakeAck, Return
  <2> QED BY <1>8, <2>1, <2>2, <2>3 DEF TakeAck
<1>9. CASE TakeData BY Zenon, <1>9 DEF TakeData, Return
<1>10. CASE TakeResult
  <2>1. disturbed' \subseteq Notices \cup Ops BY Zenon, <1>5, <1>10 DEF TakeResult
  <2>2. cAlive' = cAlive /\ closed' = closed /\ call' = [call EXCEPT !.at = "idle"]
        /\ acked' \subseteq acked \cup {call.id}
      BY Zenon, <1>10 DEF TakeResult, Return
  <2> QED BY Zenon, <2>1, <2>2
<1>11. CASE TakeSync BY Zenon, <1>11 DEF TakeSync, Return
<1>12. CASE ReadLoop BY Zenon, <1>12 DEF ReadLoop
<1>13. CASE Timeout BY Zenon, <1>13 DEF Timeout, Return
<1>14. CASE HangUp BY Zenon, <1>14 DEF HangUp
<1>15. UNCHANGED clientVars => CallTyped' BY DEF clientVars
<1>16. CASE ReadRequest BY Zenon, <1>15, <1>16 DEF ReadRequest
<1>17. CASE RunTask BY Zenon, <1>15, <1>17 DEF RunTask
<1>18. CASE ReceiveBytes BY Zenon, <1>15, <1>18 DEF ReceiveBytes
<1>19. CASE ReceiveAnswer
  <2>1. disturbed' \subseteq Notices \cup Ops BY Zenon, <1>5, <1>19 DEF ReceiveAnswer
  <2> QED BY Zenon, <1>19, <2>1 DEF ReceiveAnswer
<1>20. CASE ReadEnd BY Zenon, <1>15, <1>20 DEF ReadEnd
<1>21. CASE WorkerExit BY Zenon, <1>15, <1>21 DEF WorkerExit
<1>22. ASSUME NEW h \in handlers, HandlerCall(h) PROVE CallTyped'
    BY Zenon, <1>15, <1>22 DEF HandlerCall
<1>23. ASSUME NEW h \in handlers, HandlerDone(h) PROVE CallTyped'
    BY Zenon, <1>15, <1>23 DEF HandlerDone
<1>24. ASSUME NEW kind \in PushKinds, Post(kind) PROVE CallTyped'
    BY Zenon, <1>15, <1>24 DEF Post
<1> QED BY Zenon, <1>1, <1>2, <1>3, <1>4, <1>8, <1>9, <1>10, <1>11, <1>12, <1>13, <1>14,
           <1>16, <1>17, <1>18, <1>19, <1>20, <1>21, <1>22, <1>23, <1>24 DEF Next

\* What is put on the wire are frames and bytes.
LEMMA WireTypedStep ==
    ASSUME Typed, Next
    PROVE  WireTyped'
<1> USE DEF Typed, WireTyped
<1>1. toServer # <<>> => /\ Tail(toServer) \in Seq(ServerItem)
                         /\ AfterSize(toServer) \in Seq(ServerItem)
  <2> SUFFICES ASSUME toServer # <<>>
               PROVE  /\ Tail(toServer) \in Seq(ServerItem)
                      /\ AfterSize(toServer) \in Seq(ServerItem)
      BY Zenon
  <2>1. Head(toServer) \in ServerItem /\ Tail(toServer) \in Seq(ServerItem) BY Zenon, TailFacts
  <2>2. Item("junk", Head(toServer).id, FALSE) \in ServerItem
      BY Zenon, <2>1 DEF ServerItem, Item, Raw
  <2> QED BY Zenon, <2>1, <2>2, AfterSizeFacts
<1>2. toClient # <<>> => /\ Tail(toClient) \in Seq(ClientItem)
                         /\ AfterSize(toClient) \in Seq(ClientItem)
  <2> SUFFICES ASSUME toClient # <<>>
               PROVE  /\ Tail(toClient) \in Seq(ClientItem)
                      /\ AfterSize(toClient) \in Seq(ClientItem)
      BY Zenon
  <2>1. Head(toClient) \in ClientItem /\ Tail(toClient) \in Seq(ClientItem) BY Zenon, TailFacts
  <2>2. Item("junk", Head(toClient).id, FALSE) \in ClientItem
      BY Zenon, <2>1 DEF ClientItem, Item, Raw
  <2> QED BY Zenon, <2>1, <2>2, AfterSizeFacts
<1>3. DropPush => toClient' \in Seq(ClientItem)
  <2>1. /\ SubSeq(toClient, 2, Len(toClient)) \in Seq(ClientItem)
        /\ SubSeq(toClient, 3, Len(toClient)) \in Seq(ClientItem)
    <3>1. Len(toClient) \in Nat /\ \A i \in 1 .. Len(toClient) : toClient[i] \in ClientItem
        OBVIOUS
    <3>2. /\ \A i \in 2 .. Len(toClient) : toClient[i] \in ClientItem
          /\ \A i \in 3 .. Len(toClient) : toClient[i] \in ClientItem
          /\ 2 \in Int /\ 3 \in Int /\ Len(toClient) \in Int
        BY <3>1
    <3> QED BY <3>2
  <2> QED BY Zenon, <2>1 DEF DropPush
<1>4. ASSUME NEW x \in ServerItem PROVE Append(toServer, x) \in Seq(ServerItem)
    BY Zenon, AppendFacts
<1>5. call.at # "idle" => /\ Item(call.op, call.id, TRUE) \in ServerItem
                          /\ Item("bytes", call.id, TRUE) \in ServerItem
    BY Zenon DEF CallTyped, Item, ServerItem, Ids, Raw
<1>6. UNCHANGED <<toServer, toClient>> => WireTyped' BY Zenon
<1>7. ASSUME NEW op \in Ops, Call(op) PROVE WireTyped' BY Zenon, <1>6, <1>7 DEF Call
<1>8. CASE SendRequest BY Zenon, <1>4, <1>5, <1>8 DEF SendRequest
<1>9. CASE SendClose BY Zenon, <1>4, <1>5, <1>9 DEF SendClose
<1>10. CASE TakeBadFrame BY Zenon, <1>2, <1>10 DEF TakeBadFrame
<1>11. CASE TakeAck BY Zenon, <1>2, <1>4, <1>5, <1>11 DEF TakeAck
<1>12. CASE TakeData BY Zenon, <1>2, <1>12 DEF TakeData
<1>13. CASE TakeResult BY Zenon, <1>2, <1>13 DEF TakeResult
<1>14. CASE TakeSync BY Zenon, <1>3, <1>14 DEF TakeSync
<1>15. CASE ReadLoop BY Zenon, <1>2, <1>3, <1>15 DEF ReadLoop
<1>16. CASE Timeout BY Zenon, <1>16 DEF Timeout
<1>17. CASE HangUp BY Zenon, <1>17 DEF HangUp
<1>18. CASE ReadRequest BY Zenon, <1>1, <1>18 DEF ReadRequest
<1>19. CASE RunTask
  <2> DEFINE t == Head(queue)
  <2>1. t \in Task BY Zenon, <1>19, TailFacts DEF PoolTyped, RunTask
  <2>2. /\ t.k # "recv" => t \in ClientItem
        /\ Item("response", t.id, TRUE) \in ClientItem
        /\ Item("bytes", NoId, TRUE) \in ClientItem
      BY Zenon, <2>1 DEF Task, ClientItem, OwnTasks, Answers, Raw, Item, NoId
  <2> HIDE DEF t
  <2>3. ASSUME NEW x \in ClientItem, Send(<<x>>) PROVE toClient' \in Seq(ClientItem)
    <3>1. toClient \o <<x>> \in Seq(ClientItem) BY Zenon, SendOne
    <3> QED BY Zenon, <2>3, <3>1 DEF Send
  <2>4. ASSUME NEW x \in ClientItem, NEW y \in ClientItem, Send(<<x, y>>)
        PROVE toClient' \in Seq(ClientItem)
    <3>1. toClient \o <<x, y>> \in Seq(ClientItem) BY Zenon, SendTwo
    <3> QED BY Zenon, <2>4, <3>1 DEF Send
  <2>5. \/ t.k # "recv" /\ Send(<<t>>)
        \/ Send(<<Item("response", t.id, TRUE)>>)
        \/ t.k # "recv" /\ Send(<<t, Item("bytes", NoId, TRUE)>>)
      BY Zenon, <1>19 DEF RunTask, t
  <2> QED BY Zenon, <1>19, <2>2, <2>3, <2>4, <2>5 DEF RunTask
<1>20. CASE ReceiveBytes BY Zenon, <1>1, <1>20 DEF ReceiveBytes
<1>21. CASE ReceiveAnswer BY Zenon, <1>1, <1>21 DEF ReceiveAnswer
<1>22. CASE ReadEnd BY Zenon, <1>22 DEF ReadEnd
<1>23. CASE WorkerExit BY Zenon, <1>23 DEF WorkerExit
<1>24. ASSUME NEW h \in handlers, HandlerCall(h) PROVE WireTyped' BY Zenon, <1>24 DEF HandlerCall
<1>25. ASSUME NEW h \in handlers, HandlerDone(h) PROVE WireTyped' BY Zenon, <1>25 DEF HandlerDone
<1>26. ASSUME NEW kind \in PushKinds, Post(kind) PROVE WireTyped' BY Zenon, <1>26 DEF Post
<1> QED BY Zenon, <1>7, <1>8, <1>9, <1>10, <1>11, <1>12, <1>13, <1>14, <1>15, <1>16, <1>17,
           <1>18, <1>19, <1>20, <1>21, <1>22, <1>23, <1>24, <1>25, <1>26 DEF Next

\* The task a handler submits is the one it waits for.
LEMMA TaskFacts ==
    ASSUME NEW h \in Handler, h.todo # <<>>, NEW task \in Tasks(h)
    PROVE  /\ task \in Task /\ task.k \in OwnTasks /\ task.id = h.id
           /\ task.k = "recv" <=> h.todo = <<"recv", "result">>
           /\ task.k = "bytes" <=> h.todo = <<"bytes", "result">>
           /\ task.k = "map" <=> h.todo = <<"map">>
           /\ h.todo = <<"ack", "bytes", "result">> => task.ok
           /\ h.todo = <<"nack">> => ~task.ok
<1> USE DEF Tasks, Task, OwnTasks, Item, Handler, Ids
<1>1. CASE h.todo = <<"ack", "bytes", "result">>
  <2>1. task = Item("response", h.id, TRUE) BY Zenon, <1>1, TodoHead
  <2> QED BY Zenon, <1>1, <2>1, TodosDiffer
<1>2. CASE h.todo = <<"nack">>
  <2>1. task = Item("response", h.id, FALSE) BY Zenon, <1>2, TodoHead
  <2> QED BY Zenon, <1>2, <2>1, TodosDiffer
<1>3. CASE h.todo = <<"result">>
  <2>1. \E ok \in BOOLEAN : task = Item("response", h.id, ok) BY Zenon, <1>3, TodoHead
  <2> QED BY <1>3, <2>1, TodosDiffer
<1>4. CASE h.todo = <<"bytes", "result">>
  <2>1. task = Item("bytes", h.id, TRUE) BY Zenon, <1>4, TodoHead
  <2> QED BY Zenon, <1>4, <2>1, TodosDiffer
<1>5. CASE h.todo = <<"recv", "result">>
  <2>1. task = Item("recv", h.id, TRUE) BY Zenon, <1>5, TodoHead
  <2> QED BY Zenon, <1>5, <2>1, TodosDiffer
<1>6. CASE h.todo = <<"map">>
  <2>1. task = Item("map", h.id, TRUE) BY Zenon, <1>6, TodoHead
  <2> QED BY Zenon, <1>6, <2>1, TodosDiffer
<1> QED BY Zenon, <1>1, <1>2, <1>3, <1>4, <1>5, <1>6 DEF Todos

\* The task at the head of the queue, if it is a handler's.
LEMMA OwnTask ==
    ASSUME PoolInv, queue # <<>>, Head(queue).k \in OwnTasks
    PROVE  \E h \in handlers :
              /\ TaskOf(Head(queue), h) /\ handlers = {h}
              /\ h.todo = <<"result">> /\ Head(queue).ok => h.id \in done
<1>1. Len(queue) \in Nat \ {0} /\ Head(queue) = queue[1]
    BY Zenon, TailFacts DEF PoolInv, Typed, PoolTyped
<1>2. PICK h \in handlers :
          TaskOf(queue[1], h) /\ (h.todo = <<"result">> /\ queue[1].ok => h.id \in done)
    BY <1>1 DEF PoolInv, QueueInv
<1> QED BY Zenon, <1>1, <1>2 DEF PoolInv, Single

\* The handler the worker receives bytes for.
LEMMA OwnBytes ==
    ASSUME PoolInv, worker.at = "recv"
    PROVE  \E h \in handlers : /\ h.waiting /\ h.id = worker.id /\ Receiving(h)
                               /\ handlers = {h}
BY Zenon DEF PoolInv, QueueInv, Single, Receiving

\* A task of a handler that runs: the handler takes its step.
LEMMA RunOwnTask ==
    ASSUME PoolInv, RunTask, Head(queue).k \in OwnTasks \ {"recv"}
    PROVE  \E h \in handlers :
              /\ TaskOf(Head(queue), h) /\ handlers = {h} /\ h \in Handler
              /\ h.todo = <<"result">> /\ Head(queue).ok => h.id \in done
              /\ h.todo \in Rest(h.op) /\ h.todo # <<"recv", "result">>
              /\ handlers' = {Stepped(h, TRUE)}
              /\ Stepped(h, TRUE) \in Handler /\ Stepped(h, TRUE).todo \in Rest(h.op)
              /\ Stepped(h, TRUE).id = h.id /\ Stepped(h, TRUE).op = h.op
              /\ Stepped(h, TRUE).todo = Tail(h.todo) /\ ~Stepped(h, TRUE).waiting
<1>1. PICK h \in handlers :
          /\ TaskOf(Head(queue), h) /\ handlers = {h}
          /\ h.todo = <<"result">> /\ Head(queue).ok => h.id \in done
    BY Zenon, OwnTask DEF RunTask
<1>2. Completed(Head(queue).id, TRUE) BY Zenon DEF RunTask, OwnTasks, Notices
<1>3. h \in Handler /\ h.todo \in Rest(h.op) BY Zenon DEF PoolInv, Typed, PoolTyped
<1>4. /\ Head(queue).id = h.id /\ h.todo # <<>> /\ h.todo # <<"recv", "result">>
      /\ h.id \in Nat
    BY Zenon, <1>1, <1>3 DEF TaskOf, Handler, Ids
<1> QED BY Zenon, <1>1, <1>2, <1>3, <1>4, CompletedFacts DEF PoolInv

\* Bytes received, or not: the handler takes its step.
LEMMA ReceiveStep ==
    ASSUME PoolInv, ReceiveBytes
    PROVE  \E h \in handlers, ok \in BOOLEAN :
              /\ h.waiting /\ h.id = worker.id /\ Receiving(h) /\ handlers = {h}
              /\ h \in Handler
              /\ handlers' = {Stepped(h, ok)}
              /\ Stepped(h, ok) \in Handler /\ Stepped(h, ok).todo \in Rest(h.op)
              /\ Stepped(h, ok).id = h.id /\ Stepped(h, ok).op = h.op
              /\ Stepped(h, ok).todo = <<"result">> /\ ~Stepped(h, ok).waiting
<1>1. PICK h \in handlers : /\ h.waiting /\ h.id = worker.id /\ Receiving(h)
                            /\ handlers = {h}
    BY Zenon, OwnBytes DEF ReceiveBytes
<1>2. PICK ok \in BOOLEAN : Completed(worker.id, ok) BY Zenon DEF ReceiveBytes
<1>3. h \in Handler /\ worker.id \in Nat /\ h.todo # <<>> /\ Tail(h.todo) = <<"result">>
    BY Zenon, <1>1, TodosDiffer, TodoTail DEF PoolInv, Typed, PoolTyped, Receiving
<1>4. /\ handlers' = {Stepped(h, ok)}
      /\ Stepped(h, ok) \in Handler /\ Stepped(h, ok).todo \in Rest(h.op)
      /\ Stepped(h, ok).id = h.id /\ Stepped(h, ok).op = h.op
      /\ Stepped(h, ok).todo = Tail(h.todo) /\ ~Stepped(h, ok).waiting
    BY <1>1, <1>2, <1>3, CompletedFacts DEF PoolInv
<1> QED BY Zenon, <1>1, <1>3, <1>4

\* A request goes to the pool, which was empty.
LEMMA NewHandler ==
    ASSUME PoolInv, ReadRequest, Head(toServer).k \in Ops
    PROVE  \E h \in Handler :
              /\ handlers = {} /\ handlers' = {h} /\ suspended'
              /\ h.id = Head(toServer).id /\ h.op = Head(toServer).k /\ ~h.waiting
              /\ h.todo \in Programs(h.op) /\ h.todo \in Rest(h.op) /\ h.todo # <<>>
<1>1. handlers = {} /\ suspended'
    BY Zenon DEF PoolInv, Single, ReadRequest, Ops, Raw
<1>2. PICK todo \in Programs(Head(toServer).k) :
          handlers' = handlers \cup
              {[id |-> Head(toServer).id, op |-> Head(toServer).k, todo |-> todo,
                waiting |-> FALSE, ok |-> TRUE]}
    BY Zenon DEF ReadRequest, Ops, Raw
<1>3. Head(toServer) \in ServerItem
    BY Zenon, TailFacts DEF PoolInv, Typed, WireTyped, ReadRequest
<1>4. todo \in Rest(Head(toServer).k) /\ todo \in Todos /\ todo # <<>>
    BY Zenon, ProgramRest
<1> DEFINE h == [id |-> Head(toServer).id, op |-> Head(toServer).k, todo |-> todo,
                 waiting |-> FALSE, ok |-> TRUE]
<1>5. h \in Handler BY Zenon, <1>3, <1>4 DEF Handler, ServerItem
<1> QED BY Zenon, <1>1, <1>2, <1>4, <1>5

\* A handler submits its next task.
LEMMA CallFacts ==
    ASSUME PoolInv, NEW h \in handlers, HandlerCall(h)
    PROVE  /\ handlers = {h} /\ h \in Handler /\ h.todo \in Rest(h.op)
           /\ \E g \in Handler : /\ handlers' = {g} /\ g.waiting
                                 /\ g.id = h.id /\ g.op = h.op /\ g.todo = h.todo
           /\ \E task \in Tasks(h) :
                 /\ queue' = Append(queue, task)
                 /\ h.todo = <<"result">> /\ task.ok => h.id \in done'
                 /\ done \subseteq done' /\ done' \subseteq done \cup {h.id}
<1>1. handlers = {h} /\ h \in Handler /\ h.todo \in Rest(h.op)
    BY Zenon DEF PoolInv, Single, Typed, PoolTyped
<1> DEFINE g == [h EXCEPT !.waiting = TRUE]
<1>2. handlers' = {g} BY Zenon, <1>1 DEF HandlerCall
<1>3. g \in Handler /\ g.waiting /\ g.id = h.id /\ g.op = h.op /\ g.todo = h.todo
    BY Zenon, <1>1 DEF Handler
<1>4. PICK task \in Tasks(h) :
          /\ queue' = Append(queue, task)
          /\ done' = IF Head(h.todo) = "result" /\ task.ok THEN done \cup {h.id} ELSE done
    BY Zenon DEF HandlerCall
<1>5. h.todo = <<"result">> => Head(h.todo) = "result" BY Zenon, TodoHead
<1> HIDE DEF g
<1> QED BY Zenon, <1>1, <1>2, <1>3, <1>4, <1>5

\* The server's steps keep the types of its state.
LEMMA PoolTypedStep ==
    ASSUME PoolInv, Next
    PROVE  PoolTyped'
<1> USE DEF PoolTyped
<1>1. PoolTyped BY Zenon DEF PoolInv, Typed
<1>2. UNCHANGED serverVars => PoolTyped' BY Zenon, <1>1 DEF serverVars
<1>3. ASSUME NEW op \in Ops, Call(op) PROVE PoolTyped' BY Zenon, <1>2, <1>3 DEF Call
<1>4. CASE SendRequest BY Zenon, <1>2, <1>4 DEF SendRequest
<1>5. CASE SendClose BY Zenon, <1>2, <1>5 DEF SendClose
<1>6. CASE TakeBadFrame BY Zenon, <1>2, <1>6 DEF TakeBadFrame
<1>7. CASE TakeAck BY Zenon, <1>2, <1>7 DEF TakeAck
<1>8. CASE TakeData BY Zenon, <1>2, <1>8 DEF TakeData
<1>9. CASE TakeResult BY Zenon, <1>2, <1>9 DEF TakeResult
<1>10. CASE TakeSync BY Zenon, <1>2, <1>10 DEF TakeSync
<1>11. CASE ReadLoop BY Zenon, <1>2, <1>11 DEF ReadLoop
<1>12. CASE Timeout BY Zenon, <1>2, <1>12 DEF Timeout
<1>13. CASE HangUp BY Zenon, <1>2, <1>13 DEF HangUp
<1>14. CASE ReadRequest
  <2>1. CASE Head(toServer).k \in Ops
    <3>1. PICK h \in Handler : handlers' = {h} /\ suspended' /\ h.todo \in Rest(h.op)
        BY Zenon, <1>14, <2>1, NewHandler
    <3>2. sAlive' \in BOOLEAN /\ suspended' \in BOOLEAN
        BY Zenon, <1>1, <1>14, <2>1 DEF ReadRequest
    <3> QED BY Zenon, <1>1, <1>14, <3>1, <3>2 DEF ReadRequest
  <2>2. CASE Head(toServer).k \in Raw /\ Head(toServer).k \notin Ops
      BY Zenon, <1>1, <1>14, <2>2 DEF ReadRequest
  <2> QED BY Zenon, <1>14, <2>1, <2>2 DEF ReadRequest
<1>15. CASE RunTask
  <2>1. queue' \in Seq(Task) /\ Head(queue) \in Task BY Zenon, <1>1, <1>15, TailFacts DEF RunTask
  <2>2. sAlive' \in BOOLEAN BY Zenon, <1>1, <1>15 DEF RunTask, Send
  <2>3. worker' \in [at: {"loop", "recv", "wait", "exited"}, id: Nat]
    <3>1. Head(queue).id \in Nat BY Zenon, <2>1 DEF Task
    <3>2. \/ worker' = worker
          \/ worker' = [at |-> "recv", id |-> Head(queue).id]
          \/ worker' = [at |-> "wait", id |-> NoId]
        BY Zenon, <1>15 DEF RunTask
    <3> QED BY <1>1, <3>1, <3>2 DEF NoId
  <2>4. handlers' \subseteq Handler /\ \A h \in handlers' : h.todo \in Rest(h.op)
    <3>1. CASE Head(queue).k \in OwnTasks \ {"recv"}
      <4>1. PICK h \in handlers :
                /\ handlers' = {Stepped(h, TRUE)}
                /\ Stepped(h, TRUE) \in Handler /\ Stepped(h, TRUE).todo \in Rest(h.op)
                /\ Stepped(h, TRUE).op = h.op
          BY Zenon, <1>15, <3>1, RunOwnTask
      <4> QED BY Zenon, <4>1
    <3>2. CASE Head(queue).k \notin OwnTasks \ {"recv"}
        BY Zenon, <1>1, <1>15, <3>2 DEF RunTask, OwnTasks
    <3> QED BY Zenon, <3>1, <3>2
  <2> QED BY Zenon, <1>1, <1>15, <2>1, <2>2, <2>3, <2>4 DEF RunTask
<1>16. CASE ReceiveBytes
  <2>1. PICK h \in handlers, ok \in BOOLEAN :
            /\ handlers' = {Stepped(h, ok)}
            /\ Stepped(h, ok) \in Handler /\ Stepped(h, ok).todo \in Rest(h.op)
            /\ Stepped(h, ok).op = h.op
      BY Zenon, <1>16, ReceiveStep
  <2>2. worker' \in [at: {"loop", "recv", "wait", "exited"}, id: Nat]
      BY Zenon, <1>16 DEF ReceiveBytes, NoId
  <2>3. stored' \subseteq Nat \X Nat
    <3>1. CASE toServer # <<>>
      <4>1. Head(toServer).id \in Nat /\ worker.id \in Nat
        <5>1. Head(toServer) \in ServerItem
            BY Zenon, <3>1, TailFacts DEF PoolInv, Typed, WireTyped
        <5> QED BY Zenon, <1>1, <5>1 DEF ServerItem, Ids
      <4>2. stored' \in {stored, stored \cup {<<worker.id, Head(toServer).id>>}}
          BY Zenon, <1>16 DEF ReceiveBytes
      <4> QED BY <1>1, <4>1, <4>2
    <3>2. CASE toServer = <<>> BY Zenon, <1>1, <1>16, <3>2 DEF ReceiveBytes
    <3> QED BY Zenon, <3>1, <3>2
  <2> QED BY Zenon, <1>1, <1>16, <2>1, <2>2, <2>3 DEF ReceiveBytes
<1>17. CASE ReceiveAnswer
  <2>1. worker' \in [at: {"loop", "recv", "wait", "exited"}, id: Nat]
      BY Zenon, <1>17 DEF ReceiveAnswer, NoId
  <2>2. sAlive' \in BOOLEAN BY Zenon, <1>17 DEF ReceiveAnswer
  <2> QED BY Zenon, <1>1, <1>17, <2>1, <2>2 DEF ReceiveAnswer
<1>18. CASE ReadEnd BY Zenon, <1>1, <1>18 DEF ReadEnd
<1>19. CASE WorkerExit
  <2>1. worker' \in [at: {"loop", "recv", "wait", "exited"}, id: Nat]
      BY Zenon, <1>19 DEF WorkerExit, NoId
  <2> QED BY Zenon, <1>1, <1>19, <2>1 DEF WorkerExit
<1>20. ASSUME NEW h \in handlers, HandlerCall(h) PROVE PoolTyped'
  <2>1. h \in Handler /\ h.todo # <<>> BY Zenon, <1>1, <1>20 DEF HandlerCall
  <2>2. PICK task \in Tasks(h) : queue' = Append(queue, task) /\ done' \subseteq done \cup {h.id}
      BY Zenon, <1>20, CallFacts
  <2>3. task \in Task BY Zenon, <2>1, TaskFacts
  <2>4. queue' \in Seq(Task) /\ done' \subseteq Nat
      BY Zenon, <1>1, <2>1, <2>2, <2>3, AppendFacts DEF Handler, Ids
  <2>5. PICK g \in Handler : handlers' = {g} /\ g.op = h.op /\ g.todo = h.todo
      BY Zenon, <1>20, CallFacts
  <2>6. \A e \in handlers' : e.todo \in Rest(e.op) BY Zenon, <1>1, <2>5
  <2> QED BY Zenon, <1>1, <1>20, <2>4, <2>5, <2>6 DEF HandlerCall
<1>21. ASSUME NEW h \in handlers, HandlerDone(h) PROVE PoolTyped'
  <2>1. sAlive' \in BOOLEAN /\ suspended' \in BOOLEAN BY Zenon, <1>21 DEF HandlerDone
  <2> QED BY Zenon, <1>1, <1>21, <2>1 DEF HandlerDone
<1>22. ASSUME NEW kind \in PushKinds, Post(kind) PROVE PoolTyped'
  <2>1. Item(kind, NoId, TRUE) \in Task
      BY Zenon, SessionAssumption DEF Item, Task, Notices, NoId
  <2>2. queue' \in Seq(Task) BY Zenon, <1>1, <1>22, <2>1, AppendFacts DEF Post
  <2> QED BY Zenon, <1>1, <1>22, <2>2 DEF Post
<1> QED BY Zenon, <1>3, <1>4, <1>5, <1>6, <1>7, <1>8, <1>9, <1>10, <1>11, <1>12, <1>13, <1>14,
           <1>15, <1>16, <1>17, <1>18, <1>19, <1>20, <1>21, <1>22 DEF Next

\* A request enters the pool only when the pool is empty.
LEMMA SingleStep ==
    ASSUME PoolInv, Next
    PROVE  Single'
<1>1. Single BY Zenon DEF PoolInv
<1>2. UNCHANGED <<handlers, suspended>> => Single' BY <1>1 DEF Single
<1>3. ASSUME NEW op \in Ops, Call(op) PROVE Single' BY Zenon, <1>2, <1>3 DEF Call, serverVars
<1>4. CASE SendRequest BY Zenon, <1>2, <1>4 DEF SendRequest, serverVars
<1>5. CASE SendClose BY Zenon, <1>2, <1>5 DEF SendClose, serverVars
<1>6. CASE TakeBadFrame BY Zenon, <1>2, <1>6 DEF TakeBadFrame, serverVars
<1>7. CASE TakeAck BY Zenon, <1>2, <1>7 DEF TakeAck, serverVars
<1>8. CASE TakeData BY Zenon, <1>2, <1>8 DEF TakeData, serverVars
<1>9. CASE TakeResult BY Zenon, <1>2, <1>9 DEF TakeResult, serverVars
<1>10. CASE TakeSync BY Zenon, <1>2, <1>10 DEF TakeSync, serverVars
<1>11. CASE ReadLoop BY Zenon, <1>2, <1>11 DEF ReadLoop, serverVars
<1>12. CASE Timeout BY Zenon, <1>2, <1>12 DEF Timeout, serverVars
<1>13. CASE HangUp BY Zenon, <1>2, <1>13 DEF HangUp, serverVars
<1>14. CASE ReadRequest
  <2>1. CASE Head(toServer).k \in Ops
      BY Zenon, <1>14, <2>1, NewHandler DEF Single
  <2>2. CASE Head(toServer).k \notin Ops BY Zenon, <1>2, <1>14, <2>2 DEF ReadRequest
  <2> QED BY Zenon, <2>1, <2>2
<1>15. CASE RunTask
  <2>1. CASE Head(queue).k \in OwnTasks \ {"recv"}
    <3>1. PICK h \in handlers : handlers' = {Stepped(h, TRUE)}
        BY Zenon, <1>15, <2>1, RunOwnTask
    <3>2. suspended' BY Zenon, <1>1, <1>15, <3>1 DEF Single, RunTask
    <3> QED BY Zenon, <3>1, <3>2 DEF Single
  <2>2. CASE Head(queue).k \notin OwnTasks \ {"recv"}
      BY Zenon, <1>2, <1>15, <2>2 DEF RunTask, OwnTasks
  <2> QED BY Zenon, <2>1, <2>2
<1>16. CASE ReceiveBytes
  <2>1. PICK h \in handlers, ok \in BOOLEAN : handlers' = {Stepped(h, ok)}
      BY Zenon, <1>16, ReceiveStep
  <2>2. suspended' BY Zenon, <1>1, <1>16, <2>1 DEF Single, ReceiveBytes
  <2> QED BY Zenon, <2>1, <2>2 DEF Single
<1>17. CASE ReceiveAnswer BY Zenon, <1>2, <1>17 DEF ReceiveAnswer
<1>18. CASE ReadEnd BY Zenon, <1>2, <1>18 DEF ReadEnd
<1>19. CASE WorkerExit BY Zenon, <1>2, <1>19 DEF WorkerExit
<1>20. ASSUME NEW h \in handlers, HandlerCall(h) PROVE Single'
  <2>1. PICK g \in Handler : handlers' = {g} BY Zenon, <1>20, CallFacts
  <2>2. suspended' BY Zenon, <1>1, <1>20 DEF Single, HandlerCall
  <2> QED BY Zenon, <2>1, <2>2 DEF Single
<1>21. ASSUME NEW h \in handlers, HandlerDone(h) PROVE Single'
  <2>1. handlers' = {} BY Zenon, <1>1, <1>21 DEF Single, HandlerDone
  <2> QED BY Zenon, <2>1 DEF Single
<1>22. ASSUME NEW kind \in PushKinds, Post(kind) PROVE Single'
    BY Zenon, <1>2, <1>22 DEF Post
<1> QED BY Zenon, <1>3, <1>4, <1>5, <1>6, <1>7, <1>8, <1>9, <1>10, <1>11, <1>12, <1>13, <1>14,
           <1>15, <1>16, <1>17, <1>18, <1>19, <1>20, <1>21, <1>22 DEF Next

\* The queue holds no task of a handler.
NoOwnTask == \A i \in 1 .. Len(queue) : queue[i].k \notin OwnTasks

\* Unless a handler waits, no task of a handler is queued or running.
LEMMA NobodyWaits ==
    ASSUME PoolInv, \A h \in handlers : ~h.waiting
    PROVE  NoOwnTask /\ worker.at # "recv"
BY Zenon DEF PoolInv, QueueInv, TaskOf, NoOwnTask

\* One task at a time is queued or running, and its handler waits for it.
LEMMA QueueStep ==
    ASSUME PoolInv, Next
    PROVE  QueueInv'
<1> DEFINE Quiet == \A i \in 1 .. Len(queue) : queue[i].k \in Notices => queue[i].id = NoId
<1>1. QueueInv /\ queue \in Seq(Task) BY Zenon DEF PoolInv, Typed, PoolTyped
<1>2. Quiet BY Zenon, <1>1 DEF QueueInv
<1>3. Quiet' /\ NoOwnTask' /\ worker'.at # "recv" => QueueInv'
    BY Zenon DEF QueueInv, NoOwnTask
<1>4. UNCHANGED <<queue, worker, handlers, done>> => QueueInv'
    BY Zenon, <1>1 DEF QueueInv
<1>5. UNCHANGED serverVars => QueueInv' BY Zenon, <1>4 DEF serverVars
<1>6. ASSUME NEW op \in Ops, Call(op) PROVE QueueInv' BY Zenon, <1>5, <1>6 DEF Call
<1>7. CASE SendRequest BY Zenon, <1>5, <1>7 DEF SendRequest
<1>8. CASE SendClose BY Zenon, <1>5, <1>8 DEF SendClose
<1>9. CASE TakeBadFrame BY Zenon, <1>5, <1>9 DEF TakeBadFrame
<1>10. CASE TakeAck BY Zenon, <1>5, <1>10 DEF TakeAck
<1>11. CASE TakeData BY Zenon, <1>5, <1>11 DEF TakeData
<1>12. CASE TakeResult BY Zenon, <1>5, <1>12 DEF TakeResult
<1>13. CASE TakeSync BY Zenon, <1>5, <1>13 DEF TakeSync
<1>14. CASE ReadLoop BY Zenon, <1>5, <1>14 DEF ReadLoop
<1>15. CASE Timeout BY Zenon, <1>5, <1>15 DEF Timeout
<1>16. CASE HangUp BY Zenon, <1>5, <1>16 DEF HangUp
<1>17. CASE ReadRequest
  <2>1. CASE Head(toServer).k \in Ops
    <3>1. handlers = {} BY Zenon, <1>17, <2>1, NewHandler
    <3>2. NoOwnTask /\ worker.at # "recv" BY Zenon, <3>1, NobodyWaits
    <3>3. UNCHANGED <<queue, worker>> BY Zenon, <1>17 DEF ReadRequest
    <3>4. NoOwnTask' /\ Quiet' /\ worker'.at # "recv" BY Zenon, <1>2, <3>2, <3>3 DEF NoOwnTask
    <3> QED BY Zenon, <1>3, <3>4
  <2>2. CASE Head(toServer).k \notin Ops BY Zenon, <1>4, <1>17, <2>2 DEF ReadRequest
  <2> QED BY Zenon, <2>1, <2>2
<1>18. CASE RunTask
  <2>1. /\ queue' \in Seq(Task) /\ Len(queue') = Len(queue) - 1 /\ Len(queue) \in Nat \ {0}
        /\ \A i \in 1 .. Len(queue') : queue'[i] = queue[i + 1]
        /\ Head(queue) = queue[1] /\ worker.at = "loop"
      BY Zenon, <1>1, <1>18, TailFacts DEF RunTask
  <2>2. \A i \in 1 .. Len(queue') : i + 1 \in 1 .. Len(queue) /\ i + 1 # 1 BY <2>1
  <2>3. Quiet' BY Zenon, <1>2, <2>1, <2>2
  <2>4. Head(queue).k \in OwnTasks => NoOwnTask'
      BY <1>1, <2>1, <2>2 DEF QueueInv, NoOwnTask
  <2>5. CASE Head(queue).k \in OwnTasks \ {"recv"}
    <3>1. worker' = worker BY Zenon, <1>18, <2>5 DEF RunTask, OwnTasks
    <3> QED BY Zenon, <1>3, <2>1, <2>3, <2>4, <2>5, <3>1
  <2>6. CASE Head(queue).k = "recv"
    <3>1. PICK h \in handlers : TaskOf(Head(queue), h)
        BY Zenon, <1>18, <2>6, OwnTask DEF RunTask, OwnTasks
    <3>2. worker' = [at |-> "recv", id |-> Head(queue).id] /\ UNCHANGED handlers
        BY Zenon, <1>18, <2>6 DEF RunTask
    <3>3. h \in handlers' /\ h.waiting /\ h.id = worker'.id /\ h.todo = <<"recv", "result">>
        BY Zenon, <2>6, <3>1, <3>2 DEF TaskOf
    <3> QED BY Zenon, <2>3, <2>4, <2>6, <3>3 DEF QueueInv, NoOwnTask, OwnTasks
  <2>7. CASE Head(queue).k \notin OwnTasks
    <3>1. UNCHANGED <<handlers, done>>
        BY Zenon, <1>18, <2>7 DEF RunTask, OwnTasks
    <3>2. worker'.at # "recv"
      <4>1. worker' = worker \/ worker' = [at |-> "wait", id |-> NoId]
          BY Zenon, <1>18, <2>7 DEF RunTask, OwnTasks
      <4> QED BY <2>1, <4>1
    <3>3. ASSUME NEW i \in 1 .. Len(queue'), queue'[i].k \in OwnTasks
          PROVE  /\ \E h \in handlers' : /\ TaskOf(queue'[i], h)
                                         /\ h.todo = <<"result">> /\ queue'[i].ok
                                            => h.id \in done'
                 /\ \A j \in 1 .. Len(queue') : queue'[j].k \in OwnTasks => j = i
      <4>1. queue[i + 1].k \in OwnTasks /\ queue'[i] = queue[i + 1] BY Zenon, <2>1, <3>3
      <4>2. PICK h \in handlers :
                /\ TaskOf(queue[i + 1], h)
                /\ h.todo = <<"result">> /\ queue[i + 1].ok => h.id \in done
          BY Zenon, <1>1, <2>2, <4>1 DEF QueueInv
      <4>3. \A j \in 1 .. Len(queue') : queue'[j].k \in OwnTasks => j + 1 = i + 1
          BY Zenon, <1>1, <2>1, <2>2, <4>1 DEF QueueInv
      <4>4. \A j \in 1 .. Len(queue') : queue'[j].k \in OwnTasks => j = i
          BY <2>1, <4>3
      <4> QED BY Zenon, <3>1, <4>1, <4>2, <4>4
    <3> QED BY Zenon, <2>3, <3>1, <3>2, <3>3 DEF QueueInv
  <2> QED BY Zenon, <2>5, <2>6, <2>7
<1>19. CASE ReceiveBytes
  <2>1. NoOwnTask BY Zenon, <1>1, <1>19 DEF QueueInv, NoOwnTask, ReceiveBytes
  <2>2. UNCHANGED queue /\ worker'.at # "recv" BY Zenon, <1>19 DEF ReceiveBytes
  <2>3. NoOwnTask' /\ Quiet' BY Zenon, <1>2, <2>1, <2>2 DEF NoOwnTask
  <2> QED BY Zenon, <1>3, <2>2, <2>3
<1>20. worker'.at # "recv" /\ worker.at # "recv" /\ UNCHANGED <<queue, handlers, done>>
       => QueueInv'
    BY Zenon, <1>1 DEF QueueInv
<1>21. CASE ReceiveAnswer BY Zenon, <1>20, <1>21 DEF ReceiveAnswer
<1>22. CASE ReadEnd BY Zenon, <1>4, <1>22 DEF ReadEnd
<1>23. CASE WorkerExit BY Zenon, <1>20, <1>23 DEF WorkerExit
<1>24. ASSUME NEW h \in handlers, HandlerCall(h) PROVE QueueInv'
  <2>1. handlers = {h} /\ h \in Handler /\ h.todo # <<>> /\ ~h.waiting
      BY Zenon, <1>24, CallFacts DEF HandlerCall
  <2>2. NoOwnTask /\ worker.at # "recv" BY Zenon, <2>1, NobodyWaits
  <2>3. PICK g \in Handler : /\ handlers' = {g} /\ g.waiting
                             /\ g.id = h.id /\ g.op = h.op /\ g.todo = h.todo
      BY Zenon, <1>24, CallFacts
  <2>4. PICK task \in Tasks(h) :
            /\ queue' = Append(queue, task)
            /\ h.todo = <<"result">> /\ task.ok => h.id \in done'
      BY Zenon, <1>24, CallFacts
  <2>5. /\ task \in Task /\ task.k \in OwnTasks /\ task.id = h.id
        /\ task.k = "recv" <=> h.todo = <<"recv", "result">>
        /\ task.k = "bytes" <=> h.todo = <<"bytes", "result">>
        /\ task.k = "map" <=> h.todo = <<"map">>
        /\ h.todo = <<"ack", "bytes", "result">> => task.ok
        /\ h.todo = <<"nack">> => ~task.ok
      BY Zenon, <2>1, TaskFacts
  <2>6. TaskOf(task, g) /\ (g.todo = <<"result">> /\ task.ok => g.id \in done')
      BY Zenon, <2>1, <2>3, <2>4, <2>5 DEF TaskOf
  <2>7. /\ Len(queue') = Len(queue) + 1 /\ Len(queue) \in Nat
        /\ \A i \in 1 .. Len(queue) : queue'[i] = queue[i]
        /\ queue'[Len(queue) + 1] = task
      BY <1>1, <2>4, <2>5, AppendFacts
  <2>8. \A i \in 1 .. Len(queue') : queue'[i].k \in OwnTasks
             => i = Len(queue) + 1 /\ queue'[i] = task
      BY <2>2, <2>7 DEF NoOwnTask
  <2>9. Quiet'
    <3>1. task.k \notin Notices BY Zenon, <2>5 DEF OwnTasks, Notices
    <3> QED BY <1>2, <2>7, <3>1
  <2>10. worker'.at # "recv" BY Zenon, <1>24, <2>2 DEF HandlerCall
  <2> QED BY Zenon, <2>3, <2>6, <2>8, <2>9, <2>10 DEF QueueInv
<1>25. ASSUME NEW h \in handlers, HandlerDone(h) PROVE QueueInv'
  <2>1. \A g \in handlers : ~g.waiting BY Zenon, <1>25 DEF PoolInv, Single, HandlerDone
  <2>2. NoOwnTask /\ worker.at # "recv" BY Zenon, <2>1, NobodyWaits
  <2>3. UNCHANGED <<queue, worker>> BY Zenon, <1>25 DEF HandlerDone
  <2>4. NoOwnTask' /\ Quiet' /\ worker'.at # "recv" BY Zenon, <1>2, <2>2, <2>3 DEF NoOwnTask
  <2> QED BY Zenon, <1>3, <2>4
<1>26. ASSUME NEW kind \in PushKinds, Post(kind) PROVE QueueInv'
  <2> DEFINE t == Item(kind, NoId, TRUE)
  <2>1. t \in Task /\ t.k \notin OwnTasks /\ t.id = NoId
      BY Zenon, SessionAssumption DEF Item, Task, OwnTasks, Notices, NoId
  <2>2. queue' = Append(queue, t) /\ UNCHANGED <<worker, handlers, done>>
      BY Zenon, <1>26 DEF Post
  <2> HIDE DEF t
  <2>3. /\ Len(queue') = Len(queue) + 1 /\ Len(queue) \in Nat
        /\ \A i \in 1 .. Len(queue) : queue'[i] = queue[i]
        /\ queue'[Len(queue) + 1] = t
      BY <1>1, <2>1, <2>2, AppendFacts
  <2>4. \A i \in 1 .. Len(queue') : i \in 1 .. Len(queue) \/ i = Len(queue) + 1
      BY <2>3
  <2>5. Quiet' BY Zenon, <1>2, <2>1, <2>3, <2>4
  <2>6. ASSUME NEW i \in 1 .. Len(queue'), queue'[i].k \in OwnTasks
        PROVE  /\ worker.at # "recv"
               /\ \E h \in handlers : /\ TaskOf(queue'[i], h)
                                      /\ h.todo = <<"result">> /\ queue'[i].ok
                                         => h.id \in done
               /\ \A j \in 1 .. Len(queue') : queue'[j].k \in OwnTasks => j = i
    <3>1. i \in 1 .. Len(queue) /\ queue[i].k \in OwnTasks /\ queue'[i] = queue[i]
        BY Zenon, <2>1, <2>3, <2>4, <2>6
    <3>2. /\ worker.at # "recv"
          /\ \E h \in handlers : /\ TaskOf(queue[i], h)
                                 /\ h.todo = <<"result">> /\ queue[i].ok => h.id \in done
          /\ \A j \in 1 .. Len(queue) : queue[j].k \in OwnTasks => j = i
        BY Zenon, <1>1, <3>1 DEF QueueInv
    <3>3. \A j \in 1 .. Len(queue') : queue'[j].k \in OwnTasks => j = i
        BY Zenon, <2>1, <2>3, <2>4, <3>2
    <3> QED BY Zenon, <3>1, <3>2, <3>3
  <2> QED BY Zenon, <1>1, <2>2, <2>5, <2>6 DEF QueueInv
<1> QED BY Zenon, <1>6, <1>7, <1>8, <1>9, <1>10, <1>11, <1>12, <1>13, <1>14, <1>15, <1>16, <1>17,
           <1>18, <1>19, <1>21, <1>22, <1>23, <1>24, <1>25, <1>26 DEF Next

\* Types, the one handler and its one task, for any number of calls and pushes.
THEOREM PoolInvariant == Spec => []PoolInv
<1>1. PoolInv /\ [Next]_vars => PoolInv'
  <2> SUFFICES ASSUME PoolInv, [Next]_vars PROVE PoolInv' BY Zenon
  <2>1. CASE Next
    <3>1. Typed BY Zenon DEF PoolInv
    <3> QED BY Zenon, <2>1, <3>1, CallTypedStep, WireTypedStep, PoolTypedStep, SingleStep, QueueStep
            DEF PoolInv, Typed
  <2>2. CASE UNCHANGED vars
      BY Zenon, <2>2 DEF PoolInv, Typed, CallTyped, WireTyped, PoolTyped, Single, QueueInv,
                  vars, clientVars, serverVars
  <2> QED BY Zenon, <2>1, <2>2
<1> QED BY PoolInit, <1>1, PTL DEF Spec

\* handleClientRequest runs for one request of a session at a time, with the
\* reads of the session suspended: OneHandlerAtATime in every reachable state.
THEOREM OneHandler == Spec => []OneHandlerAtATime
<1>1. PoolInv => OneHandlerAtATime
  <2> SUFFICES ASSUME PoolInv PROVE OneHandlerAtATime BY Zenon
  <2> QED BY Zenon DEF PoolInv, Single, OneHandlerAtATime
<1> QED BY PoolInvariant, <1>1, PTL

-----------------------------------------------------------------------------
(* The bytes of updates.                                                   *)

\* A handler takes a step: it does not wait for bytes then.
LEMMA SteppedNotReceiving ==
    ASSUME NEW todo \in Todos, todo # <<>>
    PROVE  Tail(todo) # <<"recv", "result">>
BY Zenon, TodoTail, TodosDiffer DEF Todos

\* Only a new request makes a handler that waits for bytes.
LEMMA ReceivingOld ==
    ASSUME PoolInv, Next, ~(ReadRequest /\ Head(toServer).k \in Ops),
           NEW g \in handlers', Receiving(g)
    PROVE  ~ReceiveBytes /\ \E h \in handlers : Receiving(h) /\ h.id = g.id
<1> DEFINE P == \E h \in handlers : Receiving(h) /\ h.id = g.id
<1>0. ~ReceiveBytes
  <2> SUFFICES ASSUME ReceiveBytes PROVE FALSE BY Zenon
  <2>1. PICK h \in handlers, ok \in BOOLEAN :
            handlers' = {Stepped(h, ok)} /\ Stepped(h, ok).todo = <<"result">>
      BY Zenon, ReceiveStep
  <2> QED BY Zenon, <2>1, TodosDiffer DEF Receiving
<1> SUFFICES P BY Zenon, <1>0
<1>1. UNCHANGED handlers => P BY Zenon
<1> HIDE DEF P
<1>2. UNCHANGED serverVars => P BY Zenon, <1>1 DEF serverVars
<1>3. ASSUME NEW op \in Ops, Call(op) PROVE P BY Zenon, <1>2, <1>3 DEF Call
<1>4. CASE SendRequest BY Zenon, <1>2, <1>4 DEF SendRequest
<1>5. CASE SendClose BY Zenon, <1>2, <1>5 DEF SendClose
<1>6. CASE TakeBadFrame BY Zenon, <1>2, <1>6 DEF TakeBadFrame
<1>7. CASE TakeAck BY Zenon, <1>2, <1>7 DEF TakeAck
<1>8. CASE TakeData BY Zenon, <1>2, <1>8 DEF TakeData
<1>9. CASE TakeResult BY Zenon, <1>2, <1>9 DEF TakeResult
<1>10. CASE TakeSync BY Zenon, <1>2, <1>10 DEF TakeSync
<1>11. CASE ReadLoop BY Zenon, <1>2, <1>11 DEF ReadLoop
<1>12. CASE Timeout BY Zenon, <1>2, <1>12 DEF Timeout
<1>13. CASE HangUp BY Zenon, <1>2, <1>13 DEF HangUp
<1>14. CASE ReadRequest BY Zenon, <1>1, <1>14 DEF ReadRequest
<1>15. CASE RunTask
  <2>1. CASE Head(queue).k \in OwnTasks \ {"recv"}
    <3>1. PICK h \in handlers :
              /\ handlers' = {Stepped(h, TRUE)} /\ TaskOf(Head(queue), h) /\ h \in Handler
              /\ Stepped(h, TRUE).todo = Tail(h.todo)
        BY Zenon, <1>15, <2>1, RunOwnTask
    <3>2. h.todo \in Todos /\ h.todo # <<>> BY Zenon, <3>1 DEF Handler, TaskOf
    <3>3. FALSE BY Zenon, <3>1, <3>2, SteppedNotReceiving DEF Receiving
    <3> QED BY Zenon, <3>3
  <2>2. CASE Head(queue).k \notin OwnTasks \ {"recv"}
      BY Zenon, <1>1, <1>15, <2>2 DEF RunTask, OwnTasks
  <2> QED BY Zenon, <2>1, <2>2
<1>16. CASE ReceiveBytes BY Zenon, <1>0, <1>16
<1>17. CASE ReceiveAnswer BY Zenon, <1>1, <1>17 DEF ReceiveAnswer
<1>18. CASE ReadEnd BY Zenon, <1>1, <1>18 DEF ReadEnd
<1>19. CASE WorkerExit BY Zenon, <1>1, <1>19 DEF WorkerExit
<1>20. ASSUME NEW h \in handlers, HandlerCall(h) PROVE P
    BY <1>20, CallFacts DEF Receiving, P
<1>21. ASSUME NEW h \in handlers, HandlerDone(h) PROVE P
    BY Zenon, <1>21 DEF HandlerDone, P
<1>22. ASSUME NEW kind \in PushKinds, Post(kind) PROVE P BY Zenon, <1>1, <1>22 DEF Post
<1> QED
    BY Zenon, <1>3, <1>4, <1>5, <1>6, <1>7, <1>8, <1>9, <1>10, <1>11, <1>12, <1>13, <1>14,
       <1>15, <1>16, <1>17, <1>18, <1>19, <1>20, <1>21, <1>22 DEF Next

\* Reading from the front keeps the order; junk, once read, is gone.
LEMMA OrderedTail ==
    ASSUME NEW s \in Seq(ServerItem), s # <<>>, Ordered(s)
    PROVE  /\ Ordered(Tail(s))
           /\ Tail(s) # <<>> => /\ Tail(s)[1].k # "junk"
                                /\ Tail(s)[Len(Tail(s))] = s[Len(s)]
                                /\ Tail(s)[1].k = "bytes" =>
                                      s[1].k \in {"UPDATE", "junk"} /\ s[1].id = Tail(s)[1].id
<1> DEFINE t == Tail(s)
<1>1. /\ t \in Seq(ServerItem) /\ Len(t) = Len(s) - 1 /\ Len(s) \in Nat \ {0}
      /\ \A i \in 1 .. Len(s) - 1 : t[i] = s[i + 1]
    BY Zenon, TailFacts
<1> HIDE DEF t
<1>2. Ordered(t)
  <2> SUFFICES ASSUME NEW i \in 2 .. Len(t)
               PROVE  /\ t[i].k # "junk"
                      /\ t[i].k = "bytes" => /\ t[i - 1].k \in {"UPDATE", "junk"}
                                             /\ t[i - 1].id = t[i].id
      BY Zenon DEF Ordered
  <2>1. /\ i + 1 \in 2 .. Len(s) /\ (i + 1) - 1 = i /\ i - 1 \in 1 .. Len(s) - 1
        /\ i \in 1 .. Len(s) - 1 /\ (i - 1) + 1 = i
      BY <1>1
  <2>2. t[i] = s[i + 1] /\ t[i - 1] = s[i] BY Zenon, <1>1, <2>1
  <2> QED BY Zenon, <2>1, <2>2 DEF Ordered
<1>3. ASSUME t # <<>>
      PROVE  /\ t[1].k # "junk" /\ t[Len(t)] = s[Len(s)]
             /\ t[1].k = "bytes" => s[1].k \in {"UPDATE", "junk"} /\ s[1].id = t[1].id
  <2>1. Len(t) >= 1 BY <1>1, <1>3
  <2>2. t[1] = s[2] /\ 2 \in 2 .. Len(s) /\ 2 - 1 = 1 BY <1>1, <2>1
  <2>3. Len(t) \in 1 .. Len(s) - 1 /\ Len(t) + 1 = Len(s) BY <1>1, <2>1
  <2>4. t[Len(t)] = s[Len(s)] BY Zenon, <1>1, <2>3
  <2> QED BY Zenon, <2>2, <2>4 DEF Ordered
<1> QED BY Zenon, <1>2, <1>3 DEF t

\* Sending keeps the order, bytes behind their own request or what is left of it.
LEMMA OrderedAppend ==
    ASSUME NEW s \in Seq(ServerItem), NEW x \in ServerItem, Ordered(s), x.k # "junk",
           x.k = "bytes" /\ s # <<>> => s[Len(s)].k \in {"UPDATE", "junk"} /\ s[Len(s)].id = x.id
    PROVE  /\ Ordered(Append(s, x)) /\ Append(s, x)[Len(Append(s, x))] = x
           /\ Append(s, x)[1] = IF s = <<>> THEN x ELSE s[1]
<1> DEFINE t == Append(s, x)
<1>1. /\ t \in Seq(ServerItem) /\ Len(t) = Len(s) + 1 /\ Len(s) \in Nat
      /\ \A i \in 1 .. Len(s) : t[i] = s[i]
      /\ t[Len(s) + 1] = x
    BY AppendFacts
<1> HIDE DEF t
<1>2. Ordered(t)
  <2> SUFFICES ASSUME NEW i \in 2 .. Len(t)
               PROVE  /\ t[i].k # "junk"
                      /\ t[i].k = "bytes" => /\ t[i - 1].k \in {"UPDATE", "junk"}
                                             /\ t[i - 1].id = t[i].id
      BY Zenon DEF Ordered
  <2>1. CASE i <= Len(s)
    <3>1. i \in 2 .. Len(s) /\ i \in 1 .. Len(s) /\ i - 1 \in 1 .. Len(s) BY <1>1, <2>1
    <3>2. t[i] = s[i] /\ t[i - 1] = s[i - 1] BY Zenon, <1>1, <3>1
    <3> QED BY Zenon, <3>1, <3>2 DEF Ordered
  <2>2. CASE i = Len(s) + 1
    <3>1. i - 1 = Len(s) /\ Len(s) \in 1 .. Len(s) /\ s # <<>> BY <1>1, <2>2
    <3>2. t[i] = x /\ t[i - 1] = s[Len(s)] BY Zenon, <1>1, <2>2, <3>1
    <3> QED BY Zenon, <3>1, <3>2
  <2> QED BY <1>1, <2>1, <2>2
<1>3. t[1] = IF s = <<>> THEN x ELSE s[1]
  <2>1. CASE s = <<>> BY <1>1, <2>1
  <2>2. CASE s # <<>> BY <1>1, <2>2
  <2> QED BY Zenon, <2>1, <2>2
<1> QED BY Zenon, <1>1, <1>2, <1>3 DEF t

\* A request read as a file size is junk in front of its bytes.
LEMMA OrderedJunk ==
    ASSUME NEW s \in Seq(ServerItem), s # <<>>, Ordered(s), s[1].k # "bytes"
    PROVE  /\ Ordered(AfterSize(s)) /\ AfterSize(s)[1].k = "junk"
           /\ AfterSize(s)[Len(s)].id = s[Len(s)].id
           /\ AfterSize(s)[Len(s)].k \in {s[Len(s)].k, "junk"}
<1> DEFINE t == AfterSize(s)
<1>1. Item("junk", Head(s).id, FALSE) \in ServerItem
    BY Zenon, TailFacts DEF ServerItem, Item, Raw
<1>2. /\ t \in Seq(ServerItem) /\ Len(t) = Len(s) /\ Len(s) \in Nat \ {0}
      /\ t[1] = Item("junk", s[1].id, FALSE)
      /\ \A i \in 2 .. Len(s) : t[i] = s[i]
    BY Zenon, <1>1, AfterSizeFacts
<1>3. t[1].k = "junk" /\ t[1].id = s[1].id BY <1>2 DEF Item
<1> HIDE DEF t
<1>4. Ordered(t)
  <2> SUFFICES ASSUME NEW i \in 2 .. Len(s)
               PROVE  /\ t[i].k # "junk"
                      /\ t[i].k = "bytes" => /\ t[i - 1].k \in {"UPDATE", "junk"}
                                             /\ t[i - 1].id = t[i].id
      BY Zenon, <1>2 DEF Ordered
  <2>1. CASE i = 2
    <3>1. t[2] = s[2] /\ i - 1 = 1 /\ 2 - 1 = 1 BY <1>2, <2>1
    <3>2. /\ s[2].k # "junk"
          /\ s[2].k = "bytes" => s[1].id = s[2].id
        BY Zenon, <2>1, <3>1 DEF Ordered
    <3> QED BY Zenon, <1>3, <2>1, <3>1, <3>2
  <2>2. CASE i > 2
    <3>1. i - 1 \in 2 .. Len(s) BY <1>2, <2>2
    <3> QED BY Zenon, <1>2, <3>1 DEF Ordered
  <2> QED BY <1>2, <2>1, <2>2
<1>5. t[Len(s)].id = s[Len(s)].id /\ t[Len(s)].k \in {s[Len(s)].k, "junk"}
  <2>1. CASE Len(s) = 1 BY Zenon, <1>3, <2>1
  <2>2. CASE Len(s) >= 2 BY <1>2, <2>2
  <2> QED BY <1>2, <2>1, <2>2
<1> QED BY Zenon, <1>3, <1>4, <1>5 DEF t

\* Requests and bytes stay in order, and an update finds its own bytes.
LEMMA ByteStep ==
    ASSUME PoolInv, StreamInv, BytesInv, Next
    PROVE  StreamInv' /\ BytesInv'
<1> DEFINE NoJunk == toServer # <<>> /\ toServer[1].k = "junk"
                     => \A h \in handlers : ~Receiving(h)
           LastSent == call.at = "ack" =>
                         /\ call.op \in {"READ", "UPDATE"}
                         /\ toServer # <<>> => /\ toServer[Len(toServer)].id = call.id
                                               /\ toServer[Len(toServer)].k \in {call.op, "junk"}
           Front == \A h \in handlers : Receiving(h) =>
                       /\ toServer # <<>> /\ toServer[1].k = "bytes" => toServer[1].id = h.id
                       /\ call.at = "ack" /\ toServer = <<>> => h.id = call.id
           Own == \A p \in stored : p[1] = p[2]
           Calm == disturbed \cap Ops = {}
<1>1. Ordered(toServer) /\ NoJunk /\ LastSent BY Zenon DEF StreamInv
<1>2. Calm => Front /\ Own BY Zenon DEF BytesInv
<1>3. toServer \in Seq(ServerItem) /\ CallTyped BY Zenon DEF PoolInv, Typed, WireTyped
<1>4. disturbed \subseteq disturbed'
    BY Zenon DEF Next, Call, SendRequest, SendClose, TakeBadFrame, TakeAck, TakeData, TakeResult,
           TakeSync, ReadLoop, Timeout, HangUp, ReadRequest, RunTask, ReceiveBytes,
           ReceiveAnswer, ReadEnd, WorkerExit, HandlerCall, HandlerDone, Post, clientVars
<1>5. Calm' => Calm BY Zenon, <1>4
<1>6. Ordered(toServer)' /\ NoJunk' /\ LastSent' => StreamInv' BY Zenon DEF StreamInv
<1>7. (Calm' => Front' /\ Own') => BytesInv' BY Zenon DEF BytesInv
<1>8. ASSUME UNCHANGED <<toServer, stored>>, call' = call \/ call'.at # "ack",
             ~(ReadRequest /\ Head(toServer).k \in Ops)
      PROVE  StreamInv' /\ BytesInv'
  <2>1. \A g \in handlers' : Receiving(g) => \E h \in handlers : Receiving(h) /\ h.id = g.id
      BY Zenon, <1>8, ReceivingOld
  <2>2. NoJunk' BY Zenon, <1>1, <1>8, <2>1
  <2>3. LastSent' BY Zenon, <1>1, <1>8
  <2>4. Calm' => Front'
    <3> SUFFICES ASSUME Calm', NEW g \in handlers', Receiving(g)
                 PROVE  /\ toServer' # <<>> /\ toServer'[1].k = "bytes" => toServer'[1].id = g.id
                        /\ call'.at = "ack" /\ toServer' = <<>> => g.id = call'.id
        BY Zenon
    <3>1. PICK h \in handlers : Receiving(h) /\ h.id = g.id BY Zenon, <2>1
    <3>2. /\ toServer # <<>> /\ toServer[1].k = "bytes" => toServer[1].id = h.id
          /\ call.at = "ack" /\ toServer = <<>> => h.id = call.id
        BY Zenon, <1>2, <1>5, <3>1
    <3> QED BY Zenon, <1>8, <3>1, <3>2
  <2>5. Calm' => Own' BY Zenon, <1>2, <1>5, <1>8
  <2> QED BY Zenon, <1>1, <1>6, <1>7, <1>8, <2>2, <2>3, <2>4, <2>5
<1>9. ASSUME NEW op \in Ops, Call(op) PROVE StreamInv' /\ BytesInv'
  <2>1. call'.at # "ack" /\ UNCHANGED <<toServer, stored>> BY Zenon, <1>9 DEF Call, serverVars
  <2>2. ~ReadRequest BY <1>9 DEF Call, ReadRequest, clientVars
  <2> QED BY Zenon, <1>8, <2>1, <2>2
<1>10. ASSUME NEW x \in ServerItem, toServer' = Append(toServer, x), x.k # "junk",
              UNCHANGED <<handlers, stored>>,
              x.k = "bytes" => /\ call.at = "ack" /\ call.op = "UPDATE" /\ x.id = call.id,
              call'.at = "ack" => /\ call'.op \in {"READ", "UPDATE"} /\ x.id = call'.id
                                  /\ x.k = call'.op
       PROVE  StreamInv' /\ BytesInv'
  <2>1. /\ toServer' # <<>> /\ Len(toServer') = Len(toServer) + 1 /\ Len(toServer) \in Nat
        /\ \A i \in 1 .. Len(toServer) : toServer'[i] = toServer[i]
        /\ toServer'[Len(toServer) + 1] = x
      BY <1>3, <1>10, AppendFacts
  <2>2. Ordered(toServer)'
    <3>1. x.k = "bytes" => \/ toServer = <<>>
                           \/ /\ toServer[Len(toServer)].k \in {"UPDATE", "junk"}
                              /\ toServer[Len(toServer)].id = x.id
        BY Zenon, <1>1, <1>10
    <3>2. Ordered(Append(toServer, x)) BY Zenon, <1>1, <1>3, <1>10, <3>1, OrderedAppend
    <3> QED BY Zenon, <1>10, <3>2 DEF Ordered
  <2>3. (toServer = <<>> /\ toServer'[1] = x) \/ (toServer # <<>> /\ toServer'[1] = toServer[1])
    <3>1. CASE toServer = <<>>
      <4>1. Len(toServer) = 0 BY Zenon, <3>1
      <4> QED BY <2>1, <3>1, <4>1
    <3>2. CASE toServer # <<>>
      <4>1. 1 \in 1 .. Len(toServer) BY <1>3, <3>2
      <4> QED BY Zenon, <2>1, <3>2, <4>1
    <3> QED BY Zenon, <3>1, <3>2
  <2>4. NoJunk' BY Zenon, <1>1, <1>10, <2>3
  <2>5. LastSent' BY Zenon, <1>10, <2>1
  <2>6. Calm' => Front'
    <3> SUFFICES ASSUME Calm', NEW h \in handlers, Receiving(h)
                 PROVE  toServer'[1].k = "bytes" => toServer'[1].id = h.id
        BY Zenon, <1>10, <2>1
    <3>1. /\ toServer # <<>> /\ toServer[1].k = "bytes" => toServer[1].id = h.id
          /\ call.at = "ack" /\ toServer = <<>> => h.id = call.id
        BY Zenon, <1>2, <1>5
    <3> QED BY Zenon, <1>10, <2>3, <3>1
  <2> QED BY Zenon, <1>2, <1>5, <1>6, <1>7, <1>10, <2>2, <2>4, <2>5, <2>6
<1>11. CASE SendRequest
  <2> DEFINE x == Item(call.op, call.id, TRUE)
  <2>1. x \in ServerItem /\ x.k = call.op /\ x.id = call.id /\ x.k \in Ops
      BY Zenon, <1>3, <1>11 DEF SendRequest, CallTyped, ServerItem, Item, Ids
  <2>2. /\ toServer' = Append(toServer, x) /\ UNCHANGED <<handlers, stored>>
        /\ call' = [call EXCEPT !.at = FirstWait(call.op)]
      BY Zenon, <1>11 DEF SendRequest, serverVars
  <2>3. call'.id = call.id /\ call'.op = call.op /\ call'.at = FirstWait(call.op)
      BY Zenon, <1>3, <2>2 DEF CallTyped
  <2>4. call'.at = "ack" => call.op \in {"READ", "UPDATE"} BY Zenon, <2>3 DEF FirstWait
  <2>5. x.k \notin {"junk", "bytes"} BY Zenon, <2>1 DEF Ops
  <2> HIDE DEF x
  <2> QED BY Zenon, <1>10, <2>1, <2>2, <2>3, <2>4, <2>5
<1>12. CASE SendClose
  <2> DEFINE x == Item(call.op, call.id, TRUE)
  <2>1. x \in ServerItem /\ x.k \in Ops
      BY Zenon, <1>3, <1>12 DEF SendClose, CallTyped, ServerItem, Item, Ids
  <2>2. /\ toServer' = Append(toServer, x) /\ UNCHANGED <<handlers, stored>>
        /\ call'.at # "ack"
      BY Zenon, <1>3, <1>12 DEF SendClose, serverVars, CallTyped
  <2>5. x.k \notin {"junk", "bytes"} BY Zenon, <2>1 DEF Ops
  <2> HIDE DEF x
  <2> QED BY Zenon, <1>10, <2>1, <2>2, <2>5
<1>13. CASE TakeAck
  <2>1. UNCHANGED <<handlers, stored>> /\ ~ReadRequest /\ call'.at # "ack"
      BY Zenon, <1>3, <1>13 DEF TakeAck, serverVars, ReadRequest, clientVars, Return, CallTyped
  <2>2. CASE UNCHANGED toServer BY Zenon, <1>8, <2>1, <2>2
  <2>3. CASE ~UNCHANGED toServer
    <3> DEFINE x == Item("bytes", call.id, TRUE)
    <3>1. toServer' = Append(toServer, x) /\ call.op = "UPDATE" /\ call.at = "ack"
        BY Zenon, <1>13, <2>3 DEF TakeAck
    <3>2. x \in ServerItem /\ x.id = call.id /\ x.k # "junk"
        BY Zenon, <1>3, <3>1 DEF CallTyped, ServerItem, Item, Ids, Raw
    <3> HIDE DEF x
    <3> QED BY Zenon, <1>10, <2>1, <3>1, <3>2
  <2> QED BY Zenon, <2>2, <2>3
<1>14. CASE TakeBadFrame
    BY Zenon, <1>3, <1>8, <1>14 DEF TakeBadFrame, Return, ReadRequest, serverVars, clientVars, CallTyped
<1>15. CASE TakeData
    BY Zenon, <1>3, <1>8, <1>15 DEF TakeData, Return, ReadRequest, serverVars, clientVars, CallTyped
<1>16. CASE TakeResult
    BY Zenon, <1>3, <1>8, <1>16 DEF TakeResult, Return, ReadRequest, serverVars, clientVars, CallTyped
<1>17. CASE TakeSync
    BY Zenon, <1>3, <1>8, <1>17 DEF TakeSync, Return, ReadRequest, serverVars, clientVars, CallTyped
<1>18. CASE ReadLoop
    BY Zenon, <1>3, <1>8, <1>18 DEF ReadLoop, ReadRequest, serverVars, clientVars
<1>19. CASE Timeout
    BY Zenon, <1>3, <1>8, <1>19 DEF Timeout, Return, ReadRequest, serverVars, clientVars, CallTyped
<1>20. CASE HangUp
    BY Zenon, <1>3, <1>8, <1>20 DEF HangUp, ReadRequest, serverVars, clientVars
<1>21. CASE ReadRequest
  <2>1. /\ handlers = {} /\ toServer # <<>> /\ toServer' = Tail(toServer)
        /\ UNCHANGED <<call, stored>>
      BY Zenon, <1>21 DEF ReadRequest, PoolInv, Single, clientVars
  <2>2. Head(toServer) = toServer[1] BY Zenon, <1>3, <2>1, TailFacts
  <2>3. \A h \in handlers' : h.id = toServer[1].id
    <3>1. CASE handlers' = handlers BY Zenon, <2>1, <3>1
    <3>2. CASE handlers' # handlers
      <4>1. PICK todo \in Programs(Head(toServer).k) :
                handlers' = {[id |-> Head(toServer).id, op |-> Head(toServer).k, todo |-> todo,
                              waiting |-> FALSE, ok |-> TRUE]}
          BY Zenon, <1>21, <2>1, <3>2 DEF ReadRequest
      <4> QED BY <2>2, <4>1
    <3> QED BY Zenon, <3>1, <3>2
  <2>4. /\ Ordered(Tail(toServer))
        /\ Tail(toServer) # <<>> => /\ Tail(toServer)[1].k # "junk"
                                    /\ Tail(toServer)[Len(Tail(toServer))] = toServer[Len(toServer)]
                                    /\ Tail(toServer)[1].k = "bytes" =>
                                          toServer[1].id = Tail(toServer)[1].id
      BY Zenon, <1>1, <1>3, <2>1, OrderedTail
  <2>5. Ordered(toServer)' BY Zenon, <2>1, <2>4 DEF Ordered
  <2>6. NoJunk' /\ LastSent' BY Zenon, <1>1, <2>1, <2>4
  <2>7. toServer' = <<>> => toServer[1] = toServer[Len(toServer)]
    <3>1. Len(toServer') = Len(toServer) - 1 /\ Len(toServer) \in Nat BY Zenon, <1>3, <2>1, TailFacts
    <3>2. \A s : s = <<>> => Len(s) = 0 OBVIOUS
    <3> QED BY <3>1, <3>2
  <2>8. Front' BY Zenon, <1>1, <2>1, <2>3, <2>4, <2>7
  <2> QED BY Zenon, <1>2, <1>5, <1>6, <1>7, <2>1, <2>5, <2>6, <2>8
<1>22. CASE RunTask
  <2>1. UNCHANGED <<call, toServer, stored>> BY Zenon, <1>22 DEF RunTask, clientVars
  <2>2. toServer # <<>> => Tail(toServer) # toServer BY <1>3, TailFacts
  <2>3. ~ReadRequest BY Zenon, <2>1, <2>2 DEF ReadRequest
  <2> QED BY Zenon, <1>8, <2>1, <2>3
<1>23. CASE ReceiveBytes
  <2>1. UNCHANGED call /\ worker.at = "recv" BY Zenon, <1>23 DEF ReceiveBytes, clientVars
  <2>2. ~ReadRequest BY Zenon, <1>23 DEF ReceiveBytes, ReadRequest
  <2>3. \A g \in handlers' : ~Receiving(g) BY Zenon, <1>23, <2>2, ReceivingOld
  <2>4. PICK h \in handlers : h.id = worker.id /\ Receiving(h)
      BY Zenon, <2>1 DEF PoolInv, QueueInv, Receiving
  <2>5. CASE toServer = <<>>
      BY Zenon, <1>8, <1>23, <2>1, <2>2, <2>5 DEF ReceiveBytes
  <2>6. CASE toServer # <<>> /\ Head(toServer).k = "bytes"
    <3>1. toServer' = Tail(toServer) /\ stored' = stored \cup {<<worker.id, Head(toServer).id>>}
        BY Zenon, <1>23, <2>6 DEF ReceiveBytes
    <3>2. Head(toServer) = toServer[1] BY Zenon, <1>3, <2>6, TailFacts
    <3>3. Calm' => Own' BY <1>2, <1>5, <2>4, <2>6, <3>1, <3>2
    <3>4. /\ Ordered(Tail(toServer))
          /\ Tail(toServer) # <<>> => Tail(toServer)[Len(Tail(toServer))] = toServer[Len(toServer)]
        BY Zenon, <1>1, <1>3, <2>6, OrderedTail
    <3>5. Ordered(toServer)' BY Zenon, <3>1, <3>4 DEF Ordered
    <3>6. NoJunk' /\ LastSent' /\ Front' BY Zenon, <1>1, <2>1, <2>3, <2>6, <3>1, <3>4
    <3> QED BY Zenon, <1>6, <1>7, <3>3, <3>5, <3>6
  <2>7. CASE toServer # <<>> /\ Head(toServer).k # "bytes"
    <3>1. toServer' = AfterSize(toServer) /\ stored' = stored
        BY Zenon, <1>23, <2>7 DEF ReceiveBytes
    <3>2. Item("junk", Head(toServer).id, FALSE) \in ServerItem
        BY Zenon, <1>3, <2>7, TailFacts DEF ServerItem, Item, Raw
    <3>3. /\ AfterSize(toServer) # <<>>
          /\ Len(AfterSize(toServer)) = Len(toServer) /\ Len(toServer) \in Nat \ {0}
          /\ AfterSize(toServer)[1] = Item("junk", toServer[1].id, FALSE)
          /\ \A i \in 2 .. Len(toServer) : AfterSize(toServer)[i] = toServer[i]
        BY Zenon, <1>3, <2>7, <3>2, AfterSizeFacts
    <3>4. Ordered(AfterSize(toServer)) BY <1>1, <1>3, <2>7, OrderedJunk
    <3>5. Ordered(toServer)' BY Zenon, <3>1, <3>4 DEF Ordered
    <3>6. LastSent'
      <4>1. CASE Len(toServer) = 1 BY <1>1, <2>1, <2>7, <3>1, <3>3, <4>1 DEF Item
      <4>2. CASE Len(toServer) # 1
        <5>1. Len(toServer) \in 2 .. Len(toServer) BY <3>3, <4>2
        <5> QED BY Zenon, <1>1, <2>1, <2>7, <3>1, <3>3, <5>1
      <4> QED BY Zenon, <4>1, <4>2
    <3>7. NoJunk' /\ Front' BY Zenon, <2>3
    <3>8. Calm' => Own' BY Zenon, <1>2, <1>5, <3>1
    <3> QED BY Zenon, <1>6, <1>7, <3>5, <3>6, <3>7, <3>8
  <2> QED BY Zenon, <2>5, <2>6, <2>7
<1>24. CASE ReceiveAnswer
  <2>1. UNCHANGED <<call, handlers, stored>> BY Zenon, <1>24 DEF ReceiveAnswer
  <2>2. ~ReadRequest BY Zenon, <1>24 DEF ReceiveAnswer, ReadRequest
  <2>3. CASE toServer = <<>> BY Zenon, <1>8, <1>24, <2>1, <2>2, <2>3 DEF ReceiveAnswer
  <2>4. CASE toServer # <<>>
    <3>1. /\ toServer' = Tail(toServer)
          /\ disturbed' = disturbed \cup TakenForAnswer(Head(toServer))
        BY Zenon, <1>24, <2>4 DEF ReceiveAnswer
    <3>2. Head(toServer) = toServer[1] /\ toServer[1] \in ServerItem BY Zenon, <1>3, <2>4, TailFacts
    <3>3. Calm' => toServer[1].k \in {"bytes", "junk"}
        BY Zenon, <3>1, <3>2 DEF TakenForAnswer, ServerItem, Raw
    <3>4. /\ Ordered(Tail(toServer))
          /\ Tail(toServer) # <<>> => /\ Tail(toServer)[1].k # "junk"
                                      /\ Tail(toServer)[Len(Tail(toServer))] = toServer[Len(toServer)]
                                      /\ Tail(toServer)[1].k = "bytes" =>
                                            toServer[1].k \in {"UPDATE", "junk"}
        BY Zenon, <1>1, <1>3, <2>4, OrderedTail
    <3>5. Ordered(toServer)' BY Zenon, <3>1, <3>4 DEF Ordered
    <3>6. NoJunk' /\ LastSent' BY Zenon, <1>1, <2>1, <2>4, <3>1, <3>4
    <3>7. toServer' = <<>> => toServer[1] = toServer[Len(toServer)]
      <4>1. Len(toServer') = Len(toServer) - 1 /\ Len(toServer) \in Nat BY Zenon, <1>3, <2>4, <3>1, TailFacts
      <4>2. \A s : s = <<>> => Len(s) = 0 OBVIOUS
      <4> QED BY <4>1, <4>2
    <3>8. Calm' => Front'
      <4> SUFFICES ASSUME Calm', NEW h \in handlers, Receiving(h)
                   PROVE  /\ toServer' # <<>> => toServer'[1].k # "bytes"
                          /\ ~(call.at = "ack" /\ toServer' = <<>>)
          BY Zenon, <2>1
      <4>1. toServer[1].k = "bytes" BY Zenon, <1>1, <2>4, <3>3
      <4> QED BY Zenon, <1>1, <2>4, <3>1, <3>4, <3>7, <4>1
    <3> QED BY Zenon, <1>2, <1>5, <1>6, <1>7, <2>1, <3>5, <3>6, <3>8
  <2> QED BY Zenon, <2>3, <2>4
<1>25. CASE ReadEnd BY Zenon, <1>8, <1>25 DEF ReadEnd, ReadRequest, clientVars
<1>26. CASE WorkerExit BY Zenon, <1>8, <1>26 DEF WorkerExit, ReadRequest, clientVars
<1>27. ASSUME NEW h \in handlers, HandlerCall(h) PROVE StreamInv' /\ BytesInv'
    BY Zenon, <1>8, <1>27, <1>3 DEF HandlerCall, ReadRequest, clientVars
<1>28. ASSUME NEW h \in handlers, HandlerDone(h) PROVE StreamInv' /\ BytesInv'
  <2>1. suspended BY Zenon DEF PoolInv, Single
  <2> QED BY Zenon, <1>8, <1>28, <2>1 DEF HandlerDone, ReadRequest, clientVars
<1>29. ASSUME NEW kind \in PushKinds, Post(kind) PROVE StreamInv' /\ BytesInv'
    BY Zenon, <1>8, <1>29, <1>3 DEF Post, ReadRequest, clientVars
<1> QED
    BY Zenon, <1>9, <1>11, <1>12, <1>13, <1>14, <1>15, <1>16, <1>17, <1>18, <1>19, <1>20, <1>21, <1>22,
       <1>23, <1>24, <1>25, <1>26, <1>27, <1>28, <1>29 DEF Next

\* The bytes the server takes for an update are the ones the client sent for
\* it, unless its worker took a request for the answer to a lease notice
\* (receiveFileData right behind the ACK, in one task on the worker).
THEOREM StoredBytes == Spec => []StoredBytesAreOwn
<1>1. Init => PoolInv /\ StreamInv /\ BytesInv
    BY PoolInit DEF Init, StreamInv, BytesInv, Ordered
<1>2. (PoolInv /\ StreamInv /\ BytesInv) /\ [Next]_vars => (StreamInv /\ BytesInv)'
  <2> SUFFICES ASSUME PoolInv, StreamInv, BytesInv, [Next]_vars PROVE (StreamInv /\ BytesInv)'
      BY Zenon
  <2>1. CASE Next BY Zenon, <2>1, ByteStep
  <2>2. CASE UNCHANGED vars
      BY Zenon, <2>2 DEF vars, clientVars, serverVars, StreamInv, BytesInv, Ordered
  <2> QED BY Zenon, <2>1, <2>2
<1>3. BytesInv => StoredBytesAreOwn BY Zenon DEF BytesInv, StoredBytesAreOwn
<1> QED BY <1>1, <1>2, <1>3, PoolInvariant, PTL DEF Spec

-----------------------------------------------------------------------------
(* What is on its way to the client.                                       *)

\* Items taken from the front, a push with its bytes.
LEMMA WireTail ==
    ASSUME NEW s \in Seq(ClientItem), s # <<>>, WireOK(s)
    PROVE  WireOK(Tail(s)) /\ (s[1].k = "push" => Len(s) >= 2 /\ s[2].id = NoId)
<1> DEFINE t == Tail(s)
<1>1. /\ t \in Seq(ClientItem) /\ Len(t) = Len(s) - 1 /\ Len(s) \in Nat \ {0}
      /\ \A i \in 1 .. Len(s) - 1 : t[i] = s[i + 1]
    BY Zenon, TailFacts
<1> HIDE DEF t
<1>2. WireOK(t)
  <2> SUFFICES ASSUME NEW i \in 1 .. Len(t)
               PROVE  /\ t[i].k = "push" => i < Len(t) /\ t[i + 1].id = NoId
                      /\ t[i].k \in Notices => t[i].id = NoId
                      /\ t[i].k \in Answers => t[i].id # NoId
                      /\ i > 1 => t[i].k # "junk"
      BY Zenon DEF WireOK
  <2>1. /\ i + 1 \in 1 .. Len(s) /\ i \in 1 .. Len(s) - 1 /\ i + 1 > 1
        /\ i + 1 < Len(s) => i < Len(t) /\ i + 1 \in 1 .. Len(s) - 1
      BY <1>1
  <2>2. t[i] = s[i + 1] BY Zenon, <1>1, <2>1
  <2>3. i + 1 < Len(s) => t[i + 1] = s[(i + 1) + 1] BY Zenon, <1>1, <2>1
  <2> QED BY <2>1, <2>2, <2>3 DEF WireOK
<1>3. s[1].k = "push" => Len(s) >= 2 /\ s[2].id = NoId
  <2>1. 1 \in 1 .. Len(s) /\ 1 + 1 = 2 BY <1>1
  <2> QED BY <1>1, <2>1 DEF WireOK
<1> QED BY Zenon, <1>2, <1>3 DEF t

\* The frame that handlePush or a call consumes, and the bytes of a push.
LEMMA DropFacts ==
    ASSUME Typed, WireInv, toClient # <<>>, DropPush
    PROVE  \E d \in {1, 2} :
              /\ d = 2 <=> Head(toClient).k = "push"
              /\ Len(toClient) >= d /\ Len(toClient') = Len(toClient) - d
              /\ \A i \in 1 .. Len(toClient) - d : toClient'[i] = toClient[i + d]
              /\ d = 2 => toClient[2].id = NoId
              /\ WireInv'
<1>1. toClient \in Seq(ClientItem) /\ WireOK(toClient) BY Zenon DEF Typed, WireTyped, WireInv
<1>2. Head(toClient) = toClient[1] /\ Len(toClient) \in Nat \ {0} BY Zenon, <1>1, TailFacts
<1>3. CASE Head(toClient).k = "push"
  <2>1. Len(toClient) >= 2 /\ toClient[2].id = NoId BY Zenon, <1>1, <1>2, <1>3, WireTail
  <2>2. toClient' = SubSeq(toClient, 3, Len(toClient)) BY Zenon, <1>3 DEF DropPush
  <2>3. /\ Len(toClient') = Len(toClient) - 2
        /\ \A i \in 1 .. Len(toClient) - 2 : toClient'[i] = toClient[i + 2]
      BY Zenon, <1>1, <2>1, <2>2, DropTwo
  <2>4. WireOK(toClient')
    <3>1. toClient' = Tail(Tail(toClient))
      <4> DEFINE t == Tail(toClient)
                 u == Tail(t)
      <4>1. /\ t \in Seq(ClientItem) /\ Len(t) = Len(toClient) - 1
            /\ \A i \in 1 .. Len(toClient) - 1 : t[i] = toClient[i + 1]
          BY Zenon, <1>1, TailFacts
      <4>2. t # <<>>
        <5>1. \A q : q = <<>> => Len(q) = 0 OBVIOUS
        <5>2. Len(t) # 0 BY <1>2, <2>1, <4>1
        <5> QED BY Zenon, <5>1, <5>2
      <4>3. /\ u \in Seq(ClientItem) /\ Len(u) = Len(t) - 1
            /\ \A i \in 1 .. Len(t) - 1 : u[i] = t[i + 1]
          BY Zenon, <4>1, <4>2, TailFacts
      <4>4. toClient' \in Seq(ClientItem) BY Zenon, <1>1, <2>1, <2>2, DropTwo
      <4> HIDE DEF t, u
      <4>5. Len(toClient') = Len(u) BY <1>2, <2>3, <4>1, <4>3
      <4>6. \A i \in 1 .. Len(u) : toClient'[i] = u[i]
        <5> TAKE i \in 1 .. Len(u)
        <5>1. /\ i \in 1 .. Len(toClient) - 2 /\ i \in 1 .. Len(t) - 1
              /\ i + 1 \in 1 .. Len(toClient) - 1 /\ (i + 1) + 1 = i + 2
            BY <1>2, <4>1, <4>3
        <5> QED BY Zenon, <2>3, <4>1, <4>3, <5>1
      <4>7. toClient' = u BY <4>3, <4>4, <4>5, <4>6
      <4> QED BY Zenon, <4>7 DEF u, t
    <3>2. Tail(toClient) \in Seq(ClientItem) /\ Tail(toClient) # <<>>
      <4>1. Tail(toClient) \in Seq(ClientItem) /\ Len(Tail(toClient)) = Len(toClient) - 1
          BY Zenon, <1>1, TailFacts
      <4>2. \A q : q = <<>> => Len(q) = 0 OBVIOUS
      <4>3. Len(Tail(toClient)) # 0 BY <1>2, <2>1, <4>1
      <4> QED BY Zenon, <4>1, <4>2, <4>3
    <3> QED BY Zenon, <1>1, <3>1, <3>2, WireTail
  <2> QED BY Zenon, <1>2, <1>3, <2>1, <2>3, <2>4 DEF WireInv
<1>4. CASE Head(toClient).k # "push"
  <2>1. toClient' = Tail(toClient) BY Zenon, <1>1, <1>4, DropOne DEF DropPush
  <2>2. WireOK(toClient') BY Zenon, <1>1, <2>1, WireTail
  <2>3. /\ Len(toClient') = Len(toClient) - 1
        /\ \A i \in 1 .. Len(toClient) - 1 : toClient'[i] = toClient[i + 1]
      BY Zenon, <1>1, <2>1, TailFacts
  <2> QED BY <1>2, <1>4, <2>2, <2>3 DEF WireInv
<1> QED BY Zenon, <1>3, <1>4

\* What a task sends while the client's end is open.
LEMMA SentFacts ==
    ASSUME PoolInv, RunTask, ~closed
    PROVE  LET t == Head(queue) IN
           /\ t \in Task /\ worker.at = "loop"
           /\ \/ /\ t.k \in OwnTasks \ {"recv"} /\ t.id # NoId /\ t \in ClientItem
                 /\ toClient' = toClient \o <<t>> /\ worker' = worker
              \/ /\ t.k = "recv" /\ t.id # NoId
                 /\ toClient' = toClient \o <<Item("response", t.id, TRUE)>>
                 /\ worker'.at = "recv" /\ UNCHANGED handlers
              \/ /\ t.k = "push" /\ t.id = NoId /\ t \in ClientItem
                 /\ toClient' = toClient \o <<t, Item("bytes", NoId, TRUE)>>
                 /\ worker' = worker /\ UNCHANGED handlers
              \/ /\ t.k \in {"del", "rel"} /\ t.id = NoId /\ t \in ClientItem
                 /\ toClient' = toClient \o <<t>> /\ worker'.at # "recv" /\ UNCHANGED handlers
<1> DEFINE t == Head(queue)
<1>1. queue # <<>> /\ worker.at = "loop" BY Zenon DEF RunTask
<1>2. t \in Task /\ t = queue[1] /\ Len(queue) \in Nat \ {0}
    BY Zenon, <1>1, TailFacts DEF PoolInv, Typed, PoolTyped
<1>3. t.k \in Notices => t.id = NoId
  <2>1. 1 \in 1 .. Len(queue) BY <1>2
  <2> QED BY Zenon, <1>2, <2>1 DEF PoolInv, QueueInv
<1>4. t.k \in OwnTasks => t.id # NoId
  <2> SUFFICES ASSUME t.k \in OwnTasks PROVE t.id # NoId BY Zenon
  <2>1. PICK h \in handlers : TaskOf(Head(queue), h) BY Zenon, <1>1, OwnTask
  <2>2. h.id \in Ids BY Zenon DEF PoolInv, Typed, PoolTyped, Handler
  <2> QED BY Zenon, <2>1, <2>2 DEF TaskOf, Ids
<1>5. t.k # "recv" => t \in ClientItem
    BY Zenon, <1>2 DEF Task, ClientItem, OwnTasks, Answers, Raw
<1>6. \A items : Send(items) => toClient' = toClient \o items BY Zenon DEF Send
<1>7. t.k \in OwnTasks \cup Notices BY Zenon, <1>2 DEF Task
<1>8. \/ /\ t.k \in {"response", "map", "bytes"} /\ Send(<<t>>) /\ UNCHANGED worker
      \/ /\ t.k = "recv" /\ Send(<<Item("response", t.id, TRUE)>>)
         /\ worker' = [at |-> "recv", id |-> t.id] /\ UNCHANGED handlers
      \/ /\ t.k = "push" /\ Send(<<t, Item("bytes", NoId, TRUE)>>) /\ UNCHANGED <<handlers, worker>>
      \/ /\ t.k = "del" /\ Send(<<t>>) /\ UNCHANGED <<handlers, worker>>
      \/ /\ t.k = "rel" /\ Send(<<t>>)
         /\ worker' = [at |-> "wait", id |-> NoId] /\ UNCHANGED handlers
    BY Zenon DEF RunTask
<1>10. t.k = "recv" => worker'.at = "recv"
  <2>1. t.k = "recv" => worker' = [at |-> "recv", id |-> t.id] BY Zenon, <1>8
  <2> QED BY <2>1
<1>11. t.k = "rel" => worker'.at = "wait"
  <2>1. t.k = "rel" => worker' = [at |-> "wait", id |-> NoId] BY Zenon, <1>8
  <2> QED BY <2>1
<1> HIDE DEF t
<1>9. \/ /\ t.k \in OwnTasks \ {"recv"} /\ t.id # NoId /\ t \in ClientItem
         /\ toClient' = toClient \o <<t>> /\ worker' = worker
      \/ /\ t.k = "recv" /\ t.id # NoId
         /\ toClient' = toClient \o <<Item("response", t.id, TRUE)>>
         /\ worker'.at = "recv" /\ UNCHANGED handlers
      \/ /\ t.k = "push" /\ t.id = NoId /\ t \in ClientItem
         /\ toClient' = toClient \o <<t, Item("bytes", NoId, TRUE)>>
         /\ worker' = worker /\ UNCHANGED handlers
      \/ /\ t.k \in {"del", "rel"} /\ t.id = NoId /\ t \in ClientItem
         /\ toClient' = toClient \o <<t>> /\ worker'.at # "recv" /\ UNCHANGED handlers
  <2>1. CASE t.k \in {"response", "map", "bytes"}
      BY Zenon, <1>4, <1>5, <1>6, <1>8, <2>1 DEF OwnTasks
  <2>2. CASE t.k = "recv" BY Zenon, <1>4, <1>6, <1>8, <1>10, <2>2 DEF OwnTasks
  <2>3. CASE t.k = "push" BY Zenon, <1>3, <1>5, <1>6, <1>8, <2>3 DEF Notices
  <2>4. CASE t.k = "del" BY Zenon, <1>1, <1>3, <1>5, <1>6, <1>8, <2>4 DEF Notices
  <2>5. CASE t.k = "rel" BY Zenon, <1>3, <1>5, <1>6, <1>8, <1>11, <2>5 DEF Notices
  <2> QED BY Zenon, <1>7, <2>1, <2>2, <2>3, <2>4, <2>5 DEF OwnTasks, Notices
<1> QED BY Zenon, <1>1, <1>2, <1>9 DEF t

\* Sending keeps the order.
LEMMA WireSend ==
    ASSUME NEW s \in Seq(ClientItem), WireOK(s), NEW x \in ClientItem, x.k # "junk",
           x.k \in Notices => x.id = NoId, x.k \in Answers => x.id # NoId
    PROVE  /\ x.k # "push" => WireOK(s \o <<x>>)
           /\ \A y \in ClientItem : y.k = "bytes" /\ y.id = NoId => WireOK(s \o <<x, y>>)
<1>1. ASSUME x.k # "push" PROVE WireOK(s \o <<x>>)
  <2> DEFINE t == s \o <<x>>
  <2>1. /\ Len(t) = Len(s) + 1 /\ Len(s) \in Nat
        /\ \A i \in 1 .. Len(s) : t[i] = s[i]
        /\ t[Len(s) + 1] = x
      BY SendOne
  <2> HIDE DEF t
  <2>2. WireOK(t)
    <3> SUFFICES ASSUME NEW i \in 1 .. Len(t)
                 PROVE  /\ t[i].k = "push" => i < Len(t) /\ t[i + 1].id = NoId
                        /\ t[i].k \in Notices => t[i].id = NoId
                        /\ t[i].k \in Answers => t[i].id # NoId
                        /\ i > 1 => t[i].k # "junk"
        BY Zenon DEF WireOK
    <3>1. CASE i \in 1 .. Len(s)
      <4>1. i < Len(s) => i + 1 \in 1 .. Len(s) /\ t[i + 1] = s[i + 1] BY <2>1, <3>1
      <4>2. i < Len(s) => i < Len(t) BY <2>1
      <4>3. t[i] = s[i] BY Zenon, <2>1, <3>1
      <4> QED BY Zenon, <3>1, <4>1, <4>2, <4>3 DEF WireOK
    <3>2. CASE i = Len(s) + 1 BY Zenon, <1>1, <2>1, <3>2
    <3> QED BY <2>1, <3>1, <3>2
  <2> QED BY Zenon, <2>2 DEF t
<1>2. ASSUME NEW y \in ClientItem, y.k = "bytes", y.id = NoId PROVE WireOK(s \o <<x, y>>)
  <2> DEFINE t == s \o <<x, y>>
  <2>1. /\ Len(t) = Len(s) + 2 /\ Len(s) \in Nat
        /\ \A i \in 1 .. Len(s) : t[i] = s[i]
        /\ t[Len(s) + 1] = x /\ t[Len(s) + 2] = y
      BY SendTwo
  <2> HIDE DEF t
  <2>2. WireOK(t)
    <3> SUFFICES ASSUME NEW i \in 1 .. Len(t)
                 PROVE  /\ t[i].k = "push" => i < Len(t) /\ t[i + 1].id = NoId
                        /\ t[i].k \in Notices => t[i].id = NoId
                        /\ t[i].k \in Answers => t[i].id # NoId
                        /\ i > 1 => t[i].k # "junk"
        BY Zenon DEF WireOK
    <3>1. CASE i \in 1 .. Len(s)
      <4>1. i < Len(s) => i + 1 \in 1 .. Len(s) /\ t[i + 1] = s[i + 1] BY <2>1, <3>1
      <4>2. i < Len(s) => i < Len(t) BY <2>1
      <4>3. t[i] = s[i] BY Zenon, <2>1, <3>1
      <4> QED BY Zenon, <3>1, <4>1, <4>2, <4>3 DEF WireOK
    <3>2. CASE i = Len(s) + 1
      <4>1. t[i] = x /\ i < Len(t) /\ t[i + 1] = y BY <2>1, <3>2
      <4> QED BY Zenon, <1>2, <4>1
    <3>3. CASE i = Len(s) + 2
      <4>1. t[i] = y BY Zenon, <2>1, <3>3
      <4> QED BY Zenon, <1>2, <4>1 DEF Notices, Answers
    <3> QED BY <2>1, <3>1, <3>2, <3>3
  <2> QED BY Zenon, <2>2 DEF t
<1> QED BY Zenon, <1>1, <1>2

\* The order on the way to the client is kept.
LEMMA WireStep ==
    ASSUME PoolInv, WireInv, Next
    PROVE  WireInv'
<1>1. Typed /\ toClient \in Seq(ClientItem) /\ WireOK(toClient)
    BY Zenon DEF PoolInv, Typed, WireTyped, WireInv
<1>2. UNCHANGED toClient => WireInv' BY DEF WireInv, WireOK
<1>3. ASSUME toClient # <<>>, toClient' = Tail(toClient) PROVE WireInv'
    BY Zenon, <1>1, <1>3, WireTail DEF WireInv
<1>4. ASSUME toClient # <<>>, DropPush PROVE WireInv' BY Zenon, <1>1, <1>4, DropFacts
<1>5. ASSUME NEW op \in Ops, Call(op) PROVE WireInv' BY Zenon, <1>2, <1>5 DEF Call
<1>6. CASE SendRequest BY Zenon, <1>2, <1>6 DEF SendRequest
<1>7. CASE SendClose BY Zenon, <1>2, <1>7 DEF SendClose
<1>8. CASE TakeBadFrame BY Zenon, <1>3, <1>8 DEF TakeBadFrame
<1>9. CASE TakeAck BY Zenon, <1>3, <1>9 DEF TakeAck
<1>10. CASE TakeData
  <2>1. CASE toClient' = Tail(toClient) BY Zenon, <1>3, <1>10, <2>1 DEF TakeData
  <2>2. CASE toClient' = AfterSize(toClient)
    <3>1. toClient # <<>> BY Zenon, <1>10 DEF TakeData
    <3>2. Item("junk", Head(toClient).id, FALSE) \in ClientItem
        BY Zenon, <1>1, <3>1, TailFacts DEF ClientItem, Item, Raw
    <3>3. /\ Len(toClient') = Len(toClient) /\ Len(toClient) \in Nat \ {0}
          /\ toClient'[1] = Item("junk", toClient[1].id, FALSE)
          /\ \A i \in 2 .. Len(toClient) : toClient'[i] = toClient[i]
        BY Zenon, <1>1, <2>2, <3>1, <3>2, AfterSizeFacts
    <3>4. toClient'[1].k = "junk" BY <3>3 DEF Item
    <3>5. WireOK(toClient')
      <4> SUFFICES ASSUME NEW i \in 1 .. Len(toClient')
                   PROVE  /\ toClient'[i].k = "push" =>
                                i < Len(toClient') /\ toClient'[i + 1].id = NoId
                          /\ toClient'[i].k \in Notices => toClient'[i].id = NoId
                          /\ toClient'[i].k \in Answers => toClient'[i].id # NoId
                          /\ i > 1 => toClient'[i].k # "junk"
          BY Zenon DEF WireOK
      <4>1. CASE i = 1 BY <3>4, <4>1 DEF Notices, Answers
      <4>2. CASE i \in 2 .. Len(toClient)
        <5>1. toClient'[i] = toClient[i] /\ i \in 1 .. Len(toClient) BY Zenon, <3>3, <4>2
        <5>2. i < Len(toClient) => toClient'[i + 1] = toClient[i + 1] BY <3>3, <4>2
        <5> QED BY <1>1, <3>3, <5>1, <5>2 DEF WireOK
      <4> QED BY <3>3, <4>1, <4>2
    <3> QED BY Zenon, <3>5 DEF WireInv
  <2> QED BY Zenon, <1>10, <2>1, <2>2 DEF TakeData
<1>11. CASE TakeResult BY Zenon, <1>3, <1>11 DEF TakeResult
<1>12. CASE TakeSync BY Zenon, <1>4, <1>12 DEF TakeSync
<1>13. CASE ReadLoop BY Zenon, <1>3, <1>4, <1>13 DEF ReadLoop
<1>14. CASE Timeout BY Zenon, <1>2, <1>14 DEF Timeout
<1>15. CASE HangUp BY Zenon, <1>2, <1>15 DEF HangUp
<1>16. CASE ReadRequest BY Zenon, <1>2, <1>16 DEF ReadRequest
<1>17. CASE RunTask
  <2>1. CASE closed BY Zenon, <1>2, <1>17, <2>1 DEF RunTask, Send
  <2>2. CASE ~closed
    <3> DEFINE t == Head(queue)
               r == Item("response", t.id, TRUE)
               b == Item("bytes", NoId, TRUE)
    <3>1. /\ t \in Task
          /\ \/ /\ t.k \in OwnTasks \ {"recv"} /\ t.id # NoId /\ t \in ClientItem
                /\ toClient' = toClient \o <<t>>
             \/ /\ t.k = "recv" /\ t.id # NoId /\ toClient' = toClient \o <<r>>
             \/ /\ t.k = "push" /\ t.id = NoId /\ t \in ClientItem
                /\ toClient' = toClient \o <<t, b>>
             \/ /\ t.k \in {"del", "rel"} /\ t.id = NoId /\ t \in ClientItem
                /\ toClient' = toClient \o <<t>>
        BY Zenon, <1>17, <2>2, SentFacts
    <3>2. /\ r \in ClientItem /\ r.k = "response" /\ r.id = t.id
          /\ b \in ClientItem /\ b.k = "bytes" /\ b.id = NoId
        BY Zenon, <3>1 DEF ClientItem, Item, Answers, Raw, NoId, Task
    <3> HIDE DEF t, r, b
    <3>3. WireOK(toClient')
      <4>1. CASE t.k \in OwnTasks \ {"recv"} /\ t.id # NoId /\ t \in ClientItem
                 /\ toClient' = toClient \o <<t>>
          BY Zenon, <1>1, <4>1, WireSend DEF OwnTasks, Notices
      <4>2. CASE t.id # NoId /\ toClient' = toClient \o <<r>>
          BY Zenon, <1>1, <3>2, <4>2, WireSend DEF Notices
      <4>3. CASE t.k = "push" /\ t.id = NoId /\ t \in ClientItem
                 /\ toClient' = toClient \o <<t, b>>
          BY Zenon, <1>1, <3>2, <4>3, WireSend DEF Answers
      <4>4. CASE t.k \in {"del", "rel"} /\ t.id = NoId /\ t \in ClientItem
                 /\ toClient' = toClient \o <<t>>
          BY Zenon, <1>1, <4>4, WireSend DEF Answers
      <4> QED BY Zenon, <3>1, <4>1, <4>2, <4>3, <4>4
    <3> QED BY Zenon, <3>3 DEF WireInv
  <2> QED BY Zenon, <2>1, <2>2
<1>18. CASE ReceiveBytes BY Zenon, <1>2, <1>18 DEF ReceiveBytes
<1>19. CASE ReceiveAnswer BY Zenon, <1>2, <1>19 DEF ReceiveAnswer
<1>20. CASE ReadEnd BY Zenon, <1>2, <1>20 DEF ReadEnd
<1>21. CASE WorkerExit BY Zenon, <1>2, <1>21 DEF WorkerExit
<1>22. ASSUME NEW h \in handlers, HandlerCall(h) PROVE WireInv' BY Zenon, <1>2, <1>22 DEF HandlerCall
<1>23. ASSUME NEW h \in handlers, HandlerDone(h) PROVE WireInv' BY Zenon, <1>2, <1>23 DEF HandlerDone
<1>24. ASSUME NEW kind \in PushKinds, Post(kind) PROVE WireInv' BY Zenon, <1>2, <1>24 DEF Post
<1> QED
    BY Zenon, <1>5, <1>6, <1>7, <1>8, <1>9, <1>10, <1>11, <1>12, <1>13, <1>14, <1>15, <1>16,
       <1>17, <1>18, <1>19, <1>20, <1>21, <1>22, <1>23, <1>24 DEF Next

-----------------------------------------------------------------------------
(* Answers in step with calls.                                             *)

\* The items of calls are the same, d places further to the front.
Shifted(d) ==
    /\ \A i \in 1 .. Len(toClient') : Mine(i)' =>
          i + d \in 1 .. Len(toClient) /\ toClient'[i] = toClient[i + d]
    /\ \A i \in d + 1 .. Len(toClient) : Mine(i) =>
          i - d \in 1 .. Len(toClient') /\ toClient'[i - d] = toClient[i]

\* Handlers have to do what they had to do.
Kept(g, h) == g.todo = h.todo /\ g.id = h.id /\ g.op = h.op
SameHandlers ==
    /\ \A g \in handlers' : g.todo # <<>> => \E h \in handlers : Kept(g, h)
    /\ \A h \in handlers : h.todo # <<>> => \E g \in handlers' : Kept(g, h)

\* What the invariants say of an item stays true of it.
LEMMA ShiftFacts ==
    ASSUME Typed, Typed', NEW d \in Nat, Shifted(d), SameHandlers
    PROVE  /\ Finished => Finished'
           /\ \A i \in 1 .. Len(toClient') : Mine(i)' => Mine(i + d) /\ toClient'[i] = toClient[i + d]
           /\ \A i \in 1 .. Len(toClient') : Final(i + d) => Final(i)'
           /\ \A from \in Nat \ {0} : BytesNext(from + d) => BytesNext(from)'
<1>1. /\ Len(toClient) \in Nat /\ Len(toClient') \in Nat
    BY DEF Typed, WireTyped
<1>2. Finished => Finished' BY Zenon DEF Finished, SameHandlers, Kept
<1>3. \A i \in 1 .. Len(toClient') : Mine(i)' => Mine(i + d) /\ toClient'[i] = toClient[i + d]
    BY Zenon DEF Shifted, Mine
<1>4. ASSUME NEW i \in 1 .. Len(toClient'), Final(i + d) PROVE Final(i)'
  <2>1. Finished' BY Zenon, <1>2, <1>4 DEF Final
  <2>2. ASSUME NEW j \in i + 1 .. Len(toClient'), Mine(j)' PROVE FALSE
    <3>1. j \in 1 .. Len(toClient') BY <1>1
    <3>2. j + d \in 1 .. Len(toClient) /\ toClient'[j] = toClient[j + d]
        BY Zenon, <2>2, <3>1 DEF Shifted
    <3>3. j + d \in (i + d) + 1 .. Len(toClient) BY <1>1, <3>2
    <3>4. Mine(j + d) BY Zenon, <2>2, <3>2 DEF Mine
    <3> QED BY Zenon, <1>4, <3>3, <3>4 DEF Final
  <2> QED BY Zenon, <2>1, <2>2 DEF Final
<1>5. ASSUME NEW from \in Nat \ {0}, BytesNext(from + d) PROVE BytesNext(from)'
  <2>1. CASE \E i \in from + d .. Len(toClient) :
                /\ Mine(i) /\ toClient[i].k = "bytes"
                /\ \A j \in from + d .. i - 1 : ~Mine(j)
    <3>1. PICK i \in from + d .. Len(toClient) :
                /\ Mine(i) /\ toClient[i].k = "bytes"
                /\ \A j \in from + d .. i - 1 : ~Mine(j)
        BY Zenon, <2>1
    <3>2. i \in d + 1 .. Len(toClient) BY <1>1
    <3>3. i - d \in 1 .. Len(toClient') /\ toClient'[i - d] = toClient[i]
        BY Zenon, <3>1, <3>2 DEF Shifted
    <3>4. i - d \in from .. Len(toClient') BY <1>1, <3>3
    <3>5. Mine(i - d)' /\ toClient'[i - d].k = "bytes" BY Zenon, <3>1, <3>3 DEF Mine
    <3>6. ASSUME NEW j \in from .. (i - d) - 1, Mine(j)' PROVE FALSE
      <4>1. j \in 1 .. Len(toClient') BY <1>1, <3>3
      <4>2. j + d \in 1 .. Len(toClient) /\ toClient'[j] = toClient[j + d]
          BY Zenon, <3>6, <4>1 DEF Shifted
      <4>3. j + d \in from + d .. i - 1 BY <1>1, <4>2
      <4> QED BY Zenon, <3>1, <3>6, <4>2, <4>3 DEF Mine
    <3> QED BY Zenon, <3>4, <3>5, <3>6 DEF BytesNext
  <2>2. CASE /\ \A i \in from + d .. Len(toClient) : ~Mine(i)
             /\ \E h \in handlers : h.todo = <<"bytes", "result">>
    <3>1. \E h \in handlers' : h.todo = <<"bytes", "result">>
      <4>1. PICK h \in handlers : h.todo = <<"bytes", "result">> BY Zenon, <2>2
      <4>2. h.todo # <<>> BY Zenon, <4>1, TodosDiffer
      <4> QED BY Zenon, <4>1, <4>2 DEF SameHandlers, Kept
    <3>2. ASSUME NEW i \in from .. Len(toClient'), Mine(i)' PROVE FALSE
      <4>1. i \in 1 .. Len(toClient') BY <1>1
      <4>2. i + d \in 1 .. Len(toClient) /\ toClient'[i] = toClient[i + d]
          BY Zenon, <3>2, <4>1 DEF Shifted
      <4>3. i + d \in from + d .. Len(toClient) BY <1>1, <4>2
      <4> QED BY Zenon, <2>2, <3>2, <4>2, <4>3 DEF Mine
    <3> QED BY Zenon, <3>1, <3>2 DEF BytesNext
  <2> QED BY Zenon, <1>5, <2>1, <2>2 DEF BytesNext
<1> QED BY Zenon, <1>2, <1>3, <1>4, <1>5

\* The same when only items of no call went from the front.
LEMMA SkipFacts ==
    ASSUME Typed, Typed', NEW d \in Nat, Shifted(d), SameHandlers,
           \A i \in 1 .. Len(toClient) : Mine(i) => i > d
    PROVE  /\ NothingMine <=> NothingMine'
           /\ \A i \in 1 .. Len(toClient') : Mine(i)' => (FirstMine(i)' <=> FirstMine(i + d))
           /\ BytesNext(1) => BytesNext(1)'
<1>1. /\ Len(toClient) \in Nat /\ Len(toClient') \in Nat
    BY DEF Typed, WireTyped
<1>2. NothingMine => NothingMine' BY Zenon, ShiftFacts DEF NothingMine, Shifted, Mine
<1>3. NothingMine' => NothingMine
  <2> SUFFICES ASSUME NEW i \in 1 .. Len(toClient), Mine(i), NothingMine' PROVE FALSE
      BY Zenon DEF NothingMine
  <2>1. i \in d + 1 .. Len(toClient) BY <1>1
  <2>2. i - d \in 1 .. Len(toClient') /\ toClient'[i - d] = toClient[i] BY Zenon, <2>1 DEF Shifted
  <2> QED BY Zenon, <2>2 DEF NothingMine, Mine
<1>4. ASSUME NEW i \in 1 .. Len(toClient'), Mine(i)', FirstMine(i)' PROVE FirstMine(i + d)
  <2>1. i + d \in 1 .. Len(toClient) /\ toClient'[i] = toClient[i + d] BY Zenon, <1>4 DEF Shifted
  <2>2. Mine(i + d) BY Zenon, <1>4, <2>1 DEF Mine
  <2>3. ASSUME NEW j \in 1 .. (i + d) - 1, Mine(j) PROVE FALSE
    <3>1. j \in d + 1 .. Len(toClient) BY <1>1, <2>1, <2>3
    <3>2. j - d \in 1 .. Len(toClient') /\ toClient'[j - d] = toClient[j]
        BY Zenon, <2>3, <3>1 DEF Shifted
    <3>3. j - d \in 1 .. i - 1 BY <1>1, <3>2
    <3> QED BY Zenon, <1>4, <2>3, <3>2, <3>3 DEF FirstMine, Mine
  <2> QED BY Zenon, <2>2, <2>3 DEF FirstMine
<1>5. ASSUME NEW i \in 1 .. Len(toClient'), Mine(i)', FirstMine(i + d) PROVE FirstMine(i)'
  <2>1. ASSUME NEW j \in 1 .. i - 1, Mine(j)' PROVE FALSE
    <3>1. j \in 1 .. Len(toClient') BY <1>1
    <3>2. j + d \in 1 .. Len(toClient) /\ toClient'[j] = toClient[j + d]
        BY Zenon, <2>1, <3>1 DEF Shifted
    <3>3. j + d \in 1 .. (i + d) - 1 BY <1>1, <3>2
    <3> QED BY Zenon, <1>5, <2>1, <3>2, <3>3 DEF FirstMine, Mine
  <2> QED BY Zenon, <1>5, <2>1 DEF FirstMine
<1>6. BytesNext(1) => BytesNext(1 + d)
  <2> SUFFICES ASSUME BytesNext(1) PROVE BytesNext(1 + d) BY Zenon
  <2>1. \A i \in 1 + d .. Len(toClient) : i \in 1 .. Len(toClient) BY <1>1
  <2>2. CASE \E i \in 1 .. Len(toClient) :
                /\ Mine(i) /\ toClient[i].k = "bytes"
                /\ \A j \in 1 .. i - 1 : ~Mine(j)
    <3>1. PICK i \in 1 .. Len(toClient) :
                /\ Mine(i) /\ toClient[i].k = "bytes"
                /\ \A j \in 1 .. i - 1 : ~Mine(j)
        BY Zenon, <2>2
    <3>2. i \in 1 + d .. Len(toClient) BY <1>1, <3>1
    <3>3. \A j \in 1 + d .. i - 1 : j \in 1 .. i - 1 BY <1>1
    <3> QED BY Zenon, <3>1, <3>2, <3>3 DEF BytesNext
  <2>3. CASE ~\E i \in 1 .. Len(toClient) :
                /\ Mine(i) /\ toClient[i].k = "bytes"
                /\ \A j \in 1 .. i - 1 : ~Mine(j)
      BY Zenon, <2>1, <2>3 DEF BytesNext
  <2> QED BY Zenon, <2>2, <2>3
<1>7. BytesNext(1 + d) => BytesNext(1)' BY ShiftFacts
<1> QED BY Zenon, <1>2, <1>3, <1>4, <1>5, <1>6, <1>7

\* Steps that leave the call, and what is done for it, alone.
LEMMA InStepFrame ==
    ASSUME Typed, Typed', InStep, call' = call, done \subseteq done', SameHandlers,
           worker.at = "recv" <=> worker'.at = "recv",
           toServer' = toServer \/ toServer' = <<>>,
           NEW d \in Nat, Shifted(d), \A i \in 1 .. Len(toClient) : Mine(i) => i > d
    PROVE  InStep'
<1>1. /\ Finished => Finished'
      /\ \A i \in 1 .. Len(toClient') : Mine(i)' =>
            i + d \in 1 .. Len(toClient) /\ Mine(i + d) /\ toClient'[i] = toClient[i + d]
      /\ \A i \in 1 .. Len(toClient') : Final(i + d) => Final(i)'
      /\ \A from \in Nat \ {0} : BytesNext(from + d) => BytesNext(from)'
    BY Zenon, ShiftFacts DEF Shifted
<1>2. /\ NothingMine <=> NothingMine'
      /\ \A i \in 1 .. Len(toClient') : Mine(i)' => (FirstMine(i)' <=> FirstMine(i + d))
      /\ BytesNext(1) => BytesNext(1)'
    BY Zenon, SkipFacts
<1>3. \A i \in 1 .. Len(toClient') : Mine(i)' /\ IsResult(i + d) => IsResult(i)'
    BY Zenon, <1>1 DEF IsResult, IsAck
<1>4. Executing' <=> Executing BY Zenon DEF Executing
<1>5. Pending'
  <2>1. \A i \in 1 .. Len(toClient') : Mine(i)' => toClient'[i].id = call'.id
      BY Zenon, <1>1 DEF InStep, Pending
  <2>2. ASSUME NEW g \in handlers', g.todo # <<>>
        PROVE  g.id = call'.id /\ g.op = call'.op /\ Executing'
    <3>1. PICK h \in handlers : Kept(g, h)
      BY Zenon, <2>2 DEF SameHandlers
    <3>2. h.todo # <<>> /\ g.id = h.id /\ g.op = h.op
      BY Zenon, <2>2, <3>1 DEF Kept
    <3>3. h.id = call.id /\ h.op = call.op /\ Executing
      BY Zenon, <3>2 DEF InStep, Pending
    <3> QED BY Zenon, <1>4, <3>2, <3>3
  <2>3. CASE toServer' = <<>> BY <2>1, <2>2, <2>3 DEF Pending
  <2>4. CASE toServer' = toServer BY Zenon, <1>1, <1>2, <2>1, <2>2, <2>4 DEF InStep, Pending
  <2> QED BY Zenon, <2>3, <2>4
<1>6. AtRest' BY Zenon, <1>1, <1>2 DEF InStep, AtRest
<1>7. AtAck'
  <2>1. ASSUME call.at = "ack", call.op = "UPDATE"
        PROVE  /\ \A h \in handlers' : h.todo # <<>> => Receiving(h)
               /\ \A i \in 1 .. Len(toClient') : Mine(i)' =>
                     /\ worker'.at = "recv" /\ toClient'[i].k = "response" /\ toClient'[i].ok
                     /\ \A j \in 1 .. Len(toClient') : Mine(j)' => j = i
    <3>1. \A h \in handlers' : h.todo # <<>> => Receiving(h)
        BY <2>1 DEF InStep, AtAck, SameHandlers, Kept, Receiving
    <3>2. ASSUME NEW i \in 1 .. Len(toClient'), Mine(i)'
          PROVE  /\ worker'.at = "recv" /\ toClient'[i].k = "response" /\ toClient'[i].ok
                 /\ \A j \in 1 .. Len(toClient') : Mine(j)' => j + d = i + d
        BY Zenon, <1>1, <2>1, <3>2 DEF InStep, AtAck
    <3>3. \A i, j \in 1 .. Len(toClient') : j + d = i + d => j = i OBVIOUS
    <3> QED BY Zenon, <3>1, <3>2, <3>3
  <2>2. ASSUME call.at = "ack", call.op = "READ"
        PROVE  /\ \A h \in handlers' :
                     /\ h.todo \in {<<"ack", "bytes", "result">>, <<"nack">>} => NothingMine'
                     /\ h.todo = <<"result">> => ~NothingMine'
               /\ \A i \in 1 .. Len(toClient') : Mine(i)' /\ toClient'[i].k \in Answers =>
                     IF FirstMine(i)' /\ toClient'[i].ok THEN BytesNext(i + 1)' ELSE IsResult(i)'
    <3>1. ASSUME NEW g \in handlers'
          PROVE  /\ g.todo \in {<<"ack", "bytes", "result">>, <<"nack">>} => NothingMine'
                 /\ g.todo = <<"result">> => ~NothingMine'
      <4>1. CASE g.todo = <<>> BY Zenon, <4>1, TodosDiffer
      <4>2. CASE g.todo # <<>>
        <5>1. PICK h \in handlers : Kept(g, h) BY Zenon, <4>2 DEF SameHandlers
        <5> QED BY Zenon, <1>2, <2>2, <5>1 DEF InStep, AtAck, Kept
      <4> QED BY Zenon, <4>1, <4>2
    <3>2. ASSUME NEW i \in 1 .. Len(toClient'), Mine(i)', toClient'[i].k \in Answers
          PROVE  IF FirstMine(i)' /\ toClient'[i].ok THEN BytesNext(i + 1)' ELSE IsResult(i)'
      <4>1. /\ i + d \in 1 .. Len(toClient) /\ Mine(i + d) /\ toClient'[i] = toClient[i + d]
            /\ FirstMine(i)' <=> FirstMine(i + d)
          BY Zenon, <1>1, <1>2, <3>2
      <4>2. IF FirstMine(i + d) /\ toClient[i + d].ok THEN BytesNext((i + d) + 1)
            ELSE IsResult(i + d)
          BY Zenon, <2>2, <3>2, <4>1 DEF InStep, AtAck
      <4>3. (i + d) + 1 = (i + 1) + d /\ i + 1 \in Nat \ {0} OBVIOUS
      <4>4. BytesNext((i + d) + 1) => BytesNext(i + 1)' BY Zenon, <1>1, <4>3
      <4> QED BY Zenon, <1>3, <3>2, <4>1, <4>2, <4>4
    <3> QED BY Zenon, <3>1, <3>2
  <2> QED BY Zenon, <2>1, <2>2 DEF AtAck
<1>8. AtData'
  <2> SUFFICES ASSUME call.at = "data"
               PROVE  /\ call.op = "READ" /\ BytesNext(1)'
                      /\ \A h \in handlers' :
                            h.todo \notin {<<"ack", "bytes", "result">>, <<"nack">>}
                      /\ \A i \in 1 .. Len(toClient') :
                            Mine(i)' /\ toClient'[i].k \in Answers => IsResult(i)'
      BY Zenon DEF AtData
  <2>1. call.op = "READ" /\ BytesNext(1)' BY Zenon, <1>2 DEF InStep, AtData
  <2>2. \A h \in handlers' : h.todo \notin {<<"ack", "bytes", "result">>, <<"nack">>}
      BY Zenon, TodosDiffer DEF InStep, AtData, SameHandlers, Kept
  <2>3. \A i \in 1 .. Len(toClient') : Mine(i)' /\ toClient'[i].k \in Answers => IsResult(i)'
      BY Zenon, <1>1, <1>3 DEF InStep, AtData
  <2> QED BY Zenon, <2>1, <2>2, <2>3
<1>9. AtResult'
  <2> SUFFICES ASSUME call.at = "result"
               PROVE  /\ \A h \in handlers' :
                            /\ h.todo # <<"ack", "bytes", "result">>
                            /\ Receiving(h) /\ call.op = "UPDATE" => worker'.at = "recv"
                      /\ \A i \in 1 .. Len(toClient') :
                            Mine(i)' /\ toClient'[i].k \in Answers => IsResult(i)'
      BY Zenon DEF AtResult
  <2>1. ASSUME NEW g \in handlers'
        PROVE  /\ g.todo # <<"ack", "bytes", "result">>
               /\ Receiving(g) /\ call.op = "UPDATE" => worker'.at = "recv"
    <3>1. CASE g.todo = <<>> BY Zenon, <3>1, TodosDiffer DEF Receiving
    <3>2. CASE g.todo # <<>>
      <4>1. PICK h \in handlers : Kept(g, h) BY Zenon, <3>2 DEF SameHandlers
      <4> QED BY Zenon, <4>1 DEF InStep, AtResult, Kept, Receiving
    <3> QED BY Zenon, <3>1, <3>2
  <2>2. \A i \in 1 .. Len(toClient') : Mine(i)' /\ toClient'[i].k \in Answers => IsResult(i)'
      BY Zenon, <1>1, <1>3 DEF InStep, AtResult
  <2> QED BY Zenon, <2>1, <2>2
<1> QED BY Zenon, <1>5, <1>6, <1>7, <1>8, <1>9 DEF InStep

-----------------------------------------------------------------------------
(* The steps, one by one.                                                  *)

\* A session that is dead, disturbed or in front of junk stays so.
LEMMA SoundBack ==
    ASSUME PoolInv, WireInv, Next, Sound'
    PROVE  Sound
<1>1. CallTyped /\ toClient \in Seq(ClientItem)
    BY Zenon DEF PoolInv, Typed, WireTyped
<1>2. cAlive
    BY Zenon DEF Next, Call, SendRequest, SendClose, TakeBadFrame, TakeAck, TakeData, TakeResult,
           TakeSync, ReadLoop, Timeout, HangUp, ReadRequest, RunTask, ReceiveBytes,
           ReceiveAnswer, ReadEnd, WorkerExit, HandlerCall, HandlerDone, Post, clientVars, Sound
<1>3. disturbed \subseteq Ops
    BY Zenon DEF Next, Call, SendRequest, SendClose, TakeBadFrame, TakeAck, TakeData, TakeResult,
           TakeSync, ReadLoop, Timeout, HangUp, ReadRequest, RunTask, ReceiveBytes,
           ReceiveAnswer, ReadEnd, WorkerExit, HandlerCall, HandlerDone, Post, clientVars, Sound
<1>4. ASSUME toClient # <<>>, toClient[1].k = "junk" PROVE FALSE
  <2>1. Head(toClient) = toClient[1] /\ Len(toClient) \in Nat \ {0} BY Zenon, <1>1, <1>4, TailFacts
  <2>2. Head(toClient).k \in Raw /\ Head(toClient).k # "bytes" BY Zenon, <1>4, <2>1 DEF Raw
  <2>3. UNCHANGED toClient => FALSE BY Zenon, <1>4 DEF Sound
  <2>4. TakeBadFrame => FALSE BY Zenon DEF TakeBadFrame, Sound
  <2>5. TakeAck => FALSE BY Zenon, <2>2 DEF TakeAck
  <2>6. TakeData => FALSE
    <3> SUFFICES ASSUME TakeData PROVE FALSE BY Zenon
    <3>1. toClient' = AfterSize(toClient) BY Zenon, <2>2 DEF TakeData
    <3>2. Item("junk", Head(toClient).id, FALSE) \in ClientItem
        BY Zenon, <1>1, <1>4, TailFacts DEF ClientItem, Item, Raw
    <3>3. toClient' # <<>> /\ toClient'[1] = Item("junk", toClient[1].id, FALSE)
        BY Zenon, <1>1, <1>4, <3>1, <3>2, AfterSizeFacts
    <3> QED BY <3>3 DEF Sound, Item
  <2>7. TakeResult => FALSE BY Zenon, <2>2 DEF TakeResult
  <2>8. TakeSync => FALSE BY Zenon, <2>2 DEF TakeSync
  <2>9. ReadLoop => FALSE BY Zenon, <2>2 DEF ReadLoop, Sound
  <2>10. RunTask => FALSE
    <3> SUFFICES ASSUME RunTask, ~UNCHANGED toClient PROVE FALSE BY Zenon, <2>3
    <3>1. ~closed BY Zenon DEF RunTask, Send
    <3> DEFINE t == Head(queue)
               r == Item("response", t.id, TRUE)
               b == Item("bytes", NoId, TRUE)
    <3>2. /\ t \in Task
          /\ \/ t \in ClientItem /\ toClient' = toClient \o <<t>>
             \/ toClient' = toClient \o <<r>>
             \/ t \in ClientItem /\ toClient' = toClient \o <<t, b>>
        BY Zenon, <3>1, SentFacts
    <3>3. r \in ClientItem /\ b \in ClientItem
        BY Zenon, <3>2 DEF ClientItem, Item, Answers, Raw, NoId, Task
    <3> HIDE DEF t, r, b
    <3>4. 1 \in 1 .. Len(toClient) BY <2>1
    <3>5. ASSUME NEW x \in ClientItem, toClient' = toClient \o <<x>> PROVE FALSE
      <4>1. toClient' # <<>> /\ toClient'[1] = toClient[1] BY <1>1, <3>4, <3>5, SendOne
      <4> QED BY Zenon, <1>4, <4>1 DEF Sound
    <3>6. ASSUME toClient' = toClient \o <<t, b>>, t \in ClientItem PROVE FALSE
      <4>1. toClient' # <<>> /\ toClient'[1] = toClient[1] BY <1>1, <3>3, <3>4, <3>6, SendTwo
      <4> QED BY Zenon, <1>4, <4>1 DEF Sound
    <3> QED BY Zenon, <3>2, <3>3, <3>5, <3>6
  <2>11. Next /\ ~UNCHANGED toClient =>
             \/ TakeBadFrame \/ TakeAck \/ TakeData \/ TakeResult \/ TakeSync \/ ReadLoop
             \/ RunTask
      BY Zenon DEF Next, Call, SendRequest, SendClose, Timeout, HangUp, ReadRequest, ReceiveBytes,
             ReceiveAnswer, ReadEnd, WorkerExit, HandlerCall, HandlerDone, Post
  <2> QED BY Zenon, <2>3, <2>4, <2>5, <2>6, <2>7, <2>8, <2>9, <2>10, <2>11
<1> QED BY Zenon, <1>2, <1>3, <1>4 DEF Sound

\* Handlers and items that did not change.
LEMMA NoShift ==
    /\ UNCHANGED handlers => SameHandlers
    /\ UNCHANGED toClient => Shifted(0)
<1>1. UNCHANGED handlers => SameHandlers BY Zenon DEF SameHandlers, Kept
<1>2. ASSUME UNCHANGED toClient PROVE Shifted(0)
  <2>1. \A i \in 1 .. Len(toClient) : i + 0 = i /\ i - 0 = i OBVIOUS
  <2>2. \A i \in 0 + 1 .. Len(toClient) : i \in 1 .. Len(toClient) OBVIOUS
  <2> QED BY Zenon, <1>2, <2>1, <2>2 DEF Shifted, Mine
<1> QED BY Zenon, <1>1, <1>2

\* Items dropped at the front.
LEMMA DropShift ==
    ASSUME Typed, NEW d \in Nat, Len(toClient) >= d, Len(toClient') = Len(toClient) - d,
           \A i \in 1 .. Len(toClient) - d : toClient'[i] = toClient[i + d]
    PROVE  Shifted(d)
<1>1. Len(toClient) \in Nat BY DEF Typed, WireTyped
<1>2. ASSUME NEW i \in 1 .. Len(toClient')
      PROVE  i + d \in 1 .. Len(toClient) /\ toClient'[i] = toClient[i + d]
  <2>1. i \in 1 .. Len(toClient) - d BY Zenon
  <2> QED BY <1>1, <2>1
<1>3. ASSUME NEW i \in d + 1 .. Len(toClient)
      PROVE  i - d \in 1 .. Len(toClient') /\ toClient'[i - d] = toClient[i]
  <2>1. i - d \in 1 .. Len(toClient) - d /\ (i - d) + d = i BY <1>1
  <2> QED BY Zenon, <2>1
<1> QED BY Zenon, <1>2, <1>3 DEF Shifted

\* Items of no call sent.
LEMMA SendShift ==
    ASSUME Typed, NEW x \in ClientItem, NEW y \in ClientItem, x.id = NoId, y.id = NoId,
           toClient' = toClient \o <<x>> \/ toClient' = toClient \o <<x, y>>
    PROVE  Shifted(0)
<1>1. toClient \in Seq(ClientItem) BY Zenon DEF Typed, WireTyped
<1>2. /\ Len(toClient) \in Nat /\ Len(toClient') \in {Len(toClient) + 1, Len(toClient) + 2}
      /\ \A i \in 1 .. Len(toClient) : toClient'[i] = toClient[i]
      /\ \A i \in 1 .. Len(toClient') : i > Len(toClient) => toClient'[i].id = NoId
  <2>1. CASE toClient' = toClient \o <<x>>
    <3>1. /\ Len(toClient') = Len(toClient) + 1 /\ Len(toClient) \in Nat
          /\ \A i \in 1 .. Len(toClient) : toClient'[i] = toClient[i]
          /\ toClient'[Len(toClient) + 1] = x
        BY <1>1, <2>1, SendOne
    <3>2. \A i \in 1 .. Len(toClient') : i > Len(toClient) => i = Len(toClient) + 1 BY <3>1
    <3> QED BY Zenon, <3>1, <3>2
  <2>2. CASE toClient' = toClient \o <<x, y>>
    <3>1. /\ Len(toClient') = Len(toClient) + 2 /\ Len(toClient) \in Nat
          /\ \A i \in 1 .. Len(toClient) : toClient'[i] = toClient[i]
          /\ toClient'[Len(toClient) + 1] = x /\ toClient'[Len(toClient) + 2] = y
        BY <1>1, <2>2, SendTwo
    <3>2. \A i \in 1 .. Len(toClient') :
              i > Len(toClient) => i \in {Len(toClient) + 1, Len(toClient) + 2} BY <3>1
    <3> QED BY Zenon, <3>1, <3>2
  <2> QED BY Zenon, <2>1, <2>2
<1>3. ASSUME NEW i \in 1 .. Len(toClient'), Mine(i)'
      PROVE  i + 0 \in 1 .. Len(toClient) /\ toClient'[i] = toClient[i + 0]
  <2>1. i \in 1 .. Len(toClient) BY <1>2, <1>3 DEF Mine
  <2>2. i + 0 = i OBVIOUS
  <2> QED BY Zenon, <1>2, <2>1, <2>2
<1>4. ASSUME NEW i \in 0 + 1 .. Len(toClient)
      PROVE  i - 0 \in 1 .. Len(toClient') /\ toClient'[i - 0] = toClient[i]
  <2>1. i \in 1 .. Len(toClient) /\ i - 0 = i /\ i \in 1 .. Len(toClient') BY <1>2
  <2> QED BY Zenon, <1>2, <2>1
<1> QED BY Zenon, <1>3, <1>4 DEF Shifted

\* A session in use, before and after a step.
Ready ==
    /\ PoolInv /\ StreamInv /\ WireInv /\ Sound /\ Sound' /\ PoolInv'
    /\ Late \/ InStep

\* Steps that leave the call, and what is done for it, alone.
LEMMA FrameStep ==
    ASSUME Ready, call' = call, done \subseteq done', SameHandlers,
           worker.at = "recv" <=> worker'.at = "recv",
           toServer' = toServer \/ toServer' = <<>>,
           NEW d \in Nat, Shifted(d), \A i \in 1 .. Len(toClient) : Mine(i) => i > d
    PROVE  Late' \/ InStep'
<1>1. Typed /\ Typed' BY Zenon DEF Ready, PoolInv
<1>2. CASE Late
  <2>1. BytesNext(1) => BytesNext(1)' BY Zenon, <1>1, SkipFacts
  <2> QED BY Zenon, <1>2, <2>1 DEF Late
<1>3. CASE InStep BY Zenon, <1>1, <1>3, InStepFrame
<1> QED BY Zenon, <1>2, <1>3 DEF Ready

\* Nothing to come for the call, and nothing sent.
LEMMA Resting ==
    ASSUME NothingMine', Finished', toServer' = <<>>, call'.at \in {"idle", "queued"}
    PROVE  InStep'
<1>1. Pending' BY DEF Pending, NothingMine, Finished
<1>2. AtRest' BY Zenon DEF AtRest
<1>3. AtAck' /\ AtData' /\ AtResult' BY Zenon DEF AtAck, AtData, AtResult
<1> QED BY Zenon, <1>1, <1>2, <1>3 DEF InStep

\* What may be on its way to the server.
LEMMA OnTheWay ==
    ASSUME PoolInv, InStep, toServer # <<>>
    PROVE  /\ Len(toServer) = 1 /\ Head(toServer) = toServer[1]
           /\ \/ /\ toServer[1].k \in Ops /\ toServer[1].id = call.id
                 /\ toServer[1].k = call.op /\ call.at = FirstWait(call.op)
                 /\ Finished /\ NothingMine
              \/ /\ toServer[1].k = "bytes" /\ call.at = "result" /\ call.op = "UPDATE"
                 /\ worker.at = "recv" /\ ~Finished
<1>1. toServer \in Seq(ServerItem) BY Zenon DEF PoolInv, Typed, WireTyped
<1>2. /\ Len(toServer) \in Nat \ {0} /\ Head(toServer) = toServer[1]
      /\ toServer[1] \in ServerItem
    BY Zenon, <1>1, TailFacts
<1>3. 1 \in 1 .. Len(toServer) BY <1>2
<1>4. toServer[1].k \in Ops \/ toServer[1].k = "bytes"
    BY Zenon, <1>2, <1>3 DEF InStep, Pending, ServerItem, Raw
<1>5. worker.at = "recv" => ~Finished BY Zenon, OwnBytes, TodosDiffer DEF Finished, Receiving
<1>6. CASE toServer[1].k \in Ops BY Zenon, <1>2, <1>3, <1>6 DEF InStep, Pending
<1>7. CASE toServer[1].k = "bytes" BY Zenon, <1>2, <1>3, <1>5, <1>7 DEF InStep, Pending
<1> QED BY Zenon, <1>4, <1>6, <1>7

\* A new call, and its request.
LEMMA CallStep ==
    ASSUME Ready, (\E op \in Ops : Call(op)) \/ SendRequest \/ SendClose
    PROVE  Late' \/ InStep'
<1>1. UNCHANGED <<toClient, handlers>> /\ call'.at # "data" /\ call.at \in {"idle", "queued"}
  <2>1. call \in [id: Nat, op: Ops, at: {"idle", "queued", "ack", "data", "result"}]
      BY Zenon DEF Ready, PoolInv, Typed, CallTyped
  <2>2. ASSUME NEW op \in Ops, Call(op)
        PROVE  /\ UNCHANGED <<toClient, handlers>> /\ call'.at # "data"
               /\ call.at \in {"idle", "queued"}
      BY Zenon, <2>2 DEF Call, serverVars
  <2>3. CASE SendRequest BY Zenon, <2>1, <2>3 DEF SendRequest, serverVars, FirstWait
  <2>4. CASE SendClose BY Zenon, <2>1, <2>4 DEF SendClose, serverVars
  <2> QED BY Zenon, <2>2, <2>3, <2>4
<1>2. CASE Late BY Zenon, <1>1, <1>2 DEF Late, BytesNext, Mine
<1>3. CASE InStep
  <2>1. Finished /\ NothingMine BY Zenon, <1>1, <1>3 DEF InStep, AtRest
  <2>2. toServer = <<>>
    <3> SUFFICES ASSUME toServer # <<>> PROVE FALSE BY Zenon
    <3>1. call.at \in {FirstWait(call.op), "result"} BY Zenon, <1>3, OnTheWay DEF Ready
    <3> QED BY Zenon, <1>1, <3>1 DEF FirstWait
  <2>3. Finished' /\ NothingMine' BY Zenon, <1>1, <2>1 DEF Finished, NothingMine, Mine
  <2>4. ASSUME NEW op \in Ops, Call(op) PROVE InStep'
    <3>1. call'.at = "queued" /\ toServer' = <<>> BY Zenon, <2>2, <2>4 DEF Call
    <3> QED BY Zenon, <2>3, <3>1, Resting
  <2>5. CASE SendRequest
    <3> DEFINE x == Item(call.op, call.id, TRUE)
    <3>1. /\ toServer' = Append(<<>>, x) /\ call' = [call EXCEPT !.at = FirstWait(call.op)]
          /\ call \in [id: Nat, op: Ops, at: {"idle", "queued", "ack", "data", "result"}]
        BY Zenon, <2>2, <2>5 DEF SendRequest, Ready, PoolInv, Typed, CallTyped
    <3>2. call'.id = call.id /\ call'.op = call.op /\ call'.at = FirstWait(call.op)
        BY Zenon, <3>1
    <3>3. x.k = call.op /\ x.id = call.id /\ x.k \in Ops BY Zenon, <3>1 DEF Item
    <3> HIDE DEF x
    <3>4. Len(toServer') = 1 /\ toServer'[1] = x BY <3>1
    <3>5. \A i \in 1 .. Len(toServer') : i = 1 BY <3>4
    <3>6. x.k # "junk" /\ x.k # "bytes" BY Zenon, <3>3 DEF Ops
    <3>7. Pending'
        BY Zenon, <2>3, <3>2, <3>3, <3>4, <3>5, <3>6 DEF Pending, NothingMine, Finished
    <3>8. call'.at \in {"ack", "result"} BY Zenon, <3>2 DEF FirstWait
    <3>9. AtRest' /\ AtData' BY Zenon, <3>8 DEF AtRest, AtData
    <3>10. AtAck' /\ AtResult'
        BY Zenon, <2>3, TodosDiffer DEF AtAck, AtResult, NothingMine, Finished, Receiving
    <3> QED BY Zenon, <3>7, <3>9, <3>10 DEF InStep
  <2>6. CASE SendClose BY Zenon, <2>6 DEF SendClose, Ready, Sound
  <2> QED BY Zenon, <2>4, <2>5, <2>6
<1> QED BY Zenon, <1>2, <1>3 DEF Ready

\* The frame a call takes is an answer to a call, or disturbs it.
LEMMA HeadIsMine ==
    ASSUME Typed, WireInv, toClient # <<>>, Head(toClient).k \notin Raw \cup Notices
    PROVE  /\ Head(toClient) = toClient[1] /\ Len(toClient) \in Nat \ {0}
           /\ FirstMine(1) /\ Mine(1) /\ toClient[1].k \in Answers /\ ~NothingMine
           /\ ~Late
<1>1. toClient \in Seq(ClientItem) BY Zenon DEF Typed, WireTyped
<1>2. /\ Head(toClient) = toClient[1] /\ Len(toClient) \in Nat \ {0}
      /\ toClient[1] \in ClientItem
    BY <1>1, TailFacts
<1>3. toClient[1].k \in Answers BY Zenon, <1>2 DEF ClientItem
<1>4. 1 \in 1 .. Len(toClient) BY <1>2
<1>5. Mine(1) BY Zenon, <1>3, <1>4 DEF WireInv, WireOK, Mine
<1>6. FirstMine(1) /\ ~NothingMine BY <1>4, <1>5 DEF FirstMine, NothingMine
<1>7. ~BytesNext(1)
  <2> SUFFICES ASSUME BytesNext(1) PROVE FALSE BY Zenon
  <2>1. PICK i \in 1 .. Len(toClient) :
            /\ Mine(i) /\ toClient[i].k = "bytes"
            /\ \A j \in 1 .. i - 1 : ~Mine(j)
      BY Zenon, <1>4, <1>5 DEF BytesNext
  <2>2. i = 1 \/ 1 \in 1 .. i - 1 BY <1>2
  <2> QED BY Zenon, <1>3, <1>5, <2>1, <2>2 DEF Answers
<1> QED BY Zenon, <1>2, <1>3, <1>5, <1>6, <1>7 DEF Late

\* The frame that ends a call, taken.
LEMMA EndStep ==
    ASSUME Ready, InStep, Mine(1), IsResult(1), toClient # <<>>, toClient' = Tail(toClient),
           call'.at = "idle", UNCHANGED <<handlers, toServer>>
    PROVE  InStep'
<1>1. toClient \in Seq(ClientItem) BY Zenon DEF Ready, PoolInv, Typed, WireTyped
<1>2. /\ Len(toClient') = Len(toClient) - 1 /\ Len(toClient) \in Nat \ {0}
      /\ \A i \in 1 .. Len(toClient) - 1 : toClient'[i] = toClient[i + 1]
    BY Zenon, <1>1, TailFacts
<1>3. NothingMine'
  <2> SUFFICES ASSUME NEW i \in 1 .. Len(toClient') PROVE ~Mine(i)' BY Zenon DEF NothingMine
  <2>1. i \in 1 .. Len(toClient) - 1 /\ i + 1 \in 1 + 1 .. Len(toClient) BY <1>2
  <2> QED BY Zenon, <1>2, <2>1 DEF IsResult, Final, Mine
<1>4. Finished' BY Zenon DEF IsResult, Final, Finished
<1>5. toServer' = <<>>
  <2> SUFFICES ASSUME toServer # <<>> PROVE FALSE BY Zenon
  <2>1. NothingMine \/ ~Finished BY Zenon, OnTheWay DEF Ready
  <2>2. 1 \in 1 .. Len(toClient) BY <1>2
  <2> QED BY Zenon, <2>1, <2>2 DEF NothingMine, IsResult, Final
<1> QED BY Zenon, <1>3, <1>4, <1>5, Resting

\* waitForAck.
LEMMA AckStep ==
    ASSUME Ready, TakeAck
    PROVE  Late' \/ InStep'
<1>1. /\ call.at = "ack" /\ toClient # <<>> /\ Head(toClient).k \notin Raw
      /\ toClient' = Tail(toClient) /\ UNCHANGED <<handlers, worker, done>>
      /\ disturbed' = disturbed \cup TakenForAnswer(Head(toClient))
    BY Zenon DEF TakeAck, serverVars
<1>2. /\ Typed /\ Typed' /\ WireInv /\ PoolInv
      /\ call \in [id: Nat, op: Ops, at: {"idle", "queued", "ack", "data", "result"}]
      /\ toClient \in Seq(ClientItem)
    BY Zenon DEF Ready, PoolInv, Typed, WireTyped, CallTyped
<1>3. Head(toClient).k \notin Notices
    BY Zenon, <1>1 DEF Ready, Sound, TakenForAnswer, Notices, Ops
<1>4. /\ Head(toClient) = toClient[1] /\ Len(toClient) \in Nat \ {0}
      /\ FirstMine(1) /\ Mine(1) /\ toClient[1].k \in Answers /\ ~NothingMine
      /\ ~Late
    BY Zenon, <1>1, <1>2, <1>3, HeadIsMine
<1>5. InStep /\ 1 \in 1 .. Len(toClient) BY <1>4 DEF Ready
<1>6. toServer = <<>>
  <2> SUFFICES ASSUME toServer # <<>> PROVE FALSE BY Zenon
  <2>1. NothingMine \/ call.at = "result" BY Zenon, <1>2, <1>5, OnTheWay
  <2> QED BY Zenon, <1>1, <1>4, <2>1
<1>7. /\ Len(toClient') = Len(toClient) - 1
      /\ \A i \in 1 .. Len(toClient) - 1 : toClient'[i] = toClient[i + 1]
    BY Zenon, <1>1, <1>2, TailFacts
<1>8. Shifted(1) /\ SameHandlers
  <2>1. 1 \in Nat /\ Len(toClient) >= 1 BY <1>4
  <2>2. Shifted(1) BY Zenon, <1>2, <1>7, <2>1, DropShift
  <2> QED BY Zenon, <1>1, <2>2, NoShift
<1>9. /\ Finished => Finished'
      /\ \A i \in 1 .. Len(toClient') : Mine(i)' => Mine(i + 1) /\ toClient'[i] = toClient[i + 1]
      /\ \A i \in 1 .. Len(toClient') : Final(i + 1) => Final(i)'
      /\ BytesNext(2) => BytesNext(1)'
  <2>1. 1 \in Nat \ {0} /\ 1 + 1 = 2 OBVIOUS
  <2> QED BY Zenon, <1>2, <1>8, <2>1, ShiftFacts
<1>10. \A i \in 1 .. Len(toClient') : i + 1 \in 1 .. Len(toClient) BY <1>4, <1>7
<1>11. call.op \in {"READ", "UPDATE"} BY Zenon, <1>1 DEF Ready, StreamInv
<1>12. CASE call.op = "READ"
  <2>1. IF toClient[1].ok THEN BytesNext(2) ELSE IsResult(1)
    <3>1. 1 + 1 = 2 OBVIOUS
    <3> QED BY Zenon, <1>1, <1>4, <1>5, <1>12, <3>1 DEF InStep, AtAck
  <2>2. CASE ~toClient[1].ok
    <3>1. call' = [call EXCEPT !.at = "idle"] /\ toServer' = toServer
        BY Zenon, <1>4, <2>2 DEF TakeAck, IsAck, Return
    <3>2. call'.at = "idle" BY Zenon, <1>2, <3>1
    <3> QED BY Zenon, <1>1, <1>4, <1>5, <2>1, <2>2, <3>1, <3>2, EndStep
  <2>3. CASE toClient[1].ok /\ toClient[1].k # "response"
    <3>1. call' = [call EXCEPT !.at = "idle"]
        BY Zenon, <1>4, <2>3 DEF TakeAck, IsAck, Return
    <3>2. call'.at = "idle" BY Zenon, <1>2, <3>1
    <3> QED BY Zenon, <1>9, <2>1, <2>3, <3>2 DEF Late
  <2>4. CASE toClient[1].ok /\ toClient[1].k = "response"
    <3>1. call' = [call EXCEPT !.at = "data"] /\ toServer' = <<>>
        BY Zenon, <1>4, <1>6, <1>12, <2>4 DEF TakeAck, IsAck
    <3>2. call'.at = "data" /\ call'.id = call.id /\ call'.op = "READ" BY Zenon, <1>2, <1>12, <3>1
    <3>3. Pending'
      <4>1. \A i \in 1 .. Len(toClient') : Mine(i)' => toClient'[i].id = call'.id
          BY Zenon, <1>5, <1>9, <1>10, <3>2 DEF InStep, Pending
      <4>2. \A h \in handlers' : h.todo # <<>> =>
                h.id = call'.id /\ h.op = call'.op /\ Executing'
          BY Zenon, <1>1, <1>5, <1>12, <3>2 DEF InStep, Pending, Executing
      <4> QED BY <3>1, <4>1, <4>2 DEF Pending
    <3>4. BytesNext(1)' BY Zenon, <1>9, <2>1, <2>4
    <3>5. \A h \in handlers' : h.todo \notin {<<"ack", "bytes", "result">>, <<"nack">>}
        BY Zenon, <1>1, <1>4, <1>5, <1>12 DEF InStep, AtAck
    <3>6. ASSUME NEW i \in 1 .. Len(toClient'), Mine(i)', toClient'[i].k \in Answers
          PROVE  IsResult(i)'
      <4>1. i + 1 \in 1 .. Len(toClient) /\ Mine(i + 1) /\ toClient'[i] = toClient[i + 1]
          BY Zenon, <1>9, <1>10, <3>6
      <4>2. ~FirstMine(i + 1)
        <5>1. 1 \in 1 .. (i + 1) - 1 OBVIOUS
        <5> QED BY Zenon, <1>4, <5>1 DEF FirstMine
      <4>3. IsResult(i + 1) BY Zenon, <1>1, <1>5, <1>12, <3>6, <4>1, <4>2 DEF InStep, AtAck
      <4> QED BY Zenon, <1>1, <1>9, <3>2, <4>1, <4>3 DEF IsResult, IsAck
    <3>7. AtData' BY Zenon, <3>2, <3>4, <3>5, <3>6 DEF AtData
    <3>8. AtRest' /\ AtAck' /\ AtResult' BY Zenon, <3>2 DEF AtRest, AtAck, AtResult
    <3> QED BY Zenon, <3>3, <3>7, <3>8 DEF InStep
  <2> QED BY Zenon, <2>2, <2>3, <2>4
<1>13. CASE call.op = "UPDATE"
  <2>1. /\ \A h \in handlers : h.todo # <<>> => Receiving(h)
        /\ worker.at = "recv" /\ toClient[1].k = "response" /\ toClient[1].ok
        /\ \A j \in 1 .. Len(toClient) : Mine(j) => j = 1
      BY Zenon, <1>1, <1>4, <1>5, <1>13 DEF InStep, AtAck
  <2> DEFINE x == Item("bytes", call.id, TRUE)
  <2>2. /\ call' = [call EXCEPT !.at = "result"] /\ toServer' = Append(<<>>, x)
      BY Zenon, <1>4, <1>6, <1>13, <2>1 DEF TakeAck, IsAck
  <2>3. call'.at = "result" /\ call'.id = call.id /\ call'.op = "UPDATE" BY Zenon, <1>2, <1>13, <2>2
  <2>4. x.k = "bytes" BY Zenon DEF Item
  <2> HIDE DEF x
  <2>5. Len(toServer') = 1 /\ toServer'[1] = x BY <2>2
  <2>6. \A i \in 1 .. Len(toServer') : i = 1 BY <2>5
  <2>7. NothingMine'
    <3> SUFFICES ASSUME NEW i \in 1 .. Len(toClient'), Mine(i)' PROVE FALSE BY Zenon DEF NothingMine
    <3>1. i + 1 = 1 BY Zenon, <1>9, <1>10, <2>1
    <3> QED BY <3>1
  <2>8. Pending'
    <3>1. \A h \in handlers' : h.todo # <<>> =>
              h.id = call'.id /\ h.op = call'.op /\ Executing'
        BY Zenon, <1>1, <1>5, <1>13, <2>3 DEF InStep, Pending, Executing
    <3>2. x.k \notin Ops BY Zenon, <2>4 DEF Ops
    <3> QED BY Zenon, <1>1, <2>1, <2>3, <2>4, <2>5, <2>6, <2>7, <3>1, <3>2 DEF Pending, NothingMine
  <2>9. AtResult'
      BY Zenon, <1>1, <2>1, <2>7, TodosDiffer DEF AtResult, NothingMine, Receiving
  <2>10. AtRest' /\ AtAck' /\ AtData' BY Zenon, <2>3 DEF AtRest, AtAck, AtData
  <2> QED BY Zenon, <2>8, <2>9, <2>10 DEF InStep
<1> QED BY Zenon, <1>11, <1>12, <1>13

\* receiveFile.
LEMMA DataStep ==
    ASSUME Ready, TakeData
    PROVE  Late' \/ InStep'
<1>1. /\ call.at = "data" /\ toClient # <<>> /\ UNCHANGED <<handlers, worker, done, toServer>>
    BY Zenon DEF TakeData, serverVars
<1>2. /\ Typed /\ Typed' /\ WireInv /\ PoolInv
      /\ call \in [id: Nat, op: Ops, at: {"idle", "queued", "ack", "data", "result"}]
      /\ toClient \in Seq(ClientItem)
    BY Zenon DEF Ready, PoolInv, Typed, WireTyped, CallTyped
<1>3. InStep BY Zenon, <1>1 DEF Ready, Late
<1>4. Head(toClient) = toClient[1] /\ Len(toClient) \in Nat \ {0} BY Zenon, <1>1, <1>2, TailFacts
<1>5. CASE Head(toClient).k # "bytes"
  <2>1. toClient' = AfterSize(toClient) BY Zenon, <1>5 DEF TakeData
  <2>2. Item("junk", Head(toClient).id, FALSE) \in ClientItem
      BY Zenon, <1>1, <1>2, TailFacts DEF ClientItem, Item, Raw
  <2>3. toClient' # <<>> /\ toClient'[1] = Item("junk", toClient[1].id, FALSE)
      BY Zenon, <1>1, <1>2, <2>1, <2>2, AfterSizeFacts
  <2> QED BY <2>3 DEF Ready, Sound, Item
<1>6. CASE Head(toClient).k = "bytes"
  <2>1. toClient' = Tail(toClient) /\ call' = [call EXCEPT !.at = "result"]
      BY Zenon, <1>6 DEF TakeData
  <2>2. call'.at = "result" /\ call'.id = call.id /\ call'.op = call.op BY Zenon, <1>2, <2>1
  <2>3. /\ Len(toClient') = Len(toClient) - 1
        /\ \A i \in 1 .. Len(toClient) - 1 : toClient'[i] = toClient[i + 1]
      BY Zenon, <1>1, <1>2, <2>1, TailFacts
  <2>4. Shifted(1) /\ SameHandlers BY <1>1, <1>2, <1>4, <2>3, DropShift, NoShift
  <2>5. call.op = "READ" /\ BytesNext(1) BY Zenon, <1>1, <1>3 DEF InStep, AtData
  <2>6. CASE ~Mine(1)
    <3>1. \A i \in 1 .. Len(toClient) : Mine(i) => i > 1 BY <2>6
    <3>2. BytesNext(1)' BY Zenon, <1>2, <2>4, <2>5, <3>1, SkipFacts
    <3> QED BY Zenon, <2>2, <3>2 DEF Late
  <2>7. CASE Mine(1)
    <3>1. /\ \A i \in 1 .. Len(toClient') :
                Mine(i)' => Mine(i + 1) /\ toClient'[i] = toClient[i + 1]
          /\ \A i \in 1 .. Len(toClient') : Final(i + 1) => Final(i)'
        BY Zenon, <1>2, <2>4, ShiftFacts
    <3>2. \A i \in 1 .. Len(toClient') : i + 1 \in 1 .. Len(toClient) BY <1>4, <2>3
    <3>3. toServer' = <<>>
      <4> SUFFICES ASSUME toServer # <<>> PROVE FALSE BY Zenon, <1>1
      <4>1. call.at \in {FirstWait(call.op), "result"} BY Zenon, <1>2, <1>3, OnTheWay
      <4> QED BY Zenon, <1>1, <4>1 DEF FirstWait
    <3>4. Pending'
      <4>1. \A i \in 1 .. Len(toClient') : Mine(i)' => toClient'[i].id = call'.id
          BY Zenon, <1>3, <2>2, <3>1, <3>2 DEF InStep, Pending
      <4>2. \A h \in handlers' : h.todo # <<>> =>
                h.id = call'.id /\ h.op = call'.op /\ Executing'
          BY Zenon, <1>1, <1>3, <2>2 DEF InStep, Pending, Executing
      <4> QED BY <3>3, <4>1, <4>2 DEF Pending
    <3>5. ASSUME NEW i \in 1 .. Len(toClient'), Mine(i)', toClient'[i].k \in Answers
          PROVE  IsResult(i)'
      <4>1. i + 1 \in 1 .. Len(toClient) /\ Mine(i + 1) /\ toClient'[i] = toClient[i + 1]
          BY Zenon, <3>1, <3>2, <3>5
      <4>2. IsResult(i + 1) BY Zenon, <1>1, <1>3, <3>5, <4>1 DEF InStep, AtData
      <4> QED BY Zenon, <1>1, <2>2, <3>1, <4>1, <4>2 DEF IsResult, IsAck
    <3>6. AtResult' BY Zenon, <1>1, <1>3, <2>2, <2>5, <3>5 DEF InStep, AtData, AtResult
    <3>7. AtRest' /\ AtAck' /\ AtData' BY Zenon, <2>2 DEF AtRest, AtAck, AtData
    <3> QED BY Zenon, <3>4, <3>6, <3>7 DEF InStep
  <2> QED BY Zenon, <2>6, <2>7
<1> QED BY Zenon, <1>5, <1>6

\* The frame that ends a call.
LEMMA ResultStep ==
    ASSUME Ready, TakeResult \/ (TakeSync /\ Head(toClient).k \in Answers)
    PROVE  InStep' /\ (IsAck(Head(toClient)) => call.id \in done)
<1>1. /\ call.at = "result" /\ toClient # <<>> /\ Head(toClient).k \notin Raw
      /\ UNCHANGED <<handlers, toServer>>
    BY Zenon DEF TakeResult, TakeSync, serverVars
<1>2. /\ Typed /\ WireInv /\ toClient \in Seq(ClientItem)
      /\ call \in [id: Nat, op: Ops, at: {"idle", "queued", "ack", "data", "result"}]
    BY Zenon DEF Ready, PoolInv, Typed, WireTyped, CallTyped
<1>3. Head(toClient).k \notin Notices
  <2>1. CASE TakeResult
    <3>1. disturbed' = disturbed \cup TakenForAnswer(Head(toClient)) BY Zenon, <2>1 DEF TakeResult
    <3> QED BY Zenon, <3>1 DEF Ready, Sound, TakenForAnswer, Notices, Ops
  <2>2. CASE Head(toClient).k \in Answers BY Zenon, <2>2 DEF Notices, Answers
  <2> QED BY Zenon, <2>1, <2>2
<1>4. /\ Head(toClient) = toClient[1] /\ Len(toClient) \in Nat \ {0}
      /\ Mine(1) /\ toClient[1].k \in Answers /\ ~Late
    BY Zenon, <1>1, <1>2, <1>3, HeadIsMine
<1>5. InStep /\ 1 \in 1 .. Len(toClient) BY <1>4 DEF Ready
<1>6. IsResult(1) BY Zenon, <1>1, <1>4, <1>5 DEF InStep, AtResult
<1>7. toClient' = Tail(toClient)
  <2>1. CASE TakeResult BY Zenon, <2>1 DEF TakeResult
  <2>2. CASE TakeSync
      BY Zenon, <1>2, <1>3, <2>2, DropOne DEF TakeSync, DropPush, Notices
  <2> QED BY Zenon, <2>1, <2>2
<1>8. call' = [call EXCEPT !.at = "idle"]
    BY Zenon, <1>3, <1>4 DEF TakeResult, TakeSync, Return, Notices
<1>9. call'.at = "idle" BY Zenon, <1>2, <1>8
<1>10. InStep' BY Zenon, <1>1, <1>4, <1>5, <1>6, <1>7, <1>9, EndStep
<1>11. IsAck(Head(toClient)) => call.id \in done BY Zenon, <1>4, <1>6 DEF IsResult
<1> QED BY Zenon, <1>10, <1>11

\* Pushes between calls, or in front of a version map.
LEMMA PushStep ==
    ASSUME Ready, (TakeSync /\ Head(toClient).k \notin Answers) \/ ReadLoop
    PROVE  Late' \/ InStep'
<1>1. /\ toClient # <<>> /\ UNCHANGED <<handlers, worker, done, toServer>>
      /\ cAlive' = TRUE /\ (ReadLoop => call.at \in {"idle", "queued"})
    BY Zenon DEF TakeSync, ReadLoop, serverVars, Ready, Sound, PoolInv, Typed, CallTyped
<1>2. Head(toClient).k \notin Raw /\ DropPush /\ call' = call
    BY Zenon, <1>1 DEF TakeSync, ReadLoop, Answers
<1>3. Typed /\ WireInv BY Zenon DEF Ready, PoolInv
<1>4. PICK d \in {1, 2} :
         /\ d = 2 <=> Head(toClient).k = "push"
         /\ Len(toClient) >= d /\ Len(toClient') = Len(toClient) - d
         /\ \A i \in 1 .. Len(toClient) - d : toClient'[i] = toClient[i + d]
         /\ d = 2 => toClient[2].id = NoId
    BY Zenon, <1>1, <1>2, <1>3, DropFacts
<1>5. Shifted(d) BY Zenon, <1>3, <1>4, DropShift
<1>6. Head(toClient) = toClient[1] /\ Len(toClient) \in Nat \ {0}
    BY Zenon, <1>1, <1>3, TailFacts DEF Typed, WireTyped
<1>7. ~Mine(1)
  <2>1. CASE Head(toClient).k \in Notices
    <3>1. 1 \in 1 .. Len(toClient) BY <1>6
    <3> QED BY Zenon, <1>3, <1>6, <2>1, <3>1 DEF WireInv, WireOK, Mine
  <2>2. CASE Head(toClient).k \notin Notices
    <3>1. toClient[1].k \in Answers /\ Mine(1) /\ ~Late /\ ~NothingMine
        BY Zenon, <1>1, <1>2, <1>3, <2>2, HeadIsMine
    <3>2. call.at \in {"idle", "queued"} BY Zenon, <1>1, <1>6, <3>1
    <3> QED BY Zenon, <3>1, <3>2 DEF Ready, InStep, AtRest
  <2> QED BY Zenon, <2>1, <2>2
<1>8. \A i \in 1 .. Len(toClient) : Mine(i) => i > d
  <2> SUFFICES ASSUME NEW i \in 1 .. Len(toClient), Mine(i) PROVE i > d BY Zenon
  <2>1. i # 1 BY Zenon, <1>7
  <2>2. d = 2 => i # 2 BY Zenon, <1>4 DEF Mine
  <2> QED BY <1>6, <2>1, <2>2
<1>9. SameHandlers BY Zenon, <1>1, NoShift
<1>10. d \in Nat OBVIOUS
<1> QED BY Zenon, <1>1, <1>2, <1>5, <1>8, <1>9, <1>10, FrameStep

\* Bytes that do not come in time.
LEMMA TimeoutStep ==
    ASSUME Ready, Timeout
    PROVE  Late'
<1>1. call.at = "data" /\ UNCHANGED <<toClient, handlers>> /\ call' = [call EXCEPT !.at = "idle"]
    BY Zenon DEF Timeout, Return, serverVars, Ready, Sound
<1>2. call'.at = "idle" BY Zenon, <1>1 DEF Ready, PoolInv, Typed, CallTyped
<1>3. BytesNext(1) BY Zenon, <1>1 DEF Ready, Late, InStep, AtData
<1> QED BY Zenon, <1>1, <1>2, <1>3 DEF Late, BytesNext, Mine

\* A request given to the pool.
LEMMA RequestStep ==
    ASSUME Ready, ReadRequest
    PROVE  Late' \/ InStep'
<1>1. /\ UNCHANGED <<call, toClient, worker, done>> /\ toServer # <<>>
      /\ worker.at = "loop" /\ toServer' = Tail(toServer) /\ handlers = {} /\ PoolInv
      /\ toServer \in Seq(ServerItem)
    BY Zenon DEF ReadRequest, clientVars, Ready, PoolInv, Single, Typed, WireTyped
<1>2. CASE Late
  <2>1. PICK i \in 1 .. Len(toClient) :
            /\ Mine(i) /\ toClient[i].k = "bytes"
            /\ \A j \in 1 .. i - 1 : ~Mine(j)
      BY Zenon, <1>1, <1>2 DEF Late, BytesNext
  <2>2. BytesNext(1)' BY Zenon, <1>1, <2>1 DEF BytesNext, Mine
  <2> QED BY Zenon, <1>1, <1>2, <2>2 DEF Late
<1>3. CASE InStep
  <2>1. /\ Len(toServer) = 1 /\ Head(toServer) = toServer[1]
        /\ toServer[1].k \in Ops /\ toServer[1].id = call.id
        /\ toServer[1].k = call.op /\ call.at = FirstWait(call.op)
        /\ Finished /\ NothingMine
      BY Zenon, <1>1, <1>3, OnTheWay
  <2>2. PICK h \in Handler :
              /\ handlers' = {h}
              /\ h.id = Head(toServer).id /\ h.op = Head(toServer).k
              /\ h.todo \in Programs(h.op) /\ h.todo # <<>>
      BY Zenon, <1>1, <2>1, NewHandler
  <2>3. NothingMine' BY Zenon, <1>1, <2>1 DEF NothingMine, Mine
  <2>4. toServer' = <<>>
    <3>1. Tail(toServer) \in Seq(ServerItem) /\ Len(Tail(toServer)) = 0
        BY <1>1, <2>1, TailFacts
    <3> QED BY <1>1, <3>1
  <2>5. Executing' BY Zenon, <1>1, <2>1 DEF Executing, FirstWait
  <2>6. Pending'
    <3>1. \A g \in handlers' : g.id = call'.id /\ g.op = call'.op /\ Executing'
        BY Zenon, <1>1, <2>1, <2>2, <2>5
    <3> QED BY <2>3, <2>4, <3>1 DEF Pending, NothingMine
  <2>7. AtRest' /\ AtData' BY Zenon, <1>1, <2>1 DEF AtRest, AtData, FirstWait
  <2>8. AtAck'
    <3>1. call.op = "UPDATE" => h.todo = <<"recv", "result">> BY Zenon, <2>1, <2>2 DEF Programs
    <3>2. call.op = "READ" => h.todo # <<"result">>
        BY Zenon, <2>1, <2>2, TodosDiffer DEF Programs
    <3> QED BY Zenon, <1>1, <2>2, <2>3, <3>1, <3>2 DEF AtAck, NothingMine, Receiving
  <2>9. AtResult'
    <3>1. call.at = "result" => h.todo \in {<<"map">>, <<"result">>}
        BY Zenon, <2>1, <2>2 DEF Programs, FirstWait
    <3>2. call.at = "result" => h.todo # <<"ack", "bytes", "result">> /\ ~Receiving(h)
        BY Zenon, <3>1, TodosDiffer DEF Receiving
    <3> QED BY Zenon, <1>1, <2>2, <2>3, <3>2 DEF AtResult, NothingMine
  <2> QED BY Zenon, <2>6, <2>7, <2>8, <2>9 DEF InStep
<1> QED BY Zenon, <1>2, <1>3 DEF Ready

\* A handler's step leaves a later one.
LEMMA LaterTodo ==
    ASSUME NEW todo \in Todos, todo # <<>>
    PROVE  /\ Tail(todo) \notin {<<"ack", "bytes", "result">>, <<"nack">>, <<"recv", "result">>}
           /\ todo \in {<<"nack">>, <<"result">>, <<"map">>} => Tail(todo) = <<>>
           /\ todo = <<"ack", "bytes", "result">> => Tail(todo) = <<"bytes", "result">>
BY Zenon, TodoTail, TodosDiffer DEF Todos

\* An item of a call sent.
LEMMA OwnSent ==
    ASSUME Typed, NEW x \in ClientItem, x.id # NoId, toClient' = toClient \o <<x>>,
           NEW n \in Nat, n = Len(toClient)
    PROVE  /\ Len(toClient') = n + 1 /\ toClient'[n + 1] = x
           /\ \A i \in 1 .. n : /\ toClient'[i] = toClient[i]
                                /\ Mine(i)' <=> Mine(i)
                                /\ FirstMine(i)' <=> FirstMine(i)
           /\ Mine(n + 1)' /\ ~NothingMine'
           /\ FirstMine(n + 1)' <=> NothingMine
           /\ Finished' => Final(n + 1)'
           /\ x.k = "bytes" \/ (\A h \in handlers : h.todo # <<"bytes", "result">>) =>
                 \A from \in 1 .. n + 1 : BytesNext(from) => BytesNext(from)'
           /\ (\E h \in handlers' : h.todo = <<"bytes", "result">>) => BytesNext((n + 1) + 1)'
<1>1. /\ Len(toClient') = n + 1 /\ toClient'[n + 1] = x
      /\ \A i \in 1 .. n : toClient'[i] = toClient[i]
    BY SendOne DEF Typed, WireTyped
<1>2. /\ \A i \in 1 .. n : Mine(i)' <=> Mine(i)
      /\ Mine(n + 1)'
    BY Zenon, <1>1 DEF Mine
<1>3. \A i \in 1 .. n : FirstMine(i)' <=> FirstMine(i)
  <2> TAKE i \in 1 .. n
  <2>1. \A j \in 1 .. i - 1 : j \in 1 .. n BY <1>1
  <2> QED BY Zenon, <1>2, <2>1 DEF FirstMine
<1>4. ~NothingMine'
  <2>1. n + 1 \in 1 .. Len(toClient') BY <1>1
  <2> QED BY Zenon, <1>2, <2>1 DEF NothingMine
<1>5. FirstMine(n + 1)' <=> NothingMine
  <2>1. (n + 1) - 1 = n OBVIOUS
  <2> QED BY Zenon, <1>2, <2>1 DEF FirstMine, NothingMine
<1>6. Finished' => Final(n + 1)'
  <2>1. \A j \in (n + 1) + 1 .. Len(toClient') : FALSE BY <1>1
  <2> QED BY Zenon, <2>1 DEF Final
<1>7. ASSUME x.k = "bytes" \/ (\A h \in handlers : h.todo # <<"bytes", "result">>),
             NEW from \in 1 .. n + 1, BytesNext(from)
      PROVE  BytesNext(from)'
  <2>1. CASE \E i \in from .. n :
                /\ Mine(i) /\ toClient[i].k = "bytes"
                /\ \A j \in from .. i - 1 : ~Mine(j)
    <3>1. PICK i \in from .. n :
                /\ Mine(i) /\ toClient[i].k = "bytes"
                /\ \A j \in from .. i - 1 : ~Mine(j)
        BY Zenon, <2>1
    <3>2. /\ i \in 1 .. n /\ i \in from .. Len(toClient')
          /\ \A j \in from .. i - 1 : j \in 1 .. n
        BY <1>1
    <3> QED BY Zenon, <1>1, <1>2, <3>1, <3>2 DEF BytesNext
  <2>2. CASE /\ \A i \in from .. n : ~Mine(i)
             /\ \E h \in handlers : h.todo = <<"bytes", "result">>
    <3>1. toClient'[n + 1].k = "bytes" BY Zenon, <1>1, <1>7, <2>2
    <3>2. n + 1 \in from .. Len(toClient') BY <1>1
    <3>3. \A j \in from .. (n + 1) - 1 : j \in 1 .. n /\ j \in from .. n BY <1>1
    <3> QED BY Zenon, <1>2, <2>2, <3>1, <3>2, <3>3 DEF BytesNext
  <2> QED BY Zenon, <1>7, <2>1, <2>2 DEF BytesNext
<1>8. ASSUME \E h \in handlers' : h.todo = <<"bytes", "result">> PROVE BytesNext((n + 1) + 1)'
  <2>1. \A j \in (n + 1) + 1 .. Len(toClient') : FALSE BY <1>1
  <2> QED BY Zenon, <1>8, <2>1 DEF BytesNext
<1> QED BY Zenon, <1>1, <1>2, <1>3, <1>4, <1>5, <1>6, <1>7, <1>8

\* A frame or bytes of a handler sent.
LEMMA OwnStep ==
    ASSUME Ready, RunTask, Head(queue).k \in OwnTasks \ {"recv"}
    PROVE  Late' \/ InStep'
<1> DEFINE x == Head(queue)
<1>1. Typed /\ Typed' /\ PoolInv /\ ~closed
    BY Zenon DEF Ready, PoolInv, Typed, CallTyped, Sound
<1>2. UNCHANGED <<call, toServer, done>> BY Zenon DEF RunTask, clientVars
<1>3. /\ worker.at = "loop" /\ x.id # NoId /\ x \in ClientItem
      /\ toClient' = toClient \o <<x>> /\ worker' = worker
    BY Zenon, <1>1, SentFacts DEF OwnTasks
<1>4. PICK h \in handlers :
              /\ TaskOf(x, h) /\ handlers = {h} /\ h \in Handler
              /\ h.todo = <<"result">> /\ x.ok => h.id \in done
              /\ h.todo \in Rest(h.op) /\ h.todo # <<"recv", "result">>
              /\ handlers' = {Stepped(h, TRUE)}
              /\ Stepped(h, TRUE).id = h.id /\ Stepped(h, TRUE).op = h.op
              /\ Stepped(h, TRUE).todo = Tail(h.todo)
    BY Zenon, <1>1, RunOwnTask
<1>5. h.todo \in Todos /\ h.todo # <<>> BY Zenon, <1>4 DEF Handler, TaskOf
<1>6. /\ Tail(h.todo) \notin {<<"ack", "bytes", "result">>, <<"nack">>, <<"recv", "result">>}
      /\ h.todo \in {<<"nack">>, <<"result">>, <<"map">>} => Tail(h.todo) = <<>>
      /\ h.todo = <<"ack", "bytes", "result">> => Tail(h.todo) = <<"bytes", "result">>
    BY Zenon, <1>5, LaterTodo
<1>7. x.k = "bytes" \/ (\A g \in handlers : g.todo # <<"bytes", "result">>)
    BY Zenon, <1>4 DEF TaskOf
<1> HIDE DEF x
<1>0. PICK n \in Nat : n = Len(toClient) BY <1>1 DEF Typed, WireTyped
<1>8. /\ Len(toClient') = n + 1 /\ toClient'[n + 1] = x
      /\ \A i \in 1 .. n : /\ toClient'[i] = toClient[i]
                           /\ Mine(i)' <=> Mine(i)
                           /\ FirstMine(i)' <=> FirstMine(i)
      /\ Mine(n + 1)' /\ ~NothingMine'
      /\ FirstMine(n + 1)' <=> NothingMine
      /\ Finished' => Final(n + 1)'
      /\ \A from \in 1 .. n + 1 : BytesNext(from) => BytesNext(from)'
      /\ (\E g \in handlers' : g.todo = <<"bytes", "result">>) => BytesNext((n + 1) + 1)'
    BY Zenon, <1>0, <1>1, <1>3, <1>7, OwnSent
<1>9. 1 \in 1 .. n + 1 BY <1>8
<1>10. CASE Late BY Zenon, <1>2, <1>8, <1>9, <1>10 DEF Late
<1>11. CASE InStep
  <2>1. h.id = call.id /\ h.op = call.op /\ Executing BY Zenon, <1>4, <1>5, <1>11 DEF InStep, Pending
  <2>2. ~Finished /\ \A i : ~IsResult(i) BY Zenon, <1>4, <1>5 DEF Finished, IsResult, Final
  <2>3. toServer' = <<>>
    <3> SUFFICES ASSUME toServer # <<>> PROVE FALSE BY Zenon, <1>2
    <3>1. Finished \/ worker.at = "recv" BY Zenon, <1>1, <1>11, OnTheWay
    <3> QED BY Zenon, <1>3, <2>2, <3>1
  <2>4. x.id = call'.id BY Zenon, <1>2, <1>4, <2>1 DEF TaskOf
  <2>5. \A i \in 1 .. Len(toClient') : i \in 1 .. n \/ i = n + 1 BY <1>8
  <2>6. Pending'
    <3>1. \A i \in 1 .. Len(toClient') : Mine(i)' => toClient'[i].id = call'.id
        BY Zenon, <1>0, <1>2, <1>8, <1>11, <2>4, <2>5 DEF InStep, Pending
    <3>2. \A g \in handlers' : g.id = call'.id /\ g.op = call'.op /\ Executing'
        BY Zenon, <1>2, <1>4, <2>1 DEF Executing
    <3> QED BY <2>3, <3>1, <3>2 DEF Pending
  <2>7. AtRest' BY Zenon, <1>2, <2>1 DEF AtRest, Executing
  <2>8. h.todo \in {<<"nack">>, <<"result">>, <<"map">>} => IsResult(n + 1)'
    <3> SUFFICES ASSUME h.todo \in {<<"nack">>, <<"result">>, <<"map">>} PROVE IsResult(n + 1)'
        BY Zenon
    <3>1. Finished' BY Zenon, <1>4, <1>6 DEF Finished
    <3>2. x.k = "response" /\ x.ok => call.id \in done
        BY Zenon, <1>4, <2>1, TodosDiffer DEF TaskOf
    <3> QED BY Zenon, <1>2, <1>8, <3>1, <3>2 DEF IsResult, IsAck
  <2>9. x.k \in Answers =>
            h.todo \in {<<"ack", "bytes", "result">>, <<"nack">>, <<"result">>, <<"map">>}
      BY Zenon, <1>4, <1>5 DEF TaskOf, Todos, Answers
  <2>10. call.op = "READ" => h.todo # <<"map">> BY Zenon, <1>4, <2>1, TodosDiffer DEF Rest
  <2>11. \A g \in handlers' :
            /\ g.todo \notin {<<"ack", "bytes", "result">>, <<"nack">>, <<"recv", "result">>}
      BY Zenon, <1>4, <1>6
  <2>12. AtAck'
    <3>1. ~(call.at = "ack" /\ call.op = "UPDATE")
        BY Zenon, <1>4, <1>5, <1>11 DEF InStep, AtAck, Receiving
    <3>2. ASSUME call.at = "ack", call.op = "READ",
                 NEW i \in 1 .. Len(toClient'), Mine(i)', toClient'[i].k \in Answers
          PROVE  IF FirstMine(i)' /\ toClient'[i].ok THEN BytesNext(i + 1)' ELSE IsResult(i)'
      <4>1. CASE i \in 1 .. n
        <5>1. FirstMine(i) /\ toClient[i].ok /\ BytesNext(i + 1)
            BY Zenon, <1>0, <1>8, <1>11, <2>2, <3>2, <4>1 DEF InStep, AtAck
        <5>2. i + 1 \in 1 .. n + 1 BY <1>8, <4>1
        <5> QED BY Zenon, <1>8, <4>1, <5>1, <5>2
      <4>2. CASE i = n + 1
        <5>1. CASE h.todo = <<"ack", "bytes", "result">>
          <6>1. NothingMine BY Zenon, <1>4, <1>11, <3>2, <5>1 DEF InStep, AtAck
          <6>2. x.ok BY Zenon, <1>4, <5>1 DEF TaskOf
          <6>3. BytesNext(i + 1)' BY Zenon, <1>4, <1>6, <1>8, <4>2, <5>1
          <6> QED BY Zenon, <1>8, <4>2, <6>1, <6>2, <6>3
        <5>2. CASE h.todo = <<"nack">>
          <6>1. ~x.ok BY Zenon, <1>4, <5>2 DEF TaskOf
          <6> QED BY Zenon, <1>8, <2>8, <4>2, <5>2, <6>1
        <5>3. CASE h.todo = <<"result">>
          <6>1. ~NothingMine BY Zenon, <1>4, <1>11, <3>2, <5>3 DEF InStep, AtAck
          <6> QED BY Zenon, <1>8, <2>8, <4>2, <5>3, <6>1
        <5>4. x.k \in Answers BY Zenon, <1>8, <3>2, <4>2
        <5> QED BY Zenon, <2>9, <2>10, <3>2, <5>1, <5>2, <5>3, <5>4
      <4> QED BY Zenon, <2>5, <4>1, <4>2
    <3> QED BY Zenon, <1>2, <1>8, <2>11, <3>1, <3>2 DEF AtAck
  <2>13. AtData'
    <3> SUFFICES ASSUME call.at = "data"
                 PROVE  /\ call.op = "READ" /\ BytesNext(1)'
                        /\ \A i \in 1 .. Len(toClient') :
                              Mine(i)' /\ toClient'[i].k \in Answers => IsResult(i)'
        BY Zenon, <1>2, <2>11 DEF AtData
    <3>1. call.op = "READ" /\ BytesNext(1)' BY Zenon, <1>8, <1>9, <1>11 DEF InStep, AtData
    <3>2. ASSUME NEW i \in 1 .. Len(toClient'), Mine(i)', toClient'[i].k \in Answers
          PROVE  IsResult(i)'
      <4>1. i \notin 1 .. n BY Zenon, <1>0, <1>8, <1>11, <2>2, <3>2 DEF InStep, AtData
      <4>2. i = n + 1 /\ x.k \in Answers BY Zenon, <1>8, <2>5, <3>2, <4>1
      <4>3. h.todo \in {<<"nack">>, <<"result">>, <<"map">>}
          BY Zenon, <1>4, <1>11, <2>9, <4>2 DEF InStep, AtData
      <4> QED BY Zenon, <2>8, <4>2, <4>3
    <3> QED BY Zenon, <3>1, <3>2
  <2>14. AtResult'
    <3> SUFFICES ASSUME call.at = "result"
                 PROVE  \A i \in 1 .. Len(toClient') :
                              Mine(i)' /\ toClient'[i].k \in Answers => IsResult(i)'
        BY Zenon, <1>2, <2>11 DEF AtResult, Receiving
    <3>2. ASSUME NEW i \in 1 .. Len(toClient'), Mine(i)', toClient'[i].k \in Answers
          PROVE  IsResult(i)'
      <4>1. i \notin 1 .. n BY Zenon, <1>0, <1>8, <1>11, <2>2, <3>2 DEF InStep, AtResult
      <4>2. i = n + 1 /\ x.k \in Answers BY Zenon, <1>8, <2>5, <3>2, <4>1
      <4>3. h.todo \in {<<"nack">>, <<"result">>, <<"map">>}
          BY Zenon, <1>4, <1>11, <2>9, <4>2 DEF InStep, AtResult
      <4> QED BY Zenon, <2>8, <4>2, <4>3
    <3> QED BY Zenon, <3>2
  <2> QED BY Zenon, <2>6, <2>7, <2>12, <2>13, <2>14 DEF InStep
<1> QED BY Zenon, <1>10, <1>11 DEF Ready

\* The ACK of an update sent.
LEMMA RecvStep ==
    ASSUME Ready, RunTask, Head(queue).k = "recv"
    PROVE  Late' \/ InStep'
<1> DEFINE x == Item("response", Head(queue).id, TRUE)
<1>1. Typed /\ Typed' /\ PoolInv /\ ~closed
    BY Zenon DEF Ready, PoolInv, Typed, CallTyped, Sound
<1>2. UNCHANGED <<call, toServer, done>> /\ queue # <<>> BY Zenon DEF RunTask, clientVars
<1>3. /\ worker.at = "loop" /\ Head(queue).id # NoId /\ Head(queue) \in Task
      /\ toClient' = toClient \o <<x>> /\ worker'.at = "recv" /\ UNCHANGED handlers
    BY Zenon, <1>1, SentFacts DEF OwnTasks
<1>4. /\ x \in ClientItem /\ x.k = "response" /\ x.ok /\ x.id = Head(queue).id
    BY Zenon, <1>3 DEF ClientItem, Item, Answers, Task
<1>5. PICK h \in handlers : TaskOf(Head(queue), h) /\ handlers = {h}
    BY Zenon, <1>1, <1>2, OwnTask DEF OwnTasks
<1>6. h.todo = <<"recv", "result">> /\ h.id = Head(queue).id /\ h.todo # <<>>
    BY Zenon, <1>5 DEF TaskOf
<1>7. \A g \in handlers : g.todo # <<"bytes", "result">> BY Zenon, <1>5, <1>6, TodosDiffer
<1> HIDE DEF x
<1>0. PICK n \in Nat : n = Len(toClient) BY <1>1 DEF Typed, WireTyped
<1>8. /\ Len(toClient') = n + 1 /\ toClient'[n + 1] = x
      /\ \A i \in 1 .. n : Mine(i)' <=> Mine(i)
      /\ \A from \in 1 .. n + 1 : BytesNext(from) => BytesNext(from)'
    BY Zenon, <1>0, <1>1, <1>3, <1>4, <1>7, OwnSent
<1>9. 1 \in 1 .. n + 1 BY <1>8
<1>10. CASE Late BY Zenon, <1>2, <1>8, <1>9, <1>10 DEF Late
<1>11. CASE InStep
  <2>1. h.id = call.id /\ h.op = call.op /\ Executing BY Zenon, <1>5, <1>6, <1>11 DEF InStep, Pending
  <2>2. h.op = "UPDATE"
    <3>1. h.todo \in Rest(h.op) /\ h.op \in Ops BY Zenon, <1>1 DEF Typed, PoolTyped, Handler
    <3> QED BY Zenon, <1>6, <3>1, TodosDiffer DEF Rest, Ops
  <2>3. call.at = "ack"
    <3>1. call.at # "data" BY Zenon, <1>11, <2>1, <2>2 DEF InStep, AtData
    <3>2. call.at # "result"
        BY Zenon, <1>3, <1>5, <1>6, <1>11, <2>1, <2>2 DEF InStep, AtResult, Receiving
    <3> QED BY Zenon, <2>1, <3>1, <3>2 DEF Executing
  <2>4. \A i \in 1 .. n : ~Mine(i) BY Zenon, <1>0, <1>3, <1>11, <2>1, <2>2, <2>3 DEF InStep, AtAck
  <2>5. \A i \in 1 .. Len(toClient') : Mine(i)' => i = n + 1
    <3>1. \A i \in 1 .. Len(toClient') : i \in 1 .. n \/ i = n + 1 BY <1>8
    <3> QED BY Zenon, <1>8, <2>4, <3>1
  <2>6. toServer' = <<>>
    <3> SUFFICES ASSUME toServer # <<>> PROVE FALSE BY Zenon, <1>2
    <3>1. Finished \/ call.at = "result" BY Zenon, <1>1, <1>11, OnTheWay
    <3> QED BY Zenon, <1>5, <1>6, <2>3, <3>1 DEF Finished
  <2>7. Pending'
    <3>1. \A i \in 1 .. Len(toClient') : Mine(i)' => toClient'[i].id = call'.id
        BY Zenon, <1>2, <1>4, <1>6, <1>8, <2>1, <2>5
    <3>2. \A g \in handlers' : g.id = call'.id /\ g.op = call'.op /\ Executing'
        BY Zenon, <1>2, <1>3, <1>5, <2>1 DEF Executing
    <3> QED BY <2>6, <3>1, <3>2 DEF Pending
  <2>8. AtAck'
      BY Zenon, <1>2, <1>3, <1>4, <1>5, <1>6, <1>8, <2>1, <2>2, <2>5 DEF AtAck, Receiving
  <2>9. AtRest' /\ AtData' /\ AtResult' BY Zenon, <1>2, <2>3 DEF AtRest, AtData, AtResult
  <2> QED BY Zenon, <2>7, <2>8, <2>9 DEF InStep
<1> QED BY Zenon, <1>10, <1>11 DEF Ready

\* drainQueue.
LEMMA RunStep ==
    ASSUME Ready, RunTask
    PROVE  Late' \/ InStep'
<1> DEFINE t == Head(queue)
           b == Item("bytes", NoId, TRUE)
<1>1. Typed /\ PoolInv /\ ~closed
    BY Zenon DEF Ready, PoolInv, Typed, CallTyped, Sound
<1>2. CASE t.k \in OwnTasks \ {"recv"} BY Zenon, <1>2, OwnStep
<1>3. CASE t.k = "recv" BY Zenon, <1>3, RecvStep
<1>4. CASE t.k \notin OwnTasks
  <2>1. UNCHANGED <<call, toServer, done>> BY Zenon DEF RunTask, clientVars
  <2>2. /\ worker.at = "loop" /\ worker'.at # "recv" /\ UNCHANGED handlers
        /\ t.id = NoId /\ t \in ClientItem
        /\ toClient' = toClient \o <<t, b>> \/ toClient' = toClient \o <<t>>
      BY Zenon, <1>1, <1>4, SentFacts DEF OwnTasks
  <2>3. b \in ClientItem /\ b.id = NoId BY Zenon DEF ClientItem, Item, Raw, NoId
  <2> HIDE DEF t, b
  <2>4. Shifted(0) BY Zenon, <1>1, <2>2, <2>3, SendShift
  <2>5. SameHandlers BY Zenon, <2>2, NoShift
  <2>6. \A i \in 1 .. Len(toClient) : Mine(i) => i > 0 OBVIOUS
  <2> QED BY Zenon, <2>1, <2>2, <2>4, <2>5, <2>6, FrameStep
<1> QED BY Zenon, <1>2, <1>3, <1>4 DEF OwnTasks

\* receiveFileData.
LEMMA BytesStep ==
    ASSUME Ready, ReceiveBytes
    PROVE  Late' \/ InStep'
<1>1. PoolInv /\ ~closed /\ toServer \in Seq(ServerItem)
    BY Zenon DEF Ready, PoolInv, Typed, CallTyped, WireTyped, Sound
<1>2. UNCHANGED <<call, toClient, done>> /\ worker.at = "recv" BY Zenon DEF ReceiveBytes, clientVars
<1>3. PICK h \in handlers, ok \in BOOLEAN :
              /\ Receiving(h) /\ handlers = {h}
              /\ handlers' = {Stepped(h, ok)}
              /\ Stepped(h, ok).id = h.id /\ Stepped(h, ok).op = h.op
              /\ Stepped(h, ok).todo = <<"result">>
    BY Zenon, <1>1, ReceiveStep
<1>4. h.todo # <<>> /\ h.todo # <<"bytes", "result">> BY Zenon, <1>3, TodosDiffer DEF Receiving
<1>5. CASE Late
  <2>1. PICK i \in 1 .. Len(toClient) :
            /\ Mine(i) /\ toClient[i].k = "bytes"
            /\ \A j \in 1 .. i - 1 : ~Mine(j)
      BY Zenon, <1>3, <1>4, <1>5 DEF Late, BytesNext
  <2>2. BytesNext(1)' BY Zenon, <1>2, <2>1 DEF BytesNext, Mine
  <2> QED BY Zenon, <1>2, <1>5, <2>2 DEF Late
<1>6. CASE InStep
  <2>1. toServer # <<>> BY Zenon, <1>1 DEF ReceiveBytes
  <2>2. ~Finished BY Zenon, <1>3, <1>4 DEF Finished
  <2>3. /\ Len(toServer) = 1 /\ Head(toServer) = toServer[1]
        /\ toServer[1].k = "bytes" /\ call.at = "result" /\ call.op = "UPDATE"
      BY Zenon, <1>1, <1>6, <2>1, <2>2, OnTheWay
  <2>4. toServer' = <<>>
    <3>1. toServer' = Tail(toServer) BY Zenon, <2>1, <2>3 DEF ReceiveBytes
    <3>2. Tail(toServer) \in Seq(ServerItem) /\ Len(Tail(toServer)) = 0
        BY <1>1, <2>1, <2>3, TailFacts
    <3> QED BY <3>1, <3>2
  <2>5. h.id = call.id /\ h.op = call.op /\ Executing BY Zenon, <1>3, <1>4, <1>6 DEF InStep, Pending
  <2>6. Pending'
    <3>1. \A i \in 1 .. Len(toClient') : Mine(i)' => toClient'[i].id = call'.id
        BY Zenon, <1>2, <1>6 DEF InStep, Pending, Mine
    <3>2. \A g \in handlers' : g.id = call'.id /\ g.op = call'.op /\ Executing'
        BY Zenon, <1>2, <1>3, <2>5 DEF Executing
    <3> QED BY <2>4, <3>1, <3>2 DEF Pending
  <2>7. AtResult'
    <3>1. \A i \in 1 .. Len(toClient) : ~(Mine(i) /\ toClient[i].k \in Answers)
        BY Zenon, <1>6, <2>2, <2>3 DEF InStep, AtResult, IsResult, Final
    <3>2. \A g \in handlers' : g.todo # <<"ack", "bytes", "result">> /\ ~Receiving(g)
        BY Zenon, <1>3, TodosDiffer DEF Receiving
    <3> QED BY Zenon, <1>2, <3>1, <3>2 DEF AtResult, Mine
  <2>8. AtRest' /\ AtAck' /\ AtData' BY Zenon, <1>2, <2>3 DEF AtRest, AtAck, AtData
  <2> QED BY Zenon, <2>6, <2>7, <2>8 DEF InStep
<1> QED BY Zenon, <1>5, <1>6 DEF Ready

\* Answers stay in step with calls, or a read's late bytes end the session.
LEMMA InStepStep ==
    ASSUME Ready, Next
    PROVE  Late' \/ InStep'
<1>1. ASSUME UNCHANGED <<call, toClient, worker>>, done \subseteq done', SameHandlers,
             toServer' = toServer \/ toServer' = <<>>
      PROVE  Late' \/ InStep'
  <2>1. Shifted(0) BY Zenon, <1>1, NoShift
  <2>2. \A i \in 1 .. Len(toClient) : Mine(i) => i > 0 OBVIOUS
  <2> QED BY Zenon, <1>1, <2>1, <2>2, FrameStep
<1>2. ASSUME UNCHANGED <<call, toClient, handlers, done>>,
             worker.at # "recv", worker'.at # "recv", toServer' = toServer \/ toServer' = <<>>
      PROVE  Late' \/ InStep'
  <2>1. Shifted(0) /\ SameHandlers BY Zenon, <1>2, NoShift
  <2>2. \A i \in 1 .. Len(toClient) : Mine(i) => i > 0 OBVIOUS
  <2> QED BY Zenon, <1>2, <2>1, <2>2, FrameStep
<1>3. CASE (\E op \in Ops : Call(op)) \/ SendRequest \/ SendClose BY Zenon, <1>3, CallStep
<1>4. CASE TakeBadFrame BY Zenon, <1>4 DEF TakeBadFrame, Ready, Sound
<1>5. CASE TakeAck BY Zenon, <1>5, AckStep
<1>6. CASE TakeData BY Zenon, <1>6, DataStep
<1>7. CASE TakeResult BY Zenon, <1>7, ResultStep
<1>8. CASE TakeSync BY Zenon, <1>8, ResultStep, PushStep
<1>9. CASE ReadLoop BY Zenon, <1>9, PushStep
<1>10. CASE Timeout BY Zenon, <1>10, TimeoutStep
<1>11. CASE HangUp BY Zenon, <1>11 DEF HangUp, Ready, Sound
<1>12. CASE ReadRequest BY Zenon, <1>12, RequestStep
<1>13. CASE RunTask BY Zenon, <1>13, RunStep
<1>14. CASE ReceiveBytes BY Zenon, <1>14, BytesStep
<1>15. CASE ReceiveAnswer
  <2>1. UNCHANGED <<call, toClient, handlers, done>> /\ worker.at = "wait"
      BY Zenon, <1>15 DEF ReceiveAnswer
  <2>2. worker'.at # "recv"
    <3>1. worker' = [at |-> "loop", id |-> NoId] BY Zenon, <1>15 DEF ReceiveAnswer
    <3> QED BY Zenon, <3>1
  <2>3. CASE toServer = <<>> BY Zenon, <1>2, <1>15, <2>1, <2>2, <2>3 DEF ReceiveAnswer
  <2>4. CASE toServer # <<>>
    <3>1. CASE Late
      <4>1. BytesNext(1)' BY Zenon, <2>1, <3>1 DEF Late, BytesNext, Mine
      <4> QED BY Zenon, <2>1, <3>1, <4>1 DEF Late
    <3>2. CASE InStep
      <4>1. Len(toServer) = 1 BY Zenon, <2>4, <3>2, OnTheWay DEF Ready
      <4>2. Tail(toServer) \in Seq(ServerItem) /\ Len(Tail(toServer)) = 0
          BY <2>4, <4>1, TailFacts DEF Ready, PoolInv, Typed, WireTyped
      <4>3. toServer' = <<>> BY <1>15, <2>4, <4>2 DEF ReceiveAnswer
      <4> QED BY Zenon, <1>2, <2>1, <2>2, <4>3
    <3> QED BY Zenon, <3>1, <3>2 DEF Ready
  <2> QED BY Zenon, <2>3, <2>4
<1>16. CASE ReadEnd BY Zenon, <1>1, <1>16, NoShift DEF ReadEnd, clientVars
<1>17. CASE WorkerExit
  <2>1. worker' = [at |-> "exited", id |-> NoId] BY Zenon, <1>17 DEF WorkerExit
  <2>2. worker'.at # "recv" BY Zenon, <2>1
  <2> QED BY Zenon, <1>2, <1>17, <2>2 DEF WorkerExit, clientVars
<1>18. ASSUME NEW h \in handlers, HandlerCall(h) PROVE Late' \/ InStep'
  <2>1. UNCHANGED <<call, toClient, worker, toServer>> BY Zenon, <1>18 DEF HandlerCall, clientVars
  <2>2. PICK g \in Handler : /\ handlers = {h} /\ handlers' = {g}
                             /\ g.id = h.id /\ g.op = h.op /\ g.todo = h.todo
      BY Zenon, <1>18, CallFacts DEF Ready
  <2>3. done \subseteq done' BY Zenon, <1>18 DEF HandlerCall
  <2>4. SameHandlers BY Zenon, <2>2 DEF SameHandlers, Kept
  <2> QED BY Zenon, <1>1, <2>1, <2>3, <2>4
<1>19. ASSUME NEW h \in handlers, HandlerDone(h) PROVE Late' \/ InStep'
  <2>1. UNCHANGED <<call, toClient, worker, toServer, done>>
      BY Zenon, <1>19 DEF HandlerDone, clientVars
  <2>2. SameHandlers BY Zenon, <1>19 DEF HandlerDone, SameHandlers, Kept
  <2> QED BY Zenon, <1>1, <2>1, <2>2
<1>20. ASSUME NEW kind \in PushKinds, Post(kind) PROVE Late' \/ InStep'
    BY Zenon, <1>1, <1>20, NoShift DEF Post, clientVars
<1> QED BY Zenon, <1>3, <1>4, <1>5, <1>6, <1>7, <1>8, <1>9, <1>10, <1>11, <1>12, <1>13, <1>14,
           <1>15, <1>16, <1>17, <1>18, <1>19, <1>20 DEF Next

\* An ACK is returned for what was carried out.
LEMMA AckedStep ==
    ASSUME PoolInv, PoolInv', StreamInv, WireInv, AnswerInv, Next, disturbed' \subseteq Ops
    PROVE  acked' \subseteq done'
<1>1. disturbed \subseteq Ops /\ done \subseteq done'
    BY Zenon DEF Next, Call, SendRequest, SendClose, TakeBadFrame, TakeAck, TakeData, TakeResult,
           TakeSync, ReadLoop, Timeout, HangUp, ReadRequest, RunTask, ReceiveBytes,
           ReceiveAnswer, ReadEnd, WorkerExit, HandlerCall, HandlerDone, Post, clientVars,
           serverVars
<1>2. acked \subseteq done BY Zenon, <1>1 DEF AnswerInv
<1>3. CASE TakeResult
  <2>1. acked' = acked \/ (IsAck(Head(toClient)) /\ acked' = acked \cup {call.id})
      BY Zenon, <1>3 DEF TakeResult, Return
  <2>2. ASSUME IsAck(Head(toClient)) PROVE call.id \in done
    <3>1. /\ call.at = "result" /\ cAlive /\ toClient # <<>> /\ Head(toClient).k \notin Raw
        BY Zenon, <1>3 DEF TakeResult
    <3>2. Typed /\ WireInv BY Zenon DEF PoolInv
    <3>3. Head(toClient).k \notin Raw \cup Notices BY Zenon, <2>2, <3>1 DEF IsAck, Notices
    <3>4. /\ Head(toClient) = toClient[1] /\ Len(toClient) \in Nat \ {0}
          /\ Mine(1) /\ toClient[1].k \in Answers /\ ~Late
        BY Zenon, <3>1, <3>2, <3>3, HeadIsMine
    <3>5. Sound BY Zenon, <1>1, <3>1, <3>4 DEF Sound, Answers
    <3>6. InStep BY Zenon, <3>4, <3>5 DEF AnswerInv
    <3>7. 1 \in 1 .. Len(toClient) BY <3>4
    <3>8. IsResult(1) BY Zenon, <3>1, <3>4, <3>6, <3>7 DEF InStep, AtResult
    <3> QED BY Zenon, <2>2, <3>4, <3>8 DEF IsResult
  <2> QED BY Zenon, <1>1, <1>2, <2>1, <2>2
<1>4. CASE ~TakeResult
  <2>1. acked' = acked
      BY Zenon, <1>4 DEF Next, Call, SendRequest, SendClose, TakeBadFrame, TakeAck, TakeData,
             TakeSync, ReadLoop, Timeout, HangUp, ReadRequest, RunTask, ReceiveBytes,
             ReceiveAnswer, ReadEnd, WorkerExit, HandlerCall, HandlerDone, Post, clientVars,
             Return
  <2> QED BY Zenon, <1>1, <1>2, <2>1
<1> QED BY Zenon, <1>3, <1>4

\* An ACK that a call returns is the ACK of an operation the server carried
\* out, for as long as no call took a push or a notice for its answer: timeouts,
\* refused transfers, swallowed requests and dead sessions never shift the
\* answers by one (waitForAck, receiveFile and the read loop of the client).
THEOREM OwnAcks == Spec => []AcksAreOwnUndisturbed
<1> DEFINE Inv == PoolInv /\ StreamInv /\ BytesInv /\ WireInv /\ AnswerInv
<1>1. Init => Inv
  <2> SUFFICES ASSUME Init PROVE Inv BY Zenon
  <2>1. PoolInv BY Zenon, PoolInit
  <2>2. StreamInv /\ BytesInv BY DEF Init, StreamInv, BytesInv, Ordered
  <2>3. WireInv BY DEF Init, WireInv, WireOK
  <2>4. InStep
    <3>1. NothingMine /\ Finished /\ toServer = <<>> /\ call.at = "idle"
        BY DEF Init, NothingMine, Finished
    <3>2. Pending BY <3>1 DEF Pending, NothingMine, Finished
    <3>3. AtRest /\ AtAck /\ AtData /\ AtResult BY Zenon, <3>1 DEF AtRest, AtAck, AtData, AtResult
    <3> QED BY Zenon, <3>2, <3>3 DEF InStep
  <2>5. AnswerInv BY Zenon, <2>4 DEF AnswerInv, Init
  <2> QED BY Zenon, <2>1, <2>2, <2>3, <2>5
<1>2. Inv /\ PoolInv' /\ [Next]_vars => Inv'
  <2> SUFFICES ASSUME Inv, PoolInv', [Next]_vars PROVE Inv' BY Zenon
  <2>1. CASE Next
    <3>1. StreamInv' /\ BytesInv' BY Zenon, <2>1, ByteStep
    <3>2. WireInv' BY Zenon, <2>1, WireStep
    <3>3. Sound' => Late' \/ InStep'
      <4> SUFFICES ASSUME Sound' PROVE Late' \/ InStep' BY Zenon
      <4>1. Sound BY Zenon, <2>1, SoundBack
      <4>2. Ready BY Zenon, <4>1 DEF Ready, AnswerInv
      <4> QED BY Zenon, <2>1, <4>2, InStepStep
    <3>4. (disturbed \subseteq Ops)' => acked' \subseteq done' BY Zenon, <2>1, AckedStep
    <3> QED BY Zenon, <3>1, <3>2, <3>3, <3>4 DEF AnswerInv
  <2>2. CASE UNCHANGED vars
    <3> USE <2>2 DEF vars, clientVars, serverVars
    <3>1. StreamInv' /\ BytesInv' BY Zenon DEF StreamInv, BytesInv, Ordered
    <3>2. WireInv' BY Zenon DEF WireInv, WireOK
    <3>3. Late' <=> Late BY Zenon DEF Late, BytesNext, Mine
    <3>4. InStep => InStep'
      <4>1. Shifted(0) /\ SameHandlers BY Zenon, NoShift
      <4>2. \A i \in 1 .. Len(toClient) : Mine(i) => i > 0 OBVIOUS
      <4>3. Typed /\ Typed' /\ done \subseteq done' BY Zenon DEF PoolInv
      <4>4. 0 \in Nat BY Zenon
      <4> QED BY Zenon, <4>1, <4>2, <4>3, <4>4, InStepFrame
    <3>5. AnswerInv' BY Zenon, <3>3, <3>4 DEF AnswerInv, Sound
    <3> QED BY Zenon, <3>1, <3>2, <3>5
  <2> QED BY Zenon, <2>1, <2>2
<1>3. Inv => AcksAreOwnUndisturbed BY Zenon DEF AnswerInv, AcksAreOwnUndisturbed
<1> QED BY <1>1, <1>2, <1>3, PoolInvariant, PTL DEF Spec

-----------------------------------------------------------------------------
(* The channel: sequence numbers give ordered delivery, for any width of   *)
(* the counters and any number of messages.                                *)

\* A counter stays within its width, and below its largest value ++ is + 1.
LEMMA IncrementedFacts ==
  ASSUME NEW s \in Seqs
  PROVE  /\ Incremented(s) \in Seqs
         /\ s + 1 < SeqMod => Incremented(s) = s + 1
BY SeqAssumption DEF Seqs, Incremented

\* The type invariant of the two ends is inductive: the counters stay within
\* their width and the reorder buffer within its bounds.
THEOREM ChannelTyped == ChannelSpec => []ChannelTypeOK
<1> USE SeqAssumption
<1>1. ChannelInit => ChannelTypeOK
  BY DEF ChannelInit, ChannelTypeOK, Seqs
<1>2. ChannelTypeOK /\ [ChannelNext]_channelVars => ChannelTypeOK'
  <2> SUFFICES ASSUME ChannelTypeOK, [ChannelNext]_channelVars PROVE ChannelTypeOK'
    OBVIOUS
  <2>0. \A s \in Seqs : Incremented(s) \in Seqs
    BY IncrementedFacts
  <2>1. CASE SendFrame
    <3>1. seqOf' \in Seq(Seqs) /\ Len(seqOf') = Len(seqOf) + 1
      BY <2>1 DEF SendFrame, ChannelTypeOK
    <3> QED BY <2>0, <2>1, <3>1 DEF SendFrame, ChannelTypeOK
  <2>2. CASE PopNextBuffered
    <3>1. reorderBuffer[expectedRecvSeq] \in 1 .. MaxSent
      BY <2>2 DEF PopNextBuffered, ChannelTypeOK
    <3> QED BY <2>0, <2>2, <3>1 DEF PopNextBuffered, ReturnMessage, ChannelTypeOK
  <2>3. ASSUME NEW i \in 1 .. MaxSent, ReceiveFrame(i) PROVE ChannelTypeOK'
    <3>1. i \in 1 .. Len(seqOf) /\ seqOf[i] \in Seqs /\ read' \subseteq 1 .. Len(seqOf)
      BY <2>3 DEF ReceiveFrame, Arrives, ChannelTypeOK
    <3>2. CASE seqOf[i] = expectedRecvSeq
      <4>1. /\ delivered' = Append(delivered, i)
            /\ expectedRecvSeq' = Incremented(expectedRecvSeq)
            /\ UNCHANGED <<wire, nextSendSeq, seqOf, reorderBuffer>>
        BY <2>3, <3>2 DEF ReceiveFrame, ReturnMessage
      <4>2. delivered' \in Seq(1 .. MaxSent)
        BY <4>1 DEF ChannelTypeOK
      <4> QED BY <2>0, <3>1, <4>1, <4>2 DEF ChannelTypeOK
    <3>3. CASE seqOf[i] # expectedRecvSeq
      <4>1. reorderBuffer' \in [Seqs -> 0 .. MaxSent]
        <5>1. reorderBuffer \in [Seqs -> 0 .. MaxSent] /\ i \in 0 .. MaxSent
          BY DEF ChannelTypeOK
        <5>2. \/ reorderBuffer' = reorderBuffer
              \/ reorderBuffer' = [reorderBuffer EXCEPT ![seqOf[i]] = i]
          BY <2>3, <3>3 DEF ReceiveFrame
        <5> QED BY <3>1, <5>1, <5>2
      <4>2. UNCHANGED <<wire, nextSendSeq, seqOf, expectedRecvSeq, delivered>>
        BY <2>3, <3>3 DEF ReceiveFrame
      <4> QED BY <2>0, <3>1, <4>1, <4>2 DEF ChannelTypeOK
    <3> QED BY <3>2, <3>3
  <2>4. CASE UNCHANGED channelVars
    BY <2>4 DEF channelVars, ChannelTypeOK
  <2> QED BY <2>1, <2>2, <2>3, <2>4 DEF ChannelNext
<1> QED BY <1>1, <1>2, PTL DEF ChannelSpec

\* An interval from 1 determines its end.
LEMMA IntervalEnd ==
  ASSUME NEW m \in Nat, NEW n \in Nat, 1 .. m = 1 .. n
  PROVE  m = n
<1>1. CASE m < n
  BY <1>1, n \in 1 .. n, n \notin 1 .. m
<1>2. CASE n < m
  BY <1>2, m \in 1 .. m, m \notin 1 .. n
<1> QED BY <1>1, <1>2

\* Without wrap-around a frame's number is its position and the receiver
\* expects the number of messages it has returned.
LEMMA PlainNumbers ==
  ASSUME ChannelTypeOK, ChannelInv, ~Stream
  PROVE  /\ Len(delivered) \in Nat /\ Len(seqOf) \in Nat
         /\ expectedRecvSeq = Len(delivered)
         /\ \A k \in 1 .. Len(seqOf) : seqOf[k] = k - 1 /\ seqOf[k] \in Seqs
<1>1. Len(delivered) \in Nat /\ Len(seqOf) \in Nat
  BY DEF ChannelTypeOK
<1>2. \A k \in 1 .. Len(seqOf) : seqOf[k] = k - 1
  BY DEF ChannelInv
<1>3. \A k \in 1 .. Len(seqOf) : seqOf[k] \in Seqs
  BY DEF ChannelTypeOK
<1>4. CASE Len(delivered) < Len(seqOf)
  <2>1. Len(delivered) + 1 \in 1 .. Len(seqOf)
    BY <1>1, <1>4
  <2>2. expectedRecvSeq = seqOf[Len(delivered) + 1]
    BY <1>4 DEF ChannelInv
  <2> QED BY <1>1, <1>2, <1>3, <2>1, <2>2
<1>5. CASE ~(Len(delivered) < Len(seqOf))
  <2>1. Len(delivered) = Len(seqOf)
    BY <1>1, <1>5 DEF ChannelInv
  <2>2. expectedRecvSeq = nextSendSeq /\ nextSendSeq = Len(seqOf)
    BY <1>5 DEF ChannelInv
  <2> QED BY <1>1, <1>2, <1>3, <2>1, <2>2
<1> QED BY <1>4, <1>5

\* Returning the first frame not yet returned keeps the messages in order and
\* moves the receiver on to the number of the frame after it.
LEMMA ReturnNext ==
  ASSUME ChannelTypeOK, ChannelInv, NEW i \in Nat, ReturnMessage(i),
         i = Len(delivered) + 1, i <= Len(seqOf),
         UNCHANGED <<wire, nextSendSeq, seqOf>>
  PROVE  /\ Len(delivered') = Len(delivered) + 1
         /\ Len(delivered') <= Len(seqOf')
         /\ \A k \in 1 .. Len(delivered') : delivered'[k] = k
         /\ expectedRecvSeq' = IF Len(delivered') < Len(seqOf')
                               THEN seqOf'[Len(delivered') + 1]
                               ELSE nextSendSeq'
<1>1. /\ Len(delivered') = Len(delivered) + 1
      /\ \A k \in 1 .. Len(delivered) : delivered'[k] = delivered[k]
      /\ delivered'[Len(delivered) + 1] = i
      /\ Len(delivered) \in Nat /\ Len(seqOf) \in Nat
  BY DEF ReturnMessage, ChannelTypeOK
<1>2. \A k \in 1 .. Len(delivered') : delivered'[k] = k
  BY SMTT(30), <1>1 DEF ChannelInv
<1>3. expectedRecvSeq = seqOf[i] /\ expectedRecvSeq' = Incremented(seqOf[i])
  BY <1>1 DEF ChannelInv, ReturnMessage
<1>4. CASE i < Len(seqOf)
  <2>1. i + 1 \in 1 .. Len(seqOf) /\ i + 1 # 1 /\ (i + 1) - 1 = i
    BY <1>1, <1>4
  <2>2. seqOf[i + 1] = Incremented(seqOf[i])
    BY <2>1 DEF ChannelInv
  <2> QED BY <1>1, <1>2, <1>3, <1>4, <2>2
<1>5. CASE i = Len(seqOf)
  <2>1. seqOf # <<>> /\ nextSendSeq = Incremented(seqOf[i])
    BY <1>1, <1>5 DEF ChannelInv, ChannelTypeOK
  <2> QED BY <1>1, <1>2, <1>3, <1>5, <2>1
<1> QED BY <1>1, <1>4, <1>5

\* Each step of either end keeps them in agreement (ChannelInv is inductive).
THEOREM ChannelInvariant == ChannelSpec => []ChannelInv
<1> USE SeqAssumption
<1>1. ChannelInit => ChannelInv
  BY DEF ChannelInit, ChannelInv, Seqs
<1>2. ChannelTypeOK /\ ChannelTypeOK' /\ ChannelInv /\ [ChannelNext]_channelVars => ChannelInv'
  <2> SUFFICES ASSUME ChannelTypeOK, ChannelTypeOK', ChannelInv, [ChannelNext]_channelVars
               PROVE  ChannelInv'
    OBVIOUS
  <2>0. Stream' <=> Stream
    BY DEF ChannelNext, SendFrame, PopNextBuffered, ReceiveFrame, channelVars, Stream
  <2>1. CASE SendFrame
    <3>1. /\ Len(seqOf') = Len(seqOf) + 1
          /\ \A k \in 1 .. Len(seqOf) : seqOf'[k] = seqOf[k]
          /\ seqOf'[Len(seqOf) + 1] = nextSendSeq
          /\ Len(seqOf) \in Nat /\ Len(delivered) \in Nat
      BY <2>1 DEF SendFrame, ChannelTypeOK
    <3>2. nextSendSeq' = Incremented(seqOf'[Len(seqOf')]) /\ seqOf' # <<>>
      BY SMTT(30), <2>1, <3>1 DEF SendFrame, ChannelTypeOK
    <3>3. \A k \in 1 .. Len(seqOf') :
            seqOf'[k] = IF k = 1 THEN 0 ELSE Incremented(seqOf'[k - 1])
      <4> SUFFICES ASSUME NEW k \in 1 .. Len(seqOf')
                   PROVE  seqOf'[k] = IF k = 1 THEN 0
                                      ELSE Incremented(seqOf'[k - 1])
        OBVIOUS
      <4>0. \A j \in 1 .. Len(seqOf) :
              seqOf[j] = IF j = 1 THEN 0 ELSE Incremented(seqOf[j - 1])
        BY DEF ChannelInv
      <4>1. CASE k <= Len(seqOf)
        <5>1. k \in 1 .. Len(seqOf) /\ (k # 1 => k - 1 \in 1 .. Len(seqOf))
          BY <3>1, <4>1
        <5>2. seqOf'[k] = seqOf[k] /\ (k # 1 => seqOf'[k - 1] = seqOf[k - 1])
          BY <3>1, <5>1
        <5> QED BY <4>0, <5>1, <5>2
      <4>2. CASE k > Len(seqOf)
        <5>1. k = Len(seqOf) + 1
          BY <3>1, <4>2
        <5>2. seqOf = <<>> <=> k = 1
          BY SMTT(30), <3>1, <5>1 DEF ChannelTypeOK
        <5>3. k # 1 => k - 1 = Len(seqOf) /\ k - 1 \in 1 .. Len(seqOf)
          BY <3>1, <5>1
        <5> QED BY <3>1, <5>1, <5>2, <5>3 DEF ChannelInv
      <4> QED BY <3>1, <4>1, <4>2
    <3>4. expectedRecvSeq' = IF Len(delivered') < Len(seqOf')
                             THEN seqOf'[Len(delivered') + 1] ELSE nextSendSeq'
      BY <2>1, <3>1 DEF SendFrame, ChannelInv
    <3>5. ASSUME ~Stream
          PROVE  /\ \A k \in 1 .. Len(seqOf') : seqOf'[k] = k - 1
                 /\ nextSendSeq' = Len(seqOf')
      <4>1. nextSendSeq = Len(seqOf) /\ Len(seqOf) + 1 < SeqMod
        BY <2>1, <3>1, <3>5 DEF SendFrame, ChannelInv
      <4>2. nextSendSeq' = Len(seqOf) + 1
        BY <2>1, <4>1, IncrementedFacts DEF SendFrame, ChannelTypeOK
      <4> QED BY <3>1, <3>5, <4>1, <4>2 DEF ChannelInv
    <3>6. UNCHANGED <<read, reorderBuffer, delivered>>
      BY <2>1 DEF SendFrame
    <3>7. ASSUME ~Stream, NEW s \in Seqs, reorderBuffer'[s] # 0
          PROVE  /\ reorderBuffer'[s] = s + 1
                 /\ reorderBuffer'[s] > Len(delivered')
                 /\ reorderBuffer'[s] <= Len(seqOf')
      <4>1. reorderBuffer[s] <= Len(seqOf) /\ reorderBuffer[s] \in Nat
        BY <3>6, <3>7 DEF ChannelInv, ChannelTypeOK
      <4> QED BY <3>1, <3>6, <3>7, <4>1 DEF ChannelInv
    <3>8. Len(delivered') <= Len(seqOf')
      BY <3>1, <3>6 DEF ChannelInv
    <3>9. Stream => /\ read' = 1 .. Len(delivered')
                    /\ \A s \in Seqs : reorderBuffer'[s] = 0
      BY <3>6 DEF ChannelInv
    <3>10. \A k \in 1 .. Len(delivered') : delivered'[k] = k
      BY <3>6 DEF ChannelInv
    <3> QED
      BY <2>0, <3>2, <3>3, <3>4, <3>5, <3>7, <3>8, <3>9, <3>10 DEF ChannelInv
  <2>2. ASSUME PopNextBuffered
        PROVE  ChannelInv'
    <3> DEFINE b == reorderBuffer[expectedRecvSeq]
    <3>1. ~Stream /\ b # 0 /\ ReturnMessage(b) /\ UNCHANGED <<wire, nextSendSeq, seqOf, read>>
      BY <2>2 DEF PopNextBuffered, ChannelInv, ChannelTypeOK
    <3>2. b = Len(delivered) + 1 /\ b <= Len(seqOf)
      <4>1. expectedRecvSeq \in Seqs
        BY DEF ChannelTypeOK
      <4>2. b = expectedRecvSeq + 1 /\ b <= Len(seqOf)
        BY <3>1, <4>1 DEF ChannelInv
      <4> QED BY <3>1, <4>2, PlainNumbers
    <3>3. \A s \in Seqs : reorderBuffer'[s] # 0
            => s # expectedRecvSeq /\ reorderBuffer'[s] = reorderBuffer[s]
      BY <2>2 DEF PopNextBuffered, ChannelTypeOK
    <3>4. b = expectedRecvSeq + 1
      BY <3>1 DEF ChannelInv, ChannelTypeOK
    <3>5. ASSUME NEW s \in Seqs, reorderBuffer'[s] # 0
          PROVE  /\ reorderBuffer'[s] = s + 1
                 /\ reorderBuffer'[s] > Len(delivered) + 1
                 /\ reorderBuffer'[s] <= Len(seqOf)
      <4>1. s # expectedRecvSeq /\ reorderBuffer'[s] = reorderBuffer[s]
        BY <3>3, <3>5
      <4>2. /\ reorderBuffer[s] = s + 1
            /\ reorderBuffer[s] > Len(delivered)
            /\ reorderBuffer[s] <= Len(seqOf)
        BY <3>1, <3>5, <4>1 DEF ChannelInv
      <4> QED BY SMTT(30), <3>2, <3>4, <4>1, <4>2 DEF ChannelTypeOK, Seqs
    <3>6. b \in Nat
      BY DEF ChannelTypeOK
    <3> HIDE DEF b
    <3>7. /\ Len(delivered') = Len(delivered) + 1
          /\ Len(delivered') <= Len(seqOf')
          /\ \A k \in 1 .. Len(delivered') : delivered'[k] = k
          /\ expectedRecvSeq' = IF Len(delivered') < Len(seqOf')
                                THEN seqOf'[Len(delivered') + 1]
                                ELSE nextSendSeq'
      BY <3>1, <3>2, <3>6, ReturnNext
    <3> QED BY <2>0, <3>1, <3>5, <3>7 DEF ChannelInv
  <2>3. ASSUME NEW i \in 1 .. MaxSent, ReceiveFrame(i)
        PROVE  ChannelInv'
    <3>1. /\ i \in 1 .. Len(seqOf) /\ read' = read \cup {i}
          /\ Stream => read = 1 .. i - 1
          /\ UNCHANGED <<wire, nextSendSeq, seqOf>>
          /\ reorderBuffer[expectedRecvSeq] = 0
      BY <2>3 DEF ReceiveFrame, Arrives
    <3>2. Stream => i = Len(delivered) + 1
      <4>1. ASSUME Stream PROVE i - 1 = Len(delivered)
        <5>1. 1 .. i - 1 = 1 .. Len(delivered) /\ i - 1 \in Nat /\ Len(delivered) \in Nat
          BY SMTT(30), <3>1, <4>1 DEF ChannelInv, ChannelTypeOK
        <5> QED BY <5>1, IntervalEnd
      <4> QED BY <3>1, <4>1 DEF ChannelTypeOK
    <3>3. CASE seqOf[i] = expectedRecvSeq
      <4>1. ReturnMessage(i) /\ UNCHANGED reorderBuffer
        BY <2>3, <3>3 DEF ReceiveFrame
      <4>2. i = Len(delivered) + 1 /\ i <= Len(seqOf)
        <5>1. CASE Stream
          BY <3>1, <3>2, <5>1
        <5>2. CASE ~Stream
          BY <3>1, <3>3, <5>2, PlainNumbers
        <5> QED BY <5>1, <5>2
      <4>3. ASSUME ~Stream, NEW s \in Seqs, reorderBuffer'[s] # 0
            PROVE  /\ reorderBuffer'[s] = s + 1
                   /\ reorderBuffer'[s] > Len(delivered) + 1
                   /\ reorderBuffer'[s] <= Len(seqOf)
        <5>1. /\ reorderBuffer[s] = s + 1 /\ reorderBuffer[s] > Len(delivered)
              /\ reorderBuffer[s] <= Len(seqOf) /\ reorderBuffer'[s] = reorderBuffer[s]
          BY <4>1, <4>3 DEF ChannelInv
        <5>2. expectedRecvSeq = Len(delivered)
          BY <4>3, PlainNumbers
        <5>3. s # expectedRecvSeq
          BY <3>1, <4>1, <4>3
        <5> QED BY <5>1, <5>2, <5>3 DEF ChannelTypeOK, Seqs
      <4>4. Stream => /\ read' = 1 .. Len(delivered) + 1
                      /\ \A s \in Seqs : reorderBuffer'[s] = 0
        BY SMTT(30), <3>1, <4>1, <4>2 DEF ChannelInv, ChannelTypeOK
      <4>5. /\ Len(delivered') = Len(delivered) + 1
            /\ Len(delivered') <= Len(seqOf')
            /\ \A k \in 1 .. Len(delivered') : delivered'[k] = k
            /\ expectedRecvSeq' = IF Len(delivered') < Len(seqOf')
                                  THEN seqOf'[Len(delivered') + 1]
                                  ELSE nextSendSeq'
        BY <3>1, <4>1, <4>2, ReturnNext
      <4>6. Stream => /\ read' = 1 .. Len(delivered')
                      /\ \A s \in Seqs : reorderBuffer'[s] = 0
        BY Zenon, <4>4, <4>5
      <4>7. ASSUME ~Stream
            PROVE  \A s \in Seqs : reorderBuffer'[s] # 0
                     => /\ reorderBuffer'[s] = s + 1
                        /\ reorderBuffer'[s] > Len(delivered')
                        /\ reorderBuffer'[s] <= Len(seqOf')
        BY Zenon, <3>1, <4>3, <4>5, <4>7
      <4> QED BY Zenon, <2>0, <3>1, <4>5, <4>6, <4>7 DEF ChannelInv
    <3>4. CASE seqOf[i] # expectedRecvSeq
      <4>1. ~Stream
        BY <3>1, <3>2, <3>4 DEF ChannelInv, ChannelTypeOK
      <4>2. UNCHANGED <<expectedRecvSeq, delivered>>
        BY <2>3, <3>4 DEF ReceiveFrame
      <4>3. seqOf[i] = i - 1 /\ seqOf[i] \in Seqs
        BY <3>1, <4>1, PlainNumbers
      <4>4. seqOf[i] > expectedRecvSeq => i > Len(delivered)
        BY <3>1, <4>1, <4>3, PlainNumbers
      <4>5. ASSUME NEW s \in Seqs, reorderBuffer'[s] # 0
            PROVE  /\ reorderBuffer'[s] = s + 1
                   /\ reorderBuffer'[s] > Len(delivered)
                   /\ reorderBuffer'[s] <= Len(seqOf)
        <5>1. CASE reorderBuffer'[s] = reorderBuffer[s]
          BY <4>1, <4>5, <5>1 DEF ChannelInv
        <5>2. CASE reorderBuffer'[s] # reorderBuffer[s]
          <6>1. s = seqOf[i] /\ s > expectedRecvSeq /\ reorderBuffer'[s] = i
            BY <2>3, <3>4, <4>3, <5>2 DEF ReceiveFrame, ChannelTypeOK
          <6> QED BY <3>1, <4>3, <4>4, <6>1 DEF ChannelTypeOK
        <5> QED BY <5>1, <5>2
      <4> QED BY <2>0, <3>1, <4>1, <4>2, <4>5 DEF ChannelInv
    <3> QED BY <3>3, <3>4
  <2>4. CASE UNCHANGED channelVars
    BY <2>0, <2>4 DEF channelVars, ChannelInv
  <2> QED BY <2>1, <2>2, <2>3, <2>4 DEF ChannelNext
<1> QED BY <1>1, <1>2, ChannelTyped, PTL DEF ChannelSpec

\* The sequence numbers implement ordered, exactly-once delivery, whatever
\* the width of the counters: every step of sendFrame and receiveAndParse is
\* a step of OrderedDelivery or leaves it unchanged.
THEOREM ChannelRefinement == ChannelSpec => ImplementsOrderedDelivery
<1> USE SeqAssumption
<1>1. ChannelInit => InOrder!Init
  BY DEF ChannelInit, InOrder!Init
<1>2. ChannelTypeOK /\ ChannelInv /\ ChannelInv' /\ [ChannelNext]_channelVars
        => [InOrder!Next]_<<Len(seqOf), delivered>>
  <2> SUFFICES ASSUME ChannelTypeOK, ChannelInv, ChannelInv', [ChannelNext]_channelVars
               PROVE  [InOrder!Next]_<<Len(seqOf), delivered>>
    OBVIOUS
  <2>0. Len(delivered) \in Nat /\ Len(seqOf) \in Nat
    BY DEF ChannelTypeOK
  <2>1. CASE SendFrame
    <3>1. Len(seqOf') = Len(seqOf) + 1 /\ Len(seqOf) < MaxSent
          /\ UNCHANGED delivered
      BY <2>1 DEF SendFrame, ChannelTypeOK
    <3> QED BY <3>1 DEF InOrder!Next, InOrder!Send
  <2>2. ASSUME NEW i \in Nat, ReturnMessage(i), UNCHANGED seqOf
        PROVE  InOrder!Next
    <3>1. delivered' = Append(delivered, i) /\ Len(delivered') = Len(delivered) + 1
          /\ delivered'[Len(delivered) + 1] = i
      BY <2>2 DEF ReturnMessage, ChannelTypeOK
    <3>2. Len(delivered') <= Len(seqOf) /\ i = Len(delivered) + 1
      BY <2>0, <2>2, <3>1 DEF ChannelInv
    <3> QED BY <2>0, <2>2, <3>1, <3>2 DEF InOrder!Next, InOrder!Deliver
  <2>3. CASE PopNextBuffered
    <3>1. reorderBuffer[expectedRecvSeq] \in Nat
      BY DEF ChannelTypeOK
    <3> QED BY <2>2, <2>3, <3>1 DEF PopNextBuffered
  <2>4. ASSUME NEW i \in 1 .. MaxSent, ReceiveFrame(i)
        PROVE  InOrder!Next \/ UNCHANGED <<seqOf, delivered>>
    <3>1. CASE seqOf[i] = expectedRecvSeq
      BY <2>2, <2>4, <3>1 DEF ReceiveFrame
    <3>2. CASE seqOf[i] # expectedRecvSeq
      BY <2>4, <3>2 DEF ReceiveFrame
    <3> QED BY <3>1, <3>2
  <2>5. CASE UNCHANGED channelVars
    BY <2>5 DEF channelVars
  <2> QED BY <2>1, <2>3, <2>4, <2>5 DEF ChannelNext
<1> QED
  BY <1>1, <1>2, ChannelTyped, ChannelInvariant, PTL
  DEF ChannelSpec, ImplementsOrderedDelivery, InOrder!Spec
=============================================================================
