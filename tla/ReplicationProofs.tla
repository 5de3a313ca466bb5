-------------------------- MODULE ReplicationProofs --------------------------
(***************************************************************************)
(* What Replication promises, for any number of datanodes, any replication *)
(* factor, any number of writes, broken connections and restarts.          *)
(***************************************************************************)
EXTENDS Replication, FiniteSetTheorems, TLAPS

-----------------------------------------------------------------------------
(* Sets of datanodes. *)

\* Members names datanodes only, finitely many.
LEMMA MembersAreNodes ==
  ASSUME NEW m
  PROVE  Members(m) \subseteq Nodes /\ IsFiniteSet(Members(m)) /\ Size(m) \in Nat
<1>1. Members(m) \subseteq Nodes
  BY Zenon DEF Members
<1>2. IsFiniteSet(Nodes)
  BY FS_Interval, ReplicationAssumption DEF Nodes
<1>3. IsFiniteSet(Members(m))
  BY Zenon, <1>1, <1>2, FS_Subset
<1>4. Size(m) \in Nat
  BY Zenon, <1>3, FS_CardinalityType DEF Size
<1> QED
  BY Zenon, <1>1, <1>3, <1>4

\* A set of numbers that is not empty has a least one.
LEMMA LeastOf ==
  ASSUME NEW T \in SUBSET Nat, T # {}
  PROVE  \E n \in T : \A k \in T : n <= k
<1>1. PICK n \in T : \A k \in T : ~(<<k, n>> \in OpToRel(<, Nat))
  BY Zenon, WFMin, NatLessThanWellFounded
<1>2. \A k \in T : <<k, n>> \in OpToRel(<, Nat) <=> k < n
  BY Zenon DEF OpToRel
<1>3. \A k \in T : k \in Nat /\ n \in Nat /\ ~(k < n)
  BY Zenon, <1>1, <1>2
<1>4. \A k \in T : n <= k
  BY <1>3
<1> QED
  BY Zenon, <1>4

\* The next datanode of a list that is not empty is one of the list.
LEMMA FirstIsMember ==
  ASSUME NEW m, Members(m) # {}
  PROVE  First(m) \in Nodes /\ First(m) \in Members(m) /\ m[First(m)] # 0
<1>1. Members(m) \in SUBSET Nat
  BY MembersAreNodes, ReplicationAssumption DEF Nodes
<1>2. \E n \in Members(m) : \A k \in Members(m) : n <= k
  BY Zenon, <1>1, LeastOf
<1>3. First(m) \in Members(m)
  BY Zenon, <1>2 DEF First
<1> QED
  BY Zenon, <1>3, MembersAreNodes DEF Members

-----------------------------------------------------------------------------
(* Types, and the shape of requests. *)

Ops == {"CREATE", "UPDATE", "DELETE", "READ"}

\* What a request looks like when top writes have been issued.
JobOK(j, top) ==
  /\ j \in Job /\ j.snap >= -1
  /\ j.op = "idle" => j = Idle
  /\ j.op \in {"CREATE", "UPDATE"} =>
       /\ j.at \in {"snapshot", "fanout", "persist", "save", "rename", "answer"}
       /\ j.ver >= 0 /\ j.data \in 1 .. top
  /\ j.at \in {"persist", "save", "rename"} => j.op \in {"CREATE", "UPDATE", "DELETE"}
  /\ j.op = "READ" /\ j.at = "fanout" => Members(j.todo) # {}

NetTyped ==
  /\ disk \in [Nodes -> Copy]
  /\ conn \in [Nodes -> {"up", "garbled", "down"}]
  /\ dead \in [Nodes -> SUBSET Nat]
  /\ scenario \in [ops: SUBSET Ops, breaks: Nat, restarts: Nat]
  /\ \E full \in Scenarios : /\ scenario.ops = full.ops
                            /\ scenario.breaks \in 0 .. full.breaks
                            /\ scenario.restarts \in 0 .. full.restarts

MapsTyped ==
  /\ gen \in Sessions /\ endpoint \in Sessions /\ holder \in Sessions
  /\ version \in Int /\ version >= -1
  /\ fileVersion \in Int /\ fileVersion >= -1

JobTyped ==
  /\ writes \in 0 .. MaxWrites
  /\ job \in [Writers -> Job]
  /\ \A w \in Writers : JobOK(job[w], writes)

RegTyped ==
  reg \in [Nodes -> [at: {"idle", "sync", "register", "build", "merge"}, listed: Int]]

HbOK(h) ==
  /\ h \in [at: {"asleep", "probe", "erase", "save", "rename", "source", "pick",
                 "copy", "hung"},
            todo: Sessions, lost: SUBSET Nodes, map: Sessions, bytes: Bytes, snap: Int]
  /\ h.snap >= -1
  /\ h.at = "source" => Members(h.map) # {}
  /\ h.at \in {"pick", "copy"} => h.bytes # NoBytes

AuxTyped ==
  /\ rollbacks \subseteq Nodes \X Nat
  /\ acked \in [ver: Int, write: 0 .. MaxWrites]
  /\ rejected \subseteq 1 .. MaxWrites
  /\ events \subseteq Events

Typed == NetTyped /\ MapsTyped /\ JobTyped /\ RegTyped /\ HbOK(hb) /\ AuxTyped

\* The types are those of TypeOK.
LEMMA TypedIsTypeOK == Typed => TypeOK
BY Zenon DEF Typed, NetTyped, MapsTyped, JobTyped, RegTyped, HbOK, AuxTyped, TypeOK

\* The empty list of sessions, and lists shortened by a datanode.
LEMMA SessionLists ==
  /\ None \in Sessions /\ Members(None) = {}
  /\ \A m \in Sessions : \A n : Drop(m, n) \in Sessions
  /\ \A m \in Sessions : \A n : \A k \in Nat : [m EXCEPT ![n] = k] \in Sessions
  /\ \A m \in Sessions : Alive(m) \in Sessions
  /\ \A m \in Sessions : m # None => Members(m) # {}
<1>1. None \in Sessions /\ Members(None) = {}
  BY Zenon DEF None, Sessions, Members
<1>2. \A m \in Sessions : \A n : Drop(m, n) \in Sessions
  BY Zenon DEF Drop, Sessions
<1>3. \A m \in Sessions : \A n : \A k \in Nat : [m EXCEPT ![n] = k] \in Sessions
  BY Zenon DEF Sessions
<1>4. \A m \in Sessions : Alive(m) \in Sessions
  BY Zenon DEF Alive, Sessions
<1>5. ASSUME NEW m \in Sessions, Members(m) = {} PROVE m = None
  <2>1. \A n \in Nodes : m[n] = 0
    BY Zenon, <1>5 DEF Members
  <2>2. m = [n \in Nodes |-> m[n]]
    BY Zenon DEF Sessions
  <2> QED
    BY Zenon, <2>1, <2>2 DEF None
<1> QED
  BY Zenon, <1>1, <1>2, <1>3, <1>4, <1>5

\* Idle is a request.
LEMMA IdleIsJob == Idle \in Job /\ \A top \in Nat : JobOK(Idle, top)
<1>1. Idle \in Job
  BY SessionLists, ReplicationAssumption DEF Idle, Job, Bytes, NoBytes
<1> QED
  BY <1>1 DEF JobOK, Idle

\* Everything is of its type at the start.
LEMMA InitTyped == Init => Typed
<1> SUFFICES ASSUME Init PROVE Typed
  BY Zenon
<1> USE ReplicationAssumption
<1>1. NetTyped
  <2>1. NoCopy \in Copy
    BY DEF NoCopy, Copy, Bytes, NoBytes, NoRecord
  <2>2. scenario \in [ops: SUBSET Ops, breaks: Nat, restarts: Nat]
    BY Zenon DEF Init, Ops
  <2>3. scenario.breaks \in 0 .. scenario.breaks /\ scenario.restarts \in 0 .. scenario.restarts
    BY <2>2
  <2> QED
    BY Zenon, <2>1, <2>2, <2>3 DEF Init, NetTyped
<1>2. MapsTyped
  BY SessionLists DEF Init, MapsTyped, Sessions
<1>3. JobTyped
  BY IdleIsJob DEF Init, JobTyped
<1>4. RegTyped
  BY DEF Init, RegTyped, NoReg, NotListed
<1>5. HbOK(hb)
  BY SessionLists DEF Init, HbOK, Asleep, Bytes, NoBytes
<1>6. AuxTyped
  BY DEF Init, AuxTyped, NothingAcked, Events
<1> QED
  BY Zenon, <1>1, <1>2, <1>3, <1>4, <1>5, <1>6 DEF Typed

-----------------------------------------------------------------------------
(* The steps keep the types. *)

\* One break fewer to come.
LEMMA BreakTyped ==
  ASSUME NetTyped, NEW n, Breaks(n)
  PROVE  /\ conn' \in [Nodes -> {"up", "garbled", "down"}]
         /\ scenario' \in [ops: SUBSET Ops, breaks: Nat, restarts: Nat]
         /\ scenario'.restarts = scenario.restarts
         /\ \E full \in Scenarios : /\ scenario'.ops = full.ops
                                   /\ scenario'.breaks \in 0 .. full.breaks
                                   /\ scenario'.restarts \in 0 .. full.restarts
<1>1. PICK full \in Scenarios : /\ scenario.ops = full.ops
                               /\ scenario.breaks \in 0 .. full.breaks
                               /\ scenario.restarts \in 0 .. full.restarts
  BY Zenon DEF NetTyped
<1>2. /\ scenario'.ops = scenario.ops /\ scenario'.breaks = scenario.breaks - 1
      /\ scenario'.restarts = scenario.restarts
      /\ scenario' \in [ops: SUBSET Ops, breaks: Nat, restarts: Nat]
  BY DEF NetTyped, Breaks
<1>3. scenario.breaks \in Nat /\ scenario.breaks > 0
  BY Zenon DEF NetTyped, Breaks
<1>4. full.breaks \in Nat
  BY Zenon, ReplicationAssumption
<1>5. scenario'.breaks \in 0 .. full.breaks
  BY <1>1, <1>2, <1>3, <1>4
<1>6. conn' \in [Nodes -> {"up", "garbled", "down"}]
  BY Zenon DEF NetTyped, Breaks
<1> QED
  BY Zenon, <1>1, <1>2, <1>5, <1>6

\* A call that is answered keeps the types.
LEMMA AnsweredTyped ==
  ASSUME NetTyped, NEW n, NEW k, NEW c \in Copy, Answered(n, k, c)
  PROVE  NetTyped'
BY Zenon DEF NetTyped, Answered

\* So does a call that fails.
LEMMA FailedTyped ==
  ASSUME NetTyped, NEW n, NEW k \in Nat, NEW copies \in SUBSET Copy,
         Failed(n, k, copies)
  PROVE  NetTyped'
<1>1. dead' \in [Nodes -> SUBSET Nat]
  BY Zenon DEF Failed, NetTyped
<1>2. CASE UNCHANGED <<disk, conn, scenario>>
  BY Zenon, <1>1, <1>2 DEF NetTyped
<1>3. CASE Breaks(n) /\ \E c \in copies : disk' = [disk EXCEPT ![n] = c]
  <2>1. disk' \in [Nodes -> Copy]
    BY Zenon, <1>3 DEF NetTyped
  <2> QED
    BY Zenon, <1>1, <1>3, <2>1, BreakTyped DEF NetTyped
<1> QED
  BY Zenon, <1>2, <1>3 DEF Failed

\* What a call may leave at a datanode is a copy.
LEMMA CopiesTyped ==
  ASSUME NetTyped, NEW n \in Nodes
  PROVE  /\ disk[n] \in Copy /\ Deleted(n) \in Copy /\ Listed(n) \in Int
         /\ \A c \in Copy : Torn(n, c) \subseteq Copy
         /\ \A d \in Bytes, v \in Int : [data |-> d, ver |-> v] \in Copy
<1>1. disk[n] \in Copy
  BY Zenon DEF NetTyped
<1>2. NoCopy \in Copy
  BY ReplicationAssumption DEF NoCopy, Copy, Bytes, NoBytes, NoRecord
<1>3. Listed(n) \in Int
  BY <1>1 DEF Listed, Copy, NotListed
<1>4. \A d \in Bytes : [disk[n] EXCEPT !.data = d] \in Copy
  BY Zenon, <1>1 DEF Copy
<1>5. NoBytes \in Bytes /\ PartialBytes \in Bytes
  BY ReplicationAssumption DEF NoBytes, PartialBytes, Bytes
<1>6. \A c \in Copy : c.data \in Bytes
  BY Zenon DEF Copy
<1>7. \A c \in Copy : Torn(n, c) \subseteq Copy
  BY Zenon, <1>1, <1>4, <1>5, <1>6 DEF Torn
<1>8. \A d \in Bytes, v \in Int : [data |-> d, ver |-> v] \in Copy
  BY Zenon DEF Copy
<1> QED
  BY Zenon, <1>1, <1>2, <1>3, <1>7, <1>8 DEF Deleted

\* A read that fails keeps the types.
LEMMA ReadFailsTyped ==
  ASSUME NetTyped, NEW n \in Nodes, NEW k \in Nat, ReadFails(n, k)
  PROVE  NetTyped'
<1>1. CASE Failed(n, k, {disk[n]})
  BY Zenon, <1>1, FailedTyped, CopiesTyped
<1>2. CASE conn' = [conn EXCEPT ![n] = "garbled"] /\ UNCHANGED <<disk, dead, scenario>>
  BY Zenon, <1>2 DEF NetTyped
<1> QED
  BY Zenon, <1>1, <1>2 DEF ReadFails

\* A request that has its shape may replace another.
LEMMA SetTyped ==
  ASSUME JobTyped, NEW w \in Writers, NEW j, Set(w, j), writes' \in writes .. MaxWrites,
         JobOK(j, writes')
  PROVE  JobTyped'
<1>1. writes \in Nat /\ writes' \in Nat /\ writes <= writes' /\ MaxWrites \in Nat
  BY ReplicationAssumption DEF JobTyped
<1>2. j \in Job
  BY Zenon DEF JobOK
<1>3. job' \in [Writers -> Job]
  BY Zenon, <1>2 DEF JobTyped, Set
<1>4. job'[w] = j /\ \A v \in Writers \ {w} : job'[v] = job[v]
  BY Zenon DEF Set, JobTyped
<1>5. ASSUME NEW i, JobOK(i, writes) PROVE JobOK(i, writes')
  <2>1. i.op \in {"CREATE", "UPDATE"} => i.data \in 1 .. writes'
    BY <1>1, <1>5 DEF JobOK
  <2> QED
    BY Zenon, <1>5, <2>1 DEF JobOK
<1>6. \A v \in Writers : JobOK(job'[v], writes')
  BY Zenon, <1>4, <1>5 DEF JobTyped
<1>7. writes' \in 0 .. MaxWrites
  BY <1>1
<1> QED
  BY Zenon, <1>3, <1>6, <1>7 DEF JobTyped

\* What is left of a request once it has been moved on.
LEMMA JobParts ==
  ASSUME JobTyped, NEW w \in Writers
  PROVE  /\ job[w] \in Job /\ job[w].todo \in Sessions /\ job[w].oks \in Sessions
         /\ job[w].ver \in Int /\ job[w].data \in Bytes /\ job[w].size \in Nat
         /\ job[w].snap \in Int /\ JobOK(job[w], writes)
         /\ job[w].op \in {"idle", "CREATE", "UPDATE", "DELETE", "READ"}
         /\ \A n \in Nodes : job[w].todo[n] \in Nat /\ job[w].oks[n] \in Nat
BY Zenon DEF JobTyped, Job, Sessions

\* A step that leaves the datanodes and the other threads alone keeps their types.
LEMMA NetKept ==
  ASSUME Typed, UNCHANGED <<disk, net, reg, hb, scenario>>
  PROVE  NetTyped' /\ RegTyped' /\ HbOK(hb)'
BY Zenon DEF Typed, NetTyped, RegTyped, net

\* StartCreate keeps the requests in shape.
LEMMA StartCreateTyped ==
  ASSUME Typed, NEW w \in Writers, StartCreate(w)
  PROVE  JobTyped'
<1>t. MapsTyped /\ JobTyped
  BY Zenon DEF Typed
<1>w. writes \in Nat /\ MaxWrites \in Nat /\ writes <= MaxWrites
  BY <1>t, ReplicationAssumption DEF JobTyped
<1>i. Idle \in Job
  BY Zenon, IdleIsJob
<1> DEFINE j == [Idle EXCEPT !.op = "CREATE", !.at = "fanout", !.ver = 0,
                             !.data = writes + 1, !.todo = endpoint]
<1>1. j.op = "CREATE" /\ j.at = "fanout" /\ j.ver = 0 /\ j.data = writes + 1
  BY Zenon DEF Idle
<1>2. j \in Job
  <2>2. writes + 1 \in Bytes /\ endpoint \in Sessions
    BY <1>t, <1>w DEF MapsTyped, Bytes, StartCreate
  <2> DEFINE i == [Idle EXCEPT !.op = "CREATE", !.at = "fanout"]
             zero == 0
  <2>3. i \in Job
    BY Zenon, <1>i DEF Job
  <2>4. j = [i EXCEPT !.ver = zero, !.data = writes + 1, !.todo = endpoint]
    BY Zenon
  <2>5. zero \in Int
    OBVIOUS
  <2> HIDE DEF i, j, zero
  <2> QED
    BY Zenon, <2>2, <2>3, <2>4, <2>5 DEF Job
<1>3. writes' = writes + 1 /\ writes' \in writes .. MaxWrites
  BY <1>w DEF StartCreate
<1>5. j.snap >= -1
  BY DEF Idle
<1> HIDE DEF j
<1>4. JobOK(j, writes')
  BY <1>1, <1>2, <1>3, <1>5, <1>w DEF JobOK
<1> QED
  BY Zenon, <1>t, <1>3, <1>4, SetTyped DEF StartCreate, j

\* StartUpdate keeps the requests in shape.
LEMMA StartUpdateTyped ==
  ASSUME Typed, NEW w \in Writers, StartUpdate(w)
  PROVE  JobTyped'
<1>t. MapsTyped /\ JobTyped
  BY Zenon DEF Typed
<1>w. writes \in Nat /\ MaxWrites \in Nat /\ writes <= MaxWrites
  BY <1>t, ReplicationAssumption DEF JobTyped
<1>i. Idle \in Job
  BY Zenon, IdleIsJob
<1>b. writes < MaxWrites /\ writes' = writes + 1
  BY Zenon DEF StartUpdate
<1>0. PICK seen \in 0 .. writes :
        Set(w, [Idle EXCEPT !.op = "UPDATE", !.at = "snapshot",
             !.ver = (IF version # -1 THEN version ELSE seen) + 1,
             !.data = writes + 1])
  BY Zenon DEF StartUpdate
<1> DEFINE v == (IF version # -1 THEN version ELSE seen) + 1
           j == [Idle EXCEPT !.op = "UPDATE", !.at = "snapshot", !.ver = v,
                             !.data = writes + 1]
<1>v. v \in Int /\ v >= 0
  BY <1>t, <1>w DEF MapsTyped
<1>1. j.op = "UPDATE" /\ j.at = "snapshot" /\ j.ver = v /\ j.data = writes + 1
  BY Zenon DEF Idle
<1>2. j \in Job
  <2>1. j = [Idle EXCEPT !.op = "UPDATE", !.at = "snapshot", !.ver = v,
                         !.data = writes + 1]
    BY Zenon
  <2>2. writes + 1 \in Bytes
    BY <1>w, <1>b DEF Bytes
  <2> HIDE DEF j, v
  <2> QED
    BY Zenon, <1>i, <1>v, <2>1, <2>2 DEF Job
<1>3. writes' = writes + 1 /\ writes' \in writes .. MaxWrites
  BY <1>w, <1>b
<1>5. j.snap >= -1
  BY DEF Idle
<1> HIDE DEF j, v
<1>4. JobOK(j, writes')
  BY <1>1, <1>2, <1>3, <1>5, <1>v, <1>w DEF JobOK
<1> QED
  BY Zenon, <1>t, <1>0, <1>3, <1>4, SetTyped DEF j, v

\* SnapshotHolders keeps the requests in shape.
LEMMA SnapshotTyped ==
  ASSUME Typed, NEW w \in Writers, SnapshotHolders(w)
  PROVE  JobTyped'
<1>t. MapsTyped /\ JobTyped
  BY Zenon DEF Typed
<1>w. writes \in Nat /\ MaxWrites \in Nat /\ writes <= MaxWrites
  BY <1>t, ReplicationAssumption DEF JobTyped
<1> DEFINE j == [job[w] EXCEPT !.at = "fanout", !.todo = holder, !.size = Size(holder)]
<1>1. job[w] \in Job /\ JobOK(job[w], writes) /\ job[w].op = "UPDATE"
  BY Zenon, <1>t, JobParts DEF SnapshotHolders
<1>2. Size(holder) \in Nat /\ holder \in Sessions
  BY Zenon, <1>t, MembersAreNodes DEF MapsTyped
<1>3. /\ j \in Job /\ j.op = "UPDATE" /\ j.at = "fanout" /\ j.ver = job[w].ver
      /\ j.data = job[w].data /\ j.snap = job[w].snap
  BY Zenon, <1>1, <1>2 DEF Job
<1>4. writes' = writes
  BY Zenon DEF SnapshotHolders
<1> HIDE DEF j
<1>5. JobOK(j, writes')
  BY Zenon, <1>1, <1>3, <1>4 DEF JobOK
<1> QED
  BY <1>t, <1>w, <1>4, <1>5, SetTyped DEF SnapshotHolders, j

\* StartDelete keeps the requests in shape.
LEMMA StartDeleteTyped ==
  ASSUME Typed, NEW w \in Writers, StartDelete(w)
  PROVE  JobTyped'
<1>t. MapsTyped /\ JobTyped
  BY Zenon DEF Typed
<1>w. writes \in Nat /\ MaxWrites \in Nat /\ writes <= MaxWrites
  BY <1>t, ReplicationAssumption DEF JobTyped
<1>i. Idle \in Job
  BY Zenon, IdleIsJob
<1> DEFINE j == [Idle EXCEPT !.op = "DELETE", !.at = "fanout", !.todo = holder]
<1>1. holder \in Sessions
  BY Zenon, <1>t DEF MapsTyped
<1>2. j \in Job /\ j.op = "DELETE" /\ j.at = "fanout"
  BY Zenon, <1>i, <1>1 DEF Job
<1>3. j.snap >= -1
  BY DEF Idle
<1>4. writes' = writes
  BY Zenon DEF StartDelete
<1> HIDE DEF j
<1>5. JobOK(j, writes')
  BY Zenon, <1>2, <1>3 DEF JobOK
<1> QED
  BY <1>t, <1>w, <1>4, <1>5, SetTyped DEF StartDelete, j

\* StartRead keeps the requests in shape.
LEMMA StartReadTyped ==
  ASSUME Typed, NEW w \in Writers, StartRead(w)
  PROVE  JobTyped'
<1>t. MapsTyped /\ JobTyped
  BY Zenon DEF Typed
<1>w. writes \in Nat /\ MaxWrites \in Nat /\ writes <= MaxWrites
  BY <1>t, ReplicationAssumption DEF JobTyped
<1>i. Idle \in Job
  BY Zenon, IdleIsJob
<1> DEFINE i == [Idle EXCEPT !.op = "READ", !.at = "fanout", !.ver = version]
           j == [Idle EXCEPT !.op = "READ", !.at = "fanout", !.ver = version,
                             !.todo = Alive(holder)]
<1>1. Alive(holder) \in Sessions /\ version \in Int
  BY Zenon, <1>t, SessionLists DEF MapsTyped
<1>2. j = [i EXCEPT !.todo = Alive(holder)]
  BY Zenon
<1>3. i \in Job /\ i.op = "READ" /\ i.at = "fanout"
  BY Zenon, <1>i, <1>1 DEF Job
<1>4. i.snap >= -1
  BY DEF Idle
<1> HIDE DEF i, j
<1>5. /\ j \in Job /\ j.op = "READ" /\ j.at = "fanout" /\ j.snap >= -1
      /\ j.todo = Alive(holder)
  BY Zenon, <1>1, <1>2, <1>3, <1>4 DEF Job
<1>6. writes' = writes /\ Members(Alive(holder)) # {}
  BY Zenon DEF StartRead
<1>7. JobOK(j, writes')
  BY Zenon, <1>5, <1>6 DEF JobOK
<1> QED
  BY <1>t, <1>w, <1>6, <1>7, SetTyped DEF StartRead, j

\* The steps that begin a request keep the types.
LEMMA StartTyped ==
  ASSUME Typed, NEW w \in Writers,
         StartCreate(w) \/ StartUpdate(w) \/ StartDelete(w) \/ StartRead(w)
         \/ SnapshotHolders(w)
  PROVE  Typed'
<1>t. MapsTyped /\ AuxTyped
  BY Zenon DEF Typed
<1>1. JobTyped'
  BY Zenon, StartCreateTyped, StartUpdateTyped, StartDeleteTyped, StartReadTyped, SnapshotTyped
<1>2. UNCHANGED <<disk, net, maps, reg, hb, rollbacks, aux, scenario>>
  BY Zenon DEF StartCreate, StartUpdate, StartDelete, StartRead, SnapshotHolders
<1>3. NetTyped' /\ RegTyped' /\ HbOK(hb)'
  BY Zenon, <1>2, NetKept
<1>4. MapsTyped'
  BY Zenon, <1>2, <1>t DEF MapsTyped, net, maps
<1>5. AuxTyped'
  BY Zenon, <1>2, <1>t DEF AuxTyped, aux
<1> QED
  BY Zenon, <1>1, <1>3, <1>4, <1>5 DEF Typed

\* A write or a delete that moves on keeps its shape.
LEMMA MovedOn ==
  ASSUME NEW top, NEW j, JobOK(j, top), j.op \in {"CREATE", "UPDATE", "DELETE"},
         NEW i \in Job, i.op = j.op, i.ver = j.ver, i.data = j.data, i.snap >= -1,
         i.at \in {"fanout", "persist", "save", "rename", "answer"}
  PROVE  JobOK(i, top)
BY Zenon DEF JobOK

\* One call of a fan-out keeps the types.
LEMMA FanoutTyped ==
  ASSUME Typed, NEW w \in Writers, Fanout(w)
  PROVE  Typed'
<1> DEFINE j == job[w]
           n == First(j.todo)
           k == j.todo[n]
           c == IF j.op = "DELETE" THEN Deleted(n) ELSE [data |-> j.data, ver |-> j.ver]
           rest == [j EXCEPT !.todo = Drop(@, n)]
           called == IF j.op = "DELETE" THEN [rest EXCEPT !.size = @ + 1] ELSE rest
           ok == [called EXCEPT !.oks[n] = k]
<1>t. NetTyped /\ MapsTyped /\ JobTyped /\ RegTyped /\ HbOK(hb) /\ AuxTyped
  BY Zenon DEF Typed
<1>w. writes' = writes /\ writes \in Nat /\ MaxWrites \in Nat /\ writes <= MaxWrites
  BY <1>t, ReplicationAssumption DEF JobTyped, Fanout
<1>j. /\ j \in Job /\ JobOK(j, writes) /\ j.todo \in Sessions /\ j.oks \in Sessions
      /\ j.size \in Nat /\ j.data \in Bytes /\ j.ver \in Int
      /\ j.at = "fanout" /\ j.op # "READ" /\ j.op # "idle" /\ Members(j.todo) # {}
      /\ j.op \in {"CREATE", "UPDATE", "DELETE"}
  <2>1. /\ j \in Job /\ JobOK(j, writes) /\ j.todo \in Sessions /\ j.oks \in Sessions
        /\ j.size \in Nat /\ j.data \in Bytes /\ j.ver \in Int
        /\ j.op \in {"idle", "CREATE", "UPDATE", "DELETE", "READ"}
    BY Zenon, <1>t, JobParts
  <2>2. j.at = "fanout" /\ j.op # "READ" /\ Members(j.todo) # {}
    BY Zenon DEF Fanout
  <2>3. j.op # "idle"
    BY <2>1, <2>2 DEF JobOK, Idle
  <2> QED
    BY Zenon, <2>1, <2>2, <2>3
<1>n. n \in Nodes /\ k \in Nat
  BY Zenon, <1>j, FirstIsMember DEF Sessions
<1>c. c \in Copy
  BY Zenon, <1>n, <1>t, <1>j, CopiesTyped
<1>1. NetTyped'
  <2>1. (IF j.op = "DELETE" THEN {disk[n], c} ELSE Torn(n, c)) \in SUBSET Copy
    BY Zenon, <1>n, <1>t, <1>c, CopiesTyped
  <2>2. CASE UNCHANGED <<disk, conn, dead, scenario>>
    BY Zenon, <1>t, <2>2 DEF NetTyped
  <2>3. CASE Answered(n, k, c)
    BY Zenon, <1>t, <1>c, <2>3, AnsweredTyped
  <2>4. CASE Failed(n, k, IF j.op = "DELETE" THEN {disk[n], c} ELSE Torn(n, c))
    BY Zenon, <1>t, <1>n, <2>1, <2>4, FailedTyped
  <2> QED
    BY Zenon, <2>2, <2>3, <2>4 DEF Fanout
<1>2. /\ rest \in Job /\ rest.op = j.op /\ rest.at = "fanout" /\ rest.ver = j.ver
      /\ rest.data = j.data /\ rest.snap = j.snap /\ rest.size = j.size /\ rest.oks = j.oks
  <2>1. Drop(j.todo, n) \in Sessions
    BY Zenon, <1>j, SessionLists
  <2> HIDE DEF j, n
  <2> QED
    BY Zenon, <2>1, <1>j DEF Job
<1>3. /\ called \in Job /\ called.op = j.op /\ called.at = "fanout" /\ called.ver = j.ver
      /\ called.data = j.data /\ called.snap = j.snap /\ called.oks = j.oks
  <2> HIDE DEF rest, j
  <2> QED
    BY <1>2, <1>j DEF Job
<1>4. /\ ok \in Job /\ ok.op = j.op /\ ok.at = "fanout" /\ ok.ver = j.ver
      /\ ok.data = j.data /\ ok.snap = j.snap
  <2>2. ok = [called EXCEPT !.oks = [called.oks EXCEPT ![n] = k]]
    BY Zenon
  <2> HIDE DEF called, j, ok, n, k
  <2>0. called.oks \in Sessions /\ k \in Nat
    BY Zenon, <1>3, <1>j, <1>n
  <2>1. [called.oks EXCEPT ![n] = k] \in Sessions
    BY Zenon, <2>0 DEF Sessions
  <2> QED
    BY Zenon, <1>3, <2>1, <2>2 DEF Job
<1>5. j.snap >= -1
  BY Zenon, <1>j DEF JobOK
<1>6. JobTyped'
  <2>1. JobOK(rest, writes') /\ JobOK(called, writes') /\ JobOK(ok, writes')
    <3> HIDE DEF rest, called, ok, j
    <3> QED
      BY Zenon, <1>2, <1>3, <1>4, <1>5, <1>j, <1>w, MovedOn
  <2>2. Set(w, rest) \/ Set(w, called) \/ Set(w, ok)
    BY Zenon DEF Fanout
  <2>3. writes' \in writes .. MaxWrites
    BY <1>w
  <2> HIDE DEF rest, called, ok
  <2> QED
    BY Zenon, <1>t, <2>1, <2>2, <2>3, SetTyped
<1>7. UNCHANGED <<gen, maps, reg, hb, rollbacks, writes, aux>>
  BY Zenon DEF Fanout
<1>8. MapsTyped' /\ RegTyped' /\ HbOK(hb)' /\ AuxTyped'
  BY Zenon, <1>7, <1>t DEF MapsTyped, maps, RegTyped, AuxTyped, aux
<1> QED
  BY Zenon, <1>1, <1>6, <1>8 DEF Typed

\* A request that has its shape may replace another while no write begins.
LEMMA SetSame ==
  ASSUME JobTyped, NEW w \in Writers, NEW j, Set(w, j), writes' = writes,
         JobOK(j, writes)
  PROVE  JobTyped'
<1>1. writes' \in writes .. MaxWrites
  BY ReplicationAssumption DEF JobTyped
<1> QED
  BY Zenon, <1>1, SetTyped

\* A request and the shapes it may move on to.
LEMMA RequestFacts ==
  ASSUME Typed, NEW w \in Writers
  PROVE  /\ job[w] \in Job /\ JobOK(job[w], writes) /\ job[w].oks \in Sessions
         /\ job[w].ver \in Int /\ job[w].snap \in Int /\ job[w].snap >= -1
         /\ \A a \in {"persist", "save", "rename", "answer"} :
              job[w].op \in {"CREATE", "UPDATE", "DELETE"}
              => JobOK([job[w] EXCEPT !.at = a], writes)
         /\ JobOK(Idle, writes)
         /\ job[w].op \in {"CREATE", "UPDATE"}
            => job[w].data \in 1 .. MaxWrites /\ job[w].ver >= 0
         /\ job[w].at \in {"persist", "save", "rename"}
            => job[w].op \in {"CREATE", "UPDATE", "DELETE"}
         /\ job[w].at = "answer" /\ job[w].op \notin {"READ", "DELETE"}
            => job[w].op \in {"CREATE", "UPDATE"}
<1> DEFINE j == job[w]
<1>1. JobTyped
  BY Zenon DEF Typed
<1>2. writes \in Nat /\ MaxWrites \in Nat /\ writes <= MaxWrites
  BY <1>1, ReplicationAssumption DEF JobTyped
<1>3. /\ j \in Job /\ JobOK(j, writes) /\ j.oks \in Sessions /\ j.ver \in Int
      /\ j.snap \in Int /\ j.op \in {"idle", "CREATE", "UPDATE", "DELETE", "READ"}
  BY Zenon, <1>1, JobParts
<1> HIDE DEF j
<1>4. ASSUME NEW a \in {"persist", "save", "rename", "answer"},
             j.op \in {"CREATE", "UPDATE", "DELETE"}
      PROVE  JobOK([j EXCEPT !.at = a], writes)
  <2> DEFINE i == [j EXCEPT !.at = a]
  <2>1. /\ i \in Job /\ i.op = j.op /\ i.ver = j.ver /\ i.data = j.data
        /\ i.snap = j.snap /\ i.at = a
    BY Zenon, <1>3 DEF Job
  <2>2. j.snap >= -1
    BY Zenon, <1>3 DEF JobOK
  <2> HIDE DEF i
  <2>3. JobOK(i, writes)
    BY Zenon, <1>3, <1>4, <2>1, <2>2, MovedOn
  <2> QED
    BY Zenon, <2>3 DEF i
<1>5. JobOK(Idle, writes)
  BY Zenon, <1>2, IdleIsJob
<1>6. j.op \in {"CREATE", "UPDATE"} => j.data \in 1 .. MaxWrites /\ j.ver >= 0
  BY <1>2, <1>3 DEF JobOK
<1>7. j.snap >= -1 /\ (j.at \in {"persist", "save", "rename"}
                       => j.op \in {"CREATE", "UPDATE", "DELETE"})
  BY Zenon, <1>3 DEF JobOK
<1>8. j.at = "answer" => j.op # "idle"
  BY <1>3 DEF JobOK, Idle
<1> QED
  BY Zenon, <1>3, <1>4, <1>5, <1>6, <1>7, <1>8 DEF j

\* CommitCreate keeps the types.
LEMMA CommitCreateTyped ==
  ASSUME Typed, NEW w \in Writers, CommitCreate(w)
  PROVE  Typed'
<1> DEFINE j == job[w]
<1>t. MapsTyped /\ JobTyped /\ AuxTyped
  BY Zenon DEF Typed
<1>j. /\ j.oks \in Sessions /\ j.ver \in Int /\ j.op = "CREATE"
      /\ j.data \in 1 .. MaxWrites /\ j.ver >= 0
      /\ JobOK(Idle, writes) /\ JobOK([j EXCEPT !.at = "persist"], writes)
  BY Zenon, RequestFacts DEF CommitCreate, FanoutDone
<1>1. JobTyped'
  <2>1. writes' = writes /\ (Set(w, Idle) \/ Set(w, [j EXCEPT !.at = "persist"]))
    BY Zenon DEF CommitCreate
  <2> QED
    BY Zenon, <1>t, <1>j, <2>1, SetSame
<1>2. AuxTyped'
  <2>1. {<<n, j.oks[n]>> : n \in Members(j.oks)} \subseteq Nodes \X Nat
    BY <1>j, MembersAreNodes DEF Sessions
  <2>2. UNCHANGED <<acked, events>>
    BY Zenon DEF CommitCreate
  <2>3. \/ UNCHANGED <<rollbacks, rejected>>
        \/ /\ rollbacks' = rollbacks \cup {<<n, j.oks[n]>> : n \in Members(j.oks)}
           /\ rejected' = rejected \cup {j.data}
    BY Zenon DEF CommitCreate
  <2> HIDE DEF j
  <2> QED
    BY Zenon, <1>t, <1>j, <2>1, <2>2, <2>3 DEF AuxTyped
<1>3. MapsTyped'
  <2>1. [n \in Nodes |-> IF j.oks[n] # 0 THEN j.oks[n] ELSE holder[n]] \in Sessions
    BY Zenon, <1>j, <1>t DEF Sessions, MapsTyped
  <2>2. \/ UNCHANGED <<holder, version>>
        \/ /\ holder' = [n \in Nodes |-> IF j.oks[n] # 0 THEN j.oks[n] ELSE holder[n]]
           /\ version' = j.ver
    BY Zenon DEF CommitCreate
  <2>3. UNCHANGED <<net, endpoint, fileVersion>>
    BY Zenon DEF CommitCreate
  <2> HIDE DEF j
  <2> QED
    BY <1>t, <1>j, <2>1, <2>2, <2>3 DEF MapsTyped, net
<1>4. NetTyped' /\ RegTyped' /\ HbOK(hb)'
  BY Zenon, NetKept DEF CommitCreate
<1> QED
  BY Zenon, <1>1, <1>2, <1>3, <1>4 DEF Typed

\* CommitUpdate keeps the types.
LEMMA CommitUpdateTyped ==
  ASSUME Typed, NEW w \in Writers, CommitUpdate(w)
  PROVE  Typed'
<1> DEFINE j == job[w]
<1>t. MapsTyped /\ JobTyped /\ AuxTyped
  BY Zenon DEF Typed
<1>j. /\ j.ver \in Int /\ j.op = "UPDATE" /\ j.data \in 1 .. MaxWrites /\ j.ver >= 0
      /\ JobOK(Idle, writes) /\ JobOK([j EXCEPT !.at = "persist"], writes)
  BY Zenon, RequestFacts DEF CommitUpdate, FanoutDone
<1>1. JobTyped'
  <2>1. writes' = writes /\ (Set(w, Idle) \/ Set(w, [j EXCEPT !.at = "persist"]))
    BY Zenon DEF CommitUpdate
  <2> QED
    BY Zenon, <1>t, <1>j, <2>1, SetSame
<1>2. AuxTyped'
  <2>1. UNCHANGED <<acked, events, rollbacks>>
    BY Zenon DEF CommitUpdate
  <2>2. UNCHANGED rejected \/ rejected' = rejected \cup {j.data}
    BY Zenon DEF CommitUpdate
  <2> HIDE DEF j
  <2> QED
    BY Zenon, <1>t, <1>j, <2>1, <2>2 DEF AuxTyped
<1>3. MapsTyped'
  <2>1. UNCHANGED version \/ version' = j.ver
    BY Zenon DEF CommitUpdate
  <2>2. UNCHANGED <<net, endpoint, holder, fileVersion>>
    BY Zenon DEF CommitUpdate
  <2> HIDE DEF j
  <2> QED
    BY <1>t, <1>j, <2>1, <2>2 DEF MapsTyped, net
<1>4. NetTyped' /\ RegTyped' /\ HbOK(hb)'
  BY Zenon, NetKept DEF CommitUpdate
<1> QED
  BY Zenon, <1>1, <1>2, <1>3, <1>4 DEF Typed

\* CommitDelete keeps the types.
LEMMA CommitDeleteTyped ==
  ASSUME Typed, NEW w \in Writers, CommitDelete(w)
  PROVE  Typed'
<1> DEFINE j == job[w]
<1>t. MapsTyped /\ JobTyped /\ AuxTyped
  BY Zenon DEF Typed
<1>j. JobOK(Idle, writes) /\ JobOK([j EXCEPT !.at = "persist"], writes)
  BY Zenon, RequestFacts DEF CommitDelete, FanoutDone
<1>1. JobTyped'
  <2>1. writes' = writes /\ (Set(w, Idle) \/ Set(w, [j EXCEPT !.at = "persist"]))
    BY Zenon DEF CommitDelete
  <2> QED
    BY Zenon, <1>t, <1>j, <2>1, SetSame
<1>2. AuxTyped'
  <2>1. UNCHANGED <<rejected, rollbacks>>
    BY Zenon DEF CommitDelete
  <2>2. UNCHANGED acked \/ acked' = [acked EXCEPT !.ver = -1]
    BY Zenon DEF CommitDelete
  <2>3. UNCHANGED events \/ events' = events \cup {"deleted"}
    BY Zenon DEF CommitDelete, Happens
  <2>4. acked' \in [ver: Int, write: 0 .. MaxWrites]
    <3> DEFINE none == -1
    <3>1. none \in Int /\ (UNCHANGED acked \/ acked' = [acked EXCEPT !.ver = none])
      BY <2>2
    <3> HIDE DEF none
    <3> QED
      BY Zenon, <3>1, <1>t DEF AuxTyped
  <2> QED
    BY Zenon, <1>t, <2>1, <2>3, <2>4 DEF AuxTyped, Events
<1>3. MapsTyped'
  <2>1. UNCHANGED <<holder, version>> \/ (holder' = None /\ version' = -1)
    BY Zenon DEF CommitDelete
  <2>2. UNCHANGED <<net, endpoint, fileVersion>>
    BY Zenon DEF CommitDelete
  <2> QED
    BY <1>t, <2>1, <2>2, SessionLists DEF MapsTyped, net
<1>4. NetTyped' /\ RegTyped' /\ HbOK(hb)'
  BY Zenon, NetKept DEF CommitDelete
<1> QED
  BY Zenon, <1>1, <1>2, <1>3, <1>4 DEF Typed

\* SetFileVersion keeps the types.
LEMMA SetFileVersionTyped ==
  ASSUME Typed, NEW w \in Writers, SetFileVersion(w)
  PROVE  Typed'
<1> DEFINE j == job[w]
<1>t. MapsTyped /\ JobTyped /\ AuxTyped
  BY Zenon DEF Typed
<1>j. /\ j.ver \in Int /\ (j.op # "DELETE" => j.ver >= 0)
      /\ JobOK([j EXCEPT !.at = "save"], writes)
  BY Zenon, RequestFacts DEF SetFileVersion
<1>1. JobTyped'
  <2>1. writes' = writes /\ Set(w, [j EXCEPT !.at = "save"])
    BY Zenon DEF SetFileVersion
  <2> QED
    BY Zenon, <1>t, <1>j, <2>1, SetSame
<1>2. AuxTyped'
  BY Zenon, <1>t DEF AuxTyped, aux, SetFileVersion
<1>3. MapsTyped'
  <2>1. UNCHANGED fileVersion \/ (fileVersion' = j.ver /\ j.op # "DELETE")
    BY Zenon DEF SetFileVersion
  <2>2. UNCHANGED <<net, endpoint, holder, version>>
    BY Zenon DEF SetFileVersion
  <2> HIDE DEF j
  <2> QED
    BY <1>t, <1>j, <2>1, <2>2 DEF MapsTyped, net
<1>4. NetTyped' /\ RegTyped' /\ HbOK(hb)'
  BY Zenon, NetKept DEF SetFileVersion
<1> QED
  BY Zenon, <1>1, <1>2, <1>3, <1>4 DEF Typed

\* PersistRead keeps the types.
LEMMA PersistReadTyped ==
  ASSUME Typed, NEW w \in Writers, PersistRead(w)
  PROVE  Typed'
<1> DEFINE j == job[w]
           i == [j EXCEPT !.at = "rename", !.snap = version]
<1>t. MapsTyped /\ JobTyped /\ AuxTyped
  BY Zenon DEF Typed
<1>j. /\ j \in Job /\ JobOK(j, writes) /\ j.op \in {"CREATE", "UPDATE", "DELETE"}
      /\ version \in Int /\ version >= -1
  BY Zenon, <1>t, RequestFacts DEF PersistRead, MapsTyped
<1>1. JobTyped'
  <2>1. /\ i \in Job /\ i.op = j.op /\ i.ver = j.ver /\ i.data = j.data
        /\ i.snap = version /\ i.at = "rename"
    <3> HIDE DEF j
    <3> QED
      BY Zenon, <1>j DEF Job
  <2>2. JobOK(i, writes)
    <3> HIDE DEF i, j
    <3> QED
      BY Zenon, <2>1, <1>j, MovedOn
  <2>3. Set(w, i) /\ writes' = writes
    BY Zenon DEF PersistRead
  <2> HIDE DEF i
  <2> QED
    BY Zenon, <2>2, <2>3, <1>t, SetSame
<1>2. UNCHANGED <<net, maps, rollbacks, aux>>
  BY Zenon DEF PersistRead
<1>3. AuxTyped' /\ MapsTyped'
  BY Zenon, <1>2, <1>t DEF AuxTyped, aux, MapsTyped, net, maps
<1>4. NetTyped' /\ RegTyped' /\ HbOK(hb)'
  BY Zenon, NetKept DEF PersistRead
<1> QED
  BY Zenon, <1>1, <1>3, <1>4 DEF Typed

\* PersistWrite keeps the types.
LEMMA PersistWriteTyped ==
  ASSUME Typed, NEW w \in Writers, PersistWrite(w)
  PROVE  Typed'
<1> DEFINE j == job[w]
<1>t. MapsTyped /\ JobTyped /\ AuxTyped
  BY Zenon DEF Typed
<1>j. /\ j.snap \in Int /\ j.snap >= -1 /\ JobOK([j EXCEPT !.at = "answer"], writes)
  BY Zenon, RequestFacts DEF PersistWrite
<1>1. JobTyped'
  <2>1. writes' = writes /\ Set(w, [j EXCEPT !.at = "answer"])
    BY Zenon DEF PersistWrite
  <2> QED
    BY Zenon, <1>t, <1>j, <2>1, SetSame
<1>2. AuxTyped'
  <2>1. UNCHANGED <<rollbacks, acked, rejected>>
    BY Zenon DEF PersistWrite
  <2>2. UNCHANGED events \/ events' = events \cup {"stale save"}
    BY Zenon DEF PersistWrite, Happens
  <2> QED
    BY Zenon, <1>t, <2>1, <2>2 DEF AuxTyped, Events
<1>3. MapsTyped'
  <2>1. fileVersion' = j.snap
    BY Zenon DEF PersistWrite
  <2>2. UNCHANGED <<net, endpoint, holder, version>>
    BY Zenon DEF PersistWrite
  <2> HIDE DEF j
  <2> QED
    BY Zenon, <1>t, <1>j, <2>1, <2>2 DEF MapsTyped, net
<1>4. NetTyped' /\ RegTyped' /\ HbOK(hb)'
  BY Zenon, NetKept DEF PersistWrite
<1> QED
  BY Zenon, <1>1, <1>2, <1>3, <1>4 DEF Typed

\* Answer and AnswerRead keep the types.
LEMMA AnswerTyped ==
  ASSUME Typed, NEW w \in Writers, Answer(w) \/ AnswerRead(w)
  PROVE  Typed'
<1> DEFINE j == job[w]
<1>t. MapsTyped /\ JobTyped /\ AuxTyped
  BY Zenon DEF Typed
<1>1. JobTyped'
  <2>1. writes' = writes /\ Set(w, Idle)
    BY Zenon DEF Answer, AnswerRead
  <2> QED
    BY Zenon, <1>t, <2>1, RequestFacts, SetSame
<1>2. UNCHANGED <<net, maps, rollbacks, rejected, events>>
  BY Zenon DEF Answer, AnswerRead, aux
<1>3. MapsTyped'
  BY Zenon, <1>2, <1>t DEF MapsTyped, net, maps
<1>4. acked' \in [ver: Int, write: 0 .. MaxWrites]
  <2>1. CASE UNCHANGED acked
    BY Zenon, <2>1, <1>t DEF AuxTyped
  <2>2. CASE /\ acked' = [ver |-> Larger(acked.ver, j.ver), write |-> j.data]
             /\ j.at = "answer" /\ j.op # "READ" /\ j.op # "DELETE"
    <3>1. j.ver \in Int /\ j.data \in 1 .. MaxWrites
      BY Zenon, <2>2, RequestFacts
    <3>2. Larger(acked.ver, j.ver) \in Int
      BY Zenon, <1>t, <3>1 DEF Larger, AuxTyped
    <3> HIDE DEF j
    <3> QED
      BY <2>2, <3>1, <3>2
  <2> QED
    BY Zenon, <2>1, <2>2 DEF Answer, AnswerRead, aux
<1>5. AuxTyped'
  BY Zenon, <1>2, <1>4, <1>t DEF AuxTyped
<1>6. NetTyped' /\ RegTyped' /\ HbOK(hb)'
  BY Zenon, NetKept DEF Answer, AnswerRead
<1> QED
  BY Zenon, <1>1, <1>3, <1>5, <1>6 DEF Typed

\* One call of a read keeps the types.
LEMMA ReadHolderTyped ==
  ASSUME Typed, NEW w \in Writers, ReadHolder(w)
  PROVE  Typed'
<1> DEFINE j == job[w]
           n == First(j.todo)
           k == j.todo[n]
           rest == [j EXCEPT !.todo = Drop(@, n)]
           next == IF Members(rest.todo) = {} THEN Idle ELSE rest
           found == [rest EXCEPT !.at = "answer", !.data = disk[n].data]
           hung == [j EXCEPT !.at = "hung"]
<1>t. NetTyped /\ MapsTyped /\ JobTyped /\ RegTyped /\ HbOK(hb) /\ AuxTyped
  BY Zenon DEF Typed
<1>w. writes' = writes /\ writes \in Nat /\ writes' \in writes .. MaxWrites
  <2>1. writes' = writes
    BY Zenon DEF ReadHolder
  <2> QED
    BY <1>t, <2>1, ReplicationAssumption DEF JobTyped
<1>j. /\ j \in Job /\ JobOK(j, writes) /\ j.todo \in Sessions
      /\ j.at = "fanout" /\ j.op = "READ" /\ Members(j.todo) # {} /\ j.snap >= -1
  <2>1. j \in Job /\ JobOK(j, writes) /\ j.todo \in Sessions
    BY Zenon, <1>t, JobParts
  <2>2. j.at = "fanout" /\ j.op = "READ"
    BY Zenon DEF ReadHolder
  <2> QED
    BY Zenon, <2>1, <2>2 DEF JobOK
<1>n. n \in Nodes /\ k \in Nat /\ disk[n] \in Copy /\ disk[n].data \in Bytes
  <2>1. n \in Nodes /\ k \in Nat
    BY Zenon, <1>j, FirstIsMember DEF Sessions
  <2> QED
    BY Zenon, <2>1, <1>t, CopiesTyped DEF Copy
<1>1. NetTyped'
  <2>1. UNCHANGED <<disk, conn, dead, scenario>> \/ ReadFails(n, k)
    BY Zenon DEF ReadHolder
  <2>2. CASE UNCHANGED <<disk, conn, dead, scenario>>
    BY Zenon, <1>t, <2>2 DEF NetTyped
  <2>3. CASE ReadFails(n, k)
    BY Zenon, <1>t, <1>n, <2>3, ReadFailsTyped
  <2> QED
    BY Zenon, <2>1, <2>2, <2>3
<1>2. /\ rest \in Job /\ rest.op = "READ" /\ rest.at = "fanout" /\ rest.snap >= -1
      /\ JobOK(next, writes')
  <2>1. Drop(j.todo, n) \in Sessions
    BY Zenon, <1>j, SessionLists
  <2>2. /\ rest \in Job /\ rest.op = "READ" /\ rest.at = "fanout" /\ rest.snap = j.snap
    <3> HIDE DEF j, n
    <3> QED
      BY Zenon, <2>1, <1>j DEF Job
  <2>3. Members(rest.todo) # {} => JobOK(rest, writes')
    <3> HIDE DEF rest
    <3> QED
      BY Zenon, <2>2, <1>j DEF JobOK
  <2> HIDE DEF rest
  <2> QED
    BY Zenon, <2>2, <2>3, <1>j, <1>w, IdleIsJob
<1>3. JobOK(found, writes')
  <2>1. found \in Job /\ found.op = "READ" /\ found.at = "answer" /\ found.snap >= -1
    <3> HIDE DEF rest, n
    <3> QED
      BY Zenon, <1>2, <1>n DEF Job
  <2> HIDE DEF found
  <2> QED
    BY Zenon, <2>1 DEF JobOK
<1>4. JobOK(hung, writes')
  <2>1. hung \in Job /\ hung.op = "READ" /\ hung.at = "hung" /\ hung.snap >= -1
    <3> HIDE DEF j
    <3> QED
      BY Zenon, <1>j DEF Job
  <2> HIDE DEF hung
  <2> QED
    BY Zenon, <2>1 DEF JobOK
<1>6. JobTyped'
  <2>1. Set(w, next) \/ Set(w, found) \/ Set(w, hung)
    BY Zenon DEF ReadHolder
  <2> HIDE DEF next, found, hung
  <2> QED
    BY Zenon, <1>t, <1>w, <1>2, <1>3, <1>4, <2>1, SetTyped
<1>7. UNCHANGED <<gen, maps, reg, hb, rollbacks, writes, aux>>
  BY Zenon DEF ReadHolder
<1>8. MapsTyped' /\ RegTyped' /\ HbOK(hb)' /\ AuxTyped'
  BY Zenon, <1>7, <1>t DEF MapsTyped, maps, RegTyped, AuxTyped, aux
<1> QED
  BY Zenon, <1>1, <1>6, <1>8 DEF Typed

\* A rollback keeps the types.
LEMMA RollbackTyped ==
  ASSUME Typed, NEW r \in rollbacks, Rollback(r[1], r[2])
  PROVE  Typed'
<1>t. NetTyped /\ MapsTyped /\ JobTyped /\ RegTyped /\ HbOK(hb) /\ AuxTyped
  BY Zenon DEF Typed
<1> DEFINE n == r[1]
           k == r[2]
<1>n. n \in Nodes /\ k \in Nat
  BY Zenon, <1>t DEF AuxTyped
<1>1. NetTyped'
  <2>1. disk[n] \in Copy /\ Deleted(n) \in Copy
    BY Zenon, <1>t, <1>n, CopiesTyped
  <2>2. \/ UNCHANGED <<disk, conn, dead, scenario>>
        \/ Answered(n, k, Deleted(n))
        \/ Failed(n, k, {disk[n], Deleted(n)})
    BY Zenon DEF Rollback
  <2>3. CASE UNCHANGED <<disk, conn, dead, scenario>>
    BY Zenon, <1>t, <2>3 DEF NetTyped
  <2>4. CASE Answered(n, k, Deleted(n))
    BY Zenon, <1>t, <2>1, <2>4, AnsweredTyped
  <2>5. CASE Failed(n, k, {disk[n], Deleted(n)})
    BY Zenon, <1>t, <1>n, <2>1, <2>5, FailedTyped
  <2> QED
    BY Zenon, <2>2, <2>3, <2>4, <2>5
<1>2. AuxTyped'
  <2>1. UNCHANGED <<acked, rejected>> /\ rollbacks' \subseteq rollbacks
    BY Zenon DEF Rollback
  <2>2. UNCHANGED events \/ events' = events \cup {"late rollback"}
    BY Zenon DEF Rollback, Happens
  <2> QED
    BY Zenon, <1>t, <2>1, <2>2 DEF AuxTyped, Events
<1>3. UNCHANGED <<gen, maps, job, reg, hb, writes>>
  BY Zenon DEF Rollback
<1>4. MapsTyped' /\ JobTyped' /\ RegTyped' /\ HbOK(hb)'
  BY Zenon, <1>3, <1>t DEF MapsTyped, maps, JobTyped, RegTyped
<1> QED
  BY Zenon, <1>1, <1>2, <1>4 DEF Typed

RegType == [at: {"idle", "sync", "register", "build", "merge"}, listed: Int]

\* BreakLink keeps the types.
LEMMA BreakLinkTyped ==
  ASSUME Typed, NEW n \in Nodes, BreakLink(n)
  PROVE  Typed'
<1>t. NetTyped /\ MapsTyped /\ JobTyped /\ RegTyped /\ HbOK(hb) /\ AuxTyped
  BY Zenon DEF Typed
<1>j. UNCHANGED <<job, writes, hb, rollbacks, acked, rejected>>
  BY Zenon DEF BreakLink, aux
<1>k. JobTyped' /\ HbOK(hb)'
  BY Zenon, <1>j, <1>t DEF JobTyped
<1>1. UNCHANGED <<disk, gen, dead, maps, reg, events>> /\ Breaks(n)
  BY Zenon DEF BreakLink, aux
<1>2. NetTyped'
  BY Zenon, <1>1, <1>t, BreakTyped DEF NetTyped
<1>3. MapsTyped' /\ RegTyped' /\ AuxTyped'
  BY Zenon, <1>1, <1>j, <1>t DEF MapsTyped, maps, RegTyped, RegType, AuxTyped
<1> QED
  BY Zenon, <1>k, <1>2, <1>3 DEF Typed

\* Connect keeps the types.
LEMMA ConnectTyped ==
  ASSUME Typed, NEW n \in Nodes, Connect(n)
  PROVE  Typed'
<1>t. NetTyped /\ MapsTyped /\ JobTyped /\ RegTyped /\ HbOK(hb) /\ AuxTyped
  BY Zenon DEF Typed
<1>n. /\ disk[n] \in Copy /\ Listed(n) \in Int /\ gen[n] \in Nat
      /\ reg[n] \in RegType /\ gen[n] + 1 \in Nat
  BY <1>t, CopiesTyped DEF RegTyped, RegType, MapsTyped, Sessions
<1>r. /\ \A a \in {"idle", "sync", "register", "build", "merge"}, l \in Int :
           [reg EXCEPT ![n] = [at |-> a, listed |-> l]] \in [Nodes -> RegType]
      /\ [reg EXCEPT ![n].at = "sync"] \in [Nodes -> RegType]
      /\ [reg EXCEPT ![n] = NoReg] \in [Nodes -> RegType]
  BY <1>t DEF RegTyped, RegType, NoReg, NotListed
<1>j. UNCHANGED <<job, writes, hb, rollbacks, acked, rejected>>
  BY Zenon DEF Connect, aux
<1>k. JobTyped' /\ HbOK(hb)'
  BY Zenon, <1>j, <1>t DEF JobTyped
<1>1. UNCHANGED <<disk, dead, scenario, holder, version, fileVersion, events>>
  BY Zenon DEF Connect, aux
<1>2. NetTyped'
  BY Zenon, <1>1, <1>t DEF NetTyped, Connect
<1>3. gen' \in Sessions /\ endpoint' \in Sessions
  BY Zenon, <1>n, <1>t DEF Connect, MapsTyped, Sessions
<1>4. RegTyped'
  BY Zenon, <1>r DEF Connect, RegTyped, RegType
<1>5. MapsTyped' /\ AuxTyped'
  BY Zenon, <1>1, <1>3, <1>j, <1>t DEF MapsTyped, AuxTyped
<1> QED
  BY Zenon, <1>k, <1>2, <1>4, <1>5 DEF Typed

\* SyncStatus keeps the types.
LEMMA SyncStatusTyped ==
  ASSUME Typed, NEW n \in Nodes, SyncStatus(n)
  PROVE  Typed'
<1>t. NetTyped /\ MapsTyped /\ JobTyped /\ RegTyped /\ HbOK(hb) /\ AuxTyped
  BY Zenon DEF Typed
<1>n. /\ disk[n] \in Copy /\ Listed(n) \in Int /\ gen[n] \in Nat
      /\ reg[n] \in RegType /\ gen[n] + 1 \in Nat
  BY <1>t, CopiesTyped DEF RegTyped, RegType, MapsTyped, Sessions
<1>r. /\ \A a \in {"idle", "sync", "register", "build", "merge"}, l \in Int :
           [reg EXCEPT ![n] = [at |-> a, listed |-> l]] \in [Nodes -> RegType]
      /\ [reg EXCEPT ![n].at = "sync"] \in [Nodes -> RegType]
      /\ [reg EXCEPT ![n] = NoReg] \in [Nodes -> RegType]
  BY <1>t DEF RegTyped, RegType, NoReg, NotListed
<1>l. NotListed \in Int
  BY DEF NotListed
<1>j. UNCHANGED <<job, writes, hb, rollbacks, acked, rejected>>
  BY Zenon DEF SyncStatus, aux
<1>k. JobTyped' /\ HbOK(hb)'
  BY Zenon, <1>j, <1>t DEF JobTyped
<1>1. NetTyped'
  <2>1. CASE Answered(n, gen[n], disk[n])
    BY Zenon, <2>1, <1>t, <1>n, AnsweredTyped
  <2>2. CASE Failed(n, gen[n], {disk[n]})
    BY Zenon, <2>2, <1>t, <1>n, FailedTyped
  <2> QED
    BY Zenon, <2>1, <2>2 DEF SyncStatus
<1>2. RegTyped'
  BY <1>r, <1>n, <1>l DEF SyncStatus, RegTyped, RegType
<1>3. UNCHANGED <<gen, maps, events>>
  BY Zenon DEF SyncStatus, aux
<1>4. MapsTyped' /\ AuxTyped'
  BY Zenon, <1>3, <1>j, <1>t DEF MapsTyped, maps, AuxTyped
<1> QED
  BY Zenon, <1>k, <1>1, <1>2, <1>4 DEF Typed

\* RegisterDataNodeFiles keeps the types.
LEMMA RegisterTyped ==
  ASSUME Typed, NEW n \in Nodes, RegisterDataNodeFiles(n)
  PROVE  Typed'
<1>t. NetTyped /\ MapsTyped /\ JobTyped /\ RegTyped /\ HbOK(hb) /\ AuxTyped
  BY Zenon DEF Typed
<1>n. /\ disk[n] \in Copy /\ Listed(n) \in Int /\ gen[n] \in Nat
      /\ reg[n] \in RegType /\ gen[n] + 1 \in Nat
  BY <1>t, CopiesTyped DEF RegTyped, RegType, MapsTyped, Sessions
<1>r. /\ \A a \in {"idle", "sync", "register", "build", "merge"}, l \in Int :
           [reg EXCEPT ![n] = [at |-> a, listed |-> l]] \in [Nodes -> RegType]
      /\ [reg EXCEPT ![n].at = "sync"] \in [Nodes -> RegType]
      /\ [reg EXCEPT ![n] = NoReg] \in [Nodes -> RegType]
  BY <1>t DEF RegTyped, RegType, NoReg, NotListed
<1>l. NotListed \in Int
  BY DEF NotListed
<1>j. UNCHANGED <<job, writes, hb, rollbacks, acked, rejected>>
  BY Zenon DEF RegisterDataNodeFiles, aux
<1>k. JobTyped' /\ HbOK(hb)'
  BY Zenon, <1>j, <1>t DEF JobTyped
<1>1. UNCHANGED <<disk, net, endpoint, scenario>>
  BY Zenon DEF RegisterDataNodeFiles
<1>2. NetTyped'
  BY Zenon, <1>1, <1>t DEF NetTyped, net
<1>3. RegTyped'
  BY Zenon, <1>r, <1>l DEF RegisterDataNodeFiles, RegTyped, RegType
<1>4. UNCHANGED events \/ events' = events \cup {"outdone"}
  BY Zenon DEF RegisterDataNodeFiles, Happens
<1>5. AuxTyped'
  BY Zenon, <1>4, <1>j, <1>t DEF AuxTyped, Events
<1>6. holder' \in Sessions
  BY Zenon, <1>t, <1>n DEF RegisterDataNodeFiles, MapsTyped, Sessions
<1>7. version' \in Int /\ version' >= -1 /\ fileVersion' = version'
  <2>1. reg[n].listed \in Int /\ version \in Int /\ version >= -1
    BY Zenon, <1>n, <1>t DEF MapsTyped, RegType
  <2>2. /\ version' = IF reg[n].listed > Larger(version, 0) THEN reg[n].listed ELSE version
        /\ fileVersion' = version'
    BY Zenon DEF RegisterDataNodeFiles
  <2> QED
    BY <2>1, <2>2 DEF Larger
<1>8. MapsTyped'
  BY Zenon, <1>1, <1>6, <1>7, <1>t DEF MapsTyped, net
<1> QED
  BY Zenon, <1>k, <1>2, <1>3, <1>5, <1>8 DEF Typed

\* BuildFetch keeps the types.
LEMMA BuildFetchTyped ==
  ASSUME Typed, NEW n \in Nodes, BuildFetch(n)
  PROVE  Typed'
<1>t. NetTyped /\ MapsTyped /\ JobTyped /\ RegTyped /\ HbOK(hb) /\ AuxTyped
  BY Zenon DEF Typed
<1>r. /\ \A a \in {"idle", "sync", "register", "build", "merge"}, l \in Int :
           [reg EXCEPT ![n] = [at |-> a, listed |-> l]] \in [Nodes -> RegType]
      /\ [reg EXCEPT ![n].at = "sync"] \in [Nodes -> RegType]
      /\ [reg EXCEPT ![n] = NoReg] \in [Nodes -> RegType]
  BY <1>t DEF RegTyped, RegType, NoReg, NotListed
<1>j. UNCHANGED <<job, writes, hb, rollbacks, acked, rejected>>
  BY Zenon DEF BuildFetch, aux
<1>k. JobTyped' /\ HbOK(hb)'
  BY Zenon, <1>j, <1>t DEF JobTyped
<1>0. PICK m \in Members(Alive(endpoint)) :
           \/ /\ Answered(m, endpoint[m], disk[m])
              /\ reg' = [reg EXCEPT ![n] = [at |-> "merge", listed |-> Listed(m)]]
           \/ Failed(m, endpoint[m], {disk[m]}) /\ UNCHANGED reg
  BY Zenon DEF BuildFetch
<1>m. m \in Nodes /\ endpoint[m] \in Nat /\ disk[m] \in Copy /\ Listed(m) \in Int
  BY Zenon, <1>t, MembersAreNodes, CopiesTyped DEF MapsTyped, Sessions
<1>1. NetTyped'
  <2>1. CASE Answered(m, endpoint[m], disk[m])
    BY Zenon, <2>1, <1>t, <1>m, AnsweredTyped
  <2>2. CASE Failed(m, endpoint[m], {disk[m]})
    BY Zenon, <2>2, <1>t, <1>m, FailedTyped
  <2> QED
    BY Zenon, <1>0, <2>1, <2>2
<1>2. RegTyped'
  BY <1>0, <1>m, <1>r, <1>t DEF RegTyped, RegType
<1>3. UNCHANGED <<gen, maps, events>>
  BY Zenon DEF BuildFetch, aux
<1>4. MapsTyped' /\ AuxTyped'
  BY Zenon, <1>3, <1>j, <1>t DEF MapsTyped, maps, AuxTyped
<1> QED
  BY Zenon, <1>k, <1>1, <1>2, <1>4 DEF Typed

\* BuildMerge keeps the types.
LEMMA BuildMergeTyped ==
  ASSUME Typed, NEW n \in Nodes, BuildMerge(n)
  PROVE  Typed'
<1>t. NetTyped /\ MapsTyped /\ JobTyped /\ RegTyped /\ HbOK(hb) /\ AuxTyped
  BY Zenon DEF Typed
<1>n. /\ disk[n] \in Copy /\ Listed(n) \in Int /\ gen[n] \in Nat
      /\ reg[n] \in RegType /\ gen[n] + 1 \in Nat
  BY <1>t, CopiesTyped DEF RegTyped, RegType, MapsTyped, Sessions
<1>r. /\ \A a \in {"idle", "sync", "register", "build", "merge"}, l \in Int :
           [reg EXCEPT ![n] = [at |-> a, listed |-> l]] \in [Nodes -> RegType]
      /\ [reg EXCEPT ![n].at = "sync"] \in [Nodes -> RegType]
      /\ [reg EXCEPT ![n] = NoReg] \in [Nodes -> RegType]
  BY <1>t DEF RegTyped, RegType, NoReg, NotListed
<1>l. NotListed \in Int
  BY DEF NotListed
<1>j. UNCHANGED <<job, writes, hb, rollbacks, acked, rejected>>
  BY Zenon DEF BuildMerge, aux
<1>k. JobTyped' /\ HbOK(hb)'
  BY Zenon, <1>j, <1>t DEF JobTyped
<1>1. UNCHANGED <<disk, net, endpoint, holder, version, scenario, events>>
  BY Zenon DEF BuildMerge, aux
<1>2. NetTyped' /\ AuxTyped'
  BY Zenon, <1>1, <1>j, <1>t DEF NetTyped, net, AuxTyped
<1>3. RegTyped'
  BY Zenon, <1>r, <1>l DEF BuildMerge, RegTyped, RegType
<1>4. fileVersion' \in Int /\ fileVersion' >= -1
  <2>1. reg[n].listed \in Int /\ fileVersion \in Int /\ fileVersion >= -1
    BY Zenon, <1>n, <1>t DEF MapsTyped, RegType
  <2>2. fileVersion' = Larger(fileVersion, reg[n].listed)
    BY Zenon DEF BuildMerge
  <2> QED
    BY <2>1, <2>2 DEF Larger
<1>5. MapsTyped'
  BY Zenon, <1>1, <1>4, <1>t DEF MapsTyped, net
<1> QED
  BY Zenon, <1>k, <1>2, <1>3, <1>5 DEF Typed

\* BuildDone keeps the types.
LEMMA BuildDoneTyped ==
  ASSUME Typed, NEW n \in Nodes, BuildDone(n)
  PROVE  Typed'
<1>t. NetTyped /\ MapsTyped /\ JobTyped /\ RegTyped /\ HbOK(hb) /\ AuxTyped
  BY Zenon DEF Typed
<1>r. /\ \A a \in {"idle", "sync", "register", "build", "merge"}, l \in Int :
           [reg EXCEPT ![n] = [at |-> a, listed |-> l]] \in [Nodes -> RegType]
      /\ [reg EXCEPT ![n].at = "sync"] \in [Nodes -> RegType]
      /\ [reg EXCEPT ![n] = NoReg] \in [Nodes -> RegType]
  BY <1>t DEF RegTyped, RegType, NoReg, NotListed
<1>j. UNCHANGED <<job, writes, hb, rollbacks, acked, rejected>>
  BY Zenon DEF BuildDone, aux
<1>k. JobTyped' /\ HbOK(hb)'
  BY Zenon, <1>j, <1>t DEF JobTyped
<1>1. UNCHANGED <<disk, net, maps, scenario, events>>
  BY Zenon DEF BuildDone, aux
<1>2. NetTyped' /\ AuxTyped' /\ MapsTyped'
  BY Zenon, <1>1, <1>j, <1>t DEF NetTyped, net, AuxTyped, MapsTyped, maps
<1>3. RegTyped'
  BY Zenon, <1>r DEF BuildDone, RegTyped, RegType
<1> QED
  BY Zenon, <1>k, <1>2, <1>3 DEF Typed

\* The steps of a datanode keep the types.
LEMMA DatanodeTyped ==
  ASSUME Typed, NEW n \in Nodes, DatanodeStep(n)
  PROVE  Typed'
BY Zenon, BreakLinkTyped, ConnectTyped, SyncStatusTyped, RegisterTyped,
   BuildFetchTyped, BuildMergeTyped, BuildDoneTyped
   DEF DatanodeStep

HbType == [at: {"asleep", "probe", "erase", "save", "rename", "source", "pick",
                "copy", "hung"},
           todo: Sessions, lost: SUBSET Nodes, map: Sessions, bytes: Bytes, snap: Int]

\* The heartbeat thread's state has its parts, asleep or hung too.
LEMMA HbParts ==
  ASSUME HbOK(hb)
  PROVE  /\ hb \in HbType /\ hb.todo \in Sessions /\ hb.map \in Sessions
         /\ hb.lost \subseteq Nodes /\ hb.bytes \in Bytes /\ hb.snap \in Int
         /\ hb.snap >= -1
         /\ Asleep \in HbType /\ HbOK(Asleep) /\ HbOK([Asleep EXCEPT !.at = "hung"])
<1>1. hb \in HbType /\ hb.snap >= -1
  BY Zenon DEF HbOK, HbType
<1>2. Asleep \in HbType
  BY SessionLists, ReplicationAssumption DEF Asleep, HbType, Bytes, NoBytes
<1>3. HbOK(Asleep)
  BY <1>2 DEF HbOK, HbType, Asleep
<1>4. HbOK([Asleep EXCEPT !.at = "hung"])
  <2> DEFINE h == [Asleep EXCEPT !.at = "hung"]
  <2>1. h \in HbType
    BY Zenon, <1>2 DEF HbType
  <2>2. h.at = "hung" /\ h.snap >= -1
    BY DEF Asleep
  <2> HIDE DEF h
  <2>3. HbOK(h)
    BY Zenon, <2>1, <2>2 DEF HbOK, HbType
  <2> QED
    BY Zenon, <2>3 DEF h
<1> QED
  BY Zenon, <1>1, <1>2, <1>3, <1>4 DEF HbType

\* The shapes the heartbeat thread's state may have.
LEMMA HbShapes ==
  ASSUME NEW h \in HbType, h.snap >= -1,
         \/ h.at \notin {"source", "pick", "copy"}
         \/ h.at # "source" /\ h.bytes # NoBytes
  PROVE  HbOK(h)
BY Zenon DEF HbOK, HbType

\* HbStart keeps the types.
LEMMA HbStartTyped ==
  ASSUME Typed, HbStart
  PROVE  Typed'
<1>t. NetTyped /\ MapsTyped /\ JobTyped /\ RegTyped /\ HbOK(hb) /\ AuxTyped
  BY Zenon DEF Typed
<1>h. /\ hb \in HbType /\ hb.todo \in Sessions /\ hb.lost \subseteq Nodes
      /\ hb.map \in Sessions /\ hb.snap >= -1
      /\ Asleep \in HbType /\ HbOK(Asleep) /\ HbOK([Asleep EXCEPT !.at = "hung"])
  BY Zenon, <1>t, HbParts
<1>u. UNCHANGED <<HbRest, version, fileVersion, events>>
  BY Zenon DEF HbStart, maps
<1>j. JobTyped' /\ RegTyped' /\ AuxTyped'
  BY Zenon, <1>u, <1>t DEF HbRest, JobTyped, RegTyped, AuxTyped
<1>m. holder' \in Sessions /\ endpoint' \in Sessions => MapsTyped'
  BY Zenon, <1>u, <1>t DEF HbRest, MapsTyped
<1> DEFINE h == [Asleep EXCEPT !.at = "probe", !.todo = endpoint]
<1>1. h \in HbType /\ h.at = "probe" /\ h.snap = Asleep.snap
  <2>1. endpoint \in Sessions
    BY Zenon, <1>t DEF MapsTyped
  <2> QED
    BY Zenon, <2>1, <1>h DEF HbType
<1>2. Asleep.snap >= -1
  BY DEF Asleep
<1>3. HbOK(h)
  <2> HIDE DEF h
  <2> QED
    BY Zenon, <1>1, <1>2, HbShapes
<1>4. hb' = h /\ UNCHANGED <<disk, conn, dead, scenario, maps>>
  BY Zenon DEF HbStart
<1>5. NetTyped' /\ holder' \in Sessions /\ endpoint' \in Sessions
  BY Zenon, <1>4, <1>t DEF NetTyped, MapsTyped, maps
<1> QED
  BY Zenon, <1>3, <1>4, <1>5, <1>j, <1>m DEF Typed

\* HbProbe keeps the types.
LEMMA HbProbeTyped ==
  ASSUME Typed, HbProbe
  PROVE  Typed'
<1>t. NetTyped /\ MapsTyped /\ JobTyped /\ RegTyped /\ HbOK(hb) /\ AuxTyped
  BY Zenon DEF Typed
<1>h. /\ hb \in HbType /\ hb.todo \in Sessions /\ hb.lost \subseteq Nodes
      /\ hb.map \in Sessions /\ hb.snap >= -1
      /\ Asleep \in HbType /\ HbOK(Asleep) /\ HbOK([Asleep EXCEPT !.at = "hung"])
  BY Zenon, <1>t, HbParts
<1>u. UNCHANGED <<HbRest, version, fileVersion, events>>
  BY Zenon DEF HbProbe, maps
<1>j. JobTyped' /\ RegTyped' /\ AuxTyped'
  BY Zenon, <1>u, <1>t DEF HbRest, JobTyped, RegTyped, AuxTyped
<1>m. holder' \in Sessions /\ endpoint' \in Sessions => MapsTyped'
  BY Zenon, <1>u, <1>t DEF HbRest, MapsTyped
<1> DEFINE n == First(hb.todo)
           k == hb.todo[n]
           rest == [hb EXCEPT !.todo = Drop(@, n)]
           lost == [rest EXCEPT !.lost = @ \cup {n}]
<1>1. n \in Nodes /\ k \in Nat /\ disk[n] \in Copy /\ hb.at = "probe"
  <2>1. Members(hb.todo) # {} /\ hb.at = "probe"
    BY Zenon DEF HbProbe
  <2> QED
    BY Zenon, <2>1, <1>h, <1>t, FirstIsMember, CopiesTyped DEF Sessions
<1>2. NetTyped'
  <2>1. \/ UNCHANGED <<disk, conn, dead, scenario>>
        \/ Answered(n, k, disk[n]) \/ Failed(n, k, {disk[n]})
    BY Zenon DEF HbProbe
  <2>2. CASE UNCHANGED <<disk, conn, dead, scenario>>
    BY Zenon, <2>2, <1>t DEF NetTyped
  <2>3. CASE Answered(n, k, disk[n])
    BY Zenon, <2>3, <1>t, <1>1, AnsweredTyped
  <2>4. CASE Failed(n, k, {disk[n]})
    BY Zenon, <2>4, <1>t, <1>1, FailedTyped
  <2> QED
    BY Zenon, <2>1, <2>2, <2>3, <2>4
<1>3. rest \in HbType /\ rest.at = "probe" /\ rest.snap = hb.snap /\ rest.lost = hb.lost
  <2>1. Drop(hb.todo, n) \in Sessions
    BY Zenon, <1>h, SessionLists
  <2> HIDE DEF n
  <2> QED
    BY Zenon, <2>1, <1>1, <1>h DEF HbType
<1>4. lost \in HbType /\ lost.at = "probe" /\ lost.snap = hb.snap
  <2> HIDE DEF rest, n
  <2> QED
    BY Zenon, <1>3, <1>1, <1>h DEF HbType
<1>5. HbOK(rest) /\ HbOK(lost)
  <2> HIDE DEF rest, lost
  <2> QED
    BY Zenon, <1>3, <1>4, <1>h, HbShapes
<1>6. HbOK(hb')
  BY Zenon, <1>5, <1>h DEF HbProbe
<1>7. holder' \in Sessions /\ endpoint' \in Sessions
  BY Zenon, <1>t DEF HbProbe, MapsTyped, maps
<1> QED
  BY Zenon, <1>2, <1>6, <1>7, <1>j, <1>m DEF Typed

\* HbEvict keeps the types.
LEMMA HbEvictTyped ==
  ASSUME Typed, HbEvict
  PROVE  Typed'
<1>t. NetTyped /\ MapsTyped /\ JobTyped /\ RegTyped /\ HbOK(hb) /\ AuxTyped
  BY Zenon DEF Typed
<1>h. /\ hb \in HbType /\ hb.todo \in Sessions /\ hb.lost \subseteq Nodes
      /\ hb.map \in Sessions /\ hb.snap >= -1
      /\ Asleep \in HbType /\ HbOK(Asleep) /\ HbOK([Asleep EXCEPT !.at = "hung"])
  BY Zenon, <1>t, HbParts
<1>u. UNCHANGED <<HbRest, version, fileVersion, events>>
  BY Zenon DEF HbEvict, maps
<1>j. JobTyped' /\ RegTyped' /\ AuxTyped'
  BY Zenon, <1>u, <1>t DEF HbRest, JobTyped, RegTyped, AuxTyped
<1>m. holder' \in Sessions /\ endpoint' \in Sessions => MapsTyped'
  BY Zenon, <1>u, <1>t DEF HbRest, MapsTyped
<1> DEFINE h == [hb EXCEPT !.at = "erase"]
<1>1. h \in HbType /\ h.at = "erase" /\ h.snap = hb.snap
  BY Zenon, <1>h DEF HbType
<1>2. HbOK(h)
  <2> HIDE DEF h
  <2> QED
    BY Zenon, <1>1, <1>h, HbShapes
<1>3. hb' = h /\ UNCHANGED <<disk, conn, dead, scenario, holder>>
  BY Zenon DEF HbEvict
<1>4. NetTyped' /\ holder' \in Sessions
  BY Zenon, <1>3, <1>t DEF NetTyped, MapsTyped
<1>5. endpoint' \in Sessions
  BY Zenon, <1>t DEF HbEvict, MapsTyped, Sessions
<1> QED
  BY Zenon, <1>2, <1>3, <1>4, <1>5, <1>j, <1>m DEF Typed

\* EraseFromReplicationMap keeps the types.
LEMMA EraseTyped ==
  ASSUME Typed, EraseFromReplicationMap
  PROVE  Typed'
<1>t. NetTyped /\ MapsTyped /\ JobTyped /\ RegTyped /\ HbOK(hb) /\ AuxTyped
  BY Zenon DEF Typed
<1>h. /\ hb \in HbType /\ hb.todo \in Sessions /\ hb.lost \subseteq Nodes
      /\ hb.map \in Sessions /\ hb.snap >= -1
      /\ Asleep \in HbType /\ HbOK(Asleep) /\ HbOK([Asleep EXCEPT !.at = "hung"])
  BY Zenon, <1>t, HbParts
<1>u. UNCHANGED <<HbRest, version, fileVersion, events>>
  BY Zenon DEF EraseFromReplicationMap, maps
<1>j. JobTyped' /\ RegTyped' /\ AuxTyped'
  BY Zenon, <1>u, <1>t DEF HbRest, JobTyped, RegTyped, AuxTyped
<1>m. holder' \in Sessions /\ endpoint' \in Sessions => MapsTyped'
  BY Zenon, <1>u, <1>t DEF HbRest, MapsTyped
<1> DEFINE n == CHOOSE m \in hb.lost : \A o \in hb.lost : m <= o
           left == Drop(holder, n)
           map == IF holder[n] # 0 /\ Size(left) < quorum THEN left ELSE None
           h == [hb EXCEPT !.lost = @ \ {n}, !.at = "save", !.map = map]
<1>1. left \in Sessions /\ map \in Sessions
  BY Zenon, <1>t, SessionLists DEF MapsTyped
<1>2. h \in HbType /\ h.at = "save" /\ h.snap = hb.snap
  <2> HIDE DEF n, map
  <2> QED
    BY Zenon, <1>1, <1>h DEF HbType
<1>3. HbOK(h)
  <2> HIDE DEF h
  <2> QED
    BY Zenon, <1>2, <1>h, HbShapes
<1>4. hb' = h /\ holder' = left /\ UNCHANGED <<disk, dead, scenario, endpoint>>
  BY Zenon DEF EraseFromReplicationMap
<1>5. conn' \in [Nodes -> {"up", "garbled", "down"}]
  <2>1. conn' = conn \/ conn' = [conn EXCEPT ![n] = "down"]
    BY Zenon DEF EraseFromReplicationMap
  <2> HIDE DEF n
  <2> QED
    BY Zenon, <2>1, <1>t DEF NetTyped
<1>6. NetTyped'
  BY Zenon, <1>4, <1>5, <1>t DEF NetTyped
<1>7. endpoint' \in Sessions
  BY Zenon, <1>4, <1>t DEF MapsTyped
<1> QED
  BY Zenon, <1>1, <1>3, <1>4, <1>6, <1>7, <1>j, <1>m DEF Typed

\* The rounds of probes and the evictions keep the types.
LEMMA ProbeTyped ==
  ASSUME Typed, HbStart \/ HbProbe \/ HbEvict \/ EraseFromReplicationMap
  PROVE  Typed'
BY Zenon, HbStartTyped, HbProbeTyped, HbEvictTyped, EraseTyped

\* HbPersistRead keeps the types.
LEMMA HbPersistReadTyped ==
  ASSUME Typed, HbPersistRead
  PROVE  Typed'
<1>t. NetTyped /\ MapsTyped /\ JobTyped /\ RegTyped /\ HbOK(hb) /\ AuxTyped
  BY Zenon DEF Typed
<1>h. /\ hb \in HbType /\ hb.todo \in Sessions /\ hb.lost \subseteq Nodes
      /\ hb.map \in Sessions /\ hb.snap >= -1 /\ hb.snap \in Int /\ hb.bytes \in Bytes
      /\ Asleep \in HbType /\ HbOK(Asleep) /\ HbOK([Asleep EXCEPT !.at = "hung"])
  BY Zenon, <1>t, HbParts
<1>v. /\ version \in Int /\ version >= -1 /\ fileVersion \in Int /\ fileVersion >= -1
      /\ holder \in Sessions /\ endpoint \in Sessions
  BY Zenon, <1>t DEF MapsTyped
<1>u. UNCHANGED HbRest
  BY Zenon DEF HbPersistRead
<1>j. JobTyped' /\ RegTyped' /\ (events' \subseteq Events => AuxTyped')
  BY Zenon, <1>u, <1>t DEF HbRest, JobTyped, RegTyped, AuxTyped
<1>e. events \subseteq Events
  BY Zenon, <1>t DEF AuxTyped
<1>m. UNCHANGED maps => MapsTyped'
  BY Zenon, <1>u, <1>t DEF HbRest, MapsTyped, maps
<1>n. UNCHANGED <<disk, conn, dead, scenario>> => NetTyped'
  BY Zenon, <1>t DEF NetTyped
<1> DEFINE h == [hb EXCEPT !.at = "rename", !.snap = version]
<1>1. h \in HbType /\ h.at = "rename" /\ h.snap = version
  BY Zenon, <1>h, <1>v DEF HbType
<1>2. HbOK(h)
  <2> HIDE DEF h
  <2> QED
    BY Zenon, <1>1, <1>v, HbShapes
<1>3. hb' = h /\ UNCHANGED <<disk, conn, dead, scenario>> /\ UNCHANGED <<maps, events>>
  BY Zenon DEF HbPersistRead
<1> QED
  BY Zenon, <1>2, <1>3, <1>j, <1>e, <1>m, <1>n DEF Typed

\* HbPersistWrite keeps the types.
LEMMA HbPersistWriteTyped ==
  ASSUME Typed, HbPersistWrite
  PROVE  Typed'
<1>t. NetTyped /\ MapsTyped /\ JobTyped /\ RegTyped /\ HbOK(hb) /\ AuxTyped
  BY Zenon DEF Typed
<1>h. /\ hb \in HbType /\ hb.todo \in Sessions /\ hb.lost \subseteq Nodes
      /\ hb.map \in Sessions /\ hb.snap >= -1 /\ hb.snap \in Int /\ hb.bytes \in Bytes
      /\ Asleep \in HbType /\ HbOK(Asleep) /\ HbOK([Asleep EXCEPT !.at = "hung"])
  BY Zenon, <1>t, HbParts
<1>u. UNCHANGED HbRest
  BY Zenon DEF HbPersistWrite
<1>j. JobTyped' /\ RegTyped' /\ (events' \subseteq Events => AuxTyped')
  BY Zenon, <1>u, <1>t DEF HbRest, JobTyped, RegTyped, AuxTyped
<1>e. events \subseteq Events
  BY Zenon, <1>t DEF AuxTyped
<1>n. UNCHANGED <<disk, conn, dead, scenario>> => NetTyped'
  BY Zenon, <1>t DEF NetTyped
<1> DEFINE none == -1
           h == [hb EXCEPT !.at = IF hb.map = None THEN "erase" ELSE "source",
                           !.snap = none]
<1>0. none \in Int /\ none >= -1
  OBVIOUS
<1>1. /\ hb' = h /\ fileVersion' = hb.snap
      /\ UNCHANGED <<disk, conn, dead, scenario>> /\ UNCHANGED <<endpoint, holder, version>>
  BY Zenon DEF HbPersistWrite
<1> HIDE DEF none
<1>2. /\ h \in HbType /\ h.snap = none /\ h.map = hb.map
      /\ h.at = (IF hb.map = None THEN "erase" ELSE "source")
  BY Zenon, <1>0, <1>h DEF HbType
<1>3. HbOK(h)
  <2>1. hb.map # None => Members(hb.map) # {}
    BY Zenon, <1>h, SessionLists
  <2> HIDE DEF h
  <2> QED
    BY Zenon, <1>0, <1>2, <2>1 DEF HbOK, HbType
<1>4. MapsTyped'
  BY Zenon, <1>1, <1>u, <1>h, <1>t DEF MapsTyped, HbRest
<1>5. events' \subseteq Events
  BY Zenon, <1>e DEF HbPersistWrite, Happens, Events
<1> QED
  BY Zenon, <1>1, <1>3, <1>4, <1>5, <1>j, <1>n DEF Typed

\* HbSleep keeps the types.
LEMMA HbSleepTyped ==
  ASSUME Typed, HbSleep
  PROVE  Typed'
<1>t. NetTyped /\ MapsTyped /\ JobTyped /\ RegTyped /\ HbOK(hb) /\ AuxTyped
  BY Zenon DEF Typed
<1>h. /\ hb \in HbType /\ hb.todo \in Sessions /\ hb.lost \subseteq Nodes
      /\ hb.map \in Sessions /\ hb.snap >= -1 /\ hb.snap \in Int /\ hb.bytes \in Bytes
      /\ Asleep \in HbType /\ HbOK(Asleep) /\ HbOK([Asleep EXCEPT !.at = "hung"])
  BY Zenon, <1>t, HbParts
<1>u. UNCHANGED HbRest
  BY Zenon DEF HbSleep
<1>j. JobTyped' /\ RegTyped' /\ (events' \subseteq Events => AuxTyped')
  BY Zenon, <1>u, <1>t DEF HbRest, JobTyped, RegTyped, AuxTyped
<1>e. events \subseteq Events
  BY Zenon, <1>t DEF AuxTyped
<1>m. UNCHANGED maps => MapsTyped'
  BY Zenon, <1>u, <1>t DEF HbRest, MapsTyped, maps
<1>n. UNCHANGED <<disk, conn, dead, scenario>> => NetTyped'
  BY Zenon, <1>t DEF NetTyped
<1>1. hb' = Asleep /\ UNCHANGED <<disk, conn, dead, scenario>> /\ UNCHANGED <<maps, events>>
  BY Zenon DEF HbSleep
<1> QED
  BY Zenon, <1>1, <1>h, <1>j, <1>e, <1>m, <1>n DEF Typed

\* RebalanceRead keeps the types.
LEMMA RebalanceReadTyped ==
  ASSUME Typed, RebalanceRead
  PROVE  Typed'
<1>t. NetTyped /\ MapsTyped /\ JobTyped /\ RegTyped /\ HbOK(hb) /\ AuxTyped
  BY Zenon DEF Typed
<1>h. /\ hb \in HbType /\ hb.todo \in Sessions /\ hb.lost \subseteq Nodes
      /\ hb.map \in Sessions /\ hb.snap >= -1 /\ hb.snap \in Int /\ hb.bytes \in Bytes
      /\ Asleep \in HbType /\ HbOK(Asleep) /\ HbOK([Asleep EXCEPT !.at = "hung"])
  BY Zenon, <1>t, HbParts
<1>u. UNCHANGED HbRest
  BY Zenon DEF RebalanceRead
<1>j. JobTyped' /\ RegTyped' /\ (events' \subseteq Events => AuxTyped')
  BY Zenon, <1>u, <1>t DEF HbRest, JobTyped, RegTyped, AuxTyped
<1>e. events \subseteq Events
  BY Zenon, <1>t DEF AuxTyped
<1>m. UNCHANGED maps => MapsTyped'
  BY Zenon, <1>u, <1>t DEF HbRest, MapsTyped, maps
<1>n. UNCHANGED <<disk, conn, dead, scenario>> => NetTyped'
  BY Zenon, <1>t DEF NetTyped
<1> DEFINE n == First(hb.map)
           k == hb.map[n]
           done == [hb EXCEPT !.at = "erase", !.map = None]
           read == [hb EXCEPT !.at = "pick", !.bytes = disk[n].data]
<1>1. n \in Nodes /\ k \in Nat /\ disk[n] \in Copy /\ disk[n].data \in Bytes
  <2>1. Members(hb.map) # {}
    BY Zenon, <1>t DEF RebalanceRead, HbOK
  <2> QED
    BY Zenon, <2>1, <1>h, <1>t, FirstIsMember, CopiesTyped DEF Sessions, Copy
<1>2. NetTyped'
  <2>1. UNCHANGED <<disk, conn, dead, scenario>> \/ ReadFails(n, k)
    BY Zenon DEF RebalanceRead
  <2>2. CASE UNCHANGED <<disk, conn, dead, scenario>>
    BY Zenon, <2>2, <1>n
  <2>3. CASE ReadFails(n, k)
    BY Zenon, <2>3, <1>1, <1>t, ReadFailsTyped
  <2> QED
    BY Zenon, <2>1, <2>2, <2>3
<1>3. HbOK(done)
  <2>1. done \in HbType /\ done.at = "erase" /\ done.snap = hb.snap
    BY Zenon, <1>h, SessionLists DEF HbType
  <2> HIDE DEF done
  <2> QED
    BY Zenon, <2>1, <1>h, HbShapes
<1>4. disk[n].data # NoBytes => HbOK(read)
  <2>1. read \in HbType /\ read.at = "pick" /\ read.snap = hb.snap
        /\ read.bytes = disk[n].data
    <3> HIDE DEF n
    <3> QED
      BY Zenon, <1>h, <1>1 DEF HbType
  <2> HIDE DEF read
  <2> QED
    BY Zenon, <2>1, <1>h, HbShapes
<1>5. HbOK(hb')
  BY Zenon, <1>h, <1>3, <1>4 DEF RebalanceRead
<1>6. UNCHANGED <<maps, events>>
  BY Zenon DEF RebalanceRead
<1> QED
  BY Zenon, <1>2, <1>5, <1>6, <1>j, <1>e, <1>m DEF Typed

\* RebalancePick keeps the types.
LEMMA RebalancePickTyped ==
  ASSUME Typed, RebalancePick
  PROVE  Typed'
<1>t. NetTyped /\ MapsTyped /\ JobTyped /\ RegTyped /\ HbOK(hb) /\ AuxTyped
  BY Zenon DEF Typed
<1>h. /\ hb \in HbType /\ hb.todo \in Sessions /\ hb.lost \subseteq Nodes
      /\ hb.map \in Sessions /\ hb.snap >= -1 /\ hb.snap \in Int /\ hb.bytes \in Bytes
      /\ Asleep \in HbType /\ HbOK(Asleep) /\ HbOK([Asleep EXCEPT !.at = "hung"])
  BY Zenon, <1>t, HbParts
<1>v. /\ version \in Int /\ version >= -1 /\ fileVersion \in Int /\ fileVersion >= -1
      /\ holder \in Sessions /\ endpoint \in Sessions
  BY Zenon, <1>t DEF MapsTyped
<1>u. UNCHANGED HbRest
  BY Zenon DEF RebalancePick
<1>j. JobTyped' /\ RegTyped' /\ (events' \subseteq Events => AuxTyped')
  BY Zenon, <1>u, <1>t DEF HbRest, JobTyped, RegTyped, AuxTyped
<1>e. events \subseteq Events
  BY Zenon, <1>t DEF AuxTyped
<1>m. UNCHANGED maps => MapsTyped'
  BY Zenon, <1>u, <1>t DEF HbRest, MapsTyped, maps
<1>n. UNCHANGED <<disk, conn, dead, scenario>> => NetTyped'
  BY Zenon, <1>t DEF NetTyped
<1> DEFINE todo == [n \in Nodes |-> IF hb.map[n] # 0 THEN 0 ELSE Alive(endpoint)[n]]
           h == [hb EXCEPT !.at = "copy", !.todo = todo]
<1>1. todo \in Sessions
  <2>1. Alive(endpoint) \in Sessions
    BY Zenon, <1>v, SessionLists
  <2> QED
    BY Zenon, <2>1 DEF Sessions
<1>2. h \in HbType /\ h.at = "copy" /\ h.snap = hb.snap /\ h.bytes = hb.bytes
  <2> HIDE DEF todo
  <2> QED
    BY Zenon, <1>1, <1>h DEF HbType
<1>3. hb.bytes # NoBytes
  BY Zenon, <1>t DEF RebalancePick, HbOK
<1>4. HbOK(h)
  <2> HIDE DEF h
  <2> QED
    BY Zenon, <1>2, <1>3, <1>h, HbShapes
<1>5. hb' = h /\ UNCHANGED <<disk, conn, dead, scenario>> /\ UNCHANGED <<maps, events>>
  BY Zenon DEF RebalancePick
<1> QED
  BY Zenon, <1>4, <1>5, <1>j, <1>e, <1>m, <1>n DEF Typed

\* RebalanceCopy keeps the types.
LEMMA RebalanceCopyTyped ==
  ASSUME Typed, RebalanceCopy
  PROVE  Typed'
<1>t. NetTyped /\ MapsTyped /\ JobTyped /\ RegTyped /\ HbOK(hb) /\ AuxTyped
  BY Zenon DEF Typed
<1>h. /\ hb \in HbType /\ hb.todo \in Sessions /\ hb.lost \subseteq Nodes
      /\ hb.map \in Sessions /\ hb.snap >= -1 /\ hb.snap \in Int /\ hb.bytes \in Bytes
      /\ Asleep \in HbType /\ HbOK(Asleep) /\ HbOK([Asleep EXCEPT !.at = "hung"])
  BY Zenon, <1>t, HbParts
<1>v. /\ version \in Int /\ version >= -1 /\ fileVersion \in Int /\ fileVersion >= -1
      /\ holder \in Sessions /\ endpoint \in Sessions
  BY Zenon, <1>t DEF MapsTyped
<1>u. UNCHANGED HbRest
  BY Zenon DEF RebalanceCopy
<1>j. JobTyped' /\ RegTyped' /\ (events' \subseteq Events => AuxTyped')
  BY Zenon, <1>u, <1>t DEF HbRest, JobTyped, RegTyped, AuxTyped
<1>e. events \subseteq Events
  BY Zenon, <1>t DEF AuxTyped
<1>m. UNCHANGED maps => MapsTyped'
  BY Zenon, <1>u, <1>t DEF HbRest, MapsTyped, maps
<1>n. UNCHANGED <<disk, conn, dead, scenario>> => NetTyped'
  BY Zenon, <1>t DEF NetTyped
<1> DEFINE n == First(hb.todo)
           k == hb.todo[n]
           c == [data |-> hb.bytes, ver |-> fileVersion]
           rest == [hb EXCEPT !.todo = Drop(@, n)]
           stored == [rest EXCEPT !.map[n] = k]
           full == [stored EXCEPT !.todo = None]
<1>0. hb.at = "copy" /\ hb.bytes # NoBytes
  BY Zenon, <1>t DEF RebalanceCopy, HbOK
<1>1. n \in Nodes /\ k \in Nat /\ c \in Copy /\ Torn(n, c) \in SUBSET Copy
  <2>1. Members(hb.todo) # {}
    BY Zenon DEF RebalanceCopy
  <2>2. n \in Nodes /\ k \in Nat
    BY Zenon, <2>1, <1>h, FirstIsMember DEF Sessions
  <2>3. c \in Copy
    BY Zenon, <1>h, <1>v DEF Copy
  <2> QED
    BY Zenon, <2>2, <2>3, <1>t, CopiesTyped
<1>2. NetTyped'
  <2>1. \/ UNCHANGED <<disk, conn, dead, scenario>>
        \/ Answered(n, k, c) \/ Failed(n, k, Torn(n, c))
    BY Zenon DEF RebalanceCopy
  <2>2. CASE UNCHANGED <<disk, conn, dead, scenario>>
    BY Zenon, <2>2, <1>n
  <2>3. CASE Answered(n, k, c)
    BY Zenon, <2>3, <1>t, <1>1, AnsweredTyped
  <2>4. CASE Failed(n, k, Torn(n, c))
    BY Zenon, <2>4, <1>t, <1>1, FailedTyped
  <2> QED
    BY Zenon, <2>1, <2>2, <2>3, <2>4
<1>3. /\ rest \in HbType /\ rest.at = "copy" /\ rest.snap = hb.snap
      /\ rest.bytes = hb.bytes /\ rest.map = hb.map
  <2>1. Drop(hb.todo, n) \in Sessions
    BY Zenon, <1>h, SessionLists
  <2> HIDE DEF n
  <2> QED
    BY Zenon, <2>1, <1>0, <1>h DEF HbType
<1>4. /\ stored \in HbType /\ stored.at = "copy" /\ stored.snap = hb.snap
      /\ stored.bytes = hb.bytes
  <2>1. stored = [rest EXCEPT !.map = [rest.map EXCEPT ![n] = k]]
    BY Zenon
  <2> HIDE DEF rest, stored, n, k
  <2>2. rest.map \in Sessions /\ k \in Nat
    BY Zenon, <1>3, <1>1, <1>h
  <2>3. [rest.map EXCEPT ![n] = k] \in Sessions
    BY Zenon, <2>2 DEF Sessions
  <2> QED
    BY Zenon, <2>1, <2>3, <1>3 DEF HbType
<1>5. /\ full \in HbType /\ full.at = "copy" /\ full.snap = hb.snap
      /\ full.bytes = hb.bytes
  <2> HIDE DEF stored
  <2> QED
    BY Zenon, <1>4, SessionLists DEF HbType
<1>6. HbOK(rest) /\ HbOK(stored) /\ HbOK(full)
  <2> HIDE DEF rest, stored, full
  <2> QED
    BY Zenon, <1>0, <1>3, <1>4, <1>5, <1>h, HbShapes
<1>7. \/ hb' = [Asleep EXCEPT !.at = "hung"] \/ hb' = rest \/ hb' = stored \/ hb' = full
  BY Zenon DEF RebalanceCopy
<1>8. HbOK(hb')
  <2> HIDE DEF rest, stored, full
  <2> QED
    BY Zenon, <1>h, <1>6, <1>7
<1>9. UNCHANGED maps
  BY Zenon DEF RebalanceCopy
<1>10. events' \subseteq Events
  BY Zenon, <1>e DEF RebalanceCopy, Happens, Events
<1> QED
  BY Zenon, <1>2, <1>8, <1>9, <1>10, <1>j, <1>m DEF Typed

\* RebalanceMerge keeps the types.
LEMMA RebalanceMergeTyped ==
  ASSUME Typed, RebalanceMerge
  PROVE  Typed'
<1>t. NetTyped /\ MapsTyped /\ JobTyped /\ RegTyped /\ HbOK(hb) /\ AuxTyped
  BY Zenon DEF Typed
<1>h. /\ hb \in HbType /\ hb.todo \in Sessions /\ hb.lost \subseteq Nodes
      /\ hb.map \in Sessions /\ hb.snap >= -1 /\ hb.snap \in Int /\ hb.bytes \in Bytes
      /\ Asleep \in HbType /\ HbOK(Asleep) /\ HbOK([Asleep EXCEPT !.at = "hung"])
  BY Zenon, <1>t, HbParts
<1>v. /\ version \in Int /\ version >= -1 /\ fileVersion \in Int /\ fileVersion >= -1
      /\ holder \in Sessions /\ endpoint \in Sessions
  BY Zenon, <1>t DEF MapsTyped
<1>u. UNCHANGED HbRest
  BY Zenon DEF RebalanceMerge
<1>j. JobTyped' /\ RegTyped' /\ (events' \subseteq Events => AuxTyped')
  BY Zenon, <1>u, <1>t DEF HbRest, JobTyped, RegTyped, AuxTyped
<1>e. events \subseteq Events
  BY Zenon, <1>t DEF AuxTyped
<1>n. UNCHANGED <<disk, conn, dead, scenario>> => NetTyped'
  BY Zenon, <1>t DEF NetTyped
<1> DEFINE h == [hb EXCEPT !.at = "save", !.map = None, !.bytes = NoBytes]
<1>1. h \in HbType /\ h.at = "save" /\ h.snap = hb.snap
  <2>1. NoBytes \in Bytes
    BY ReplicationAssumption DEF NoBytes, Bytes
  <2> QED
    BY Zenon, <2>1, <1>h, SessionLists DEF HbType
<1>2. HbOK(h)
  <2> HIDE DEF h
  <2> QED
    BY Zenon, <1>1, <1>h, HbShapes
<1>3. /\ hb' = h /\ UNCHANGED <<disk, conn, dead, scenario>>
      /\ UNCHANGED <<endpoint, version, fileVersion, events>>
      /\ holder' = [n \in Nodes |-> IF hb.map[n] # 0 THEN hb.map[n] ELSE holder[n]]
  BY Zenon DEF RebalanceMerge
<1>4. holder' \in Sessions
  BY Zenon, <1>3, <1>h, <1>v DEF Sessions
<1>5. MapsTyped'
  BY Zenon, <1>3, <1>4, <1>u, <1>t DEF MapsTyped, HbRest
<1> QED
  BY Zenon, <1>2, <1>3, <1>5, <1>j, <1>e, <1>n DEF Typed

\* Saving the maps and rebalancing keep the types.
LEMMA RebalanceTyped ==
  ASSUME Typed, \/ HbPersistRead \/ HbPersistWrite \/ HbSleep \/ RebalanceRead
                \/ RebalancePick \/ RebalanceCopy \/ RebalanceMerge
  PROVE  Typed'
BY Zenon, HbPersistReadTyped, HbPersistWriteTyped, HbSleepTyped, RebalanceReadTyped,
   RebalancePickTyped, RebalanceCopyTyped, RebalanceMergeTyped

\* A restart keeps the types.
LEMMA RestartTyped ==
  ASSUME Typed, Restart
  PROVE  Typed' /\ scenario'.restarts = scenario.restarts - 1
<1>t. NetTyped /\ MapsTyped /\ JobTyped /\ RegTyped /\ HbOK(hb) /\ AuxTyped
  BY Zenon DEF Typed
<1>1. NetTyped' /\ scenario'.restarts = scenario.restarts - 1
  <2>1. PICK full \in Scenarios : /\ scenario.ops = full.ops
                                 /\ scenario.breaks \in 0 .. full.breaks
                                 /\ scenario.restarts \in 0 .. full.restarts
    BY Zenon, <1>t DEF NetTyped
  <2>r. scenario.restarts > 0 /\ scenario' = [scenario EXCEPT !.restarts = @ - 1]
    BY Zenon DEF Restart
  <2>2. /\ scenario'.ops = scenario.ops /\ scenario'.breaks = scenario.breaks
        /\ scenario'.restarts = scenario.restarts - 1
        /\ scenario' \in [ops: SUBSET Ops, breaks: Nat, restarts: Nat]
    BY <1>t, <2>r DEF NetTyped
  <2>3. scenario.restarts \in Nat /\ scenario.restarts > 0 /\ full.restarts \in Nat
    BY Zenon, <1>t, <2>r, ReplicationAssumption DEF NetTyped
  <2>4. scenario'.restarts \in 0 .. full.restarts
    BY <2>1, <2>2, <2>3
  <2>5. UNCHANGED <<disk, dead>> /\ conn' \in [Nodes -> {"up", "garbled", "down"}]
    BY Zenon DEF Restart
  <2> QED
    BY Zenon, <2>1, <2>2, <2>4, <2>5, <1>t DEF NetTyped
<1>2. MapsTyped'
  <2>1. /\ version' \in {fileVersion, -1} /\ fileVersion' = version'
        /\ endpoint' = None /\ holder' = None /\ gen' = gen
    BY Zenon DEF Restart
  <2> QED
    BY <2>1, <1>t, SessionLists DEF MapsTyped
<1>3. JobTyped'
  <2>1. job' = [w \in Writers |-> Idle] /\ writes' = writes
    BY Zenon DEF Restart
  <2>2. writes \in Nat
    BY <1>t DEF JobTyped
  <2> QED
    BY Zenon, <2>1, <2>2, <1>t, IdleIsJob DEF JobTyped
<1>4. RegTyped'
  <2>1. reg' = [n \in Nodes |-> NoReg]
    BY Zenon DEF Restart
  <2> QED
    BY <2>1 DEF RegTyped, NoReg, NotListed
<1>5. HbOK(hb')
  BY Zenon, <1>t, HbParts DEF Restart
<1>6. AuxTyped'
  BY Zenon, <1>t DEF AuxTyped, Restart, Happens, Events
<1> QED
  BY Zenon, <1>1, <1>2, <1>3, <1>4, <1>5, <1>6 DEF Typed

\* Every step keeps the types.
LEMMA NextTyped == Typed /\ [Next]_vars => Typed'
<1> SUFFICES ASSUME Typed, [Next]_vars PROVE Typed'
  BY Zenon
<1>1. CASE \E w \in Writers : WriterStep(w)
  BY Zenon, <1>1, StartTyped, FanoutTyped, ReadHolderTyped, CommitCreateTyped,
     CommitUpdateTyped, CommitDeleteTyped, SetFileVersionTyped, PersistReadTyped,
     PersistWriteTyped, AnswerTyped DEF WriterStep
<1>2. CASE \E n \in Nodes : DatanodeStep(n)
  BY Zenon, <1>2, DatanodeTyped
<1>3. CASE \E r \in rollbacks : Rollback(r[1], r[2])
  BY Zenon, <1>3, RollbackTyped
<1>4. CASE HeartbeatStep
  BY Zenon, <1>4, ProbeTyped, RebalanceTyped DEF HeartbeatStep
<1>5. CASE Restart
  BY Zenon, <1>5, RestartTyped
<1>6. CASE UNCHANGED vars
  BY Zenon, <1>6 DEF vars, net, maps, aux, Typed, NetTyped, MapsTyped, JobTyped, RegTyped,
              AuxTyped
<1> QED
  BY Zenon, <1>1, <1>2, <1>3, <1>4, <1>5, <1>6 DEF Next

\* The server's maps, its threads and the datanodes keep their types, for any
\* number of datanodes and any faults: in particular the next datanode of a
\* fan-out, of a read and of a rebalance is always one that exists.
THEOREM TypesHold == Spec => []Typed
BY InitTyped, NextTyped, PTL DEF Spec

\* The type invariant that TLC checks.
THEOREM TypeInvariant == Spec => []TypeOK
BY TypesHold, TypedIsTypeOK, PTL

-----------------------------------------------------------------------------
(* What a step can do to the writes under way, to the versions and to what   *)
(* has been acknowledged.                                                    *)

Committed(w) == Writing(w) /\ job[w].at \in {"persist", "save", "rename", "answer"}

Others(w) == \A v \in Writers \ {w} : job'[v] = job[v]

\* No write begins, commits or is recorded, and one ends only if it is rejected.
KeepsWrites ==
  /\ \A v \in Writers : Writing(v)' =>
       /\ Writing(v) /\ job'[v].ver = job[v].ver /\ job'[v].data = job[v].data
       /\ Committed(v)' <=> Committed(v)
       /\ job'[v].at = "persist" <=> job[v].at = "persist"
  /\ rejected' = {} => \A v \in Writers : Writing(v) => Writing(v)'

Quiet == KeepsWrites /\ UNCHANGED <<version, fileVersion, acked, writes>>

Begins(w) ==
  /\ Others(w) /\ ~Writing(w) /\ Writing(w)' /\ ~Committed(w)'
  /\ job'[w].ver >= 0 /\ (CreateOver \/ job'[w].ver > version)
  /\ writes' = writes + 1 /\ job'[w].data = writes' /\ job'[w].oks = None
  /\ UNCHANGED <<disk, version, fileVersion, acked, events>>

Lands(w) ==
  /\ Others(w) /\ Writing(w) /\ ~Committed(w) /\ Writing(w)'
  /\ job'[w] = [job[w] EXCEPT !.at = "persist"]
  /\ version' = job[w].ver
  /\ UNCHANGED <<disk, fileVersion, acked, writes, events>>

Records(w) ==
  /\ Others(w) /\ Writing(w) /\ job[w].at = "persist" /\ Writing(w)'
  /\ job'[w] = [job[w] EXCEPT !.at = "save"]
  /\ fileVersion' = job[w].ver
  /\ UNCHANGED <<disk, version, acked, writes, events>>

Saves ==
  /\ KeepsWrites /\ UNCHANGED <<disk, version, acked, writes>>
  /\ fileVersion' # version => "stale save" \in events'

Acks(w) ==
  /\ Others(w) /\ Writing(w) /\ job[w].at = "answer" /\ job'[w] = Idle
  /\ acked' = [ver |-> Larger(acked.ver, job[w].ver), write |-> job[w].data]
  /\ UNCHANGED <<disk, version, fileVersion, writes, events>>

Deletes(w) ==
  /\ KeepsWrites /\ ~Writing(w) /\ version' = -1 /\ acked'.ver = -1 /\ "deleted" \in events'
  /\ UNCHANGED <<disk, fileVersion, writes>>

\* Fields of a request that is moved on.
LEMMA MovedFields ==
  ASSUME JobTyped, NEW w \in Writers, NEW j, Set(w, j)
  PROVE  job'[w] = j /\ Others(w)
BY Zenon DEF JobTyped, Set, Others

\* A request that stays a write in the same phase, or is not a write.
LEMMA KeptBy ==
  ASSUME JobTyped, NEW w \in Writers, NEW j, Set(w, j),
         \/ /\ j.op = job[w].op /\ j.ver = job[w].ver /\ j.data = job[w].data
            /\ \/ {j.at, job[w].at} \subseteq {"snapshot", "fanout"}
               \/ {j.at, job[w].at} \subseteq {"save", "rename", "answer"}
         \/ /\ j.op \notin {"CREATE", "UPDATE"}
            /\ ~Writing(w) \/ rejected' # {}
  PROVE  KeepsWrites
<1>1. job'[w] = j /\ Others(w)
  BY Zenon, MovedFields
<1>2. \A v \in Writers : Writing(v)' <=> job'[v].op \in {"CREATE", "UPDATE"}
  BY Zenon DEF Writing
<1>3. \A v \in Writers : Committed(v)' <=>
        Writing(v)' /\ job'[v].at \in {"persist", "save", "rename", "answer"}
  BY Zenon DEF Committed
<1>4. ASSUME NEW v \in Writers, v # w
      PROVE  /\ job'[v] = job[v] /\ (Writing(v)' <=> Writing(v))
             /\ (Committed(v)' <=> Committed(v))
  BY Zenon, <1>1, <1>2, <1>3, <1>4 DEF Others, Writing, Committed
<1>5. /\ Writing(w)' => /\ Writing(w) /\ job'[w].ver = job[w].ver
                        /\ job'[w].data = job[w].data
                        /\ Committed(w)' <=> Committed(w)
                        /\ job'[w].at = "persist" <=> job[w].at = "persist"
      /\ rejected' = {} => (Writing(w) => Writing(w)')
  BY Zenon, <1>1, <1>2, <1>3 DEF Writing, Committed
<1> QED
  BY Zenon, <1>4, <1>5 DEF KeepsWrites

\* With the requests as they are, the writes are.
LEMMA SameJobs ==
  ASSUME job' = job
  PROVE  KeepsWrites
BY Zenon DEF KeepsWrites, Writing, Committed

\* A create begins a write.
LEMMA StartCreateKind ==
  ASSUME Typed, NEW w \in Writers, StartCreate(w)
  PROVE  Begins(w)
<1>t. JobTyped /\ MapsTyped
  BY Zenon DEF Typed
<1> DEFINE j == [Idle EXCEPT !.op = "CREATE", !.at = "fanout", !.ver = 0,
                             !.data = writes + 1, !.todo = endpoint]
<1>1. /\ j.op = "CREATE" /\ j.at = "fanout" /\ j.ver = 0 /\ j.data = writes + 1
      /\ j.oks = None
  BY Zenon DEF Idle
<1>2. job'[w] = j /\ Others(w)
  BY Zenon, <1>t, MovedFields DEF StartCreate
<1>3. /\ job[w] = Idle /\ writes' = writes + 1 /\ (CreateOver \/ version = -1)
      /\ UNCHANGED <<disk, version, fileVersion, acked, events>>
  BY Zenon DEF StartCreate, maps, aux
<1> HIDE DEF j
<1>4. Begins(w)
  BY <1>1, <1>2, <1>3 DEF Begins, Writing, Committed, Idle
<1> QED
  BY Zenon, <1>4

\* So does an update.
LEMMA StartUpdateKind ==
  ASSUME Typed, NEW w \in Writers, StartUpdate(w)
  PROVE  Begins(w)
<1>t. JobTyped /\ MapsTyped
  BY Zenon DEF Typed
<1>0. PICK seen \in 0 .. writes :
        Set(w, [Idle EXCEPT !.op = "UPDATE", !.at = "snapshot",
             !.ver = (IF version # -1 THEN version ELSE seen) + 1,
             !.data = writes + 1])
  BY Zenon DEF StartUpdate
<1> DEFINE v == (IF version # -1 THEN version ELSE seen) + 1
           j == [Idle EXCEPT !.op = "UPDATE", !.at = "snapshot", !.ver = v,
                             !.data = writes + 1]
<1>1. /\ j.op = "UPDATE" /\ j.at = "snapshot" /\ j.ver = v /\ j.data = writes + 1
      /\ j.oks = None
  BY Zenon DEF Idle
<1>2. job'[w] = j /\ Others(w)
  BY Zenon, <1>0, <1>t, MovedFields
<1>3. /\ job[w] = Idle /\ writes' = writes + 1
      /\ UNCHANGED <<disk, version, fileVersion, acked, events>>
  BY Zenon DEF StartUpdate, maps, aux
<1>4. v >= 0 /\ v > version
  BY <1>t DEF MapsTyped, JobTyped
<1> HIDE DEF j, v
<1>5. Begins(w)
  BY <1>1, <1>2, <1>3, <1>4 DEF Begins, Writing, Committed, Idle
<1> QED
  BY Zenon, <1>5

\* Reads and deletes begin, and reads end, without touching a write.
LEMMA ReadOrDeleteKind ==
  ASSUME Typed, NEW w \in Writers, StartDelete(w) \/ StartRead(w) \/ AnswerRead(w)
  PROVE  Quiet
<1>t. JobTyped /\ MapsTyped
  BY Zenon DEF Typed
<1>1. ~Writing(w)
  BY DEF StartDelete, StartRead, AnswerRead, Writing, Idle
<1>2. PICK j : Set(w, j) /\ j.op \notin {"CREATE", "UPDATE"}
  <2>1. [Idle EXCEPT !.op = "DELETE", !.at = "fanout", !.todo = holder].op = "DELETE"
    BY Zenon DEF Idle
  <2>2. [Idle EXCEPT !.op = "READ", !.at = "fanout", !.ver = version,
                     !.todo = Alive(holder)].op = "READ"
    BY Zenon DEF Idle
  <2>3. Idle.op = "idle"
    BY Zenon DEF Idle
  <2> QED
    BY Zenon, <2>1, <2>2, <2>3 DEF StartDelete, StartRead, AnswerRead
<1>3. KeepsWrites
  BY Zenon, <1>t, <1>1, <1>2, KeptBy
<1>4. UNCHANGED <<version, fileVersion, acked, writes>>
  BY Zenon DEF StartDelete, StartRead, AnswerRead, maps, aux
<1> QED
  BY Zenon, <1>3, <1>4 DEF Quiet

\* An update that takes its list of holders stays the write it was.
LEMMA SnapshotKind ==
  ASSUME Typed, NEW w \in Writers, SnapshotHolders(w)
  PROVE  Quiet
<1>t. JobTyped /\ MapsTyped
  BY Zenon DEF Typed
<1>j. job[w] \in Job /\ JobOK(job[w], writes)
  BY Zenon, <1>t, JobParts
<1> DEFINE j == [job[w] EXCEPT !.at = "fanout", !.todo = holder, !.size = Size(holder)]
<1>1. /\ Set(w, j) /\ job[w].at = "snapshot"
      /\ UNCHANGED <<version, fileVersion, acked, writes>>
  BY Zenon DEF SnapshotHolders, maps, aux
<1>2. j.op = job[w].op /\ j.ver = job[w].ver /\ j.data = job[w].data /\ j.at = "fanout"
  BY Zenon, <1>j DEF Job
<1> HIDE DEF j
<1>3. KeepsWrites
  BY Zenon, <1>t, <1>1, <1>2, KeptBy
<1> QED
  BY Zenon, <1>1, <1>3 DEF Quiet

\* So does a write during its fan-out.
LEMMA FanoutKind ==
  ASSUME Typed, NEW w \in Writers, Fanout(w)
  PROVE  Quiet
<1>t. JobTyped /\ MapsTyped
  BY Zenon DEF Typed
<1>j. job[w] \in Job /\ JobOK(job[w], writes)
  BY Zenon, <1>t, JobParts
<1> DEFINE n == First(job[w].todo)
           k == job[w].todo[n]
           rest == [job[w] EXCEPT !.todo = Drop(@, n)]
           called == IF job[w].op = "DELETE" THEN [rest EXCEPT !.size = @ + 1] ELSE rest
           ok == [called EXCEPT !.oks[n] = k]
<1>1. /\ rest.op = job[w].op /\ rest.ver = job[w].ver /\ rest.data = job[w].data
      /\ rest.at = job[w].at /\ DOMAIN rest = DOMAIN job[w]
  BY Zenon, <1>j DEF Job
<1>2. /\ called.op = job[w].op /\ called.ver = job[w].ver /\ called.data = job[w].data
      /\ called.at = job[w].at /\ DOMAIN called = DOMAIN job[w]
  <2> HIDE DEF rest
  <2> QED
    BY Zenon, <1>j, <1>1 DEF Job
<1>3. /\ ok.op = job[w].op /\ ok.ver = job[w].ver /\ ok.data = job[w].data
      /\ ok.at = job[w].at
  <2> HIDE DEF called
  <2> QED
    BY Zenon, <1>j, <1>2 DEF Job
<1>4. /\ Set(w, rest) \/ Set(w, called) \/ Set(w, ok)
      /\ job[w].at = "fanout"
      /\ UNCHANGED <<version, fileVersion, acked, writes>>
  BY Zenon DEF Fanout, maps, aux
<1> HIDE DEF rest, called, ok
<1>5. KeepsWrites
  BY Zenon, <1>t, <1>1, <1>2, <1>3, <1>4, KeptBy
<1> QED
  BY Zenon, <1>4, <1>5 DEF Quiet

\* A read looks at its holders without touching a write.
LEMMA ReadHolderKind ==
  ASSUME Typed, NEW w \in Writers, ReadHolder(w)
  PROVE  Quiet
<1>t. JobTyped /\ MapsTyped
  BY Zenon DEF Typed
<1>j. job[w] \in Job /\ JobOK(job[w], writes)
  BY Zenon, <1>t, JobParts
<1> DEFINE n == First(job[w].todo)
           rest == [job[w] EXCEPT !.todo = Drop(@, n)]
           next == IF Members(rest.todo) = {} THEN Idle ELSE rest
           found == [rest EXCEPT !.at = "answer", !.data = disk[n].data]
           hung == [job[w] EXCEPT !.at = "hung"]
<1>0. /\ job[w].op = "READ"
      /\ UNCHANGED <<version, fileVersion, acked, writes>>
      /\ Set(w, next) \/ Set(w, found) \/ Set(w, hung)
  BY Zenon DEF ReadHolder, maps, aux
<1>1. hung.op = "READ" /\ rest.op = "READ" /\ DOMAIN rest = DOMAIN job[w]
  BY Zenon, <1>j, <1>0 DEF Job
<1>2. next.op \notin {"CREATE", "UPDATE"} /\ found.op = "READ"
  <2> HIDE DEF rest
  <2> QED
    BY Zenon, <1>j, <1>1 DEF Job, Idle
<1>3. ~Writing(w)
  BY Zenon, <1>0 DEF Writing
<1> HIDE DEF next, found, hung
<1>4. KeepsWrites
  BY Zenon, <1>t, <1>0, <1>1, <1>2, <1>3, KeptBy
<1> QED
  BY Zenon, <1>0, <1>4 DEF Quiet

\* A create lands or is rejected.
LEMMA CommitCreateKind ==
  ASSUME Typed, NEW w \in Writers, CommitCreate(w)
  PROVE  Quiet \/ Lands(w)
<1>t. JobTyped /\ MapsTyped
  BY Zenon DEF Typed
<1>j. job[w] \in Job /\ JobOK(job[w], writes)
  BY Zenon, <1>t, JobParts
<1>0. job[w].op = "CREATE" /\ job[w].at = "fanout"
  BY Zenon DEF CommitCreate, FanoutDone
<1>u. UNCHANGED <<disk, fileVersion, acked, writes, events>>
  BY Zenon DEF CommitCreate
<1>1. CASE Set(w, Idle) /\ rejected' = rejected \cup {job[w].data} /\ UNCHANGED version
  <2>1. Idle.op = "idle" /\ rejected' # {}
    BY Zenon, <1>1 DEF Idle
  <2>2. KeepsWrites
    BY Zenon, <1>t, <1>1, <2>1, KeptBy
  <2> QED
    BY Zenon, <1>u, <1>1, <2>2 DEF Quiet
<1>2. CASE Set(w, [job[w] EXCEPT !.at = "persist"]) /\ version' = job[w].ver
  <2>1. job'[w] = [job[w] EXCEPT !.at = "persist"] /\ Others(w)
    BY Zenon, <1>t, <1>2, MovedFields
  <2>2. job'[w].op = job[w].op
    BY Zenon, <1>j, <2>1 DEF Job
  <2>3. Lands(w)
    BY Zenon, <1>0, <1>u, <1>2, <2>1, <2>2 DEF Lands, Writing, Committed
  <2> QED
    BY Zenon, <2>3
<1> QED
  BY Zenon, <1>1, <1>2 DEF CommitCreate

\* An update lands or is rejected.
LEMMA CommitUpdateKind ==
  ASSUME Typed, NEW w \in Writers, CommitUpdate(w)
  PROVE  Quiet \/ Lands(w)
<1>t. JobTyped /\ MapsTyped
  BY Zenon DEF Typed
<1>j. job[w] \in Job /\ JobOK(job[w], writes)
  BY Zenon, <1>t, JobParts
<1>0. job[w].op = "UPDATE" /\ job[w].at = "fanout"
  BY Zenon DEF CommitUpdate, FanoutDone
<1>u. UNCHANGED <<disk, fileVersion, acked, writes, events>>
  BY Zenon DEF CommitUpdate
<1>1. CASE Set(w, Idle) /\ rejected' = rejected \cup {job[w].data} /\ UNCHANGED version
  <2>1. Idle.op = "idle" /\ rejected' # {}
    BY Zenon, <1>1 DEF Idle
  <2>2. KeepsWrites
    BY Zenon, <1>t, <1>1, <2>1, KeptBy
  <2> QED
    BY Zenon, <1>u, <1>1, <2>2 DEF Quiet
<1>2. CASE Set(w, [job[w] EXCEPT !.at = "persist"]) /\ version' = job[w].ver
  <2>1. job'[w] = [job[w] EXCEPT !.at = "persist"] /\ Others(w)
    BY Zenon, <1>t, <1>2, MovedFields
  <2>2. job'[w].op = job[w].op
    BY Zenon, <1>j, <2>1 DEF Job
  <2>3. Lands(w)
    BY Zenon, <1>0, <1>u, <1>2, <2>1, <2>2 DEF Lands, Writing, Committed
  <2> QED
    BY Zenon, <2>3
<1> QED
  BY Zenon, <1>1, <1>2 DEF CommitUpdate

\* A delete takes effect or not.
LEMMA CommitDeleteKind ==
  ASSUME Typed, NEW w \in Writers, CommitDelete(w)
  PROVE  Quiet \/ Deletes(w)
<1>t. JobTyped /\ MapsTyped
  BY Zenon DEF Typed
<1>j. job[w] \in Job /\ JobOK(job[w], writes)
  BY Zenon, <1>t, JobParts
<1>0. job[w].op = "DELETE" /\ ~Writing(w)
  BY Zenon DEF CommitDelete, FanoutDone, Writing
<1>1. PICK j : Set(w, j) /\ j.op \notin {"CREATE", "UPDATE"}
  <2>1. [job[w] EXCEPT !.at = "persist"].op = "DELETE" /\ Idle.op = "idle"
    BY Zenon, <1>0, <1>j DEF Job, Idle
  <2> QED
    BY Zenon, <2>1 DEF CommitDelete
<1>2. KeepsWrites
  BY Zenon, <1>t, <1>0, <1>1, KeptBy
<1>3. UNCHANGED <<disk, fileVersion, writes>>
  BY Zenon DEF CommitDelete
<1>4. CASE UNCHANGED <<version, acked>>
  BY Zenon, <1>2, <1>3, <1>4 DEF Quiet
<1>5. CASE version' = -1 /\ acked' = [acked EXCEPT !.ver = -1] /\ Happens("deleted", TRUE)
  <2>1. acked'.ver = -1
    BY Zenon, <1>5 DEF Typed, AuxTyped
  <2>2. "deleted" \in events'
    BY Zenon, <1>5 DEF Happens
  <2> QED
    BY Zenon, <1>0, <1>2, <1>3, <1>5, <2>1, <2>2 DEF Deletes
<1> QED
  BY Zenon, <1>4, <1>5 DEF CommitDelete

\* A write that landed is recorded in the file.
LEMMA SetFileVersionKind ==
  ASSUME Typed, NEW w \in Writers, SetFileVersion(w)
  PROVE  Quiet \/ Records(w)
<1>t. JobTyped /\ MapsTyped
  BY Zenon DEF Typed
<1>j. job[w] \in Job /\ JobOK(job[w], writes)
  BY Zenon, <1>t, JobParts
<1> DEFINE j == [job[w] EXCEPT !.at = "save"]
<1>0. job[w].at = "persist" /\ Set(w, j) /\ UNCHANGED <<disk, version, acked, writes, events>>
      /\ fileVersion' = IF job[w].op = "DELETE" THEN fileVersion ELSE job[w].ver
  BY Zenon DEF SetFileVersion, aux
<1>1. j.op = job[w].op
  BY <1>j DEF Job
<1>2. job'[w] = j /\ Others(w)
  BY <1>t, <1>0, MovedFields
<1> HIDE DEF j
<1>3. CASE job[w].op = "DELETE"
  <2>1. KeepsWrites
    BY <1>t, <1>0, <1>1, <1>3, KeptBy DEF Writing
  <2> QED
    BY <1>0, <1>3, <2>1 DEF Quiet
<1>4. CASE job[w].op # "DELETE"
  <2>1. Writing(w)
    BY <1>j, <1>0, <1>4 DEF JobOK, Writing
  <2>2. Writing(w)'
    BY <1>1, <1>2, <2>1 DEF Writing
  <2>3. Records(w)
    BY <1>0, <1>2, <1>4, <2>1, <2>2 DEF Records, j
  <2> QED
    BY <2>3
<1> QED
  BY Zenon, <1>3, <1>4

\* persistState reads the map.
LEMMA PersistReadKind ==
  ASSUME Typed, NEW w \in Writers, PersistRead(w)
  PROVE  Quiet
<1>t. JobTyped /\ MapsTyped
  BY DEF Typed
<1>j. job[w] \in Job /\ JobOK(job[w], writes)
  BY <1>t, JobParts
<1> DEFINE j == [job[w] EXCEPT !.at = "rename", !.snap = version]
<1>1. /\ Set(w, j) /\ job[w].at = "save"
      /\ UNCHANGED <<version, fileVersion, acked, writes>>
  BY DEF PersistRead, maps, aux
<1>2. j.op = job[w].op /\ j.ver = job[w].ver /\ j.data = job[w].data /\ j.at = "rename"
  BY <1>j DEF Job
<1> HIDE DEF j
<1>3. KeepsWrites
  BY <1>t, <1>1, <1>2, KeptBy
<1> QED
  BY <1>1, <1>3 DEF Quiet

\* persistState replaces the file.
LEMMA PersistWriteKind ==
  ASSUME Typed, NEW w \in Writers, PersistWrite(w)
  PROVE  Saves
<1>t. JobTyped /\ MapsTyped
  BY DEF Typed
<1>j. job[w] \in Job /\ JobOK(job[w], writes)
  BY <1>t, JobParts
<1> DEFINE j == [job[w] EXCEPT !.at = "answer"]
<1>1. /\ Set(w, j) /\ job[w].at = "rename" /\ fileVersion' = job[w].snap
      /\ UNCHANGED <<disk, version, acked, writes>>
      /\ Happens("stale save", job[w].snap # version)
  BY Zenon DEF PersistWrite
<1>2. j.op = job[w].op /\ j.ver = job[w].ver /\ j.data = job[w].data /\ j.at = "answer"
  BY <1>j DEF Job
<1> HIDE DEF j
<1>3. KeepsWrites
  BY Zenon, <1>t, <1>1, <1>2, KeptBy
<1>4. fileVersion' # version => "stale save" \in events'
  BY Zenon, <1>1 DEF Happens
<1> QED
  BY Zenon, <1>1, <1>3, <1>4 DEF Saves

\* A write is acknowledged.
LEMMA AnswerKind ==
  ASSUME Typed, NEW w \in Writers, Answer(w)
  PROVE  Quiet \/ Acks(w)
<1>t. JobTyped /\ MapsTyped
  BY DEF Typed
<1>0. job[w].at = "answer" /\ job[w].op # "READ" /\ Set(w, Idle)
      /\ UNCHANGED <<disk, version, fileVersion, writes, events>>
  BY DEF Answer, maps
<1>1. CASE job[w].op = "DELETE"
  <2>1. UNCHANGED acked
    BY <1>1 DEF Answer
  <2>2. ~Writing(w) /\ Idle.op = "idle"
    BY <1>1 DEF Writing, Idle
  <2>3. KeepsWrites
    BY <1>t, <1>0, <2>2, KeptBy
  <2> QED
    BY <1>0, <2>1, <2>3 DEF Quiet
<1>2. CASE job[w].op # "DELETE"
  <2>1. Writing(w)
    BY Zenon, <1>0, <1>2, RequestFacts DEF Writing
  <2>2. job'[w] = Idle /\ Others(w)
    BY <1>t, <1>0, MovedFields
  <2>3. acked' = [ver |-> Larger(acked.ver, job[w].ver), write |-> job[w].data]
    BY <1>2 DEF Answer
  <2>4. Acks(w)
    BY <1>0, <2>1, <2>2, <2>3 DEF Acks
  <2> QED
    BY <2>4
<1> QED
  BY <1>1, <1>2

\* What a writer's step does.
LEMMA WriterKinds ==
  ASSUME Typed, NEW w \in Writers, WriterStep(w)
  PROVE  \/ Quiet \/ Begins(w) \/ Lands(w) \/ Records(w) \/ Saves \/ Acks(w)
         \/ Deletes(w)
BY StartCreateKind, StartUpdateKind, ReadOrDeleteKind, SnapshotKind, FanoutKind,
   ReadHolderKind, CommitCreateKind, CommitUpdateKind, CommitDeleteKind,
   SetFileVersionKind, PersistReadKind, PersistWriteKind, AnswerKind DEF WriterStep

\* What the other steps do.
LEMMA OtherKinds ==
  ASSUME Typed,
         \/ \E n \in Nodes : DatanodeStep(n)
         \/ \E r \in rollbacks : Rollback(r[1], r[2])
         \/ HeartbeatStep
  PROVE  \/ Quiet \/ Saves
         \/ \E n \in Nodes : RegisterDataNodeFiles(n) \/ BuildMerge(n)
<1>1. CASE \E r \in rollbacks : Rollback(r[1], r[2])
  <2>1. UNCHANGED <<job, version, fileVersion, acked, writes>>
    BY Zenon, <1>1 DEF Rollback, maps
  <2> QED
    BY <2>1, SameJobs DEF Quiet
<1>2. ASSUME NEW n \in Nodes, DatanodeStep(n),
             ~RegisterDataNodeFiles(n), ~BuildMerge(n)
      PROVE  Quiet
  <2>1. UNCHANGED <<job, version, fileVersion, acked, writes>>
    BY <1>2 DEF DatanodeStep, BreakLink, Connect, SyncStatus, BuildFetch, BuildDone,
                maps, aux
  <2> QED
    BY <2>1, SameJobs DEF Quiet
<1>3. CASE HeartbeatStep
  <2>1. UNCHANGED <<job, acked, writes>>
    BY Zenon, <1>3 DEF HeartbeatStep, HbStart, HbProbe, HbEvict, EraseFromReplicationMap,
                HbPersistRead, HbPersistWrite, HbSleep, RebalanceRead, RebalancePick,
                RebalanceCopy, RebalanceMerge, HbRest
  <2>2. CASE HbPersistWrite
    <3>1. /\ UNCHANGED <<disk, version>> /\ fileVersion' = hb.snap
          /\ Happens("stale save", hb.snap # version)
      BY Zenon, <2>2 DEF HbPersistWrite
    <3>2. fileVersion' # version => "stale save" \in events'
      BY Zenon, <3>1 DEF Happens
    <3> QED
      BY Zenon, <2>1, <3>1, <3>2, SameJobs DEF Saves
  <2>3. CASE ~HbPersistWrite
    <3>1. UNCHANGED <<version, fileVersion>>
      BY Zenon, <1>3, <2>3 DEF HeartbeatStep, HbStart, HbProbe, HbEvict,
                EraseFromReplicationMap, HbPersistRead, HbSleep, RebalanceRead,
                RebalancePick, RebalanceCopy, RebalanceMerge, maps
    <3> QED
      BY Zenon, <2>1, <3>1, SameJobs DEF Quiet
  <2> QED
    BY Zenon, <2>2, <2>3
<1> QED
  BY Zenon, <1>1, <1>2, <1>3

\* What has happened, and what was rejected, is never forgotten.
LEMMA HistoryKept ==
  ASSUME Next
  PROVE  events \subseteq events' /\ rejected \subseteq rejected'
<1>1. CASE \E w \in Writers : WriterStep(w)
  BY ZenonT(40), <1>1 DEF WriterStep, StartCreate, StartUpdate, StartDelete, StartRead,
              SnapshotHolders, Fanout, ReadHolder, CommitCreate, CommitUpdate,
              CommitDelete, SetFileVersion, PersistRead, PersistWrite, Answer,
              AnswerRead, aux, Happens
<1>2. CASE \E n \in Nodes : DatanodeStep(n)
  BY Zenon, <1>2 DEF DatanodeStep, BreakLink, Connect, SyncStatus, RegisterDataNodeFiles,
              BuildFetch, BuildMerge, BuildDone, aux, Happens
<1>3. CASE \E r \in rollbacks : Rollback(r[1], r[2])
  BY Zenon, <1>3 DEF Rollback, Happens
<1>4. CASE HeartbeatStep
  BY Zenon, <1>4 DEF HeartbeatStep, HbStart, HbProbe, HbEvict, EraseFromReplicationMap,
              HbPersistRead, HbPersistWrite, HbSleep, RebalanceRead, RebalancePick,
              RebalanceCopy, RebalanceMerge, HbRest, Happens
<1>5. CASE Restart
  BY Zenon, <1>5 DEF Restart, Happens
<1> QED
  BY Zenon, <1>1, <1>2, <1>3, <1>4, <1>5 DEF Next
=============================================================================
