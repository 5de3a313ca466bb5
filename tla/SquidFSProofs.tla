---------------------------- MODULE SquidFSProofs ----------------------------
(***************************************************************************)
(* The counts of a cache entry are its open handles, the mount holds the   *)
(* lock exactly while a writable handle is open, unflushed bytes stay in   *)
(* the cache, a flush replaces the version it was read from, and an open   *)
(* file shows the bytes of its version: for any number of handles,         *)
(* modifications and faults.                                               *)
(***************************************************************************)
EXTENDS SquidFS, TLAPS

Contents == 0 .. MaxContents
EntryType == [data : Contents, dirty : BOOLEAN, lockCount : 0 .. MaxHandles,
              openCount : 0 .. MaxHandles, ver : Nat]
Callbacks == {"idle", "lookup", "stuck", "open", "create", "read", "release", "drop", "unlink"}
Rpcs == {"NONE", "ACQUIRE", "READ", "RELEASE", "CREATE", "DELETE", "UPDATE"}
FuseType == [op : Callbacks,
             rpc : Rpcs,
             st : {"none", "asked", "answered"}, w : BOOLEAN, t : BOOLEAN, ok : BOOLEAN,
             data : Contents, ver : Nat]
SrvType == [exists : BOOLEAN, ver : Nat, data : Contents]
PutType == [k : {"put"}, ver : Nat, data : Contents]
Del == [k |-> "del"]

\* Which call each callback waits for, and that the ones which take or give
\* back the lock are about a writable handle.
Control ==
    \/ fuse.op \in {"idle", "lookup", "stuck"} /\ fuse.st = "none" /\ fuse.rpc = "NONE"
    \/ /\ fuse.st # "none"
       /\ \/ fuse.op = "open" /\ fuse.rpc \in {"ACQUIRE", "RELEASE"} /\ fuse.w
          \/ fuse.op = "open" /\ fuse.rpc = "READ"
          \/ fuse.op = "create" /\ fuse.rpc \in {"CREATE", "ACQUIRE", "DELETE"} /\ fuse.w
          \/ fuse.op = "read" /\ fuse.rpc = "READ"
          \/ fuse.op = "release" /\ fuse.rpc \in {"UPDATE", "RELEASE"} /\ fuse.w
          \/ fuse.op = "drop" /\ fuse.rpc = "RELEASE"
          \/ fuse.op = "unlink" /\ fuse.rpc = "DELETE"

\* The callbacks that may still add a handle.
Opening == fuse.op \in {"lookup", "create", "open"}

\* The FUSE thread is at a point of a callback.
FuseTyped ==
    /\ fuse \in FuseType /\ Control
    /\ fuse.op = "idle" => fuse = Idle
    /\ fuse.t => fuse.w

\* What the mount, the connection and the server hold is of its type.
DataTyped ==
    /\ known \in Nat \cup {-1} /\ mine \in Contents \cup {-1}
    /\ lock \in {"none", "me", "other"}
    /\ events \subseteq {"lost", "expired", "deleted", "refetched", "unlocked", "overtaken", "torn", "refused"}
    /\ srv \in SrvType
    /\ channel \in Seq(PutType \cup {Del, Cut})
    /\ push \in PutType \cup {Del, NoPush}
    /\ next \in 2 .. MaxContents + 1

\* The order between counts and handles bounds the counts.
CacheTyped ==
    /\ cache = NoEntry \/ cache \in EntryType
    /\ wr \in Nat /\ ro \in Nat
    /\ wr + ro <= MaxHandles
    /\ Opening => wr + ro < MaxHandles
    /\ Present => cache.openCount <= wr + ro /\ cache.lockCount <= wr

Typed == FuseTyped /\ DataTyped /\ CacheTyped

\* Until a delete, the counts are the handles at every step of a callback.
EntryCounts ==
    IF Present THEN cache.openCount = wr + ro /\ cache.lockCount = wr ELSE wr + ro = 0

NoDelete ==
    /\ channel \in Seq(PutType \cup {Cut})
    /\ push # Del
    /\ fuse.op \notin {"drop", "unlink"}

\* A callback that makes an entry finds no handle; op_open keeps the entry.
FirstHandle ==
    /\ fuse.op \in {"lookup", "create"} => wr + ro = 0
    /\ fuse.op = "open" => Present
    /\ fuse.op = "open" /\ fuse.rpc = "READ" => wr + ro = 0

CountsInv == "deleted" \notin events => NoDelete /\ EntryCounts /\ FirstHandle

\* The lock between its grant and the first writable handle, and between the
\* last writable handle and its release.
Underway ==
    \/ fuse.rpc = "ACQUIRE" /\ fuse.st = "answered" /\ fuse.ok
    \/ fuse.op = "open" /\ fuse.rpc = "READ" /\ fuse.w
    \/ fuse.op \in {"open", "release"} /\ fuse.rpc = "RELEASE" /\ fuse.st = "asked"
    \/ fuse.rpc = "UPDATE"

LockFollows ==
    /\ lock = "me" <=> (wr > 0 \/ Underway)
    /\ fuse.rpc \in {"ACQUIRE", "RELEASE", "UPDATE"} => wr = 0

HolderInv ==
    /\ lock = "me" => srv.exists
    /\ events \cap {"lost", "expired", "deleted"} = {} => LockFollows

\* What is dirty is locked or being flushed, what is unflushed is dirty.
BufferKept ==
    /\ Present /\ cache.dirty => cache.lockCount > 0 \/ fuse.rpc = "UPDATE"
    /\ mine >= 0 => Present /\ cache.dirty /\ cache.data = mine
    /\ fuse.rpc = "UPDATE" /\ fuse.st = "answered" => mine = -1

BufferInv == events \cap {"deleted", "refetched", "unlocked"} = {} => BufferKept

-----------------------------------------------------------------------------
\* The entry that cache_[r] finds or makes is well typed.
LEMMA EntryFacts ==
  ASSUME Typed
  PROVE  /\ Entry \in EntryType /\ Fresh \in EntryType /\ NoEntry \notin EntryType
         /\ Entry.openCount <= wr + ro /\ Entry.lockCount <= wr
         /\ Present => cache \in EntryType
<1>1. Fresh \in EntryType
  BY SquidFSAssumption DEF Fresh, EntryType, Contents
<1>2. NoEntry \notin EntryType
  BY DEF NoEntry, EntryType
<1>3. Present => cache \in EntryType
  BY Zenon DEF Typed, CacheTyped, Present
<1>4. Entry \in EntryType
  BY Zenon, <1>1, <1>3 DEF Entry
<1>5. wr \in Nat /\ ro \in Nat
  BY Zenon DEF Typed, CacheTyped
<1>6. Entry.openCount <= wr + ro /\ Entry.lockCount <= wr
  BY <1>3, <1>5 DEF Typed, CacheTyped, Entry, Fresh
<1> QED
  BY Zenon, <1>1, <1>2, <1>3, <1>4, <1>6

\* What is on the connection is well typed.
LEMMA ChannelFacts ==
  ASSUME Typed, channel # <<>>
  PROVE  /\ Head(channel) \in PutType \cup {Del, Cut}
         /\ Head(channel).k = "put" => Head(channel) \in PutType
         /\ Tail(channel) \in Seq(PutType \cup {Del, Cut})
<1>1. Head(channel) \in PutType \cup {Del, Cut} /\ Tail(channel) \in Seq(PutType \cup {Del, Cut})
  BY DEF Typed, DataTyped
<1> QED
  BY <1>1 DEF Del, Cut

\* The points of a callback: at rest, begun, asking the server.
LEMMA IdleFacts ==
  /\ Idle \in FuseType
  /\ Idle.op = "idle" /\ Idle.rpc = "NONE" /\ Idle.st = "none" /\ Idle.t = FALSE /\ Idle.w = FALSE
BY SquidFSAssumption DEF Idle, FuseType, Contents, Callbacks, Rpcs

\* A call to the server keeps the rest of the callback (the RPCs of Client).
LEMMA AskFacts ==
  ASSUME NEW f \in FuseType, NEW r \in Rpcs, Ask(f, r)
  PROVE  /\ fuse' \in FuseType
         /\ fuse'.op = f.op /\ fuse'.rpc = r /\ fuse'.st = "asked"
         /\ fuse'.w = f.w /\ fuse'.t = f.t
BY Zenon DEF Ask, FuseType

\* What the server does keeps the path's state well typed.
LEMMA CarryFacts ==
  ASSUME Typed, Carry(fuse.rpc)
  PROVE  /\ srv' \in SrvType /\ lock' \in {"none", "me", "other"}
<1>1. 0 \in Contents /\ fuse.ver \in Nat /\ fuse.data \in Contents /\ srv \in SrvType
  BY SquidFSAssumption DEF Typed, FuseTyped, FuseType, DataTyped, Contents
<1>2. CASE fuse.rpc = "CREATE"
  BY Zenon, <1>1, <1>2 DEF Carry, SrvType
<1>3. CASE fuse.rpc = "DELETE"
  BY Zenon, <1>1, <1>3 DEF Carry, SrvType
<1>4. CASE fuse.rpc = "UPDATE"
  <2> DEFINE v == (IF srv.exists THEN srv.ver ELSE fuse.ver) + 1
  <2>1. v \in Nat
    BY <1>1 DEF SrvType
  <2>2. srv' = [srv EXCEPT !.ver = v, !.data = fuse.data] /\ lock' = lock
    BY Zenon, <1>4 DEF Carry
  <2> HIDE DEF v
  <2> QED
    BY Zenon, <1>1, <2>1, <2>2 DEF SrvType, Typed, DataTyped
<1>5. CASE fuse.rpc \notin {"CREATE", "DELETE", "UPDATE"}
  BY Zenon, <1>1, <1>5 DEF Carry, Typed, DataTyped
<1> QED
  BY Zenon, <1>2, <1>3, <1>4, <1>5

\* An answer keeps callback and call; the answer to a flush ends what is unflushed.
LEMMA AnsweredFacts ==
  ASSUME Typed, NEW ok \in BOOLEAN, srv' \in SrvType, Answered(ok)
  PROVE  /\ fuse' \in FuseType
         /\ fuse'.op = fuse.op /\ fuse'.rpc = fuse.rpc /\ fuse'.st = "answered"
         /\ fuse'.w = fuse.w /\ fuse'.t = fuse.t /\ fuse'.ok = ok
         /\ mine' = IF fuse.rpc = "UPDATE" THEN -1 ELSE mine
BY Zenon DEF Typed, FuseTyped, FuseType, DataTyped, Answered, SrvType

\* The end of op_open counts the new handle.
LEMMA OpenedFacts ==
  ASSUME NEW e \in EntryType, NEW f \in FuseType, Opened(e, f), wr \in Nat, ro \in Nat,
         e.openCount <= wr + ro, e.lockCount <= wr, wr + ro < MaxHandles
  PROVE  /\ cache' \in EntryType
         /\ cache'.openCount = e.openCount + 1 /\ cache'.ver = e.ver
         /\ f.w => cache'.lockCount = e.lockCount + 1 /\ wr' = wr + 1 /\ ro' = ro
         /\ ~f.w => cache'.lockCount = e.lockCount /\ wr' = wr /\ ro' = ro + 1
         /\ f.t => cache'.data = 0 /\ cache'.dirty /\ mine' = 0
         /\ ~f.t => cache'.data = e.data /\ cache'.dirty = e.dirty /\ mine' = mine
         /\ fuse' = Idle
<1>1. f.w \in BOOLEAN /\ f.t \in BOOLEAN /\ 0 \in Contents
  BY SquidFSAssumption DEF FuseType, Contents
<1>2. /\ e.data \in Contents /\ e.dirty \in BOOLEAN /\ e.ver \in Nat
      /\ e.lockCount \in 0 .. MaxHandles /\ e.openCount \in 0 .. MaxHandles
  BY Zenon DEF EntryType
<1> DEFINE d == IF f.t THEN 0 ELSE e.data
           b == e.dirty \/ f.t
           l == IF f.w THEN e.lockCount + 1 ELSE e.lockCount
<1>3. cache' = [e EXCEPT !.data = d, !.dirty = b, !.lockCount = l, !.openCount = e.openCount + 1]
  BY Zenon DEF Opened
<1>4. d \in Contents /\ b \in BOOLEAN /\ l \in 0 .. MaxHandles /\ e.openCount + 1 \in 0 .. MaxHandles
  BY <1>1, <1>2, SquidFSAssumption
<1> HIDE DEF d, b, l
<1>5. /\ cache' \in EntryType
      /\ cache'.data = d /\ cache'.dirty = b /\ cache'.lockCount = l
      /\ cache'.openCount = e.openCount + 1 /\ cache'.ver = e.ver
  BY Zenon, <1>3, <1>4 DEF EntryType
<1>6. f.w => cache'.lockCount = e.lockCount + 1 /\ wr' = wr + 1 /\ ro' = ro
  BY Zenon, <1>5 DEF Opened, l
<1>7. ~f.w => cache'.lockCount = e.lockCount /\ wr' = wr /\ ro' = ro + 1
  BY Zenon, <1>5 DEF Opened, l
<1>8. f.t => cache'.data = 0 /\ cache'.dirty /\ mine' = 0
  BY Zenon, <1>5 DEF Opened, d, b
<1>9. ~f.t => cache'.data = e.data /\ cache'.dirty = e.dirty /\ mine' = mine
  BY Zenon, <1>2, <1>5 DEF Opened, d, b
<1> QED
  BY Zenon, <1>5, <1>6, <1>7, <1>8, <1>9 DEF Opened

\* A callback that returns leaves the thread at rest.
LEMMA FuseEnds ==
  ASSUME fuse' = Idle
  PROVE  FuseTyped'
<1>1. Control'
  BY Zenon, IdleFacts DEF Control
<1>2. ~fuse'.t
  BY Zenon, IdleFacts
<1> QED
  BY Zenon, <1>1, <1>2, IdleFacts DEF FuseTyped

\* A callback that calls the server waits for one of its calls.
LEMMA FuseAsks ==
  ASSUME NEW f \in FuseType, NEW r \in Rpcs, Ask(f, r), f.t => f.w,
         \/ f.op = "open" /\ r \in {"ACQUIRE", "RELEASE"} /\ f.w
         \/ f.op = "open" /\ r = "READ"
         \/ f.op = "create" /\ r \in {"CREATE", "ACQUIRE", "DELETE"} /\ f.w
         \/ f.op = "read" /\ r = "READ"
         \/ f.op = "release" /\ r \in {"UPDATE", "RELEASE"} /\ f.w
         \/ f.op = "drop" /\ r = "RELEASE"
         \/ f.op = "unlink" /\ r = "DELETE"
  PROVE  FuseTyped'
<1>1. Control'
  BY Zenon, AskFacts DEF Control
<1>2. fuse'.t => fuse'.w
  BY Zenon, AskFacts
<1>3. fuse'.op # "idle" /\ fuse' \in FuseType
  BY Zenon, AskFacts
<1> QED
  BY Zenon, <1>1, <1>2, <1>3 DEF FuseTyped

\* What op_open does up to its first call, from a begun callback f.
LEMMA FuseOpens ==
  ASSUME NEW f \in FuseType, NEW e \in EntryType, f.op = "open", f.t => f.w,
         OpenLocked(e, f) \/ (f.w /\ Ask(f, "ACQUIRE"))
  PROVE  FuseTyped'
<1>1. CASE Ask(f, "READ")
  BY Zenon, <1>1, FuseAsks DEF Rpcs
<1>2. CASE f.w /\ Ask(f, "ACQUIRE")
  BY Zenon, <1>2, FuseAsks DEF Rpcs
<1>3. CASE fuse' = Idle
  BY Zenon, <1>3, FuseEnds
<1> QED
  BY Zenon, <1>1, <1>2, <1>3 DEF OpenLocked, Opened

\* Every step keeps the callbacks in order.
LEMMA FuseTypedStep ==
  ASSUME Typed, [Next]_vars
  PROVE  FuseTyped'
<1> USE DEF envUnchanged
<1>a. fuse \in FuseType /\ (fuse.t => fuse.w) /\ Control /\ (fuse.op = "idle" => fuse = Idle)
  BY Zenon DEF Typed, FuseTyped
<1>b. Entry \in EntryType /\ (Present => cache \in EntryType)
  BY Zenon, EntryFacts
<1>1. CASE UNCHANGED fuse
  BY Zenon, <1>1 DEF Typed, FuseTyped, Control
<1>2. CASE fuse' = Idle
  BY Zenon, <1>2, FuseEnds
<1>3. CASE Rpc \/ RpcLost
  <2>1. srv' \in SrvType
    BY Zenon, <1>3, CarryFacts DEF Rpc, RpcLost, Typed, DataTyped
  <2>2. PICK ok \in BOOLEAN : Answered(ok)
    BY Zenon, <1>3 DEF Rpc, RpcLost
  <2>3. fuse.st # "none" /\ fuse.op # "idle"
    BY Zenon, <1>3, <1>a DEF Rpc, RpcLost, Control
  <2>4. /\ fuse' \in FuseType /\ fuse'.op = fuse.op /\ fuse'.rpc = fuse.rpc
        /\ fuse'.st = "answered" /\ fuse'.w = fuse.w /\ fuse'.t = fuse.t
    BY Zenon, <2>1, <2>2, AnsweredFacts
  <2>5. Control'
    BY Zenon, <2>3, <2>4, <1>a DEF Control
  <2> QED
    BY Zenon, <2>3, <2>4, <2>5, <1>a DEF FuseTyped
<1>4. ASSUME NEW w \in BOOLEAN, NEW t \in BOOLEAN, t => w,
             OpenBegin([Idle EXCEPT !.op = "open", !.w = w, !.t = t])
      PROVE  FuseTyped'
  <2> DEFINE f == [Idle EXCEPT !.op = "open", !.w = w, !.t = t]
  <2>1. f \in FuseType /\ f.op = "open" /\ f.w = w /\ f.t = t
    BY Zenon, IdleFacts DEF FuseType, Callbacks
  <2>2. OpenLocked(Entry, f) \/ (f.w /\ Ask(f, "ACQUIRE"))
    BY Zenon, <1>4 DEF OpenBegin
  <2> HIDE DEF f
  <2> QED
    BY Zenon, <2>1, <2>2, <1>4, <1>b, FuseOpens
<1>5. CASE OpenAcquired
  BY Zenon, <1>5, <1>a, <1>b, <1>2, FuseOpens DEF OpenAcquired, AnsweredTo
<1>6. CASE OpenFetched
  BY Zenon, <1>6, <1>a, <1>2, FuseAsks DEF OpenFetched, AnsweredTo, Opened, Rpcs
<1>7. CASE Lookup
  <2>1. /\ fuse' \in FuseType /\ fuse'.op = "lookup" /\ fuse'.rpc = "NONE"
        /\ fuse'.st = "none" /\ fuse'.t = FALSE
    BY Zenon, <1>7, IdleFacts DEF Lookup, FuseType, Callbacks
  <2>2. Control'
    BY Zenon, <2>1 DEF Control
  <2>3. ~fuse'.t
    BY Zenon, <2>1
  <2> QED
    BY Zenon, <2>1, <2>2, <2>3 DEF FuseTyped
<1>8. ASSUME NEW t \in BOOLEAN, Create(t)
      PROVE  FuseTyped'
  <2>1. CASE fuse' = [fuse EXCEPT !.op = "stuck"]
    <3>1. /\ fuse' \in FuseType /\ fuse'.op = "stuck" /\ fuse'.rpc = fuse.rpc
          /\ fuse'.st = fuse.st /\ fuse'.w = fuse.w /\ fuse'.t = fuse.t
      BY Zenon, <2>1, <1>a DEF FuseType, Callbacks
    <3>2. fuse.op = "lookup"
      BY Zenon, <1>8 DEF Create
    <3>3. Control'
      BY Zenon, <3>1, <3>2, <1>a DEF Control
    <3> QED
      BY Zenon, <3>1, <3>3, <1>a DEF FuseTyped
  <2>2. CASE Ask([Idle EXCEPT !.op = "create", !.w = TRUE], "CREATE")
    <3> DEFINE f == [Idle EXCEPT !.op = "create", !.w = TRUE]
    <3>1. f \in FuseType /\ f.op = "create" /\ f.w = TRUE
      BY Zenon, IdleFacts DEF FuseType, Callbacks
    <3>2. Ask(f, "CREATE")
      BY Zenon, <2>2
    <3> HIDE DEF f
    <3> QED
      BY Zenon, <3>1, <3>2, FuseAsks DEF Rpcs
  <2>3. CASE OpenBegin([Idle EXCEPT !.op = "open", !.w = TRUE, !.t = t])
    BY Zenon, <2>3, <1>4
  <2> QED
    BY Zenon, <1>8, <2>1, <2>2, <2>3 DEF Create
<1>9. CASE Created \/ CreateLocked
  BY Zenon, <1>9, <1>a, <1>2, FuseAsks DEF Created, CreateLocked, AnsweredTo, Control, Rpcs
<1>10. CASE Read
  <2> DEFINE f == [Idle EXCEPT !.op = "read"]
  <2>1. f \in FuseType /\ f.op = "read" /\ f.t = FALSE
    BY Zenon, IdleFacts DEF FuseType, Callbacks
  <2>2. Ask(f, "READ")
    BY Zenon, <1>10 DEF Read
  <2> HIDE DEF f
  <2> QED
    BY Zenon, <2>1, <2>2, FuseAsks DEF Rpcs
<1>11. ASSUME NEW w \in BOOLEAN, Release(w)
       PROVE  FuseTyped'
  <2> DEFINE f == [Idle EXCEPT !.op = "release", !.w = w]
             e == Decremented(w)
  <2>1. f \in FuseType /\ f.op = "release" /\ f.w = w /\ f.t = FALSE
    BY Zenon, IdleFacts DEF FuseType, Callbacks
  <2>2. CASE w /\ Present /\ Ask([f EXCEPT !.data = e.data, !.ver = e.ver], "UPDATE")
    <3>1. e.data \in Contents /\ e.ver \in Nat
      BY Zenon, <2>2, <1>b DEF Decremented, EntryType
    <3> HIDE DEF f, e
    <3>2. [f EXCEPT !.data = e.data, !.ver = e.ver] \in FuseType
      BY Zenon, <2>1, <3>1 DEF FuseType
    <3>3. /\ [f EXCEPT !.data = e.data, !.ver = e.ver].op = "release"
          /\ [f EXCEPT !.data = e.data, !.ver = e.ver].w = w
          /\ [f EXCEPT !.data = e.data, !.ver = e.ver].t = FALSE
      BY Zenon, <2>1 DEF FuseType
    <3> QED
      BY Zenon, <2>2, <3>2, <3>3, FuseAsks DEF Rpcs
  <2>3. CASE w /\ Ask(f, "RELEASE")
    <3> HIDE DEF f
    <3> QED
      BY Zenon, <2>1, <2>3, FuseAsks DEF Rpcs
  <2>4. CASE w /\ Ask([f EXCEPT !.op = "drop"], "RELEASE")
    <3> HIDE DEF f
    <3>1. /\ [f EXCEPT !.op = "drop"] \in FuseType /\ [f EXCEPT !.op = "drop"].op = "drop"
          /\ [f EXCEPT !.op = "drop"].t = FALSE
      BY Zenon, <2>1 DEF FuseType, Callbacks
    <3> QED
      BY Zenon, <2>4, <3>1, FuseAsks DEF Rpcs
  <2> QED
    BY Zenon, <1>11, <1>2, <2>2, <2>3, <2>4 DEF Release
<1>12. CASE Flushed
  BY Zenon, <1>12, <1>a, FuseAsks DEF Flushed, AnsweredTo, Control, Rpcs
<1>13. CASE Unlink
  <2> DEFINE f == [Idle EXCEPT !.op = "unlink"]
  <2>1. f \in FuseType /\ f.op = "unlink" /\ f.t = FALSE
    BY Zenon, IdleFacts DEF FuseType, Callbacks
  <2>2. Ask(f, "DELETE")
    BY Zenon, <1>13 DEF Unlink
  <2> HIDE DEF f
  <2> QED
    BY Zenon, <2>1, <2>2, FuseAsks DEF Rpcs
<1>14. CASE Health \/ Expire \/ OtherLock \/ OtherUpdate \/ OtherUnlock \/ OtherDelete \/ OtherCreate
            \/ (\E torn \in BOOLEAN : PushBegin(torn)) \/ PushEnd \/ Write \/ Truncate \/ UNCHANGED vars
  BY Zenon, <1>14, <1>1 DEF Health, Expire, OtherLock, OtherUpdate, OtherUnlock, OtherDelete, OtherCreate,
                     PushBegin, PushEnd, Write, Truncate, vars, mountVars
<1>15. CASE Released \/ CreateUndone \/ ReadFetched \/ Dropped \/ Unlinked
  BY Zenon, <1>15, <1>2 DEF Released, CreateUndone, ReadFetched, Dropped, Unlinked
<1> QED
  BY Zenon, <1>3, <1>4, <1>5, <1>6, <1>7, <1>8, <1>9, <1>10, <1>11, <1>12, <1>13, <1>14, <1>15 DEF Next, Open

\* What the steps write into an entry: the bytes of a READ, bytes of this
\* mount, the bytes of a push, the answer to a flush, one handle less.
LEMMA FetchedFacts ==
  ASSUME Typed
  PROVE  /\ Fetched \in EntryType
         /\ Fetched.openCount = Entry.openCount /\ Fetched.lockCount = Entry.lockCount
         /\ Fetched.data = fuse.data /\ Fetched.ver = fuse.ver /\ Fetched.dirty = FALSE
<1>1. fuse.data \in Contents /\ fuse.ver \in Nat /\ Entry \in EntryType
  BY Zenon, EntryFacts DEF Typed, FuseTyped, FuseType
<1> QED
  BY Zenon, <1>1 DEF Fetched, EntryType

\* op_write and op_truncate change the bytes and not the counts.
LEMMA ModifiedFacts ==
  ASSUME Typed, Present, NEW d \in Contents, Modified(d)
  PROVE  /\ cache' \in EntryType
         /\ cache'.openCount = cache.openCount /\ cache'.lockCount = cache.lockCount
         /\ cache'.data = d /\ cache'.ver = cache.ver /\ cache'.dirty = TRUE /\ mine' = d
<1>1. cache \in EntryType
  BY Zenon, EntryFacts
<1> QED
  BY Zenon, <1>1 DEF Modified, EntryType

\* The push handler changes bytes and version of a clean entry only.
LEMMA PushedFacts ==
  ASSUME Typed, PushEnd, push.k = "put"
  PROVE  \/ Present /\ cache.dirty /\ UNCHANGED cache
         \/ /\ cache' \in EntryType /\ Entry.dirty = FALSE
            /\ cache'.openCount = Entry.openCount /\ cache'.lockCount = Entry.lockCount
            /\ cache'.data = push.data /\ cache'.ver = push.ver /\ cache'.dirty = FALSE
<1>1. Entry \in EntryType /\ Entry.dirty \in BOOLEAN
  BY Zenon, EntryFacts DEF EntryType
<1>2. push.data \in Contents /\ push.ver \in Nat
  BY DEF Typed, DataTyped, PutType, Del, NoPush
<1>3. cache' = IF Entry.dirty THEN cache ELSE [Entry EXCEPT !.data = push.data, !.ver = push.ver]
  BY Zenon DEF PushEnd
<1>4. CASE Entry.dirty
  BY Zenon, <1>3, <1>4 DEF Entry, Fresh
<1>5. CASE ~Entry.dirty
  <2>1. Entry.dirty = FALSE
    BY Zenon, <1>1, <1>5
  <2>2. cache' = [Entry EXCEPT !.data = push.data, !.ver = push.ver]
    BY Zenon, <1>3, <1>5
  <2>3. /\ cache' \in EntryType /\ cache'.dirty = Entry.dirty
        /\ cache'.openCount = Entry.openCount /\ cache'.lockCount = Entry.lockCount
        /\ cache'.data = push.data /\ cache'.ver = push.ver
    BY Zenon, <1>1, <1>2, <2>2 DEF EntryType
  <2> QED
    BY Zenon, <2>1, <2>3
<1> QED
  BY Zenon, <1>4, <1>5

\* A flush that was answered leaves a clean entry with its counts.
LEMMA FlushedFacts ==
  ASSUME Typed, Flushed, Present
  PROVE  /\ cache' \in EntryType /\ cache'.dirty = FALSE /\ cache'.data = cache.data
         /\ cache'.openCount = cache.openCount /\ cache'.lockCount = cache.lockCount
<1> DEFINE v == IF fuse.ok /\ fuse.ver # 0 THEN fuse.ver ELSE cache.ver
<1>1. cache \in EntryType /\ v \in Nat
  BY Zenon, EntryFacts DEF EntryType, Typed, FuseTyped, FuseType
<1>2. cache' = [cache EXCEPT !.dirty = FALSE, !.ver = v]
  BY Zenon DEF Flushed
<1> HIDE DEF v
<1> QED
  BY Zenon, <1>1, <1>2 DEF EntryType

\* op_release takes one handle off the counts.
LEMMA DecrementedFacts ==
  ASSUME Typed, Present, NEW w \in BOOLEAN
  PROVE  /\ Decremented(w) \in EntryType
         /\ Decremented(w).openCount = IF cache.openCount > 0 THEN cache.openCount - 1 ELSE 0
         /\ Decremented(w).lockCount = IF w /\ cache.lockCount > 0 THEN cache.lockCount - 1
                                                                  ELSE cache.lockCount
         /\ Decremented(w).data = cache.data /\ Decremented(w).dirty = cache.dirty
         /\ Decremented(w).ver = cache.ver
<1> DEFINE l == IF w /\ cache.lockCount > 0 THEN cache.lockCount - 1 ELSE cache.lockCount
           o == IF cache.openCount > 0 THEN cache.openCount - 1 ELSE cache.openCount
<1>1. cache \in EntryType
  BY Zenon, EntryFacts
<1>2. l \in 0 .. MaxHandles /\ o \in 0 .. MaxHandles
  BY <1>1, SquidFSAssumption DEF EntryType
<1>3. Decremented(w) = [cache EXCEPT !.lockCount = l, !.openCount = o]
  BY Zenon DEF Decremented
<1>4. o = IF cache.openCount > 0 THEN cache.openCount - 1 ELSE 0
  BY <1>1, SquidFSAssumption DEF EntryType
<1> HIDE DEF l, o
<1>5. /\ Decremented(w) \in EntryType /\ Decremented(w).lockCount = l /\ Decremented(w).openCount = o
      /\ Decremented(w).data = cache.data /\ Decremented(w).dirty = cache.dirty
      /\ Decremented(w).ver = cache.ver
  BY Zenon, <1>1, <1>2, <1>3 DEF EntryType
<1> QED
  BY Zenon, <1>4, <1>5 DEF l

\* Every step keeps the data well typed.
LEMMA DataTypedStep ==
  ASSUME Typed, [Next]_vars
  PROVE  DataTyped'
<1> USE DEF envUnchanged, DataTyped
<1>a. DataTyped /\ CacheTyped /\ fuse \in FuseType /\ fuse.data \in Contents /\ fuse.ver \in Nat
  BY Zenon DEF Typed, FuseTyped, FuseType
<1>b. 0 \in Contents /\ MaxContents \in Nat /\ (next <= MaxContents => next \in Contents)
  BY <1>a, SquidFSAssumption DEF Contents
<1>c. /\ srv.ver \in Nat /\ srv.data \in Contents /\ srv.exists \in BOOLEAN
      /\ \A b \in BOOLEAN, v \in Nat, d \in Contents : [exists |-> b, ver |-> v, data |-> d] \in SrvType
      /\ \A v \in Nat, d \in Contents : [k |-> "put", ver |-> v, data |-> d] \in PutType
  BY Zenon, <1>a DEF SrvType, PutType
<1>d. ASSUME srv' \in SrvType, Reconnected
      PROVE  /\ known' \in Nat \cup {-1} /\ UNCHANGED push
             /\ channel' \in Seq(PutType \cup {Del, Cut})
             /\ events' = events \cup {"lost"}
  <2> DEFINE p == [k |-> "put", ver |-> srv'.ver, data |-> srv'.data]
  <2>1. srv'.ver \in Nat /\ p \in PutType
    BY Zenon, <1>d DEF SrvType, PutType
  <2>2. known' \in Nat \cup {-1}
    BY Zenon, <1>a, <1>d, <2>1 DEF Reconnected
  <2>3. channel' \in Seq(PutType \cup {Del, Cut})
    <3>1. channel' = <<>> \/ channel' = <<p>>
      BY Zenon, <1>d DEF Reconnected
    <3>2. p \in PutType \cup {Del, Cut}
      BY Zenon, <2>1
    <3> HIDE DEF p
    <3>3. <<>> \in Seq(PutType \cup {Del, Cut}) /\ <<p>> \in Seq(PutType \cup {Del, Cut})
      BY <3>2
    <3> QED
      BY Zenon, <3>1, <3>3
  <2> QED
    BY Zenon, <1>d, <2>2, <2>3 DEF Reconnected
<1>1. CASE Rpc
  <2>1. srv' \in SrvType /\ lock' \in {"none", "me", "other"}
    BY Zenon, <1>1, <1>a, CarryFacts DEF Rpc
  <2> QED
    BY Zenon, <1>1, <1>a, <2>1, AnsweredFacts DEF Rpc
<1>2. CASE RpcLost
  <2>1. srv' \in SrvType /\ lock' \in {"none", "me", "other"}
    BY Zenon, <1>2, <1>a, CarryFacts DEF RpcLost
  <2> QED
    BY Zenon, <1>2, <1>a, <1>d, <2>1, AnsweredFacts DEF RpcLost
<1>3. CASE Health
  BY Zenon, <1>3, <1>a, <1>d DEF Health
<1>4. CASE Expire
  BY Zenon, <1>4, <1>a DEF Expire, mountVars
<1>5. CASE OtherLock \/ OtherUnlock
  BY Zenon, <1>5, <1>a DEF OtherLock, OtherUnlock, mountVars
<1>6. CASE OtherUpdate
  <2>1. srv' \in SrvType
    <3> DEFINE v == srv.ver + 1
    <3>1. v \in Nat /\ next \in Contents /\ srv' = [srv EXCEPT !.ver = v, !.data = next]
      BY <1>6, <1>b, <1>c DEF OtherUpdate
    <3> HIDE DEF v
    <3> QED
      BY Zenon, <1>a, <3>1 DEF SrvType
  <2>2. [k |-> "put", ver |-> srv.ver + 1, data |-> next] \in PutType
    <3> DEFINE v == srv.ver + 1
    <3>1. v \in Nat /\ next \in Contents
      BY <1>6, <1>b, <1>c DEF OtherUpdate
    <3> HIDE DEF v
    <3>2. [k |-> "put", ver |-> v, data |-> next] \in PutType
      BY Zenon, <3>1 DEF PutType
    <3> QED
      BY Zenon, <3>2 DEF v
  <2>3. channel' \in Seq(PutType \cup {Del, Cut})
    BY <1>6, <1>a, <2>2 DEF OtherUpdate
  <2> QED
    BY <1>6, <1>a, <1>b, <2>1, <2>3 DEF OtherUpdate, mountVars
<1>7. CASE OtherDelete \/ OtherCreate
  <2>1. srv' \in SrvType /\ [k |-> "put", ver |-> 0, data |-> 0] \in PutType
    BY Zenon, <1>7, <1>b, <1>c DEF OtherDelete, OtherCreate
  <2>2. channel' \in Seq(PutType \cup {Del, Cut})
    <3>1. CASE OtherDelete
      BY <1>a, <3>1 DEF OtherDelete, Del
    <3>2. CASE OtherCreate
      BY <1>a, <2>1, <3>2 DEF OtherCreate
    <3> QED
      BY Zenon, <1>7, <3>1, <3>2
  <2> QED
    BY Zenon, <1>7, <1>a, <2>1, <2>2 DEF OtherDelete, OtherCreate, mountVars
<1>8. ASSUME NEW torn \in BOOLEAN, PushBegin(torn)
      PROVE  DataTyped'
  <2>1. channel # <<>>
    BY Zenon, <1>8 DEF PushBegin
  <2>2. CASE Head(channel).k = "put"
    <3>1. Head(channel) \in PutType /\ Tail(channel) \in Seq(PutType \cup {Del, Cut})
      BY Zenon, <2>1, <2>2, ChannelFacts
    <3>2. Head(channel).ver \in Nat /\ [Head(channel) EXCEPT !.data = 0] \in PutType
      BY Zenon, <1>b, <3>1 DEF PutType
    <3>3. <<Cut>> \in Seq(PutType \cup {Del, Cut})
      OBVIOUS
    <3> QED
      BY Zenon, <1>8, <1>a, <2>2, <3>1, <3>2, <3>3 DEF PushBegin
  <2>3. CASE Head(channel).k # "put"
    <3>1. Head(channel) = Del /\ Tail(channel) \in Seq(PutType \cup {Del, Cut})
      BY Zenon, <1>8, <2>1, <2>3, ChannelFacts DEF PushBegin, Cut, PutType
    <3> QED
      BY Zenon, <1>8, <1>a, <2>3, <3>1 DEF PushBegin
  <2> QED
    BY Zenon, <2>2, <2>3
<1>9. CASE PushEnd
  BY Zenon, <1>9, <1>a, <1>b, <1>c DEF PushEnd, mountVars, serverVars
<1>10. CASE \E w, t \in BOOLEAN : (t => w) /\ Open(w, t)
  BY <1>10, <1>a, <1>b, <1>c DEF Open, OpenBegin, OpenLocked, Opened, Ask, Counted, mountVars, serverVars
<1>11. CASE OpenAcquired
  BY Zenon, <1>11, <1>a, <1>b, <1>c DEF OpenAcquired, AnsweredTo, OpenLocked, Opened, Ask, Evicted, mountVars, serverVars
<1>12. CASE OpenFetched
  BY Zenon, <1>12, <1>a, <1>b, <1>c DEF OpenFetched, AnsweredTo, Fetched, FetchEvents, Opened, Ask, Evicted, mountVars, serverVars
<1>13. CASE Released
  BY Zenon, <1>13, <1>a, <1>b, <1>c DEF Released, Evicted, mountVars, serverVars
<1>14. CASE Lookup
  BY Zenon, <1>14, <1>a, <1>b, <1>c DEF Lookup, mountVars, serverVars
<1>15. CASE \E t \in BOOLEAN : Create(t)
  BY <1>15, <1>a, <1>b, <1>c DEF Create, OpenBegin, OpenLocked, Opened, Ask, Counted, mountVars, serverVars
<1>16. CASE Created
  BY Zenon, <1>16, <1>a, <1>b, <1>c DEF Created, AnsweredTo, Ask, mountVars, serverVars
<1>17. CASE CreateLocked
  BY Zenon, <1>17, <1>a, <1>b, <1>c DEF CreateLocked, AnsweredTo, Ask, Fresh, mountVars, serverVars
<1>18. CASE CreateUndone
  BY Zenon, <1>18, <1>a, <1>b, <1>c DEF CreateUndone, AnsweredTo, mountVars, serverVars
<1>19. CASE Read
  BY Zenon, <1>19, <1>a, <1>b, <1>c DEF Read, Ask, mountVars, serverVars
<1>20. CASE ReadFetched
  BY Zenon, <1>20, <1>a, <1>b, <1>c DEF ReadFetched, AnsweredTo, Fetched, FetchEvents, mountVars, serverVars
<1>21. CASE Write
  BY <1>21, <1>a, <1>b, <1>c DEF Write, Counted, Modified, mountVars, serverVars
<1>22. CASE Truncate
  BY <1>22, <1>a, <1>b, <1>c DEF Truncate, Counted, Modified, mountVars, serverVars
<1>23. CASE \E w \in BOOLEAN : Release(w)
  BY Zenon, <1>23, <1>a, <1>b, <1>c DEF Release, Decremented, Ask, mountVars, serverVars
<1>24. CASE Flushed
  BY Zenon, <1>24, <1>a, <1>b, <1>c DEF Flushed, AnsweredTo, Ask, mountVars, serverVars
<1>25. CASE Dropped
  BY Zenon, <1>25, <1>a, <1>b, <1>c DEF Dropped, AnsweredTo, mountVars, serverVars
<1>26. CASE Unlink
  BY Zenon, <1>26, <1>a, <1>b, <1>c DEF Unlink, Ask, mountVars, serverVars
<1>27. CASE Unlinked
  BY Zenon, <1>27, <1>a, <1>b, <1>c DEF Unlinked, AnsweredTo, mountVars, serverVars
<1>28. CASE UNCHANGED vars
  BY Zenon, <1>28, <1>a DEF vars, mountVars, serverVars
<1> QED
  BY Zenon, <1>1, <1>2, <1>3, <1>4, <1>5, <1>6, <1>7, <1>8, <1>9, <1>10, <1>11, <1>12, <1>13, <1>14, <1>15,
     <1>16, <1>17, <1>18, <1>19, <1>20, <1>21, <1>22, <1>23, <1>24, <1>25, <1>26, <1>27, <1>28 DEF Next

\* Every step keeps the counts below the handles.
LEMMA CacheTypedStep ==
  ASSUME Typed, FuseTyped', [Next]_vars
  PROVE  CacheTyped'
<1> USE DEF envUnchanged
<1>a. /\ wr \in Nat /\ ro \in Nat /\ wr + ro <= MaxHandles /\ MaxHandles \in Nat
      /\ cache = NoEntry \/ cache \in EntryType
      /\ Present => cache \in EntryType /\ cache.openCount <= wr + ro /\ cache.lockCount <= wr
      /\ Opening => wr + ro < MaxHandles
      /\ fuse \in FuseType /\ fuse' \in FuseType
  BY Zenon, SquidFSAssumption, EntryFacts DEF Typed, CacheTyped, FuseTyped
<1>n. wr \in Nat /\ ro \in Nat /\ MaxHandles \in Nat /\ wr + ro <= MaxHandles
  BY Zenon, <1>a
<1>b. /\ Entry \in EntryType /\ Fresh \in EntryType /\ NoEntry \notin EntryType
      /\ Entry.openCount <= wr + ro /\ Entry.lockCount <= wr
  BY Zenon, EntryFacts
\* The entry is left alone, filled or erased, and no handle comes or goes.
<1>c. ASSUME UNCHANGED <<wr, ro>>, Opening' => wr + ro < MaxHandles,
             \/ UNCHANGED cache
             \/ cache' = NoEntry
             \/ /\ cache' \in EntryType
                /\ cache'.openCount = Entry.openCount /\ cache'.lockCount = Entry.lockCount
      PROVE  CacheTyped'
  BY Zenon, <1>a, <1>b, <1>c DEF CacheTyped, Present
\* A handle comes.
<1>d. ASSUME cache' \in EntryType, fuse' = Idle, wr' + ro' = wr + ro + 1, wr' \in Nat, ro' \in Nat,
             cache'.openCount <= wr' + ro', cache'.lockCount <= wr', wr + ro < MaxHandles
      PROVE  CacheTyped'
  <2>1. wr' + ro' <= MaxHandles
    <3>1. wr' + ro' = wr + ro + 1 /\ wr + ro < MaxHandles
      BY Zenon, <1>d
    <3> QED
      BY <1>n, <3>1
  <2>2. ~Opening'
    BY Zenon, <1>d, IdleFacts DEF Opening
  <2> QED
    BY Zenon, <1>d, <2>1, <2>2 DEF CacheTyped
\* op_open from a callback f that may add a handle.
<1>e. ASSUME NEW f \in FuseType, NEW e \in EntryType, f.op = "open", wr + ro < MaxHandles,
             e.openCount = Entry.openCount, e.lockCount = Entry.lockCount,
             \/ OpenLocked(e, f)
             \/ cache' = e /\ UNCHANGED <<wr, ro>>
      PROVE  CacheTyped'
  <2>1. CASE cache' = e /\ UNCHANGED <<wr, ro>>
    BY Zenon, <2>1, <1>c, <1>e
  <2>2. CASE Opened(e, f)
    <3>1. e.openCount \in Nat /\ e.lockCount \in Nat
      BY <1>a, <1>e DEF EntryType
    <3> QED
      BY <2>2, <3>1, <1>a, <1>b, <1>d, <1>e, OpenedFacts
  <2> QED
    BY Zenon, <2>1, <2>2, <1>e DEF OpenLocked
<1>1. CASE Rpc \/ RpcLost
  <2>1. srv' \in SrvType
    BY Zenon, <1>1, CarryFacts DEF Rpc, RpcLost, Typed, DataTyped
  <2>2. PICK ok \in BOOLEAN : Answered(ok)
    BY Zenon, <1>1 DEF Rpc, RpcLost
  <2>3. fuse'.op = fuse.op
    BY Zenon, <2>1, <2>2, AnsweredFacts
  <2> QED
    BY Zenon, <1>1, <1>a, <1>c, <2>3 DEF Rpc, RpcLost, Opening
<1>2. CASE Health \/ Expire \/ OtherLock \/ OtherUpdate \/ OtherUnlock \/ OtherDelete \/ OtherCreate
           \/ (\E torn \in BOOLEAN : PushBegin(torn)) \/ UNCHANGED vars
  BY Zenon, <1>2, <1>a, <1>c DEF Health, Expire, OtherLock, OtherUpdate, OtherUnlock, OtherDelete,
                          OtherCreate, PushBegin, vars, mountVars, Opening
<1>3. CASE PushEnd
  <2>1. UNCHANGED <<fuse, wr, ro>> /\ (push.k = "put" \/ UNCHANGED cache)
    BY Zenon, <1>3 DEF PushEnd
  <2> QED
    BY Zenon, <1>3, <1>a, <1>c, <2>1, PushedFacts DEF Opening
<1>4. ASSUME NEW w \in BOOLEAN, NEW t \in BOOLEAN, wr + ro < MaxHandles,
             OpenBegin([Idle EXCEPT !.op = "open", !.w = w, !.t = t])
      PROVE  CacheTyped'
  <2> DEFINE f == [Idle EXCEPT !.op = "open", !.w = w, !.t = t]
  <2>1. f \in FuseType /\ f.op = "open"
    BY Zenon, IdleFacts DEF FuseType, Callbacks
  <2>2. OpenLocked(Entry, f) \/ (cache' = Entry /\ UNCHANGED <<wr, ro>>)
    BY Zenon, <1>4 DEF OpenBegin
  <2> HIDE DEF f
  <2> QED
    BY Zenon, <2>1, <2>2, <1>4, <1>b, <1>e
<1>5. CASE OpenAcquired
  <2>1. fuse.op = "open" /\ wr + ro < MaxHandles
    BY Zenon, <1>5, <1>a DEF OpenAcquired, AnsweredTo, Opening
  <2>2. CASE OpenLocked(cache, fuse) /\ Present
    BY Zenon, <2>1, <2>2, <1>a, <1>e DEF Entry
  <2>3. CASE UNCHANGED <<wr, ro>> /\ cache' \in {cache, NoEntry}
    BY Zenon, <2>1, <2>3, <1>c
  <2> QED
    BY Zenon, <1>5, <2>2, <2>3 DEF OpenAcquired, Evicted
<1>6. CASE OpenFetched
  <2>1. fuse.op = "open" /\ wr + ro < MaxHandles
    BY Zenon, <1>6, <1>a DEF OpenFetched, AnsweredTo, Opening
  <2>2. CASE Opened(Fetched, fuse)
    <3>1. Fetched.openCount \in Nat /\ Fetched.lockCount \in Nat
      BY FetchedFacts, <1>a DEF EntryType
    <3> QED
      BY <2>1, <2>2, <3>1, <1>a, <1>b, <1>d, FetchedFacts, OpenedFacts
  <2>3. CASE UNCHANGED <<wr, ro>> /\ cache' \in {cache, NoEntry}
    BY Zenon, <2>1, <2>3, <1>c
  <2> QED
    BY Zenon, <1>6, <2>2, <2>3 DEF OpenFetched, Evicted
<1>7. CASE Released \/ Unlinked
  BY Zenon, <1>7, <1>c, IdleFacts DEF Released, Unlinked, Evicted, Opening
<1>8. CASE Lookup
  BY Zenon, <1>8, <1>c DEF Lookup
<1>9. ASSUME NEW t \in BOOLEAN, Create(t)
      PROVE  CacheTyped'
  <2>1. wr + ro < MaxHandles
    BY Zenon, <1>9, <1>a DEF Create, Opening
  <2> QED
    BY Zenon, <1>9, <2>1, <1>4, <1>c DEF Create
<1>10. CASE Created \/ CreateUndone
  BY Zenon, <1>10, <1>a, <1>c, AskFacts, IdleFacts DEF Created, CreateUndone, AnsweredTo, Opening
<1>11. CASE CreateLocked
  <2>1. fuse.op = "create" /\ wr + ro < MaxHandles
    BY Zenon, <1>11, <1>a DEF CreateLocked, AnsweredTo, Opening
  <2>2. CASE fuse.ok
    <3>1. /\ cache' = [Fresh EXCEPT !.lockCount = 1, !.openCount = 1]
          /\ wr' = wr + 1 /\ ro' = ro /\ fuse' = Idle
      BY Zenon, <1>11, <2>2 DEF CreateLocked
    <3>a. 1 \in 0 .. MaxHandles
      BY <2>1, <1>a
    <3>2. cache' \in EntryType /\ cache'.lockCount = 1 /\ cache'.openCount = 1
      BY Zenon, <3>1, <3>a, <1>b DEF EntryType
    <3> QED
      BY <2>1, <3>1, <3>2, <1>a, <1>d
  <2>3. CASE ~fuse.ok
    BY Zenon, <1>11, <2>1, <2>3, <1>c DEF CreateLocked
  <2> QED
    BY Zenon, <2>2, <2>3
<1>12. CASE Read
  <2>1. fuse'.op = "read"
    BY Zenon, <1>12, IdleFacts DEF Read, Ask, FuseType
  <2> QED
    BY Zenon, <1>12, <2>1, <1>b, <1>c DEF Read, Opening
<1>13. CASE ReadFetched
  BY Zenon, <1>13, <1>c, FetchedFacts, IdleFacts DEF ReadFetched, Opening
<1>14. CASE Write \/ Truncate
  <2>1. PICK d \in Contents : Present /\ Modified(d)
    BY <1>14, SquidFSAssumption DEF Write, Truncate, Counted, Contents, Typed, DataTyped
  <2>2. UNCHANGED <<fuse, wr, ro>>
    BY Zenon, <1>14 DEF Write, Truncate
  <2> QED
    BY Zenon, <2>1, <2>2, <1>a, <1>c, ModifiedFacts DEF Opening, Entry
<1>15. ASSUME NEW w \in BOOLEAN, Release(w)
       PROVE  CacheTyped'
  <2>1. \/ w /\ wr > 0 /\ wr' = wr - 1 /\ ro' = ro
        \/ ~w /\ ro > 0 /\ ro' = ro - 1 /\ wr' = wr
    BY Zenon, <1>15 DEF Release
  <2>2. wr' \in Nat /\ ro' \in Nat /\ wr' + ro' = wr + ro - 1 /\ wr' + ro' < MaxHandles
    BY <2>1, <1>a
  <2>a. wr' + ro' <= MaxHandles
    BY <2>1, <1>n
  <2>3. \/ ~Present /\ cache' = cache
        \/ cache' = NoEntry
        \/ Present /\ cache' = Decremented(w)
    BY Zenon, <1>15 DEF Release
  <2>4. CASE Present /\ cache' = Decremented(w)
    <3>1. cache.openCount \in Nat /\ cache.lockCount \in Nat
      BY <2>4, <1>a DEF EntryType
    <3>2. /\ cache' \in EntryType
          /\ cache'.openCount = IF cache.openCount > 0 THEN cache.openCount - 1 ELSE 0
          /\ cache'.lockCount = IF w /\ cache.lockCount > 0 THEN cache.lockCount - 1 ELSE cache.lockCount
      BY Zenon, <2>4, DecrementedFacts
    <3>3. cache'.openCount <= wr' + ro' /\ cache'.lockCount <= wr'
      BY <2>1, <2>2, <2>4, <3>1, <3>2, <1>a
    <3> QED
      BY Zenon, <2>2, <2>a, <3>2, <3>3 DEF CacheTyped
  <2>5. CASE cache' = NoEntry
    BY Zenon, <2>2, <2>a, <2>5 DEF CacheTyped, Present
  <2> QED
    BY Zenon, <2>3, <2>4, <2>5 DEF Present
<1>16. CASE Flushed
  <2>1. fuse'.op = "release"
    BY Zenon, <1>16, <1>a, AskFacts DEF Flushed, AnsweredTo, Rpcs
  <2>2. CASE Present
    BY Zenon, <1>16, <2>1, <2>2, <1>c, FlushedFacts DEF Flushed, Opening, Entry
  <2>3. CASE ~Present
    BY Zenon, <1>16, <2>1, <2>3, <1>c DEF Flushed, Opening
  <2> QED
    BY Zenon, <2>2, <2>3
<1>17. CASE Dropped
  BY Zenon, <1>17, <1>c, IdleFacts DEF Dropped, Opening
<1>18. CASE Unlink
  <2>1. fuse'.op = "unlink"
    BY Zenon, <1>18, IdleFacts DEF Unlink, Ask, FuseType
  <2> QED
    BY Zenon, <1>18, <2>1, <1>c DEF Unlink, Opening
<1> QED
  BY Zenon, <1>1, <1>2, <1>3, <1>4, <1>5, <1>6, <1>7, <1>8, <1>9, <1>10, <1>11, <1>12, <1>13, <1>14, <1>15,
     <1>16, <1>17, <1>18 DEF Next, Open

\* Types are an inductive invariant.
LEMMA TypedInvariant == Spec => []Typed
<1>1. Init => Typed
  <2> SUFFICES ASSUME Init PROVE Typed
    BY Zenon
  <2>1. FuseTyped
    BY Zenon, IdleFacts DEF Init, FuseTyped, Control
  <2>2. DataTyped
    <3>1. 0 \in Contents /\ 1 \in Contents /\ 2 \in 2 .. MaxContents + 1
      BY SquidFSAssumption DEF Contents
    <3>2. srv \in SrvType /\ known \in Nat \cup {-1}
      BY <3>1 DEF Init, SrvType
    <3> QED
      BY <3>1, <3>2 DEF Init, DataTyped
  <2>3. CacheTyped
    <3>1. ~Opening
      BY Zenon, IdleFacts DEF Init, Opening
    <3> QED
      BY <3>1, SquidFSAssumption DEF Init, CacheTyped, Present
  <2> QED
    BY Zenon, <2>1, <2>2, <2>3 DEF Typed
<1>2. Typed /\ [Next]_vars => Typed'
  BY Zenon, FuseTypedStep, DataTypedStep, CacheTypedStep DEF Typed
<1> QED
  BY <1>1, <1>2, PTL DEF Spec

\* The state is well typed, and the counts of an entry stay below the open
\* handles, whatever erases the entry in between.
THEOREM TypeCorrect == Spec => []TypeOK
<1>1. Typed => TypeOK
  <2> SUFFICES ASSUME Typed PROVE TypeOK
    BY Zenon
  <2>1. wr \in 0 .. MaxHandles /\ ro \in 0 .. MaxHandles
    BY SquidFSAssumption DEF Typed, CacheTyped
  <2> QED
    BY Zenon, <2>1 DEF Typed, CacheTyped, DataTyped, TypeOK, EntryType, Contents
<1> QED
  BY <1>1, TypedInvariant, PTL

-----------------------------------------------------------------------------
(* Counts and handles.                                                     *)

\* What happened stays in the history.
LEMMA EventsGrow ==
  ASSUME [Next]_vars
  PROVE  events \subseteq events'
BY Zenon DEF Next, Rpc, RpcLost, Reconnected, Health, Expire, OtherLock, OtherUpdate, OtherUnlock, OtherDelete,
   OtherCreate, PushBegin, PushEnd, Open, OpenAcquired, OpenFetched, Released, Lookup, Create,
   Created, CreateLocked, CreateUndone, Read, ReadFetched, Write, Truncate, Release, Flushed,
   Dropped, Unlink, Unlinked, vars, mountVars

\* No delete is on its way, and no callback meets one.
LEMMA NoDeleteStep ==
  ASSUME Typed, Typed', NoDelete, EntryCounts, [Next]_vars, "deleted" \notin events'
  PROVE  NoDelete'
<1> USE DEF envUnchanged
<1>a. channel \in Seq(PutType \cup {Cut}) /\ push # Del /\ fuse.op \notin {"drop", "unlink"}
  BY Zenon DEF NoDelete
<1>b. fuse \in FuseType /\ Idle.op = "idle" /\ srv' \in SrvType
  BY Zenon, IdleFacts DEF Typed, FuseTyped, DataTyped
<1>c. Del \notin PutType \cup {Cut}
  BY Zenon DEF Del, PutType, Cut
\* The callbacks of this mount.
<1>1. fuse'.op \notin {"drop", "unlink"}
  <2>1. CASE fuse' = Idle \/ UNCHANGED fuse
    BY Zenon, <2>1, <1>a, <1>b
  <2>2. CASE Rpc \/ RpcLost
    BY Zenon, <2>2, <1>a, <1>b, AnsweredFacts DEF Rpc, RpcLost
  <2>3. ASSUME NEW f \in FuseType, NEW r \in Rpcs, Ask(f, r), f.op \notin {"drop", "unlink"}
        PROVE  fuse'.op \notin {"drop", "unlink"}
    BY Zenon, <2>3, AskFacts
  <2>4. CASE OpenAcquired \/ OpenFetched \/ Created \/ CreateLocked \/ Flushed
    BY Zenon, <2>4, <1>a, <1>b, <2>1, <2>3
    DEF OpenAcquired, OpenFetched, Created, CreateLocked, Flushed, OpenLocked, Opened, Rpcs
  <2>5. ASSUME NEW w \in BOOLEAN, NEW t \in BOOLEAN,
               OpenBegin([Idle EXCEPT !.op = "open", !.w = w, !.t = t])
        PROVE  fuse'.op \notin {"drop", "unlink"}
    <3> DEFINE f == [Idle EXCEPT !.op = "open", !.w = w, !.t = t]
    <3>1. f \in FuseType /\ f.op = "open"
      BY Zenon, IdleFacts DEF FuseType, Callbacks
    <3>2. Ask(f, "ACQUIRE") \/ Ask(f, "READ") \/ fuse' = Idle
      BY Zenon, <2>5 DEF OpenBegin, OpenLocked, Opened
    <3> HIDE DEF f
    <3> QED
      BY Zenon, <3>1, <3>2, <2>1, <2>3 DEF Rpcs
  <2>6. ASSUME NEW t \in BOOLEAN, Create(t)
        PROVE  fuse'.op \notin {"drop", "unlink"}
    <3>1. CASE Ask([Idle EXCEPT !.op = "create", !.w = TRUE], "CREATE")
      BY Zenon, <3>1, IdleFacts DEF Ask, FuseType
    <3>2. CASE fuse' = [fuse EXCEPT !.op = "stuck"]
      BY Zenon, <3>2, <1>b DEF FuseType
    <3> QED
      BY Zenon, <2>6, <2>5, <3>1, <3>2 DEF Create
  <2>7. CASE Lookup \/ Read
    BY Zenon, <2>7, IdleFacts DEF Lookup, Read, Ask, FuseType
  <2>8. ASSUME NEW w \in BOOLEAN, Release(w)
        PROVE  fuse'.op \notin {"drop", "unlink"}
    <3>1. Present
      BY <2>8 DEF Release, EntryCounts, Typed, CacheTyped
    <3> DEFINE f == [Idle EXCEPT !.op = "release", !.w = w]
               e == Decremented(w)
    <3>2. \/ Ask([f EXCEPT !.data = e.data, !.ver = e.ver], "UPDATE")
          \/ Ask(f, "RELEASE")
          \/ fuse' = Idle
      BY Zenon, <2>8, <3>1 DEF Release
    <3>3. CASE Ask([f EXCEPT !.data = e.data, !.ver = e.ver], "UPDATE") \/ Ask(f, "RELEASE")
      BY Zenon, <3>3, IdleFacts DEF Ask, FuseType
    <3> QED
      BY Zenon, <3>2, <3>3, <2>1
  <2>9. CASE Unlink
    BY Zenon, <2>9 DEF Unlink
  <2>10. CASE Released \/ CreateUndone \/ ReadFetched \/ Dropped \/ Unlinked
    BY Zenon, <2>10, <2>1 DEF Released, CreateUndone, ReadFetched, Dropped, Unlinked
  <2>11. CASE Health \/ Expire \/ OtherLock \/ OtherUpdate \/ OtherUnlock \/ OtherDelete \/ OtherCreate
              \/ (\E torn \in BOOLEAN : PushBegin(torn)) \/ PushEnd \/ Write \/ Truncate \/ UNCHANGED vars
    BY Zenon, <2>11, <2>1 DEF Health, Expire, OtherLock, OtherUpdate, OtherUnlock, OtherDelete, OtherCreate,
                       PushBegin, PushEnd, Write, Truncate, vars, mountVars
  <2> QED
    BY Zenon, <2>2, <2>4, <2>5, <2>6, <2>7, <2>8, <2>9, <2>10, <2>11 DEF Next, Open
\* The connection.
<1>2. channel' \in Seq(PutType \cup {Cut}) /\ push' # Del
  <2>1. CASE UNCHANGED <<channel, push>>
    BY Zenon, <2>1, <1>a
  <2>2. CASE RpcLost \/ Health
    <3> DEFINE p == [k |-> "put", ver |-> srv'.ver, data |-> srv'.data]
    <3>1. p \in PutType \cup {Cut}
      BY Zenon, <1>b DEF SrvType, PutType
    <3>2. (channel' = <<>> \/ channel' = <<p>>) /\ UNCHANGED push
      BY Zenon, <2>2 DEF RpcLost, Health, Reconnected
    <3> HIDE DEF p
    <3>3. <<>> \in Seq(PutType \cup {Cut}) /\ <<p>> \in Seq(PutType \cup {Cut})
      BY <3>1
    <3> QED
      BY Zenon, <3>2, <3>3, <1>a
  <2>3. CASE OtherUpdate \/ OtherCreate
    <3>1. PICK v \in Nat, d \in Contents : channel' = Append(channel, [k |-> "put", ver |-> v, data |-> d])
      <4>1. 0 \in Contents /\ srv.ver + 1 \in Nat
        BY SquidFSAssumption DEF Contents, Typed, DataTyped, SrvType
      <4>2. next <= MaxContents => next \in Contents
        BY SquidFSAssumption DEF Contents, Typed, DataTyped
      <4> QED
        BY Zenon, <2>3, <4>1, <4>2 DEF OtherUpdate, OtherCreate
    <3>2. [k |-> "put", ver |-> v, data |-> d] \in PutType \cup {Cut}
      BY Zenon DEF PutType
    <3>3. channel' \in Seq(PutType \cup {Cut})
      BY <3>1, <3>2, <1>a
    <3> QED
      BY Zenon, <2>3, <3>3, <1>a DEF OtherUpdate, OtherCreate
  <2>4. CASE OtherDelete
    BY Zenon, <2>4 DEF OtherDelete
  <2>5. ASSUME NEW torn \in BOOLEAN, PushBegin(torn)
        PROVE  channel' \in Seq(PutType \cup {Cut}) /\ push' # Del
    <3>1. Head(channel) \in PutType /\ Tail(channel) \in Seq(PutType \cup {Cut})
      BY <2>5, <1>a DEF PushBegin
    <3>2. Head(channel).k = "put" /\ [Head(channel) EXCEPT !.data = 0].k = "put"
      BY Zenon, <3>1 DEF PutType
    <3>3. push' # Del
      BY <2>5, <3>2 DEF PushBegin, Del
    <3>4. <<Cut>> \in Seq(PutType \cup {Cut})
      OBVIOUS
    <3> QED
      BY Zenon, <2>5, <3>1, <3>2, <3>3, <3>4 DEF PushBegin
  <2>6. CASE PushEnd
    BY Zenon, <2>6, <1>a DEF PushEnd, serverVars, Del, NoPush
  <2>7. CASE Rpc \/ Expire \/ OtherLock \/ OtherUnlock \/ UNCHANGED vars
    BY Zenon, <2>7, <2>1 DEF Rpc, Expire, OtherLock, OtherUnlock, vars, serverVars
  <2>8. CASE OpenAcquired \/ OpenFetched \/ Released \/ Lookup \/ (\E t \in BOOLEAN : Create(t))
             \/ (\E w, t \in BOOLEAN : (t => w) /\ Open(w, t))
             \/ Created \/ CreateLocked \/ CreateUndone \/ Read \/ ReadFetched \/ Write \/ Truncate
             \/ (\E w \in BOOLEAN : Release(w)) \/ Flushed \/ Dropped \/ Unlink \/ Unlinked
    BY Zenon, <2>8, <2>1 DEF Open, OpenAcquired, OpenFetched, Released, Lookup, Create, Created, CreateLocked,
       CreateUndone, Read, ReadFetched, Write, Truncate, Release, Flushed, Dropped, Unlink, Unlinked
  <2> QED
    BY Zenon, <2>2, <2>3, <2>4, <2>5, <2>6, <2>7, <2>8 DEF Next
<1> QED
  BY Zenon, <1>1, <1>2 DEF NoDelete

\* The counts follow the handles through every callback.
LEMMA CountsStep ==
  ASSUME Typed, Typed', NoDelete, EntryCounts, FirstHandle, [Next]_vars, "deleted" \notin events'
  PROVE  EntryCounts' /\ FirstHandle'
<1> USE DEF envUnchanged
<1>a. wr \in Nat /\ ro \in Nat /\ wr' \in Nat /\ ro' \in Nat
  BY Zenon DEF Typed, CacheTyped
<1>b. /\ Entry \in EntryType /\ NoEntry \notin EntryType /\ fuse \in FuseType
      /\ Present => cache \in EntryType
  BY Zenon, EntryFacts DEF Typed, FuseTyped
<1>c. Entry.openCount = wr + ro /\ Entry.lockCount = wr
  BY <1>a DEF EntryCounts, Entry, Fresh
\* The entry is left alone or filled, and no handle comes or goes.
<1>d. ASSUME UNCHANGED <<wr, ro>>,
             \/ UNCHANGED cache
             \/ /\ cache' \in EntryType
                /\ cache'.openCount = Entry.openCount /\ cache'.lockCount = Entry.lockCount
      PROVE  EntryCounts' /\ (Present => Present')
  BY Zenon, <1>b, <1>c, <1>d DEF EntryCounts, Present
\* An entry without handles is erased.
<1>e. ASSUME UNCHANGED <<wr, ro>>, cache' = Evicted
      PROVE  EntryCounts'
  BY Zenon, <1>a, <1>e DEF EntryCounts, Evicted, Present
\* A callback that ends, or opens no handle, leaves nothing to FirstHandle.
<1>f. ASSUME fuse'.op \notin {"lookup", "create", "open"}
      PROVE  FirstHandle'
  BY Zenon, <1>f DEF FirstHandle
\* A handle comes.
<1>g. ASSUME NEW e \in EntryType, NEW f \in FuseType, Opened(e, f), wr + ro < MaxHandles,
             e.openCount = Entry.openCount, e.lockCount = Entry.lockCount
      PROVE  EntryCounts' /\ FirstHandle'
  <2>1. /\ cache' \in EntryType /\ cache'.openCount = wr + ro + 1 /\ fuse' = Idle
        /\ \/ cache'.lockCount = wr + 1 /\ wr' = wr + 1 /\ ro' = ro
           \/ cache'.lockCount = wr /\ wr' = wr /\ ro' = ro + 1
    BY <1>a, <1>c, <1>g, OpenedFacts
  <2>2. FirstHandle'
    BY Zenon, <2>1, <1>f, IdleFacts
  <2>3. cache'.openCount = wr' + ro' /\ cache'.lockCount = wr'
    <3>1. wr' + ro' = wr + ro + 1
      <4>1. CASE wr' = wr + 1 /\ ro' = ro
        BY <4>1, <1>a
      <4>2. CASE wr' = wr /\ ro' = ro + 1
        BY <4>2, <1>a
      <4> QED
        BY Zenon, <2>1, <4>1, <4>2
    <3> QED
      BY Zenon, <2>1, <3>1
  <2> QED
    BY Zenon, <2>1, <2>2, <2>3, <1>b DEF EntryCounts, Present
\* op_open from a callback f, with the entry e of cache_[r].
<1>h. ASSUME NEW e \in EntryType, NEW f \in FuseType, f.op = "open", OpenLocked(e, f), wr + ro < MaxHandles,
             e.openCount = Entry.openCount, e.lockCount = Entry.lockCount
      PROVE  EntryCounts' /\ FirstHandle'
  <2>1. CASE Opened(e, f)
    BY Zenon, <2>1, <1>g, <1>h
  <2>2. CASE e.openCount = 0 /\ cache' = e /\ Ask(f, "READ") /\ UNCHANGED <<wr, ro>>
    <3>1. EntryCounts' /\ Present' /\ wr' + ro' = 0
      BY Zenon, <2>2, <1>b, <1>c, <1>d, <1>h DEF Present
    <3>2. fuse'.op = "open"
      BY Zenon, <2>2, <1>h, AskFacts DEF Rpcs
    <3> QED
      BY Zenon, <3>1, <3>2 DEF FirstHandle
  <2> QED
    BY Zenon, <2>1, <2>2, <1>h DEF OpenLocked
<1>1. CASE Rpc \/ RpcLost
  <2>1. fuse'.op = fuse.op /\ fuse'.rpc = fuse.rpc
    BY Zenon, <1>1, AnsweredFacts DEF Rpc, RpcLost, Typed, DataTyped
  <2>2. UNCHANGED <<cache, wr, ro>>
    BY Zenon, <1>1 DEF Rpc, RpcLost
  <2> QED
    BY Zenon, <2>1, <2>2, <1>d DEF FirstHandle
<1>2. CASE Health \/ Expire \/ OtherLock \/ OtherUpdate \/ OtherUnlock \/ OtherDelete \/ OtherCreate
           \/ UNCHANGED vars
  <2>1. UNCHANGED <<cache, fuse, wr, ro>>
    BY Zenon, <1>2 DEF Health, Expire, OtherLock, OtherUpdate, OtherUnlock, OtherDelete, OtherCreate, vars, mountVars
  <2> QED
    BY Zenon, <2>1, <1>d DEF FirstHandle
<1>3. ASSUME NEW torn \in BOOLEAN, PushBegin(torn)
      PROVE  EntryCounts' /\ FirstHandle'
  <2>1. Head(channel) \in PutType
    BY <1>3 DEF PushBegin, NoDelete
  <2>2. UNCHANGED <<cache, fuse, wr, ro>>
    BY Zenon, <1>3, <2>1 DEF PushBegin, PutType
  <2> QED
    BY Zenon, <2>2, <1>d DEF FirstHandle
<1>4. CASE PushEnd
  <2>1. UNCHANGED <<fuse, wr, ro>> /\ (push.k = "put" \/ UNCHANGED cache)
    BY Zenon, <1>4 DEF PushEnd
  <2>2. EntryCounts' /\ (Present => Present')
    BY Zenon, <1>4, <2>1, <1>d, PushedFacts
  <2> QED
    BY Zenon, <2>1, <2>2 DEF FirstHandle
<1>5. ASSUME NEW w \in BOOLEAN, NEW t \in BOOLEAN, wr + ro < MaxHandles,
             OpenBegin([Idle EXCEPT !.op = "open", !.w = w, !.t = t])
      PROVE  EntryCounts' /\ FirstHandle'
  <2> DEFINE f == [Idle EXCEPT !.op = "open", !.w = w, !.t = t]
  <2>1. f \in FuseType /\ f.op = "open"
    BY Zenon, IdleFacts DEF FuseType, Callbacks
  <2>2. \/ OpenLocked(Entry, f)
        \/ cache' = Entry /\ UNCHANGED <<wr, ro>> /\ Ask(f, "ACQUIRE")
    BY Zenon, <1>5 DEF OpenBegin
  <2> HIDE DEF f
  <2>3. CASE cache' = Entry /\ UNCHANGED <<wr, ro>> /\ Ask(f, "ACQUIRE")
    <3>1. EntryCounts' /\ Present'
      BY Zenon, <2>3, <1>b, <1>d DEF Present
    <3>2. fuse'.op = "open" /\ fuse'.rpc = "ACQUIRE"
      BY Zenon, <2>1, <2>3, AskFacts DEF Rpcs
    <3> QED
      BY Zenon, <3>1, <3>2 DEF FirstHandle
  <2> QED
    BY Zenon, <2>1, <2>2, <2>3, <1>5, <1>b, <1>h
<1>6. CASE OpenAcquired
  <2>1. fuse.op = "open" /\ wr + ro < MaxHandles /\ Present
    BY Zenon, <1>6 DEF OpenAcquired, AnsweredTo, Opening, Typed, CacheTyped, FirstHandle
  <2>2. CASE OpenLocked(cache, fuse)
    BY Zenon, <2>1, <2>2, <1>b, <1>h DEF Entry
  <2>3. CASE UNCHANGED <<wr, ro>> /\ cache' = Evicted /\ fuse' = Idle
    BY Zenon, <2>3, <1>e, <1>f, IdleFacts
  <2> QED
    BY Zenon, <1>6, <2>1, <2>2, <2>3 DEF OpenAcquired
<1>7. CASE OpenFetched
  <2>1. fuse.op = "open" /\ wr + ro < MaxHandles /\ Present /\ wr + ro = 0
    BY Zenon, <1>7 DEF OpenFetched, AnsweredTo, Opening, Typed, CacheTyped, FirstHandle
  <2>2. CASE Opened(Fetched, fuse)
    BY Zenon, <2>1, <2>2, <1>b, <1>g, FetchedFacts
  <2>3. CASE UNCHANGED <<cache, wr, ro>> /\ Ask(fuse, "RELEASE")
    <3>1. EntryCounts' /\ Present'
      BY Zenon, <2>1, <2>3, <1>d
    <3>2. fuse'.op = "open" /\ fuse'.rpc = "RELEASE"
      BY Zenon, <2>1, <2>3, <1>b, AskFacts DEF Rpcs
    <3> QED
      BY Zenon, <3>1, <3>2 DEF FirstHandle
  <2>4. CASE UNCHANGED <<wr, ro>> /\ cache' = Evicted /\ fuse' = Idle
    BY Zenon, <2>4, <1>e, <1>f, IdleFacts
  <2> QED
    BY Zenon, <1>7, <2>2, <2>3, <2>4 DEF OpenFetched
<1>8. CASE Released
  BY Zenon, <1>8, <1>e, <1>f, IdleFacts DEF Released
<1>9. CASE Lookup
  <2>1. ~Present /\ UNCHANGED <<cache, wr, ro>>
    BY Zenon, <1>9 DEF Lookup, Visible
  <2>2. fuse'.op = "lookup"
    BY Zenon, <1>9, IdleFacts DEF Lookup, FuseType
  <2> QED
    BY Zenon, <2>1, <2>2, <1>d DEF EntryCounts, FirstHandle
<1>10. ASSUME NEW t \in BOOLEAN, Create(t)
       PROVE  EntryCounts' /\ FirstHandle'
  <2>1. fuse.op = "lookup" /\ wr + ro < MaxHandles /\ wr + ro = 0
    BY Zenon, <1>10 DEF Create, Opening, Typed, CacheTyped, FirstHandle
  <2>2. CASE UNCHANGED <<cache, wr, ro>> /\ fuse' = [fuse EXCEPT !.op = "stuck"]
    <3>1. fuse'.op = "stuck"
      BY Zenon, <2>2, <1>b DEF FuseType
    <3> QED
      BY Zenon, <2>2, <3>1, <1>d, <1>f
  <2>3. CASE UNCHANGED <<cache, wr, ro>> /\ Ask([Idle EXCEPT !.op = "create", !.w = TRUE], "CREATE")
    <3>1. fuse'.op = "create"
      BY Zenon, <2>3, IdleFacts DEF Ask, FuseType
    <3> QED
      BY Zenon, <2>1, <2>3, <3>1, <1>d DEF FirstHandle
  <2> QED
    BY Zenon, <1>10, <2>1, <2>2, <2>3, <1>5 DEF Create
<1>11. CASE Created
  <2>1. fuse.op = "create" /\ wr + ro = 0 /\ UNCHANGED <<cache, wr, ro>>
    BY Zenon, <1>11 DEF Created, AnsweredTo, FirstHandle
  <2>2. fuse'.op \in {"create", "idle"}
    BY Zenon, <1>11, <2>1, <1>b, AskFacts, IdleFacts DEF Created, Rpcs
  <2> QED
    BY Zenon, <2>1, <2>2, <1>d DEF FirstHandle
<1>12. CASE CreateLocked
  <2>1. fuse.op = "create" /\ wr + ro < MaxHandles /\ wr + ro = 0
    BY Zenon, <1>12 DEF CreateLocked, AnsweredTo, Opening, Typed, CacheTyped, FirstHandle
  <2>2. CASE fuse.ok
    <3>1. /\ cache' = [Fresh EXCEPT !.lockCount = 1, !.openCount = 1]
          /\ wr' = 1 /\ ro' = 0 /\ fuse' = Idle
      BY <1>12, <2>1, <2>2, <1>a DEF CreateLocked
    <3>2. cache'.lockCount = 1 /\ cache'.openCount = 1
      BY Zenon, <3>1 DEF Fresh
    <3>3. Present'
      BY <3>2 DEF Present, NoEntry
    <3> QED
      BY <3>1, <3>2, <3>3, <1>f, IdleFacts DEF EntryCounts
  <2>3. CASE UNCHANGED <<cache, wr, ro>> /\ Ask(fuse, "DELETE")
    <3>1. fuse'.op = "create"
      BY Zenon, <2>1, <2>3, <1>b, AskFacts DEF Rpcs
    <3> QED
      BY Zenon, <2>1, <2>3, <3>1, <1>d DEF FirstHandle
  <2> QED
    BY Zenon, <1>12, <2>2, <2>3 DEF CreateLocked
<1>13. CASE CreateUndone \/ Dropped
  BY Zenon, <1>13, <1>d, <1>f, IdleFacts DEF CreateUndone, Dropped
<1>14. CASE Read
  <2>1. fuse'.op = "read"
    BY Zenon, <1>14, IdleFacts DEF Read, Ask, FuseType
  <2> QED
    BY Zenon, <1>14, <2>1, <1>b, <1>d, <1>f DEF Read
<1>15. CASE ReadFetched
  BY Zenon, <1>15, <1>d, <1>f, FetchedFacts, IdleFacts DEF ReadFetched
<1>16. CASE Write \/ Truncate
  <2>1. PICK d \in Contents : Present /\ Modified(d)
    BY <1>16, SquidFSAssumption DEF Write, Truncate, Counted, Contents, Typed, DataTyped
  <2>2. UNCHANGED <<fuse, wr, ro>> /\ fuse = Idle
    BY Zenon, <1>16 DEF Write, Truncate
  <2> QED
    BY Zenon, <2>1, <2>2, <1>d, <1>f, ModifiedFacts, IdleFacts DEF Entry
<1>17. ASSUME NEW w \in BOOLEAN, Release(w)
       PROVE  EntryCounts' /\ FirstHandle'
  <2>1. \/ w /\ wr > 0 /\ wr' = wr - 1 /\ ro' = ro
        \/ ~w /\ ro > 0 /\ ro' = ro - 1 /\ wr' = wr
    BY Zenon, <1>17 DEF Release
  <2>2. Present /\ cache \in EntryType /\ cache.openCount = wr + ro /\ cache.lockCount = wr
    BY <2>1, <1>a, <1>b DEF EntryCounts
  <2>3. /\ Decremented(w) \in EntryType
        /\ Decremented(w).openCount = wr' + ro' /\ Decremented(w).lockCount = wr'
    <3>1. cache.openCount > 0 /\ (w => cache.lockCount > 0)
      BY <2>1, <2>2, <1>a
    <3>2. /\ Decremented(w) \in EntryType /\ Decremented(w).openCount = cache.openCount - 1
          /\ w => Decremented(w).lockCount = cache.lockCount - 1
          /\ ~w => Decremented(w).lockCount = cache.lockCount
      BY Zenon, <2>2, <3>1, DecrementedFacts
    <3>3. /\ Decremented(w).openCount = (wr + ro) - 1
          /\ w => Decremented(w).lockCount = wr - 1
          /\ ~w => Decremented(w).lockCount = wr
      BY Zenon, <2>2, <3>2
    <3> QED
      BY <2>1, <3>2, <3>3, <1>a
  <2>4. EntryCounts'
    <3>1. CASE cache' = Decremented(w)
      BY Zenon, <2>3, <3>1, <1>b DEF EntryCounts, Present
    <3>2. CASE cache' = NoEntry /\ Decremented(w).openCount = 0
      BY Zenon, <2>3, <3>2 DEF EntryCounts, Present
    <3> QED
      BY Zenon, <1>17, <2>2, <3>1, <3>2 DEF Release
  <2>5. FirstHandle'
    <3> DEFINE f == [Idle EXCEPT !.op = "release", !.w = w]
               e == Decremented(w)
    <3>1. \/ Ask([f EXCEPT !.data = e.data, !.ver = e.ver], "UPDATE")
          \/ Ask(f, "RELEASE")
          \/ fuse' = Idle
      BY Zenon, <1>17, <2>2 DEF Release
    <3>2. CASE Ask([f EXCEPT !.data = e.data, !.ver = e.ver], "UPDATE") \/ Ask(f, "RELEASE")
      <4>1. fuse'.op = "release"
        BY Zenon, <3>2, IdleFacts DEF Ask, FuseType
      <4> QED
        BY Zenon, <4>1, <1>f
    <3> QED
      BY Zenon, <3>1, <3>2, <1>f, IdleFacts
  <2> QED
    BY Zenon, <2>4, <2>5
<1>18. CASE Flushed
  <2>1. fuse'.op = "release" /\ UNCHANGED <<wr, ro>>
    BY Zenon, <1>18, <1>b, AskFacts DEF Flushed, AnsweredTo, Rpcs
  <2>2. CASE Present
    BY Zenon, <1>18, <2>1, <2>2, <1>d, <1>f, FlushedFacts DEF Entry
  <2>3. CASE ~Present
    BY Zenon, <1>18, <2>1, <2>3, <1>d, <1>f DEF Flushed
  <2> QED
    BY Zenon, <2>2, <2>3
<1>19. CASE Unlink \/ Unlinked
  BY Zenon, <1>19 DEF Unlink, Unlinked, AnsweredTo, NoDelete
<1> QED
  BY Zenon, <1>1, <1>2, <1>3, <1>4, <1>5, <1>6, <1>7, <1>8, <1>9, <1>10, <1>11, <1>12, <1>13, <1>14, <1>15,
     <1>16, <1>17, <1>18, <1>19 DEF Next, Open

\* Types and counts together are an inductive invariant.
LEMMA CountsInvariant == Spec => [](Typed /\ CountsInv)
<1>1. Init => CountsInv
  <2> SUFFICES ASSUME Init PROVE CountsInv
    BY Zenon
  <2>1. NoDelete
    BY IdleFacts DEF Init, NoDelete, NoPush, Del
  <2>2. EntryCounts
    BY DEF Init, EntryCounts, Present
  <2>3. FirstHandle
    BY Zenon, IdleFacts DEF Init, FirstHandle
  <2> QED
    BY Zenon, <2>1, <2>2, <2>3 DEF CountsInv
<1>2. Typed /\ Typed' /\ CountsInv /\ [Next]_vars => CountsInv'
  <2> SUFFICES ASSUME Typed, Typed', CountsInv, [Next]_vars, "deleted" \notin events'
               PROVE  (NoDelete /\ EntryCounts /\ FirstHandle)'
    BY Zenon DEF CountsInv
  <2>1. NoDelete /\ EntryCounts /\ FirstHandle
    BY Zenon, EventsGrow DEF CountsInv
  <2> QED
    BY Zenon, <2>1, NoDeleteStep, CountsStep
<1> QED
  BY <1>1, <1>2, TypedInvariant, PTL DEF Spec

\* CountsAreHandles for every mount: as long as no delete erased the entry
\* under them, the counts of op_open and op_release are the open handles.
THEOREM CountsCorrect == Spec => []CountsAreHandles
<1>1. CountsInv => CountsAreHandles
  BY Zenon DEF CountsInv, EntryCounts, CountsAreHandles
<1> QED
  BY <1>1, CountsInvariant, PTL

-----------------------------------------------------------------------------
(* The lock and the writable handles.                                      *)

\* Only an existing file is locked: a create or delete of anyone forgets it.
LEMMA LockedExists ==
  ASSUME Typed, Typed', lock = "me" => srv.exists, [Next]_vars
  PROVE  lock' = "me" => srv'.exists
<1> USE DEF envUnchanged
<1>a. fuse.rpc \in Rpcs /\ srv \in SrvType
  BY Zenon DEF Typed, FuseTyped, FuseType, DataTyped
<1>1. CASE UNCHANGED <<srv, lock>>
  BY Zenon, <1>1
<1>2. CASE CanDo(fuse.rpc) /\ Carry(fuse.rpc)
  <2>1. CASE fuse.rpc = "ACQUIRE"
    BY Zenon, <1>2, <2>1 DEF CanDo, Carry
  <2>2. CASE fuse.rpc \in {"RELEASE", "CREATE", "DELETE"}
    BY Zenon, <1>2, <2>2 DEF Carry
  <2>3. CASE fuse.rpc = "UPDATE"
    BY Zenon, <1>2, <2>3, <1>a DEF Carry, SrvType
  <2>4. CASE fuse.rpc \in {"NONE", "READ"}
    BY Zenon, <1>2, <2>4 DEF Carry
  <2> QED
    BY Zenon, <1>a, <2>1, <2>2, <2>3, <2>4 DEF Rpcs
<1>3. CASE Rpc \/ RpcLost
  BY Zenon, <1>3, <1>1, <1>2 DEF Rpc, RpcLost
<1>4. CASE Expire \/ OtherLock \/ OtherUnlock \/ OtherUpdate \/ OtherDelete \/ OtherCreate
  BY Zenon, <1>4 DEF Expire, OtherLock, OtherUnlock, OtherUpdate, OtherDelete, OtherCreate
<1>5. CASE Health \/ (\E torn \in BOOLEAN : PushBegin(torn)) \/ PushEnd \/ UNCHANGED vars
  BY Zenon, <1>5, <1>1 DEF Health, PushBegin, PushEnd, vars, serverVars
<1>6. CASE OpenAcquired \/ OpenFetched \/ Released \/ Lookup \/ (\E t \in BOOLEAN : Create(t))
           \/ (\E w, t \in BOOLEAN : (t => w) /\ Open(w, t))
           \/ Created \/ CreateLocked \/ CreateUndone \/ Read \/ ReadFetched \/ Write \/ Truncate
           \/ (\E w \in BOOLEAN : Release(w)) \/ Flushed \/ Dropped \/ Unlink \/ Unlinked
  BY Zenon, <1>6, <1>1 DEF Open, OpenAcquired, OpenFetched, Released, Lookup, Create, Created, CreateLocked,
     CreateUndone, Read, ReadFetched, Write, Truncate, Release, Flushed, Dropped, Unlink, Unlinked
<1> QED
  BY Zenon, <1>3, <1>4, <1>5, <1>6 DEF Next

\* The lock goes with the writable handles through every callback.
LEMMA LockStep ==
  ASSUME Typed, Typed', NoDelete, EntryCounts, FirstHandle, LockFollows, lock = "me" => srv.exists,
         [Next]_vars, events' \cap {"lost", "expired", "deleted"} = {}
  PROVE  LockFollows'
<1> USE DEF envUnchanged
<1>a. /\ wr \in Nat /\ ro \in Nat /\ wr' \in Nat /\ ro' \in Nat
      /\ fuse \in FuseType /\ Control
  BY Zenon DEF Typed, CacheTyped, FuseTyped
<1>b. Entry \in EntryType /\ Entry.openCount = wr + ro /\ Entry.lockCount = wr
  BY <1>a, EntryFacts DEF EntryCounts, Entry, Fresh
<1>c. /\ lock = "me" <=> (wr > 0 \/ Underway)
      /\ fuse.rpc \in {"ACQUIRE", "RELEASE", "UPDATE"} => wr = 0
  BY Zenon DEF LockFollows
\* A callback returns, or none has begun.
<1>d. ASSUME fuse' = Idle, lock' = "me" <=> wr' > 0
      PROVE  LockFollows'
  <2>1. ~Underway'
    BY Zenon, <1>d, IdleFacts DEF Underway
  <2> QED
    BY Zenon, <1>d, <2>1, IdleFacts DEF LockFollows
<1>e. fuse = Idle => (lock = "me" <=> wr > 0)
  <2> SUFFICES ASSUME fuse = Idle PROVE ~Underway
    BY Zenon, <1>c
  <2> QED
    BY Zenon, IdleFacts DEF Underway
\* Nothing changes for the lock.
<1>f. ASSUME UNCHANGED <<fuse, wr>>, lock' = "me" <=> lock = "me"
      PROVE  LockFollows'
  BY Zenon, <1>c, <1>f DEF LockFollows, Underway
<1>1. CASE Rpc
  <2>0. fuse.st = "asked"
    BY Zenon, <1>1 DEF Rpc
  <2>1. PICK ok \in BOOLEAN :
          /\ Answered(ok)
          /\ \/ ok = TRUE /\ CanDo(fuse.rpc) /\ Carry(fuse.rpc)
             \/ ok = FALSE /\ UNCHANGED lock
    BY Zenon, <1>1 DEF Rpc
  <2>2. /\ fuse'.op = fuse.op /\ fuse'.rpc = fuse.rpc /\ fuse'.st = "answered"
        /\ fuse'.w = fuse.w /\ fuse'.ok = ok
    BY Zenon, <2>1, AnsweredFacts DEF Typed, DataTyped
  <2>3. UNCHANGED wr
    BY Zenon, <1>1 DEF Rpc
  <2>4. CASE fuse.rpc = "ACQUIRE"
    <3>1. wr = 0 /\ lock # "me"
      BY <2>0, <2>4, <1>c DEF Underway
    <3>2. lock' = "me" <=> ok
      BY Zenon, <2>1, <2>4, <3>1 DEF Carry
    <3>3. Underway' <=> ok
      BY Zenon, <2>2, <2>4 DEF Underway
    <3> QED
      BY Zenon, <2>3, <3>1, <3>2, <3>3 DEF LockFollows
  <2>5. CASE fuse.rpc = "RELEASE"
    <3>1. wr = 0 /\ lock' # "me"
      BY Zenon, <1>1, <2>5, <1>c DEF Rpc, CanRefuse, Carry
    <3>2. ~Underway'
      BY Zenon, <2>2, <2>5 DEF Underway
    <3> QED
      BY <2>3, <3>1, <3>2 DEF LockFollows
  <2>6. CASE fuse.rpc \in {"CREATE", "DELETE"}
    <3>1. fuse.op = "create" /\ wr = 0
      BY <2>6, <1>a DEF Control, NoDelete, FirstHandle
    <3>2. lock # "me" /\ ~Underway'
      BY <2>2, <2>6, <3>1, <1>c DEF Underway
    <3>3. lock' # "me"
      BY Zenon, <2>1, <2>6, <3>2 DEF Carry
    <3> QED
      BY Zenon, <2>2, <2>3, <2>6, <3>1, <3>2, <3>3 DEF LockFollows
  <2>7. CASE fuse.rpc \in {"READ", "UPDATE"}
    <3>1. UNCHANGED lock
      BY Zenon, <2>1, <2>7 DEF Carry
    <3>2. Underway' <=> Underway
      BY Zenon, <2>2, <2>7 DEF Underway
    <3> QED
      BY Zenon, <2>2, <2>3, <3>1, <3>2, <1>c DEF LockFollows
  <2> QED
    BY Zenon, <2>0, <2>4, <2>5, <2>6, <2>7, <1>a DEF Control
<1>2. CASE RpcLost \/ Health \/ Expire \/ OtherDelete \/ Unlink
  BY Zenon, <1>2 DEF RpcLost, Health, Reconnected, Expire, OtherDelete, Unlink
<1>3. CASE OtherLock \/ OtherUnlock \/ OtherUpdate \/ OtherCreate \/ (\E torn \in BOOLEAN : PushBegin(torn))
           \/ PushEnd \/ Write \/ Truncate \/ UNCHANGED vars
  <2>1. UNCHANGED <<fuse, wr>>
    BY Zenon, <1>3 DEF OtherLock, OtherUnlock, OtherUpdate, OtherCreate, PushBegin, PushEnd, Write, Truncate,
                vars, mountVars
  <2>2. lock' = "me" <=> lock = "me"
    BY Zenon, <1>3 DEF OtherLock, OtherUnlock, OtherUpdate, OtherCreate, PushBegin, PushEnd, Write, Truncate,
                vars, serverVars
  <2> QED
    BY Zenon, <2>1, <2>2, <1>f
\* op_open with entry e, from callback f: the lock is held if it is needed.
<1>4. ASSUME NEW e \in EntryType, NEW f \in FuseType, f.op = "open", OpenLocked(e, f), UNCHANGED lock,
             wr + ro < MaxHandles, e.openCount = wr + ro, e.lockCount = wr,
             lock = "me" <=> (wr > 0 \/ f.w)
      PROVE  LockFollows'
  <2>1. CASE e.openCount = 0 /\ Ask(f, "READ") /\ UNCHANGED wr
    <3>1. fuse'.op = "open" /\ fuse'.rpc = "READ" /\ fuse'.w = f.w
      BY Zenon, <2>1, <1>4, AskFacts DEF Rpcs
    <3>2. wr = 0
      BY <2>1, <1>4, <1>a
    <3>3. Underway' <=> f.w
      BY Zenon, <3>1 DEF Underway
    <3> QED
      BY Zenon, <2>1, <3>1, <3>2, <3>3, <1>4 DEF LockFollows
  <2>2. CASE Opened(e, f)
    <3>1. e.openCount <= wr + ro /\ e.lockCount <= wr
      BY <1>4, <1>a
    <3>2. fuse' = Idle /\ (f.w => wr' = wr + 1) /\ (~f.w => wr' = wr)
      BY Zenon, <2>2, <3>1, <1>4, <1>a, OpenedFacts
    <3>3. lock' = "me" <=> wr' > 0
      BY <3>2, <1>4, <1>a
    <3> QED
      BY Zenon, <3>2, <3>3, <1>d
  <2> QED
    BY Zenon, <2>1, <2>2, <1>4 DEF OpenLocked
<1>5. ASSUME NEW w \in BOOLEAN, NEW t \in BOOLEAN, wr + ro < MaxHandles, UNCHANGED lock,
             OpenBegin([Idle EXCEPT !.op = "open", !.w = w, !.t = t]), lock = "me" <=> wr > 0
      PROVE  LockFollows'
  <2> DEFINE f == [Idle EXCEPT !.op = "open", !.w = w, !.t = t]
  <2>1. f \in FuseType /\ f.op = "open" /\ f.w = w
    BY Zenon, IdleFacts DEF FuseType, Callbacks
  <2>2. \/ f.w /\ Entry.lockCount = 0 /\ UNCHANGED wr /\ Ask(f, "ACQUIRE")
        \/ (~f.w \/ Entry.lockCount > 0) /\ OpenLocked(Entry, f)
    BY Zenon, <1>5 DEF OpenBegin
  <2> HIDE DEF f
  <2>3. CASE Entry.lockCount = 0 /\ UNCHANGED wr /\ Ask(f, "ACQUIRE")
    <3>1. fuse'.op = "open" /\ fuse'.rpc = "ACQUIRE" /\ fuse'.st = "asked"
      BY Zenon, <2>1, <2>3, AskFacts DEF Rpcs
    <3>2. wr = 0 /\ lock # "me"
      BY <2>3, <1>5, <1>b
    <3>3. ~Underway'
      BY Zenon, <3>1 DEF Underway
    <3> QED
      BY Zenon, <2>3, <3>2, <3>3, <1>5 DEF LockFollows
  <2>4. CASE (~f.w \/ Entry.lockCount > 0) /\ OpenLocked(Entry, f)
    <3>1. lock = "me" <=> (wr > 0 \/ f.w)
      BY Zenon, <2>4, <1>5, <1>b
    <3> QED
      BY Zenon, <2>1, <2>4, <3>1, <1>4, <1>5, <1>b
  <2> QED
    BY Zenon, <2>2, <2>3, <2>4
<1>6. CASE OpenAcquired
  <2>1. fuse.op = "open" /\ fuse.rpc = "ACQUIRE" /\ fuse.st = "answered"
    BY Zenon, <1>6 DEF OpenAcquired, AnsweredTo
  <2>2. wr + ro < MaxHandles /\ Present /\ wr = 0 /\ fuse.w
    BY Zenon, <2>1, <1>a, <1>c DEF Opening, Typed, CacheTyped, FirstHandle, Control
  <2>3. lock = "me" <=> fuse.ok
    BY <2>1, <2>2, <1>c DEF Underway
  <2>4. CASE fuse.ok /\ OpenLocked(cache, fuse)
    BY Zenon, <1>6, <2>1, <2>2, <2>3, <2>4, <1>a, <1>b, <1>4 DEF Entry, OpenAcquired
  <2>5. CASE ~fuse.ok /\ UNCHANGED wr /\ fuse' = Idle
    BY <1>6, <2>2, <2>3, <2>5, <1>d DEF OpenAcquired
  <2> QED
    BY Zenon, <1>6, <2>2, <2>4, <2>5 DEF OpenAcquired
<1>7. CASE OpenFetched
  <2>1. fuse.op = "open" /\ fuse.rpc = "READ" /\ UNCHANGED lock
    BY Zenon, <1>7 DEF OpenFetched, AnsweredTo
  <2>2. wr + ro < MaxHandles /\ wr + ro = 0
    BY Zenon, <2>1, <1>a DEF Opening, Typed, CacheTyped, FirstHandle
  <2>3. wr = 0 /\ ro = 0
    BY <2>2, <1>a
  <2>4. lock = "me" <=> fuse.w
    BY <2>1, <2>3, <1>c DEF Underway
  <2>5. CASE Opened(Fetched, fuse)
    <3>1. Fetched \in EntryType /\ Fetched.openCount <= wr + ro /\ Fetched.lockCount <= wr
      BY Zenon, FetchedFacts, EntryFacts
    <3>2. fuse' = Idle /\ (fuse.w => wr' = wr + 1) /\ (~fuse.w => wr' = wr)
      BY Zenon, <2>2, <2>5, <3>1, <1>a, OpenedFacts
    <3>3. lock' = "me" <=> wr' > 0
      BY <2>1, <2>3, <2>4, <3>2
    <3> QED
      BY Zenon, <3>2, <3>3, <1>d
  <2>6. CASE fuse.w /\ Ask(fuse, "RELEASE") /\ UNCHANGED wr
    <3>1. fuse'.op = "open" /\ fuse'.rpc = "RELEASE" /\ fuse'.st = "asked"
      BY Zenon, <2>1, <2>6, <1>a, AskFacts DEF Rpcs
    <3>2. Underway'
      BY Zenon, <3>1 DEF Underway
    <3> QED
      BY Zenon, <2>1, <2>3, <2>4, <2>6, <3>2 DEF LockFollows
  <2>7. CASE ~fuse.w /\ fuse' = Idle /\ UNCHANGED wr
    BY <2>1, <2>3, <2>4, <2>7, <1>d
  <2> QED
    BY Zenon, <1>7, <2>5, <2>6, <2>7 DEF OpenFetched
<1>8. CASE Released
  <2>1. fuse.rpc = "RELEASE" /\ fuse.st = "answered" /\ UNCHANGED <<lock, wr>> /\ fuse' = Idle
    BY Zenon, <1>8 DEF Released
  <2>2. wr = 0 /\ lock # "me"
    BY <2>1, <1>c DEF Underway
  <2> QED
    BY <2>1, <2>2, <1>d
<1>9. CASE Lookup
  <2>1. fuse'.op = "lookup" /\ fuse'.rpc = "NONE"
    BY Zenon, <1>9, IdleFacts DEF Lookup, FuseType
  <2>2. ~Underway' /\ fuse = Idle /\ UNCHANGED <<lock, wr>>
    BY Zenon, <1>9, <2>1 DEF Underway, Lookup
  <2> QED
    BY Zenon, <2>1, <2>2, <1>e DEF LockFollows
<1>10. ASSUME NEW t \in BOOLEAN, Create(t)
       PROVE  LockFollows'
  <2>1. fuse.op = "lookup" /\ fuse.rpc = "NONE" /\ UNCHANGED lock
    BY Zenon, <1>10, <1>a DEF Create, Control
  <2>2. wr + ro < MaxHandles /\ wr + ro = 0
    BY Zenon, <2>1 DEF Opening, Typed, CacheTyped, FirstHandle
  <2>3. wr = 0 /\ lock # "me"
    BY <2>1, <2>2, <1>a, <1>c DEF Underway
  <2>4. CASE UNCHANGED wr /\ fuse' = [fuse EXCEPT !.op = "stuck"]
    <3>1. fuse'.op = "stuck" /\ fuse'.rpc = "NONE"
      BY Zenon, <2>1, <2>4, <1>a DEF FuseType
    <3>2. ~Underway'
      BY Zenon, <3>1 DEF Underway
    <3> QED
      BY Zenon, <2>1, <2>3, <2>4, <3>1, <3>2 DEF LockFollows
  <2>5. CASE UNCHANGED wr /\ Ask([Idle EXCEPT !.op = "create", !.w = TRUE], "CREATE")
    <3>1. fuse'.op = "create" /\ fuse'.rpc = "CREATE"
      BY Zenon, <2>5, IdleFacts DEF Ask, FuseType
    <3>2. ~Underway'
      BY Zenon, <3>1 DEF Underway
    <3> QED
      BY Zenon, <2>1, <2>3, <2>5, <3>1, <3>2 DEF LockFollows
  <2>6. CASE OpenBegin([Idle EXCEPT !.op = "open", !.w = TRUE, !.t = t])
    <3>1. lock = "me" <=> wr > 0
      BY <2>3
    <3> QED
      BY Zenon, <2>1, <2>2, <2>6, <3>1, <1>5
  <2> QED
    BY Zenon, <1>10, <2>4, <2>5, <2>6 DEF Create
<1>11. CASE Created \/ CreateUndone
  <2>1. fuse.op = "create" /\ fuse.rpc \in {"CREATE", "DELETE"} /\ UNCHANGED <<lock, wr>>
    BY Zenon, <1>11 DEF Created, CreateUndone, AnsweredTo
  <2>2. wr = 0 /\ lock # "me"
    BY <2>1, <1>a, <1>c DEF Underway, FirstHandle
  <2>3. CASE Ask(fuse, "ACQUIRE")
    <3>1. fuse'.op = "create" /\ fuse'.rpc = "ACQUIRE" /\ fuse'.st = "asked"
      BY Zenon, <2>1, <2>3, <1>a, AskFacts DEF Rpcs
    <3>2. ~Underway'
      BY Zenon, <3>1 DEF Underway
    <3> QED
      BY Zenon, <2>1, <2>2, <3>2 DEF LockFollows
  <2> QED
    BY <1>11, <2>1, <2>2, <2>3, <1>d DEF Created, CreateUndone
<1>12. CASE CreateLocked
  <2>1. fuse.op = "create" /\ fuse.rpc = "ACQUIRE" /\ fuse.st = "answered" /\ UNCHANGED lock
    BY Zenon, <1>12 DEF CreateLocked, AnsweredTo
  <2>2. wr = 0 /\ (lock = "me" <=> fuse.ok)
    BY <2>1, <1>c DEF Underway
  <2>3. CASE fuse.ok /\ fuse' = Idle /\ wr' = wr + 1
    BY <2>1, <2>2, <2>3, <1>d
  <2>4. CASE ~fuse.ok /\ Ask(fuse, "DELETE") /\ UNCHANGED wr
    <3>1. fuse'.op = "create" /\ fuse'.rpc = "DELETE"
      BY Zenon, <2>1, <2>4, <1>a, AskFacts DEF Rpcs
    <3>2. ~Underway'
      BY Zenon, <3>1 DEF Underway
    <3> QED
      BY Zenon, <2>1, <2>2, <2>4, <3>1, <3>2 DEF LockFollows
  <2> QED
    BY Zenon, <1>12, <2>3, <2>4 DEF CreateLocked
<1>13. CASE Read
  <2>1. fuse'.op = "read" /\ fuse'.rpc = "READ"
    BY Zenon, <1>13, IdleFacts DEF Read, Ask, FuseType
  <2>2. ~Underway' /\ fuse = Idle /\ UNCHANGED <<lock, wr>>
    BY Zenon, <1>13, <2>1 DEF Underway, Read
  <2> QED
    BY Zenon, <2>1, <2>2, <1>e DEF LockFollows
<1>14. CASE ReadFetched
  <2>1. fuse.op = "read" /\ fuse.rpc = "READ" /\ UNCHANGED <<lock, wr>> /\ fuse' = Idle
    BY Zenon, <1>14 DEF ReadFetched, AnsweredTo
  <2>2. ~Underway
    BY Zenon, <2>1 DEF Underway
  <2> QED
    BY Zenon, <2>1, <2>2, <1>c, <1>d
<1>15. ASSUME NEW w \in BOOLEAN, Release(w)
       PROVE  LockFollows'
  <2>1. /\ \/ w /\ wr > 0 /\ wr' = wr - 1
           \/ ~w /\ ro > 0 /\ wr' = wr
        /\ fuse = Idle /\ UNCHANGED lock
    BY Zenon, <1>15 DEF Release
  <2>2. Present /\ cache.lockCount = wr /\ (lock = "me" <=> wr > 0)
    BY <2>1, <1>a, <1>e DEF EntryCounts
  <2>3. w => Decremented(w).lockCount = wr'
    BY Zenon, <2>1, <2>2, <1>a, DecrementedFacts
  <2> DEFINE f == [Idle EXCEPT !.op = "release", !.w = w]
             e == Decremented(w)
  <2>4. CASE w /\ e.lockCount = 0
    <3>1. Ask([f EXCEPT !.data = e.data, !.ver = e.ver], "UPDATE") \/ Ask(f, "RELEASE")
      BY Zenon, <1>15, <2>2, <2>4 DEF Release
    <3>2. fuse'.op = "release" /\ fuse'.rpc \in {"UPDATE", "RELEASE"} /\ fuse'.st = "asked"
      BY Zenon, <3>1, IdleFacts DEF Ask, FuseType
    <3>3. Underway' /\ wr' = 0 /\ lock' = "me"
      BY Zenon, <2>1, <2>2, <2>3, <2>4, <3>2 DEF Underway
    <3> QED
      BY Zenon, <3>3 DEF LockFollows
  <2>5. CASE ~(w /\ e.lockCount = 0)
    <3>1. fuse' = Idle
      BY Zenon, <1>15, <2>2, <2>5 DEF Release
    <3>2. lock' = "me" <=> wr' > 0
      BY <2>1, <2>2, <2>3, <2>5, <1>a
    <3> QED
      BY Zenon, <3>1, <3>2, <1>d
  <2> QED
    BY Zenon, <2>4, <2>5
<1>16. CASE Flushed
  <2>1. fuse.op = "release" /\ fuse.rpc = "UPDATE" /\ UNCHANGED <<lock, wr>>
    BY Zenon, <1>16 DEF Flushed, AnsweredTo
  <2>2. wr = 0 /\ lock = "me"
    BY Zenon, <2>1, <1>c DEF Underway
  <2>3. fuse'.op = "release" /\ fuse'.rpc = "RELEASE" /\ fuse'.st = "asked"
    BY Zenon, <1>16, <2>1, <1>a, AskFacts DEF Flushed, Rpcs
  <2>4. Underway'
    BY Zenon, <2>3 DEF Underway
  <2> QED
    BY Zenon, <2>1, <2>2, <2>4 DEF LockFollows
<1>17. CASE Dropped \/ Unlinked
  BY Zenon, <1>17 DEF Dropped, Unlinked, AnsweredTo, NoDelete
<1> QED
  BY Zenon, <1>1, <1>2, <1>3, <1>5, <1>6, <1>7, <1>8, <1>9, <1>10, <1>11, <1>12, <1>13, <1>14, <1>15,
     <1>16, <1>17, <1>e DEF Next, Open, Typed, CacheTyped

\* Types, counts and lock together are an inductive invariant.
LEMMA HolderInvariant == Spec => [](Typed /\ CountsInv /\ HolderInv)
<1>1. Init => HolderInv
  <2> SUFFICES ASSUME Init PROVE HolderInv
    BY Zenon
  <2>1. ~Underway /\ fuse.rpc = "NONE"
    BY Zenon, IdleFacts DEF Init, Underway
  <2> QED
    BY <2>1 DEF Init, HolderInv, LockFollows
<1>2. Typed /\ Typed' /\ CountsInv /\ HolderInv /\ [Next]_vars => HolderInv'
  <2> SUFFICES ASSUME Typed, Typed', CountsInv, HolderInv, [Next]_vars
               PROVE  HolderInv'
    BY Zenon
  <2>1. lock' = "me" => srv'.exists
    BY Zenon, LockedExists DEF HolderInv
  <2>2. ASSUME events' \cap {"lost", "expired", "deleted"} = {}
        PROVE  LockFollows'
    <3>1. events \cap {"lost", "expired", "deleted"} = {} /\ "deleted" \notin events
      BY Zenon, <2>2, EventsGrow
    <3> QED
      BY Zenon, <2>2, <3>1, LockStep DEF CountsInv, HolderInv
  <2> QED
    BY Zenon, <2>1, <2>2 DEF HolderInv
<1> QED
  BY <1>1, <1>2, CountsInvariant, PTL DEF Spec

\* LockIsHandles for every mount: no path through op_open, op_create and
\* op_release leaks the server's lock or gives it back early.
THEOREM LockCorrect == Spec => []LockIsHandles
<1>1. HolderInv => LockIsHandles
  <2> SUFFICES ASSUME HolderInv, fuse = Idle, events \cap {"lost", "expired", "deleted"} = {}
               PROVE  lock = "me" <=> wr > 0
    BY Zenon DEF LockIsHandles
  <2>1. ~Underway
    BY Zenon, IdleFacts DEF Underway
  <2> QED
    BY Zenon, <2>1 DEF HolderInv, LockFollows
<1> QED
  BY <1>1, HolderInvariant, PTL

-----------------------------------------------------------------------------
(* Unflushed bytes.                                                        *)

\* What this mount wrote stays in its entry through every step.
LEMMA BufferStep ==
  ASSUME Typed, Typed', NoDelete, EntryCounts, FirstHandle, BufferKept, [Next]_vars,
         events' \cap {"deleted", "refetched", "unlocked"} = {}
  PROVE  BufferKept'
<1> USE DEF envUnchanged
<1>a. /\ wr \in Nat /\ ro \in Nat /\ fuse \in FuseType /\ Control
      /\ mine \in Nat \cup {-1}
  BY DEF Typed, CacheTyped, FuseTyped, DataTyped, Contents
<1>b. /\ Entry \in EntryType /\ Entry.openCount = wr + ro /\ Entry.lockCount = wr
      /\ NoEntry \notin EntryType /\ Entry.dirty \in BOOLEAN
  <2>1. Entry \in EntryType /\ NoEntry \notin EntryType
    BY Zenon, EntryFacts DEF Typed, CacheTyped
  <2>2. Entry.openCount = wr + ro /\ Entry.lockCount = wr
    BY <1>a DEF EntryCounts, Entry, Fresh
  <2>3. Entry.dirty \in BOOLEAN
    BY Zenon, <2>1 DEF EntryType
  <2> QED
    BY Zenon, <2>1, <2>2, <2>3
<1>c. /\ Entry.dirty => Present /\ (wr > 0 \/ fuse.rpc = "UPDATE")
      /\ mine >= 0 => Present /\ Entry.dirty /\ Entry.data = mine
  BY Zenon, <1>b DEF BufferKept, Entry, Fresh
\* The entry is left alone, or made, outside of a flush.
<1>d. ASSUME fuse.rpc # "UPDATE", fuse'.rpc # "UPDATE", UNCHANGED mine, cache' = cache \/ cache' = Entry
      PROVE  BufferKept'
  <2>1. CASE cache' = cache
    BY Zenon, <2>1, <1>d DEF BufferKept, Present
  <2>2. CASE cache' = Entry
    BY Zenon, <2>2, <1>b, <1>c, <1>d DEF BufferKept, Present
  <2> QED
    BY Zenon, <1>d, <2>1, <2>2
\* The entry is clean or gone, and nothing is unflushed.
<1>e. ASSUME ~(mine' >= 0), ~(Present' /\ cache'.dirty), fuse'.rpc # "UPDATE"
      PROVE  BufferKept'
  BY Zenon, <1>e DEF BufferKept
\* An entry without handles holds nothing unflushed.
<1>f. wr = 0 /\ fuse.rpc # "UPDATE" => ~Entry.dirty /\ ~(mine >= 0)
  BY <1>c
<1>g. ASSUME cache' = Evicted, UNCHANGED mine, fuse.rpc # "UPDATE", fuse'.rpc # "UPDATE"
      PROVE  BufferKept'
  <2>1. CASE cache' = cache
    BY Zenon, <2>1, <1>d, <1>g
  <2>2. CASE cache' = NoEntry /\ Present /\ cache.openCount = 0
    <3>1. wr = 0
      BY <2>2, <1>a DEF EntryCounts
    <3> QED
      BY Zenon, <2>2, <3>1, <1>e, <1>f, <1>g DEF Present
  <2> QED
    BY Zenon, <1>g, <2>1, <2>2 DEF Evicted
\* A handle comes: a truncation on open is made under its lock.
<1>h. ASSUME NEW e \in EntryType, NEW f \in FuseType, Opened(e, f), wr + ro < MaxHandles, f.t => f.w,
             e.openCount = wr + ro, e.lockCount = wr,
             e.dirty => wr > 0,
             mine >= 0 => e.dirty /\ e.data = mine
      PROVE  BufferKept'
  <2>1. e.openCount <= wr + ro /\ e.lockCount <= wr
    BY <1>a, <1>h
  <2>2. /\ cache' \in EntryType /\ fuse' = Idle
        /\ f.w => cache'.lockCount = e.lockCount + 1
        /\ ~f.w => cache'.lockCount = e.lockCount
        /\ f.t => cache'.data = 0 /\ cache'.dirty /\ mine' = 0
        /\ ~f.t => cache'.data = e.data /\ cache'.dirty = e.dirty /\ mine' = mine
    BY Zenon, <2>1, <1>a, <1>h, OpenedFacts
  <2>3. fuse'.rpc # "UPDATE" /\ Present'
    BY Zenon, <2>2, <1>b, IdleFacts DEF Present
  <2>4. CASE f.t
    <3>1. cache'.lockCount > 0 /\ cache'.data = 0 /\ cache'.dirty /\ mine' = 0
      BY <2>2, <2>4, <1>a, <1>h
    <3> QED
      BY Zenon, <2>3, <3>1 DEF BufferKept
  <2>5. CASE ~f.t
    <3>1. cache'.data = e.data /\ cache'.dirty = e.dirty /\ mine' = mine
      BY Zenon, <2>2, <2>5
    <3>2. e.dirty => cache'.lockCount > 0
      BY <2>2, <1>a, <1>h
    <3> QED
      BY Zenon, <2>3, <3>1, <3>2, <1>h DEF BufferKept
  <2> QED
    BY Zenon, <2>4, <2>5
<1>i. ASSUME NEW f \in FuseType, f.op = "open", OpenLocked(Entry, f), wr + ro < MaxHandles, f.t => f.w,
             fuse.rpc # "UPDATE"
      PROVE  BufferKept'
  <2>1. CASE cache' = Entry /\ Ask(f, "READ") /\ UNCHANGED mine
    <3>1. fuse'.rpc = "READ"
      BY Zenon, <2>1, AskFacts DEF Rpcs
    <3> QED
      BY Zenon, <2>1, <3>1, <1>d, <1>i
  <2>2. CASE Opened(Entry, f)
    BY Zenon, <2>2, <1>b, <1>c, <1>h, <1>i
  <2> QED
    BY Zenon, <1>i, <2>1, <2>2 DEF OpenLocked
<1>1. CASE Rpc \/ RpcLost
  <2>1. PICK ok \in BOOLEAN : Answered(ok)
    BY Zenon, <1>1 DEF Rpc, RpcLost
  <2>2. /\ fuse'.rpc = fuse.rpc /\ fuse'.st = "answered"
        /\ mine' = IF fuse.rpc = "UPDATE" THEN -1 ELSE mine
    BY Zenon, <2>1, AnsweredFacts DEF Typed, DataTyped
  <2>3. UNCHANGED cache
    BY Zenon, <1>1 DEF Rpc, RpcLost
  <2>4. CASE fuse.rpc = "UPDATE"
    BY <2>2, <2>4 DEF BufferKept
  <2>5. CASE fuse.rpc # "UPDATE"
    BY Zenon, <2>2, <2>3, <2>5, <1>d
  <2> QED
    BY Zenon, <2>4, <2>5
<1>2. CASE Health \/ Expire \/ OtherLock \/ OtherUpdate \/ OtherUnlock \/ OtherDelete \/ OtherCreate
           \/ UNCHANGED vars
  <2>1. UNCHANGED <<cache, fuse, mine>>
    BY Zenon, <1>2 DEF Health, Expire, OtherLock, OtherUpdate, OtherUnlock, OtherDelete, OtherCreate, vars, mountVars
  <2> QED
    BY Zenon, <2>1 DEF BufferKept, Present
<1>3. ASSUME NEW torn \in BOOLEAN, PushBegin(torn)
      PROVE  BufferKept'
  <2>1. Head(channel) \in PutType
    BY <1>3 DEF PushBegin, NoDelete
  <2>2. UNCHANGED <<cache, fuse, mine>>
    BY Zenon, <1>3, <2>1 DEF PushBegin, PutType
  <2> QED
    BY Zenon, <2>2 DEF BufferKept, Present
<1>4. CASE PushEnd
  <2>1. UNCHANGED <<fuse, mine>>
    BY Zenon, <1>4 DEF PushEnd
  <2>2. CASE UNCHANGED cache
    BY Zenon, <2>1, <2>2 DEF BufferKept, Present
  <2>3. CASE cache' \in EntryType /\ Entry.dirty = FALSE /\ cache'.dirty = FALSE
    <3>1. ~(mine >= 0)
      BY Zenon, <2>3, <1>c
    <3>2. ~cache'.dirty
      BY Zenon, <2>3
    <3> QED
      BY Zenon, <2>1, <3>1, <3>2 DEF BufferKept
  <2>4. push.k = "put" \/ UNCHANGED cache
    BY Zenon, <1>4 DEF PushEnd
  <2> QED
    BY Zenon, <1>4, <2>2, <2>3, <2>4, PushedFacts
<1>5. ASSUME NEW w \in BOOLEAN, NEW t \in BOOLEAN, t => w, wr + ro < MaxHandles, fuse.rpc # "UPDATE",
             OpenBegin([Idle EXCEPT !.op = "open", !.w = w, !.t = t])
      PROVE  BufferKept'
  <2> DEFINE f == [Idle EXCEPT !.op = "open", !.w = w, !.t = t]
  <2>1. f \in FuseType /\ f.op = "open" /\ f.w = w /\ f.t = t
    BY Zenon, IdleFacts DEF FuseType, Callbacks
  <2>2. OpenLocked(Entry, f) \/ (cache' = Entry /\ UNCHANGED mine /\ Ask(f, "ACQUIRE"))
    BY Zenon, <1>5 DEF OpenBegin
  <2> HIDE DEF f
  <2>3. CASE cache' = Entry /\ UNCHANGED mine /\ Ask(f, "ACQUIRE")
    <3>1. fuse'.rpc = "ACQUIRE"
      BY Zenon, <2>1, <2>3, AskFacts DEF Rpcs
    <3> QED
      BY Zenon, <2>3, <3>1, <1>5, <1>d
  <2> QED
    BY Zenon, <2>1, <2>2, <2>3, <1>5, <1>i
<1>6. CASE OpenAcquired
  <2>1. fuse.op = "open" /\ fuse.rpc = "ACQUIRE"
    BY Zenon, <1>6 DEF OpenAcquired, AnsweredTo
  <2>2. wr + ro < MaxHandles /\ Present /\ (fuse.t => fuse.w)
    BY Zenon, <2>1 DEF Opening, Typed, CacheTyped, FuseTyped, FirstHandle
  <2>3. CASE OpenLocked(cache, fuse)
    BY Zenon, <2>1, <2>2, <2>3, <1>a, <1>i DEF Entry
  <2>4. CASE cache' = Evicted /\ UNCHANGED mine /\ fuse' = Idle
    BY Zenon, <2>1, <2>4, <1>g, IdleFacts
  <2> QED
    BY Zenon, <1>6, <2>2, <2>3, <2>4 DEF OpenAcquired
<1>7. CASE OpenFetched
  <2>1. fuse.op = "open" /\ fuse.rpc = "READ"
    BY Zenon, <1>7 DEF OpenFetched, AnsweredTo
  <2>2. wr + ro < MaxHandles /\ (fuse.t => fuse.w)
    BY Zenon, <2>1 DEF Opening, Typed, CacheTyped, FuseTyped
  <2>3. CASE Opened(Fetched, fuse) /\ events' = events \cup FetchEvents
    <3>1. ~Entry.dirty
      BY Zenon, <2>3 DEF FetchEvents
    <3>2. ~(mine >= 0)
      BY Zenon, <3>1, <1>c
    <3>3. /\ Fetched \in EntryType /\ Fetched.openCount = wr + ro /\ Fetched.lockCount = wr
          /\ Fetched.dirty = FALSE
      BY Zenon, <1>b, FetchedFacts
    <3>4. ~Fetched.dirty
      BY Zenon, <3>3
    <3> QED
      BY Zenon, <2>2, <2>3, <3>2, <3>3, <3>4, <1>a, <1>h
  <2>4. CASE UNCHANGED <<cache, mine>> /\ Ask(fuse, "RELEASE")
    <3>1. fuse'.rpc = "RELEASE"
      BY Zenon, <2>4, <1>a, AskFacts DEF Rpcs
    <3> QED
      BY Zenon, <2>1, <2>4, <3>1, <1>d
  <2>5. CASE cache' = Evicted /\ UNCHANGED mine /\ fuse' = Idle
    BY Zenon, <2>1, <2>5, <1>g, IdleFacts
  <2> QED
    BY Zenon, <1>7, <2>3, <2>4, <2>5 DEF OpenFetched
<1>8. CASE Released
  BY Zenon, <1>8, <1>g, IdleFacts DEF Released
<1>9. CASE Lookup
  <2>1. fuse.rpc = "NONE" /\ fuse'.rpc = "NONE"
    BY Zenon, <1>9, IdleFacts DEF Lookup, FuseType
  <2> QED
    BY Zenon, <1>9, <2>1, <1>d DEF Lookup
<1>10. ASSUME NEW t \in BOOLEAN, Create(t)
       PROVE  BufferKept'
  <2>1. fuse.op = "lookup" /\ fuse.rpc = "NONE"
    BY Zenon, <1>10, <1>a DEF Create, Control
  <2>2. wr + ro < MaxHandles
    BY Zenon, <2>1 DEF Opening, Typed, CacheTyped
  <2>3. CASE UNCHANGED <<cache, mine>> /\ fuse' = [fuse EXCEPT !.op = "stuck"]
    <3>1. fuse'.rpc = "NONE"
      BY Zenon, <2>1, <2>3, <1>a DEF FuseType
    <3> QED
      BY Zenon, <2>1, <2>3, <3>1, <1>d
  <2>4. CASE UNCHANGED <<cache, mine>> /\ Ask([Idle EXCEPT !.op = "create", !.w = TRUE], "CREATE")
    <3>1. fuse'.rpc = "CREATE"
      BY Zenon, <2>4, IdleFacts DEF Ask, FuseType
    <3> QED
      BY Zenon, <2>1, <2>4, <3>1, <1>d
  <2>5. CASE OpenBegin([Idle EXCEPT !.op = "open", !.w = TRUE, !.t = t])
    BY Zenon, <2>1, <2>2, <2>5, <1>5
  <2> QED
    BY Zenon, <1>10, <2>3, <2>4, <2>5 DEF Create
<1>11. CASE Created \/ CreateUndone
  <2>1. fuse.rpc \in {"CREATE", "DELETE"} /\ UNCHANGED <<cache, mine>>
    BY Zenon, <1>11 DEF Created, CreateUndone, AnsweredTo
  <2>2. fuse'.rpc \in {"ACQUIRE", "NONE"}
    BY Zenon, <1>11, <1>a, AskFacts, IdleFacts DEF Created, CreateUndone, Rpcs
  <2> QED
    BY Zenon, <2>1, <2>2, <1>d
<1>12. CASE CreateLocked
  <2>1. fuse.op = "create" /\ fuse.rpc = "ACQUIRE" /\ UNCHANGED mine
    BY Zenon, <1>12 DEF CreateLocked, AnsweredTo
  <2>2. CASE cache' = [Fresh EXCEPT !.lockCount = 1, !.openCount = 1] /\ fuse' = Idle
    <3>1. wr = 0
      BY <2>1, <1>a DEF FirstHandle
    <3>2. cache'.dirty = FALSE
      BY Zenon, <2>2 DEF Fresh
    <3>3. ~cache'.dirty
      BY Zenon, <3>2
    <3> QED
      BY Zenon, <2>1, <2>2, <3>1, <3>3, <1>e, <1>f, IdleFacts
  <2>3. CASE UNCHANGED cache /\ Ask(fuse, "DELETE")
    <3>1. fuse'.rpc = "DELETE"
      BY Zenon, <2>3, <1>a, AskFacts DEF Rpcs
    <3> QED
      BY Zenon, <2>1, <2>3, <3>1, <1>d
  <2> QED
    BY Zenon, <1>12, <2>2, <2>3 DEF CreateLocked
<1>13. CASE Read
  <2>1. fuse.rpc = "NONE" /\ fuse'.rpc = "READ"
    BY Zenon, <1>13, IdleFacts DEF Read, Ask, FuseType
  <2> QED
    BY Zenon, <1>13, <2>1, <1>d DEF Read
<1>14. CASE ReadFetched
  <2>1. fuse.rpc = "READ" /\ UNCHANGED mine /\ fuse' = Idle
    BY Zenon, <1>14 DEF ReadFetched, AnsweredTo
  <2>2. CASE cache' = Fetched /\ events' = events \cup FetchEvents
    <3>1. ~Entry.dirty
      BY Zenon, <2>2 DEF FetchEvents
    <3>2. ~(mine >= 0)
      BY Zenon, <3>1, <1>c
    <3>3. ~cache'.dirty
      BY Zenon, <2>2, FetchedFacts
    <3> QED
      BY Zenon, <2>1, <3>2, <3>3, <1>e, IdleFacts
  <2>3. CASE UNCHANGED cache
    BY Zenon, <2>1, <2>3, <1>d, IdleFacts
  <2> QED
    BY Zenon, <1>14, <2>2, <2>3 DEF ReadFetched
<1>15. CASE Write \/ Truncate
  <2>1. PICK d \in Contents : Present /\ Modified(d)
    BY <1>15, SquidFSAssumption DEF Write, Truncate, Counted, Contents, Typed, DataTyped
  <2>2. UNCHANGED fuse /\ fuse.rpc = "NONE"
    BY Zenon, <1>15, IdleFacts DEF Write, Truncate
  <2>3. cache.lockCount > 0
    <3>1. CASE Write
      BY Zenon, <3>1 DEF Write, EntryCounts
    <3>2. CASE Truncate
      <4>1. cache.lockCount # 0 /\ cache.lockCount = wr
        BY Zenon, <3>2 DEF Truncate, EntryCounts
      <4> QED
        BY <4>1, <1>a
    <3> QED
      BY Zenon, <1>15, <3>1, <3>2
  <2>4. /\ cache' \in EntryType /\ cache'.lockCount = cache.lockCount
        /\ cache'.data = d /\ cache'.dirty = TRUE /\ mine' = d
    BY Zenon, <2>1, ModifiedFacts
  <2>5. Present'
    BY Zenon, <2>4, <1>b DEF Present
  <2> QED
    BY Zenon, <2>2, <2>3, <2>4, <2>5 DEF BufferKept
<1>16. ASSUME NEW w \in BOOLEAN, Release(w)
       PROVE  BufferKept'
  <2>1. /\ (w /\ wr > 0) \/ (~w /\ ro > 0)
        /\ fuse = Idle /\ UNCHANGED mine
    BY Zenon, <1>16 DEF Release
  <2>2. Present /\ cache.openCount = wr + ro /\ cache.lockCount = wr /\ Entry = cache
    BY <2>1, <1>a DEF EntryCounts, Entry
  <2> DEFINE f == [Idle EXCEPT !.op = "release", !.w = w]
             e == Decremented(w)
  <2>3. /\ e \in EntryType /\ e.openCount = (wr + ro) - 1
        /\ w => e.lockCount = wr - 1
        /\ ~w => e.lockCount = wr
        /\ e.data = cache.data /\ e.dirty = cache.dirty
    <3>1. cache.openCount > 0 /\ (w => cache.lockCount > 0)
      BY <2>1, <2>2, <1>a
    <3> QED
      BY Zenon, <2>2, <3>1, DecrementedFacts
  <2>4. fuse.rpc = "NONE"
    BY Zenon, <2>1, IdleFacts
  <2>5. CASE cache' = e /\ w /\ e.lockCount = 0 /\ e.dirty /\ Ask([f EXCEPT !.data = e.data, !.ver = e.ver], "UPDATE")
    <3>1. fuse'.rpc = "UPDATE" /\ fuse'.st = "asked"
      BY Zenon, <2>5, IdleFacts DEF Ask, FuseType
    <3>2. Present'
      BY Zenon, <2>3, <2>5, <1>b DEF Present
    <3>3. cache'.dirty = cache.dirty /\ cache'.data = cache.data /\ e.dirty
      BY Zenon, <2>3, <2>5
    <3>4. cache'.dirty
      BY Zenon, <2>5
    <3>5. mine' >= 0 => cache'.data = mine'
      BY Zenon, <2>1, <2>2, <3>3, <1>c
    <3> HIDE DEF e
    <3> QED
      BY Zenon, <3>1, <3>2, <3>4, <3>5 DEF BufferKept
  <2>6. CASE cache' = e /\ ~e.dirty /\ Ask(f, "RELEASE")
    <3>1. fuse'.rpc = "RELEASE"
      BY Zenon, <2>6, IdleFacts DEF Ask, FuseType
    <3>2. ~(mine >= 0)
      BY Zenon, <2>2, <2>3, <2>6, <1>c
    <3> QED
      BY Zenon, <2>1, <2>6, <3>1, <3>2, <1>e
  <2>7. CASE ~(w /\ e.lockCount = 0) /\ fuse' = Idle
    <3>1. wr > 0 => e.lockCount > 0
      BY <2>3, <2>7, <1>a
    <3>2. CASE cache' = e
      <4>1. Present' /\ fuse'.rpc = "NONE"
        BY Zenon, <2>3, <2>7, <3>2, <1>b, IdleFacts DEF Present
      <4> HIDE DEF e
      <4>2. cache'.dirty => cache'.lockCount > 0
        BY Zenon, <2>2, <2>3, <2>4, <3>1, <3>2, <1>c
      <4> QED
        BY Zenon, <2>1, <2>2, <2>3, <3>2, <4>1, <4>2, <1>c DEF BufferKept
    <3>3. CASE cache' = NoEntry /\ e.openCount = 0
      <4>1. wr = 0
        BY <2>1, <2>3, <2>7, <3>3, <1>a
      <4> QED
        BY Zenon, <2>1, <2>4, <2>7, <3>3, <4>1, <1>e, <1>f, IdleFacts DEF Present
    <3> QED
      BY Zenon, <1>16, <2>2, <2>7, <3>2, <3>3 DEF Release
  <2> QED
    BY Zenon, <1>16, <2>2, <2>5, <2>6, <2>7 DEF Release
<1>17. CASE Flushed
  <2>1. mine = -1 /\ UNCHANGED mine
    BY Zenon, <1>17 DEF Flushed, AnsweredTo, BufferKept
  <2>2. fuse'.rpc = "RELEASE"
    BY Zenon, <1>17, <1>a, AskFacts DEF Flushed, Rpcs
  <2>3. ~(Present' /\ cache'.dirty)
    <3>1. CASE Present
      <4>1. cache'.dirty = FALSE
        BY Zenon, <1>17, <3>1, FlushedFacts
      <4> QED
        BY Zenon, <4>1
    <3>2. CASE ~Present
      BY Zenon, <1>17, <3>2 DEF Flushed, Present
    <3> QED
      BY Zenon, <3>1, <3>2
  <2> QED
    BY <2>1, <2>2, <2>3, <1>e
<1>18. CASE Dropped \/ Unlink \/ Unlinked
  BY Zenon, <1>18 DEF Dropped, Unlink, Unlinked, AnsweredTo, NoDelete
<1>19. fuse = Idle => fuse.rpc # "UPDATE"
  BY Zenon, IdleFacts
<1> QED
  BY Zenon, <1>1, <1>2, <1>3, <1>4, <1>5, <1>6, <1>7, <1>8, <1>9, <1>10, <1>11, <1>12, <1>13, <1>14, <1>15,
     <1>16, <1>17, <1>18, <1>19 DEF Next, Open

\* UnflushedWriteKept for every mount: no push, open, read or failed call
\* takes away what was written here and not yet flushed.
THEOREM BufferCorrect == Spec => []UnflushedWriteKept
<1>1. Init => BufferInv
  <2> SUFFICES ASSUME Init PROVE BufferInv
    BY Zenon
  <2>1. fuse.rpc = "NONE" /\ ~(mine >= 0) /\ ~Present
    BY IdleFacts DEF Init, Present
  <2> QED
    BY Zenon, <2>1 DEF BufferInv, BufferKept
<1>2. Typed /\ Typed' /\ CountsInv /\ BufferInv /\ [Next]_vars => BufferInv'
  <2> SUFFICES ASSUME Typed, Typed', CountsInv, BufferInv, [Next]_vars,
                      events' \cap {"deleted", "refetched", "unlocked"} = {}
               PROVE  BufferKept'
    BY Zenon DEF BufferInv
  <2>1. events \cap {"deleted", "refetched", "unlocked"} = {} /\ "deleted" \notin events
    BY Zenon, EventsGrow
  <2> QED
    BY Zenon, <2>1, BufferStep DEF CountsInv, BufferInv
<1>3. BufferInv => UnflushedWriteKept
  BY Zenon DEF BufferInv, BufferKept, UnflushedWriteKept
<1> QED
  BY <1>1, <1>2, <1>3, CountsInvariant, PTL DEF Spec

-----------------------------------------------------------------------------
(* What the callbacks do to the entry.                                     *)

\* Nothing is on its way from the server to this mount.
Settled == channel = <<>> /\ push = NoPush

\* The server has carried out call r.
Got(r) == fuse.rpc = r /\ fuse.st = "answered" /\ fuse.ok

\* op_create between the creation of the file and its first handle.
Locking == fuse.op = "create" /\ (Got("CREATE") \/ fuse.rpc = "ACQUIRE")

\* A step of the FUSE thread that is not about a delete.
Callback ==
    \/ \E w, t \in BOOLEAN : (t => w) /\ Open(w, t)
    \/ OpenAcquired \/ OpenFetched \/ Released
    \/ Lookup \/ (\E t \in BOOLEAN : Create(t)) \/ Created \/ CreateLocked \/ CreateUndone
    \/ Read \/ ReadFetched \/ Write \/ Truncate
    \/ (\E w \in BOOLEAN : Release(w)) \/ Flushed

\* Bytes and version of the entry are left alone, the entry is erased, or an
\* empty one is made.
Keeps ==
    /\ fuse.rpc # "UPDATE" /\ fuse'.rpc # "UPDATE" /\ ~Got("READ")'
    /\ Locking' => Locking /\ UNCHANGED cache
    /\ Present' =>
         \/ /\ Present /\ cache'.ver = cache.ver /\ cache'.data = cache.data
            /\ cache'.dirty = cache.dirty
            /\ cache'.openCount > 0 => cache.openCount > 0
            /\ cache.lockCount > 0 /\ cache'.dirty => cache'.lockCount > 0
         \/ ~cache'.dirty /\ cache'.openCount = 0

\* The entry gets bytes of this mount.
Dirties ==
    /\ Present /\ Present' /\ cache'.dirty /\ cache'.ver = cache.ver
    /\ cache'.openCount > 0 => cache.openCount > 0
    /\ "unlocked" \notin events' => cache'.lockCount > 0
    /\ fuse.rpc # "UPDATE" /\ fuse' = Idle

\* The entry gets what READ returned.
Fetches ==
    /\ Got("READ") /\ fuse' = Idle
    /\ cache'.ver = fuse.ver /\ (~cache'.dirty => cache'.data = fuse.data)
    /\ cache'.dirty => cache'.lockCount > 0
    /\ "overtaken" \notin events' => ~(Entry.ver > fuse.ver)

\* A new file gets its entry.
Makes ==
    /\ Locking /\ Got("ACQUIRE") /\ fuse' = Idle
    /\ cache'.ver = 0 /\ cache'.data = 0 /\ ~cache'.dirty
    /\ "overtaken" \notin events' => ~(Entry.ver > 0)

\* The last writable handle has the entry flushed ...
Flushes ==
    /\ fuse = Idle /\ wr > 0 /\ fuse'.rpc = "UPDATE" /\ fuse'.st = "asked"
    /\ fuse'.ver = cache.ver /\ fuse'.data = cache.data
    /\ Present /\ cache.openCount > 0 /\ cache.lockCount > 0
    /\ Present' /\ cache'.dirty /\ cache'.ver = cache.ver /\ cache'.data = cache.data

\* ... and the flush was answered.
FlushEnds ==
    /\ fuse.rpc = "UPDATE" /\ fuse.st = "answered" /\ fuse'.rpc = "RELEASE"
    /\ Present' =>
         /\ Present /\ ~cache'.dirty /\ cache'.data = cache.data
         /\ cache'.openCount = cache.openCount
         /\ cache'.ver = IF fuse.ok /\ fuse.ver # 0 THEN fuse.ver ELSE cache.ver
    /\ "refused" \notin events' => fuse.ok

\* The callback ends: no call is under way.
LEMMA IdleGot ==
  ASSUME fuse' = Idle
  PROVE  fuse'.rpc # "UPDATE" /\ (\A r \in Rpcs : ~Got(r)') /\ ~Locking'
BY Zenon, IdleFacts DEF Got, Locking, Rpcs

\* The callback asks the server: no answer is there yet.
LEMMA AskedGot ==
  ASSUME NEW f \in FuseType, NEW r \in Rpcs, Ask(f, r), r # "UPDATE",
         ~(f.op = "create" /\ r = "ACQUIRE")
  PROVE  fuse'.rpc # "UPDATE" /\ (\A s \in Rpcs : ~Got(s)') /\ ~Locking'
BY Zenon, AskFacts DEF Got, Locking

\* The entry is left alone or made empty.
LEMMA KeepsEntry ==
  ASSUME Typed, EntryCounts, fuse.rpc # "UPDATE", fuse'.rpc # "UPDATE", ~Got("READ")',
         Locking' => Locking /\ UNCHANGED cache,
         cache' \in {cache, Entry, Evicted}
  PROVE  Keeps
<1>1. CASE cache' = cache
  BY Zenon, <1>1 DEF Keeps, Present
<1>2. CASE cache' = Entry
  <2>1. CASE Present
    BY Zenon, <1>1, <1>2, <2>1 DEF Entry
  <2>2. CASE ~Present
    <3>1. cache'.dirty = FALSE /\ cache'.openCount = 0
      BY Zenon, <1>2, <2>2 DEF Entry, Fresh
    <3>2. ~cache'.dirty
      BY Zenon, <3>1
    <3> QED
      BY Zenon, <3>1, <3>2 DEF Keeps
  <2> QED
    BY Zenon, <2>1, <2>2
<1>3. CASE cache' = Evicted
  <2>1. CASE cache' = NoEntry
    BY Zenon, <2>1 DEF Keeps, Present
  <2> QED
    BY Zenon, <1>1, <1>3, <2>1 DEF Evicted
<1> QED
  BY Zenon, <1>1, <1>2, <1>3

\* op_open with the lock it needs: a handle more, or a fetch.
LEMMA OpensEntry ==
  ASSUME Typed, EntryCounts, NEW f \in FuseType, f.op = "open", f.t => f.w, OpenLocked(Entry, f),
         wr + ro < MaxHandles, fuse.rpc # "UPDATE"
  PROVE  Keeps \/ Dirties
<1>1. CASE cache' = Entry /\ Ask(f, "READ")
  <2>1. fuse'.rpc # "UPDATE" /\ ~Got("READ")' /\ ~Locking'
    BY Zenon, <1>1, AskedGot DEF Rpcs
  <2> QED
    BY Zenon, <1>1, <2>1, KeepsEntry
<1>2. CASE Entry.openCount > 0 /\ Opened(Entry, f)
  <2>1. Present /\ Entry = cache /\ cache \in EntryType /\ wr \in Nat /\ ro \in Nat
        /\ cache.openCount <= wr + ro /\ cache.lockCount <= wr
    BY <1>2, EntryFacts DEF Entry, Fresh, Typed, CacheTyped
  <2>2. /\ cache' \in EntryType /\ fuse' = Idle
        /\ cache'.openCount = cache.openCount + 1 /\ cache'.ver = cache.ver
        /\ f.w => cache'.lockCount = cache.lockCount + 1
        /\ ~f.w => cache'.lockCount = cache.lockCount
        /\ f.t => cache'.dirty
        /\ ~f.t => cache'.data = cache.data /\ cache'.dirty = cache.dirty
    BY Zenon, <1>2, <2>1, OpenedFacts
  <2>3. fuse'.rpc # "UPDATE" /\ ~Got("READ")' /\ ~Locking' /\ Present'
    BY Zenon, <2>2, IdleGot, EntryFacts DEF Present, Rpcs
  <2>4. cache.lockCount \in Nat /\ cache.openCount > 0
    BY <1>2, <2>1, SquidFSAssumption DEF EntryType
  <2>5. CASE f.t
    <3>1. cache'.lockCount > 0 /\ cache'.dirty
      BY <2>2, <2>4, <2>5
    <3> QED
      BY Zenon, <2>1, <2>2, <2>4, <3>1, EntryFacts DEF Dirties, Present
  <2>6. CASE ~f.t
    <3>1. cache.lockCount > 0 => cache'.lockCount > 0
      BY <2>2, <2>4
    <3> QED
      BY Zenon, <2>1, <2>2, <2>3, <2>4, <2>6, <3>1 DEF Keeps
  <2> QED
    BY Zenon, <2>5, <2>6
<1> QED
  BY Zenon, <1>1, <1>2 DEF OpenLocked

\* op_open up to its first call.
LEMMA BeginsEntry ==
  ASSUME Typed, EntryCounts, NEW w \in BOOLEAN, NEW t \in BOOLEAN, t => w, wr + ro < MaxHandles, fuse.rpc # "UPDATE",
         OpenBegin([Idle EXCEPT !.op = "open", !.w = w, !.t = t])
  PROVE  Keeps \/ Dirties
<1> DEFINE f == [Idle EXCEPT !.op = "open", !.w = w, !.t = t]
<1>1. f \in FuseType /\ f.op = "open" /\ f.w = w /\ f.t = t
  BY Zenon, IdleFacts DEF FuseType, Callbacks
<1>2. OpenLocked(Entry, f) \/ (cache' = Entry /\ Ask(f, "ACQUIRE"))
  BY Zenon DEF OpenBegin
<1> HIDE DEF f
<1>3. CASE cache' = Entry /\ Ask(f, "ACQUIRE")
  <2>1. fuse'.rpc # "UPDATE" /\ ~Got("READ")' /\ ~Locking'
    BY Zenon, <1>1, <1>3, AskedGot DEF Rpcs
  <2> QED
    BY Zenon, <1>3, <2>1, KeepsEntry
<1> QED
  BY Zenon, <1>1, <1>2, <1>3, OpensEntry

\* What op_release leaves.
LEMMA ReleasesEntry ==
  ASSUME Typed, EntryCounts, NEW w \in BOOLEAN, Release(w)
  PROVE  Keeps \/ Flushes
<1>1. /\ (w /\ wr > 0) \/ (~w /\ ro > 0)
      /\ fuse = Idle /\ wr \in Nat /\ ro \in Nat
  BY Zenon DEF Release, Typed, CacheTyped
<1>2. Present /\ cache.openCount = wr + ro /\ cache.lockCount = wr /\ cache \in EntryType
      /\ NoEntry \notin EntryType
  BY <1>1, EntryFacts DEF EntryCounts
<1> DEFINE f == [Idle EXCEPT !.op = "release", !.w = w]
           e == Decremented(w)
<1>3. /\ e \in EntryType /\ e.openCount = (wr + ro) - 1
      /\ w => e.lockCount = wr - 1
      /\ ~w => e.lockCount = wr
      /\ e.data = cache.data /\ e.dirty = cache.dirty /\ e.ver = cache.ver
  <2>1. cache.openCount > 0 /\ (w => cache.lockCount > 0)
    BY <1>1, <1>2
  <2> QED
    BY Zenon, <1>2, <2>1, DecrementedFacts
<1>4. fuse.rpc = "NONE" /\ f \in FuseType /\ f.op = "release"
  BY Zenon, <1>1, IdleFacts DEF FuseType, Callbacks
<1>5. CASE cache' = e /\ w /\ e.dirty /\ Ask([f EXCEPT !.data = e.data, !.ver = e.ver], "UPDATE")
  <2>1. e.data \in Contents /\ e.ver \in Nat
    BY Zenon, <1>3 DEF EntryType
  <2>2. /\ fuse'.rpc = "UPDATE" /\ fuse'.st = "asked" /\ fuse'.ver = e.ver /\ fuse'.data = e.data
    <3> HIDE DEF f, e
    <3> QED
      BY Zenon, <1>4, <1>5, <2>1 DEF Ask, FuseType
  <2>3. wr > 0 /\ cache.openCount > 0 /\ cache.lockCount > 0
    BY <1>1, <1>2, <1>5
  <2> HIDE DEF f, e
  <2>4. cache'.dirty
    BY Zenon, <1>5
  <2>5. Present'
    BY Zenon, <1>2, <1>3, <1>5 DEF Present
  <2> QED
    BY Zenon, <1>1, <1>2, <1>3, <1>5, <2>2, <2>3, <2>4, <2>5 DEF Flushes
<1>6. ASSUME cache' = e \/ cache' = NoEntry, fuse'.rpc # "UPDATE", ~Got("READ")', ~Locking',
             w /\ e.lockCount = 0 => ~e.dirty
      PROVE  Keeps
  <2> HIDE DEF e, f
  <2>1. CASE cache' = NoEntry
    BY Zenon, <1>4, <1>6, <2>1 DEF Keeps, Present
  <2>2. CASE cache' = e
    <3>1. cache'.openCount > 0 => cache.openCount > 0
      BY <1>1, <1>2, <1>3, <2>2
    <3>2. cache.lockCount > 0 /\ cache'.dirty => cache'.lockCount > 0
      <4>1. CASE w /\ e.lockCount = 0
        BY Zenon, <4>1, <1>6, <2>2
      <4>2. CASE ~(w /\ e.lockCount = 0)
        BY <1>1, <1>2, <1>3, <2>2, <4>2
      <4> QED
        BY Zenon, <4>1, <4>2
    <3> QED
      BY Zenon, <1>2, <1>3, <1>4, <1>6, <2>2, <3>1, <3>2 DEF Keeps
  <2> QED
    BY Zenon, <1>6, <2>1, <2>2
<1>7. CASE cache' = e /\ ~e.dirty /\ Ask(f, "RELEASE")
  <2>1. fuse'.rpc # "UPDATE" /\ ~Got("READ")' /\ ~Locking'
    <3> HIDE DEF f
    <3> QED
      BY Zenon, <1>4, <1>7, AskedGot DEF Rpcs
  <2> QED
    BY Zenon, <1>6, <1>7, <2>1
<1>8. CASE ~(w /\ e.lockCount = 0) /\ fuse' = Idle /\ (cache' = e \/ cache' = NoEntry)
  <2>1. fuse'.rpc # "UPDATE" /\ ~Got("READ")' /\ ~Locking'
    BY Zenon, <1>8, IdleGot DEF Rpcs
  <2> QED
    BY Zenon, <1>6, <1>8, <2>1
<1> QED
  BY Zenon, <1>2, <1>5, <1>7, <1>8 DEF Release

\* The callbacks leave alone what the server and the connection hold.
LEMMA CallbackServer ==
  ASSUME Callback
  PROVE  UNCHANGED <<srv, lock, channel, push>>
BY Zenon DEF Callback, Open, OpenAcquired, OpenFetched, Released, Lookup, Create, Created, CreateLocked,
   CreateUndone, Read, ReadFetched, Write, Truncate, Release, Flushed, envUnchanged

\* Every callback does one of these things to the entry.
LEMMA CallbackSteps ==
  ASSUME Typed, EntryCounts, FirstHandle, Callback
  PROVE  Keeps \/ Dirties \/ Fetches \/ Makes \/ Flushes \/ FlushEnds
<1> USE DEF envUnchanged
<1>b. /\ fuse \in FuseType /\ Control /\ (fuse.t => fuse.w)
      /\ fuse.op = "open" => wr + ro < MaxHandles /\ Present
      /\ fuse.op = "lookup" => wr + ro < MaxHandles
      /\ wr \in Nat /\ ro \in Nat
  BY Zenon DEF Typed, FuseTyped, CacheTyped, Opening, FirstHandle
<1>c. fuse = Idle => fuse.rpc = "NONE"
  BY Zenon, IdleFacts
<1>1. ASSUME NEW w \in BOOLEAN, NEW t \in BOOLEAN, t => w, Open(w, t)
      PROVE  Keeps \/ Dirties
  BY Zenon, <1>1, <1>c, BeginsEntry DEF Open
<1>2. CASE OpenAcquired
  <2>1. fuse.op = "open" /\ fuse.rpc = "ACQUIRE"
    BY Zenon, <1>2 DEF OpenAcquired, AnsweredTo
  <2>2. CASE OpenLocked(cache, fuse)
    <3>1. OpenLocked(Entry, fuse)
      BY Zenon, <2>1, <2>2, <1>b DEF Entry
    <3> QED
      BY Zenon, <2>1, <3>1, <1>b, OpensEntry
  <2>3. CASE cache' = Evicted /\ fuse' = Idle
    BY Zenon, <2>1, <2>3, IdleGot, KeepsEntry DEF Rpcs
  <2> QED
    BY Zenon, <1>2, <1>b, <2>1, <2>2, <2>3 DEF OpenAcquired
<1>3. CASE OpenFetched
  <2>1. fuse.op = "open" /\ fuse.rpc = "READ" /\ fuse.st = "answered"
    BY Zenon, <1>3 DEF OpenFetched, AnsweredTo
  <2>2. CASE fuse.ok /\ Opened(Fetched, fuse) /\ events' = events \cup FetchEvents
    <3>1. /\ Fetched \in EntryType /\ Fetched.openCount = Entry.openCount
          /\ Fetched.lockCount = Entry.lockCount
          /\ Fetched.data = fuse.data /\ Fetched.ver = fuse.ver /\ Fetched.dirty = FALSE
      BY Zenon, FetchedFacts
    <3>2. Fetched.openCount <= wr + ro /\ Fetched.lockCount <= wr
      BY Zenon, <3>1, EntryFacts
    <3>3. /\ cache'.ver = fuse.ver /\ fuse' = Idle
          /\ fuse.w => cache'.lockCount = Fetched.lockCount + 1
          /\ ~fuse.t => cache'.data = fuse.data /\ cache'.dirty = Fetched.dirty
          /\ fuse.t => cache'.dirty
      BY Zenon, <2>1, <2>2, <3>1, <3>2, <1>b, OpenedFacts
    <3>4. Fetched.lockCount + 1 > 0
      BY <3>1, SquidFSAssumption DEF EntryType
    <3>5. ~Fetched.dirty
      BY Zenon, <3>1
    <3>6. cache'.dirty <=> fuse.t
      BY Zenon, <3>3, <3>5
    <3>7. cache'.dirty => cache'.lockCount > 0
      BY Zenon, <3>3, <3>4, <3>6, <1>b
    <3>8. "overtaken" \notin events' => ~(Entry.ver > fuse.ver)
      BY Zenon, <2>2 DEF FetchEvents
    <3> QED
      BY Zenon, <2>1, <2>2, <3>3, <3>6, <3>7, <3>8 DEF Fetches, Got
  <2>3. CASE UNCHANGED cache /\ Ask(fuse, "RELEASE")
    BY Zenon, <2>1, <2>3, <1>b, AskedGot, KeepsEntry DEF Rpcs
  <2>4. CASE cache' = Evicted /\ fuse' = Idle
    BY Zenon, <2>1, <2>4, IdleGot, KeepsEntry DEF Rpcs
  <2> QED
    BY Zenon, <1>3, <2>2, <2>3, <2>4 DEF OpenFetched
<1>4. CASE Released
  BY Zenon, <1>4, IdleGot, KeepsEntry DEF Released, Rpcs
<1>5. CASE Lookup
  <2>1. fuse.rpc = "NONE" /\ fuse'.rpc = "NONE" /\ fuse'.op = "lookup"
    BY Zenon, <1>5, <1>c, IdleFacts DEF Lookup, FuseType
  <2> QED
    BY Zenon, <1>5, <2>1, KeepsEntry DEF Lookup, Got, Locking
<1>6. ASSUME NEW t \in BOOLEAN, Create(t)
      PROVE  Keeps \/ Dirties
  <2>1. fuse.op = "lookup" /\ fuse.rpc = "NONE"
    BY Zenon, <1>6, <1>b DEF Create, Control
  <2>2. CASE UNCHANGED cache /\ fuse' = [fuse EXCEPT !.op = "stuck"]
    <3>1. fuse'.rpc = "NONE" /\ fuse'.op = "stuck"
      BY Zenon, <2>1, <2>2, <1>b DEF FuseType
    <3> QED
      BY Zenon, <2>1, <2>2, <3>1, KeepsEntry DEF Got, Locking
  <2>3. CASE UNCHANGED cache /\ Ask([Idle EXCEPT !.op = "create", !.w = TRUE], "CREATE")
    <3>1. fuse'.rpc = "CREATE" /\ fuse'.st = "asked"
      BY Zenon, <2>3, IdleFacts DEF Ask, FuseType
    <3> QED
      BY Zenon, <2>1, <2>3, <3>1, KeepsEntry DEF Got, Locking
  <2>4. CASE OpenBegin([Idle EXCEPT !.op = "open", !.w = TRUE, !.t = t])
    BY Zenon, <2>1, <2>4, <1>b, BeginsEntry
  <2> QED
    BY Zenon, <1>6, <2>2, <2>3, <2>4 DEF Create
<1>7. CASE Created
  <2>1. fuse.op = "create" /\ fuse.rpc = "CREATE" /\ fuse.st = "answered" /\ UNCHANGED cache
    BY Zenon, <1>7 DEF Created, AnsweredTo
  <2>2. CASE fuse.ok /\ Ask(fuse, "ACQUIRE")
    <3>1. fuse'.rpc = "ACQUIRE" /\ Locking
      BY Zenon, <2>1, <2>2, <1>b, AskFacts DEF Rpcs, Locking, Got
    <3> QED
      BY Zenon, <2>1, <3>1, KeepsEntry DEF Got
  <2>3. CASE fuse' = Idle
    BY Zenon, <2>1, <2>3, IdleGot, KeepsEntry DEF Rpcs
  <2> QED
    BY Zenon, <1>7, <2>2, <2>3 DEF Created
<1>8. CASE CreateLocked
  <2>1. fuse.op = "create" /\ fuse.rpc = "ACQUIRE" /\ fuse.st = "answered"
    BY Zenon, <1>8 DEF CreateLocked, AnsweredTo
  <2>2. CASE /\ fuse.ok /\ cache' = [Fresh EXCEPT !.lockCount = 1, !.openCount = 1] /\ fuse' = Idle
             /\ events' = events \cup (IF Entry.ver > 0 THEN {"overtaken"} ELSE {})
    <3>1. cache'.ver = 0 /\ cache'.data = 0 /\ cache'.dirty = FALSE
      BY Zenon, <2>2 DEF Fresh
    <3>2. ~cache'.dirty
      BY Zenon, <3>1
    <3> QED
      BY Zenon, <2>1, <2>2, <3>1, <3>2 DEF Makes, Locking, Got
  <2>3. CASE UNCHANGED cache /\ Ask(fuse, "DELETE")
    BY Zenon, <2>1, <2>3, <1>b, AskedGot, KeepsEntry DEF Rpcs
  <2> QED
    BY Zenon, <1>8, <2>2, <2>3 DEF CreateLocked
<1>9. CASE CreateUndone
  <2>1. fuse.rpc = "DELETE"
    BY Zenon, <1>9 DEF CreateUndone, AnsweredTo
  <2> QED
    BY Zenon, <1>9, <2>1, IdleGot, KeepsEntry DEF CreateUndone, Rpcs
<1>10. CASE Read
  <2>1. fuse.rpc = "NONE" /\ fuse'.rpc = "READ" /\ fuse'.st = "asked"
    BY Zenon, <1>10, IdleFacts DEF Read, Ask, FuseType
  <2> QED
    BY Zenon, <1>10, <2>1, KeepsEntry DEF Read, Got, Locking
<1>11. CASE ReadFetched
  <2>1. fuse.rpc = "READ" /\ fuse.st = "answered" /\ fuse' = Idle
    BY Zenon, <1>11 DEF ReadFetched, AnsweredTo
  <2>2. CASE fuse.ok /\ cache' = Fetched /\ events' = events \cup FetchEvents
    <3>1. cache'.data = fuse.data /\ cache'.ver = fuse.ver
      BY Zenon, <2>2, FetchedFacts
    <3>2. ~cache'.dirty
      BY Zenon, <2>2, FetchedFacts
    <3>3. "overtaken" \notin events' => ~(Entry.ver > fuse.ver)
      BY Zenon, <2>2 DEF FetchEvents
    <3> QED
      BY Zenon, <2>1, <2>2, <3>1, <3>2, <3>3 DEF Fetches, Got
  <2>3. CASE UNCHANGED cache
    BY Zenon, <2>1, <2>3, IdleGot, KeepsEntry DEF Rpcs
  <2> QED
    BY Zenon, <1>11, <2>2, <2>3 DEF ReadFetched
<1>12. CASE Write \/ Truncate
  <2>1. PICK d \in Contents : Present /\ Modified(d)
    BY <1>12, SquidFSAssumption DEF Write, Truncate, Counted, Contents, Typed, DataTyped
  <2>2. UNCHANGED fuse /\ fuse = Idle
    BY Zenon, <1>12 DEF Write, Truncate
  <2>3. "unlocked" \notin events' => cache.lockCount > 0
    <3>1. CASE Write
      BY Zenon, <3>1 DEF Write, EntryCounts
    <3>2. CASE Truncate
      BY <3>2, <1>b DEF Truncate, EntryCounts
    <3> QED
      BY Zenon, <1>12, <3>1, <3>2
  <2>4. /\ cache' \in EntryType /\ cache'.lockCount = cache.lockCount
        /\ cache'.openCount = cache.openCount /\ cache'.ver = cache.ver /\ cache'.dirty = TRUE
    BY Zenon, <2>1, ModifiedFacts
  <2>5. Present' /\ cache'.dirty
    BY Zenon, <2>4, EntryFacts DEF Present
  <2> QED
    BY Zenon, <2>1, <2>2, <2>3, <2>4, <2>5, <1>c DEF Dirties
<1>13. CASE Flushed
  <2>1. fuse.rpc = "UPDATE" /\ fuse.st = "answered" /\ fuse'.rpc = "RELEASE"
    BY Zenon, <1>13, <1>b, AskFacts DEF Flushed, AnsweredTo, Rpcs
  <2>2. "refused" \notin events' => fuse.ok
    BY Zenon, <1>13 DEF Flushed
  <2>3. CASE Present
    <3> DEFINE v == IF fuse.ok /\ fuse.ver # 0 THEN fuse.ver ELSE cache.ver
    <3>1. cache' = [cache EXCEPT !.dirty = FALSE, !.ver = v]
      BY Zenon, <1>13, <2>3 DEF Flushed
    <3>2. /\ cache \in EntryType /\ cache'.dirty = FALSE /\ cache'.data = cache.data
          /\ cache'.openCount = cache.openCount
      BY Zenon, <1>13, <2>3, FlushedFacts, EntryFacts
    <3>3. cache'.ver = v
      <4> HIDE DEF v
      <4> QED
        BY Zenon, <3>1, <3>2 DEF EntryType
    <3>4. ~cache'.dirty
      BY Zenon, <3>2
    <3> QED
      BY Zenon, <2>1, <2>2, <2>3, <3>2, <3>3, <3>4 DEF FlushEnds
  <2>4. CASE ~Present
    BY Zenon, <1>13, <2>1, <2>2, <2>4 DEF Flushed, FlushEnds, Present
  <2> QED
    BY Zenon, <2>3, <2>4
<1> QED
  BY Zenon, <1>1, <1>2, <1>3, <1>4, <1>5, <1>6, <1>7, <1>8, <1>9, <1>10, <1>11, <1>12, <1>13, ReleasesEntry
     DEF Callback

-----------------------------------------------------------------------------
(* What a flush replaces.                                                  *)

\* The last thing on its way to this mount, and the entry, have the server's
\* version.
Incoming == IF channel # <<>> THEN channel[Len(channel)] ELSE push
HasCurrent == Present /\ cache.ver = srv.ver

\* The pushes on the way end with the current version, or with the connection.
PushesCurrent == Incoming \in {Cut, NoPush} \/ Incoming.ver = srv.ver

\* Whoever holds the lock has seen every push; what is dirty is locked.
LockSettled ==
    /\ lock = "me" => Settled
    /\ Present /\ cache.dirty => cache.lockCount > 0 \/ fuse.rpc = "UPDATE"

\* An open file has the server's version once the pushes are handled.
OpenCurrent == Present /\ cache.openCount > 0 /\ Settled /\ ~Got("UPDATE") => HasCurrent

\* So has what READ returned, unless the entry has it already; a file that
\* op_create made is new; a flush names the version it replaces.
CallCurrent ==
    /\ Got("READ") => /\ srv.exists /\ fuse.ver <= srv.ver
                      /\ Settled => fuse.ver = srv.ver \/ HasCurrent
    /\ Locking => /\ srv.exists
                  /\ Settled => srv.ver = 0 \/ HasCurrent
    /\ Got("UPDATE") => fuse.ver = srv.ver /\ fuse.ver > 0
    /\ fuse.rpc = "UPDATE" /\ fuse.st = "asked" => fuse.ver = srv.ver

FromCurrent == PushesCurrent /\ LockSettled /\ OpenCurrent /\ CallCurrent

CurrentInv ==
    events \cap {"lost", "expired", "deleted", "unlocked", "overtaken"} = {} => FromCurrent

\* Taking the first of several pushes leaves the last one where it is.
LEMMA LastOfTail ==
  ASSUME NEW S, NEW s \in Seq(S), s # <<>>
  PROVE  IF Tail(s) = <<>> THEN Head(s) = s[Len(s)] ELSE Tail(s)[Len(Tail(s))] = s[Len(s)]
<1> DEFINE t == Tail(s)
<1>1. /\ t \in Seq(S) /\ Len(t) = Len(s) - 1 /\ Len(s) \in Nat /\ Len(s) > 0
      /\ \A i \in 1 .. Len(s) - 1 : t[i] = s[i + 1]
      /\ Head(s) = s[1]
  OBVIOUS
<1> HIDE DEF t
<1>2. t = <<>> => Len(t) = 0
  OBVIOUS
<1>3. t # <<>> => Len(t) > 0
  BY <1>1
<1>4. IF t = <<>> THEN Head(s) = s[Len(s)] ELSE t[Len(t)] = s[Len(s)]
  BY <1>1, <1>2, <1>3
<1> QED
  BY Zenon, <1>4 DEF t

\* The callbacks.
LEMMA CurrentCallback ==
  ASSUME Typed, Typed', EntryCounts, FirstHandle, LockFollows, FromCurrent, Callback,
         "unlocked" \notin events', "overtaken" \notin events'
  PROVE  FromCurrent'
<1>a. UNCHANGED <<srv, lock, channel, push>>
  BY Zenon, CallbackServer
<1>b. srv.ver \in Nat /\ fuse.ver \in Nat
  BY Zenon DEF Typed, FuseTyped, FuseType, DataTyped, SrvType
<1>c. Settled' = Settled /\ PushesCurrent' /\ (lock' = "me" => Settled')
  BY Zenon, <1>a DEF Settled, PushesCurrent, Incoming, FromCurrent, LockSettled
<1>d. fuse = Idle => ~Got("UPDATE") /\ fuse.rpc # "UPDATE"
  BY Zenon, IdleFacts DEF Got
<1>e. ASSUME fuse' = Idle
      PROVE  CallCurrent' /\ fuse'.rpc # "UPDATE" /\ ~Got("UPDATE")'
  BY Zenon, <1>e, IdleGot DEF CallCurrent, Rpcs
<1>1. CASE Keeps
  <2>1. Present' /\ cache'.dirty => cache'.lockCount > 0
    BY Zenon, <1>1 DEF Keeps, FromCurrent, LockSettled
  <2>2. OpenCurrent'
    <3>1. ~Got("UPDATE")
      BY Zenon, <1>1 DEF Keeps, Got
    <3> QED
      BY <1>1, <1>a, <1>c, <3>1 DEF Keeps, FromCurrent, OpenCurrent, HasCurrent
  <2>3. CallCurrent'
    <3>1. ~Got("READ")' /\ ~Got("UPDATE")' /\ fuse'.rpc # "UPDATE"
      BY Zenon, <1>1 DEF Keeps, Got
    <3>2. Locking' => srv.exists /\ (Settled => srv.ver = 0 \/ HasCurrent')
      BY Zenon, <1>1, <1>a DEF Keeps, FromCurrent, CallCurrent, HasCurrent, Present
    <3> QED
      BY Zenon, <1>a, <1>c, <3>1, <3>2 DEF CallCurrent
  <2> QED
    BY Zenon, <1>c, <2>1, <2>2, <2>3 DEF FromCurrent, LockSettled
<1>2. CASE Dirties
  <2>1. CallCurrent' /\ fuse.rpc # "UPDATE"
    BY Zenon, <1>2, <1>e DEF Dirties
  <2>2. OpenCurrent'
    <3>1. ~Got("UPDATE")
      BY Zenon, <2>1 DEF Got
    <3> QED
      BY Zenon, <1>2, <1>a, <1>c, <3>1 DEF Dirties, FromCurrent, OpenCurrent, HasCurrent
  <2> QED
    BY Zenon, <1>2, <1>c, <2>1, <2>2 DEF Dirties, FromCurrent, LockSettled
<1>3. CASE Fetches
  <2>1. Settled => fuse.ver = srv.ver
    <3>1. Got("READ") /\ ~(Entry.ver > fuse.ver)
      BY Zenon, <1>3 DEF Fetches
    <3>2. fuse.ver <= srv.ver /\ (Settled => fuse.ver = srv.ver \/ HasCurrent)
      BY Zenon, <3>1 DEF FromCurrent, CallCurrent
    <3>3. HasCurrent => Entry.ver = srv.ver
      BY Zenon DEF HasCurrent, Entry
    <3> QED
      BY <3>1, <3>2, <3>3, <1>b
  <2>2. OpenCurrent'
    BY Zenon, <1>3, <1>a, <1>c, <2>1 DEF Fetches, OpenCurrent, HasCurrent
  <2> QED
    BY Zenon, <1>3, <1>c, <1>e, <2>2 DEF Fetches, FromCurrent, LockSettled
<1>4. CASE Makes
  <2>1. Settled => srv.ver = 0
    <3>1. Locking /\ ~(Entry.ver > 0) /\ Entry.ver \in Nat
      BY Zenon, <1>4, EntryFacts DEF Makes, EntryType
    <3>2. Settled => srv.ver = 0 \/ Entry.ver = srv.ver
      BY Zenon, <3>1 DEF FromCurrent, CallCurrent, HasCurrent, Entry
    <3> QED
      BY <3>1, <3>2
  <2>2. OpenCurrent'
    BY Zenon, <1>4, <1>a, <1>c, <2>1 DEF Makes, OpenCurrent, HasCurrent
  <2> QED
    BY Zenon, <1>4, <1>c, <1>e, <2>2 DEF Makes, FromCurrent, LockSettled
<1>5. CASE Flushes
  <2>1. HasCurrent
    <3>1. lock = "me" /\ ~Got("UPDATE")
      BY Zenon, <1>5, <1>d DEF Flushes, LockFollows
    <3>2. Settled
      BY Zenon, <3>1 DEF FromCurrent, LockSettled
    <3> QED
      BY Zenon, <1>5, <3>1, <3>2 DEF Flushes, FromCurrent, OpenCurrent
  <2>2. OpenCurrent'
    BY Zenon, <1>5, <1>a, <2>1 DEF Flushes, OpenCurrent, HasCurrent
  <2>3. CallCurrent'
    <3>1. fuse'.rpc = "UPDATE" /\ fuse'.st = "asked" /\ fuse'.ver = srv'.ver
      BY Zenon, <1>5, <1>a, <2>1 DEF Flushes, HasCurrent
    <3> QED
      BY Zenon, <3>1 DEF CallCurrent, Got, Locking
  <2> QED
    BY Zenon, <1>5, <1>c, <2>2, <2>3 DEF Flushes, FromCurrent, LockSettled
<1>6. CASE FlushEnds
  <2>1. OpenCurrent'
    <3> SUFFICES ASSUME Present', cache'.openCount > 0, Settled
                 PROVE  cache'.ver = srv.ver
      BY Zenon, <1>a, <1>c DEF OpenCurrent, HasCurrent
    <3>1. CASE fuse.ok
      <4>1. fuse.ver = srv.ver /\ fuse.ver > 0
        BY Zenon, <1>6, <3>1 DEF FlushEnds, Got, FromCurrent, CallCurrent
      <4> QED
        BY <1>6, <3>1, <4>1 DEF FlushEnds
    <3>2. CASE ~fuse.ok
      BY Zenon, <1>6, <3>2 DEF FlushEnds, Got, FromCurrent, OpenCurrent, HasCurrent
    <3> QED
      BY Zenon, <3>1, <3>2
  <2>2. CallCurrent'
    BY Zenon, <1>6 DEF FlushEnds, CallCurrent, Got, Locking
  <2> QED
    BY Zenon, <1>6, <1>c, <2>1, <2>2 DEF FlushEnds, FromCurrent, LockSettled
<1> QED
  BY Zenon, <1>1, <1>2, <1>3, <1>4, <1>5, <1>6, CallbackSteps

\* A call that the server carries out or refuses.
LEMMA CurrentRpc ==
  ASSUME Typed, Typed', NoDelete, EntryCounts, FirstHandle, HolderInv, LockFollows, FromCurrent, Rpc
  PROVE  FromCurrent'
<1>a. fuse \in FuseType /\ Control /\ srv \in SrvType /\ srv' \in SrvType /\ wr \in Nat /\ ro \in Nat
  BY Zenon DEF Typed, FuseTyped, DataTyped, CacheTyped
<1>b. /\ Settled /\ UNCHANGED <<cache, channel, push>> /\ fuse.st = "asked"
      /\ ~Got("READ") /\ ~Got("UPDATE") /\ ~Got("CREATE")
  BY Zenon DEF Rpc, Settled, Got
<1>c. Settled' /\ PushesCurrent'
  BY Zenon, <1>b DEF Settled, PushesCurrent, Incoming
<1>d. PICK ok \in BOOLEAN : /\ Answered(ok)
                            /\ ok => CanDo(fuse.rpc) /\ Carry(fuse.rpc)
                            /\ ~ok => UNCHANGED srv
  BY Zenon DEF Rpc
<1>e. /\ fuse'.op = fuse.op /\ fuse'.rpc = fuse.rpc /\ fuse'.st = "answered" /\ fuse'.ok = ok
      /\ fuse.rpc \in {"READ", "UPDATE"} => fuse'.ver = srv'.ver
  BY Zenon, <1>a, <1>d DEF Answered, FuseType
<1>f. LockSettled'
  BY Zenon, <1>b, <1>c, <1>e DEF FromCurrent, LockSettled, Present
<1>1. CASE UNCHANGED srv /\ ~(ok /\ fuse.rpc \in {"UPDATE", "CREATE"})
  <2>1. OpenCurrent'
    BY Zenon, <1>1, <1>b DEF FromCurrent, OpenCurrent, HasCurrent, Present
  <2>2. ~Got("UPDATE")' /\ ~Got("CREATE")' /\ (Locking' => Locking)
    BY Zenon, <1>1, <1>e DEF Got, Locking
  <2>3. Got("READ")' => srv.exists /\ fuse'.ver = srv.ver
    BY Zenon, <1>1, <1>d, <1>e DEF Got, CanDo
  <2>4. Locking' => srv.exists /\ (srv.ver = 0 \/ HasCurrent')
    BY Zenon, <1>1, <1>b, <2>2 DEF FromCurrent, CallCurrent, HasCurrent, Present
  <2>5. CallCurrent'
    BY <1>1, <1>a, <1>e, <2>2, <2>3, <2>4 DEF CallCurrent, SrvType
  <2> QED
    BY Zenon, <1>c, <1>f, <2>1, <2>5 DEF FromCurrent
<1>2. CASE ok /\ fuse.rpc \in {"CREATE", "DELETE"}
  <2>1. wr + ro = 0
    BY Zenon, <1>2, <1>a DEF Control, NoDelete, FirstHandle
  <2>2. OpenCurrent'
    BY <1>b, <2>1 DEF EntryCounts, OpenCurrent, Present
  <2>3. fuse.rpc = "CREATE" => srv'.exists /\ srv'.ver = 0
    BY <1>2, <1>d DEF Carry
  <2>4. CallCurrent'
    BY Zenon, <1>2, <1>e, <2>3 DEF CallCurrent, Got, Locking
  <2> QED
    BY Zenon, <1>c, <1>f, <2>2, <2>4 DEF FromCurrent
<1>3. CASE ok /\ fuse.rpc = "UPDATE"
  <2>1. srv.exists
    BY Zenon, <1>3 DEF LockFollows, Underway, HolderInv
  <2>2. srv'.ver = srv.ver + 1
    BY Zenon, <1>3, <1>a, <1>d, <2>1 DEF Carry, SrvType
  <2>3. OpenCurrent' /\ CallCurrent'
    BY <1>3, <1>a, <1>e, <2>2 DEF OpenCurrent, CallCurrent, Got, Locking, SrvType
  <2> QED
    BY Zenon, <1>c, <1>f, <2>3 DEF FromCurrent
<1>4. fuse.rpc \notin {"CREATE", "DELETE", "UPDATE"} => UNCHANGED srv
  BY Zenon, <1>d DEF Carry
<1> QED
  BY Zenon, <1>1, <1>2, <1>3, <1>4, <1>d

\* Other clients, which work under their own lock.
LEMMA CurrentOthers ==
  ASSUME Typed, Typed', HolderInv, LockFollows, FromCurrent, OtherUpdate \/ OtherCreate
  PROVE  FromCurrent'
<1>a. srv \in SrvType /\ channel \in Seq(PutType \cup {Del, Cut}) /\ fuse \in FuseType
  BY Zenon DEF Typed, DataTyped, FuseTyped
<1>b. UNCHANGED <<cache, fuse, push>> /\ lock' # "me"
  BY Zenon DEF OtherUpdate, OtherCreate, mountVars
<1>c. fuse.rpc # "UPDATE" /\ ~Got("UPDATE")
  BY Zenon DEF OtherUpdate, OtherCreate, LockFollows, Underway, HolderInv, Got
<1>1. \E p \in PutType : channel' = Append(channel, p) /\ p.ver = srv'.ver
  <2>1. 0 \in Contents /\ srv.ver + 1 \in Nat /\ (next <= MaxContents => next \in Contents)
    BY SquidFSAssumption DEF Contents, Typed, DataTyped, SrvType
  <2>2. CASE OtherUpdate
    <3>1. [k |-> "put", ver |-> srv.ver + 1, data |-> next] \in PutType /\ srv'.ver = srv.ver + 1
      BY Zenon, <2>1, <2>2, <1>a DEF OtherUpdate, PutType, SrvType
    <3> QED
      BY Zenon, <2>2, <3>1 DEF OtherUpdate
  <2>3. CASE OtherCreate
    <3>1. [k |-> "put", ver |-> 0, data |-> 0] \in PutType /\ srv'.ver = 0
      BY Zenon, <2>1, <2>3 DEF OtherCreate, PutType
    <3> QED
      BY Zenon, <2>3, <3>1 DEF OtherCreate
  <2> QED
    BY Zenon, <2>2, <2>3
<1>2. PICK p \in PutType : channel' = Append(channel, p) /\ p.ver = srv'.ver
  BY Zenon, <1>1
<1>3. channel' # <<>> /\ channel'[Len(channel')] = p
  BY <1>a, <1>2
<1>4. ~Settled' /\ PushesCurrent'
  BY Zenon, <1>2, <1>3 DEF Settled, PushesCurrent, Incoming
<1>5. OpenCurrent' /\ LockSettled'
  BY Zenon, <1>b, <1>4 DEF OpenCurrent, FromCurrent, LockSettled, Present
<1>6. CallCurrent'
  <2>1. Got("READ") \/ Locking => srv.exists
    BY Zenon DEF FromCurrent, CallCurrent
  <2>2. srv.exists => srv'.exists /\ srv'.ver = srv.ver + 1
    BY Zenon, <1>a DEF OtherUpdate, OtherCreate, SrvType
  <2>3. Got("READ")' => Got("READ") /\ fuse'.ver = fuse.ver
    BY Zenon, <1>b DEF Got
  <2>4. Locking' => Locking
    BY Zenon, <1>b DEF Locking, Got
  <2>5. Got("READ") => fuse.ver <= srv.ver
    BY Zenon DEF FromCurrent, CallCurrent
  <2>6. fuse'.rpc # "UPDATE" /\ ~Got("UPDATE")'
    BY Zenon, <1>b, <1>c DEF Got
  <2>7. Got("READ")' => srv'.exists /\ fuse'.ver <= srv'.ver
    BY <1>a, <2>1, <2>2, <2>3, <2>5 DEF FuseType, SrvType
  <2> QED
    BY Zenon, <1>4, <2>1, <2>2, <2>4, <2>6, <2>7 DEF CallCurrent
<1> QED
  BY Zenon, <1>4, <1>5, <1>6 DEF FromCurrent

\* The push handler.
LEMMA CurrentPush ==
  ASSUME Typed, Typed', NoDelete, EntryCounts, HolderInv, LockFollows, FromCurrent,
         (\E torn \in BOOLEAN : PushBegin(torn)) \/ PushEnd
  PROVE  FromCurrent'
<1>a. /\ channel \in Seq(PutType \cup {Cut}) /\ push \in PutType \cup {NoPush}
      /\ Cut \notin PutType /\ NoPush \notin PutType
  BY Zenon DEF Typed, DataTyped, NoDelete, PutType, Cut, NoPush
<1>b. ~Settled /\ UNCHANGED <<fuse, srv, lock>>
  BY DEF PushBegin, PushEnd, Settled, NoPush, serverVars
<1>c. lock # "me" /\ wr = 0 /\ fuse.rpc # "UPDATE" /\ ~Got("UPDATE")
  BY <1>b DEF FromCurrent, LockSettled, LockFollows, Underway, Got, Typed, CacheTyped
<1>d. /\ Got("READ")' = Got("READ") /\ Locking' = Locking /\ ~Got("UPDATE")'
      /\ fuse'.rpc # "UPDATE" /\ fuse' = fuse /\ srv' = srv
  BY Zenon, <1>b, <1>c DEF Got, Locking
<1>1. ASSUME NEW torn \in BOOLEAN, PushBegin(torn)
      PROVE  FromCurrent'
  <2>1. Head(channel) \in PutType /\ channel # <<>>
    BY <1>1, <1>a DEF PushBegin
  <2>2. UNCHANGED cache /\ push' \in PutType
    <3>1. Head(channel).k = "put" /\ [Head(channel) EXCEPT !.data = 0] \in PutType
      BY <2>1, SquidFSAssumption DEF PutType, Contents
    <3> QED
      BY Zenon, <1>1, <2>1, <3>1 DEF PushBegin
  <2>3. ~Settled'
    BY Zenon, <2>2, <1>a DEF Settled
  <2>4. PushesCurrent'
    <3>1. CASE channel' = <<Cut>>
      BY Zenon, <3>1 DEF PushesCurrent, Incoming
    <3>2. CASE channel' = Tail(channel) /\ push' = Head(channel)
      <4>1. IF channel' = <<>> THEN push' = channel[Len(channel)]
            ELSE channel'[Len(channel')] = channel[Len(channel)]
        BY Zenon, <2>1, <3>2, <1>a, LastOfTail
      <4>2. Incoming' = channel[Len(channel)]
        BY Zenon, <4>1 DEF Incoming
      <4> QED
        BY Zenon, <2>1, <4>2, <1>b DEF FromCurrent, PushesCurrent, Incoming
    <3>3. Head(channel).k = "put"
      BY Zenon, <2>1 DEF PutType
    <3> QED
      BY Zenon, <1>1, <3>1, <3>2, <3>3 DEF PushBegin
  <2>5. OpenCurrent' /\ LockSettled' /\ CallCurrent'
    BY Zenon, <1>b, <1>c, <1>d, <2>2, <2>3 DEF FromCurrent, OpenCurrent, LockSettled, CallCurrent, Present
  <2> QED
    BY Zenon, <2>4, <2>5 DEF FromCurrent
<1>2. CASE PushEnd
  <2>1. push \in PutType /\ push.k = "put" /\ push' = NoPush /\ UNCHANGED channel
    BY <1>2, <1>a DEF PushEnd, NoPush, PutType, serverVars
  <2>2. ~(Present /\ cache.dirty)
    BY <1>c DEF FromCurrent, LockSettled, EntryCounts
  <2>3. cache' \in EntryType /\ cache'.ver = push.ver /\ cache'.dirty = FALSE
    BY Zenon, <1>2, <2>1, <2>2, PushedFacts
  <2>4. Settled' => HasCurrent'
    <3>1. channel = <<>> => push.ver = srv.ver
      BY Zenon, <2>1, <1>a DEF FromCurrent, PushesCurrent, Incoming
    <3> QED
      BY Zenon, <2>1, <2>3, <3>1, <1>b, EntryFacts DEF Settled, HasCurrent, Present
  <2>5. PushesCurrent'
    <3>1. CASE channel = <<>>
      BY Zenon, <2>1, <3>1 DEF PushesCurrent, Incoming
    <3>2. CASE channel # <<>>
      BY Zenon, <2>1, <3>2, <1>b DEF FromCurrent, PushesCurrent, Incoming
    <3> QED
      BY Zenon, <3>1, <3>2
  <2>6. ~cache'.dirty
    BY Zenon, <2>3
  <2>7. LockSettled' /\ OpenCurrent'
    BY Zenon, <2>4, <2>6, <1>b, <1>c DEF LockSettled, OpenCurrent
  <2>8. CallCurrent'
    BY Zenon, <2>4, <1>d DEF FromCurrent, CallCurrent
  <2> QED
    BY Zenon, <2>5, <2>7, <2>8 DEF FromCurrent
<1> QED
  BY Zenon, <1>1, <1>2

\* Every step.
LEMMA CurrentStep ==
  ASSUME Typed, Typed', NoDelete, EntryCounts, FirstHandle, HolderInv, LockFollows, FromCurrent,
         [Next]_vars, events' \cap {"lost", "expired", "deleted", "unlocked", "overtaken"} = {}
  PROVE  FromCurrent'
<1>1. CASE Callback
  BY Zenon, <1>1, CurrentCallback
<1>2. CASE Rpc
  BY Zenon, <1>2, CurrentRpc
<1>3. CASE OtherUpdate \/ OtherCreate
  BY Zenon, <1>3, CurrentOthers
<1>4. CASE (\E torn \in BOOLEAN : PushBegin(torn)) \/ PushEnd
  BY Zenon, <1>4, CurrentPush
<1>5. CASE OtherLock \/ OtherUnlock \/ UNCHANGED vars
  <2>1. UNCHANGED <<cache, fuse, srv, channel, push>> /\ (lock' = lock \/ lock' # "me")
    BY Zenon, <1>5 DEF OtherLock, OtherUnlock, vars, mountVars, serverVars
  <2>2. PushesCurrent' /\ LockSettled'
    BY Zenon, <2>1 DEF FromCurrent, PushesCurrent, Incoming, LockSettled, Settled, Present
  <2>3. Got("READ")' = Got("READ") /\ Got("UPDATE")' = Got("UPDATE") /\ Locking' = Locking
        /\ Settled' = Settled /\ HasCurrent' = HasCurrent /\ Present' = Present
    BY Zenon, <2>1 DEF Got, Locking, Settled, HasCurrent, Present
  <2>4. OpenCurrent' /\ CallCurrent'
    BY Zenon, <2>1, <2>3 DEF FromCurrent, OpenCurrent, CallCurrent
  <2> QED
    BY Zenon, <2>2, <2>4 DEF FromCurrent
<1>6. CASE RpcLost \/ Health \/ Expire \/ OtherDelete \/ Unlink
  BY Zenon, <1>6 DEF RpcLost, Health, Reconnected, Expire, OtherDelete, Unlink
<1>7. CASE Dropped \/ Unlinked
  BY Zenon, <1>7 DEF Dropped, Unlinked, AnsweredTo, NoDelete
<1> QED
  BY Zenon, <1>1, <1>2, <1>3, <1>4, <1>5, <1>6, <1>7 DEF Next, Callback

\* FlushFromCurrent for every mount: because op_open takes the lock before it
\* fetches, and the lock's holder has handled every push, an UPDATE replaces
\* the version its buffer was read from.
THEOREM FlushCorrect == Spec => []FlushFromCurrent
<1>1. Init => CurrentInv
  <2> SUFFICES ASSUME Init PROVE FromCurrent
    BY Zenon DEF CurrentInv
  <2>1. fuse = Idle /\ fuse.rpc = "NONE" /\ ~Present /\ channel = <<>> /\ push = NoPush
    BY Zenon, IdleFacts DEF Init, Present
  <2>2. ~Got("READ") /\ ~Got("UPDATE") /\ ~Locking /\ fuse.op = "idle"
    BY Zenon, <2>1, IdleFacts DEF Got, Locking
  <2> QED
    BY Zenon, <2>1, <2>2 DEF FromCurrent, PushesCurrent, Incoming, LockSettled, Settled, OpenCurrent, CallCurrent
<1>2. Typed /\ Typed' /\ CountsInv /\ HolderInv /\ CurrentInv /\ [Next]_vars => CurrentInv'
  <2> SUFFICES ASSUME Typed, Typed', CountsInv, HolderInv, CurrentInv, [Next]_vars,
                      events' \cap {"lost", "expired", "deleted", "unlocked", "overtaken"} = {}
               PROVE  FromCurrent'
    BY Zenon DEF CurrentInv
  <2>1. /\ events \cap {"lost", "expired", "deleted", "unlocked", "overtaken"} = {}
        /\ events \cap {"lost", "expired", "deleted"} = {} /\ "deleted" \notin events
    BY Zenon, EventsGrow
  <2> QED
    BY Zenon, <2>1, CurrentStep DEF CountsInv, HolderInv, CurrentInv
<1>3. CurrentInv => FlushFromCurrent
  BY Zenon DEF CurrentInv, FromCurrent, CallCurrent, FlushFromCurrent
<1> QED
  BY <1>1, <1>2, <1>3, HolderInvariant, PTL DEF Spec

-----------------------------------------------------------------------------
(* What an open file shows.                                                *)

\* Version v with bytes d is an old version of the file, or the current one.
Agrees(v, d) == v < srv.ver \/ (v = srv.ver /\ d = srv.data)
PushTrue(p, s) == p.k = "put" => p.ver < s.ver \/ (p.ver = s.ver /\ p.data = s.data)
PushAgrees(p) == PushTrue(p, srv)

\* The pushes on the way are about a file that exists, and true.
PushesAgree ==
    /\ ~srv.exists => Settled
    /\ PushAgrees(push)
    /\ \A i \in 1 .. Len(channel) : PushAgrees(channel[i])

\* So are the answers to the calls under way.
CallAgrees ==
    /\ Got("READ") => srv.exists /\ Agrees(fuse.ver, fuse.data)
    /\ Got("UPDATE") => fuse.ver > 0 /\ Agrees(fuse.ver, fuse.data)
    /\ Locking => srv.exists /\ Agrees(0, 0)

\* And the clean entry of an open file; what is being flushed is the entry.
EntryAgrees ==
    /\ Present /\ ~cache.dirty /\ cache.openCount > 0 => Agrees(cache.ver, cache.data)
    /\ fuse.rpc = "UPDATE" => srv.exists /\ Present /\ cache.dirty /\ cache.data = fuse.data

\* An open or locked file exists.
OpenExists == wr + ro > 0 \/ lock = "other" => srv.exists

BytesAgree == PushesAgree /\ CallAgrees /\ EntryAgrees /\ OpenExists

BytesInv == events \cap {"deleted", "torn", "refused"} = {} => BytesAgree

\* A later version makes every other one old.
LEMMA AgreesLater ==
  ASSUME Typed, srv'.ver = srv.ver + 1, NEW v \in Nat, NEW d, Agrees(v, d)
  PROVE  Agrees(v, d)'
BY DEF Agrees, Typed, DataTyped, SrvType

\* The callbacks.
LEMMA BytesCallback ==
  ASSUME Typed, Typed', EntryCounts, EntryCounts', FirstHandle, BytesAgree, Callback,
         "refused" \notin events'
  PROVE  BytesAgree'
<1>a. UNCHANGED <<srv, lock, channel, push>>
  BY Zenon, CallbackServer
<1>b. PushesAgree'
  BY Zenon, <1>a DEF BytesAgree, PushesAgree, PushAgrees, Settled
<1>c. \A v, d : Agrees(v, d)' <=> Agrees(v, d)
  BY Zenon, <1>a DEF Agrees
<1>d. ASSUME fuse' = Idle
      PROVE  CallAgrees' /\ fuse'.rpc # "UPDATE"
  BY Zenon, <1>d, IdleGot DEF CallAgrees, Rpcs
<1>e. ASSUME srv.exists
      PROVE  OpenExists'
  BY Zenon, <1>a, <1>e DEF OpenExists
<1>f. ASSUME Present' /\ cache'.openCount > 0 => Present /\ cache.openCount > 0
      PROVE  OpenExists'
  <2>1. wr' + ro' > 0 => Present' /\ cache'.openCount > 0
    <3>1. CASE Present'
      BY Zenon, <3>1 DEF EntryCounts
    <3>2. CASE ~Present'
      <4>1. wr' + ro' = 0
        BY Zenon, <3>2 DEF EntryCounts
      <4> QED
        BY <4>1
    <3> QED
      BY Zenon, <3>1, <3>2
  <2>2. Present /\ cache.openCount > 0 => wr + ro > 0
    BY Zenon DEF EntryCounts, Typed, CacheTyped
  <2> QED
    BY Zenon, <1>a, <1>f, <2>1, <2>2 DEF BytesAgree, OpenExists
<1>1. CASE Keeps
  <2>1. CallAgrees'
    BY Zenon, <1>1, <1>a, <1>c DEF Keeps, Got, BytesAgree, CallAgrees
  <2>2. EntryAgrees'
    BY <1>1, <1>c DEF Keeps, BytesAgree, EntryAgrees
  <2>3. OpenExists'
    BY <1>1, <1>f DEF Keeps
  <2> QED
    BY Zenon, <1>b, <2>1, <2>2, <2>3 DEF BytesAgree
<1>2. CASE Dirties
  <2>1. CallAgrees' /\ EntryAgrees'
    BY Zenon, <1>2, <1>d DEF Dirties, EntryAgrees
  <2>2. OpenExists'
    BY Zenon, <1>2, <1>f DEF Dirties
  <2> QED
    BY Zenon, <1>b, <2>1, <2>2 DEF BytesAgree
<1>3. CASE Fetches
  <2>1. srv.exists /\ Agrees(fuse.ver, fuse.data)
    BY Zenon, <1>3 DEF Fetches, BytesAgree, CallAgrees
  <2>2. CallAgrees' /\ EntryAgrees'
    BY Zenon, <1>3, <1>c, <1>d, <2>1 DEF Fetches, EntryAgrees
  <2> QED
    BY Zenon, <1>b, <1>e, <2>1, <2>2 DEF BytesAgree
<1>4. CASE Makes
  <2>1. srv.exists /\ Agrees(0, 0)
    BY Zenon, <1>4 DEF Makes, BytesAgree, CallAgrees
  <2>2. CallAgrees' /\ EntryAgrees'
    BY Zenon, <1>4, <1>c, <1>d, <2>1 DEF Makes, EntryAgrees
  <2> QED
    BY Zenon, <1>b, <1>e, <2>1, <2>2 DEF BytesAgree
<1>5. CASE Flushes
  <2>1. srv.exists
    BY <1>5 DEF Flushes, BytesAgree, OpenExists, Typed, CacheTyped
  <2>2. CallAgrees'
    BY Zenon, <1>5 DEF Flushes, CallAgrees, Got, Locking
  <2>3. EntryAgrees'
    BY Zenon, <1>5, <1>a, <2>1 DEF Flushes, EntryAgrees
  <2> QED
    BY Zenon, <1>b, <1>e, <2>1, <2>2, <2>3 DEF BytesAgree
<1>6. CASE FlushEnds
  <2>1. /\ srv.exists /\ Present /\ cache.data = fuse.data
        /\ fuse.ok /\ fuse.ver > 0 /\ Agrees(fuse.ver, fuse.data)
    BY Zenon, <1>6 DEF FlushEnds, Got, BytesAgree, CallAgrees, EntryAgrees
  <2>2. CallAgrees'
    BY Zenon, <1>6 DEF FlushEnds, CallAgrees, Got, Locking
  <2>3. EntryAgrees'
    <3>1. Present' => cache'.ver = fuse.ver /\ cache'.data = fuse.data
      BY <1>6, <2>1 DEF FlushEnds
    <3> QED
      BY Zenon, <1>6, <1>c, <2>1, <3>1 DEF FlushEnds, EntryAgrees
  <2> QED
    BY Zenon, <1>b, <1>e, <2>1, <2>2, <2>3 DEF BytesAgree
<1> QED
  BY Zenon, <1>1, <1>2, <1>3, <1>4, <1>5, <1>6, CallbackSteps

\* After a lost session at most the current version is on its way.
LEMMA ReconnectedAgrees ==
  ASSUME Typed', Reconnected
  PROVE  PushesAgree'
<1>1. push' = NoPush /\ PushAgrees(push)'
  BY Zenon DEF Reconnected, PushAgrees, PushTrue, NoPush
<1>2. CASE channel' = <<>>
  BY <1>1, <1>2 DEF PushesAgree, Settled
<1>3. CASE srv'.exists /\ channel' = <<[k |-> "put", ver |-> srv'.ver, data |-> srv'.data]>>
  <2>1. PushTrue([k |-> "put", ver |-> srv'.ver, data |-> srv'.data], srv')
    BY Zenon DEF PushTrue
  <2>2. \A i \in 1 .. Len(channel') : channel'[i] = [k |-> "put", ver |-> srv'.ver, data |-> srv'.data]
    BY <1>3
  <2> QED
    BY Zenon, <1>1, <1>3, <2>1, <2>2 DEF PushesAgree, PushAgrees
<1> QED
  BY Zenon, <1>1, <1>2, <1>3 DEF Reconnected

\* A call, carried out or not, answered or lost with its session.
LEMMA BytesRpc ==
  ASSUME Typed, Typed', NoDelete, EntryCounts, FirstHandle, BytesAgree, Rpc \/ RpcLost
  PROVE  BytesAgree'
<1>a. fuse \in FuseType /\ Control /\ srv \in SrvType /\ srv' \in SrvType /\ wr \in Nat /\ ro \in Nat
  BY Zenon DEF Typed, FuseTyped, DataTyped, CacheTyped
<1>b. UNCHANGED <<cache, wr, ro>> /\ fuse.st = "asked"
  BY Zenon DEF Rpc, RpcLost
<1>c. PushesAgree'
  <2>1. CASE Rpc
    <3>1. channel' = <<>> /\ push' = NoPush
      BY Zenon, <2>1 DEF Rpc
    <3> QED
      BY <3>1 DEF PushesAgree, Settled, PushAgrees, PushTrue, NoPush
  <2> QED
    BY Zenon, <2>1, ReconnectedAgrees DEF RpcLost
<1>d. PICK ok \in BOOLEAN : /\ Answered(ok)
                            /\ \/ CanDo(fuse.rpc) /\ Carry(fuse.rpc)
                               \/ ~ok /\ UNCHANGED <<srv, lock>>
  BY Zenon DEF Rpc, RpcLost
<1>e. /\ fuse'.op = fuse.op /\ fuse'.rpc = fuse.rpc /\ fuse'.st = "answered" /\ fuse'.ok = ok
      /\ fuse.rpc \in {"READ", "UPDATE"} => fuse'.ver = srv'.ver
      /\ fuse'.data = IF fuse.rpc = "READ" THEN srv.data ELSE fuse.data
  BY Zenon, <1>a, <1>d DEF Answered, FuseType
<1>1. CASE fuse.rpc \in {"CREATE", "DELETE"} /\ Carry(fuse.rpc)
  <2>1. wr + ro = 0 /\ lock' = "none"
    BY Zenon, <1>1, <1>a DEF Control, NoDelete, FirstHandle, Carry
  <2>2. EntryAgrees' /\ OpenExists'
    BY <1>1, <1>b, <1>e, <2>1 DEF EntryCounts, EntryAgrees, OpenExists, Present
  <2>3. fuse.rpc = "CREATE" => srv'.exists /\ srv'.ver = 0 /\ srv'.data = 0
    BY Zenon, <1>1 DEF Carry
  <2>4. CallAgrees'
    BY Zenon, <1>1, <1>e, <2>3 DEF CallAgrees, Got, Locking, Agrees
  <2> QED
    BY Zenon, <1>c, <2>2, <2>4 DEF BytesAgree
<1>2. CASE fuse.rpc = "UPDATE" /\ Carry(fuse.rpc)
  <2>1. srv.exists /\ Present /\ cache.dirty /\ cache.data = fuse.data
    BY Zenon, <1>2 DEF BytesAgree, EntryAgrees
  <2>2. srv'.ver = srv.ver + 1 /\ srv'.data = fuse.data /\ srv'.exists
    BY Zenon, <1>2, <1>a, <2>1 DEF Carry, SrvType
  <2>3. CallAgrees'
    BY <1>2, <1>a, <1>e, <2>2 DEF CallAgrees, Got, Locking, Agrees, SrvType
  <2>4. EntryAgrees' /\ OpenExists'
    BY Zenon, <1>2, <1>b, <1>e, <2>1, <2>2 DEF EntryAgrees, OpenExists, Present
  <2> QED
    BY Zenon, <1>c, <2>3, <2>4 DEF BytesAgree
<1>3. CASE UNCHANGED srv /\ (lock' = "other" => lock = "other") /\ ~(ok /\ fuse.rpc \in {"UPDATE", "CREATE"})
  <2>1. EntryAgrees'
    BY Zenon, <1>3, <1>b, <1>e DEF BytesAgree, EntryAgrees, Agrees, Present
  <2>2. OpenExists'
    BY Zenon, <1>3, <1>b DEF BytesAgree, OpenExists
  <2>3. ~Got("UPDATE")' /\ (Locking' => Locking)
    BY Zenon, <1>3, <1>e DEF Got, Locking
  <2>4. Got("READ")' => srv.exists /\ fuse'.ver = srv.ver /\ fuse'.data = srv.data
    BY Zenon, <1>3, <1>d, <1>e DEF Got, CanDo
  <2>5. CallAgrees'
    BY Zenon, <1>3, <2>3, <2>4 DEF BytesAgree, CallAgrees, Agrees
  <2> QED
    BY Zenon, <1>c, <2>1, <2>2, <2>5 DEF BytesAgree
<1>4. Carry(fuse.rpc) /\ fuse.rpc \notin {"CREATE", "DELETE", "UPDATE"} =>
        UNCHANGED srv /\ (lock' = "other" => lock = "other")
  BY Zenon DEF Carry
<1> QED
  BY Zenon, <1>1, <1>2, <1>3, <1>4, <1>d

\* Other clients.
LEMMA BytesOthers ==
  ASSUME Typed, Typed', EntryCounts, BytesAgree, OtherUpdate \/ OtherCreate
  PROVE  BytesAgree'
<1>a. /\ srv \in SrvType /\ channel \in Seq(PutType \cup {Del, Cut}) /\ fuse \in FuseType
      /\ push \in PutType \cup {Del, NoPush} /\ wr \in Nat /\ ro \in Nat /\ (Present => cache \in EntryType)
  BY Zenon, EntryFacts DEF Typed, DataTyped, FuseTyped, CacheTyped
<1>b. UNCHANGED <<cache, fuse, push, wr, ro>> /\ srv'.exists
  <2>1. CASE OtherUpdate
    BY Zenon, <1>a, <2>1 DEF OtherUpdate, mountVars, BytesAgree, OpenExists, SrvType
  <2>2. CASE OtherCreate
    BY Zenon, <2>2 DEF OtherCreate, mountVars
  <2> QED
    BY Zenon, <2>1, <2>2
<1>c. Got("READ")' = Got("READ") /\ Got("UPDATE")' = Got("UPDATE") /\ Locking' = Locking /\ Present' = Present
  BY Zenon, <1>b DEF Got, Locking, Present
<1>1. CASE OtherUpdate
  <2>1. srv'.ver = srv.ver + 1 /\ srv'.data = next /\ srv.exists
    BY Zenon, <1>1, <1>a DEF OtherUpdate, SrvType, BytesAgree, OpenExists
  <2>2. \A v \in Nat : \A d : Agrees(v, d) => Agrees(v, d)'
    BY Zenon, <2>1, AgreesLater
  <2> DEFINE p == [k |-> "put", ver |-> srv.ver + 1, data |-> next]
  <2>3. PushTrue(p, srv')
    BY Zenon, <2>1 DEF PushTrue
  <2>4. channel' = Append(channel, p)
    BY Zenon, <1>1 DEF OtherUpdate
  <2> HIDE DEF p
  <2>5. \A q \in PutType \cup {Del, Cut, NoPush} : PushTrue(q, srv) => PushTrue(q, srv')
    BY <2>1, <1>a DEF PushTrue, PutType, Del, Cut, NoPush, SrvType
  <2>6. PushAgrees(push)'
    BY Zenon, <2>5, <1>a, <1>b DEF BytesAgree, PushesAgree, PushAgrees
  <2>7. ASSUME NEW i \in 1 .. Len(channel')
        PROVE  PushTrue(channel'[i], srv')
    <3>1. CASE i = Len(channel) + 1
      BY <2>3, <2>4, <3>1, <1>a
    <3>2. CASE i # Len(channel) + 1
      <4>1. i \in 1 .. Len(channel) /\ channel'[i] = channel[i] /\ channel[i] \in PutType \cup {Del, Cut}
        BY <2>4, <2>7, <3>2, <1>a
      <4> QED
        BY Zenon, <2>5, <4>1 DEF BytesAgree, PushesAgree, PushAgrees
    <3> QED
      BY Zenon, <3>1, <3>2
  <2>8. PushesAgree'
    BY Zenon, <1>b, <2>6, <2>7 DEF PushesAgree, PushAgrees
  <2>9. CallAgrees'
    <3>1. /\ Got("READ") => Agrees(fuse.ver, fuse.data)'
          /\ Got("UPDATE") => fuse.ver > 0 /\ Agrees(fuse.ver, fuse.data)'
          /\ Locking => Agrees(0, 0)'
      BY Zenon, <2>2, <1>a, <1>b DEF BytesAgree, CallAgrees, FuseType
    <3> QED
      BY Zenon, <3>1, <1>b, <1>c DEF CallAgrees
  <2>10. EntryAgrees'
    <3>1. Present /\ ~cache.dirty /\ cache.openCount > 0 => Agrees(cache.ver, cache.data)'
      BY Zenon, <2>2, <1>a, <1>b DEF BytesAgree, EntryAgrees, EntryType
    <3> QED
      BY Zenon, <3>1, <1>b, <1>c DEF BytesAgree, EntryAgrees
  <2> QED
    BY Zenon, <1>b, <2>8, <2>9, <2>10 DEF BytesAgree, OpenExists
<1>2. CASE OtherCreate
  <2>1. ~srv.exists /\ srv'.ver = 0 /\ srv'.data = 0
    BY Zenon, <1>2 DEF OtherCreate
  <2>2. Settled /\ wr + ro = 0 /\ ~Got("READ") /\ ~Got("UPDATE") /\ ~Locking /\ fuse.rpc # "UPDATE"
    BY <2>1, <1>a DEF BytesAgree, PushesAgree, CallAgrees, EntryAgrees, OpenExists, Got
  <2> DEFINE p == [k |-> "put", ver |-> 0, data |-> 0]
  <2>3. channel' = <<p>>
    BY <1>2, <2>2 DEF OtherCreate, Settled
  <2>4. PushTrue(p, srv')
    BY Zenon, <2>1 DEF PushTrue
  <2> HIDE DEF p
  <2>5. \A i \in 1 .. Len(channel') : channel'[i] = p
    BY <2>3
  <2>6. PushAgrees(push)'
    BY Zenon, <2>2, <1>b DEF Settled, PushAgrees, PushTrue, NoPush
  <2>7. PushesAgree'
    BY Zenon, <2>4, <2>5, <2>6, <1>b DEF PushesAgree, PushAgrees
  <2>8. CallAgrees' /\ EntryAgrees' /\ OpenExists'
    BY <2>2, <1>b, <1>c DEF CallAgrees, EntryAgrees, OpenExists, EntryCounts
  <2> QED
    BY Zenon, <2>7, <2>8 DEF BytesAgree
<1> QED
  BY Zenon, <1>1, <1>2

\* The push handler.
LEMMA BytesPush ==
  ASSUME Typed, Typed', NoDelete, BytesAgree, "torn" \notin events',
         (\E torn \in BOOLEAN : PushBegin(torn)) \/ PushEnd
  PROVE  BytesAgree'
<1>a. /\ channel \in Seq(PutType \cup {Cut}) /\ push \in PutType \cup {NoPush}
  BY Zenon DEF Typed, DataTyped, NoDelete
<1>b. ~Settled /\ UNCHANGED <<fuse, srv, lock, wr, ro>>
  BY DEF PushBegin, PushEnd, Settled, NoPush, serverVars
<1>c. srv.exists /\ \A v, d : Agrees(v, d)' <=> Agrees(v, d)
  BY Zenon, <1>b DEF BytesAgree, PushesAgree, Agrees
<1>d. CallAgrees' /\ OpenExists'
  BY Zenon, <1>b DEF BytesAgree, CallAgrees, OpenExists, Got, Locking, Agrees
<1>1. ASSUME NEW torn \in BOOLEAN, PushBegin(torn)
      PROVE  BytesAgree'
  <2>1. Head(channel) \in PutType /\ channel # <<>>
    BY <1>1, <1>a DEF PushBegin
  <2>2. Head(channel).k = "put" /\ Head(channel) = channel[1] /\ 1 \in 1 .. Len(channel)
    BY <2>1, <1>a DEF PutType
  <2>3. UNCHANGED cache /\ push' = channel[1] /\ channel' = Tail(channel)
    BY Zenon, <1>1, <2>2 DEF PushBegin
  <2>4. PushAgrees(push)'
    BY Zenon, <2>2, <2>3, <1>b DEF BytesAgree, PushesAgree, PushAgrees
  <2>5. ASSUME NEW i \in 1 .. Len(channel')
        PROVE  PushTrue(channel'[i], srv')
    <3>1. i + 1 \in 1 .. Len(channel) /\ channel'[i] = channel[i + 1]
      BY <2>1, <2>3, <1>a
    <3> QED
      BY Zenon, <3>1, <1>b DEF BytesAgree, PushesAgree, PushAgrees
  <2>6. PushesAgree'
    BY Zenon, <2>4, <2>5, <1>b, <1>c DEF PushesAgree, PushAgrees
  <2>7. EntryAgrees'
    BY Zenon, <2>3, <1>b, <1>c DEF BytesAgree, EntryAgrees, Present
  <2> QED
    BY Zenon, <2>6, <2>7, <1>d DEF BytesAgree
<1>2. CASE PushEnd
  <2>1. push \in PutType /\ push.k = "put" /\ push' = NoPush /\ UNCHANGED channel
    BY <1>2, <1>a DEF PushEnd, NoPush, PutType, serverVars
  <2>2. Agrees(push.ver, push.data)
    BY Zenon, <2>1 DEF BytesAgree, PushesAgree, PushAgrees, PushTrue, Agrees
  <2>3. PushesAgree'
    BY Zenon, <2>1, <1>b, <1>c DEF BytesAgree, PushesAgree, PushAgrees, PushTrue, NoPush
  <2>4. CASE Present /\ cache.dirty /\ UNCHANGED cache
    <3>1. EntryAgrees'
      BY Zenon, <2>4, <1>b, <1>c DEF BytesAgree, EntryAgrees, Present
    <3> QED
      BY Zenon, <2>3, <3>1, <1>d DEF BytesAgree
  <2>5. CASE Entry.dirty = FALSE /\ cache'.data = push.data /\ cache'.ver = push.ver
    <3>1. ~(Present /\ cache.dirty)
      BY Zenon, <2>5 DEF Entry
    <3>2. fuse'.rpc # "UPDATE"
      BY Zenon, <3>1, <1>b DEF BytesAgree, EntryAgrees
    <3>3. EntryAgrees'
      BY Zenon, <2>2, <2>5, <3>2, <1>c DEF EntryAgrees
    <3> QED
      BY Zenon, <2>3, <3>3, <1>d DEF BytesAgree
  <2> QED
    BY Zenon, <1>2, <2>1, <2>4, <2>5, PushedFacts
<1> QED
  BY Zenon, <1>1, <1>2

\* Every step.
LEMMA BytesStep ==
  ASSUME Typed, Typed', NoDelete, EntryCounts, EntryCounts', FirstHandle, BytesAgree, [Next]_vars,
         events' \cap {"deleted", "torn", "refused"} = {}
  PROVE  BytesAgree'
<1>1. CASE Callback
  BY Zenon, <1>1, BytesCallback
<1>2. CASE Rpc \/ RpcLost
  BY Zenon, <1>2, BytesRpc
<1>3. CASE OtherUpdate \/ OtherCreate
  BY Zenon, <1>3, BytesOthers
<1>4. CASE (\E torn \in BOOLEAN : PushBegin(torn)) \/ PushEnd
  BY Zenon, <1>4, BytesPush
<1>5. ASSUME UNCHANGED <<cache, fuse, wr, ro, srv>>, PushesAgree', lock' = "other" => srv.exists
      PROVE  BytesAgree'
  <2>1. CallAgrees' /\ EntryAgrees'
    BY Zenon, <1>5 DEF BytesAgree, CallAgrees, EntryAgrees, Agrees, Got, Locking, Present
  <2>2. OpenExists'
    BY Zenon, <1>5 DEF BytesAgree, OpenExists
  <2> QED
    BY Zenon, <1>5, <2>1, <2>2 DEF BytesAgree
<1>6. CASE Health
  <2>1. PushesAgree'
    BY Zenon, <1>6, ReconnectedAgrees DEF Health
  <2> QED
    BY Zenon, <1>5, <1>6, <2>1 DEF Health, BytesAgree, OpenExists
<1>7. CASE Expire \/ OtherLock \/ OtherUnlock \/ UNCHANGED vars
  <2>1. UNCHANGED <<cache, fuse, wr, ro, srv, channel, push>> /\ (lock' = "other" => srv.exists)
    BY Zenon, <1>7 DEF Expire, OtherLock, OtherUnlock, vars, mountVars, serverVars, BytesAgree, OpenExists
  <2>2. PushesAgree'
    BY Zenon, <2>1 DEF BytesAgree, PushesAgree, PushAgrees, Settled
  <2> QED
    BY Zenon, <1>5, <2>1, <2>2
<1>8. CASE OtherDelete \/ Unlink
  BY Zenon, <1>8 DEF OtherDelete, Unlink
<1>9. CASE Dropped \/ Unlinked
  BY Zenon, <1>9 DEF Dropped, Unlinked, AnsweredTo, NoDelete
<1> QED
  BY Zenon, <1>1, <1>2, <1>3, <1>4, <1>6, <1>7, <1>8, <1>9 DEF Next, Callback

\* CurrentVersionShown for every mount: fetches, flushes and pushes keep the
\* bytes of a clean entry those of its version.
THEOREM BytesCorrect == Spec => []CurrentVersionShown
<1>1. Init => BytesInv
  <2> SUFFICES ASSUME Init PROVE BytesAgree
    BY Zenon DEF BytesInv
  <2>1. /\ fuse = Idle /\ fuse.rpc = "NONE" /\ ~Present /\ channel = <<>> /\ push = NoPush
        /\ wr + ro = 0 /\ lock = "none"
    BY IdleFacts DEF Init, Present
  <2>2. ~Got("READ") /\ ~Got("UPDATE") /\ ~Locking
    BY Zenon, <2>1, IdleFacts DEF Got, Locking
  <2>3. PushesAgree
    BY <2>1 DEF PushesAgree, Settled, PushAgrees, PushTrue, NoPush
  <2> QED
    BY <2>1, <2>2, <2>3 DEF BytesAgree, CallAgrees, EntryAgrees, OpenExists
<1>2. Typed /\ Typed' /\ CountsInv /\ CountsInv' /\ BytesInv /\ [Next]_vars => BytesInv'
  <2> SUFFICES ASSUME Typed, Typed', CountsInv, CountsInv', BytesInv, [Next]_vars,
                      events' \cap {"deleted", "torn", "refused"} = {}
               PROVE  BytesAgree'
    BY Zenon DEF BytesInv
  <2>1. events \cap {"deleted", "torn", "refused"} = {} /\ "deleted" \notin events /\ "deleted" \notin events'
    BY Zenon, EventsGrow
  <2> QED
    BY Zenon, <2>1, BytesStep DEF CountsInv, BytesInv
<1>3. Typed /\ BytesInv => CurrentVersionShown
  BY DEF BytesInv, BytesAgree, EntryAgrees, Agrees, CurrentVersionShown, Typed, DataTyped, SrvType
<1> QED
  BY <1>1, <1>2, <1>3, CountsInvariant, PTL DEF Spec
=============================================================================
