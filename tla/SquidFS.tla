------------------------------- MODULE SquidFS -------------------------------
(***************************************************************************)
(* The FUSE mount of one client: the cache of squidfs.cpp for one path,    *)
(* the FUSE thread that serves one callback at a time, and the push        *)
(* handler, which runs on the session's worker between the moments when    *)
(* the FUSE thread holds cacheMutex_.  Every call to the server is two     *)
(* steps, the server's action and the continuation of the callback, and    *)
(* pushes may be handled before, between and after them.                   *)
(*                                                                         *)
(* The server and the other clients are an environment: a version, a       *)
(* content and a lock for the path (Replication and LockManager have the   *)
(* details).  A content is a number, 0 the empty file.  A call that meets  *)
(* a push on the connection fails and the session is lost (see Session);   *)
(* so does any call at a fault.                                            *)
(***************************************************************************)
EXTENDS Integers, Sequences

CONSTANTS
    MaxHandles,  \* bound: open handles of the path
    MaxContents, \* bound: modifications (contents written, truncations), by anyone
    MaxFaults,   \* bound: sessions lost
    MaxOther     \* bound: deletes and creates by other clients

\* Content 1 is that of a file that exists before the mount.
ASSUME SquidFSAssumption ==
    {MaxHandles, MaxContents, MaxFaults, MaxOther} \subseteq Nat /\ MaxContents > 0

VARIABLES
    cache,    \* the entry of cache_, or NoEntry
    known,    \* versions_ of Client for the path, -1 when absent
    fuse,     \* the FUSE thread: callback, the call it waits for, the answer
    wr, ro,   \* open handles, writable and read-only
    srv,      \* the server: exists, version, content
    lock,     \* the server's lock: "none", "me" or "other"
    channel,  \* pushes on their way to this mount
    push,     \* the push that handlePush has half done, or NoPush
    next,     \* the number of the next modification
    mine,     \* history: unflushed content written here, or -1
    events,   \* history: what happened that the cache does not guard against
    faults, others

mountVars == <<cache, known, fuse, wr, ro, mine>>
serverVars == <<srv, lock, channel, next, others>>
vars == <<mountVars, serverVars, push, events, faults>>

NoEntry == [openCount |-> -1]
NoPush == [k |-> "none"]
Cut == [k |-> "cut"]   \* the connection ends here
Fresh == [data |-> 0, dirty |-> FALSE, lockCount |-> 0, openCount |-> 0, ver |-> 0]
Present == cache # NoEntry
Entry == IF Present THEN cache ELSE Fresh   \* cache_[r]

\* A callback at rest.  st: "none", "asked" while a call waits for the server,
\* "answered" when its result is there; w, t: writable, O_TRUNC; the rest is
\* the argument or the result of the call.
Idle == [op |-> "idle", rpc |-> "NONE", st |-> "none", w |-> FALSE, t |-> FALSE,
         ok |-> FALSE, data |-> 0, ver |-> 0]

Init ==
    /\ \E e \in BOOLEAN :
          /\ srv = [exists |-> e, ver |-> 0, data |-> IF e THEN 1 ELSE 0]
          /\ known = IF e THEN 0 ELSE -1
    /\ cache = NoEntry /\ fuse = Idle /\ wr = 0 /\ ro = 0
    /\ lock = "none" /\ channel = <<>> /\ push = NoPush /\ next = 2
    /\ mine = -1 /\ events = {} /\ faults = 0 /\ others = 0

-----------------------------------------------------------------------------
(* The server, as the mount sees it, and the connection.                  *)

CanDo(rpc) ==
    CASE rpc = "ACQUIRE" -> srv.exists /\ lock = "none"
      [] rpc = "READ"    -> srv.exists
      [] OTHER           -> TRUE

\* Refusals: a lock that is taken, a read, create or update the datanodes fail.
CanRefuse(rpc) == (rpc = "ACQUIRE" /\ ~CanDo(rpc)) \/ rpc \in {"READ", "CREATE", "UPDATE"}

Carry(rpc) ==
    /\ srv' = CASE rpc = "CREATE" -> [exists |-> TRUE, ver |-> 0, data |-> 0]
                [] rpc = "DELETE" -> [exists |-> FALSE, ver |-> 0, data |-> 0]
                [] rpc = "UPDATE" -> [srv EXCEPT !.ver = (IF srv.exists THEN @ ELSE fuse.ver) + 1,
                                                 !.data = fuse.data]
                [] OTHER          -> srv
    /\ lock' = CASE rpc = "ACQUIRE"                        -> "me"
                 [] rpc \in {"RELEASE", "CREATE", "DELETE"} -> "none"
                 [] OTHER                                  -> lock

\* The call was answered.  An update that was decided is no longer unflushed.
Answered(ok) ==
    /\ fuse' = [fuse EXCEPT !.st = "answered", !.ok = ok,
                            !.data = IF fuse.rpc = "READ" THEN srv.data ELSE @,
                            !.ver = IF fuse.rpc \in {"READ", "UPDATE"} THEN srv'.ver ELSE @]
    /\ mine' = IF fuse.rpc = "UPDATE" THEN -1 ELSE mine

Rpc ==
    /\ fuse.st = "asked" /\ channel = <<>> /\ push = NoPush
    /\ \/ CanDo(fuse.rpc) /\ Carry(fuse.rpc) /\ Answered(TRUE)
       \/ CanRefuse(fuse.rpc) /\ UNCHANGED <<srv, lock>> /\ Answered(FALSE)
    /\ UNCHANGED <<cache, known, wr, ro, channel, push, next, others, events, faults>>

\* reconnect and syncStatus: pushes on the way are gone; of the push burst of
\* the new session syncStatus may discard everything.
Reconnected ==
    /\ push = NoPush /\ UNCHANGED push
    /\ faults < MaxFaults /\ faults' = faults + 1
    /\ events' = events \cup {"lost"}
    /\ known' = IF srv'.exists THEN srv'.ver ELSE known
    /\ \/ channel' = <<>>
       \/ /\ srv'.exists
          /\ channel' = <<[k |-> "put", ver |-> srv'.ver, data |-> srv'.data]>>

\* The session is lost under a call, which fails whether or not the server
\* has carried it out.
RpcLost ==
    /\ fuse.st = "asked"
    /\ \/ CanDo(fuse.rpc) /\ Carry(fuse.rpc)
       \/ UNCHANGED <<srv, lock>>
    /\ Answered(FALSE)
    /\ Reconnected
    /\ UNCHANGED <<cache, wr, ro, next, others>>

\* healthLoop: the session is lost between calls.
Health ==
    /\ fuse.st # "asked" /\ fuse.op # "stuck"
    /\ UNCHANGED <<cache, fuse, wr, ro, mine, srv, lock, next, others>>
    /\ Reconnected

\* The lease of the lock runs out; the notice does nothing here.
Expire ==
    /\ lock = "me"
    /\ lock' = "none"
    /\ events' = events \cup {"expired"}
    /\ UNCHANGED <<mountVars, srv, channel, push, next, others, faults>>

\* Another client locks, updates under its lock and unlocks.
OtherLock ==
    /\ srv.exists /\ lock = "none" /\ next <= MaxContents
    /\ lock' = "other"
    /\ UNCHANGED <<mountVars, srv, channel, push, next, others, events, faults>>

OtherUpdate ==
    /\ lock = "other" /\ next <= MaxContents /\ next' = next + 1
    /\ srv' = [srv EXCEPT !.ver = @ + 1, !.data = next]
    /\ channel' = Append(channel, [k |-> "put", ver |-> srv.ver + 1, data |-> next])
    /\ UNCHANGED <<mountVars, lock, push, others, events, faults>>

OtherUnlock ==
    /\ lock = "other"
    /\ lock' = "none"
    /\ UNCHANGED <<mountVars, srv, channel, push, next, others, events, faults>>

\* Creates and deletes of other clients take no lock.
OtherDelete ==
    /\ srv.exists /\ others < MaxOther
    /\ srv' = [exists |-> FALSE, ver |-> 0, data |-> 0] /\ lock' = "none"
    /\ channel' = Append(channel, [k |-> "del"])
    /\ others' = others + 1
    /\ events' = events \cup {"deleted"}
    /\ UNCHANGED <<mountVars, push, next, faults>>

OtherCreate ==
    /\ ~srv.exists /\ others < MaxOther
    /\ srv' = [exists |-> TRUE, ver |-> 0, data |-> 0] /\ lock' = "none"
    /\ channel' = Append(channel, [k |-> "put", ver |-> 0, data |-> 0])
    /\ others' = others + 1
    /\ UNCHANGED <<mountVars, push, next, events, faults>>

\* Client::handlePush, on the worker of the session.  A put sets the version
\* before the push handler of SquidFS fills the entry; when the connection is
\* lost under the bytes of the file, both go on without them.  A delete has
\* the handler erase the entry before the version goes.
PushBegin(torn) ==
    /\ push = NoPush /\ channel # <<>> /\ Head(channel) # Cut
    /\ LET p == Head(channel) IN
       \/ /\ p.k = "put"
          /\ torn => faults < MaxFaults
          /\ known' = p.ver
          /\ push' = IF torn THEN [p EXCEPT !.data = 0] ELSE p
          /\ channel' = IF torn THEN <<Cut>> ELSE Tail(channel)
          /\ events' = IF torn THEN events \cup {"torn"} ELSE events
          /\ UNCHANGED cache
       \/ /\ p.k = "del" /\ ~torn /\ fuse.op # "stuck"
          /\ cache' = NoEntry
          /\ push' = p
          /\ channel' = Tail(channel)
          /\ UNCHANGED <<known, events>>
    /\ UNCHANGED <<fuse, wr, ro, mine, srv, lock, next, others, faults>>

\* Mutant: a push replaces a dirty buffer.
PushEndClobbers ==
    /\ \/ /\ push.k = "put" /\ fuse.op # "stuck"
          /\ cache' = [Entry EXCEPT !.data = push.data, !.ver = push.ver]
          /\ UNCHANGED known
       \/ /\ push.k = "del"
          /\ known' = -1
          /\ UNCHANGED cache
    /\ push' = NoPush
    /\ UNCHANGED <<fuse, wr, ro, mine, serverVars, events, faults>>

\* Mutant: the bytes of an open file are left alone, its version is not.
PushEndKeepsOpen ==
    /\ \/ /\ push.k = "put" /\ fuse.op # "stuck"
          /\ cache' = IF Entry.dirty THEN cache
                      ELSE [Entry EXCEPT !.data = IF Entry.openCount > 0 THEN @ ELSE push.data,
                                         !.ver = push.ver]
          /\ UNCHANGED known
       \/ /\ push.k = "del"
          /\ known' = -1
          /\ UNCHANGED cache
    /\ push' = NoPush
    /\ UNCHANGED <<fuse, wr, ro, mine, serverVars, events, faults>>

\* The other half: a put fills or makes the entry unless it is dirty.
PushEnd ==
    /\ \/ /\ push.k = "put" /\ fuse.op # "stuck"
          /\ cache' = IF Entry.dirty THEN cache ELSE [Entry EXCEPT !.data = push.data, !.ver = push.ver]
          /\ UNCHANGED known
       \/ /\ push.k = "del"
          /\ known' = -1
          /\ UNCHANGED cache
    /\ push' = NoPush
    /\ UNCHANGED <<fuse, wr, ro, mine, serverVars, events, faults>>

-----------------------------------------------------------------------------
(* The callbacks, one at a time.                                           *)

envUnchanged == UNCHANGED <<srv, lock, channel, push, others, faults>>

\* The bound on modifications.
Counted(modifies) ==
    \/ ~modifies /\ UNCHANGED next
    \/ modifies /\ next <= MaxContents /\ next' = next + 1

Ask(f, rpc) == fuse' = [f EXCEPT !.rpc = rpc, !.st = "asked"]
AnsweredTo(op, rpc) == fuse.op = op /\ fuse.rpc = rpc /\ fuse.st = "answered"

\* What getattr reports as a file.
Visible == Present \/ known >= 0

\* An entry without handles is erased when a callback fails or ends.
Evicted == IF Present /\ cache.openCount = 0 THEN NoEntry ELSE cache

\* The end of op_open on entry e: O_TRUNC, the counts and the handle.
Opened(e, f) ==
    /\ cache' = [e EXCEPT !.data = IF f.t THEN 0 ELSE @, !.dirty = @ \/ f.t,
                          !.lockCount = IF f.w THEN @ + 1 ELSE @, !.openCount = @ + 1]
    /\ wr' = IF f.w THEN wr + 1 ELSE wr
    /\ ro' = IF f.w THEN ro ELSE ro + 1
    /\ mine' = IF f.t THEN 0 ELSE mine
    /\ fuse' = Idle

\* op_open once the lock is held, or not needed: fetch unless a handle is open.
OpenLocked(e, f) ==
    \/ /\ e.openCount = 0
       /\ cache' = e
       /\ Ask(f, "READ")
       /\ UNCHANGED <<wr, ro, mine>>
    \/ /\ e.openCount > 0
       /\ Opened(e, f)

\* Mutant: only the first handle of any kind takes the lock.
OpenBeginFirstLocks(f) ==
    \/ /\ f.w /\ Entry.openCount = 0
       /\ cache' = Entry
       /\ Ask(f, "ACQUIRE")
       /\ UNCHANGED <<wr, ro, mine>>
    \/ /\ ~f.w \/ Entry.openCount > 0
       /\ OpenLocked(Entry, f)

\* op_open up to its first call.
OpenBegin(f) ==
    \/ /\ f.w /\ Entry.lockCount = 0
       /\ cache' = Entry
       /\ Ask(f, "ACQUIRE")
       /\ UNCHANGED <<wr, ro, mine>>
    \/ /\ ~f.w \/ Entry.lockCount > 0
       /\ OpenLocked(Entry, f)

Open(w, t) ==
    /\ fuse = Idle /\ Visible /\ wr + ro < MaxHandles
    /\ Counted(t)
    /\ OpenBegin([Idle EXCEPT !.op = "open", !.w = w, !.t = t])
    /\ envUnchanged /\ UNCHANGED <<known, events>>

\* The lock was granted or refused; the entry may be gone.
OpenAcquired ==
    /\ AnsweredTo("open", "ACQUIRE")
    /\ \/ /\ fuse.ok /\ Present
          /\ OpenLocked(cache, fuse)
       \/ /\ fuse.ok /\ ~Present
          /\ fuse' = Idle
          /\ UNCHANGED <<cache, wr, ro, mine>>
       \/ /\ ~fuse.ok
          /\ cache' = Evicted
          /\ fuse' = Idle
          /\ UNCHANGED <<wr, ro, mine>>
    /\ envUnchanged /\ UNCHANGED <<known, next, events>>

\* fetchIntoCache after its call: the entry is looked up or made again.
Fetched == [Entry EXCEPT !.data = fuse.data, !.ver = fuse.ver, !.dirty = FALSE]

\* What the fetch overwrites: a dirty buffer, or bytes a push brought since
\* the server answered.
FetchEvents == (IF Entry.dirty THEN {"refetched"} ELSE {}) \cup
               (IF Entry.ver > fuse.ver THEN {"overtaken"} ELSE {})

\* Mutant: a failed fetch keeps the lock.
OpenFetchedKeepsLock ==
    /\ AnsweredTo("open", "READ")
    /\ \/ /\ fuse.ok
          /\ known' = fuse.ver
          /\ Opened(Fetched, fuse)
          /\ events' = events \cup FetchEvents
       \/ /\ ~fuse.ok
          /\ cache' = Evicted
          /\ fuse' = Idle
          /\ UNCHANGED <<known, wr, ro, mine, events>>
    /\ envUnchanged /\ UNCHANGED next

OpenFetched ==
    /\ AnsweredTo("open", "READ")
    /\ \/ /\ fuse.ok
          /\ known' = fuse.ver
          /\ Opened(Fetched, fuse)
          /\ events' = events \cup FetchEvents
       \/ /\ ~fuse.ok /\ fuse.w
          /\ Ask(fuse, "RELEASE")
          /\ UNCHANGED <<cache, known, wr, ro, mine, events>>
       \/ /\ ~fuse.ok /\ ~fuse.w
          /\ cache' = Evicted
          /\ fuse' = Idle
          /\ UNCHANGED <<known, wr, ro, mine, events>>
    /\ envUnchanged /\ UNCHANGED next

\* The lock of a failed open, or of a closed file, has been given back.
Released ==
    /\ fuse.op \in {"open", "release"} /\ fuse.rpc = "RELEASE" /\ fuse.st = "answered"
    /\ cache' = Evicted
    /\ fuse' = Idle
    /\ envUnchanged /\ UNCHANGED <<known, wr, ro, mine, next, events>>

\* The kernel looks the name up, finds nothing and will call create.
Lookup ==
    /\ fuse = Idle /\ ~Visible /\ wr + ro < MaxHandles
    /\ fuse' = [Idle EXCEPT !.op = "lookup"]
    /\ envUnchanged /\ UNCHANGED <<cache, known, wr, ro, mine, next, events>>

\* op_create.  If a push made an entry since the lookup, op_open locks
\* cacheMutex_, which this thread holds: it never returns.
Create(t) ==
    /\ fuse.op = "lookup"
    /\ Counted(t)
    /\ \/ /\ Present
          /\ fuse' = [fuse EXCEPT !.op = "stuck"]
          /\ UNCHANGED <<cache, wr, ro, mine>>
       \/ /\ ~Present /\ known >= 0
          /\ OpenBegin([Idle EXCEPT !.op = "open", !.w = TRUE, !.t = t])
       \/ /\ ~Present /\ known < 0
          /\ Ask([Idle EXCEPT !.op = "create", !.w = TRUE], "CREATE")
          /\ UNCHANGED <<cache, wr, ro, mine>>
    /\ envUnchanged /\ UNCHANGED <<known, events>>

\* The answer to CREATE_FILE carries no version: versions_ is left alone.
Created ==
    /\ AnsweredTo("create", "CREATE")
    /\ \/ fuse.ok /\ Ask(fuse, "ACQUIRE")
       \/ ~fuse.ok /\ fuse' = Idle
    /\ envUnchanged /\ UNCHANGED <<cache, known, wr, ro, mine, next, events>>

\* The new file is locked, or deleted again when another client was faster.
CreateLocked ==
    /\ AnsweredTo("create", "ACQUIRE")
    /\ \/ /\ fuse.ok
          /\ cache' = [Fresh EXCEPT !.lockCount = 1, !.openCount = 1]
          /\ wr' = wr + 1
          /\ events' = events \cup (IF Entry.ver > 0 THEN {"overtaken"} ELSE {})
          /\ fuse' = Idle
       \/ /\ ~fuse.ok
          /\ Ask(fuse, "DELETE")
          /\ UNCHANGED <<cache, wr, events>>
    /\ envUnchanged /\ UNCHANGED <<known, ro, mine, next>>

CreateUndone ==
    /\ AnsweredTo("create", "DELETE")
    /\ known' = IF fuse.ok THEN -1 ELSE known
    /\ fuse' = Idle
    /\ envUnchanged /\ UNCHANGED <<cache, wr, ro, mine, next, events>>

\* op_read fetches when the entry is missing or its data is empty.
Read ==
    /\ fuse = Idle /\ wr + ro > 0 /\ Entry.data = 0
    /\ cache' = Entry
    /\ Ask([Idle EXCEPT !.op = "read"], "READ")
    /\ envUnchanged /\ UNCHANGED <<known, wr, ro, mine, next, events>>

ReadFetched ==
    /\ AnsweredTo("read", "READ")
    /\ fuse' = Idle
    /\ \/ /\ fuse.ok
          /\ cache' = Fetched
          /\ known' = fuse.ver
          /\ events' = events \cup FetchEvents
       \/ /\ ~fuse.ok
          /\ UNCHANGED <<cache, known, events>>
    /\ envUnchanged /\ UNCHANGED <<wr, ro, mine, next>>

\* The entry gets content d from this mount.
Modified(d) ==
    /\ cache' = [cache EXCEPT !.data = d, !.dirty = TRUE]
    /\ mine' = d

\* op_write through a writable handle; without an entry it is EBADF.
Write ==
    /\ fuse = Idle /\ wr > 0 /\ Present
    /\ Counted(TRUE)
    /\ Modified(next)
    /\ envUnchanged /\ UNCHANGED <<known, fuse, wr, ro, events>>

\* op_truncate to nothing, by path: it asks for no handle and no lock.
Truncate ==
    /\ fuse = Idle /\ Present
    /\ Counted(TRUE)
    /\ Modified(0)
    /\ events' = IF cache.lockCount = 0 THEN events \cup {"unlocked"} ELSE events
    /\ envUnchanged /\ UNCHANGED <<known, fuse, wr, ro>>

\* Mutant: the counts are decremented without the lower bound 0.
DecrementedNoFloor(w) ==
    [cache EXCEPT !.lockCount = IF w THEN @ - 1 ELSE @, !.openCount = @ - 1]

\* Mutant: a writable handle leaves openCount alone.
DecrementedOneCount(w) ==
    [cache EXCEPT !.lockCount = IF w /\ @ > 0 THEN @ - 1 ELSE @,
                  !.openCount = IF ~w /\ @ > 0 THEN @ - 1 ELSE @]

\* op_release up to its first call: the last writable handle flushes a dirty
\* entry and gives the lock back, the last handle erases the entry.
Decremented(w) ==
    [cache EXCEPT !.lockCount = IF w /\ @ > 0 THEN @ - 1 ELSE @,
                  !.openCount = IF @ > 0 THEN @ - 1 ELSE @]

Release(w) ==
    /\ fuse = Idle
    /\ \/ w /\ wr > 0 /\ wr' = wr - 1 /\ UNCHANGED ro
       \/ ~w /\ ro > 0 /\ ro' = ro - 1 /\ UNCHANGED wr
    /\ LET e == Decremented(w)
           f == [Idle EXCEPT !.op = "release", !.w = w] IN
       \/ /\ ~Present
          /\ IF w THEN Ask([f EXCEPT !.op = "drop"], "RELEASE") ELSE fuse' = Idle
          /\ UNCHANGED cache
       \/ /\ Present /\ w /\ e.lockCount = 0 /\ e.dirty
          /\ cache' = e
          /\ Ask([f EXCEPT !.data = e.data, !.ver = e.ver], "UPDATE")
       \/ /\ Present /\ w /\ e.lockCount = 0 /\ ~e.dirty
          /\ cache' = e
          /\ Ask(f, "RELEASE")
       \/ /\ Present /\ ~(w /\ e.lockCount = 0)
          /\ cache' = IF e.openCount = 0 THEN NoEntry ELSE e
          /\ fuse' = Idle
    /\ envUnchanged /\ UNCHANGED <<known, mine, next, events>>

\* The flush was answered; a refusal clears dirty as well.
Flushed ==
    /\ AnsweredTo("release", "UPDATE")
    /\ cache' = IF Present
                THEN [cache EXCEPT !.dirty = FALSE, !.ver = IF fuse.ok /\ fuse.ver # 0 THEN fuse.ver ELSE @]
                ELSE cache
    /\ known' = IF fuse.ok THEN fuse.ver ELSE known
    /\ Ask(fuse, "RELEASE")
    /\ events' = IF fuse.ok THEN events ELSE events \cup {"refused"}
    /\ envUnchanged /\ UNCHANGED <<wr, ro, mine, next>>

\* The lock of a handle whose entry is gone has been given back.
Dropped ==
    /\ AnsweredTo("drop", "RELEASE")
    /\ fuse' = Idle
    /\ envUnchanged /\ UNCHANGED <<cache, known, wr, ro, mine, next, events>>

Unlink ==
    /\ fuse = Idle /\ Visible
    /\ Ask([Idle EXCEPT !.op = "unlink"], "DELETE")
    /\ events' = events \cup {"deleted"}
    /\ envUnchanged /\ UNCHANGED <<cache, known, wr, ro, mine, next>>

Unlinked ==
    /\ AnsweredTo("unlink", "DELETE")
    /\ fuse' = Idle
    /\ \/ fuse.ok /\ known' = -1 /\ cache' = NoEntry
       \/ ~fuse.ok /\ UNCHANGED <<known, cache>>
    /\ envUnchanged /\ UNCHANGED <<wr, ro, mine, next, events>>

Next ==
    \/ Rpc \/ RpcLost \/ Health \/ Expire
    \/ OtherLock \/ OtherUpdate \/ OtherUnlock \/ OtherDelete \/ OtherCreate
    \/ (\E torn \in BOOLEAN : PushBegin(torn)) \/ PushEnd
    \/ \E w, t \in BOOLEAN : (t => w) /\ Open(w, t)
    \/ OpenAcquired \/ OpenFetched \/ Released
    \/ Lookup \/ (\E t \in BOOLEAN : Create(t)) \/ Created \/ CreateLocked \/ CreateUndone
    \/ Read \/ ReadFetched \/ Write \/ Truncate
    \/ (\E w \in BOOLEAN : Release(w)) \/ Flushed \/ Dropped
    \/ Unlink \/ Unlinked

Spec == Init /\ [][Next]_vars

-----------------------------------------------------------------------------
\* The type invariant.
TypeOK ==
    /\ cache = NoEntry \/ cache \in [data : 0..MaxContents, dirty : BOOLEAN, lockCount : 0..MaxHandles,
                                     openCount : 0..MaxHandles, ver : Nat]
    /\ known \in Nat \cup {-1} /\ mine \in 0..MaxContents \cup {-1}
    /\ wr \in 0..MaxHandles /\ ro \in 0..MaxHandles
    /\ lock \in {"none", "me", "other"}
    /\ events \subseteq {"lost", "expired", "deleted", "refetched", "unlocked", "overtaken", "torn", "refused"}

\* The counts of the entry are the open handles (op_open, op_release), as
\* long as no delete erased the entry under them.
CountsAreHandles ==
    fuse = Idle /\ events \cap {"deleted"} = {} =>
        IF Present THEN cache.openCount = wr + ro /\ cache.lockCount = wr ELSE wr + ro = 0

\* Between callbacks the mount holds the server's lock exactly while a
\* writable handle is open: no path of op_open, op_create and op_release leaks
\* it or gives it back early.
LockIsHandles ==
    fuse = Idle /\ events \cap {"lost", "expired", "deleted"} = {} => (lock = "me" <=> wr > 0)

\* A flush replaces the version its buffer was read from: what others wrote
\* in between is not overwritten (acquireLock before the fetch in op_open).
FlushFromCurrent ==
    fuse.rpc = "UPDATE" /\ fuse.st = "asked" /\ events \cap {"lost", "expired", "deleted", "unlocked", "overtaken"} = {} =>
        fuse.ver = srv.ver

\* "a locally-modified but not yet flushed write buffer always wins over a
\* push" (README): what was written and not flushed is in the cache, dirty.
UnflushedWriteKept ==
    mine >= 0 /\ events \cap {"deleted", "refetched", "unlocked"} = {} =>
        Present /\ cache.dirty /\ cache.data = mine

\* What an open file shows as the current version is that version: the bytes
\* of a clean entry that has the server's version are the server's bytes.
CurrentVersionShown ==
    /\ fuse = Idle /\ Present /\ srv.exists
    /\ cache.openCount > 0 /\ ~cache.dirty /\ cache.ver = srv.ver
    /\ events \cap {"deleted", "torn", "refused"} = {}
    => cache.data = srv.data
=============================================================================
