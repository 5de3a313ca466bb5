----------------------------- MODULE LockManager -----------------------------
(***************************************************************************)
(* The server's advisory write locks: LockManager (lock_manager.cpp), the  *)
(* FileLock entries it owns, the request-pool threads that run its         *)
(* operations on behalf of clients (server.cpp, handleClientRequest) and   *)
(* the lock-expiry thread.                                                 *)
(*                                                                         *)
(* Every critical section under stateMutex_ is one action.  A handler that *)
(* drops the mutex (buildFileLockMap queries datanodes without it) takes   *)
(* several actions, between which the other threads run.                   *)
(***************************************************************************)
EXTENDS Naturals, FiniteSets

CONSTANTS Clients,  \* process names of the connected clients
          Files,    \* file paths
          Workers,  \* threads of the server's requestPool_
          NoClient  \* the empty clientHolder of a lock nobody has taken

ASSUME NoClientAssumption == NoClient \notin Clients

VARIABLES
  fileLockMap,   \* LockManager::fileLockMap_, path -> FileLock or NoEntry
  stored,        \* paths some datanode lists in answer to SYNC_STATUS
  job,           \* what each pool thread is executing
  expiredLocks,  \* local of checkFileLockExpiration: (path, holder) to release
  open,          \* clients whose connection is up
  held,          \* per client, the paths for which it got an ACK to ACQUIRE_LOCK
                 \* and has not asked for the release since
  disturbed      \* auxiliary: paths of which a held lease has elapsed or the
                 \* entry was erased, at any time in the past

vars == <<fileLockMap, stored, job, expiredLocks, open, held, disturbed>>

-----------------------------------------------------------------------------
(* Lock entries.  Time is abstracted to one bit: "elapsed" says that       *)
(* expirationTime < now.                                                   *)

NoEntry == [present |-> FALSE, locked |-> FALSE, clientHolder |-> NoClient,
            elapsed |-> FALSE]

\* FileLock(path): unlocked, and its expiration is the time of construction.
NewFileLock == [present |-> TRUE, locked |-> FALSE, clientHolder |-> NoClient,
                elapsed |-> TRUE]

Granted(c) == [present |-> TRUE, locked |-> TRUE, clientHolder |-> c,
               elapsed |-> FALSE]

LockEntry == [present: BOOLEAN, locked: BOOLEAN,
              clientHolder: Clients \cup {NoClient}, elapsed: BOOLEAN]

HeldBy(f, c) == fileLockMap[f].locked /\ fileLockMap[f].clientHolder = c

(* Pool jobs: the opcode being served, the point it has reached, and, while *)
(* it rebuilds the lock map, the listing last fetched from a datanode.      *)
(* "live" is false once the client stopped waiting for the answer.          *)

Opcodes == {"ACQUIRE_LOCK", "RELEASE_LOCK", "CREATE_FILE", "DELETE_FILE",
            "CLOSE", "DATANODE_JOIN"}

Points == {"start", "build", "merge", "relock", "insert", "erase"}

Job == [op: Opcodes, client: Clients \cup {NoClient}, file: Files, at: Points,
        listing: SUBSET Files, live: BOOLEAN]

Idle == [op |-> "idle"]

Busy(w) == job[w] # Idle

At(w, op, pt) == Busy(w) /\ job[w].op = op /\ job[w].at = pt

Waiting(c) == \E w \in Workers : Busy(w) /\ job[w].client = c /\ job[w].live

Goto(w, pt) == job' = [job EXCEPT ![w].at = pt]

Finish(w) == job' = [job EXCEPT ![w] = Idle]

\* The type invariant.
TypeOK ==
  /\ fileLockMap \in [Files -> LockEntry]
  /\ stored \subseteq Files
  /\ job \in [Workers -> Job \cup {Idle}]
  /\ expiredLocks \subseteq Files \X (Clients \cup {NoClient})
  /\ open \subseteq Clients
  /\ held \in [Clients -> SUBSET Files]
  /\ disturbed \subseteq Files

Init ==
  /\ fileLockMap = [f \in Files |-> NoEntry]
  /\ stored = {}
  /\ job = [w \in Workers |-> Idle]
  /\ expiredLocks = {}
  /\ open = Clients
  /\ held = [c \in Clients |-> {}]
  /\ disturbed = {}

-----------------------------------------------------------------------------
(* Clients.  A client has one request in flight; it locks a path it does   *)
(* not hold (SquidFS acquires when lockCount = 0) and releases what it     *)
(* holds, giving the lock up before it asks.                               *)

ClientRequest(c, w, op, f) ==
  /\ c \in open /\ ~Waiting(c) /\ ~Busy(w)
  /\ op \in Opcodes \ {"DATANODE_JOIN"}
  /\ op = "ACQUIRE_LOCK" => f \notin held[c]
  /\ op = "RELEASE_LOCK" => f \in held[c]
  /\ job' = [job EXCEPT ![w] = [op |-> op, client |-> c, file |-> f,
                                at |-> "start", listing |-> {}, live |-> TRUE]]
  /\ held' = [held EXCEPT ![c] = CASE op = "RELEASE_LOCK" -> @ \ {f}
                                   [] op = "CLOSE" -> {}
                                   [] OTHER -> @]
  /\ UNCHANGED <<fileLockMap, stored, expiredLocks, open, disturbed>>

\* The jobs of c go on, but nobody waits for their answer any more.
Orphan(c) ==
  job' = [w \in Workers |-> IF Busy(w) /\ job[w].client = c
                            THEN [job[w] EXCEPT !.live = FALSE] ELSE job[w]]

\* The TCP connection breaks.  A mounted client keeps its open handles, and
\* with them its locks; a client that died has forgotten them.
Disconnect(c, died) ==
  /\ c \in open
  /\ open' = open \ {c}
  /\ Orphan(c)
  /\ held' = IF died THEN [held EXCEPT ![c] = {}] ELSE held
  /\ UNCHANGED <<fileLockMap, stored, expiredLocks, disturbed>>

\* handleAccept for a client: nothing in the lock map changes.
Connect(c) ==
  /\ c \notin open
  /\ open' = open \cup {c}
  /\ UNCHANGED <<fileLockMap, stored, job, expiredLocks, held, disturbed>>

-----------------------------------------------------------------------------
(* buildFileLockMap: for each datanode in turn, fetch its listing without  *)
(* the mutex, then insert what is missing under it.  A listing is some of  *)
(* what the datanodes store; the loop ends after any number of rounds.     *)

BuildFetch(w) ==
  /\ Busy(w) /\ job[w].at = "build"
  /\ \E l \in SUBSET stored :
       job' = [job EXCEPT ![w].at = "merge", ![w].listing = l]
  /\ UNCHANGED <<fileLockMap, stored, expiredLocks, open, held, disturbed>>

BuildMerge(w) ==
  /\ Busy(w) /\ job[w].at = "merge"
  /\ fileLockMap' = [f \in Files |->
       IF f \in job[w].listing /\ ~fileLockMap[f].present
       THEN NewFileLock ELSE fileLockMap[f]]
  /\ job' = [job EXCEPT ![w].at = "build", ![w].listing = {}]
  /\ UNCHANGED <<stored, expiredLocks, open, held, disturbed>>

\* Mutant of BuildDone: after the rebuild the job goes to a point that no
\* operation continues from.
BuildDoneLost(w) ==
  /\ Busy(w) /\ job[w].at = "build"
  /\ Goto(w, "retry")
  /\ UNCHANGED <<fileLockMap, stored, expiredLocks, open, held, disturbed>>

\* After the rebuild acquireLock looks again; releaseLock returns false
\* whether or not it finds an entry now; a datanode's handshake is over.
BuildDone(w) ==
  /\ Busy(w) /\ job[w].at = "build"
  /\ IF job[w].op = "ACQUIRE_LOCK" THEN Goto(w, "relock") ELSE Finish(w)
  /\ UNCHANGED <<fileLockMap, stored, expiredLocks, open, held, disturbed>>

-----------------------------------------------------------------------------
(* acquireLock and releaseLock. *)

\* Mutant of Grant: acquireLock without the isLocked() test.
GrantUnchecked(w) ==
  /\ fileLockMap' = [fileLockMap EXCEPT ![job[w].file] = Granted(job[w].client)]
  /\ held' = IF job[w].live
             THEN [held EXCEPT ![job[w].client] = @ \cup {job[w].file}]
             ELSE held
  /\ Finish(w)
  /\ UNCHANGED <<stored, expiredLocks, open, disturbed>>

\* The part of acquireLock that runs once an entry is known to exist.
Grant(w) ==
  LET f == job[w].file
      c == job[w].client
  IN /\ IF fileLockMap[f].locked
        THEN UNCHANGED <<fileLockMap, held>>
        ELSE /\ fileLockMap' = [fileLockMap EXCEPT ![f] = Granted(c)]
             /\ held' = IF job[w].live
                        THEN [held EXCEPT ![c] = @ \cup {f}] ELSE held
     /\ Finish(w)
     /\ UNCHANGED <<stored, expiredLocks, open, disturbed>>

AcquireLock(w) ==
  /\ At(w, "ACQUIRE_LOCK", "start")
  /\ IF fileLockMap[job[w].file].present
     THEN Grant(w)
     ELSE /\ Goto(w, "build")
          /\ UNCHANGED <<fileLockMap, stored, expiredLocks, open, held,
                         disturbed>>

AcquireLockAgain(w) ==
  /\ At(w, "ACQUIRE_LOCK", "relock")
  /\ IF fileLockMap[job[w].file].present
     THEN Grant(w)
     ELSE /\ Finish(w)
          /\ UNCHANGED <<fileLockMap, stored, expiredLocks, open, held,
                         disturbed>>

\* releaseLock takes no client name: it unlocks whoever holds the path.
ReleaseLock(w) ==
  /\ At(w, "RELEASE_LOCK", "start")
  /\ IF fileLockMap[job[w].file].present
     THEN /\ fileLockMap' = [fileLockMap EXCEPT ![job[w].file].locked = FALSE]
          /\ Finish(w)
     ELSE /\ Goto(w, "build")
          /\ UNCHANGED fileLockMap
  /\ UNCHANGED <<stored, expiredLocks, open, held, disturbed>>

-----------------------------------------------------------------------------
(* The callers of insertLock and eraseLock.  The fan-out to the datanodes  *)
(* is abstracted to its effect on the listings.                            *)

\* propagateCreateFile: below quorum the copies are rolled back later, if at
\* all; otherwise insertLock follows.
CreateStore(w) ==
  /\ At(w, "CREATE_FILE", "start")
  /\ \/ stored' = stored \cup {job[w].file} /\ Goto(w, "insert")
     \/ stored' \in {stored, stored \cup {job[w].file}} /\ Finish(w)
  /\ UNCHANGED <<fileLockMap, expiredLocks, open, held, disturbed>>

\* Mutant of InsertLock: the entry is assigned instead of inserted.
InsertLockAssign(w) ==
  /\ At(w, "CREATE_FILE", "insert")
  /\ fileLockMap' = [fileLockMap EXCEPT ![job[w].file] = NewFileLock]
  /\ Finish(w)
  /\ UNCHANGED <<stored, expiredLocks, open, held, disturbed>>

\* insertLock: map::insert leaves an existing entry alone.
InsertLock(w) ==
  /\ At(w, "CREATE_FILE", "insert")
  /\ fileLockMap' = [fileLockMap EXCEPT ![job[w].file] =
                       IF @.present THEN @ ELSE NewFileLock]
  /\ Finish(w)
  /\ UNCHANGED <<stored, expiredLocks, open, held, disturbed>>

\* propagateDeleteFile: below quorum it returns before eraseLock; a datanode
\* that did not answer may still list the path.
DeleteStore(w) ==
  /\ At(w, "DELETE_FILE", "start")
  /\ stored' \in {stored, stored \ {job[w].file}}
  /\ Goto(w, "erase") \/ Finish(w)
  /\ UNCHANGED <<fileLockMap, expiredLocks, open, held, disturbed>>

EraseLock(w) ==
  LET f == job[w].file
  IN /\ At(w, "DELETE_FILE", "erase")
     /\ fileLockMap' = [fileLockMap EXCEPT ![f] = NoEntry]
     /\ disturbed' = disturbed \cup {f}
     /\ Finish(w)
     /\ UNCHANGED <<stored, expiredLocks, open, held>>

\* CLOSE: the answer is sent and the session ends; no lock is released.
Close(w) ==
  /\ At(w, "CLOSE", "start")
  /\ open' = IF job[w].live THEN open \ {job[w].client} ELSE open
  /\ Finish(w)
  /\ UNCHANGED <<fileLockMap, stored, expiredLocks, held, disturbed>>

\* A datanode connects with files of its own; its handshake rebuilds the map.
DatanodeJoin(w) ==
  /\ ~Busy(w)
  /\ \E l \in SUBSET Files : stored' = stored \cup l
  /\ \E f \in Files :
       job' = [job EXCEPT ![w] =
                 [op |-> "DATANODE_JOIN", client |-> NoClient, file |-> f,
                  at |-> "build", listing |-> {}, live |-> FALSE]]
  /\ UNCHANGED <<fileLockMap, expiredLocks, open, held, disturbed>>

-----------------------------------------------------------------------------
(* Time, and the lock-expiry thread (server.cpp, lockExpiryThread_).       *)

\* DEFAULT_LOCK_INTERVAL minutes have passed since the lock was granted.
LeaseElapses(f) ==
  /\ fileLockMap[f].locked /\ ~fileLockMap[f].elapsed
  /\ fileLockMap' = [fileLockMap EXCEPT ![f].elapsed = TRUE]
  /\ disturbed' = disturbed \cup {f}
  /\ UNCHANGED <<stored, job, expiredLocks, open, held>>

\* checkFileLockExpiration, first half: collect under the shared lock.
ExpiryScan ==
  /\ expiredLocks = {}
  /\ expiredLocks' = {<<f, fileLockMap[f].clientHolder>> :
       f \in {g \in Files : fileLockMap[g].locked /\ fileLockMap[g].elapsed}}
  /\ UNCHANGED <<fileLockMap, stored, job, open, held, disturbed>>

\* Mutant of ExpiryRelease: the holder is notified but the path stays locked.
ExpiryNotifyOnly(p) ==
  /\ p \in expiredLocks
  /\ expiredLocks' = expiredLocks \ {p}
  /\ UNCHANGED <<fileLockMap, stored, job, open, held, disturbed>>

\* Second half, once per collected pair: unlock the path, without looking
\* again.  The RELEASE_LOCK posted to the recorded holder changes no lock
\* state: the mounted client's push handler ignores the opcode.
ExpiryRelease(p) ==
  /\ p \in expiredLocks
  /\ expiredLocks' = expiredLocks \ {p}
  /\ fileLockMap' = IF fileLockMap[p[1]].present
                    THEN [fileLockMap EXCEPT ![p[1]].locked = FALSE]
                    ELSE fileLockMap
  /\ UNCHANGED <<stored, job, open, held, disturbed>>

-----------------------------------------------------------------------------
ClientStep ==
  \E c \in Clients :
    \/ \E w \in Workers, op \in Opcodes, f \in Files : ClientRequest(c, w, op, f)
    \/ \E died \in BOOLEAN : Disconnect(c, died)
    \/ Connect(c)

WorkerStep(w) ==
  \/ BuildFetch(w) \/ BuildMerge(w) \/ BuildDone(w)
  \/ AcquireLock(w) \/ AcquireLockAgain(w) \/ ReleaseLock(w)
  \/ CreateStore(w) \/ InsertLock(w)
  \/ DeleteStore(w) \/ EraseLock(w)
  \/ Close(w) \/ DatanodeJoin(w)

Expire == ExpiryScan \/ \E p \in expiredLocks : ExpiryRelease(p)

Next ==
  \/ ClientStep
  \/ \E w \in Workers : WorkerStep(w)
  \/ \E f \in Files : LeaseElapses(f)
  \/ Expire

Spec == Init /\ [][Next]_vars

\* Time passes and the expiry thread keeps looping; nothing is assumed of
\* clients, of the network or of the pool.
FairSpec == Spec /\ WF_vars(Expire) /\ \A f \in Files : WF_vars(LeaseElapses(f))

-----------------------------------------------------------------------------
(* Properties. *)

\* As long as no lease on f has elapsed and f was not deleted, at most one
\* client believes it holds f: acquireLock, releaseLock, insertLock and any
\* rebuild of the map, interleaved in any way, with clients vanishing and
\* coming back between their requests, grant no second lock and drop none.
MutualExclusion ==
  \A f \in Files \ disturbed : \A c, d \in Clients :
    f \in held[c] /\ f \in held[d] => c = d

\* The requests to release f that have not reached the lock map yet.
PendingRelease(f) == {w \in Workers : At(w, "RELEASE_LOCK", "start")
                                     /\ job[w].file = f}

\* The map, the clients and the requests in flight agree on who holds f.
Agreement(f) ==
  /\ fileLockMap[f].locked => fileLockMap[f].present /\ ~fileLockMap[f].elapsed
  /\ \A c \in Clients : f \in held[c] => HeldBy(f, c)
  /\ \A w \in PendingRelease(f) :
       /\ job[w].client \in Clients
       /\ HeldBy(f, job[w].client) /\ f \notin held[job[w].client]
  /\ \A v, w \in PendingRelease(f) : v = w
  /\ \A p \in expiredLocks : p[1] # f

\* What makes MutualExclusion inductive: on an undisturbed path the map names
\* the client that believes in its lock; a RELEASE_LOCK on its way is alone,
\* and is about the lock of the client that sent it; the expiry thread has no
\* claim on the path.
LockInv == \A f \in Files \ disturbed : Agreement(f)

\* checkFileLockExpiration: no lock is held forever, not even one granted to
\* a client that disconnected before the grant or died without releasing.
LockEventuallyFreed ==
  \A f \in Files : fileLockMap[f].locked ~> ~fileLockMap[f].locked

\* README.md: RELEASE_LOCK is "Surrender write lock", and "Only one client may
\* hold the lock for a given file at a time": handling a client's RELEASE_LOCK
\* never unlocks a path that is locked by another client.
ReleaseSurrendersOwnLock ==
  [][\A w \in Workers : At(w, "RELEASE_LOCK", "start") /\ job'[w] = Idle
       => LET e == fileLockMap[job[w].file]
          IN e.locked => e.clientHolder = job[w].client]_vars

\* lock_manager.hpp, checkFileLockExpiration: "releases expired locks": a step
\* of the expiry thread unlocks a path only if the lock on it has expired.
ExpiryReleasesExpired ==
  [][\A f \in Files :
       expiredLocks' # expiredLocks /\ fileLockMap[f].locked
         /\ ~fileLockMap'[f].locked
       => fileLockMap[f].elapsed]_<<expiredLocks, fileLockMap>>

\* README.md: "When a client calls RELEASE_LOCK or the connection closes, the
\* lock is released immediately": no lock is in the name of a client whose
\* CLOSE has been handled.
ClosedClientHoldsNothing ==
  [][\A w \in Workers : At(w, "CLOSE", "start") /\ job'[w] = Idle
       => \A f \in Files : ~(fileLockMap'[f].locked
            /\ fileLockMap'[f].clientHolder = job[w].client)]_vars
=============================================================================
