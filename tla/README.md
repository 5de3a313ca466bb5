# Squid-Storage in TLA+

Squid-Storage is a replicated file store: a leader server keeps a version and a
set of holders for every path, datanodes keep the bytes, clients read and write
through the server under advisory write locks, and standby servers take over
when the leader is gone. This directory models the parts of it that run
concurrently, fail, or turn state into bytes and back, checks them with TLC on
small instances and proves the safety properties of eight of them with TLAPS for
every size.

File names below are relative to `src/`; `README.md:n` with a quotation is the
repository's own `src/README.md`.

## The system and its models

| Part | Code | Module |
|---|---|---|
| Write locks, their leases and the expiry thread | `server/src/lock_manager.cpp`, `common/src/filesystem/filelock.*` | `LockManager` |
| Sequence-numbered framing | `common/src/squidprotocol/squidprotocol.cpp` (`sendFrame`, `receiveAndParse`) | `SeqChannel`, `OrderedDelivery` |
| The bytes of frames and file transfers | `squidProtocolFormatter.cpp`, `squidprotocol.cpp` (`receiveFrame`), `filetransfer.cpp` | `Frames` |
| Replication of a path, heartbeats, persistence | `server/src/replication_manager.cpp`, `heartbeat_manager.cpp`, `state_manager.hpp`, the datanode's handlers in `squidprotocol.cpp` | `Replication` |
| The version file | `filemanager.cpp`, `state_manager.hpp` | `VersionFile` |
| Clients and standbys that follow the version map, the thread pool | `server.cpp` (`handleAccept`, `handleStandbyConnect`), `standby_replica_manager.cpp`, `thread_pool.hpp`, `replica_watcher.cpp`, `client.cpp` | `Followers` |
| Leadership: standbys, epochs, the peers' search for a server | `server/src/replica_watcher.cpp`, `main.cpp`, `common/src/filesystem/epoch_store.hpp`, `common/src/peer/peer.cpp` | `Failover` |
| One client connection: calls, handlers, pushes | `common/src/networking/ConnectionSession.hpp`, `server/src/server.cpp` (`handleClientRequest`), `client/src/client.cpp` | `Session` |
| The FUSE mount and its cache | `client/src/squidfs.cpp`, `client/src/client.cpp` | `SquidFS` |
| The plan that reconciles two version maps | `syncplanner.hpp` | `SyncPlanner` |
| Sockets, logger, parsing of the configuration | `networking/TCP*.cpp`, `utils/*`, `ClusterConfig.hpp` | not modelled |

How they interact: a client's request arrives through a connection (`Session`
over `SeqChannel`, as the bytes of `Frames`), is run by a pool thread, which
takes a lock (`LockManager`) or changes the copies of a path (`Replication`), and
the change is pushed to the other clients and sent to the standbys (`Followers`),
where a client's mount takes it into its cache (`SquidFS`). Versions outlive a
process in `VersionFile`. `Failover` decides which server the clients and
datanodes talk to. `PROJECT.json` has the inventory, a map from every definition
to its lines, and the hazards.

The `MC` modules give the constants of the runs: `MCLockManager` the symmetry,
`MCReplication` and `MCFollowers` the scenarios (which requests, how many faults),
`MCFormats` the messages and paths. `MCFormats` also puts `Frames`, `VersionFile`
and `SyncPlanner`, which share no state, behind one next-state relation.

Where code breaks a promise in one particular way, a property still says what
holds otherwise: a history variable (`events`, `harm`, `disturbed`, `overtaken`)
records that the way was taken, and the property excepts it. The configurations
under "Further counterexamples" show several of these ways.

### LockManager

State: `fileLockMap`, what every pool thread is executing (`job`), the expiry
thread's list (`expiredLocks`), the open connections, and per client the paths
it believes it holds (`held`). Every critical section under `stateMutex_` is an
action. `buildFileLockMap` queries datanodes without the mutex, so a request
that needs a rebuild takes several actions, with anything in between. A client
may vanish while its request is in flight and come back. Time is one bit per
lock: the lease has elapsed or not. `disturbed` is a history variable: the paths
of which a held lease elapsed, or that were deleted, at some time.

### SeqChannel and OrderedDelivery

`SeqChannel` is one direction of a connection: the sender's and the receiver's
counter, the reorder buffer, and the messages returned. Counters are modulo
`SeqMod`, which stands for 2^32. With `Stream` the wire is a TCP stream, as in
the program; without it frames are reordered and repeated, which is what the
buffer is written for. `OrderedDelivery` is the abstract promise, delivery in
order and exactly once, and `SeqChannel` is shown to implement it.

### Frames

One direction of a connection as bytes: `buildFrame` and the fields of every
message a program sends, `stampSeq`, the file transfer behind a push, and on the
other side `receiveFrame`, the accessors and `parseSnapEntry`. A byte counts in
base `Base` (256 in the program), so the limits of one- and two-byte lengths come
within reach; a text is a sequence of words. The connection can end after any
byte. `TooBig` is the exception of `buildFrame`: such a message is not sent.

### Replication

One path over `N` datanodes. A call to a datanode is one action, a critical
section is one action, and every other thread may run in between: pool threads
serving clients (`job`), delayed rollbacks, the heartbeat thread (`hb`), and
datanodes that register (`reg`). A connection can break before, in the middle
of, or after the datanode's work, so a copy may hold no, partial or complete
bytes of a write that the server counts as failed. `persistState` reads the map
and renames its file in two steps, as it holds no mutex. `Restart` is a crash
and restart of the server at any point: what survives is `fileVersions.txt` and
the datanodes' disks. A call on a session that is already dead never returns, as
in `ConnectionSession::call`. `events` records what undoes the promises of the
program:

- `stale save`: a save renamed a map that had changed since it was read;
- `late rollback`: a rollback ran during another request;
- `stale copy`: a rebalance stored bytes older than the last acknowledged write,
  or any while a write was under way;
- `cut write`: a restart cut a write off, which leaves its bytes on datanodes;
- `deleted`: the file was deleted, after which versions start again;
- `outdone`: a datanode registered a version above the one a write under way had
  taken, so that this write commits a lower one.

### VersionFile

`.squid/fileVersions.txt` as lines of words in inodes. In the server
`FileManager::setFileVersion` reads, truncates and rewrites the file in place
while `StateManager` fills a temporary file, whose name all threads share, and
renames it over; a datanode has the `FileManager` alone. Reading is
what the code does with a line: `istringstream >> path >> version` in the one
class, the text before the last blank in the other, with `#` lines skipped. The
process can crash between any two of these steps and start again.

### Followers

One client or standby that connects, perhaps again under the same name, while
other clients write. The pool's queue and threads run the handshake, the writes,
the pushes and the listing as tasks, one action per critical section or call; a
session is the queue of frames posted to it. A pool thread that calls a session
whose worker has ended is lost (`stuck`). `view` is what the follower has for the
path: `versions_` of a client, `versionMap_` of a standby. The events that let it
fall behind are listed at `Events` in the module.

### Failover

Server 1 is the primary of the configuration, the others are standbys whose
watcher (`at`) scans, connects, follows the leader, probes the servers of higher
priority, saves the next epoch and starts to lead. `stored` is `epoch.txt`.
Processes crash between any two of these steps and restart; connections and
heartbeats are lost. Peers walk over the servers and keep `lastSeen`. `overtaken`
is a history variable: the servers that had found one of higher priority down
when it began to lead.

### SyncPlanner

`planSync` with one action per step of its two loops, on any two version maps.

### Session

The client's call and its worker, the server's worker with its task queue and
`readSuspended_`, the pool thread that answers a request through `call()`, and
the pushes and lease notices other threads post. Frames carry no correlation
identifier; items of the model do, and no guard reads it. A frame read where
file bytes are expected leaves junk on the wire. The frame of a push and its
bytes arrive together.

### SquidFS

The cache entry of one path, the FUSE thread that serves one callback at a
time, the push handler, reconnection, and, as environment, the server's version,
content and lock of the path and the other clients. Each call to the server is
two steps, so pushes run before, between and after them. A push has two halves
(`PushBegin`, `PushEnd`): for new bytes `Client::handlePush` records the version
before the callback of the mount fills the entry, for a delete the entry goes
first and the version after it. A call that meets a push on the
wire fails and loses the session (`Session` has the details of that). A commit
and its push are one step, and so are the bytes and the version of a READ.
`events` is a history of what the cache does not guard against:

- `lost`: the session was lost;
- `expired`: the lease of the mount's lock ran out;
- `deleted`: the entry was dropped while handles were open;
- `refetched`: a read of a truncated, unflushed file fetched the old bytes;
- `unlocked`: a truncation without the lock;
- `overtaken`: bytes of a READ replaced newer bytes a push had brought;
- `torn`: a push whose bytes were cut off is shown as an empty file of the new
  version (`handlePush` ignores the result of `receiveFileData`);
- `refused`: a flush was refused, and the buffer counts as clean all the same.

## What TLC checks

| Run | Module, configuration | Result | Distinct states |
|---|---|---|---|
| `lock_safety` | `MCLockManager`, `LockSafety.cfg` | holds | 280,329 (with symmetry) |
| `lock_liveness` | `MCLockManager`, `LockLiveness.cfg` | holds | 19,428 |
| `lock_foreign_release` | `MCLockManager`, `LockForeignRelease.cfg` | counterexample | |
| `seq_channel` | `SeqChannel`, `SeqChannel.cfg` | holds | 415 |
| `repl_faults` | `MCReplication`, `ReplFaults.cfg` | holds | 1,785,417 |
| `repl_rejected` | `MCReplication`, `ReplRejected.cfg` | counterexample | |
| `followers` | `MCFollowers`, `Followers.cfg` | holds | 385,840 |
| `failover_epochs` | `Failover`, `FailoverEpochs.cfg` | holds | 77,550 |
| `failover_fencing` | `Failover`, `FailoverFencing.cfg` | counterexample | |
| `session_answers` | `Session`, `SessionAnswers.cfg` | holds | 488,579 |
| `squidfs_cache` | `SquidFS`, `SquidFSCache.cfg` | holds | 3,729,065 |
| `formats` | `MCFormats`, `Formats.cfg` | holds | 472,878 |

- **lock_safety.** As long as no lease on a path has elapsed and the path was not
  deleted, at most one client believes it holds its lock, and the map, the
  clients and the requests in flight agree on who. Two clients and two pool
  threads are the smallest instance with two requests in flight, or a request
  and a rebuild. Once a lease has elapsed the promise is really gone, see
  `lock_foreign_release`.
- **lock_liveness.** Every lock is freed in the end, also one granted to a client
  that vanished first. Fairness: the expiry thread loops, and time passes.
- **seq_channel.** `SeqChannel` implements `OrderedDelivery` and every frame is
  delivered. The unordered wire is checked below the wrap-around (6 frames, 7
  numbers): beyond it a repeated old frame is taken for a new one, which a TCP
  stream cannot produce. On the stream 20 frames with 7 numbers wrap twice.
  Fairness: the receiver reads and the wire delivers each frame once.
- **repl_faults.** One client at a time and one fault: a connection that breaks
  anywhere, with the rollback, eviction, rebalancing and rejoining it leads to
  (creates, updates, reads), or a restart between any two steps (creates,
  updates, deletes). The version the server knows is never below an
  acknowledged one and goes down only if a datanode outdid a write, the version
  on file is not below it either unless a save was overtaken; a committed write
  is on a quorum of datanodes unless a late rollback or a stale copy came before,
  and every copy that a read would accept has the last acknowledged bytes unless
  a write was rejected or one of the named events has happened. Two datanodes
  with replication factor 2 need both answers, so one break gives every partial
  fan-out. The crash does not hit the rewrite of `fileVersions.txt` here; the
  `formats` run has its steps, and `ReplCrash.cfg` what it leads to. `outdone` and
  a rejoining datanode beside a write need more faults than the run has; the
  proofs below cover them.
- **followers.** Two pool threads; either two writes while a client or a standby
  connects, or one write and one fault (a lost connection, a rejected write, a
  lost writer) while it connects twice. With nothing under way a connected
  follower has the server's version, it is registered under its name, it is
  served in the end while a pool thread is left, and a dead standby leaves the
  registry. Two threads are needed for a write beside a handshake; two
  connections for a late task of the first. Fairness: pool threads and session
  workers run, the follower sends its next request and reads what arrives while
  it is connected, the standby heartbeat thread loops.
- **failover_epochs.** Three servers, two crashes and one lost connection: the
  epoch a server leads or has led with is on its disk, no standby leads twice
  with the same epoch, and while a server process runs some server comes to
  lead. `SoleLeader`: two servers lead at once only after network trouble or when
  the one of higher priority began to lead after the other had found it down; it
  says that scans, probes, promotions and crashes have no other order that ends
  with two leaders. Three servers are the smallest instance in which a standby
  has two others to probe. Fairness: the watcher thread of a running standby
  keeps going. Nobody has to restart a server.
- **session_answers.** Two calls and two pushes or lease notices: one handler at
  a time, and no request read while it runs, an update stores its own bytes unless a lease notice swallowed a
  request, an ACK belongs to its call unless a push was taken for an answer, and
  a call the worker has begun returns. Fairness: worker and pool threads run,
  and the client's receives time out (`SO_RCVTIMEO` in
  `TCPConnectorChannel.cpp:71`). A call still queued when the worker leaves never
  returns, in the model as in the code, so the property is about begun calls.
- **squidfs_cache.** Two handles, three modifications, one lost session, one
  delete or create by another client. Each property holds until one of the
  events it names has happened: `CountsAreHandles` until `deleted`;
  `LockIsHandles` until `lost`, `expired` or `deleted`; `FlushFromCurrent` until
  `lost`, `expired`, `deleted`, `unlocked` or `overtaken`; `UnflushedWriteKept`
  until `deleted`, `refetched` or `unlocked`; `CurrentVersionShown`, that a clean
  entry at the server's version has the server's bytes, until `deleted`, `torn`
  or `refused`.
- **formats.** Two messages out of a set with numbers of one to three digits,
  texts and listings up to and over what a length field can say, paths with a
  blank, and contents that begin like a frame: the reader stays in step with the
  writer whatever byte the connection ends at, and the handlers read what was
  sent. The version file under three operations of two threads and one crash:
  it gives back what was last set, and a crash loses the version of no path
  that nobody was writing, unless it comes during a rewrite or two threads were
  in the file at once. The plan of any two version maps over three files: every
  file ends on both sides in its newest version. Three files give an entry of
  each kind.

Deadlock is checked in the runs of `LockManager`. The other systems may stop:
bounds are used up, calls never return, processes are down.

Every property of a passing run comes with a mutant in `PROJECT.json`, a
plausible error in the code it is about, with which TLC finds it violated.

## Where code and documentation disagree

The runs with a counterexample:

- `lock_foreign_release`: `releaseLock` takes no client name, so the late
  RELEASE_LOCK of a client whose lease expired frees the next holder's lock
  (`lock_manager.cpp:69`; README.md:242 "Only one client may hold the lock for a
  given file at a time.").
- `repl_rejected`: the bytes of a write answered with a NACK stay on a datanode
  whose answer was lost, or on all that took an update below quorum, and are
  read later (`replication_manager.cpp:265`; README.md:189).
- `failover_fencing`: the ACK of the handshake carries no epoch, so a peer goes
  back to a restarted primary with an older epoch (`server.cpp:146`,
  `peer.cpp:45`; README.md:257).

Met while translating, without a run of their own:

- `stampSeq` writes bytes 5 to 8 of the header; `squidProtocolFormatter.hpp:177`
  says 9 to 12.
- A field's length has two bytes; README.md gives VALUE_LEN four.
- DELTA_OP is 0 for a create or update and 1 for a delete; the comment at
  `squidProtocolFormatter.hpp:75` numbers create, update and delete 0, 1, 2.
- No program calls `planSync`; README.md:212-224 describes it as a part of every
  connection.
- The rebalance takes datanodes in the order of their names; `pickDataNodes`, the
  round-robin of README.md:292, has no caller.

### Further counterexamples

Configurations kept beside the runs; each checks one property, which TLC finds
violated (`tlc -config X.cfg M`). The module of those that begin with `Lock` is
`MCLockManager`, with `Repl` `MCReplication`, with `Followers` `MCFollowers`, with
`Formats` `MCFormats`.

| Configuration | Property | What happens |
|---|---|---|
| `LockExpiryRace` | `ExpiryReleasesExpired` | The expiry thread collects a lock, drops the mutex, and releases the path when another client has it (`lock_manager.cpp:99`; `lock_manager.hpp:41`) |
| `LockClose` | `ClosedClientHoldsNothing` | CLOSE leaves the client's locks to their leases (`server.cpp:313`; README.md:245) |
| `ReplCrash` | `AckedVersionStands` | `setFileVersion` rewrites `fileVersions.txt` in place; a crash inside loses the versions (`filemanager.cpp:250`; README.md:341) |
| `ReplPersistRace` | `PersistedVersionStands` | Two overlapping `persistState`: the older map is renamed last (`replication_manager.cpp:387`; `replication_manager.hpp:115`) |
| `ReplConcurrent` | `UpdateIncrementsVersion` | Two updates in flight commit the same version (`replication_manager.cpp:229`; README.md:199) |
| `ReplCreateOver` | `VersionNeverDecreases` | Creating an existing path sets its version back to 0 (`replication_manager.cpp:197`; README.md:199) |
| `ReplMajority` | `CommittedOnMajority` | The delayed rollback of a failed create deletes a copy of the retry (`replication_manager.cpp:184`; README.md:189) |
| `ReplRebalance` | `AcceptedCopiesAreFresh` | A rebalance overlapping an update labels old bytes with the new version (`replication_manager.cpp:420`; README.md:206) |
| `ReplEviction` | `DeadAreEvicted` | The heartbeat thread calls a session whose worker has left and waits forever (`heartbeat_manager.cpp:33`; README.md:306) |
| `FollowersWindow` | `StandbyHasNoWindow` | A delta sent between a standby's snapshot and its registration is lost (`standby_replica_manager.cpp:28`; README.md:261) |
| `FollowersUnlisted` | `ClientMissesNoWrite` | A write listed the clients before one registered, or commits after its listing was taken (`server.cpp:207`; README.md:230) |
| `FollowersDeadClient` | `DeadClientLeaves` | A client that ends without CLOSE stays in `clientEndpointMap_` (`server.cpp:316`) |
| `FollowersPool` | `PoolSurvives` | Answers to clients whose sessions have died hold every pool thread for ever (`ConnectionSession.hpp:102`; README.md:305) |
| `FormatsSnapshot` | `SnapshotIsFull` | A path with a blank is read back as its first word (`squidProtocolFormatter.cpp:331`; README.md:261) |
| `FormatsPush` | `PushesAreWhole` | A push cut off under its bytes is handed on as an empty file (`client.cpp:94`) |
| `FormatsPartial` | `NoPartialState` | A crash during a rewrite in place, or two threads with one temporary name, lose versions (`filemanager.cpp:248`, `state_manager.hpp:127`; `state_manager.hpp:18`) |
| `FailoverSplit` | `OneLeaderPerEpoch` | Two standbys probe, and promote to the same epoch (`replica_watcher.cpp:329`; README.md:257) |
| `FailoverDemotion` | `OlderLeaderStepsDown` | A restarted primary and the promoted standby both keep leading (`replica_watcher.cpp:67`; README.md:280) |
| `SessionPushes` | `AcksAreOwn` | A push read as an answer shifts all later answers by one (`squidprotocol.cpp:196`; README.md:161) |

## What is proved

TLAPS checks these for every value of the constants (23,502 obligations).

- **`LockManagerProofs`**: `TypeCorrect` and `LockMutualExclusion`, for any sets
  of clients, files and pool threads, assuming only that `NoClient` is not a
  client. Mutual exclusion is not inductive: a release in flight could unlock a
  path that changed hands. The inductive invariant `LockInv` says that on an
  undisturbed path the map names the client that believes in its lock, at most
  one RELEASE_LOCK is on its way and it is its sender's own, and the expiry
  thread has no claim. `LockInvariant` proves it, one step per action.
- **`FailoverProofs`**: `TypeCorrect`, `EpochsArePersisted`, `EpochsAreFresh` and
  `LeaderIsSole`, for any number of servers, peers, crashes and losses.
  `EpochPersisted` is inductive with the types: it carries the order between last
  led, stored and observed epoch through each point of a promotion. Freshness
  follows from it for the step that starts to lead. `SoleLeader` is not inductive;
  `ProbesHold` is: as long as nobody was overtaken and the network is sound,
  whoever a probe has found down does not listen, through the rest of the probes
  and the whole promotion. Of two leaders the lower has found the higher down,
  which is a contradiction.
- **`SquidFSProofs`**: `TypeCorrect`, `CountsCorrect`, `LockCorrect`,
  `BufferCorrect`, `FlushCorrect` and `BytesCorrect`, for any number of handles, modifications, lost sessions and
  interfering clients (at least one content, that of a file that exists before
  the mount). The properties speak of the mount between callbacks or of its
  buffer alone; the inductive invariants follow each callback from call to call,
  with a push in every gap. `Typed` has the point of the callback and bounds the
  counts by the handles. `CountsInv`: until a delete, counts and handles are the
  same at every point, and a callback that makes an entry finds no handle.
  `HolderInv`: the lock is held for the writable handles, or between its grant
  and the first of them, or between the last and the answer to RELEASE_LOCK.
  `BufferInv`: what is dirty is locked or being flushed, so that the eviction of
  an entry without handles meets no unflushed bytes.
  `FlushFromCurrent` is about the moment an UPDATE is sent; its invariant
  `FromCurrent` prepares it from the grant of the lock on. The last push on the
  way has the server's version (`PushesCurrent`), whoever holds the lock has
  handled every push and what is dirty is locked (`LockSettled`), so an open file
  has the server's version then (`OpenCurrent`), and so has what a call under way
  returned (`CallCurrent`). `CurrentVersionShown` is about the entry alone; its
  invariant `BytesAgree` says of pushes on the way, answers and the entry that
  each has an older version or the server's version and bytes (`PushesAgree`,
  `CallAgrees`, `EntryAgrees`), and that an open or locked file exists
  (`OpenExists`).
- **`SessionProofs`**: first the frames, `ChannelTyped`, `ChannelInvariant` and
  `ChannelRefinement` of `SeqChannel`, for every counter width and number of
  frames (on the unordered wire: fewer frames than numbers). `ChannelInv` relates
  each frame's number to its predecessor's instead of computing it modulo the
  width, which makes it inductive across wrap-arounds without an induction over
  data. The refinement maps every step of the channel to a step of
  `OrderedDelivery` or a stutter. Then the calls: `OneHandler`, `StoredBytes` and `OwnAcks`, for any number
  of calls, pushes and lease notices, and any order of timeouts, hang-ups and
  deaths of the two workers. The argument goes in three layers. `PoolInv`, the
  types with `Single` and `QueueInv`: there is at most one handler, reads are
  suspended while it runs, and the queue has at most one task of a handler, the
  one that handler waits for. `StreamInv` and `BytesInv` add the wire to the
  server: bytes lie right behind their request or what is left of it, junk only
  in front, and a handler that waits for bytes finds its own there or another
  request, unless a request was swallowed. `WireInv` and `AnswerInv` add the
  wire to the client: as long as the session is alive and no push was taken for
  an answer, the call is `InStep` with its handler (what is on the way to the
  client are the answers of the current call, in the order in which it waits for
  them, and an ACK that ends it says that it was carried out), or `Late`: a read
  gave up on its bytes, which will end the session before anything behind them
  is taken for an answer. None of the three properties is inductive alone: which
  answer comes next depends on what is left of a handler's work.
- **`ReplicationProofs`**: `TypeInvariant`, for any number of datanodes, clients,
  writes, breaks and restarts, with any replication factor. `Typed` adds to
  `TypeOK` what each point of a request has computed (`JobOK`: a fan-out has its
  version and bytes, the counted datanodes are not called again), which the types
  of later steps need. The module also classifies every step: it begins, lands,
  records, acknowledges or deletes for one writer, saves a map, or is quiet. The
  next module argues over these kinds of step instead of over the actions.
- **`ReplicationSafety`**: what a path keeps with one request at a time.
  `VersionsStand` is the inductive invariant of the versions: the acknowledged
  one is at most the server's and that of a write under way, and at most the one
  on file once the write is recorded. It gives `AckedStands`,
  `AckedStandsWithoutRestart` and `PersistedStands`. `VersionMonotone` is the
  action property `VersionUnlessOutdone`, from the invariant that a write not
  yet committed has the highest version (`OutdoneInv`). `CommitsOnQuorum` is the
  action property `CommittedOnQuorum`, from `QuorumInv`: a datanode counted for
  a write has its bytes and is not called again; the cardinalities come from the
  library. `AcceptedAreFresh` rests on `CopiesStayFresh`, whose invariant `Serves`
  says more than the property, which is about holders that can be reached: no
  version on a disk, in a registration or in a rebalance is above that of the
  write under way or else the server's; every copy with the version of the write
  under way has its bytes; every copy with the server's version has those of the
  last acknowledged write or later ones.
- **`FollowersProofs`**: `ShapeInvariant`, `RegistrationCorrect` and
  `FollowersCorrect`, for any number of pool threads, writes, connections and
  faults. `InStep` and `StaysRegistered` speak of a system at rest, so the
  invariant has to say of everything under way how it will end. It has four
  layers. `Shape`: at which points of which task a pool thread can be, and what a
  connection that is up, over or not yet made looks like. `Registered`: the
  connection is under its name, or its handshake is queued or being run, or it
  was displaced. `Course`: a connection is accepted once and asks for its listing
  once (`Unique`), what is queued, run and posted for it tells how far the
  follower is (`Stages`), and the session of a client starts at the end of its
  acceptance (`Started`). `Following`, as long as none of the events has happened:
  one write is under way at a time (`Alone`), and the follower has the server's
  version once it has read its frames, or the delta or push of a write is still
  to come (`StandbyKept`, `ClientKept`). The last layer is where the order of commit,
  client list, push, delta, snapshot and listing matters, with one lemma per step
  that can come between them. That it is inductive means that the list of events
  is complete: no other order leaves a follower behind.
- **`FollowersTypes`**: `FollowersTyped`, the types of `Followers`. Its bound on
  the versions is the part with an argument (`Bounded`): a version is given out
  once per write, so the writes still to come, queued or about to list the
  clients bound what any queue, job or frame can have. Cardinalities of those
  sets come from the library, which is why this is a module of its own. It also
  has `LoopsInvariant` and `PlanCorrect` of `SyncPlanner`, the other way to bring
  two version maps together, for any files, versions and two maps. The invariant
  of the loops (`PlannerInv`) says that the plan has exactly the operations due
  for the files visited so far, and what is left of the copy of the remote map.
  Types and invariant are proved together: the version of a planned operation is
  typed by the map it comes from.

The hypotheses of `ReplicationSafety` are conditions on the constants, and each
is needed. `OneWriter`: with two requests in flight two updates take the same
version (`ReplConcurrent.cfg`). `~CreateOver`: a create over an existing path
starts its versions again (`ReplCreateOver.cfg`). `~CrashInRewrite`, or no
restarts: a crash inside the rewrite in place loses the versions
(`ReplCrash.cfg`). `CommitsOnQuorum` needs the first alone. All of them are
satisfied by the scenarios of `repl_faults`. The invariants these proofs rest on
were checked with TLC on the constants of `repl_faults` before they were proved.

The attempts changed the model in three places. `Listed` was a CASE with
overlapping guards, whose value TLA+ leaves open. `VersionNeverDecreases` fails
in a second way beside `ReplCreateOver.cfg`, the event `outdone`, which takes more
faults than a run has: what holds is `VersionUnlessOutdone`. And freshness does
not survive a write cut off by a restart (`cut write`), a delete, or a rebalance
that copies while a write is under way, even one whose bytes are not yet old.

Only model-checked:

- All liveness properties: the prover has no fairness and no ENABLED.
- `ReaderInStep`, `SaysTheSame`, `FileMatchesMemory`, `CrashKeepsVersions` and the
  types of `Frames` and `VersionFile` (`TypeOK` of `MCFormats`): encodings and files are computed by folds over their input, and what these
  compute for every input takes an induction over data, which the provers lack.
- That a property fails once an event it excepts has happened: the
  configurations under "Further counterexamples" show it for several events.

## What is not modelled

- The end of a server: no program destroys a `Server`, so `~Server`, the shutdown
  of `ThreadPool` and the stop functions never run. `pickDataNodes` and
  `removeStandby` have no caller, and what `loadReplicationMap` returns is logged.
- Exceptions that leave a request handler (a listing of more than 127 files does
  not fit a frame, `squidProtocolFormatter.cpp:127`): `Frames` stops at the frame
  that is not sent. The data race of `persistState` traversing a map during an
  insertion: the model reads one consistent value. A failing `EpochStore::save`.
- The virtual directories of the mount (`op_mkdir`, `op_rmdir`, `op_readdir`,
  `listChildren`): a view computed from the known paths, and a set of names that
  only the single FUSE thread uses.
- The interactive client (`client/src/main.cpp`), modification times, the 64-bit
  fields and the PORT answer, which nobody sends.
- Sockets, configuration parsing, logging: input and output without state.
- More than one path in `Replication`, `Followers` and `SquidFS`: the maps are
  keyed by path, and the paths meet only in the version file, which `VersionFile`
  has with several.
- A second follower: followers meet only in the pool, whose threads the writes of
  other clients already compete for.

## Open ends

- READ_FILE's bytes and version (`server.cpp:259`) need a reader beside a writer
  in `Replication`; with a fault that is beyond a run of minutes.
- `op_create` can wait for its own mutex (`squidfs.cpp:378`): `SquidFS` has the
  state (`fuse.op = "stuck"`) and no property about it.
