------------------------- MODULE ReplicationSafety -------------------------
(***************************************************************************)
(* What the server keeps up with one request on the path at a time: the    *)
(* versions it acknowledged, the copies a commit stands on, and the         *)
(* freshness of the copies it would serve.  The invariants of               *)
(* Replication, proved from the kinds of steps of ReplicationProofs.        *)
(***************************************************************************)
EXTENDS ReplicationProofs
-----------------------------------------------------------------------------
(* One request at a time: the versions.                                      *)

OneWriter == \A v, w \in Writers : v = w

NoRestarts == \A s \in Scenarios : s.restarts = 0

InTime == "stale save" \notin events

\* The acknowledged version is no higher than the one the server knows, nor
\* than the one a write under way has taken.
VersionInv ==
  InTime \/ NoRestarts =>
    /\ acked.ver <= version
    /\ \A w \in Writers : /\ Writing(w) => acked.ver <= job[w].ver
                          /\ Committed(w) => job[w].ver <= version

\* The same for the version on file, once a write has recorded its own.
FileInv ==
  InTime =>
    /\ acked.ver <= fileVersion
    /\ \A w \in Writers : Committed(w) /\ job[w].at # "persist"
                          => job[w].ver <= fileVersion

Versions == VersionInv /\ FileInv

\* Numbers of a state.
LEMMA VersionNumbers ==
  ASSUME Typed
  PROVE  /\ version \in Int /\ fileVersion \in Int /\ acked.ver \in Int
         /\ version >= -1 /\ fileVersion >= -1
         /\ \A w \in Writers : job[w].ver \in Int
BY Zenon, JobParts DEF Typed, MapsTyped, AuxTyped, JobTyped

\* A quiet step keeps the versions.
LEMMA QuietVersions ==
  ASSUME Versions, Quiet, events \subseteq events'
  PROVE  Versions'
<1>1. InTime' => InTime
  BY Zenon DEF InTime
<1>2. \A w \in Writers : /\ Writing(w)' => Writing(w) /\ job'[w].ver = job[w].ver
                         /\ Committed(w)' => Committed(w)
                         /\ Committed(w)' /\ job'[w].at # "persist"
                            => job[w].at # "persist"
  BY Zenon DEF Quiet, KeepsWrites, Committed
<1>3. VersionInv'
  BY Zenon, <1>1, <1>2 DEF Versions, VersionInv, Quiet, Committed
<1>4. FileInv'
  BY Zenon, <1>1, <1>2 DEF Versions, FileInv, Quiet, Committed
<1> QED
  BY Zenon, <1>3, <1>4 DEF Versions

\* A save keeps the versions.
LEMMA SaveVersions ==
  ASSUME Typed, Versions, Saves, events \subseteq events'
  PROVE  Versions'
<1>1. (InTime' => InTime) /\ (InTime' => fileVersion' = version)
  BY Zenon DEF InTime, Saves
<1>2. \A w \in Writers : /\ Writing(w)' => Writing(w) /\ job'[w].ver = job[w].ver
                         /\ Committed(w)' => Committed(w)
                         /\ Committed(w)' /\ job'[w].at # "persist"
                            => job[w].at # "persist"
  BY Zenon DEF Saves, KeepsWrites, Committed
<1>3. VersionInv'
  BY Zenon, <1>1, <1>2 DEF Versions, VersionInv, Saves, Committed
<1>4. FileInv'
  BY Zenon, <1>1, <1>2 DEF Versions, FileInv, VersionInv, Saves, Committed
<1> QED
  BY Zenon, <1>3, <1>4 DEF Versions

\* With one writer, the step of a writer's request keeps the versions.
LEMMA WriteVersions ==
  ASSUME Typed, Typed', Versions, OneWriter, ~CreateOver, NEW w \in Writers,
         Begins(w) \/ Lands(w) \/ Records(w) \/ Acks(w) \/ Deletes(w),
         events \subseteq events'
  PROVE  Versions'
<1>0. /\ InTime' => InTime
      /\ \A v \in Writers : v = w
  BY Zenon DEF InTime, OneWriter
<1>n. /\ version \in Int /\ fileVersion \in Int /\ acked.ver \in Int
      /\ version >= -1 /\ fileVersion >= -1 /\ job[w].ver \in Int
      /\ job[w] \in Job /\ job'[w].ver \in Int
  BY Zenon, VersionNumbers, JobParts DEF Typed, JobTyped, Job
<1>1. CASE Begins(w)
  <2>1. /\ ~Committed(w)' /\ job'[w].ver > version
        /\ UNCHANGED <<version, fileVersion, acked>>
    BY Zenon, <1>1 DEF Begins
  <2>2. acked.ver <= version => acked.ver <= job'[w].ver
    BY <1>n, <2>1
  <2> QED
    BY Zenon, <1>0, <1>n, <2>1, <2>2 DEF Versions, VersionInv, FileInv
<1>2. CASE Lands(w)
  <2>1. /\ job'[w] = [job[w] EXCEPT !.at = "persist"] /\ Writing(w)
        /\ version' = job[w].ver /\ UNCHANGED <<fileVersion, acked>>
    BY Zenon, <1>2 DEF Lands
  <2>2. job'[w].ver = job[w].ver /\ job'[w].at = "persist"
    BY Zenon, <2>1, <1>n DEF Job
  <2>a. Writing(w) /\ version' = job[w].ver /\ UNCHANGED <<fileVersion, acked>>
    BY Zenon, <2>1
  <2>3. VersionInv'
    BY <1>0, <1>n, <2>a, <2>2 DEF Versions, VersionInv
  <2>4. FileInv'
    BY Zenon, <1>0, <1>n, <2>a, <2>2 DEF Versions, VersionInv, FileInv
  <2> QED
    BY Zenon, <2>3, <2>4 DEF Versions
<1>3. CASE Records(w)
  <2>1. /\ job'[w] = [job[w] EXCEPT !.at = "save"] /\ Writing(w) /\ job[w].at = "persist"
        /\ fileVersion' = job[w].ver /\ UNCHANGED <<version, acked>>
    BY Zenon, <1>3 DEF Records
  <2>2. job'[w].ver = job[w].ver /\ Committed(w)
    BY Zenon, <2>1, <1>n DEF Job, Committed
  <2>a. Writing(w) /\ fileVersion' = job[w].ver /\ UNCHANGED <<version, acked>>
    BY Zenon, <2>1
  <2>3. VersionInv'
    BY Zenon, <1>0, <1>n, <2>a, <2>2 DEF Versions, VersionInv
  <2>4. FileInv'
    BY <1>0, <1>n, <2>a, <2>2 DEF Versions, VersionInv, FileInv
  <2> QED
    BY Zenon, <2>3, <2>4 DEF Versions
<1>4. CASE Acks(w)
  <2>1. /\ job'[w] = Idle /\ Writing(w) /\ job[w].at = "answer"
        /\ acked' = [ver |-> Larger(acked.ver, job[w].ver), write |-> job[w].data]
        /\ UNCHANGED <<version, fileVersion>>
    BY Zenon, <1>4 DEF Acks
  <2>2. ~Writing(w)' /\ ~Committed(w)' /\ Committed(w)
    BY <2>1 DEF Writing, Committed, Idle
  <2>3. acked'.ver = acked.ver \/ acked'.ver = job[w].ver
    BY Zenon, <2>1 DEF Larger
  <2> QED
    BY Zenon, <1>0, <1>n, <2>1, <2>2, <2>3 DEF Versions, VersionInv, FileInv
<1>5. CASE Deletes(w)
  <2>1. /\ ~Writing(w)' /\ ~Committed(w)' /\ version' = -1 /\ acked'.ver = -1
        /\ UNCHANGED fileVersion
    BY Zenon, <1>5 DEF Deletes, KeepsWrites, Committed
  <2> QED
    BY <1>0, <1>n, <2>1 DEF Versions, VersionInv, FileInv
<1> QED
  BY Zenon, <1>1, <1>2, <1>3, <1>4, <1>5

\* A datanode that registers, or whose listing is merged, raises versions only.
LEMMA RegisterVersions ==
  ASSUME Typed, Versions, NEW n \in Nodes, RegisterDataNodeFiles(n) \/ BuildMerge(n),
         events \subseteq events'
  PROVE  Versions'
<1>0. /\ InTime' => InTime
      /\ UNCHANGED <<job, acked>>
  BY Zenon DEF InTime, RegisterDataNodeFiles, BuildMerge, aux
<1>n. /\ version \in Int /\ fileVersion \in Int /\ acked.ver \in Int
      /\ reg[n].listed \in Int /\ version >= -1 /\ fileVersion >= -1
      /\ \A w \in Writers : job[w].ver \in Int
  BY Zenon, VersionNumbers DEF Typed, RegTyped
<1>j. \A w \in Writers : /\ Writing(w)' <=> Writing(w)
                         /\ Committed(w)' <=> Committed(w)
  BY Zenon, <1>0 DEF Writing, Committed
<1>1. CASE RegisterDataNodeFiles(n)
  <2>1. /\ version' \in Int /\ version' >= version /\ fileVersion' = version'
    BY <1>1, <1>n DEF RegisterDataNodeFiles, Larger
  <2>2. VersionInv'
    BY <1>0, <1>n, <1>j, <2>1 DEF Versions, VersionInv
  <2>3. FileInv'
    BY <1>0, <1>n, <1>j, <2>1 DEF Versions, VersionInv, FileInv
  <2> QED
    BY Zenon, <2>2, <2>3 DEF Versions
<1>2. CASE BuildMerge(n)
  <2>1. version' = version /\ fileVersion' \in Int /\ fileVersion' >= fileVersion
    BY <1>2, <1>n DEF BuildMerge, Larger
  <2>2. VersionInv'
    BY Zenon, <1>0, <1>n, <1>j, <2>1 DEF Versions, VersionInv
  <2>3. FileInv'
    BY <1>0, <1>n, <1>j, <2>1 DEF Versions, FileInv
  <2> QED
    BY Zenon, <2>2, <2>3 DEF Versions
<1> QED
  BY Zenon, <1>1, <1>2

\* A restart loads the version that is on file.
LEMMA RestartVersions ==
  ASSUME Typed, Versions, Restart, NoRestarts \/ ~CrashInRewrite,
         events \subseteq events'
  PROVE  Versions'
<1>0. InTime' => InTime
  BY Zenon DEF InTime
<1>1. ~NoRestarts
  <2>1. PICK full \in Scenarios : scenario.restarts \in 0 .. full.restarts
    BY Zenon DEF Typed, NetTyped
  <2>2. full.restarts \in Nat
    BY Zenon, ReplicationAssumption
  <2>3. scenario.restarts > 0
    BY Zenon DEF Restart
  <2> QED
    BY <2>1, <2>2, <2>3 DEF NoRestarts
<1>2. /\ version' = fileVersion /\ fileVersion' = fileVersion /\ UNCHANGED acked
      /\ \A w \in Writers : job'[w] = Idle
  BY Zenon, <1>1 DEF Restart
<1>3. \A w \in Writers : ~Writing(w)' /\ ~Committed(w)'
  BY <1>2 DEF Writing, Committed, Idle
<1> QED
  BY Zenon, <1>0, <1>1, <1>2, <1>3 DEF Versions, VersionInv, FileInv

\* Every step keeps the versions.
LEMMA NextVersions ==
  ASSUME Typed, Versions, [Next]_vars, OneWriter, ~CreateOver,
         NoRestarts \/ ~CrashInRewrite
  PROVE  Versions'
<1>1. CASE UNCHANGED vars
  BY Zenon, <1>1 DEF vars, maps, aux, Versions, VersionInv, FileInv, Writing, Committed, InTime
<1>2. CASE Next
  <2>0. events \subseteq events' /\ Typed'
    BY Zenon, <1>2, HistoryKept, NextTyped
  <2>1. ASSUME NEW w \in Writers, WriterStep(w) PROVE Versions'
    BY Zenon, <2>0, <2>1, WriterKinds, QuietVersions, SaveVersions, WriteVersions
  <2>2. CASE \/ \E n \in Nodes : DatanodeStep(n)
             \/ \E r \in rollbacks : Rollback(r[1], r[2])
             \/ HeartbeatStep
    BY Zenon, <2>0, <2>2, OtherKinds, QuietVersions, SaveVersions, RegisterVersions
  <2>3. CASE Restart
    BY Zenon, <2>0, <2>3, RestartVersions
  <2> QED
    BY Zenon, <1>2, <2>1, <2>2, <2>3 DEF Next
<1> QED
  BY Zenon, <1>1, <1>2

\* With one request on the path at a time, no create over an existing path and
\* no crash in the middle of setFileVersion's rewrite, the invariant holds.
THEOREM VersionsStand ==
  ASSUME OneWriter, ~CreateOver, NoRestarts \/ ~CrashInRewrite
  PROVE  Spec => []Versions
<1>1. Init => Versions
  <2> SUFFICES ASSUME Init PROVE Versions
    BY Zenon
  <2>1. \A w \in Writers : ~Writing(w) /\ ~Committed(w)
    BY Zenon DEF Init, Writing, Committed, Idle
  <2>2. acked.ver = -1 /\ version = -1 /\ fileVersion = -1
    BY Zenon DEF Init, NothingAcked
  <2> QED
    BY <2>1, <2>2 DEF Versions, VersionInv, FileInv
<1>2. Typed /\ Versions /\ [Next]_vars => Versions'
  BY Zenon, NextVersions
<1> QED
  BY <1>1, <1>2, TypesHold, PTL DEF Spec

\* The version the server acknowledged stands as long as it does not restart, and
\* through restarts as long as no save of its map was overtaken.
THEOREM AckedStands ==
  ASSUME OneWriter, ~CreateOver, NoRestarts \/ ~CrashInRewrite
  PROVE  Spec => [](InTime \/ NoRestarts => AckedVersionStands)
<1>1. Typed /\ Versions => (InTime \/ NoRestarts => AckedVersionStands)
  BY Zenon, VersionNumbers DEF Versions, VersionInv, AckedVersionStands
<1> QED
  BY <1>1, TypesHold, VersionsStand, PTL

\* Without restarts it stands whatever saves overtake one another.
THEOREM AckedStandsWithoutRestart ==
  ASSUME OneWriter, ~CreateOver, NoRestarts
  PROVE  Spec => []AckedVersionStands
<1>1. Typed /\ Versions => AckedVersionStands
  BY Zenon, VersionNumbers DEF Versions, VersionInv, AckedVersionStands
<1> QED
  BY <1>1, TypesHold, VersionsStand, PTL

\* The version on file is no older than an acknowledged one unless a save was
\* overtaken between its read of the map and its rename.
THEOREM PersistedStands ==
  ASSUME OneWriter, ~CreateOver, NoRestarts \/ ~CrashInRewrite
  PROVE  Spec => []PersistedUnlessOvertaken
<1>1. Typed /\ Versions => PersistedUnlessOvertaken
  BY Zenon, VersionNumbers DEF Versions, FileInv, PersistedUnlessOvertaken, InTime
<1> QED
  BY <1>1, TypesHold, VersionsStand, PTL

-----------------------------------------------------------------------------
(* One request at a time: a write under way has the highest version.         *)

\* The version a write has taken is the highest one known until it commits,
\* unless a datanode registered a higher one.
OutdoneInv ==
  \A w \in Writers : Writing(w) /\ ~Committed(w) /\ "outdone" \notin events
                     => version <= job[w].ver

\* A request's step keeps the write under way highest.
LEMMA WriterOutdone ==
  ASSUME Typed, Typed', OutdoneInv, OneWriter, ~CreateOver, NEW w \in Writers,
         WriterStep(w), events \subseteq events'
  PROVE  OutdoneInv'
<1>0. \A v \in Writers : v = w
  BY Zenon DEF OneWriter
<1>n. version \in Int /\ job[w].ver \in Int /\ job'[w].ver \in Int /\ job[w] \in Job
  BY Zenon, VersionNumbers, JobParts DEF Typed, JobTyped, Job
<1>1. CASE Quiet \/ Saves
  BY Zenon, <1>0, <1>1 DEF Quiet, Saves, KeepsWrites, OutdoneInv
<1>2. CASE Begins(w)
  BY <1>0, <1>n, <1>2 DEF Begins, OutdoneInv
<1>3. CASE Lands(w) \/ Records(w)
  <2>1. /\ Writing(w)' /\ job'[w].at \in {"persist", "save"}
    BY Zenon, <1>3, <1>n DEF Lands, Records, Job
  <2>2. Committed(w)'
    BY Zenon, <2>1 DEF Committed
  <2> QED
    BY Zenon, <1>0, <2>2 DEF OutdoneInv
<1>4. CASE Acks(w) \/ Deletes(w)
  <2>1. ~Writing(w)'
    BY <1>4 DEF Acks, Deletes, KeepsWrites, Writing, Idle
  <2> QED
    BY Zenon, <1>0, <2>1 DEF OutdoneInv
<1> QED
  BY Zenon, <1>1, <1>2, <1>3, <1>4, WriterKinds

\* The other steps keep it highest, or are recorded as having outdone it.
LEMMA OtherOutdone ==
  ASSUME Typed, OutdoneInv, events \subseteq events',
         \/ \E n \in Nodes : DatanodeStep(n)
         \/ \E r \in rollbacks : Rollback(r[1], r[2])
         \/ HeartbeatStep
  PROVE  OutdoneInv'
<1>1. CASE Quiet \/ Saves
  BY Zenon, <1>1 DEF Quiet, Saves, KeepsWrites, OutdoneInv
<1>2. ASSUME NEW n \in Nodes, RegisterDataNodeFiles(n) PROVE OutdoneInv'
  <2>1. /\ UNCHANGED job
        /\ version' = version \/ version' = reg[n].listed
        /\ Happens("outdone", \E w \in Writers : Writing(w) /\ reg[n].listed > job[w].ver)
    BY Zenon, <1>2 DEF RegisterDataNodeFiles
  <2>2. ASSUME NEW w \in Writers, Writing(w), "outdone" \notin events'
        PROVE  reg[n].listed <= job[w].ver
    <3>1. ~(reg[n].listed > job[w].ver)
      BY Zenon, <2>1, <2>2 DEF Happens
    <3>2. reg[n].listed \in Int /\ job[w].ver \in Int
      BY Zenon, VersionNumbers DEF Typed, RegTyped
    <3> QED
      BY <3>1, <3>2
  <2>3. \A w \in Writers : (Writing(w)' <=> Writing(w)) /\ (Committed(w)' <=> Committed(w))
    BY Zenon, <2>1 DEF Writing, Committed
  <2> QED
    BY Zenon, <2>1, <2>2, <2>3 DEF OutdoneInv
<1>3. ASSUME NEW n \in Nodes, BuildMerge(n) PROVE OutdoneInv'
  <2>1. UNCHANGED <<job, version>>
    BY Zenon, <1>3 DEF BuildMerge
  <2> QED
    BY Zenon, <2>1 DEF OutdoneInv, Writing, Committed
<1> QED
  BY Zenon, <1>1, <1>2, <1>3, OtherKinds

\* Nobody writes after a restart.
LEMMA RestartEndsWrites ==
  ASSUME Restart
  PROVE  \A w \in Writers : job'[w] = Idle /\ ~Writing(w)' /\ ~Committed(w)'
<1>1. \A w \in Writers : job'[w] = Idle
  BY Zenon DEF Restart
<1> QED
  BY <1>1 DEF Writing, Committed, Idle

\* With one request at a time and no create over an existing path, a write
\* under way has the highest version unless a registration outdid it.
THEOREM Undone ==
  ASSUME OneWriter, ~CreateOver
  PROVE  Spec => []OutdoneInv
<1>1. Init => OutdoneInv
  BY DEF Init, OutdoneInv, Writing, Idle
<1>2. ASSUME Typed, OutdoneInv, [Next]_vars PROVE OutdoneInv'
  <2>1. CASE UNCHANGED vars
    BY Zenon, <1>2, <2>1 DEF vars, maps, aux, OutdoneInv, Writing, Committed
  <2>2. CASE Next
    <3>0. events \subseteq events' /\ Typed'
      BY Zenon, <1>2, <2>2, HistoryKept, NextTyped
    <3>1. CASE Restart
      BY Zenon, <3>1, RestartEndsWrites DEF OutdoneInv
    <3> QED
      BY Zenon, <1>2, <2>2, <3>0, <3>1, WriterOutdone, OtherOutdone DEF Next
  <2> QED
    BY Zenon, <1>2, <2>1, <2>2
<1> QED
  BY <1>1, <1>2, TypesHold, PTL DEF Spec

\* With one request at a time the version the server knows goes down only when
\* the file is deleted, the server restarts, or a datanode outdid a write.
THEOREM VersionMonotone ==
  ASSUME OneWriter, ~CreateOver
  PROVE  Spec => VersionUnlessOutdone
<1> DEFINE Up == /\ version' # -1 /\ scenario'.restarts = scenario.restarts
                 /\ "outdone" \notin events
                 => version' >= version
<1>1. ASSUME Typed, OutdoneInv, Next PROVE Up
  <2>n. version \in Int
    BY Zenon, <1>1, VersionNumbers
  <2>1. ASSUME NEW w \in Writers, WriterStep(w) PROVE Up
    <3>1. CASE Quiet \/ Saves \/ Begins(w) \/ Records(w) \/ Acks(w)
      <4>1. version' = version
        BY Zenon, <3>1 DEF Quiet, Saves, Begins, Records, Acks
      <4> QED
        BY <2>n, <4>1
    <3>2. CASE Lands(w)
      BY Zenon, <1>1, <2>n, <3>2 DEF Lands, OutdoneInv
    <3>3. CASE Deletes(w)
      BY Zenon, <3>3 DEF Deletes
    <3> QED
      BY Zenon, <1>1, <2>1, <3>1, <3>2, <3>3, WriterKinds
  <2>2. CASE \/ \E n \in Nodes : DatanodeStep(n)
             \/ \E r \in rollbacks : Rollback(r[1], r[2])
             \/ HeartbeatStep
    <3>1. CASE Quiet \/ Saves
      <4>1. version' = version
        BY Zenon, <3>1 DEF Quiet, Saves
      <4> QED
        BY <2>n, <4>1
    <3>2. ASSUME NEW n \in Nodes, RegisterDataNodeFiles(n) \/ BuildMerge(n) PROVE Up
      <4>1. reg[n].listed \in Int
        BY Zenon, <1>1 DEF Typed, RegTyped
      <4>2. \/ version' = version
            \/ version' = reg[n].listed /\ reg[n].listed > Larger(version, 0)
        BY Zenon, <3>2 DEF RegisterDataNodeFiles, BuildMerge
      <4>3. version' >= version
        BY <2>n, <4>1, <4>2 DEF Larger
      <4> QED
        BY Zenon, <4>3
    <3> QED
      BY Zenon, <1>1, <2>2, <3>1, <3>2, OtherKinds
  <2>3. CASE Restart
    <3>1. scenario'.restarts = scenario.restarts - 1 /\ scenario.restarts \in Int
      BY <1>1, <2>3, RestartTyped DEF Typed, NetTyped
    <3> QED
      BY <3>1
  <2> QED
    BY Zenon, <1>1, <2>1, <2>2, <2>3 DEF Next
<1>2. Typed /\ OutdoneInv /\ [Next]_vars => [Up]_vars
  BY Zenon, <1>1
<1>3. Spec => [][Up]_vars
  BY <1>2, TypesHold, Undone, PTL DEF Spec
<1> QED
  BY Zenon, <1>3 DEF VersionUnlessOutdone

-----------------------------------------------------------------------------
(* One request at a time: what a commit stands on.                           *)

\* A datanode that answers without storing, or does not answer a read, keeps
\* its copy.
LEMMA CopyKept ==
  ASSUME NetTyped, NEW n \in Nodes, NEW k,
         Answered(n, k, disk[n]) \/ Failed(n, k, {disk[n]}) \/ ReadFails(n, k)
  PROVE  disk' = disk
<1>1. disk = [disk EXCEPT ![n] = disk[n]]
  BY Zenon DEF NetTyped
<1> QED
  BY Zenon, <1>1 DEF Answered, Failed, ReadFails

\* A datanode's own steps change no copy and no request.
LEMMA DatanodeKeeps ==
  ASSUME Typed, NEW n \in Nodes, DatanodeStep(n)
  PROVE  disk' = disk /\ job' = job /\ writes' = writes /\ rejected' = rejected
         /\ rollbacks' = rollbacks /\ acked' = acked
<1>t. NetTyped /\ MapsTyped
  BY Zenon DEF Typed
<1>1. /\ job' = job /\ writes' = writes /\ rejected' = rejected
      /\ rollbacks' = rollbacks /\ acked' = acked
  BY Zenon DEF DatanodeStep, BreakLink, Connect, SyncStatus, RegisterDataNodeFiles, BuildFetch,
         BuildMerge, BuildDone, aux
<1>2. ASSUME SyncStatus(n) PROVE disk' = disk
  BY Zenon, <1>t, <1>2, CopyKept DEF SyncStatus
<1>3. ASSUME BuildFetch(n) PROVE disk' = disk
  <2>1. PICK m \in Members(Alive(endpoint)) :
          Answered(m, endpoint[m], disk[m]) \/ Failed(m, endpoint[m], {disk[m]})
    BY Zenon, <1>3 DEF BuildFetch
  <2>2. m \in Nodes
    BY Zenon DEF Members
  <2> QED
    BY Zenon, <1>t, <2>1, <2>2, CopyKept
<1>4. ASSUME ~SyncStatus(n), ~BuildFetch(n) PROVE disk' = disk
  BY Zenon, <1>4 DEF DatanodeStep, BreakLink, Connect, RegisterDataNodeFiles, BuildMerge, BuildDone
<1> QED
  BY Zenon, <1>1, <1>2, <1>3, <1>4 DEF DatanodeStep

\* The heartbeat thread changes a copy only by copying, and no request.
LEMMA HeartbeatKeeps ==
  ASSUME Typed, HeartbeatStep
  PROVE  /\ RebalanceCopy \/ disk' = disk
         /\ job' = job /\ writes' = writes /\ rejected' = rejected
         /\ rollbacks' = rollbacks /\ acked' = acked /\ reg' = reg
<1>t. NetTyped /\ MapsTyped /\ HbOK(hb)
  BY Zenon DEF Typed
<1>1. /\ job' = job /\ writes' = writes /\ rejected' = rejected
      /\ rollbacks' = rollbacks /\ acked' = acked /\ reg' = reg
  BY Zenon DEF HeartbeatStep, HbStart, HbProbe, HbEvict, EraseFromReplicationMap,
         HbPersistRead, HbPersistWrite, HbSleep, RebalanceRead, RebalancePick,
         RebalanceCopy, RebalanceMerge, HbRest
<1>2. ASSUME HbProbe PROVE disk' = disk
  <2>1. First(hb.todo) \in Nodes
    BY Zenon, <1>t, <1>2, FirstIsMember DEF HbProbe, HbOK, Members
  <2> QED
    BY Zenon, <1>t, <1>2, <2>1, CopyKept DEF HbProbe
<1>3. ASSUME RebalanceRead PROVE disk' = disk
  <2>1. First(hb.map) \in Nodes
    BY Zenon, <1>t, <1>3, FirstIsMember DEF RebalanceRead, HbOK, Members
  <2> QED
    BY Zenon, <1>t, <1>3, <2>1, CopyKept DEF RebalanceRead
<1>4. ASSUME ~HbProbe, ~RebalanceRead, ~RebalanceCopy PROVE disk' = disk
  BY Zenon, <1>4 DEF HeartbeatStep, HbStart, HbEvict, EraseFromReplicationMap,
         HbPersistRead, HbPersistWrite, HbSleep, RebalancePick, RebalanceMerge
<1> QED
  BY Zenon, <1>1, <1>2, <1>3, <1>4

Calm == events \cap {"late rollback", "stale copy"} = {}

\* A datanode that answered a write under way has its bytes and is not called
\* again, unless a rollback or a rebalance ran meanwhile.
QuorumInv ==
  \A w \in Writers : Writing(w) /\ ~Committed(w) =>
    /\ job[w].at = "snapshot" => job[w].oks = None
    /\ Calm => \A n \in Nodes : job[w].oks[n] # 0
                 => job[w].todo[n] = 0 /\ disk[n].data = job[w].data

\* One call of a write's fan-out.
LEMMA FanoutQuorum ==
  ASSUME Typed, QuorumInv, NEW w \in Writers, Fanout(w), Writing(w), ~Committed(w)
  PROVE  /\ job'[w].at = "fanout" /\ job'[w].data = job[w].data
         /\ Calm' => \A n \in Nodes : job'[w].oks[n] # 0
                      => job'[w].todo[n] = 0 /\ disk'[n].data = job'[w].data
<1> DEFINE j == job[w]
           n == First(j.todo)
           k == j.todo[n]
           c == [data |-> j.data, ver |-> j.ver]
           rest == [j EXCEPT !.todo = Drop(@, n)]
<1>t. NetTyped /\ JobTyped
  BY Zenon DEF Typed
<1>j. /\ j \in Job /\ j.oks \in Sessions /\ j.todo \in Sessions
      /\ disk \in [Nodes -> Copy]
  BY Zenon, <1>t, JobParts DEF NetTyped, Job
<1>n. n \in Nodes /\ k # 0 /\ j.at = "fanout" /\ j.op # "DELETE"
  BY Zenon, <1>j, FirstIsMember DEF Fanout, Members, Writing
<1>c. Calm' => Calm
  BY Zenon DEF Calm, Fanout, aux
<1>0. rest = [j EXCEPT !.todo = Drop(j.todo, n)]
  BY Zenon
<1>1. \/ Set(w, rest) /\ UNCHANGED disk
      \/ Set(w, [rest EXCEPT !.oks[n] = k]) /\ disk' = [disk EXCEPT ![n] = c]
      \/ Set(w, rest) /\ (UNCHANGED disk \/ \E d : disk' = [disk EXCEPT ![n] = d])
  BY Zenon, <1>n DEF Fanout, Answered, Failed
<1> HIDE DEF n, k
<1>2. /\ rest.at = "fanout" /\ rest.data = j.data /\ rest.oks = j.oks
      /\ rest.todo = [j.todo EXCEPT ![n] = 0] /\ rest \in Job
  <2>1. Drop(j.todo, n) = [j.todo EXCEPT ![n] = 0] /\ Drop(j.todo, n) \in Sessions
    BY Zenon, <1>j, SessionLists DEF Drop
  <2> HIDE DEF j, rest
  <2> QED
    BY Zenon, <1>0, <1>j, <1>n, <2>1 DEF Job
<1> DEFINE okd == [rest EXCEPT !.oks[n] = k]
<1>3. /\ okd.at = "fanout" /\ okd.data = j.data /\ okd.oks = [j.oks EXCEPT ![n] = k]
      /\ okd.todo = [j.todo EXCEPT ![n] = 0]
  <2> HIDE DEF rest
  <2> QED
    BY Zenon, <1>2 DEF Job
<1>q. Calm => \A m \in Nodes : j.oks[m] # 0 => j.todo[m] = 0 /\ disk[m].data = j.data
  BY Zenon DEF QuorumInv
<1>k. Calm => j.oks[n] = 0
  BY Zenon, <1>n, <1>q DEF k
<1> HIDE DEF j, rest, okd
<1>4. CASE Set(w, rest) /\ (UNCHANGED disk \/ \E d : disk' = [disk EXCEPT ![n] = d])
  <2>1. job'[w] = rest
    BY Zenon, <1>4, <1>t, MovedFields
  <2>2. \A m \in Nodes : m # n => disk'[m] = disk[m]
    BY Zenon, <1>4, <1>j
  <2> QED
    BY Zenon, <1>2, <1>c, <1>q, <1>k, <1>j, <1>n, <2>1, <2>2 DEF Sessions, j
<1>5. CASE Set(w, okd) /\ disk' = [disk EXCEPT ![n] = c]
  <2>1. job'[w] = okd
    BY Zenon, <1>5, <1>t, MovedFields
  <2>2. (\A m \in Nodes : m # n => disk'[m] = disk[m]) /\ disk'[n].data = j.data
    BY Zenon, <1>5, <1>j, <1>n
  <2> QED
    BY ZenonT(40), <1>3, <1>c, <1>q, <1>j, <1>n, <2>1, <2>2 DEF Sessions, j
<1> QED
  BY Zenon, <1>1, <1>4, <1>5 DEF okd


\* A write that is under way and not committed after a step of its own has just
\* begun, has taken its holders, or has called one of them.
LEMMA EarlyWriter ==
  ASSUME Typed, NEW w \in Writers, WriterStep(w), Writing(w)', ~Committed(w)'
  PROVE  \/ StartCreate(w) \/ StartUpdate(w) \/ SnapshotHolders(w)
         \/ Fanout(w) /\ Writing(w) /\ ~Committed(w)
<1>t. JobTyped
  BY Zenon DEF Typed
<1>j. job[w] \in Job
  BY Zenon, <1>t, JobParts
<1>1. ASSUME ~Writing(w), KeepsWrites PROVE FALSE
  BY Zenon, <1>1 DEF KeepsWrites
<1>2. ~StartDelete(w) /\ ~StartRead(w) /\ ~AnswerRead(w)
  <2>1. StartDelete(w) \/ StartRead(w) \/ AnswerRead(w) => ~Writing(w)
    BY DEF StartDelete, StartRead, AnswerRead, Writing, Idle
  <2> QED
    BY Zenon, <1>1, <2>1, ReadOrDeleteKind DEF Quiet
<1>3. ~ReadHolder(w)
  <2>1. ReadHolder(w) => ~Writing(w)
    BY Zenon DEF ReadHolder, Writing
  <2> QED
    BY Zenon, <1>1, <2>1, ReadHolderKind DEF Quiet
<1>4. ~CommitDelete(w)
  <2>1. CommitDelete(w) => ~Writing(w)
    BY Zenon DEF CommitDelete, FanoutDone, Writing
  <2> QED
    BY Zenon, <1>1, <2>1, CommitDeleteKind DEF Quiet, Deletes
<1>5. ASSUME job[w].at \in {"persist", "save", "rename", "answer"}, KeepsWrites
      PROVE FALSE
  <2>1. Writing(w) /\ ~Committed(w)
    BY Zenon, <1>5 DEF KeepsWrites
  <2> QED
    BY Zenon, <1>5, <2>1 DEF Committed
<1>6. ~SetFileVersion(w)
  <2>1. ASSUME Records(w) PROVE FALSE
    <3>1. job'[w].at = "save"
      BY Zenon, <2>1, <1>j DEF Records, Job
    <3> QED
      BY Zenon, <3>1 DEF Committed
  <2>2. SetFileVersion(w) => job[w].at = "persist"
    BY Zenon DEF SetFileVersion
  <2> QED
    BY Zenon, <1>5, <2>1, <2>2, SetFileVersionKind DEF Quiet
<1>7. ~PersistRead(w) /\ ~PersistWrite(w)
  <2>1. PersistRead(w) \/ PersistWrite(w) => job[w].at \in {"save", "rename"}
    BY Zenon DEF PersistRead, PersistWrite
  <2> QED
    BY Zenon, <1>5, <2>1, PersistReadKind, PersistWriteKind DEF Quiet, Saves
<1>8. ~Answer(w)
  <2>1. ~Acks(w)
    BY DEF Acks, Writing, Idle
  <2>2. Answer(w) => job[w].at = "answer"
    BY Zenon DEF Answer
  <2> QED
    BY Zenon, <1>5, <2>1, <2>2, AnswerKind DEF Quiet
<1>9. ~CommitCreate(w) /\ ~CommitUpdate(w)
  <2>1. ASSUME CommitCreate(w) \/ CommitUpdate(w) PROVE FALSE
    <3>1. Set(w, Idle) \/ Set(w, [job[w] EXCEPT !.at = "persist"])
      BY Zenon, <2>1 DEF CommitCreate, CommitUpdate
    <3>2. job'[w] = Idle \/ job'[w] = [job[w] EXCEPT !.at = "persist"]
      BY Zenon, <1>t, <3>1, MovedFields
    <3>3. job'[w] # Idle
      BY DEF Writing, Idle
    <3>4. job'[w].at = "persist"
      BY Zenon, <1>j, <3>2, <3>3 DEF Job
    <3> QED
      BY Zenon, <3>4 DEF Committed
  <2> QED
    BY Zenon, <2>1
<1>10. Fanout(w) => Writing(w) /\ ~Committed(w)
  BY Zenon, FanoutKind DEF Quiet, KeepsWrites
<1> QED
  BY Zenon, <1>2, <1>3, <1>4, <1>6, <1>7, <1>8, <1>9, <1>10 DEF WriterStep

\* A request's step keeps what its commit will stand on.
LEMMA WriterQuorum ==
  ASSUME Typed, QuorumInv, OneWriter, NEW w \in Writers, WriterStep(w)
  PROVE  QuorumInv'
<1>0. \A v \in Writers : v = w
  BY Zenon DEF OneWriter
<1> SUFFICES ASSUME Writing(w)', ~Committed(w)'
    PROVE  /\ job'[w].at = "snapshot" => job'[w].oks = None
           /\ Calm' => \A n \in Nodes : job'[w].oks[n] # 0
                 => job'[w].todo[n] = 0 /\ disk'[n].data = job'[w].data
  BY Zenon, <1>0 DEF QuorumInv
<1>1. CASE job'[w].oks = None
  BY Zenon, <1>1 DEF None
<1>2. CASE StartCreate(w) \/ StartUpdate(w)
  BY Zenon, <1>1, <1>2, StartCreateKind, StartUpdateKind DEF Begins
<1>3. CASE SnapshotHolders(w)
  <2>1. Writing(w) /\ ~Committed(w) /\ job[w].at = "snapshot" /\ job[w] \in Job
    BY Zenon, <1>3, JobParts DEF SnapshotHolders, Writing, Committed, Typed
  <2>2. job[w].oks = None
    BY Zenon, <2>1 DEF QuorumInv
  <2>3. job'[w] = [job[w] EXCEPT !.at = "fanout", !.todo = holder, !.size = Size(holder)]
    BY Zenon, <1>3, MovedFields DEF SnapshotHolders, Typed
  <2>4. job'[w].oks = job[w].oks
    BY Zenon, <2>1, <2>3 DEF Job
  <2> QED
    BY Zenon, <1>1, <2>2, <2>4
<1>4. CASE Fanout(w) /\ Writing(w) /\ ~Committed(w)
  BY Zenon, <1>4, FanoutQuorum
<1> QED
  BY Zenon, <1>2, <1>3, <1>4, EarlyWriter

\* The other steps keep it, or are recorded as rollback or rebalance.
LEMMA OtherQuorum ==
  ASSUME Typed, QuorumInv, events \subseteq events',
         \/ \E n \in Nodes : DatanodeStep(n)
         \/ \E r \in rollbacks : Rollback(r[1], r[2])
         \/ HeartbeatStep
  PROVE  QuorumInv'
<1>1. Calm' => Calm
  BY Zenon DEF Calm
<1>2. ASSUME job' = job, \/ disk' = disk
                         \/ \A w \in Writers : Writing(w) => ~Calm'
      PROVE  QuorumInv'
  <2>1. \A w \in Writers : (Writing(w)' <=> Writing(w)) /\ (Committed(w)' <=> Committed(w))
    BY Zenon, <1>2 DEF Writing, Committed
  <2> QED
    BY <1>1, <1>2, <2>1 DEF QuorumInv
<1>3. ASSUME NEW n \in Nodes, DatanodeStep(n) PROVE QuorumInv'
  BY Zenon, <1>2, <1>3, DatanodeKeeps
<1>4. ASSUME NEW r \in rollbacks, Rollback(r[1], r[2]) PROVE QuorumInv'
  <2>1. job' = job /\ Happens("late rollback", \E w \in Writers : job[w] # Idle)
    BY Zenon, <1>4 DEF Rollback
  <2>2. \A w \in Writers : Writing(w) => job[w] # Idle
    BY DEF Writing, Idle
  <2>3. \A w \in Writers : Writing(w) => ~Calm'
    BY Zenon, <2>1, <2>2 DEF Happens, Calm
  <2> QED
    BY Zenon, <1>2, <2>1, <2>3
<1>5. CASE HeartbeatStep
  <2>1. job' = job /\ (RebalanceCopy \/ disk' = disk)
    BY Zenon, <1>5, HeartbeatKeeps
  <2>2. CASE RebalanceCopy
    <3>1. Happens("stale copy", hb.bytes < acked.write \/ \E w \in Writers : Writing(w))
      BY Zenon, <2>2 DEF RebalanceCopy
    <3>2. \A w \in Writers : Writing(w) => ~Calm'
      BY Zenon, <3>1 DEF Happens, Calm
    <3> QED
      BY Zenon, <1>2, <2>1, <3>2
  <2> QED
    BY Zenon, <1>2, <2>1, <2>2
<1> QED
  BY Zenon, <1>3, <1>4, <1>5

\* With one request at a time, the datanodes counted for a write have its bytes.
THEOREM AnsweredHaveBytes ==
  ASSUME OneWriter
  PROVE  Spec => []QuorumInv
<1>1. Init => QuorumInv
  BY DEF Init, QuorumInv, Writing, Idle
<1>2. ASSUME Typed, QuorumInv, [Next]_vars PROVE QuorumInv'
  <2>1. CASE UNCHANGED vars
    BY Zenon, <1>2, <2>1 DEF vars, aux, QuorumInv, Writing, Committed, Calm
  <2>2. CASE Next
    <3>0. events \subseteq events'
      BY Zenon, <2>2, HistoryKept
    <3>1. CASE Restart
      BY Zenon, <3>1, RestartEndsWrites DEF QuorumInv
    <3> QED
      BY Zenon, <1>2, <2>2, <3>0, <3>1, WriterQuorum, OtherQuorum DEF Next
  <2> QED
    BY Zenon, <1>2, <2>1, <2>2
<1> QED
  BY <1>1, <1>2, TypesHold, PTL DEF Spec

\* The step in which a write commits is that of its quorum.
LEMMA CommitStep ==
  ASSUME Typed, OneWriter, Next, NEW w \in Writers, Commits(w), job[w].op # "DELETE"
  PROVE  \/ /\ CommitCreate(w) /\ job[w].op = "CREATE" /\ ~(Size(job[w].oks) < quorum)
         \/ /\ CommitUpdate(w) /\ job[w].op = "UPDATE"
            /\ ~(Size(job[w].oks) < Smaller(quorum, job[w].size))
<1>t. JobTyped
  BY Zenon DEF Typed
<1>j. job[w] \in Job
  BY Zenon, <1>t, JobParts
<1>a. job[w].at = "fanout" /\ job'[w].at = "persist" /\ job[w] # Idle
  BY DEF Commits, Idle
<1>b. Idle.at # "persist"
  BY Zenon DEF Idle
<1>1. WriterStep(w)
  <2>1. job' # job
    BY Zenon, <1>a
  <2>2. ~Restart
    BY Zenon, <1>a, <1>b, RestartEndsWrites
  <2>3. \A n \in Nodes : ~DatanodeStep(n)
    BY Zenon, <2>1, DatanodeKeeps
  <2>4. ~HeartbeatStep
    BY Zenon, <2>1, HeartbeatKeeps
  <2>5. \A r \in rollbacks : ~Rollback(r[1], r[2])
    BY Zenon, <2>1 DEF Rollback
  <2> QED
    BY Zenon, <2>2, <2>3, <2>4, <2>5 DEF Next, OneWriter
<1>2. ~Fanout(w)
  <2> SUFFICES ASSUME Fanout(w) PROVE FALSE
    BY Zenon
  <2> DEFINE rest == [job[w] EXCEPT !.todo = Drop(@, First(job[w].todo))]
             n == First(job[w].todo)
             k == job[w].todo[n]
             called == [rest EXCEPT !.size = @ + 1]
  <2>1. \/ Set(w, rest) \/ Set(w, [rest EXCEPT !.oks[n] = k])
    BY Zenon DEF Fanout
  <2>2. rest.at = job[w].at /\ [rest EXCEPT !.oks[n] = k].at = rest.at
    BY Zenon, <1>j DEF Job
  <2> HIDE DEF rest, n, k
  <2>3. job'[w] = rest \/ job'[w] = [rest EXCEPT !.oks[n] = k]
    BY Zenon, <1>t, <2>1, MovedFields
  <2> QED
    BY Zenon, <1>a, <2>2, <2>3
<1>3. ~ReadHolder(w)
  <2> SUFFICES ASSUME ReadHolder(w) PROVE FALSE
    BY Zenon
  <2> DEFINE n == First(job[w].todo)
             rest == [job[w] EXCEPT !.todo = Drop(@, First(job[w].todo))]
             got == [rest EXCEPT !.at = "answer", !.data = disk[n].data]
             hung == [job[w] EXCEPT !.at = "hung"]
  <2>1. Set(w, rest) \/ Set(w, got) \/ Set(w, hung) \/ Set(w, Idle)
    BY Zenon DEF ReadHolder
  <2>2. rest.at = job[w].at /\ got.at = "answer" /\ hung.at = "hung"
    BY Zenon, <1>j DEF Job
  <2> HIDE DEF rest, n, got, hung
  <2>3. job'[w] \in {rest, got, hung, Idle}
    BY Zenon, <1>t, <2>1, MovedFields
  <2> QED
    BY Zenon, <1>a, <1>b, <2>2, <2>3
<1>4. CASE CommitCreate(w)
  <2>1. job'[w] # Idle
    BY Zenon, <1>a, <1>b
  <2>2. Size(job[w].oks) < quorum => Set(w, Idle)
    BY Zenon, <1>4 DEF CommitCreate
  <2> QED
    BY Zenon, <1>4, <1>t, <2>1, <2>2, MovedFields DEF CommitCreate, FanoutDone
<1>5. CASE CommitUpdate(w)
  <2>1. job'[w] # Idle
    BY Zenon, <1>a, <1>b
  <2>2. Size(job[w].oks) < Smaller(quorum, job[w].size) => Set(w, Idle)
    BY Zenon, <1>5 DEF CommitUpdate
  <2> QED
    BY Zenon, <1>5, <1>t, <2>1, <2>2, MovedFields DEF CommitUpdate, FanoutDone
<1>6. /\ ~StartCreate(w) /\ ~StartUpdate(w) /\ ~StartDelete(w) /\ ~StartRead(w)
      /\ ~SnapshotHolders(w) /\ ~CommitDelete(w) /\ ~SetFileVersion(w)
      /\ ~PersistRead(w) /\ ~PersistWrite(w) /\ ~Answer(w) /\ ~AnswerRead(w)
  BY Zenon, <1>a DEF StartCreate, StartUpdate, StartDelete, StartRead, SnapshotHolders,
              CommitDelete, FanoutDone, SetFileVersion, PersistRead, PersistWrite,
              Answer, AnswerRead
<1> QED
  BY Zenon, <1>1, <1>2, <1>3, <1>4, <1>5, <1>6 DEF WriterStep

\* With one request at a time, a create, and an update of a file with a quorum of
\* holders, is on a quorum of datanodes when it commits, unless a rollback or a
\* rebalance ran meanwhile.
THEOREM CommitsOnQuorum ==
  ASSUME OneWriter
  PROVE  Spec => CommittedOnQuorum
<1> DEFINE Good == \A w \in Writers :
                     /\ Commits(w) /\ job[w].op # "DELETE"
                     /\ job[w].op = "UPDATE" => job[w].size >= quorum
                     /\ events \cap {"late rollback", "stale copy"} = {}
                     => Cardinality({n \in Nodes : disk[n].data = job[w].data}) >= quorum
<1>1. ASSUME Typed, QuorumInv, Next PROVE Good
  <2> SUFFICES ASSUME NEW w \in Writers, Commits(w), job[w].op # "DELETE",
                      job[w].op = "UPDATE" => job[w].size >= quorum, Calm
      PROVE Cardinality({n \in Nodes : disk[n].data = job[w].data}) >= quorum
    BY Zenon DEF Calm
  <2> DEFINE holders == {n \in Nodes : disk[n].data = job[w].data}
  <2>1. /\ quorum \in Nat /\ job[w].size \in Nat /\ Size(job[w].oks) \in Nat
    BY <1>1, JobParts, MembersAreNodes, ReplicationAssumption DEF quorum, Typed
  <2>2. job[w].op \in {"CREATE", "UPDATE"} /\ Size(job[w].oks) >= quorum
    <3>1. CASE job[w].op = "CREATE" /\ ~(Size(job[w].oks) < quorum)
      BY <2>1, <3>1
    <3>2. CASE job[w].op = "UPDATE" /\ ~(Size(job[w].oks) < Smaller(quorum, job[w].size))
      BY <2>1, <3>2 DEF Smaller
    <3> QED
      BY Zenon, <1>1, <3>1, <3>2, CommitStep
  <2>3. Writing(w) /\ ~Committed(w)
    BY Zenon, <2>2 DEF Writing, Committed, Commits
  <2>4. Members(job[w].oks) \subseteq holders
    BY Zenon, <1>1, <2>3 DEF QuorumInv, Members
  <2>5. IsFiniteSet(holders)
    <3>1. N \in Int
      BY ReplicationAssumption
    <3>2. IsFiniteSet(Nodes) /\ holders \subseteq Nodes
      BY <3>1, FS_Interval DEF Nodes
    <3> QED
      BY Zenon, <3>2, FS_Subset
  <2>6. Cardinality(Members(job[w].oks)) <= Cardinality(holders) /\ Cardinality(holders) \in Nat
    BY Zenon, <2>4, <2>5, FS_Subset, FS_CardinalityType
  <2> HIDE DEF holders
  <2>7. Cardinality(holders) >= quorum
    BY <2>1, <2>2, <2>6 DEF Size
  <2> QED
    BY Zenon, <2>7 DEF holders
<1>2. Typed /\ QuorumInv /\ [Next]_vars => [Good]_vars
  BY Zenon, <1>1
<1> QED
  BY <1>2, TypesHold, AnsweredHaveBytes, PTL DEF Spec, CommittedOnQuorum

-----------------------------------------------------------------------------
(* One request at a time: the copies that would be served.                   *)

Undisturbed == rejected = {} /\ events = {}

DiskBelow(b) == \A n \in Nodes : disk[n].ver <= b /\ (b < 0 => disk[n].data = NoBytes)

RegBelow(b) == \A n \in Nodes : reg[n].listed <= b

HbBelow(b) == b < 0 => hb.at \notin {"pick", "copy"}

\* No version on record anywhere, and none on its way to the server, is above b.
Below(b) ==
  version <= b /\ fileVersion <= b /\ DiskBelow(b) /\ RegBelow(b) /\ HbBelow(b)

\* The highest version there is: the one a write has taken, else the server's.
Bound(b) ==
  \/ \E w \in Writers : Writing(w) /\ b = job[w].ver
  \/ (\A w \in Writers : ~Writing(w)) /\ b = version

Recorded ==
  (\A w \in Writers : ~(Writing(w) /\ job[w].at = "persist")) => version <= fileVersion

Newest ==
  \A w \in Writers : Writing(w) =>
    /\ job[w].data = writes
    /\ \A n \in Nodes : disk[n].data # NoBytes /\ disk[n].ver >= job[w].ver
                        => disk[n].data >= job[w].data

Accepted ==
  /\ \A n \in Nodes : disk[n].data # NoBytes /\ version >= 0 /\ disk[n].ver >= version
                      => disk[n].data >= acked.write
  /\ version < 0 => acked.write = 0

Serves == /\ rollbacks = {} /\ acked.write <= writes
          /\ \A b \in Int : Bound(b) => Below(b)
          /\ Recorded /\ Newest /\ Accepted

\* As long as no event disturbed it, a copy with the version the server knows has
\* the bytes of the last acknowledged write, and no copy has a version above the
\* highest one.
Fresh == Undisturbed => Serves

\* What is at hand in a state.
LEMMA FreshNumbers ==
  ASSUME Typed
  PROVE  /\ version \in Int /\ fileVersion \in Int /\ version >= -1
         /\ acked.write \in Int /\ writes \in Int /\ MaxWrites \in Int
         /\ writes <= MaxWrites /\ acked.write <= MaxWrites
         /\ \A n \in Nodes : /\ disk[n] \in Copy /\ disk[n].ver \in Int
                             /\ disk[n].data \in Int /\ reg[n].listed \in Int
         /\ \A w \in Writers : /\ job[w].ver \in Int /\ job[w].data \in Int
                               /\ Writing(w) => job[w].ver >= 0
         /\ \A b : Bound(b) => b \in Int /\ b >= -1
<1>1. /\ version \in Int /\ fileVersion \in Int /\ version >= -1
      /\ acked.write \in Int /\ writes \in Int /\ MaxWrites \in Int
      /\ writes <= MaxWrites /\ acked.write <= MaxWrites
  BY ReplicationAssumption DEF Typed, MapsTyped, AuxTyped, JobTyped
<1>2. ASSUME NEW n \in Nodes
      PROVE  /\ disk[n] \in Copy /\ disk[n].ver \in Int
             /\ disk[n].data \in Int /\ reg[n].listed \in Int
  <2>1. disk[n] \in Copy /\ reg[n].listed \in Int
    BY Zenon DEF Typed, NetTyped, RegTyped
  <2> QED
    BY <2>1, ReplicationAssumption DEF Copy, Bytes
<1>3. ASSUME NEW w \in Writers
      PROVE  /\ job[w].ver \in Int /\ job[w].data \in Int
             /\ Writing(w) => job[w].ver >= 0
  <2>1. JobOK(job[w], writes) /\ job[w].ver \in Int /\ job[w].data \in Bytes
    BY Zenon, JobParts DEF Typed
  <2> QED
    BY <2>1, ReplicationAssumption DEF Bytes, JobOK, Writing
<1>4. \A b : Bound(b) => b \in Int /\ b >= -1
  BY <1>1, <1>3 DEF Bound
<1> QED
  BY Zenon, <1>1, <1>2, <1>3, <1>4

\* While writes are kept and the version stays, so does the highest version.
LEMMA SameBound ==
  ASSUME KeepsWrites, rejected' = {}, version' = version
  PROVE  /\ \A b : Bound(b)' <=> Bound(b)
         /\ \A w \in Writers : (Writing(w)' <=> Writing(w))
         /\ \A w \in Writers : Writing(w)' => /\ job'[w].ver = job[w].ver
                                              /\ job'[w].data = job[w].data
                                              /\ job'[w].at = "persist" <=> job[w].at = "persist"
<1>1. /\ \A w \in Writers : (Writing(w)' <=> Writing(w))
      /\ \A w \in Writers : Writing(w)' => /\ job'[w].ver = job[w].ver
                                           /\ job'[w].data = job[w].data
                                           /\ job'[w].at = "persist" <=> job[w].at = "persist"
  BY Zenon DEF KeepsWrites
<1> QED
  BY Zenon, <1>1 DEF Bound

\* A quiet step keeps the copies fresh if the copies it changes are gone or new
\* enough, and if it records no higher version.
LEMMA QuietServes ==
  ASSUME Typed, Typed', Serves, Quiet, rejected' = {}, rollbacks' = {},
         \A b \in Int : Bound(b) /\ Below(b) => DiskBelow(b)' /\ RegBelow(b)' /\ HbBelow(b)',
         \A n \in Nodes : \/ disk'[n] = disk[n]
                          \/ disk'[n].data = NoBytes
                          \/ /\ disk'[n].data >= acked.write
                             /\ \A w \in Writers : Writing(w) => disk'[n].data >= job[w].data
  PROVE  Serves'
<1>0. /\ version' = version /\ fileVersion' = fileVersion /\ acked' = acked
      /\ writes' = writes /\ KeepsWrites
  BY Zenon DEF Quiet
<1>1. /\ \A b : Bound(b)' <=> Bound(b)
      /\ \A w \in Writers : (Writing(w)' <=> Writing(w))
      /\ \A w \in Writers : Writing(w)' => /\ job'[w].ver = job[w].ver
                                           /\ job'[w].data = job[w].data
                                           /\ job'[w].at = "persist" <=> job[w].at = "persist"
  BY Zenon, <1>0, SameBound
<1>2. \A b \in Int : Bound(b)' => Below(b)'
  BY Zenon, <1>0, <1>1 DEF Serves, Below
<1>3. Recorded'
  BY Zenon, <1>0, <1>1 DEF Serves, Recorded
<1>4. Newest'
  BY Zenon, <1>0, <1>1 DEF Serves, Newest
<1>5. Accepted'
  BY Zenon, <1>0 DEF Serves, Accepted
<1> QED
  BY Zenon, <1>0, <1>2, <1>3, <1>4, <1>5 DEF Serves

\* A save of the version in memory keeps the copies fresh.
LEMMA SaveServes ==
  ASSUME Typed, Serves, Saves, Undisturbed', rollbacks' = {}, reg' = reg,
         hb' = hb \/ hb'.at \notin {"pick", "copy"}
  PROVE  Serves'
<1>0. /\ version' = version /\ fileVersion' = version /\ acked' = acked
      /\ writes' = writes /\ KeepsWrites /\ disk' = disk /\ rejected' = {}
  BY Zenon DEF Saves, Undisturbed
<1>1. /\ \A b : Bound(b)' <=> Bound(b)
      /\ \A w \in Writers : (Writing(w)' <=> Writing(w))
      /\ \A w \in Writers : Writing(w)' => /\ job'[w].ver = job[w].ver
                                           /\ job'[w].data = job[w].data
                                           /\ job'[w].at = "persist" <=> job[w].at = "persist"
  BY Zenon, <1>0, SameBound
<1>2. \A b \in Int : Bound(b)' => Below(b)'
  BY Zenon, <1>0, <1>1 DEF Serves, Below, DiskBelow, RegBelow, HbBelow
<1>3. Recorded'
  BY <1>0, FreshNumbers DEF Recorded
<1>4. Newest'
  BY Zenon, <1>0, <1>1 DEF Serves, Newest
<1>5. Accepted'
  BY Zenon, <1>0 DEF Serves, Accepted
<1> QED
  BY Zenon, <1>0, <1>2, <1>3, <1>4, <1>5 DEF Serves


\* A write begins above every version there is.
LEMMA BeginServes ==
  ASSUME Typed, Typed', Serves, NEW w \in Writers, Begins(w), OneWriter, ~CreateOver,
         rollbacks' = {}, reg' = reg, hb' = hb
  PROVE  Serves'
<1>0. /\ \A v \in Writers : v = w
      /\ ~Writing(w) /\ Writing(w)' /\ ~Committed(w)'
      /\ job'[w].ver > version /\ writes' = writes + 1 /\ job'[w].data = writes'
      /\ disk' = disk /\ version' = version /\ fileVersion' = fileVersion
      /\ acked' = acked /\ job'[w].ver \in Int
  BY Zenon, FreshNumbers DEF Begins, OneWriter, Typed, JobTyped, Job
<1>1. Below(version)
  BY Zenon, <1>0, FreshNumbers DEF Bound, Serves
<1>p. PICK b \in Int : b = job'[w].ver
  BY Zenon, <1>0
<1>2. \A c \in Int : Bound(c)' => c = b
  BY Zenon, <1>0, <1>p DEF Bound
<1>3. Below(b)'
  <2>1. b > version /\ b >= 0
    BY <1>0, <1>p, FreshNumbers
  <2>2. DiskBelow(b)'
    BY <1>0, <1>1, <2>1, FreshNumbers DEF Below, DiskBelow
  <2>3. RegBelow(b)'
    BY <1>1, <2>1, FreshNumbers DEF Below, RegBelow
  <2>4. version' <= b /\ fileVersion' <= b /\ HbBelow(b)'
    BY <1>0, <1>1, <2>1, FreshNumbers DEF Below, HbBelow
  <2> QED
    BY Zenon, <2>2, <2>3, <2>4 DEF Below
<1>4. Recorded'
  BY Zenon, <1>0 DEF Serves, Recorded
<1>5. Newest'
  <2>1. ASSUME NEW n \in Nodes PROVE ~(disk[n].ver >= job'[w].ver)
    BY <1>0, <1>1, FreshNumbers DEF Below, DiskBelow
  <2> QED
    BY Zenon, <1>0, <2>1 DEF Newest
<1>6. Accepted'
  BY Zenon, <1>0 DEF Serves, Accepted
<1>7. acked'.write <= writes'
  BY <1>0, FreshNumbers DEF Serves
<1> QED
  BY Zenon, <1>2, <1>3, <1>4, <1>5, <1>6, <1>7 DEF Serves

\* A write lands: the copies with its version have its bytes.
LEMMA LandServes ==
  ASSUME Typed, Serves, NEW w \in Writers, Lands(w), OneWriter,
         rollbacks' = {}, reg' = reg, hb' = hb
  PROVE  Serves'
<1>j. job[w] \in Job
  BY Zenon, JobParts DEF Typed
<1>0. /\ \A v \in Writers : v = w
      /\ Writing(w) /\ Writing(w)' /\ job'[w].ver = job[w].ver
      /\ job'[w].data = job[w].data /\ job'[w].at = "persist"
      /\ version' = job[w].ver
      /\ disk' = disk /\ fileVersion' = fileVersion /\ acked' = acked /\ writes' = writes
  BY Zenon, <1>j DEF Lands, OneWriter, Job
<1>1. Below(job[w].ver)
  BY Zenon, <1>0, FreshNumbers DEF Bound, Serves
<1>2. \A b \in Int : Bound(b)' => b = job[w].ver
  BY Zenon, <1>0 DEF Bound
<1>3. Below(job[w].ver)'
  BY <1>0, <1>1, FreshNumbers DEF Below, DiskBelow, RegBelow, HbBelow
<1>4. Recorded'
  BY Zenon, <1>0 DEF Recorded
<1>5. Newest'
  BY Zenon, <1>0 DEF Serves, Newest
<1>6. Accepted'
  <2>1. job[w].data = writes /\ acked.write <= writes /\ job[w].ver >= 0
    BY Zenon, <1>0, FreshNumbers DEF Serves, Newest
  <2>2. ASSUME NEW n \in Nodes, disk[n].data # NoBytes, disk[n].ver >= job[w].ver
        PROVE  disk[n].data >= acked.write
    BY <1>0, <2>1, <2>2, FreshNumbers DEF Serves, Newest
  <2> QED
    BY <1>0, <2>1, <2>2, FreshNumbers DEF Accepted
<1> QED
  BY Zenon, <1>0, <1>2, <1>3, <1>4, <1>5, <1>6 DEF Serves

\* The write's version goes on file.
LEMMA RecordServes ==
  ASSUME Typed, Serves, NEW w \in Writers, Records(w), OneWriter,
         rollbacks' = {}, reg' = reg, hb' = hb
  PROVE  Serves'
<1>j. job[w] \in Job
  BY Zenon, JobParts DEF Typed
<1>0. /\ \A v \in Writers : v = w
      /\ Writing(w) /\ Writing(w)' /\ job'[w].ver = job[w].ver
      /\ job'[w].data = job[w].data /\ fileVersion' = job[w].ver
      /\ disk' = disk /\ version' = version /\ acked' = acked /\ writes' = writes
  BY Zenon, <1>j DEF Records, OneWriter, Job
<1>1. Below(job[w].ver)
  BY Zenon, <1>0, FreshNumbers DEF Bound, Serves
<1>2. \A b \in Int : Bound(b)' => b = job[w].ver
  BY Zenon, <1>0 DEF Bound
<1>3. Below(job[w].ver)'
  BY <1>0, <1>1, FreshNumbers DEF Below, DiskBelow, RegBelow, HbBelow
<1>4. Recorded'
  BY Zenon, <1>0, <1>1 DEF Recorded, Below
<1>5. Newest'
  BY Zenon, <1>0 DEF Serves, Newest
<1>6. Accepted'
  BY Zenon, <1>0 DEF Serves, Accepted
<1> QED
  BY Zenon, <1>0, <1>2, <1>3, <1>4, <1>5, <1>6 DEF Serves

\* The write is acknowledged: its version is the server's, its bytes the last.
LEMMA AckServes ==
  ASSUME Typed, Serves, Versions, Undisturbed, NEW w \in Writers, Acks(w), OneWriter,
         rollbacks' = {}, reg' = reg, hb' = hb
  PROVE  Serves'
<1>0. /\ \A v \in Writers : v = w
      /\ Writing(w) /\ job[w].at = "answer" /\ job'[w] = Idle
      /\ acked'.write = job[w].data
      /\ disk' = disk /\ version' = version /\ fileVersion' = fileVersion
      /\ writes' = writes
  BY Zenon DEF Acks, OneWriter
<1>n. ~Writing(w)'
  BY <1>0 DEF Writing, Idle
<1>1. Below(job[w].ver)
  BY Zenon, <1>0, FreshNumbers DEF Bound, Serves
<1>2. job[w].ver = version
  <2>1. version <= job[w].ver
    BY Zenon, <1>1 DEF Below
  <2>2. job[w].ver <= version
    BY Zenon, <1>0 DEF Versions, VersionInv, InTime, Undisturbed, Committed
  <2> QED
    BY <2>1, <2>2, FreshNumbers
<1>3. \A b \in Int : Bound(b)' => b = version
  BY Zenon, <1>0, <1>n DEF Bound
<1>4. Below(version)'
  BY Zenon, <1>0, <1>1, <1>2 DEF Below, DiskBelow, RegBelow, HbBelow
<1>5. Recorded'
  BY Zenon, <1>0 DEF Serves, Recorded
<1>6. Newest'
  BY Zenon, <1>0, <1>n DEF Newest
<1>7. Accepted' /\ acked'.write <= writes'
  BY SMTT(30), <1>0, <1>2, FreshNumbers DEF Serves, Newest, Accepted
<1> QED
  BY Zenon, <1>0, <1>3, <1>4, <1>5, <1>6, <1>7 DEF Serves

\* A registering datanode raises no version above that of the write under way.
LEMMA RegisterServes ==
  ASSUME Typed, Typed', Serves, Undisturbed, NEW n \in Nodes, RegisterDataNodeFiles(n),
         OneWriter
  PROVE  Serves'
<1>0. /\ job' = job /\ writes' = writes /\ rollbacks' = rollbacks /\ acked' = acked
      /\ disk' = disk /\ hb' = hb /\ fileVersion' = version'
      /\ reg' = [reg EXCEPT ![n] = [at |-> "build", listed |-> NotListed]]
      /\ version' = IF reg[n].listed > Larger(version, 0) THEN reg[n].listed ELSE version
  BY Zenon DEF RegisterDataNodeFiles
<1>w. \A w \in Writers : Writing(w)' <=> Writing(w)
  BY Zenon, <1>0 DEF Writing
<1>v. version' \in Int /\ version' >= version
  BY <1>0, FreshNumbers DEF Larger
<1>b. ASSUME NEW b \in Int, Bound(b) PROVE version' <= b
  <2>1. reg[n].listed <= b /\ version <= b
    BY Zenon, <1>b DEF Serves, Below, RegBelow
  <2> QED
    BY Zenon, <1>0, <2>1
<1>s. \A b \in Int : Bound(b)' => Bound(b)
  <2>1. CASE \E w \in Writers : Writing(w)
    BY Zenon, <1>0, <1>w, <2>1 DEF Bound
  <2>2. CASE \A w \in Writers : ~Writing(w)
    <3>1. version' = version
      BY <1>b, <1>v, <2>2, FreshNumbers DEF Bound
    <3> QED
      BY Zenon, <1>w, <2>2, <3>1 DEF Bound
  <2> QED
    BY Zenon, <2>1, <2>2
<1>1. \A b \in Int : Bound(b)' => Below(b)'
  <2> SUFFICES ASSUME NEW b \in Int, Bound(b) PROVE Below(b)'
    BY Zenon, <1>s
  <2>1. Below(b) /\ b >= -1
    BY Zenon, FreshNumbers DEF Serves
  <2>2. DiskBelow(b)' /\ HbBelow(b)'
    BY Zenon, <1>0, <2>1 DEF Below, DiskBelow, HbBelow
  <2>3. RegBelow(b)'
    <3>1. \A m \in Nodes : reg'[m].listed = reg[m].listed \/ reg'[m].listed = NotListed
      BY Zenon, <1>0 DEF Typed, RegTyped
    <3>2. NotListed <= b
      BY <2>1 DEF NotListed
    <3> QED
      BY Zenon, <2>1, <3>1, <3>2 DEF Below, RegBelow
  <2>4. version' <= b /\ fileVersion' <= b
    BY Zenon, <1>0, <1>b
  <2> QED
    BY Zenon, <2>2, <2>3, <2>4 DEF Below
<1>2. Recorded'
  BY <1>0, <1>v DEF Recorded
<1>3. Newest'
  BY Zenon, <1>0, <1>w DEF Serves, Newest
<1>4. Accepted'
  <2>1. version' < 0 => acked.write = 0
    BY <1>v, FreshNumbers DEF Serves, Accepted
  <2>2. ASSUME NEW m \in Nodes, disk[m].data # NoBytes, version' >= 0,
               disk[m].ver >= version'
        PROVE  disk[m].data >= acked.write
    <3>1. CASE version >= 0
      BY SMTT(30), <1>v, <2>2, <3>1, FreshNumbers DEF Serves, Accepted
    <3>2. CASE version < 0
      <4>1. acked.write = 0
        BY Zenon, <3>2 DEF Serves, Accepted
      <4>2. disk[m].data \in 0 .. MaxWrites + 1
        BY Zenon, FreshNumbers DEF Copy, Bytes
      <4> QED
        BY <4>1, <4>2
    <3> QED
      BY <3>1, <3>2, FreshNumbers
  <2> QED
    BY Zenon, <1>0, <2>1, <2>2 DEF Accepted
<1> QED
  BY Zenon, <1>0, <1>1, <1>2, <1>3, <1>4 DEF Serves

\* Merging a listing raises the version on file no higher either.
LEMMA MergeServes ==
  ASSUME Typed, Serves, NEW n \in Nodes, BuildMerge(n)
  PROVE  Serves'
<1>0. /\ job' = job /\ writes' = writes /\ rollbacks' = rollbacks /\ acked' = acked
      /\ disk' = disk /\ hb' = hb /\ version' = version
      /\ reg' = [reg EXCEPT ![n] = [at |-> "build", listed |-> NotListed]]
      /\ fileVersion' = Larger(fileVersion, reg[n].listed)
  BY Zenon DEF BuildMerge, aux
<1>w. \A w \in Writers : Writing(w)' <=> Writing(w)
  BY Zenon, <1>0 DEF Writing
<1>s. \A b \in Int : Bound(b)' => Bound(b)
  BY Zenon, <1>0, <1>w DEF Bound
<1>1. \A b \in Int : Bound(b)' => Below(b)'
  <2> SUFFICES ASSUME NEW b \in Int, Bound(b) PROVE Below(b)'
    BY Zenon, <1>s
  <2>1. Below(b) /\ b >= -1
    BY Zenon, FreshNumbers DEF Serves
  <2>2. DiskBelow(b)' /\ HbBelow(b)'
    BY Zenon, <1>0, <2>1 DEF Below, DiskBelow, HbBelow
  <2>3. RegBelow(b)'
    <3>1. \A m \in Nodes : reg'[m].listed = reg[m].listed \/ reg'[m].listed = NotListed
      BY Zenon, <1>0 DEF Typed, RegTyped
    <3>2. NotListed <= b
      BY <2>1 DEF NotListed
    <3> QED
      BY Zenon, <2>1, <3>1, <3>2 DEF Below, RegBelow
  <2>4. version' <= b /\ fileVersion' <= b
    BY Zenon, <1>0, <2>1 DEF Below, RegBelow, Larger
  <2> QED
    BY Zenon, <2>2, <2>3, <2>4 DEF Below
<1>2. Recorded'
  <2>1. fileVersion \in Int /\ version \in Int /\ reg[n].listed \in Int
    BY Zenon, FreshNumbers
  <2>2. ASSUME \A w \in Writers : ~(Writing(w)' /\ job'[w].at = "persist")
        PROVE  version' <= fileVersion'
    <3>1. version <= fileVersion
      BY Zenon, <1>0, <1>w, <2>2 DEF Serves, Recorded
    <3>2. fileVersion <= Larger(fileVersion, reg[n].listed) /\ Larger(fileVersion, reg[n].listed) \in Int
      BY <2>1 DEF Larger
    <3> QED
      BY <1>0, <2>1, <3>1, <3>2
  <2> QED
    BY Zenon, <2>2 DEF Recorded
<1>3. Newest'
  BY Zenon, <1>0, <1>w DEF Serves, Newest
<1>4. Accepted'
  BY Zenon, <1>0 DEF Serves, Accepted
<1> QED
  BY Zenon, <1>0, <1>1, <1>2, <1>3, <1>4 DEF Serves

\* A restart that cuts no write off finds the version of memory on file.
LEMMA RestartServes ==
  ASSUME Typed, Serves, Restart, Undisturbed', ~CrashInRewrite
  PROVE  Serves'
<1>0. /\ version' = fileVersion /\ fileVersion' = fileVersion /\ rollbacks' = {}
      /\ disk' = disk /\ writes' = writes /\ acked' = acked
      /\ reg' = [n \in Nodes |-> NoReg] /\ hb' = Asleep
      /\ Happens("cut write", \E w \in Writers : Writing(w))
  BY Zenon DEF Restart
<1>1. \A w \in Writers : ~Writing(w) /\ ~Writing(w)'
  BY Zenon, <1>0, RestartEndsWrites DEF Happens, Undisturbed
<1>2. Below(version)
  BY Zenon, <1>1, FreshNumbers DEF Serves, Bound
<1>3. fileVersion = version
  <2>1. version <= fileVersion
    BY Zenon, <1>1 DEF Serves, Recorded
  <2>2. fileVersion <= version
    BY Zenon, <1>2 DEF Below
  <2>3. fileVersion \in Int /\ version \in Int
    BY Zenon, FreshNumbers
  <2> QED
    BY <2>1, <2>2, <2>3
<1>4. \A b \in Int : Bound(b)' => b = version
  BY Zenon, <1>0, <1>1, <1>3 DEF Bound
<1>5. Below(version)'
  <2>1. RegBelow(version)'
    <3>1. \A n \in Nodes : reg'[n].listed = -3
      BY Zenon, <1>0 DEF NoReg, NotListed
    <3>2. version' >= -1 /\ version' \in Int
      BY Zenon, <1>0, <1>3, FreshNumbers
    <3> QED
      BY <3>1, <3>2 DEF RegBelow
  <2>2. HbBelow(version)'
    BY Zenon, <1>0 DEF HbBelow, Asleep
  <2> QED
    BY Zenon, <1>0, <1>2, <1>3, <2>1, <2>2 DEF Below, DiskBelow
<1>6. Recorded' /\ Newest' /\ Accepted'
  BY Zenon, <1>0, <1>1, <1>3, FreshNumbers DEF Serves, Recorded, Newest, Accepted
<1> QED
  BY Zenon, <1>0, <1>3, <1>4, <1>5, <1>6 DEF Serves


\* What a request's step leaves alone.
LEMMA WriterKeeps ==
  ASSUME Typed, NEW w \in Writers, WriterStep(w)
  PROVE  /\ reg' = reg /\ hb' = hb
         /\ Fanout(w) \/ disk' = disk
         /\ rollbacks' = rollbacks \/ rejected' # {}
<1>1. reg' = reg /\ hb' = hb
  BY Zenon DEF WriterStep, StartCreate, StartUpdate, StartDelete, StartRead, SnapshotHolders,
         Fanout, ReadHolder, CommitCreate, CommitUpdate, CommitDelete, SetFileVersion,
         PersistRead, PersistWrite, Answer, AnswerRead
<1>2. ASSUME ReadHolder(w) PROVE disk' = disk
  <2>1. NetTyped /\ JobTyped
    BY Zenon DEF Typed
  <2>2. Members(job[w].todo) # {}
    BY Zenon, <1>2, <2>1, JobParts DEF ReadHolder, JobOK
  <2>3. First(job[w].todo) \in Nodes
    BY Zenon, <2>2, FirstIsMember
  <2> QED
    BY Zenon, <1>2, <2>1, <2>3, CopyKept DEF ReadHolder
<1>3. ASSUME ~ReadHolder(w), ~Fanout(w) PROVE disk' = disk
  BY Zenon, <1>3 DEF WriterStep, StartCreate, StartUpdate, StartDelete, StartRead,
              SnapshotHolders, CommitCreate, CommitUpdate, CommitDelete, SetFileVersion,
              PersistRead, PersistWrite, Answer, AnswerRead
<1>4. ASSUME ~CommitCreate(w) PROVE rollbacks' = rollbacks
  BY Zenon, <1>4 DEF WriterStep, StartCreate, StartUpdate, StartDelete, StartRead,
              SnapshotHolders, Fanout, ReadHolder, CommitUpdate, CommitDelete,
              SetFileVersion, PersistRead, PersistWrite, Answer, AnswerRead
<1>5. ASSUME CommitCreate(w) PROVE rollbacks' = rollbacks \/ rejected' # {}
  BY Zenon, <1>5 DEF CommitCreate
<1> QED
  BY Zenon, <1>1, <1>2, <1>3, <1>4, <1>5

\* What a torn copy can be.
LEMMA TornParts ==
  ASSUME NEW n, disk[n] \in Copy, NEW c \in Copy, NEW t \in Torn(n, c)
  PROVE  /\ t.ver = disk[n].ver \/ t.ver = c.ver
         /\ \/ t = disk[n]
            \/ t.data = NoBytes \/ t.data = PartialBytes \/ t.data = c.data
<1>1. CASE t \in {disk[n], c}
  BY Zenon, <1>1
<1>2. ASSUME NEW d \in {NoBytes, PartialBytes, c.data}, t = [disk[n] EXCEPT !.data = d]
      PROVE  t.ver = disk[n].ver /\ t.data = d
  BY Zenon, <1>2 DEF Copy
<1> QED
  BY Zenon, <1>1, <1>2 DEF Torn

\* A call of a fan-out leaves the copy, drops it, or stores the write's bytes.
LEMMA FanoutCopies ==
  ASSUME Typed, NEW w \in Writers, Fanout(w)
  PROVE  \/ disk' = disk
         \/ \E n \in Nodes, c \in Copy :
              /\ disk' = [disk EXCEPT ![n] = c]
              /\ \/ c = NoCopy
                 \/ /\ Writing(w)
                    /\ c.ver = disk[n].ver \/ c.ver = job[w].ver
                    /\ \/ c = disk[n]
                       \/ c.data = NoBytes \/ c.data = PartialBytes
                       \/ c.data = job[w].data
<1> DEFINE j == job[w]
           n == First(j.todo)
           k == j.todo[n]
           c == [data |-> j.data, ver |-> j.ver]
<1>t. NetTyped /\ JobTyped
  BY Zenon DEF Typed
<1>n. n \in Nodes
  BY Zenon, FirstIsMember DEF Fanout
<1>d. /\ disk[n] \in Copy /\ disk = [disk EXCEPT ![n] = disk[n]]
      /\ c \in Copy /\ NoCopy \in Copy
  BY <1>t, <1>n, JobParts, ReplicationAssumption
     DEF NetTyped, Copy, NoCopy, NoRecord, NoBytes, Bytes
<1>1. CASE j.op = "DELETE"
  <2>1. \/ disk' = disk
        \/ disk' = [disk EXCEPT ![n] = disk[n]]
        \/ disk' = [disk EXCEPT ![n] = Deleted(n)]
    BY Zenon, <1>1 DEF Fanout, Answered, Failed
  <2>2. Deleted(n) = disk[n] \/ Deleted(n) = NoCopy
    BY Zenon DEF Deleted
  <2>3. disk' = disk \/ disk' = [disk EXCEPT ![n] = NoCopy]
    BY Zenon, <1>d, <2>1, <2>2
  <2> QED
    BY Zenon, <1>n, <1>d, <2>3
<1>2. CASE j.op # "DELETE"
  <2>1. \/ disk' = disk
        \/ \E t \in Torn(n, c) : disk' = [disk EXCEPT ![n] = t]
    <3>1. c \in Torn(n, c)
      BY Zenon DEF Torn
    <3>2. \/ disk' = disk
          \/ disk' = [disk EXCEPT ![n] = c]
          \/ \E t \in Torn(n, c) : disk' = [disk EXCEPT ![n] = t]
      BY Zenon, <1>2 DEF Fanout, Answered, Failed
    <3> QED
      BY Zenon, <3>1, <3>2
  <2>2. Writing(w)
    <3>1. j.op \in {"idle", "CREATE", "UPDATE", "DELETE", "READ"} /\ j.op # "READ"
          /\ (j.op = "idle" => j = Idle) /\ j.at = "fanout"
      BY Zenon, <1>t, JobParts DEF Fanout, JobOK
    <3>2. j.op # "idle"
      BY <3>1 DEF Idle
    <3> QED
      BY Zenon, <1>2, <3>1, <3>2 DEF Writing
  <2>3. ASSUME NEW t \in Torn(n, c), disk' = [disk EXCEPT ![n] = t]
        PROVE  /\ t \in Copy
               /\ t.ver = disk[n].ver \/ t.ver = j.ver
               /\ t = disk[n] \/ t.data = NoBytes \/ t.data = PartialBytes \/ t.data = j.data
    <3>1. disk' \in [Nodes -> Copy] /\ disk'[n] = t
      BY Zenon, <1>t, <1>n, <2>3, NextTyped DEF Typed, NetTyped, Next, WriterStep
    <3>2. /\ t.ver = disk[n].ver \/ t.ver = c.ver
          /\ t = disk[n] \/ t.data = NoBytes \/ t.data = PartialBytes \/ t.data = c.data
      BY <1>d, TornParts
    <3> QED
      BY Zenon, <1>n, <3>1, <3>2
  <2> HIDE DEF c, n, k
  <2> QED
    BY Zenon, <1>n, <2>1, <2>2, <2>3
<1> QED
  BY Zenon, <1>1, <1>2

\* A quiet step of a request keeps the copies fresh.
LEMMA WriterQuietServes ==
  ASSUME Typed, Typed', Serves, Undisturbed', NEW w \in Writers, WriterStep(w), Quiet,
         OneWriter
  PROVE  Serves'
<1>0. /\ reg' = reg /\ hb' = hb /\ rejected' = {} /\ rollbacks' = {}
      /\ Fanout(w) \/ disk' = disk
      /\ \A v \in Writers : v = w
  BY Zenon, WriterKeeps DEF Undisturbed, Serves, OneWriter
<1>1. CASE disk' = disk
  <2>1. \A b \in Int : Below(b) => DiskBelow(b)' /\ RegBelow(b)' /\ HbBelow(b)'
    BY Zenon, <1>0, <1>1 DEF Below, DiskBelow, RegBelow, HbBelow
  <2> QED
    BY Zenon, <1>0, <1>1, <2>1, QuietServes
<1>2. ASSUME NEW n \in Nodes, NEW c \in Copy, disk' = [disk EXCEPT ![n] = c],
             \/ c = NoCopy
             \/ /\ Writing(w)
                /\ c.ver = disk[n].ver \/ c.ver = job[w].ver
                /\ \/ c = disk[n]
                   \/ c.data = NoBytes \/ c.data = PartialBytes
                   \/ c.data = job[w].data
      PROVE  Serves'
  <2>d. disk'[n] = c /\ \A m \in Nodes : m # n => disk'[m] = disk[m]
    BY Zenon, <1>2 DEF Typed, NetTyped
  <2>1. ASSUME NEW b \in Int, Bound(b), Below(b)
        PROVE  DiskBelow(b)' /\ RegBelow(b)' /\ HbBelow(b)'
    <3>1. RegBelow(b)' /\ HbBelow(b)'
      BY Zenon, <1>0, <2>1 DEF Below, RegBelow, HbBelow
    <3>2. c.ver <= b /\ (b < 0 => c.data = NoBytes)
      <4>1. CASE c = NoCopy
        BY <2>1, <4>1, FreshNumbers DEF NoCopy, NoRecord
      <4>2. CASE Writing(w) /\ (c.ver = disk[n].ver \/ c.ver = job[w].ver)
        <5>1. b = job[w].ver /\ b >= 0
          BY Zenon, <1>0, <2>1, <4>2, FreshNumbers DEF Bound
        <5> QED
          BY <2>1, <4>2, <5>1 DEF Below, DiskBelow
      <4> QED
        BY Zenon, <1>2, <4>1, <4>2
    <3>3. DiskBelow(b)'
      BY Zenon, <2>d, <2>1, <3>2 DEF Below, DiskBelow
    <3> QED
      BY Zenon, <3>1, <3>3
  <2>2. ASSUME Writing(w), c.data = PartialBytes \/ c.data = job[w].data
        PROVE  c.data >= acked.write /\ c.data >= job[w].data
    BY <2>2, FreshNumbers DEF Serves, Newest, PartialBytes
  <2>3. \/ c = disk[n] \/ c.data = NoBytes
        \/ c.data >= acked.write /\ c.data >= job[w].data
    BY <1>2, <2>2 DEF NoCopy
  <2>4. \A m \in Nodes : \/ disk'[m] = disk[m]
                         \/ disk'[m].data = NoBytes
                         \/ /\ disk'[m].data >= acked.write
                            /\ \A v \in Writers : Writing(v) => disk'[m].data >= job[v].data
    BY Zenon, <1>0, <2>d, <2>3
  <2> QED
    BY Zenon, <1>0, <2>1, <2>4, QuietServes
<1> QED
  BY <1>0, <1>1, <1>2, FanoutCopies

\* A request's step keeps the copies fresh.
LEMMA WriterServes ==
  ASSUME Typed, Typed', Serves, Versions, Undisturbed, Undisturbed', NEW w \in Writers,
         WriterStep(w), OneWriter, ~CreateOver
  PROVE  Serves'
<1>0. reg' = reg /\ hb' = hb /\ rollbacks' = {}
  BY Zenon, WriterKeeps DEF Undisturbed, Serves
<1>1. ~Deletes(w)
  BY Zenon DEF Deletes, Undisturbed
<1>2. CASE Quiet
  BY Zenon, <1>2, WriterQuietServes
<1>3. CASE Saves
  BY Zenon, <1>0, <1>3, SaveServes
<1>4. CASE Begins(w)
  BY Zenon, <1>0, <1>4, BeginServes
<1>5. CASE Lands(w)
  BY Zenon, <1>0, <1>5, LandServes
<1>6. CASE Records(w)
  BY Zenon, <1>0, <1>6, RecordServes
<1>7. CASE Acks(w)
  BY Zenon, <1>0, <1>7, AckServes
<1> QED
  BY Zenon, <1>1, <1>2, <1>3, <1>4, <1>5, <1>6, <1>7, WriterKinds


\* What a datanode lists is no higher than what it has on record.
LEMMA ListedBelow ==
  ASSUME Typed, NEW b \in Int, b >= -1, DiskBelow(b), NEW m \in Nodes
  PROVE  Listed(m) <= b
<1>1. CASE disk[m].data = NoBytes
  <2>1. Listed(m) = NotListed
    BY Zenon, <1>1 DEF Listed
  <2> QED
    BY <2>1 DEF NotListed
<1>2. CASE disk[m].data # NoBytes
  <2>1. b >= 0 /\ disk[m].ver <= b
    BY <1>2 DEF DiskBelow
  <2> QED
    BY Zenon, <1>2, <2>1 DEF Listed
<1> QED
  BY Zenon, <1>1, <1>2

\* A datanode's step keeps the copies fresh.
LEMMA DatanodeServes ==
  ASSUME Typed, Typed', Serves, Undisturbed, Undisturbed', NEW n \in Nodes,
         DatanodeStep(n), OneWriter
  PROVE  Serves'
<1>0. /\ disk' = disk /\ rejected' = {} /\ rollbacks' = {} /\ job' = job
      /\ writes' = writes /\ acked' = acked
  BY Zenon, DatanodeKeeps DEF Serves, Undisturbed
<1>1. CASE RegisterDataNodeFiles(n)
  BY Zenon, <1>1, RegisterServes
<1>2. CASE BuildMerge(n)
  BY Zenon, <1>2, MergeServes
<1>3. CASE ~RegisterDataNodeFiles(n) /\ ~BuildMerge(n)
  <2>1. hb' = hb /\ version' = version /\ fileVersion' = fileVersion
    BY Zenon, <1>3 DEF DatanodeStep, BreakLink, Connect, SyncStatus, BuildFetch, BuildDone, maps
  <2>2. Quiet
    BY Zenon, <1>0, <2>1, SameJobs DEF Quiet
  <2>3. ASSUME NEW m \in Nodes
        PROVE  \/ reg'[m].listed = reg[m].listed
               \/ reg'[m].listed = NotListed
               \/ \E o \in Nodes : reg'[m].listed = Listed(o)
    <3>t. reg \in [Nodes -> RegType]
      BY Zenon DEF Typed, RegTyped, RegType
    <3>1. CASE BreakLink(n)
      BY Zenon, <3>1 DEF BreakLink
    <3>2. CASE Connect(n)
      BY Zenon, <3>t, <3>2 DEF Connect, RegType
    <3>3. CASE SyncStatus(n)
      BY <3>t, <3>3 DEF SyncStatus
    <3>4. CASE BuildFetch(n)
      <4>1. PICK o \in Members(Alive(endpoint)) :
              reg' = reg \/ reg' = [reg EXCEPT ![n] = [at |-> "merge", listed |-> Listed(o)]]
        BY Zenon, <3>4 DEF BuildFetch
      <4>2. o \in Nodes
        BY Zenon DEF Members
      <4> QED
        BY <3>t, <4>1, <4>2
    <3>5. CASE BuildDone(n)
      BY Zenon, <3>t, <3>5 DEF BuildDone, NoReg
    <3> QED
      BY Zenon, <1>3, <3>1, <3>2, <3>3, <3>4, <3>5 DEF DatanodeStep
  <2>4. ASSUME NEW b \in Int, Bound(b), Below(b)
        PROVE  DiskBelow(b)' /\ RegBelow(b)' /\ HbBelow(b)'
    <3>1. b >= -1 /\ DiskBelow(b)
      BY Zenon, <2>4, FreshNumbers DEF Below
    <3>2. NotListed <= b
      BY <3>1 DEF NotListed
    <3>3. \A o \in Nodes : Listed(o) <= b
      BY Zenon, <3>1, ListedBelow
    <3>4. RegBelow(b)'
      BY Zenon, <2>3, <2>4, <3>2, <3>3 DEF Below, RegBelow
    <3> QED
      BY Zenon, <1>0, <2>1, <2>4, <3>4 DEF Below, DiskBelow, HbBelow
  <2> QED
    BY Zenon, <1>0, <2>2, <2>4, QuietServes
<1> QED
  BY Zenon, <1>1, <1>2, <1>3

\* What the heartbeat thread does when it stores nothing and saves nothing.
LEMMA HeartbeatPoints ==
  ASSUME Typed, HeartbeatStep, ~RebalanceCopy
  PROVE  \/ hb'.at \notin {"pick", "copy"}
         \/ \E n \in Nodes : disk[n].data # NoBytes
         \/ hb.at = "pick"
<1>h. hb \in HbType /\ Asleep \in HbType
  BY Zenon, HbParts DEF Typed
<1>1. CASE HbStart \/ HbSleep
  BY Zenon, <1>1, <1>h DEF HbStart, HbSleep, HbType, Asleep
<1>2. CASE HbProbe
  <2> DEFINE rest == [hb EXCEPT !.todo = Drop(@, First(hb.todo))]
             less == [rest EXCEPT !.lost = @ \cup {First(hb.todo)}]
             hung == [Asleep EXCEPT !.at = "hung"]
  <2>1. hb' = hung \/ hb' = rest \/ hb' = less
    BY Zenon, <1>2 DEF HbProbe
  <2>2. hb.at = "probe"
    BY Zenon, <1>2 DEF HbProbe
  <2>3. rest.at = hb.at /\ less.at = hb.at /\ hung.at = "hung"
    BY Zenon, <1>h DEF HbType
  <2> QED
    BY Zenon, <2>1, <2>2, <2>3
<1>3. CASE HbEvict \/ HbPersistRead
  BY Zenon, <1>3, <1>h DEF HbEvict, HbPersistRead, HbType
<1>4. CASE EraseFromReplicationMap
  <2>1. \E l, m : hb' = [hb EXCEPT !.lost = l, !.at = "save", !.map = m]
    BY Zenon, <1>4 DEF EraseFromReplicationMap
  <2> QED
    BY Zenon, <1>h, <2>1 DEF HbType
<1>5. CASE HbPersistWrite
  <2>1. \E a \in {"erase", "source"} : hb' = [hb EXCEPT !.at = a, !.snap = -1]
    BY Zenon, <1>5 DEF HbPersistWrite
  <2> QED
    BY Zenon, <1>h, <2>1 DEF HbType
<1>6. CASE RebalanceMerge
  BY Zenon, <1>6, <1>h DEF RebalanceMerge, HbType
<1>7. CASE RebalancePick
  BY Zenon, <1>7 DEF RebalancePick
<1>8. CASE RebalanceRead
  <2>1. Members(hb.map) # {}
    BY Zenon, <1>8 DEF RebalanceRead, Typed, HbOK
  <2>2. First(hb.map) \in Nodes
    BY Zenon, <2>1, FirstIsMember
  <2>3. \/ hb' = [Asleep EXCEPT !.at = "hung"]
        \/ hb' = [hb EXCEPT !.at = "erase", !.map = None]
        \/ disk[First(hb.map)].data # NoBytes
    BY Zenon, <1>8 DEF RebalanceRead
  <2>4. [Asleep EXCEPT !.at = "hung"].at = "hung" /\ [hb EXCEPT !.at = "erase", !.map = None].at = "erase"
    BY Zenon, <1>h DEF HbType
  <2> QED
    BY Zenon, <2>2, <2>3, <2>4
<1> QED
  BY Zenon, <1>1, <1>2, <1>3, <1>4, <1>5, <1>6, <1>7, <1>8 DEF HeartbeatStep

\* A rebalance that copies bytes no older than the last acknowledged write while
\* nobody writes keeps the copies fresh.
LEMMA CopyServes ==
  ASSUME Typed, Typed', Serves, Undisturbed, Undisturbed', RebalanceCopy
  PROVE  Serves'
<1>0. /\ reg' = reg /\ rejected' = {} /\ rollbacks' = {} /\ job' = job
      /\ writes' = writes /\ acked' = acked
  BY Zenon, HeartbeatKeeps DEF Serves, Undisturbed, HeartbeatStep
<1>1. Quiet
  <2>1. version' = version /\ fileVersion' = fileVersion
    BY Zenon DEF RebalanceCopy, maps
  <2> QED
    BY Zenon, <1>0, <2>1, SameJobs DEF Quiet
<1>2. hb.bytes \in Bytes /\ hb.at = "copy" /\ Members(hb.todo) # {}
  BY Zenon DEF RebalanceCopy, Typed, HbOK
<1>3. (\A w \in Writers : ~Writing(w)) /\ hb.bytes >= acked.write
  <2>1. ~(hb.bytes < acked.write \/ \E w \in Writers : Writing(w))
    BY Zenon DEF RebalanceCopy, Happens, Undisturbed
  <2>2. hb.bytes \in Int
    BY <1>2, ReplicationAssumption DEF Bytes
  <2> QED
    BY <2>1, <2>2, FreshNumbers
<1>4. Below(version) /\ version >= 0
  <2>1. Below(version)
    BY Zenon, <1>3, FreshNumbers DEF Serves, Bound
  <2> QED
    BY <1>2, <2>1, FreshNumbers DEF Below, HbBelow
<1> DEFINE n == First(hb.todo)
           c == [data |-> hb.bytes, ver |-> fileVersion]
<1>5. n \in Nodes /\ disk[n] \in Copy /\ disk = [disk EXCEPT ![n] = disk[n]] /\ c \in Copy
  <2>1. n \in Nodes
    BY Zenon, <1>2, FirstIsMember
  <2> QED
    BY Zenon, <1>2, <2>1, FreshNumbers DEF Typed, NetTyped, Copy
<1>6. \/ disk' = disk
      \/ \E t \in Torn(n, c) : disk' = [disk EXCEPT ![n] = t]
  <2>1. c \in Torn(n, c)
    BY Zenon DEF Torn
  <2>2. \/ disk' = disk
        \/ disk' = [disk EXCEPT ![n] = c]
        \/ \E t \in Torn(n, c) : disk' = [disk EXCEPT ![n] = t]
    BY Zenon DEF RebalanceCopy, Answered, Failed
  <2> QED
    BY Zenon, <2>1, <2>2
<1>7. \A b \in Int : Bound(b) => b = version
  BY Zenon, <1>3 DEF Bound
<1>8. ASSUME NEW t \in Torn(n, c)
      PROVE  /\ t.ver <= version
             /\ t = disk[n] \/ t.data = NoBytes \/ t.data >= acked.write
  <2>1. /\ t.ver = disk[n].ver \/ t.ver = fileVersion
        /\ t = disk[n] \/ t.data = NoBytes \/ t.data = PartialBytes \/ t.data = hb.bytes
    BY <1>5, TornParts
  <2> HIDE DEF n, c
  <2>2. t.ver <= version
    BY Zenon, <1>4, <1>5, <2>1 DEF Below, DiskBelow
  <2>3. PartialBytes >= acked.write
    BY FreshNumbers DEF PartialBytes
  <2> QED
    BY Zenon, <1>3, <2>1, <2>2, <2>3
<1> HIDE DEF n, c
<1>9. DiskBelow(version)'
  <2>1. version' = version
    BY Zenon, <1>1 DEF Quiet
  <2>2. \A m \in Nodes : disk'[m].ver <= version
    BY Zenon, <1>4, <1>5, <1>6, <1>8 DEF Below, DiskBelow, Typed, NetTyped
  <2> QED
    BY <1>4, <2>1, <2>2, FreshNumbers DEF DiskBelow
<1>10. ASSUME NEW b \in Int, Bound(b), Below(b)
       PROVE  DiskBelow(b)' /\ RegBelow(b)' /\ HbBelow(b)'
  <2>1. b = version /\ version' = version
    BY Zenon, <1>1, <1>7, <1>10 DEF Quiet
  <2>2. DiskBelow(b)'
    BY Zenon, <1>9, <2>1
  <2>3. RegBelow(b)'
    BY Zenon, <1>0, <1>10 DEF Below, RegBelow
  <2>4. HbBelow(b)'
    BY <1>4, <2>1, FreshNumbers DEF HbBelow
  <2> QED
    BY Zenon, <2>2, <2>3, <2>4
<1>11. \A m \in Nodes : \/ disk'[m] = disk[m]
                        \/ disk'[m].data = NoBytes
                        \/ /\ disk'[m].data >= acked.write
                           /\ \A w \in Writers : Writing(w) => disk'[m].data >= job[w].data
  BY Zenon, <1>3, <1>5, <1>6, <1>8 DEF Typed, NetTyped
<1> QED
  BY Zenon, <1>0, <1>1, <1>10, <1>11, QuietServes

\* A step of the heartbeat thread keeps the copies fresh.
LEMMA HeartbeatServes ==
  ASSUME Typed, Typed', Serves, Undisturbed, Undisturbed', HeartbeatStep
  PROVE  Serves'
<1>0. /\ RebalanceCopy \/ disk' = disk
      /\ reg' = reg /\ rejected' = {} /\ rollbacks' = {} /\ job' = job
      /\ writes' = writes /\ acked' = acked
  BY Zenon, HeartbeatKeeps DEF Serves, Undisturbed
<1>1. CASE HbPersistWrite
  <2>1. \E a \in {"erase", "source"} : hb' = [hb EXCEPT !.at = a, !.snap = -1]
    BY Zenon, <1>1 DEF HbPersistWrite
  <2>2. hb'.at \in {"erase", "source"}
    BY Zenon, <2>1, HbParts DEF HbType, Typed
  <2>3. /\ disk' = disk /\ version' = version /\ fileVersion' = hb.snap
        /\ Happens("stale save", hb.snap # version)
    BY Zenon, <1>1 DEF HbPersistWrite
  <2>4. Saves
    BY Zenon, <1>0, <2>3, SameJobs DEF Saves, Happens
  <2> QED
    BY Zenon, <1>0, <2>2, <2>4, SaveServes
<1>2. CASE RebalanceCopy
  BY Zenon, <1>2, CopyServes
<1>3. CASE ~HbPersistWrite /\ ~RebalanceCopy
  <2>1. version' = version /\ fileVersion' = fileVersion
    BY Zenon, <1>3 DEF HeartbeatStep, HbStart, HbProbe, HbEvict, EraseFromReplicationMap,
                HbPersistRead, HbSleep, RebalanceRead, RebalancePick, RebalanceMerge, maps
  <2>2. Quiet
    BY Zenon, <1>0, <2>1, SameJobs DEF Quiet
  <2>3. disk' = disk
    BY Zenon, <1>0, <1>3
  <2>4. ASSUME NEW b \in Int, Bound(b), Below(b)
        PROVE  DiskBelow(b)' /\ RegBelow(b)' /\ HbBelow(b)'
    <3>1. DiskBelow(b)' /\ RegBelow(b)'
      BY Zenon, <1>0, <2>3, <2>4 DEF Below, DiskBelow, RegBelow
    <3>2. \/ hb'.at \notin {"pick", "copy"}
          \/ \E n \in Nodes : disk[n].data # NoBytes
          \/ hb.at = "pick"
      BY Zenon, <1>3, HeartbeatPoints
    <3>3. HbBelow(b)'
      BY Zenon, <2>4, <3>2 DEF Below, DiskBelow, HbBelow
    <3> QED
      BY Zenon, <3>1, <3>3
  <2> QED
    BY Zenon, <1>0, <2>2, <2>3, <2>4, QuietServes
<1> QED
  BY Zenon, <1>1, <1>2, <1>3

\* With one request at a time, no create over an existing path and no crash in the
\* middle of setFileVersion's rewrite, the copies stay fresh.
THEOREM CopiesStayFresh ==
  ASSUME OneWriter, ~CreateOver, ~CrashInRewrite
  PROVE  Spec => []Fresh
<1>1. Init => Fresh
  <2> SUFFICES ASSUME Init PROVE Serves
    BY Zenon DEF Fresh
  <2>1. \A w \in Writers : ~Writing(w)
    BY Zenon DEF Init, Writing, Idle
  <2>2. /\ version = -1 /\ fileVersion = -1 /\ acked.write = 0 /\ writes = 0
        /\ rollbacks = {} /\ hb.at = "asleep"
    BY Zenon DEF Init, NothingAcked, Asleep
  <2>3. \A n \in Nodes : disk[n].ver = -2 /\ disk[n].data = NoBytes /\ reg[n].listed = -3
    BY Zenon DEF Init, NoCopy, NoRecord, NoReg, NotListed
  <2>4. \A b \in Int : Bound(b) => b = -1
    BY Zenon, <2>1, <2>2 DEF Bound
  <2>5. Below(-1)
    BY <2>2, <2>3 DEF Below, DiskBelow, RegBelow, HbBelow
  <2>6. Recorded /\ Newest /\ Accepted
    BY <2>1, <2>2, <2>3 DEF Recorded, Newest, Accepted
  <2> QED
    BY <2>2, <2>4, <2>5, <2>6 DEF Serves
<1>2. ASSUME Typed, Versions, Fresh, [Next]_vars PROVE Fresh'
  <2>1. CASE UNCHANGED vars
    BY Zenon, <1>2, <2>1 DEF vars, maps, aux, Fresh, Undisturbed, Serves, Bound, Below, DiskBelow,
                      RegBelow, HbBelow, Recorded, Newest, Accepted, Writing
  <2>2. CASE Next
    <3> SUFFICES ASSUME Undisturbed' PROVE Serves'
      BY Zenon DEF Fresh
    <3>0. Typed' /\ Undisturbed /\ Serves
      BY Zenon, <1>2, <2>2, HistoryKept, NextTyped DEF Undisturbed, Fresh
    <3>1. \A r \in rollbacks : ~Rollback(r[1], r[2])
      BY Zenon, <3>0 DEF Serves
    <3>2. ASSUME NEW w \in Writers, WriterStep(w) PROVE Serves'
      BY Zenon, <1>2, <3>0, <3>2, WriterServes
    <3>3. ASSUME NEW n \in Nodes, DatanodeStep(n) PROVE Serves'
      BY Zenon, <1>2, <3>0, <3>3, DatanodeServes
    <3>4. CASE HeartbeatStep
      BY Zenon, <1>2, <3>0, <3>4, HeartbeatServes
    <3>5. CASE Restart
      BY Zenon, <1>2, <3>0, <3>5, RestartServes
    <3> QED
      BY Zenon, <2>2, <3>1, <3>2, <3>3, <3>4, <3>5 DEF Next
  <2> QED
    BY Zenon, <1>2, <2>1, <2>2
<1> QED
  BY <1>1, <1>2, TypesHold, VersionsStand, PTL DEF Spec

\* Unless an event disturbed it, every copy getFileFromDataNode would accept as
\* current has the bytes of the last acknowledged write.
THEOREM AcceptedAreFresh ==
  ASSUME OneWriter, ~CreateOver, ~CrashInRewrite
  PROVE  Spec => []FreshUnlessOverlapped
<1>1. ASSUME Typed, Fresh PROVE FreshUnlessOverlapped
  <2> SUFFICES ASSUME Undisturbed, NEW n \in Members(holder), disk[n].data # NoBytes,
                      version >= 0, RecordedVersion(n) >= version
      PROVE  disk[n].data >= acked.write
    BY Zenon DEF FreshUnlessOverlapped, AcceptedCopiesAreFresh, Undisturbed
  <2>1. n \in Nodes /\ Accepted
    BY Zenon, <1>1 DEF Members, Fresh, Serves
  <2>2. disk[n].ver \in Int /\ version \in Int
    BY Zenon, <1>1, <2>1, FreshNumbers
  <2>3. disk[n].ver >= version
    BY <2>2 DEF RecordedVersion, Larger
  <2> QED
    BY Zenon, <2>1, <2>3 DEF Accepted
<1> QED
  BY <1>1, TypesHold, CopiesStayFresh, PTL
=============================================================================
