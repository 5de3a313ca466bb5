-------------------------- MODULE LockManagerProofs --------------------------
(* Mutual exclusion of the lock manager, for any clients, paths and pool. *)
EXTENDS LockManager, TLAPS

\* Advancing, or ending, the job of a busy pool thread keeps job well typed.
LEMMA JobSteps ==
  ASSUME TypeOK, NEW w \in Workers, Busy(w)
  PROVE  /\ job[w] \in Job
         /\ \A pt \in Points : Goto(w, pt) => job' \in [Workers -> Job \cup {Idle}]
         /\ Finish(w) => job' \in [Workers -> Job \cup {Idle}]
         /\ \A pt \in Points, l \in SUBSET Files :
              job' = [job EXCEPT ![w].at = pt, ![w].listing = l]
              => job' \in [Workers -> Job \cup {Idle}]
<1>1. job[w] \in Job
  BY DEF TypeOK, Busy
<1>2. ASSUME NEW pt \in Points, NEW l \in SUBSET Files
      PROVE  /\ [job[w] EXCEPT !.at = pt] \in Job
             /\ [job[w] EXCEPT !.at = pt, !.listing = l] \in Job
  BY <1>1 DEF Job
<1> QED
  BY ZenonT(60), <1>1, <1>2 DEF TypeOK, Goto, Finish

\* The type invariant of the lock manager's threads is inductive.
THEOREM TypeCorrect == Spec => []TypeOK
<1> USE NoClientAssumption
<1>1. Init => TypeOK
  BY DEF Init, TypeOK, NoEntry, LockEntry, Job
<1>2. TypeOK /\ [Next]_vars => TypeOK'
  <2> SUFFICES ASSUME TypeOK, [Next]_vars PROVE TypeOK'
    OBVIOUS
  <2> USE DEF TypeOK
  <2>1. ASSUME NEW c \in Clients, NEW w \in Workers, NEW op \in Opcodes,
               NEW f \in Files, ClientRequest(c, w, op, f)
        PROVE  TypeOK'
    BY <2>1 DEF ClientRequest, Job, Points, Opcodes
  <2>2. ASSUME NEW c \in Clients, NEW died \in BOOLEAN, Disconnect(c, died)
        PROVE  TypeOK'
    BY ZenonT(60), <2>2 DEF Disconnect, Orphan, Busy, Job, Idle
  <2>3. ASSUME NEW c \in Clients, Connect(c)
        PROVE  TypeOK'
    BY <2>3 DEF Connect
  <2>4. ASSUME NEW w \in Workers, WorkerStep(w)
        PROVE  TypeOK'
    <3> DEFINE JobOK == job' \in [Workers -> Job \cup {Idle}]
    <3>0. ASSUME Busy(w)
          PROVE  /\ job[w] \in Job
                 /\ \A pt \in Points : Goto(w, pt) => JobOK
                 /\ Finish(w) => JobOK
      BY <3>0, JobSteps
    <3>a. \A e \in LockEntry, b \in BOOLEAN :
            /\ [e EXCEPT !.locked = b] \in LockEntry
            /\ [e EXCEPT !.elapsed = b] \in LockEntry
      BY DEF LockEntry
    <3>b. NewFileLock \in LockEntry /\ NoEntry \in LockEntry
      BY DEF NewFileLock, NoEntry, LockEntry
    <3>c. {"start", "build", "merge", "relock", "insert", "erase"} \subseteq Points
      BY DEF Points
    <3> HIDE DEF JobOK
    <3>1. CASE BuildFetch(w)
      <4>0. PICK l \in SUBSET Files :
                   job' = [job EXCEPT ![w].at = "merge", ![w].listing = l]
        BY <3>1 DEF BuildFetch
      <4>1. JobOK
        BY <3>1, <3>c, <4>0, JobSteps DEF BuildFetch, JobOK
      <4> QED BY <4>1, <3>1 DEF BuildFetch, JobOK
    <3>2. CASE BuildMerge(w)
      <4>0. {} \in SUBSET Files /\ "build" \in Points /\ Busy(w)
        BY <3>2, <3>c DEF BuildMerge
      <4>1. JobOK
        <5>1. job' = [job EXCEPT ![w].at = "build", ![w].listing = {}]
          BY <3>2 DEF BuildMerge
        <5> QED BY <4>0, <5>1, JobSteps DEF JobOK
      <4> QED BY <4>1, <3>2, <3>b DEF BuildMerge, JobOK
    <3>3. CASE BuildDone(w)
      BY <3>3, <3>0, <3>c DEF BuildDone, JobOK
    <3>4. CASE AcquireLock(w) \/ AcquireLockAgain(w)
      <4>1. Busy(w) /\ job[w] \in Job
        BY <3>4, <3>0 DEF AcquireLock, AcquireLockAgain, At
      <4>2. CASE Grant(w)
        <5>1. job[w].client \in Clients \cup {NoClient} /\ job[w].file \in Files
          BY <4>1 DEF Job
        <5>2. Granted(job[w].client) \in LockEntry
          BY <5>1 DEF Granted, LockEntry
        <5>3. held' \in [Clients -> SUBSET Files]
          BY <4>2, <5>1 DEF Grant
        <5> QED BY <4>1, <4>2, <5>1, <5>2, <5>3, <3>0 DEF Grant, JobOK
      <4>3. CASE ~Grant(w)
        <5>1. \/ Goto(w, "build") \/ Finish(w)
          BY <4>3, <3>4 DEF AcquireLock, AcquireLockAgain
        <5>2. JobOK
          BY <4>1, <5>1, <3>0, <3>c
        <5> QED BY <4>3, <5>2, <3>4 DEF AcquireLock, AcquireLockAgain, JobOK
      <4> QED BY <4>2, <4>3
    <3>5. CASE ReleaseLock(w)
      <4>1. Busy(w) /\ job[w].file \in Files /\ JobOK
        BY <3>5, <3>0, <3>c DEF ReleaseLock, At, Job
      <4>2. fileLockMap' \in [Files -> LockEntry]
        <5>1. [fileLockMap[job[w].file] EXCEPT !.locked = FALSE] \in LockEntry
          BY <4>1, <3>a
        <5> QED BY <4>1, <5>1, <3>5 DEF ReleaseLock
      <4> QED BY <4>1, <4>2, <3>5 DEF ReleaseLock, JobOK
    <3>6. CASE CreateStore(w) \/ InsertLock(w)
      <4>1. Busy(w) /\ job[w].file \in Files /\ JobOK
        BY <3>6, <3>0, <3>c DEF CreateStore, InsertLock, At, Job
      <4> QED BY <4>1, <3>6, <3>b DEF CreateStore, InsertLock, JobOK
    <3>7. CASE DeleteStore(w) \/ EraseLock(w)
      <4>1. Busy(w) /\ job[w].file \in Files /\ JobOK
        BY <3>7, <3>0, <3>c DEF DeleteStore, EraseLock, At, Job
      <4> QED BY <4>1, <3>7, <3>b DEF DeleteStore, EraseLock, JobOK
    <3>8. CASE Close(w)
      BY <3>8, <3>0 DEF Close, At, JobOK
    <3>9. CASE DatanodeJoin(w)
      BY <3>9 DEF DatanodeJoin, Job, Points, Opcodes
    <3> QED
      BY <2>4, <3>1, <3>2, <3>3, <3>4, <3>5, <3>6, <3>7, <3>8, <3>9 DEF WorkerStep
  <2>5. ASSUME NEW f \in Files, LeaseElapses(f)
        PROVE  TypeOK'
    BY <2>5 DEF LeaseElapses, LockEntry
  <2>6. CASE Expire
    <3>1. CASE ExpiryScan
      BY <3>1 DEF ExpiryScan, LockEntry
    <3>2. ASSUME NEW p \in expiredLocks, ExpiryRelease(p)
          PROVE  TypeOK'
      <4>1. \A e \in LockEntry : [e EXCEPT !.locked = FALSE] \in LockEntry
        BY DEF LockEntry
      <4>2. fileLockMap' \in [Files -> LockEntry]
        BY <3>2, <4>1 DEF ExpiryRelease
      <4> QED BY <3>2, <4>2 DEF ExpiryRelease
    <3> QED BY <2>6, <3>1, <3>2 DEF Expire
  <2>7. CASE UNCHANGED vars
    BY <2>7 DEF vars
  <2> QED
    BY <2>1, <2>2, <2>3, <2>4, <2>5, <2>6, <2>7 DEF Next, ClientStep
<1> QED
  BY <1>1, <1>2, PTL DEF Spec

\* A step of a pool thread leaves the other threads' jobs alone, and its own is
\* over or beyond its first point: no RELEASE_LOCK is started twice.
LEMMA WorkerJobs ==
  ASSUME TypeOK, NEW w \in Workers, WorkerStep(w)
  PROVE  /\ \A v \in Workers \ {w} : job'[v] = job[v]
         /\ ~At(w, "RELEASE_LOCK", "start")'
<1> DEFINE Moved == /\ \A v \in Workers \ {w} : job'[v] = job[v]
                    /\ job'[w] = Idle \/ job'[w].at # "start"
<1>1. Finish(w) => Moved
  BY DEF Finish, TypeOK
<1>2. ASSUME Busy(w), NEW pt \in Points \ {"start"}, Goto(w, pt)
      PROVE  Moved
  BY <1>2, JobSteps DEF Goto, TypeOK, Job
<1>3. {"build", "merge", "relock", "insert", "erase"} \subseteq Points \ {"start"}
  BY DEF Points
<1>4. ASSUME Busy(w), NEW l, NEW pt \in Points \ {"start"},
             job' = [job EXCEPT ![w].at = pt, ![w].listing = l]
      PROVE  Moved
  <2>1. job[w] \in Job
    BY <1>4, JobSteps
  <2>2. [job[w] EXCEPT !.at = pt, !.listing = l].at = pt
    BY <2>1 DEF Job
  <2>3. job'[w] = [job[w] EXCEPT !.at = pt, !.listing = l]
    BY <1>4 DEF TypeOK
  <2>4. \A v \in Workers \ {w} : job'[v] = job[v]
    BY <1>4 DEF TypeOK
  <2> QED BY <2>2, <2>3, <2>4
<1>5. ASSUME DatanodeJoin(w) PROVE Moved
  BY <1>5 DEF DatanodeJoin, TypeOK
<1> HIDE DEF Moved
<1>6. ASSUME BuildDone(w) PROVE Moved
  BY <1>1, <1>2, <1>3, <1>6 DEF BuildDone
<1>7. ASSUME AcquireLock(w) \/ AcquireLockAgain(w) PROVE Moved
  BY <1>1, <1>2, <1>3, <1>7 DEF AcquireLock, AcquireLockAgain, Grant, At
<1>8. ASSUME ReleaseLock(w) PROVE Moved
  BY <1>1, <1>2, <1>3, <1>8 DEF ReleaseLock, At
<1>9. ASSUME CreateStore(w) \/ DeleteStore(w) PROVE Moved
  BY <1>1, <1>2, <1>3, <1>9 DEF CreateStore, DeleteStore, At
<1>10. ASSUME InsertLock(w) \/ EraseLock(w) \/ Close(w) PROVE Moved
  BY <1>1, <1>10 DEF InsertLock, EraseLock, Close
<1>11. ASSUME BuildFetch(w) \/ BuildMerge(w) PROVE Moved
  <2>1. CASE BuildFetch(w)
    BY <1>3, <1>4, <2>1 DEF BuildFetch
  <2>2. CASE BuildMerge(w)
    BY <1>3, <1>4, <2>2 DEF BuildMerge
  <2> QED BY <1>11, <2>1, <2>2
<1>12. Moved
  BY <1>5, <1>6, <1>7, <1>8, <1>9, <1>10, <1>11 DEF WorkerStep
<1> QED BY <1>12 DEF Moved, At, Busy

\* On a path whose leases never elapsed and that was never deleted, the lock
\* map, the clients and the requests in flight agree on who holds the lock.
THEOREM LockInvariant == Spec => []LockInv
<1>1. Init => LockInv
  BY DEF Init, LockInv, Agreement, PendingRelease, At, Busy, NoEntry
<1>2. TypeOK /\ LockInv /\ [Next]_vars => LockInv'
  <2> SUFFICES ASSUME TypeOK, LockInv, [Next]_vars,
                      NEW f \in Files, f \notin disturbed'
               PROVE  Agreement(f)'
    BY DEF LockInv
  <2>0. f \notin disturbed => Agreement(f)
    BY DEF LockInv
  <2> USE DEF Agreement, PendingRelease, HeldBy, At, Busy
  <2>1. ASSUME NEW c \in Clients, NEW w \in Workers, NEW op \in Opcodes,
               NEW g \in Files, ClientRequest(c, w, op, g)
        PROVE  Agreement(f)'
    <3>0. Agreement(f)
      BY <2>0, <2>1 DEF ClientRequest
    <3>1. CASE op = "RELEASE_LOCK" /\ g = f
      BY <3>0, <3>1, <2>1 DEF ClientRequest, TypeOK, Idle
    <3>2. CASE ~(op = "RELEASE_LOCK" /\ g = f)
      BY <3>0, <3>2, <2>1 DEF ClientRequest, TypeOK, Idle
    <3> QED BY <3>1, <3>2
  <2>2. ASSUME NEW c \in Clients, NEW died \in BOOLEAN, Disconnect(c, died)
        PROVE  Agreement(f)'
    BY <2>0, <2>2 DEF Disconnect, Orphan, TypeOK, Idle, Job
  <2>3. ASSUME NEW c \in Clients, Connect(c)
        PROVE  Agreement(f)'
    BY <2>0, <2>3 DEF Connect
  <2>4. ASSUME NEW w \in Workers, WorkerStep(w)
        PROVE  Agreement(f)'
    <3>1. \A v \in Workers \ {w} : job'[v] = job[v]
      BY <2>4, WorkerJobs
    <3>2. ~At(w, "RELEASE_LOCK", "start")'
      BY <2>4, WorkerJobs
    <3>3. PendingRelease(f)' = PendingRelease(f) \ {w}
      BY <3>1, <3>2
    <3>4. ASSUME UNCHANGED <<fileLockMap, held, expiredLocks, disturbed>>
          PROVE  Agreement(f)'
      BY <2>0, <3>1, <3>3, <3>4
    <3>5. CASE BuildFetch(w) \/ BuildDone(w) \/ CreateStore(w)
                 \/ DeleteStore(w) \/ Close(w) \/ DatanodeJoin(w)
      BY <3>4, <3>5 DEF BuildFetch, BuildDone, CreateStore, DeleteStore, Close,
           DatanodeJoin
    <3>6. CASE BuildMerge(w)
      BY <2>0, <3>1, <3>3, <3>6 DEF BuildMerge, NewFileLock, TypeOK
    <3>7. CASE AcquireLock(w) \/ AcquireLockAgain(w)
      <4>1. CASE Grant(w)
        <5>0. Agreement(f) /\ UNCHANGED <<expiredLocks, disturbed>>
          BY <2>0, <4>1 DEF Grant
        <5>1. CASE fileLockMap[job[w].file].locked
          BY <3>4, <4>1, <5>1 DEF Grant
        <5>2. CASE job[w].file # f /\ ~fileLockMap[job[w].file].locked
          <6>1. fileLockMap'[f] = fileLockMap[f]
            BY <4>1, <5>2 DEF Grant, TypeOK
          <6>2. \A c \in Clients : f \in held'[c] <=> f \in held[c]
            BY <4>1, <5>2 DEF Grant, TypeOK
          <6>3. \A v \in PendingRelease(f)' : f \notin held'[job[v].client]
            BY SMTT(30), <4>1, <5>0, <5>2, <3>3 DEF Grant, TypeOK
          <6>4. \A v \in PendingRelease(f)' : v \in PendingRelease(f) /\ job'[v] = job[v]
            BY <3>1, <3>3
          <6>5. \A c \in Clients : HeldBy(f, c)' <=> HeldBy(f, c)
            BY <6>1
          <6>6. ASSUME NEW v \in PendingRelease(f)'
                PROVE  (/\ job[v].client \in Clients
                        /\ HeldBy(f, job[v].client) /\ f \notin held[job[v].client])'
            <7> DEFINE c == job[v].client
            <7>1. v \in PendingRelease(f) /\ job'[v] = job[v]
              BY <6>4
            <7>2. c \in Clients /\ HeldBy(f, c)
              BY <5>0, <7>1
            <7>3. /\ fileLockMap'[f].locked /\ fileLockMap'[f].clientHolder = c
                  /\ f \notin held'[c]
              BY <6>1, <6>3, <7>2
            <7> QED BY <7>1, <7>2, <7>3
          <6>7. \A u, v \in PendingRelease(f)' : u = v
            <7> HIDE DEF HeldBy, PendingRelease
            <7> QED BY <5>0, <6>4
          <6>8. \A c \in Clients : f \in held'[c] => HeldBy(f, c)'
            <7> HIDE DEF HeldBy, PendingRelease
            <7> QED BY <5>0, <6>2, <6>5
          <6>9. fileLockMap'[f].locked => fileLockMap'[f].present /\ ~fileLockMap'[f].elapsed
            BY <5>0, <6>1
          <6> HIDE DEF HeldBy, PendingRelease
          <6> QED BY Zenon, <5>0, <6>6, <6>7, <6>8, <6>9
        <5>3. CASE job[w].file = f /\ ~fileLockMap[f].locked
          <6>1. fileLockMap'[f] = Granted(job[w].client)
            BY <4>1, <5>3 DEF Grant, TypeOK
          <6>2. PendingRelease(f)' = {} /\ \A c \in Clients : f \notin held[c]
            BY <5>0, <5>3, <3>3
          <6>3. \A c \in Clients : f \in held'[c] => c = job[w].client
            BY <4>1, <5>3, <6>2 DEF Grant, TypeOK
          <6> QED BY SMTT(30), <5>0, <6>1, <6>2, <6>3 DEF Granted
        <5> QED BY <5>1, <5>2, <5>3
      <4>2. CASE ~Grant(w)
        BY <3>4, <3>7, <4>2 DEF AcquireLock, AcquireLockAgain
      <4> QED BY <4>1, <4>2
    <3>8. CASE ReleaseLock(w)
      <4>0. Agreement(f) /\ UNCHANGED <<held, expiredLocks, disturbed>>
        BY <2>0, <3>8 DEF ReleaseLock
      <4>1. CASE job[w].file # f
        <5>1. fileLockMap'[f] = fileLockMap[f]
          BY <3>8, <4>1 DEF ReleaseLock, TypeOK
        <5> QED BY <4>0, <5>1, <3>1, <3>3
      <4>2. CASE job[w].file = f
        <5>1. PendingRelease(f) = {w}
          BY <4>0, <4>2, <3>8 DEF ReleaseLock
        <5>2. \A c \in Clients : f \notin held[c]
          BY <4>0, <5>1
        <5>3. fileLockMap[f].locked /\ ~fileLockMap'[f].locked
          BY <4>0, <5>1, <4>2, <3>8 DEF ReleaseLock, TypeOK, LockEntry
        <5> QED BY <4>0, <5>1, <5>2, <5>3, <3>3
      <4> QED BY <4>1, <4>2
    <3>9. CASE InsertLock(w)
      <4>0. Agreement(f) /\ UNCHANGED <<held, expiredLocks, disturbed>>
        BY <2>0, <3>9 DEF InsertLock
      <4>1. \/ fileLockMap'[f] = fileLockMap[f]
            \/ ~fileLockMap[f].present /\ fileLockMap'[f] = NewFileLock
        BY <3>9 DEF InsertLock, TypeOK
      <4>2. CASE fileLockMap'[f] = fileLockMap[f]
        BY <4>0, <4>2, <3>1, <3>3
      <4>3. CASE ~fileLockMap[f].present /\ fileLockMap'[f] = NewFileLock
        BY SMTT(30), <4>0, <4>3, <3>1, <3>3 DEF NewFileLock
      <4> QED BY <4>1, <4>2, <4>3
    <3>10. CASE EraseLock(w)
      <4>1. Agreement(f) /\ job[w].file # f /\ UNCHANGED <<held, expiredLocks>>
        BY <2>0, <3>10 DEF EraseLock
      <4>2. fileLockMap'[f] = fileLockMap[f]
        BY <3>10, <4>1 DEF EraseLock, TypeOK
      <4> QED BY SMTT(30), <3>1, <3>3, <4>1, <4>2
    <3> QED
      BY <2>4, <3>5, <3>6, <3>7, <3>8, <3>9, <3>10 DEF WorkerStep
  <2>5. ASSUME NEW g \in Files, LeaseElapses(g)
        PROVE  Agreement(f)'
    BY <2>0, <2>5 DEF LeaseElapses, TypeOK
  <2>6. CASE Expire
    <3>1. CASE ExpiryScan
      BY SMTT(30), <2>0, <3>1 DEF ExpiryScan, TypeOK
    <3>2. ASSUME NEW p \in expiredLocks, ExpiryRelease(p)
          PROVE  Agreement(f)'
      BY <2>0, <3>2 DEF ExpiryRelease, TypeOK
    <3> QED BY <2>6, <3>1, <3>2 DEF Expire
  <2>7. CASE UNCHANGED vars
    BY SMTT(30), <2>0, <2>7 DEF vars
  <2> QED
    BY <2>1, <2>2, <2>3, <2>4, <2>5, <2>6, <2>7 DEF Next, ClientStep
<1> QED
  BY <1>1, <1>2, TypeCorrect, PTL DEF Spec

\* At most one client believes it holds a path whose leases never elapsed and
\* that was never deleted, whatever the interleaving of acquireLock,
\* releaseLock, insertLock, rebuilds and disconnections.
THEOREM LockMutualExclusion == Spec => []MutualExclusion
<1>1. LockInv => MutualExclusion
  BY SMTT(30) DEF LockInv, Agreement, HeldBy, MutualExclusion
<1> QED
  BY <1>1, LockInvariant, PTL
=============================================================================
