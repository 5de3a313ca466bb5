---------------------------- MODULE SyncPlanner ----------------------------
(***************************************************************************)
(* planSync (syncplanner.hpp): the operations that bring two version maps  *)
(* together.  Its two loops are actions, one step per entry; the operations*)
(* are about different files, so their order is left out.  A std::map is a *)
(* function, and of the copy the code makes of remoteMap only the keys     *)
(* still in it change.                                                     *)
(***************************************************************************)
EXTENDS Integers

CONSTANTS Files,      \* the file paths
          MaxVersion  \* bound: versions in the maps

ASSUME PlannerAssumption == MaxVersion \in Nat

VARIABLES
  localMap, remoteMap,  \* the arguments
  remote,               \* the keys left in the copy of remoteMap
  todo,                 \* the entries the running loop has still to visit
  ops,                  \* the operations planned so far
  loop                  \* "idle", "local", "remote" or "done"

planVars == <<localMap, remoteMap, remote, todo, ops, loop>>

SyncActions == {"UPLOAD", "DOWNLOAD", "CREATE_REMOTE"}
SyncOps == [action : SyncActions, filePath : Files, version : 0 .. MaxVersion]
SyncOp(action, file, version) == [action |-> action, filePath |-> file, version |-> version]

VersionMaps == UNION {[S -> 0 .. MaxVersion] : S \in SUBSET Files}

PlannerInit ==
  /\ localMap = [f \in {} |-> 0] /\ remoteMap = [f \in {} |-> 0]
  /\ remote = {} /\ todo = {} /\ ops = {} /\ loop = "idle"

PlanSync(l, r) ==
  /\ loop = "idle"
  /\ localMap' = l /\ remoteMap' = r
  /\ remote' = DOMAIN r /\ todo' = DOMAIN l /\ loop' = "local"
  /\ UNCHANGED ops

\* The comparison of a file that is in both maps.
Compared(f) ==
  IF localMap[f] > remoteMap[f] THEN {SyncOp("UPLOAD", f, localMap[f])}
  ELSE IF localMap[f] < remoteMap[f] THEN {SyncOp("DOWNLOAD", f, remoteMap[f])}
  ELSE {}

\* Mutant of LocalEntry: the entry is not erased from the copy.
LocalEntryKept(f) ==
  /\ loop = "local" /\ f \in todo
  /\ ops' = ops \cup (IF f \in remote THEN Compared(f)
                      ELSE {SyncOp("CREATE_REMOTE", f, localMap[f])})
  /\ todo' = todo \ {f}
  /\ UNCHANGED <<localMap, remoteMap, remote, loop>>

\* The first loop, over the local map.
LocalEntry(f) ==
  /\ loop = "local" /\ f \in todo
  /\ \/ f \in remote /\ ops' = ops \cup Compared(f)
     \/ f \notin remote /\ ops' = ops \cup {SyncOp("CREATE_REMOTE", f, localMap[f])}
  /\ remote' = remote \ {f}
  /\ todo' = todo \ {f}
  /\ UNCHANGED <<localMap, remoteMap, loop>>

LocalDone ==
  /\ loop = "local" /\ todo = {}
  /\ loop' = "remote" /\ todo' = remote
  /\ UNCHANGED <<localMap, remoteMap, remote, ops>>

\* The second loop, over what is left of the remote map.
RemoteEntry(f) ==
  /\ loop = "remote" /\ f \in todo
  /\ ops' = ops \cup {SyncOp("DOWNLOAD", f, remoteMap[f])}
  /\ todo' = todo \ {f}
  /\ UNCHANGED <<localMap, remoteMap, remote, loop>>

Return ==
  /\ loop = "remote" /\ todo = {}
  /\ loop' = "done"
  /\ UNCHANGED <<localMap, remoteMap, remote, todo, ops>>

PlannerNext ==
  \/ \E l, r \in VersionMaps : PlanSync(l, r)
  \/ \E f \in Files : LocalEntry(f) \/ RemoteEntry(f)
  \/ LocalDone \/ Return

PlannerSpec == PlannerInit /\ [][PlannerNext]_planVars

-----------------------------------------------------------------------------
(* Properties. *)

\* The type invariant.
PlannerTypeOK ==
  /\ localMap \in VersionMaps /\ remoteMap \in VersionMaps
  /\ remote \subseteq Files /\ todo \subseteq Files
  /\ ops \subseteq SyncOps
  /\ loop \in {"idle", "local", "remote", "done"}

Planned(f, actions) == \E o \in ops : o.filePath = f /\ o.action \in actions

\* What the operation of a file must be: the table in README.md, "File
\* Synchronisation".
Due(o) ==
  LET f == o.filePath
  IN \/ /\ f \in DOMAIN localMap \cap DOMAIN remoteMap /\ localMap[f] > remoteMap[f]
        /\ o.action = "UPLOAD" /\ o.version = localMap[f]
     \/ /\ f \in DOMAIN localMap \cap DOMAIN remoteMap /\ localMap[f] < remoteMap[f]
        /\ o.action = "DOWNLOAD" /\ o.version = remoteMap[f]
     \/ /\ f \in DOMAIN localMap \ DOMAIN remoteMap
        /\ o.action = "CREATE_REMOTE" /\ o.version = localMap[f]
     \/ /\ f \in DOMAIN remoteMap \ DOMAIN localMap
        /\ o.action = "DOWNLOAD" /\ o.version = remoteMap[f]

\* The plan when the loops have visited the files of S.
PlannedFor(S) == \A o \in SyncOps : o \in ops <=> o.filePath \in S /\ Due(o)

\* The inductive invariant of the two loops.
PlannerInv ==
  /\ loop \in {"idle", "done"} => todo = {}
  /\ loop = "idle" => ops = {} /\ DOMAIN localMap = {} /\ DOMAIN remoteMap = {}
  /\ loop = "local" => /\ todo \subseteq DOMAIN localMap
                       /\ remote = DOMAIN remoteMap \ (DOMAIN localMap \ todo)
                       /\ PlannedFor(DOMAIN localMap \ todo)
  /\ loop \in {"remote", "done"} =>
       /\ todo \subseteq DOMAIN remoteMap \ DOMAIN localMap
       /\ PlannedFor((DOMAIN localMap \cup DOMAIN remoteMap) \ todo)

\* planSync brings the two sides together: every file gets at most one
\* operation, and when uploads and creations have given the remote side the
\* local version, and downloads the local side the remote one, both have the
\* file in its newest version, and it is the version the operation names.
PlanReconciles ==
  loop = "done" =>
    \A f \in DOMAIN localMap \cup DOMAIN remoteMap :
      /\ \A o1, o2 \in ops : o1.filePath = f /\ o2.filePath = f => o1 = o2
      /\ ~Planned(f, SyncActions) => /\ f \in DOMAIN localMap \cap DOMAIN remoteMap
                                     /\ localMap[f] = remoteMap[f]
      /\ \A o \in ops : o.filePath = f =>
           IF o.action = "DOWNLOAD"
           THEN /\ f \in DOMAIN remoteMap /\ o.version = remoteMap[f]
                /\ f \in DOMAIN localMap => localMap[f] < remoteMap[f]
           ELSE /\ f \in DOMAIN localMap /\ o.version = localMap[f]
                /\ f \in DOMAIN remoteMap => remoteMap[f] < localMap[f]
=============================================================================
