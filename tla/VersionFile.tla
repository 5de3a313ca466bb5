---------------------------- MODULE VersionFile ----------------------------
(***************************************************************************)
(* .squid/fileVersions.txt, the file that remembers the versions of all    *)
(* files of a process, and the two classes that read and write it:         *)
(* FileManager edits it in place, line by line; StateManager, in the       *)
(* server only, replaces it by a file of its own (filemanager.cpp,         *)
(* state_manager.hpp).  A datanode has the FileManager alone.              *)
(*                                                                         *)
(* A line is a sequence of words, its path and its version: a path with a  *)
(* blank in it has two words (see Frames).  A rename moves an inode, and a *)
(* stream that is open on an inode keeps writing to it.                    *)
(***************************************************************************)
EXTENDS Integers, SequencesExt

CONSTANTS
  PathOrder,    \* the paths, in the order of std::map
  Threads,      \* the threads that commit and persist
  MaxJobs,      \* bound: operations
  MaxRestarts   \* bound: crashes survived

ASSUME VersionFileAssumption == {MaxJobs, MaxRestarts} \subseteq Nat

VARIABLES
  role,      \* "server" or "datanode"
  memory,    \* persistedVersionMap_; in a datanode, the versions last set
  stored,    \* the files in the storage root of a datanode
  content,   \* the lines of each inode
  dst, tmp,  \* the inodes fileVersions.txt and fileVersions.txt.tmp name
  job,       \* what each thread is doing
  mutex,     \* the thread inside FileManager::mutex_, or NoThread
  up,        \* the process runs
  harm,      \* history: what happened that the file is not safe against
  jobs, restarts

fileVars == <<role, memory, stored, content, dst, tmp, job, mutex, up, harm, jobs, restarts>>

Paths == Range(PathOrder)
NoThread == "none"
NoFile == 0
Inodes == 1 .. 2 + 2 * Cardinality(Threads)
Absent == -1
Resting == [at |-> "idle", op |-> "none", path |-> <<>>, version |-> 0, out |-> NoFile, lines |-> <<>>]

\* Words: a number stands for its digits, 150 for a word that begins with #,
\* 160 for a name inside a directory.
Number(w) == w \in -1 .. 99
Commented(p) == p[1] = 150
Nested(p) == p[1] = 160
Blank(p) == Len(p) > 1

-----------------------------------------------------------------------------
(* FileManager on the lines of the file: istringstream >> path >> version. *)

Reads(line) == Len(line) >= 2 /\ Number(line[2])
PathOf(line) == SubSeq(line, 1, 1)

\* The position of the first line of path p, or 0.
Find(lines, p) ==
  LET at == {i \in DOMAIN lines : Reads(lines[i]) /\ PathOf(lines[i]) = p}
  IN IF at = {} THEN 0 ELSE Min(at)

GetFileVersion(lines, p) == IF Find(lines, p) = 0 THEN Absent ELSE lines[Find(lines, p)][2]

\* Mutant of SetFileVersion: a known path gets a second line.
SetFileVersionAppend(lines, p, v) == Append(SelectSeq(lines, Reads), p \o <<v>>)

\* Mutant of SetFileVersion: the lines of other paths are not kept.
SetFileVersionAlone(lines, p, v) == <<p \o <<v>>>>

\* Lines that do not read as a path and a version are dropped.
SetFileVersion(lines, p, v) ==
  LET kept == SelectSeq(lines, Reads)
      new == [i \in DOMAIN kept |-> IF PathOf(kept[i]) = p THEN p \o <<v>> ELSE kept[i]]
  IN IF Find(kept, p) = 0 THEN Append(new, p \o <<v>>) ELSE new

\* The lines deleteFileAndVersion writes back.
WithoutVersion(lines, p) == SelectSeq(lines, LAMBDA l : Reads(l) /\ PathOf(l) # p)

\* getFileVersionMap: the regular files right under the root, 0 if unlisted;
\* of several lines for a path the last one counts.
ListVersions(lines) ==
  [p \in {q \in stored : ~Nested(q)} |->
     LET at == {i \in DOMAIN lines : Reads(lines[i]) /\ PathOf(lines[i]) = p}
     IN IF at = {} THEN 0 ELSE lines[Max(at)][2]]

(* StateManager: the version is what follows the last blank. *)

Loads(line, p) == ~Commented(line) /\ Len(line) >= 2 /\ Number(Last(line)) /\ Front(line) = p

LoadVersionMap(lines) ==
  [p \in Paths |-> LET at == {i \in DOMAIN lines : Loads(lines[i], p)}
                   IN IF at = {} THEN Absent ELSE Last(lines[Max(at)])]

\* The lines of saveVersionMap.
VersionLines(map) ==
  LET known == SelectSeq(PathOrder, LAMBDA p : map[p] # Absent)
  IN [i \in DOMAIN known |-> known[i] \o <<map[known[i]]>>]

-----------------------------------------------------------------------------
(* The operations. *)

FileInit ==
  /\ role \in {"server", "datanode"}
  /\ memory = [p \in Paths |-> Absent] /\ stored = {}
  /\ content = [i \in Inodes |-> <<>>] /\ dst = 1 /\ tmp = NoFile
  /\ job = [t \in Threads |-> Resting] /\ mutex = NoThread
  /\ up = TRUE /\ harm = {} /\ jobs = 0 /\ restarts = 0

Busy(t) == job[t].at # "idle"
At(t, at) == up /\ job[t].at = at
Step(t, j) == job' = [job EXCEPT ![t] = j]

\* A thread begins to commit or to delete a path, or (heartbeat thread, after a
\* datanode is gone) only to persist.  A datanode serves one request at a time,
\* and has received the file, or removed it, before it touches the versions.
Begin(t, op, p) ==
  /\ up /\ ~Busy(t) /\ jobs < MaxJobs /\ jobs' = jobs + 1
  /\ role = "datanode" => op # "persist" /\ \A u \in Threads : ~Busy(u)
  /\ op = "delete" => IF role = "server" THEN memory[p] # Absent ELSE p \in stored
  /\ LET v == IF op = "put" THEN memory[p] + 1 ELSE Absent
     IN /\ memory' = IF op = "persist" THEN memory ELSE [memory EXCEPT ![p] = v]
        /\ Step(t, [Resting EXCEPT !.op = op, !.path = p, !.version = v,
                      !.at = IF role = "server" /\ op # "put" THEN "open" ELSE "read"])
  /\ stored' = IF role = "server" THEN stored
               ELSE IF op = "put" THEN stored \cup {p} ELSE stored \ {p}
  /\ harm' = IF \E u \in Threads : Busy(u) THEN harm \cup {"overlap"} ELSE harm
  /\ UNCHANGED <<role, content, dst, tmp, mutex, up, restarts>>

\* setFileVersion and deleteFileAndVersion, inside FileManager::mutex_: the
\* lines are read, ...
EditRead(t) ==
  /\ At(t, "read") /\ mutex = NoThread
  /\ mutex' = t
  /\ Step(t, [job[t] EXCEPT !.at = "truncate", !.lines =
                IF job[t].op = "put"
                THEN SetFileVersion(content[dst], job[t].path, job[t].version)
                ELSE WithoutVersion(content[dst], job[t].path)])
  /\ UNCHANGED <<role, memory, stored, content, dst, tmp, up, harm, jobs, restarts>>

\* ... the file is opened anew, which empties it, ...
EditTruncate(t) ==
  /\ At(t, "truncate")
  /\ content' = [content EXCEPT ![dst] = <<>>]
  /\ Step(t, [job[t] EXCEPT !.at = "write", !.out = dst])
  /\ UNCHANGED <<role, memory, stored, dst, tmp, mutex, up, harm, jobs, restarts>>

\* ... and the new lines are written, one at a time.
EditWrite(t) ==
  /\ At(t, "write")
  /\ content' = [content EXCEPT ![job[t].out] = job[t].lines]
  /\ mutex' = NoThread
  /\ Step(t, IF role = "server" THEN [job[t] EXCEPT !.at = "open", !.out = NoFile, !.lines = <<>>]
             ELSE Resting)
  /\ UNCHANGED <<role, memory, stored, dst, tmp, up, harm, jobs, restarts>>

\* atomicWrite, which persistState calls without a lock: the temporary file is
\* created or emptied, ...
SaveOpen(t) ==
  LET free == Inodes \ ({dst, tmp} \cup {job[u].out : u \in Threads})
      i == IF tmp = NoFile THEN Min(free) ELSE tmp
  IN /\ At(t, "open")
     /\ tmp' = i
     /\ content' = [content EXCEPT ![i] = <<>>]
     /\ Step(t, [job[t] EXCEPT !.at = "fill", !.out = i])
     /\ UNCHANGED <<role, memory, stored, dst, mutex, up, harm, jobs, restarts>>

\* ... the map is written over what is there, ...
SaveFill(t) ==
  LET lines == VersionLines(memory)
      old == content[job[t].out]
  IN /\ At(t, "fill")
     /\ content' = [content EXCEPT ![job[t].out] = lines \o SubSeq(old, Len(lines) + 1, Len(old))]
     /\ Step(t, [job[t] EXCEPT !.at = "rename"])
     /\ UNCHANGED <<role, memory, stored, dst, tmp, mutex, up, harm, jobs, restarts>>

\* ... and whatever has the temporary name takes the place of the file; if
\* another thread was faster the exception is caught.
SaveRename(t) ==
  /\ At(t, "rename")
  /\ dst' = IF tmp = NoFile THEN dst ELSE tmp
  /\ tmp' = NoFile
  /\ Step(t, Resting)
  /\ UNCHANGED <<role, memory, stored, content, mutex, up, harm, jobs, restarts>>

\* The process dies.  A file that is being rewritten has some of its lines.
Crash ==
  /\ up /\ restarts < MaxRestarts
  /\ up' = FALSE
  /\ \/ /\ \A t \in Threads : job[t].at # "write"
        /\ UNCHANGED <<content, harm>>
     \/ \E t \in Threads : \E n \in 0 .. Len(job[t].lines) :
          /\ job[t].at = "write"
          /\ content' = [content EXCEPT ![job[t].out] = SubSeq(job[t].lines, 1, n)]
          /\ harm' = harm \cup {"torn"}
  /\ UNCHANGED <<role, memory, stored, dst, tmp, job, mutex, jobs, restarts>>

\* It starts again: the constructor of ReplicationManager loads the map.  For a
\* datanode, what it had not finished to set was not set.
Restart ==
  /\ ~up
  /\ up' = TRUE /\ restarts' = restarts + 1
  /\ memory' = IF role = "server" THEN LoadVersionMap(content[dst])
               ELSE [p \in Paths |-> IF \E t \in Threads : job[t].path = p
                                     THEN GetFileVersion(content[dst], p) ELSE memory[p]]
  /\ harm' = IF role = "server" THEN {} ELSE harm
  /\ job' = [t \in Threads |-> Resting] /\ mutex' = NoThread
  /\ UNCHANGED <<role, stored, content, dst, tmp, jobs>>

FileNext ==
  \/ \E t \in Threads :
       \/ \E p \in Paths : Begin(t, "put", p) \/ Begin(t, "delete", p)
       \/ Begin(t, "persist", <<>>)
       \/ EditRead(t) \/ EditTruncate(t) \/ EditWrite(t)
       \/ SaveOpen(t) \/ SaveFill(t) \/ SaveRename(t)
  \/ Crash \/ Restart

FileSpec == FileInit /\ [][FileNext]_fileVars

-----------------------------------------------------------------------------
(* Properties. *)

\* The type invariant.
FileTypeOK ==
  /\ role \in {"server", "datanode"} /\ up \in BOOLEAN
  /\ DOMAIN memory = Paths /\ \A p \in Paths : Number(memory[p])
  /\ stored \subseteq Paths
  /\ DOMAIN content = Inodes /\ dst \in Inodes /\ tmp \in Inodes \cup {NoFile}
  /\ \A i \in Inodes : \A n \in DOMAIN content[i] : Number(Last(content[i][n]))
  /\ \A t \in Threads : job[t].at \in {"idle", "read", "truncate", "write", "open", "fill", "rename"}
  /\ mutex \in Threads \cup {NoThread} /\ harm \subseteq {"overlap", "torn"}
  /\ jobs \in 0 .. MaxJobs /\ restarts \in 0 .. MaxRestarts

Settled == \A t \in Threads : ~Busy(t)

\* A line of another path begins with this path and a blank.
Shadows(p) == \E i \in DOMAIN content[dst] : Len(content[dst][i]) > 2 /\ content[dst][i][1] = p[1]

Plain(p) == ~Blank(p) /\ ~Commented(p) /\ ~Shadows(p)

\* When no operation is under way the file gives back what was last set.  In
\* the server: to the next start (loadVersionMap) and to FileManager, which
\* labels the copies of a rebalance (getFileVersion).  In a datanode: to the
\* answers to READ_FILE (getFileVersion) and SYNC_STATUS (getFileVersionMap,
\* which does not look into directories).  FileManager needs a path without a
\* blank, a path that begins with # is never loaded, no two threads may have
\* been in persistState or setFileVersion at once, and no crash may have torn
\* the file.
FileMatchesMemory ==
  up /\ Settled /\ harm = {} =>
    \A p \in Paths :
      /\ role = "server" =>
           /\ ~Commented(p) => LoadVersionMap(content[dst])[p] = memory[p]
           /\ Plain(p) => GetFileVersion(content[dst], p) = memory[p]
      /\ role = "datanode" /\ p \in stored /\ Plain(p) =>
           /\ GetFileVersion(content[dst], p) = memory[p]
           /\ ~Nested(p) => ListVersions(content[dst])[p] = Max({0, memory[p]})

\* A crash of the server loses the version of no path that was not being
\* written, unless it comes while setFileVersion rewrites the file; a path with
\* a blank may also be lost until the operation of another path has saved the
\* map, because setFileVersion drops its line.
CrashKeepsVersions ==
  ~up /\ role = "server" /\ harm = {} =>
    \A p \in Paths :
      \/ Commented(p) \/ \E t \in Threads : job[t].path = p
      \/ Blank(p) /\ \E t \in Threads : job[t].op = "put" /\ job[t].at \in {"open", "fill", "rename"}
      \/ LoadVersionMap(content[dst])[p] = memory[p]

\* state_manager.hpp: "All writes use an atomic rename(tmp, dst) to avoid
\* partial state."  It does not hold: FileManager rewrites the same file in
\* place, and two threads share the temporary name.
NoPartialState ==
  ~up /\ role = "server" =>
    \A p \in Paths : \/ Blank(p) \/ Commented(p) \/ \E t \in Threads : job[t].path = p
                     \/ LoadVersionMap(content[dst])[p] = memory[p]
=============================================================================
