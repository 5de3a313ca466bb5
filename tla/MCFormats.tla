----------------------------- MODULE MCFormats -----------------------------
(***************************************************************************)
(* One run for the parts of the program that turn state into bytes and     *)
(* lines and back, and compare the result: the frames of a connection, the *)
(* version file, and the plan made of two version maps.  They share no     *)
(* state; part says which of them a behaviour is about.                    *)
(***************************************************************************)
EXTENDS Frames, VersionFile, SyncPlanner

VARIABLE part

vars == <<part, frameVars, fileVars, planVars>>

\* The messages, with Base = 6: numbers of one, two and three digits, texts of
\* up to and over the 35 bytes a field can have, listings of up to and over
\* the five fields a frame can have, paths with a blank (two words), and file
\* contents that begin like a frame.
File(p, v, n) == [path |-> p, version |-> v, nodes |-> n]
Long(n) == [i \in 1 .. n |-> 101]
F1 == File(<<101>>, 0, {101})
F2 == File(<<101, 7>>, 40, {101, 102})
F3 == File(<<101, 102>>, 1, {})
F4 == File(<<102>>, 39, {101, 102})
F5 == File(<<103>>, 2, {})

MCMessages ==
  {[op |-> "CLOSE"], [op |-> "DELETE_FILE", path |-> F2.path], [op |-> "LEADER_HB", epoch |-> 37],
   [op |-> "ACK", ack |-> TRUE, version |-> -1], [op |-> "ACK", ack |-> FALSE],
   [op |-> "IDENTITY", type |-> <<101>>, name |-> <<102, 103>>]}
  \cup {[op |-> "UPDATE_FILE", path |-> Long(n), version |-> 38] : n \in {0, 1, 35, 36}}
  \cup {[op |-> "PUSH_UPDATE_FILE", path |-> F1.path, version |-> 1, data |-> d] :
          d \in {<<>>, <<83>>, <<83, 81, 3>>}}
  \cup {[op |-> "STATE_DELTA", epoch |-> 1, delta |-> 1, path |-> F1.path, version |-> 0, nodes |-> n] :
          n \in {<<>>, <<101>>, <<101, 102>>}}
  \cup {[op |-> "VERSION_MAP", files |-> f] : f \in {<<>>, <<F2>>, <<F1, F2>>, <<F1, F2, F4>>}}
  \cup {[op |-> "STATE_SNAP", epoch |-> 2, files |-> f] :
          f \in {<<>>, <<F1>>, <<F1, F2>>, <<F3, F4>>, <<F1, F3, F4, F5>>, <<F1, F2, F3, F4, F5>>}}

\* The paths of the version file: one that begins with #, one plain, two with a
\* blank (one of them like a line of the plain one), one inside a directory.
MCPathOrder == <<<<150>>, <<101>>, <<101, 7>>, <<101, 102>>, <<160>>>>

Init ==
  /\ part \in {"frames", "versions", "plan"}
  /\ FramesInit /\ FileInit /\ PlannerInit
  /\ part # "versions" => role = "server"

Next ==
  \/ part = "frames" /\ FramesNext /\ UNCHANGED <<part, fileVars, planVars>>
  \/ part = "versions" /\ FileNext /\ UNCHANGED <<part, frameVars, planVars>>
  \/ part = "plan" /\ PlannerNext /\ UNCHANGED <<part, frameVars, fileVars>>

Spec == Init /\ [][Next]_vars

\* The type invariant: messages, lines and plans are made of the bytes, words,
\* versions and operations the code handles.
TypeOK == FramesTypeOK /\ FileTypeOK /\ PlannerTypeOK
=============================================================================
