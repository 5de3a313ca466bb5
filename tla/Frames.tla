------------------------------- MODULE Frames -------------------------------
(***************************************************************************)
(* The bytes of one direction of a connection: what                        *)
(* SquidProtocolFormatter makes of a message, what FileTransfer adds to a  *)
(* push, and what the other end reads back out of the stream               *)
(* (squidProtocolFormatter.cpp, squidprotocol.cpp, filetransfer.cpp).      *)
(*                                                                         *)
(* A byte is a number and counts in base Base, 256 in the program.  A text *)
(* is a sequence of words, each taking one byte: the blanks between them   *)
(* are left out, so a path with a blank in it is a path of two words.      *)
(* A std::map is the sequence of its entries in key order.                 *)
(***************************************************************************)
EXTENDS Integers, SequencesExt

CONSTANTS Base,        \* how many values a byte has
          MaxFile,     \* FILETRANSFER_MAX_SIZE
          MaxPayload,  \* MAX_PAYLOAD_SIZE
          Messages,    \* the messages to send
          MaxMessages  \* bound: messages sent over the connection

ASSUME FramesAssumption ==
  /\ Base \in Nat /\ Base > 1 /\ Base % 2 = 0
  /\ {MaxFile, MaxPayload, MaxMessages} \subseteq Nat

VARIABLES
  wire,   \* the bytes written and not yet read
  open,   \* the connection is up
  alive,  \* SquidProtocol::alive_ of the receiver
  sent,   \* the messages written, oldest first
  got     \* what the receiver made of the messages it has read

frameVars == <<wire, open, alive, sent, got>>

Opcode == [
  CONNECT_SERVER |-> 1, IDENTIFY |-> 2, CLOSE |-> 3, HEARTBEAT |-> 4, SYNC_STATUS |-> 5,
  CREATE_FILE |-> 16, READ_FILE |-> 18, UPDATE_FILE |-> 19, DELETE_FILE |-> 20,
  ACQUIRE_LOCK |-> 32, RELEASE_LOCK |-> 33,
  PUSH_CREATE_FILE |-> 48, PUSH_UPDATE_FILE |-> 49, PUSH_DELETE_FILE |-> 50,
  STATE_SNAP |-> 64, STATE_DELTA |-> 65, LEADER_HB |-> 66, NACK_STALE_EPOCH |-> 67,
  RESPONSE |-> 255]

FieldID == [
  FILE_PATH |-> 1, FILE_VERSION |-> 2, NODE_TYPE |-> 3, PROCESS_NAME |-> 4, PORT |-> 5,
  ACK |-> 6, FILE_ENTRY |-> 16, VER_ENTRY |-> 17,
  EPOCH |-> 32, DELTA_OP |-> 33, DATANODE_NAME |-> 34, SNAP_ENTRY |-> 35]

Magic == <<83, 81>>
HeaderSize == 13

\* The words: a number stands for its digits, any other word for itself.
Numeral(w) == w \in -1 .. 99

-----------------------------------------------------------------------------
(* Numbers in bytes, most significant first. *)

PushU(n, width) == [i \in 1 .. width |-> (n \div Base ^ (width - i)) % Base]

ReadU(bytes) == FoldLeft(LAMBDA n, b : n * Base + b, 0, bytes)

\* Mutant of AsInt: the conversion is left out.
AsUnsigned(u) == u

\* static_cast<int> of a uint32_t.
AsInt(u) == IF u < Base ^ 4 \div 2 THEN u ELSE u - Base ^ 4

-----------------------------------------------------------------------------
(* Fields and frames. *)

FieldString(id, text) == [id |-> FieldID[id], value |-> text]

\* Mutant of FieldUint32: the upper half is lost.
FieldUint32Short(id, v) == [id |-> FieldID[id], value |-> PushU(v % Base ^ 2, 4)]

FieldUint32(id, v) == [id |-> FieldID[id], value |-> PushU(v, 4)]

FieldByte(id, b) == [id |-> FieldID[id], value |-> <<b>>]

FieldBool(id, v) == FieldByte(id, IF v THEN 1 ELSE 0)

\* A message of the formatter before it becomes bytes.
Fields(op, flags, fields) == [opcode |-> Opcode[op], flags |-> flags, fields |-> fields]

\* Mutant of TooBig: off by one in the number of fields.
TooBigByOne(f) == \/ Len(f.fields) > Base
                  \/ \E i \in DOMAIN f.fields : Len(f.fields[i].value) > Base ^ 2 - 1

\* buildFrame throws on these.
TooBig(f) == \/ Len(f.fields) > Base - 1
             \/ \E i \in DOMAIN f.fields : Len(f.fields[i].value) > Base ^ 2 - 1

BuildFrame(f) ==
  Magic \o <<f.opcode, f.flags, Len(f.fields) % Base>> \o PushU(0, 4) \o PushU(0, 4)
    \o FlattenSeq([i \in DOMAIN f.fields |->
         <<f.fields[i].id>> \o PushU(Len(f.fields[i].value), 2) \o f.fields[i].value])

\* stampSeq: bytes 5 to 8, counted from 0.
StampSeq(frame, seq) ==
  [i \in DOMAIN frame |-> IF i \in 6 .. 9 THEN PushU(seq, 4)[i - 5] ELSE frame[i]]

-----------------------------------------------------------------------------
(* What the formatter makes of each message.  A message is a record: op, and *)
(* for its kind path, version, epoch, files, nodes, ack, text or data.       *)

\* "dn1,dn2" is one word: 200 for the first set of names, and so on.
NodeLists == <<{101}, {102}, {101, 102}>>
JoinNames(nodes) == 200 + (CHOOSE i \in DOMAIN NodeLists : NodeLists[i] = nodes)
SplitNames(w) == IF w - 200 \in DOMAIN NodeLists THEN NodeLists[w - 200] ELSE {w}

\* An entry of the snapshot: "filePath version dn1,dn2".
SnapEntry(f) ==
  f.path \o <<f.version>> \o (IF f.nodes = {} THEN <<>> ELSE <<JoinNames(f.nodes)>>)

OnPath == {"READ_FILE", "DELETE_FILE", "ACQUIRE_LOCK", "RELEASE_LOCK", "PUSH_DELETE_FILE",
           "CREATE_FILE", "UPDATE_FILE", "PUSH_CREATE_FILE", "PUSH_UPDATE_FILE"}
Bare == {"IDENTIFY", "CLOSE", "CONNECT_SERVER", "HEARTBEAT", "SYNC_STATUS"}
EpochOnly == {"LEADER_HB", "NACK_STALE_EPOCH"}

\* Creates, updates, their pushes and some answers carry a version.
FileVersion(m) ==
  IF "version" \in DOMAIN m THEN <<FieldUint32("FILE_VERSION", m.version)>> ELSE <<>>

\* The answer to IDENTIFY.
Identity(m) == <<FieldString("NODE_TYPE", m.type), FieldString("PROCESS_NAME", m.name)>>

\* The fields of a version map: FILE_ENTRY and VER_ENTRY by turns.
VersionMapFields(files) ==
  FlattenSeq([i \in DOMAIN files |->
    <<FieldString("FILE_ENTRY", files[i].path), FieldUint32("VER_ENTRY", files[i].version)>>])

Format(m) ==
  CASE m.op \in Bare -> Fields(m.op, 0, <<>>)
    [] m.op \in OnPath ->
         Fields(m.op, 0, <<FieldString("FILE_PATH", m.path)>> \o FileVersion(m))
    [] m.op \in EpochOnly -> Fields(m.op, 0, <<FieldUint32("EPOCH", m.epoch)>>)
    [] m.op = "STATE_SNAP" ->
         Fields(m.op, 0, <<FieldUint32("EPOCH", m.epoch)>>
           \o [i \in DOMAIN m.files |-> FieldString("SNAP_ENTRY", SnapEntry(m.files[i]))])
    [] m.op = "STATE_DELTA" ->
         Fields(m.op, 0, <<FieldUint32("EPOCH", m.epoch), FieldByte("DELTA_OP", m.delta),
                           FieldString("FILE_PATH", m.path), FieldUint32("FILE_VERSION", m.version)>>
           \o [i \in DOMAIN m.nodes |-> FieldString("DATANODE_NAME", <<m.nodes[i]>>)])
    [] m.op = "ACK" -> Fields("RESPONSE", 1, <<FieldBool("ACK", m.ack)>> \o FileVersion(m))
    [] m.op = "IDENTITY" -> Fields("RESPONSE", 1, Identity(m))
    [] m.op = "VERSION_MAP" -> Fields("RESPONSE", 1, VersionMapFields(m.files))

Pushes == {"PUSH_CREATE_FILE", "PUSH_UPDATE_FILE"}

\* FileTransfer::sendFile: eight bytes of size, then the content.
SendFile(data) == IF Len(data) > MaxFile THEN <<>> ELSE PushU(Len(data), 8) \o data

\* sendFrame of the message, and sendFileData when it is a push.
Bytes(m, seq) == StampSeq(BuildFrame(Format(m)), seq)
                   \o (IF m.op \in Pushes THEN SendFile(m.data) ELSE <<>>)

-----------------------------------------------------------------------------
(* Reading the stream.  Short: the bytes end before what is read does.      *)

Short == -1
Bad == -2

\* The end of a field that begins after byte pos (the checks on truncation).
FieldEnd(bytes, pos) ==
  IF pos = Short \/ pos + 3 > Len(bytes) THEN Short
  ELSE LET end == pos + 3 + ReadU(SubSeq(bytes, pos + 2, pos + 3))
       IN IF end > Len(bytes) THEN Short ELSE end

\* Where each field begins, and where the last one ends.
FieldEnds(bytes) ==
  [n \in 0 .. bytes[5] |-> FoldLeft(LAMBDA pos, i : FieldEnd(bytes, pos), HeaderSize,
                                    [i \in 1 .. n |-> i])]

\* receiveFrame: how many bytes the frame takes.
ReceiveFrame(bytes) ==
  IF Len(bytes) < HeaderSize THEN Short
  ELSE IF SubSeq(bytes, 1, 2) # Magic THEN Bad
  ELSE LET end == FieldEnds(bytes)[bytes[5]]
           payloadLen == ReadU(SubSeq(bytes, 10, 13))
       IN IF end = Short THEN Short
          ELSE IF payloadLen > MaxPayload THEN Bad
          ELSE IF end + payloadLen > Len(bytes) THEN Short ELSE end + payloadLen

\* parseMessage of a frame that receiveFrame returned.
ParseMessage(frame) ==
  LET ends == FieldEnds(frame)
  IN [opcode |-> frame[3], flags |-> frame[4], seq |-> ReadU(SubSeq(frame, 6, 9)),
      fields |-> [i \in 1 .. frame[5] |->
                    [id |-> frame[ends[i - 1] + 1],
                     value |-> SubSeq(frame, ends[i - 1] + 4, ends[i])]]]

\* FileTransfer::receiveFile: how many bytes it takes, and the content.
ReceiveFile(bytes) ==
  IF Len(bytes) < 8 THEN [end |-> Short, data |-> <<>>]
  ELSE LET size == ReadU(SubSeq(bytes, 1, 8))
       IN IF size > MaxFile THEN [end |-> 8, data |-> <<>>]
          ELSE IF 8 + size > Len(bytes) THEN [end |-> Short, data |-> <<>>]
          ELSE [end |-> 8 + size, data |-> SubSeq(bytes, 9, 8 + size)]

-----------------------------------------------------------------------------
(* What the handlers read out of a message. *)

\* The values of the fields with this identifier, in order.
Values(msg, id) ==
  LET fields == SelectSeq(msg.fields, LAMBDA f : f.id = FieldID[id])
  IN [i \in DOMAIN fields |-> fields[i].value]

GetString(msg, id) == IF Values(msg, id) = <<>> THEN <<>> ELSE Head(Values(msg, id))

GetUint32(msg, id) ==
  IF Len(GetString(msg, id)) < 4 THEN 0 ELSE ReadU(SubSeq(GetString(msg, id), 1, 4))

GetByte(msg, id) == IF GetString(msg, id) = <<>> THEN 0 ELSE GetString(msg, id)[1]

\* The std::map that a sequence of assignments map[key] = value leaves.
MapOf(pairs) ==
  [k \in {pairs[i][1] : i \in DOMAIN pairs} |->
     pairs[Max({i \in DOMAIN pairs : pairs[i][1] = k})][2]]

GetFileVersionMap(msg) ==
  LET files == Values(msg, "FILE_ENTRY")
      versions == SelectSeq(Values(msg, "VER_ENTRY"), LAMBDA v : Len(v) >= 4)
  IN MapOf([i \in 1 .. Min({Len(files), Len(versions)}) |->
              <<files[i], AsInt(ReadU(SubSeq(versions[i], 1, 4)))>>])

\* parseSnapEntry: the first word, a number, and the list of names if any.
Parses(entry) == Len(entry) >= 2 /\ Numeral(entry[2])
ParseSnapEntry(entry) ==
  <<SubSeq(entry, 1, 1),
    [version |-> entry[2], nodes |-> IF Len(entry) > 2 THEN SplitNames(entry[3]) ELSE {}]>>

\* applySnap: the maps of the standby.
ApplySnap(msg) ==
  LET entries == SelectSeq(Values(msg, "SNAP_ENTRY"), Parses)
  IN MapOf([i \in DOMAIN entries |-> ParseSnapEntry(entries[i])])

\* Every accessor, as the handlers of the different messages use them.
Reading(msg, data) ==
  [opcode |-> msg.opcode, seq |-> msg.seq,
   path |-> GetString(msg, "FILE_PATH"),
   version |-> AsInt(GetUint32(msg, "FILE_VERSION")),
   epoch |-> GetUint32(msg, "EPOCH"),
   delta |-> GetByte(msg, "DELTA_OP"),
   isAck |-> msg.flags = 1 /\ GetByte(msg, "ACK") # 0,
   type |-> GetString(msg, "NODE_TYPE"),
   name |-> GetString(msg, "PROCESS_NAME"),
   holders |-> {v[1] : v \in Range(Values(msg, "DATANODE_NAME"))},
   files |-> GetFileVersionMap(msg),
   snap |-> ApplySnap(msg),
   data |-> data]

-----------------------------------------------------------------------------
(* The connection. *)

FramesInit == wire = <<>> /\ open = TRUE /\ alive = TRUE /\ sent = <<>> /\ got = <<>>

\* A message is formatted and written.  One that is too big is an exception in
\* the sender: no byte of it is written and no sequence number is used.
Send(m) ==
  /\ open /\ Len(sent) < MaxMessages
  /\ ~TooBig(Format(m))
  /\ wire' = wire \o Bytes(m, Len(sent))
  /\ sent' = Append(sent, m)
  /\ UNCHANGED <<open, alive, got>>

\* The connection is lost, and with it any number of the last bytes.
Break ==
  /\ open
  /\ open' = FALSE
  /\ \E n \in 0 .. Len(wire) : wire' = SubSeq(wire, 1, n)
  /\ UNCHANGED <<alive, sent, got>>

\* The bytes after the first n.
After(n) == SubSeq(wire, n + 1, Len(wire))

\* receiveAndParse, and receiveFileData when it is a push (handlePush): the
\* handler runs whether or not the file came through.
Receive ==
  LET n == ReceiveFrame(wire)
      msg == ParseMessage(SubSeq(wire, 1, n))
      file == ReceiveFile(After(n))
  IN /\ alive /\ n > 0
     /\ IF msg.opcode \notin {Opcode[op] : op \in Pushes}
        THEN got' = Append(got, Reading(msg, <<>>)) /\ wire' = After(n)
        ELSE /\ file.end = Short => ~open
             /\ got' = Append(got, Reading(msg, file.data))
             /\ wire' = IF file.end = Short THEN <<>> ELSE After(n + file.end)
     /\ UNCHANGED <<open, alive, sent>>

\* recvExact meets the end of the stream, or the frame is refused.
ReceiveFails ==
  /\ alive
  /\ \/ ReceiveFrame(wire) = Short /\ ~open
     \/ ReceiveFrame(wire) = Bad
  /\ alive' = FALSE
  /\ wire' = <<>>
  /\ UNCHANGED <<open, sent, got>>

FramesNext == (\E m \in Messages : Send(m)) \/ Break \/ Receive \/ ReceiveFails

FramesSpec == FramesInit /\ [][FramesNext]_frameVars

-----------------------------------------------------------------------------
(* Properties. *)

\* The type invariant: what is written are bytes or words, and every version
\* that is read is an int.
FramesTypeOK ==
  LET Ints == -(Base ^ 4 \div 2) .. Base ^ 4 \div 2 - 1
  IN /\ Range(wire) \subseteq -1 .. 255 /\ {open, alive} \subseteq BOOLEAN
     /\ Range(sent) \subseteq Messages
     /\ \A i \in DOMAIN got : /\ got[i].version \in Ints /\ got[i].epoch \in 0 .. Base ^ 4 - 1
                              /\ Range(got[i].files) \subseteq Ints

\* The reader stays in step with the writer: it has read the first messages
\* sent, with their sequence numbers, what is left on the stream begins with
\* the next message and ends where the connection was cut, it waits for no
\* more bytes than were sent, and it gives the stream up only when the
\* connection is lost (buildFrame, stampSeq and sendFile against receiveFrame
\* and receiveFile).
ReaderInStep ==
  LET rest == FlattenSeq([i \in 1 .. Len(sent) - Len(got) |->
                           Bytes(sent[Len(got) + i], Len(got) + i - 1)])
  IN /\ Len(got) <= Len(sent)
     /\ \A i \in DOMAIN got : got[i].seq = i - 1 /\ got[i].opcode = Format(sent[i]).opcode
     /\ open => alive /\ wire = rest /\ (rest # <<>> => ReceiveFrame(wire) > 0)
     /\ alive => IsPrefix(wire, rest)

Nothing == <<>>

\* What the sender meant.
Meaning(m) ==
  LET Of(k, default) == IF k \in DOMAIN m THEN m[k] ELSE default
  IN [path |-> Of("path", <<>>), version |-> Of("version", 0), epoch |-> Of("epoch", 0),
      delta |-> Of("delta", 0), isAck |-> Of("ack", FALSE),
      type |-> Of("type", <<>>), name |-> Of("name", <<>>),
      holders |-> Range(Of("nodes", <<>>)), data |-> Of("data", <<>>)]

\* The files whose snapshot entries another entry can be taken for.
Shadowed(files, f) == \E g \in Range(files) \ {f} : Len(g.path) > 1 /\ g.path[1] = f.path[1]

\* What the handlers read is what was sent: the texts, numbers and flags of
\* every message, the listing of VERSION_MAP whatever the paths are, and of a
\* snapshot every file whose path has no blank, unless the path of another
\* file begins with the same word.  The content of a pushed file is whole,
\* or missing when the connection was lost under it.
SaysTheSame ==
  \A i \in DOMAIN got :
    LET m == sent[i] r == got[i] said == Meaning(m)
    IN /\ \A k \in DOMAIN said \ {"data"} : r[k] = said[k]
       /\ r.data = said.data \/ (r.data = Nothing /\ ~open /\ i = Len(got))
       /\ m.op = "VERSION_MAP" =>
            r.files = MapOf([j \in DOMAIN m.files |-> <<m.files[j].path, m.files[j].version>>])
       /\ m.op = "STATE_SNAP" =>
            \A f \in Range(m.files) :
              Len(f.path) = 1 /\ ~Shadowed(m.files, f) =>
                /\ f.path \in DOMAIN r.snap
                /\ r.snap[f.path] = [version |-> f.version, nodes |-> f.nodes]

\* README, on STATE_SNAP: it contains "every known file path, version, and
\* the set of datanodes holding each file".  It does not hold: a path with a
\* blank in it is read as its first word (parseSnapEntry).
SnapshotIsFull ==
  \A i \in DOMAIN got :
    sent[i].op = "STATE_SNAP" =>
      got[i].snap = MapOf([j \in DOMAIN sent[i].files |->
                            LET f == sent[i].files[j]
                            IN <<f.path, [version |-> f.version, nodes |-> f.nodes]>>])

\* A push carries the file.  It does not hold: handlePush hands an empty
\* content to the cache when the connection is lost under the file.
PushesAreWhole ==
  \A i \in DOMAIN got : sent[i].op \in Pushes => got[i].data = sent[i].data
=============================================================================
