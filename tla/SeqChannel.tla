----------------------------- MODULE SeqChannel -----------------------------
(***************************************************************************)
(* One direction of a connection between two SquidProtocol objects         *)
(* (squidprotocol.cpp): sendFrame stamps every frame with a sequence       *)
(* number, receiveAndParse buffers early frames, drops late ones and       *)
(* returns messages in sequence order.                                     *)
(*                                                                         *)
(* A frame is named by its position in the order of sending.  Two wires    *)
(* are modelled: the TCP stream the program uses, and one that may reorder *)
(* and repeat frames, which is what the reorder buffer is written for.     *)
(***************************************************************************)
EXTENDS Naturals, Sequences

CONSTANTS SeqMod,   \* sequence numbers are uint32_t: SeqMod stands for 2^32
          MaxSent   \* bound: messages sent over one connection

ASSUME SeqAssumption == SeqMod \in Nat \ {0} /\ MaxSent \in Nat

VARIABLES
  wire,             \* what carries the frames
  nextSendSeq,      \* SquidProtocol::nextSendSeq_ of the sender
  seqOf,            \* the sequence number stamped on each frame sent
  read,             \* the frames the wire has handed over, once or more
  expectedRecvSeq,  \* SquidProtocol::expectedRecvSeq_ of the receiver
  reorderBuffer,    \* SquidProtocol::reorderBuffer_: seq -> frame, 0 if absent
  delivered         \* the messages receiveAndParse has returned

channelVars == <<wire, nextSendSeq, seqOf, read, expectedRecvSeq, reorderBuffer, delivered>>

Seqs == 0 .. SeqMod - 1

Stream == wire = "stream"

\* The type invariant.
ChannelTypeOK ==
  /\ wire \in {"stream", "packets"}
  /\ nextSendSeq \in Seqs
  /\ seqOf \in Seq(Seqs) /\ Len(seqOf) <= MaxSent
  /\ read \subseteq 1 .. Len(seqOf)
  /\ expectedRecvSeq \in Seqs
  /\ reorderBuffer \in [Seqs -> 0 .. MaxSent]
  /\ delivered \in Seq(1 .. MaxSent)

ChannelInit ==
  /\ wire \in {"stream", "packets"}
  /\ nextSendSeq = 0
  /\ seqOf = <<>>
  /\ read = {}
  /\ expectedRecvSeq = 0
  /\ reorderBuffer = [s \in Seqs |-> 0]
  /\ delivered = <<>>

\* ++ on a uint32_t.
Incremented(s) == (s + 1) % SeqMod

\* sendFrame.  The numbers wrap around only on the stream.
SendFrame ==
  /\ Len(seqOf) < MaxSent /\ (Stream \/ Len(seqOf) + 1 < SeqMod)
  /\ seqOf' = Append(seqOf, nextSendSeq)
  /\ nextSendSeq' = Incremented(nextSendSeq)
  /\ UNCHANGED <<wire, read, expectedRecvSeq, reorderBuffer, delivered>>

\* Mutant of ReturnMessage: the counter does not wrap around.
ReturnMessageWide(i) ==
  /\ delivered' = Append(delivered, i)
  /\ expectedRecvSeq' = expectedRecvSeq + 1

\* The in-order case of receiveAndParse.
ReturnMessage(i) ==
  /\ delivered' = Append(delivered, i)
  /\ expectedRecvSeq' = Incremented(expectedRecvSeq)

\* Mutant of PopNextBuffered: the frame is returned and stays in the buffer.
PopNextBufferedKeep ==
  /\ reorderBuffer[expectedRecvSeq] # 0
  /\ ReturnMessage(reorderBuffer[expectedRecvSeq])
  /\ UNCHANGED <<wire, nextSendSeq, seqOf, read, reorderBuffer>>

\* receiveAndParse when the expected frame is already buffered.
PopNextBuffered ==
  /\ reorderBuffer[expectedRecvSeq] # 0
  /\ ReturnMessage(reorderBuffer[expectedRecvSeq])
  /\ reorderBuffer' = [reorderBuffer EXCEPT ![expectedRecvSeq] = 0]
  /\ UNCHANGED <<wire, nextSendSeq, seqOf, read>>

\* The wire hands over frame i: the next one of the stream, or any one sent.
Arrives(i) ==
  /\ i \in 1 .. Len(seqOf)
  /\ Stream => read = 1 .. i - 1
  /\ read' = read \cup {i}

\* Mutant of ReceiveFrame: an early frame is returned as it comes.
ReceiveFrameUnordered(i) ==
  /\ reorderBuffer[expectedRecvSeq] = 0
  /\ Arrives(i)
  /\ IF seqOf[i] >= expectedRecvSeq THEN ReturnMessage(i)
     ELSE UNCHANGED <<expectedRecvSeq, delivered>>
  /\ UNCHANGED <<wire, nextSendSeq, seqOf, reorderBuffer>>

\* Mutant of ReceiveFrame: an early frame is dropped like a late one.
ReceiveFrameDrop(i) ==
  /\ reorderBuffer[expectedRecvSeq] = 0
  /\ Arrives(i)
  /\ IF seqOf[i] = expectedRecvSeq THEN ReturnMessage(i)
     ELSE UNCHANGED <<expectedRecvSeq, delivered>>
  /\ UNCHANGED <<wire, nextSendSeq, seqOf, reorderBuffer>>

\* receiveAndParse reading one frame: return it, buffer it (emplace keeps an
\* earlier frame under the same number), or discard it as a duplicate.
ReceiveFrame(i) ==
  LET seq == seqOf[i]
  IN /\ reorderBuffer[expectedRecvSeq] = 0
     /\ Arrives(i)
     /\ IF seq = expectedRecvSeq
        THEN ReturnMessage(i) /\ UNCHANGED reorderBuffer
        ELSE /\ reorderBuffer' =
                  IF seq > expectedRecvSeq /\ reorderBuffer[seq] = 0
                  THEN [reorderBuffer EXCEPT ![seq] = i] ELSE reorderBuffer
             /\ UNCHANGED <<expectedRecvSeq, delivered>>
     /\ UNCHANGED <<wire, nextSendSeq, seqOf>>

ChannelNext == SendFrame \/ PopNextBuffered \/ \E i \in 1 .. MaxSent : ReceiveFrame(i)

ChannelSpec == ChannelInit /\ [][ChannelNext]_channelVars

\* The receiver keeps reading, and the wire hands over every frame once.
ChannelFairSpec ==
  /\ ChannelSpec
  /\ WF_channelVars(PopNextBuffered)
  /\ \A i \in 1 .. MaxSent : WF_channelVars(i \notin read /\ ReceiveFrame(i))

-----------------------------------------------------------------------------
(* Properties. *)

\* What the two ends know of each other.  The numbers on the frames follow
\* one another, the receiver expects the number of the first frame it has
\* not returned, a buffered frame is under its own number and still to come,
\* and on the stream nothing is ever buffered.
ChannelInv ==
  /\ Len(delivered) <= Len(seqOf)
  /\ \A k \in 1 .. Len(delivered) : delivered[k] = k
  /\ \A k \in 1 .. Len(seqOf) :
       seqOf[k] = IF k = 1 THEN 0 ELSE Incremented(seqOf[k - 1])
  /\ nextSendSeq = IF seqOf = <<>> THEN 0 ELSE Incremented(seqOf[Len(seqOf)])
  /\ expectedRecvSeq = IF Len(delivered) < Len(seqOf)
                       THEN seqOf[Len(delivered) + 1] ELSE nextSendSeq
  /\ Stream => /\ read = 1 .. Len(delivered)
               /\ \A s \in Seqs : reorderBuffer[s] = 0
  /\ ~Stream => /\ \A k \in 1 .. Len(seqOf) : seqOf[k] = k - 1
                /\ nextSendSeq = Len(seqOf)
                /\ \A s \in Seqs : reorderBuffer[s] # 0
                     => /\ reorderBuffer[s] = s + 1
                        /\ reorderBuffer[s] > Len(delivered)
                        /\ reorderBuffer[s] <= Len(seqOf)

InOrder == INSTANCE OrderedDelivery WITH sent <- Len(seqOf)

\* squidprotocol.cpp, above receiveAndParse: it "delivers messages strictly
\* in sequence-number order" and drops duplicates: the sequence numbers
\* implement in-order, exactly-once delivery, also across the wrap-around of
\* the counters on a TCP stream.
ImplementsOrderedDelivery == InOrder!Spec

\* Every message sent is returned in the end: no early frame is forgotten in
\* the reorder buffer and no gap stays open once its frame arrives.
EverythingDelivered ==
  \A k \in 1 .. MaxSent : Len(seqOf) >= k ~> Len(delivered) >= k
=============================================================================
