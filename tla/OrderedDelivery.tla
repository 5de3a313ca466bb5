--------------------------- MODULE OrderedDelivery ---------------------------
(***************************************************************************)
(* What SquidProtocol::receiveAndParse promises its callers: the messages  *)
(* of one direction of a connection come out once each, in the order in    *)
(* which the peer sent them.  Messages are numbered from 1 as they are     *)
(* sent.                                                                   *)
(***************************************************************************)
EXTENDS Naturals, Sequences

CONSTANT MaxSent  \* bound: messages sent over one connection

VARIABLES sent,      \* how many messages have been sent
          delivered  \* the messages returned to the receiver, oldest first

Init == sent = 0 /\ delivered = <<>>

Send == sent < MaxSent /\ sent' = sent + 1 /\ UNCHANGED delivered

Deliver ==
  /\ Len(delivered) < sent
  /\ delivered' = Append(delivered, Len(delivered) + 1)
  /\ UNCHANGED sent

Next == Send \/ Deliver

Spec == Init /\ [][Next]_<<sent, delivered>>
=============================================================================
