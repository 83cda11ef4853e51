------------------------ MODULE PacketNotifyInvariant ------------------------
(***************************************************************************)
(* The inductive invariant of PacketNotify: what the two endpoints         *)
(* remember agrees with what is in flight and with what was accepted.      *)
(***************************************************************************)
EXTENDS PacketNotify

\* The numbers an endpoint and its peer count are in order: what the peer
\* was told is recorded, what is recorded has been received or passed over,
\* and that has been sent.
NumbersInOrder == \A e \in Endpoint :
  /\ notify[Peer(e)].OutAckSeq <= notify[e].InAckSeq
  /\ notify[e].InAckSeq <= notify[e].InSeq
  /\ notify[e].InSeq < notify[Peer(e)].OutSeq
  /\ notify[e].InAckSeqAck <= notify[e].InSeq
  /\ notify[e].InSeq - notify[e].InAckSeqAck <= SeqNumberHalf

\* A packet that is dispatched fits into the history, next to every
\* acknowledgement that is not known to have arrived.
DispatchFits == \A e \in Endpoint : dispatching[e] =>
  /\ notify[e].InAckSeq < notify[e].InSeq
  /\ notify[e].InSeq - notify[e].InAckSeq < SeqNumberHalf
  /\ notify[e].InAckSeqAck < notify[e].InSeq
  /\ notify[e].InSeq - notify[e].InAckSeqAck <= MaxSequenceHistoryLength

\* The packets in flight, the one being written included, are no more than
\* the connection allows.
InFlightBounded == \A e \in Endpoint :
  /\ notify[e].OutAckSeq < notify[e].OutSeq
  /\ notify[e].OutSeq - notify[e].OutAckSeq <= MaxInFlight + 1
  /\ SendBuffer[e] # NoHeader =>
       notify[e].OutSeq - notify[e].OutAckSeq <= MaxInFlight

\* The header being written has the numbers its packet will be recorded with.
SendBufferAgrees == \A e \in Endpoint : SendBuffer[e] # NoHeader =>
  /\ SendBuffer[e].Seq = notify[e].OutSeq
  /\ SendBuffer[e].AckedSeq = notify[e].WrittenInAckSeq
  /\ notify[e].WrittenInAckSeq <= notify[e].InAckSeq
  /\ \A i \in DOMAIN notify[e].AckRecord :
       notify[e].AckRecord[i].InAckSeq <= notify[e].WrittenInAckSeq

\* What the record says a packet acknowledged is no more than a packet sent
\* with it or after it says, and no more than the peer has been told once
\* the peer has gone past the packet.
RecordIsKnown == \A e \in Endpoint : \A i \in DOMAIN notify[e].AckRecord :
  /\ notify[e].AckRecord[i].InAckSeq <= notify[e].InAckSeq
  /\ notify[e].AckRecord[i].OutSeq <= notify[Peer(e)].InSeq =>
       notify[e].AckRecord[i].InAckSeq <= notify[Peer(e)].OutAckSeq
  /\ \A header \in network[e] : notify[e].AckRecord[i].OutSeq <= header.Seq =>
       notify[e].AckRecord[i].InAckSeq <= header.AckedSeq

\* Packets in the network are not too old.
NetworkIsRecent == \A e \in Endpoint : \A header \in network[e] :
  /\ header.Seq < notify[e].OutSeq
  /\ notify[e].OutSeq - header.Seq <= MaxPacketAge

\* A header that e has written tells the truth: a bit that is set stands for
\* a packet that e accepted, and every packet that e accepted, up to the one
\* the header acknowledges, and whose sender was not told its fate has its
\* bit set.
Truthful(e, header) ==
  /\ header.AckedSeq <= notify[e].InAckSeq
  /\ \A i \in HistoryIndex :
       header.History[i] => header.AckedSeq - i \in acked[e]
  /\ \A id \in acked[e] :
       id <= header.AckedSeq /\ id > notify[Peer(e)].OutAckSeq =>
         IsDelivered(header, header.AckedSeq - id)

\* Every header written and every packet sent tells the truth.
HeadersTruthful == \A e \in Endpoint :
  /\ \A header \in network[e] : Truthful(e, header)
  /\ SendBuffer[e] # NoHeader => Truthful(e, SendBuffer[e])

\* The history that headers are written from tells the truth.
HistoryTruthful == \A e \in Endpoint :
  /\ \A i \in HistoryIndex :
       notify[e].InSeqHistory[i] => notify[e].InAckSeq - i \in acked[e]
  /\ \A id \in acked[e] : id <= notify[e].InAckSeq

\* An endpoint is told nothing about packets it has not been told about.
ToldInOrder == \A e \in Endpoint : \A id \in naks[e] : id <= notify[e].OutAckSeq

\* The inductive invariant.
IInv ==
  /\ TypeOK
  /\ CountersAgree
  /\ AckRecordInFlight
  /\ NumbersInOrder
  /\ DispatchFits
  /\ InFlightBounded
  /\ SendBufferAgrees
  /\ RecordIsKnown
  /\ NetworkIsRecent
  /\ HeadersTruthful
  /\ HistoryTruthful
  /\ ToldInOrder
  /\ AcksStayInHistory
  /\ NotificationsAreTrue

=============================================================================
