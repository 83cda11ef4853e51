---------------------------- MODULE PacketNotify ----------------------------
(***************************************************************************)
(* FNetPacketNotify (Net/NetPacketNotify.h, .cpp) and the part of          *)
(* UNetConnection that drives it: two endpoints number their packets,      *)
(* acknowledge the packets they receive in the headers of those they send, *)
(* and learn from the headers they receive which of their own packets      *)
(* arrived, over a network that loses, duplicates, delays and reorders.    *)
(*                                                                         *)
(* Sequence numbers are full integers that every comparison looks at       *)
(* through SequenceNumber's operators, so only through their residues; a   *)
(* number taken from a received header is the one with the header's        *)
(* residue at the signed difference the code computes.                     *)
(***************************************************************************)
EXTENDS SequenceNumber, Sequences, FiniteSets

CONSTANTS
  MaxSequenceHistoryLength,  \* delivery bits kept of received packets (256)
  BitsPerWord,               \* delivery bits per word of a header (32)
  FirstPacketId,             \* FirstPacketId[e]: the first packet id e sends
  MaxPacketId,               \* bound of the model: the last packet id e sends
  MaxInFlight,               \* packets sent and not yet notified, at most
  MaxPacketAge               \* how far behind a number still in use may be

Endpoint == {"client", "server"}
Peer(e) == IF e = "client" THEN "server" ELSE "client"

ASSUME PacketNotifyAssumption ==
  /\ BitsPerWord \in Nat \ {0}
  /\ MaxSequenceHistoryLength \in Nat \ {0}
  /\ MaxSequenceHistoryLength % BitsPerWord = 0
  /\ MaxSequenceHistoryLength < SeqNumberHalf
  /\ FirstPacketId \in [Endpoint -> Nat]
  /\ MaxPacketId \in [Endpoint -> Nat]
  /\ MaxInFlight \in 1 .. SeqNumberHalf - 2
  /\ MaxPacketAge \in 1 .. SeqNumberHalf

VARIABLES
  notify,                \* notify[e]: e's FNetPacketNotify
  SendBuffer,            \* SendBuffer[e]: header of the packet e is writing
  InPacketId,            \* UNetConnection::InPacketId
  LastNotifiedPacketId,  \* UNetConnection::LastNotifiedPacketId
  dispatching,           \* e is inside DispatchPacket for packet InPacketId
  network,               \* network[e]: the packets e has sent
  acked,                 \* history: packets of its peer that e acknowledged
  acks,                  \* history: own packets e was told arrived
  naks                   \* history: own packets e was told were lost

vars == <<notify, SendBuffer, InPacketId, LastNotifiedPacketId, dispatching,
          network, acked, acks, naks>>

WordCount == MaxSequenceHistoryLength \div BitsPerWord
HistoryIndex == 0 .. MaxSequenceHistoryLength - 1
NoHeader == [HistoryWordCount |-> 0]
Lesser(a, b) == IF a <= b THEN a ELSE b

-----------------------------------------------------------------------------
(* TSequenceHistory: index 0 is the status stored last.                    *)

EmptyHistory == [i \in HistoryIndex |-> FALSE]

\* AddDeliveryStatus, n times: the last status is isAck, the others FALSE.
AddDeliveryStatuses(history, n, isAck) ==
  [i \in HistoryIndex |-> IF i >= n THEN history[i - n] ELSE i = 0 /\ isAck]

\* Write then Read of the first words: the bits of the others arrive as 0.
TransmitHistory(history, words) ==
  [i \in HistoryIndex |-> i < words * BitsPerWord /\ history[i]]

-----------------------------------------------------------------------------
(* FNetPacketNotify: each operator takes the object and returns it         *)
(* changed, or answers a question about it.                                *)

InitNotify(in, out) ==
  [AckRecord |-> << >>, WrittenHistoryWordCount |-> 0, WrittenInAckSeq |-> 0,
   InSeqHistory |-> EmptyHistory, InSeq |-> in, InAckSeq |-> in,
   InAckSeqAck |-> in, WaitingForFlushSeqAck |-> out - 1,
   OutSeq |-> out, OutAckSeq |-> out - 1]

CurrentHistoryLength(n) ==
  IF SeqGeq(n.InAckSeq, n.InAckSeqAck)
  THEN Lesser(SeqDiff(n.InAckSeq, n.InAckSeqAck), MaxSequenceHistoryLength)
  ELSE MaxSequenceHistoryLength

WillSequenceFit(n, seq) ==
  /\ SeqGeq(seq, n.InAckSeqAck)
  /\ SeqDiff(seq, n.InAckSeqAck) <= MaxSequenceHistoryLength

HasUnacknowledgedAcks(n) ==
  \E i \in HistoryIndex : i < CurrentHistoryLength(n) /\ n.InSeqHistory[i]

IsWaitingForFlush(n) == SeqGt(n.WaitingForFlushSeqAck, n.OutAckSeq)

\* AckSeq: the packets between InAckSeq and seq are recorded as lost.
AckSeq(n, seq, isAck) ==
  LET count == IF SeqGt(seq, n.InAckSeq) THEN SeqDiff(seq, n.InAckSeq) ELSE 0
  IN  [n EXCEPT !.InAckSeq = @ + count,
                !.InSeqHistory = AddDeliveryStatuses(@, count, isAck)]

GetSequenceDelta(n, header) ==
  IF /\ SeqGt(header.Seq, n.InSeq)
     /\ SeqGeq(header.AckedSeq, n.OutAckSeq)
     /\ SeqGt(n.OutSeq, header.AckedSeq)
  THEN SeqDiff(header.Seq, n.InSeq)
  ELSE 0

\* How many of our packets a header gives the fate of.
AckCount(n, header) ==
  IF SeqGt(header.AckedSeq, n.OutAckSeq)
  THEN SeqDiff(header.AckedSeq, n.OutAckSeq)
  ELSE 0

\* The fate the header gives to the packet count - 1 before AckedSeq.
IsDelivered(header, index) ==
  index < header.HistoryWordCount * BitsPerWord /\ header.History[index]

\* UpdateInAckSeqAck, when the record has the acknowledged packet and when
\* it does not ("should never occur").
AckRecordMatches(n, count) ==
  count <= Len(n.AckRecord) /\ SeqEq(n.AckRecord[count].OutSeq, n.OutAckSeq + count)

\* Mutant of UpdateInAckSeqAck: leaves the acknowledged packet in the record.
UpdateInAckSeqAckMutantKeep(n, count) ==
  [n EXCEPT !.AckRecord = SubSeq(@, count, Len(@)),
            !.InAckSeqAck = n.AckRecord[count].InAckSeq]

UpdateInAckSeqAck(n, count) ==
  LET seq == IF AckRecordMatches(n, count)
             THEN n.AckRecord[count].InAckSeq
             ELSE n.OutAckSeq + count - MaxSequenceHistoryLength
      rest == IF count <= Len(n.AckRecord)
              THEN SubSeq(n.AckRecord, count + 1, Len(n.AckRecord))
              ELSE n.AckRecord
  IN  [n EXCEPT !.AckRecord = rest,
                !.InAckSeqAck = IF SeqGt(seq, @) THEN seq ELSE @]

ProcessReceivedAcks(n, header) ==
  LET count == AckCount(n, header)
      seq == n.OutAckSeq + count
  IN  IF count = 0 THEN n
      ELSE [UpdateInAckSeqAck(n, count) EXCEPT
              !.OutAckSeq = seq,
              !.WaitingForFlushSeqAck = IF SeqGt(seq, @) THEN seq ELSE @]

\* Mutant of CheckOvershoot: resets a history that still has acks to give.
CheckOvershootMutantReset(n, seq) ==
  IF WillSequenceFit(n, seq) THEN n ELSE [n EXCEPT !.InAckSeqAck = seq - 1]

\* First part of InternalUpdate: start a flush, or reset the history, when
\* seq would overshoot it.
CheckOvershoot(n, seq) ==
  IF IsWaitingForFlush(n) \/ WillSequenceFit(n, seq) THEN n
  ELSE IF HasUnacknowledgedAcks(n)
       THEN [n EXCEPT !.WaitingForFlushSeqAck = n.OutSeq]
       ELSE [n EXCEPT !.InAckSeqAck = seq - 1]

\* Waiting for a flush: the number up to which packets are marked as lost.
NewInSeqToAck(n, seq) ==
  IF ~WillSequenceFit(n, seq) /\ HasUnacknowledgedAcks(n)
  THEN n.InAckSeqAck + (MaxSequenceHistoryLength - CurrentHistoryLength(n))
  ELSE seq

\* Mutant of TakeSequence: packets ignored in the wait are not marked lost.
TakeSequenceMutantNoNak(n, seq) == [n EXCEPT !.InSeq = seq]

\* Second part of InternalUpdate.
TakeSequence(n, seq) ==
  IF ~IsWaitingForFlush(n) THEN [n EXCEPT !.InSeq = seq]
  ELSE LET new == NewInSeqToAck(n, seq)
       IN  IF SeqGeq(new, n.InSeq)
           THEN AckSeq([n EXCEPT !.InSeq = @ + SeqDiff(new, n.InSeq)], new, FALSE)
           ELSE n

InternalUpdate(n, seq) == TakeSequence(CheckOvershoot(n, seq), seq)

\* Update for a header in sequence, the object's part of it.
Update(n, header) ==
  InternalUpdate(ProcessReceivedAcks(n, header),
                 n.InSeq + GetSequenceDelta(n, header))

\* Mutant of HistoryWordsNeeded: the count is not clamped.
HistoryWordsNeededMutantNoClamp(n) ==
  (CurrentHistoryLength(n) + BitsPerWord - 1) \div BitsPerWord

HistoryWordsNeeded(n) ==
  LET words == (CurrentHistoryLength(n) + BitsPerWord - 1) \div BitsPerWord
  IN  IF words < 1 THEN 1 ELSE Lesser(words, WordCount)

\* WriteHeader: the object, and the header it leaves in the packet.
WriteHeader(n, words) ==
  [n EXCEPT !.WrittenHistoryWordCount = words, !.WrittenInAckSeq = n.InAckSeq]

HeaderOf(n, words) ==
  [Seq |-> n.OutSeq, AckedSeq |-> n.InAckSeq, HistoryWordCount |-> words,
   History |-> TransmitHistory(n.InSeqHistory, words)]

CommitAndIncrementOutSeq(n) ==
  [n EXCEPT
     !.AckRecord = Append(@, [OutSeq |-> n.OutSeq, InAckSeq |-> n.WrittenInAckSeq]),
     !.WrittenHistoryWordCount = 0,
     !.OutSeq = @ + 1]

-----------------------------------------------------------------------------
(* UNetConnection                                                          *)

\* InitSequence: what one side sends first is what the other expects.
Init ==
  /\ notify = [e \in Endpoint |->
                 InitNotify(FirstPacketId[Peer(e)] - 1, FirstPacketId[e])]
  /\ SendBuffer = [e \in Endpoint |-> NoHeader]
  /\ InPacketId = [e \in Endpoint |-> FirstPacketId[Peer(e)] - 1]
  /\ LastNotifiedPacketId = [e \in Endpoint |-> FirstPacketId[e] - 1]
  /\ dispatching = [e \in Endpoint |-> FALSE]
  /\ network = [e \in Endpoint |-> {}]
  /\ acked = [e \in Endpoint |-> {}]
  /\ acks = [e \in Endpoint |-> {}]
  /\ naks = [e \in Endpoint |-> {}]

\* WritePacketHeader for the first bits put in an empty SendBuffer.
StartPacket(e) ==
  LET n == notify[e]
      words == HistoryWordsNeeded(n)
  IN  /\ SendBuffer[e] = NoHeader
      /\ n.OutSeq <= MaxPacketId[e]
      /\ n.OutSeq - n.OutAckSeq <= MaxInFlight
      /\ notify' = [notify EXCEPT ![e] = WriteHeader(n, words)]
      /\ SendBuffer' = [SendBuffer EXCEPT ![e] = HeaderOf(n, words)]
      /\ UNCHANGED <<InPacketId, LastNotifiedPacketId, dispatching, network,
                     acked, acks, naks>>

\* Packets older than MaxPacketAge no longer arrive.
InTransit(packets, outSeq) ==
  {header \in packets : outSeq - header.Seq <= MaxPacketAge}

\* Mutant of HeaderToSend: the header is refreshed though it has no room for
\* the whole history.
HeaderToSendMutantAlwaysRefresh(e) ==
  HeaderOf(notify[e], notify[e].WrittenHistoryWordCount)

\* WriteHeader with bRefresh fails when the history has outgrown the words
\* the header has: the packet then goes with the header it has.
CanRefresh(n) == HistoryWordsNeeded(n) <= n.WrittenHistoryWordCount

HeaderToSend(e) ==
  IF CanRefresh(notify[e])
  THEN HeaderOf(notify[e], notify[e].WrittenHistoryWordCount)
  ELSE SendBuffer[e]

\* FlushNet: refresh the header if it still has room for the history, send
\* the packet and commit its number.  Data, dirty acks or the keep-alive
\* timer make it happen, also from inside DispatchPacket.
FlushNet(e) ==
  LET n == notify[e]
      written == IF CanRefresh(n)
                 THEN WriteHeader(n, n.WrittenHistoryWordCount)
                 ELSE n
  IN  /\ SendBuffer[e] # NoHeader
      /\ network' = [network EXCEPT
                       ![e] = InTransit(@ \cup {HeaderToSend(e)}, n.OutSeq + 1)]
      /\ notify' = [notify EXCEPT ![e] = CommitAndIncrementOutSeq(written)]
      /\ SendBuffer' = [SendBuffer EXCEPT ![e] = NoHeader]
      /\ UNCHANGED <<InPacketId, LastNotifiedPacketId, dispatching, acked, acks,
                     naks>>

\* HandlePacketNotification for the packets whose fate the header gives; a
\* number that is not the expected one closes the connection instead.
HandleNotifications(e, header) ==
  LET n == notify[e]
      last == LastNotifiedPacketId[e]
      count == AckCount(n, header)
      Delivered(id) == IsDelivered(header, last + count - id)
      news == IF SeqEq(last, n.OutAckSeq) THEN last + 1 .. last + count ELSE {}
  IN  /\ LastNotifiedPacketId' = [LastNotifiedPacketId EXCEPT ![e] = @ + count]
      /\ acks' = [acks EXCEPT ![e] = @ \cup {id \in news : Delivered(id)}]
      /\ naks' = [naks EXCEPT ![e] = @ \cup {id \in news : ~Delivered(id)}]

\* A number is compared with one at most half of the circle away, as
\* TSequenceNumber requires ("only valid if (A - B) < SeqNumberHalf") and
\* the size of the circle is meant to ensure ("covering guaranteed
\* loss/misorder time"): the packet a header acknowledges is not too far
\* behind the receiver's last one, nor what the receiver remembers of its own
\* acknowledgements too far behind the header.
Recent(n, header) ==
  /\ n.OutSeq - header.AckedSeq <= MaxPacketAge
  /\ header.Seq - n.InAckSeqAck <= MaxPacketAge
  /\ \A i \in DOMAIN n.AckRecord :
       header.Seq - n.AckRecord[i].InAckSeq <= MaxPacketAge

\* ReceivedPacket up to DispatchPacket, for a packet in sequence; any other
\* is dropped and changes nothing.  While a flush is awaited the packet is
\* not dispatched.  What ReceivedNak resends may fill and send packets while
\* the acks are being processed; here they go out before the action, as the
\* same packets but for bits of history their receiver has been told already.
ReceivedPacket(e, header) ==
  LET n == notify[e]
      delta == GetSequenceDelta(n, header)
      updated == Update(n, header)
      waiting == IsWaitingForFlush(updated)
  IN  /\ ~dispatching[e]
      /\ delta > 0
      /\ Recent(n, header)
      /\ HandleNotifications(e, header)
      /\ notify' = [notify EXCEPT ![e] = updated]
      /\ InPacketId' = [InPacketId EXCEPT ![e] =
                          @ + IF waiting THEN updated.InSeq - n.InSeq ELSE delta]
      /\ dispatching' = [dispatching EXCEPT ![e] = ~waiting]
      /\ UNCHANGED <<SendBuffer, network, acked>>

\* The end of ReceivedPacket: AckSeq, or NakSeq when bSkipAck was set.
AcknowledgePacket(e, bSkipAck) ==
  /\ dispatching[e]
  /\ notify' = [notify EXCEPT ![e] = AckSeq(@, InPacketId[e], ~bSkipAck)]
  /\ acked' = [acked EXCEPT ![e] =
                 IF bSkipAck THEN @ ELSE @ \cup {InPacketId[e]}]
  /\ dispatching' = [dispatching EXCEPT ![e] = FALSE]
  /\ UNCHANGED <<SendBuffer, InPacketId, LastNotifiedPacketId, network, acks,
                 naks>>

Next == \E e \in Endpoint :
  \/ StartPacket(e)
  \/ FlushNet(e)
  \/ \E header \in network[Peer(e)] : ReceivedPacket(e, header)
  \/ \E bSkipAck \in BOOLEAN : AcknowledgePacket(e, bSkipAck)

Spec == Init /\ [][Next]_vars

-----------------------------------------------------------------------------
(* Properties                                                              *)

Number == Int
SentAck == [OutSeq : Number, InAckSeq : Number]
History == [HistoryIndex -> BOOLEAN]
Notify ==
  [AckRecord : Seq(SentAck), WrittenHistoryWordCount : 0 .. WordCount,
   WrittenInAckSeq : Number, InSeqHistory : History, InSeq : Number,
   InAckSeq : Number, InAckSeqAck : Number, WaitingForFlushSeqAck : Number,
   OutSeq : Number, OutAckSeq : Number]
Header ==
  [Seq : Number, AckedSeq : Number, HistoryWordCount : 1 .. WordCount,
   History : History]

\* The type invariant.
TypeOK ==
  /\ notify \in [Endpoint -> Notify]
  /\ SendBuffer \in [Endpoint -> Header \cup {NoHeader}]
  /\ InPacketId \in [Endpoint -> Number]
  /\ LastNotifiedPacketId \in [Endpoint -> Number]
  /\ dispatching \in [Endpoint -> BOOLEAN]
  /\ network \in [Endpoint -> SUBSET Header]
  /\ acked \in [Endpoint -> SUBSET Number]
  /\ acks \in [Endpoint -> SUBSET Number]
  /\ naks \in [Endpoint -> SUBSET Number]

\* The connection's full packet ids and the wrapped numbers of its
\* FNetPacketNotify, which are counted separately, never part: the check in
\* AckSeq (AckedSeq == InSeq), the one in ReceivedPacket (InPacketId has the
\* header's number) and the sanity check of HandlePacketNotification hold.
CountersAgree == \A e \in Endpoint :
  /\ InPacketId[e] = notify[e].InSeq
  /\ LastNotifiedPacketId[e] = notify[e].OutAckSeq
  /\ ~dispatching[e] => notify[e].InAckSeq = notify[e].InSeq

\* The ack record holds one entry for every packet in flight, in order, so
\* the pessimistic view of UpdateInAckSeqAck, "should never occur", does
\* not occur.
AckRecordInFlight == \A e \in Endpoint :
  LET n == notify[e] IN
    /\ Len(n.AckRecord) = n.OutSeq - 1 - n.OutAckSeq
    /\ \A i \in DOMAIN n.AckRecord : n.AckRecord[i].OutSeq = n.OutAckSeq + i

\* An endpoint never forgets an acknowledgement its peer may not have: a
\* packet it acknowledged and its peer has not been told about is still in
\* the part of the history the next header carries.
AcksStayInHistory == \A e \in Endpoint : \A id \in acked[e] :
  id > notify[Peer(e)].OutAckSeq =>
    /\ id > notify[e].InAckSeqAck
    /\ notify[e].InAckSeq - id < MaxSequenceHistoryLength
    /\ notify[e].InSeqHistory[notify[e].InAckSeq - id]

\* Nobody is told that a packet arrived unless the other side accepted it,
\* and nobody is told that it was lost if the other side accepted it: the
\* situation IsPacketSequenceWindowFull warns of ("it could cause packets
\* to be NAKed even when they've been received by the remote peer").
NotificationsAreTrue == \A e \in Endpoint :
  /\ acks[e] \subseteq acked[Peer(e)]
  /\ naks[e] \cap acked[Peer(e)] = {}

\* The packet layer implements what it promises.
Delivery == INSTANCE PacketDelivery WITH
  nextId <- [e \in Endpoint |-> notify[e].OutSeq],
  settled <- [e \in Endpoint |-> notify[Peer(e)].InAckSeq],
  accepted <- [e \in Endpoint |-> acked[Peer(e)]],
  told <- LastNotifiedPacketId
DeliverySpec == Delivery!Spec

\* Both sides wait for a flush and no packet, sent already or next to be
\* sent, would be dispatched, acknowledge anything new, or be acknowledged.
Idle(e, header) ==
  LET n == notify[e]
      updated == Update(n, header)
  IN  GetSequenceDelta(n, header) > 0 =>
        /\ IsWaitingForFlush(updated)
        /\ updated.OutAckSeq = n.OutAckSeq
        /\ updated.InAckSeq = n.InAckSeq

Stuck ==
  /\ \A e \in Endpoint : IsWaitingForFlush(notify[e])
  /\ \A e \in Endpoint : LET p == notify[Peer(e)] IN
    /\ Idle(e, HeaderOf(p, HistoryWordsNeeded(p)))
    /\ \A header \in network[Peer(e)] : Idle(e, header)

\* The comment in InternalUpdate: a flush is done "by ignoring any new
\* packets until we are in sync again", so sync must stay within reach.
FlushCanEnd == ~Stuck

=============================================================================
