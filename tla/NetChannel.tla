----------------------------- MODULE NetChannel -----------------------------
(***************************************************************************)
(* UChannel (Private/DataChannel.cpp) and the part of UNetConnection it    *)
(* writes its bunches through: one channel index, on which the server      *)
(* opens a channel, sends reliable and unreliable bunches and closes it,   *)
(* several times over, and the client receives.  Bunches are merged, split *)
(* into partial ones, packed into packets, acknowledged with their packet, *)
(* and the reliable ones sent again when their packet is lost.             *)
(*                                                                         *)
(* The packet layer is used as PacketDelivery describes it: packets are    *)
(* accepted or passed over in order, and the server is told the truth      *)
(* about them, in order.  A bunch carries a sequence of units; a unit is a *)
(* part of a message, small enough to be part of one bunch only.           *)
(***************************************************************************)
EXTENDS Integers, Sequences, FiniteSets, SequencesExt

CONSTANTS
  RELIABLE_BUFFER,                 \* reliable bunches in flight (512)
  MAX_CHSEQUENCE,                  \* channel sequence numbers on the wire (1024)
  PartialBunchReliableThreshold,   \* net.PartialBunchReliableThreshold (8)
  InitReliable,                    \* InitOutReliable and InitInReliable
  MaxSingleBunchSize,              \* units in one bunch
  PacketCapacity,                  \* units in one packet
  ReliableSizes,                   \* sizes of the reliable messages
  PropertySizes,                   \* sizes of the property updates
  ClosingSizes,                    \* sizes of the reliable messages that close
  FlushWaits,                      \* the packet layer may wait for a flush
  MaxOpenings,                     \* bound: times the server opens a channel
  MaxMessages,                     \* bound: messages sent in all
  MaxLost                          \* bound: packets lost

ASSUME NetChannelAssumption ==
  /\ RELIABLE_BUFFER \in Nat \ {0, 1}
  /\ MAX_CHSEQUENCE \in Nat /\ MAX_CHSEQUENCE >= 2 * RELIABLE_BUFFER
  /\ MAX_CHSEQUENCE % 2 = 0
  /\ PartialBunchReliableThreshold \in Nat \ {0, 1}
  /\ InitReliable \in 0 .. MAX_CHSEQUENCE - 1
  /\ MaxSingleBunchSize \in Nat \ {0}
  /\ PacketCapacity \in Nat /\ PacketCapacity >= MaxSingleBunchSize
  /\ ReliableSizes \cup PropertySizes \subseteq Nat \ {0}
  /\ ClosingSizes \subseteq Nat
  /\ FlushWaits \in BOOLEAN
  /\ {MaxOpenings, MaxMessages, MaxLost} \subseteq Nat

VARIABLES
  server,     \* the server's channel, and its connection's sending state
  client,     \* the client's channel, and its connection's receiving state
  settled,    \* the client is past the packets up to this id
  accepted,   \* the packets the client acknowledged
  told,       \* the server was told the fate of the packets up to this id
  openings,   \* channels the server opened
  messages,   \* messages the server sent
  lost        \* packets the network lost

vars == <<server, client, settled, accepted, told, openings, messages, lost>>

None == [None |-> TRUE]
Lesser(a, b) == IF a <= b THEN a ELSE b

-----------------------------------------------------------------------------
(* Data: the units of a message, and the mark a close leaves in a stream.  *)

Units(message, size, update) ==
  [part \in 1 .. size |-> [message |-> message, part |-> part, of |-> size,
                           update |-> update]]

CloseMark == [close |-> TRUE]
Carried(data, bClose) == IF bClose THEN Append(data, CloseMark) ELSE data

\* SendBunch: the pieces a bunch is split into.
Split(data) ==
  IF Len(data) <= MaxSingleBunchSize THEN <<data>>
  ELSE LET count == (Len(data) + MaxSingleBunchSize - 1) \div MaxSingleBunchSize
       IN  [i \in 1 .. count |->
              SubSeq(data, (i - 1) * MaxSingleBunchSize + 1,
                           Lesser(i * MaxSingleBunchSize, Len(data)))]

-----------------------------------------------------------------------------
(* UNetConnection, sending.                                                *)

Size(packet) == Len(FlattenSeq([i \in DOMAIN packet |-> packet[i].Data]))

OutPacketId(s) == Len(s.network) + 1

FlushNet(s) ==
  IF s.SendBuffer = << >> THEN s
  ELSE [s EXCEPT !.network = Append(@, s.SendBuffer), !.SendBuffer = << >>]

\* PrepareWriteBitsToSendBuffer: flush if the bunch does not fit.
PrepareWrite(s, bunch) ==
  IF Size(s.SendBuffer) + Len(bunch.Data) > PacketCapacity THEN FlushNet(s) ELSE s

\* SendRawBunch: the id of the packet the bunch is written to, and the
\* connection afterwards.  The first bunch of a packet cannot be merged with.
PacketIdFor(s, bunch) == OutPacketId(PrepareWrite(s, bunch))

SendRawBunch(s, bunch, merge) ==
  LET prepared == PrepareWrite(s, bunch)
      written == [prepared EXCEPT !.SendBuffer = Append(@, bunch),
                                  !.AllowMerge = merge /\ prepared.SendBuffer # << >>]
  IN  IF Size(written.SendBuffer) = PacketCapacity THEN FlushNet(written) ELSE written

-----------------------------------------------------------------------------
(* UChannel, sending.                                                      *)

\* The conditions under which a bunch is merged with the last one written.
CanMerge(s, bunch) ==
  /\ s.AllowMerge
  /\ s.SendBuffer # << >>
  /\ Last(s.SendBuffer).bReliable = bunch.bReliable
  /\ Len(Last(s.SendBuffer).Data) + Len(bunch.Data) <= MaxSingleBunchSize

\* Mutant of Merged: what is merged goes first.
MergedMutantFirst(s, bunch) ==
  LET last == Last(s.SendBuffer)
  IN  [last EXCEPT !.Data = bunch.Data \o @, !.bOpen = @ \/ bunch.bOpen,
                   !.bClose = @ \/ bunch.bClose]

\* The bunch a merge leaves in place of the last one.
Merged(s, bunch) ==
  LET last == Last(s.SendBuffer)
  IN  [last EXCEPT !.Data = @ \o bunch.Data, !.bOpen = @ \/ bunch.bOpen,
                   !.bClose = @ \/ bunch.bClose]

\* The last bunch is taken back out of the packet.
PopLastStart(s) == [s EXCEPT !.SendBuffer = Front(@)]

\* Mutant of OverflowsReliable: one bunch too many is let through.
OverflowsReliableMutantOneMore(s, count, bClose) ==
  Len(s.OutRec) + count > RELIABLE_BUFFER + (IF bClose THEN 1 ELSE 0)

OverflowsReliable(s, count, bClose) ==
  Len(s.OutRec) + count >= RELIABLE_BUFFER + (IF bClose THEN 1 ELSE 0)

\* Piece i of count of a bunch, as PrepBunch leaves it.
Piece(bunch, data, i, count, ChSequence) ==
  [bReliable |-> bunch.bReliable,
   bOpen |-> bunch.bOpen /\ i = 1,
   bClose |-> bunch.bClose /\ i = count,
   bPartial |-> count > 1,
   bPartialInitial |-> count > 1 /\ i = 1,
   bPartialFinal |-> count > 1 /\ i = count,
   ChSequence |-> ChSequence,
   Data |-> data]

\* One iteration of SendBunch's loop: the piece is numbered and queued until it is
\* acknowledged if it is reliable, and written by SendRawBunch.
SendPiece(s, bunch, piece, i, count, merged, merge) ==
  LET out == Piece(bunch, piece, i, count,
                   IF ~bunch.bReliable THEN 0
                   ELSE IF merged THEN Last(s.OutRec).bunch.ChSequence
                   ELSE s.OutReliable + 1)
      id == PacketIdFor(s, out)
      before == IF merged THEN Front(s.numbered) ELSE s.numbered
      through == IF before = << >> THEN << >> ELSE Last(before).upto
      queued == [bunch |-> out, PacketId |-> id, ReceivedAck |-> FALSE]
  IN  [SendRawBunch(s, out, merge) EXCEPT
         !.OutReliable = IF bunch.bReliable /\ ~merged THEN @ + 1 ELSE @,
         !.numbered = IF ~bunch.bReliable THEN @
                      ELSE Append(before, [bunch |-> out, upto |-> through \o Carried(piece, out.bClose)]),
         !.OutRec = IF ~bunch.bReliable THEN @
                    ELSE Append(IF merged THEN Front(@) ELSE @, queued),
         !.OpenPacketId = IF bunch.bOpen THEN id ELSE @,
         !.Closing = @ \/ out.bClose]

\* The loop: the connection after each of the pieces.
AfterPieces(ready, bunch, merged, merge) ==
  LET pieces == Split(bunch.Data)
      count == Len(pieces)
      after[i \in 0 .. count] ==
        IF i = 0 THEN ready
        ELSE SendPiece(after[i - 1], bunch, pieces[i], i, count, merged, merge /\ count = 1)
  IN  after

\* SendBunch.  A full reliable buffer closes the connection.
SendBunch(s, message, merge) ==
  LET bunch == [bReliable |-> message.bReliable, bClose |-> message.bClose,
                bOpen |-> s.OpenPacketId = 0, Data |-> message.Data]
      merged == merge /\ CanMerge(s, bunch)
      last == Merged(s, bunch)
      whole == IF merged THEN [bunch EXCEPT !.Data = last.Data, !.bOpen = last.bOpen,
                                            !.bClose = last.bClose]
                         ELSE bunch
      count == Len(Split(whole.Data))
      overflows == OverflowsReliable(s, count, whole.bClose)
      promoted == count >= PartialBunchReliableThreshold /\ ~overflows
      bReliable == whole.bReliable \/ promoted
      ready == [(IF merged THEN PopLastStart(s) ELSE s) EXCEPT
                  !.bPausedUntilReliableACK = @ \/ promoted,
                  !.sent = IF bReliable THEN @ \o Carried(message.Data, message.bClose)
                                        ELSE @]
  IN  IF bReliable /\ overflows THEN [s EXCEPT !.connected = FALSE]
      ELSE AfterPieces(ready, [whole EXCEPT !.bReliable = bReliable], merged, merge)[count]

\* Mutants of ReceivedNak: nothing is written again; the packet it is written
\* to is not noted.
ReceivedNakMutantNone(s, id) == s

ReceivedNakMutantKeepId(s, id) ==
  LET Again(t, queued) == IF queued.PacketId = id /\ ~queued.ReceivedAck
                          THEN SendRawBunch(t, queued.bunch, FALSE) ELSE t
  IN  FoldLeft(Again, s, s.OutRec)

\* ReceivedNak: the bunches of the lost packet are written again.
Resend(s, i, id) ==
  LET queued == s.OutRec[i]
      moved == [queued EXCEPT !.PacketId = PacketIdFor(s, queued.bunch)]
  IN  IF queued.PacketId = id /\ ~queued.ReceivedAck
      THEN [SendRawBunch(s, queued.bunch, FALSE) EXCEPT !.OutRec = [@ EXCEPT ![i] = moved]]
      ELSE s

AfterResends(s, id) ==
  LET after[i \in 0 .. Len(s.OutRec)] ==
        IF i = 0 THEN s ELSE Resend(after[i - 1], i, id)
  IN  after

ReceivedNak(s, id) == AfterResends(s, id)[Len(s.OutRec)]

\* An open bunch is released only when all its parts are acknowledged.
OpenFinished(outRec, first) ==
  \A i \in first .. Len(outRec) :
    (\A j \in first .. i - 1 : ~outRec[j].bunch.bPartialFinal) =>
      outRec[i].ReceivedAck

\* Mutant of Releasable: an open bunch is released with its first part.
ReleasableMutantFirst(outRec, i) == outRec[i].ReceivedAck

Releasable(outRec, i) ==
  /\ outRec[i].ReceivedAck
  /\ outRec[i].bunch.bOpen /\ outRec[i].bunch.bPartial => OpenFinished(outRec, i)

\* Mutant of ReceivedAcks: releases acknowledged bunches out of order.
ReceivedAcksMutantAny(s) ==
  LET Acked(q) == q.ReceivedAck
      Waiting(q) == ~q.ReceivedAck
      released == SelectSeq(s.OutRec, Acked)
  IN  [s EXCEPT
         !.OutRec = SelectSeq(@, Waiting),
         !.OpenAcked = @ \/ \E i \in DOMAIN released : released[i].bunch.bOpen,
         !.ChannelsToClose = @ \/ \E i \in DOMAIN released : released[i].bunch.bClose]

\* ReceivedAcks: releases the acknowledged bunches at the front of the queue.
ReceivedAcks(s) ==
  LET count == Cardinality({n \in DOMAIN s.OutRec :
                              \A i \in 1 .. n : Releasable(s.OutRec, i)})
      released == SubSeq(s.OutRec, 1, count)
  IN  [s EXCEPT
         !.OutRec = SubSeq(@, count + 1, Len(@)),
         !.OpenAcked = @ \/ \E i \in DOMAIN released : released[i].bunch.bOpen,
         !.ChannelsToClose = @ \/ \E i \in DOMAIN released : released[i].bunch.bClose]

\* UNetConnection::ReceivedAck, for the channel.
ReceivedAck(s, id) ==
  LET hasOpen == \E i \in DOMAIN s.OutRec : s.OutRec[i].bunch.bOpen
  IN  ReceivedAcks([s EXCEPT
        !.OpenAcked = (@ \/ s.OpenPacketId = id) /\ ~hasOpen,
        !.OutRec = [i \in DOMAIN @ |->
                      IF @[i].PacketId = id THEN [@[i] EXCEPT !.ReceivedAck = TRUE]
                                            ELSE @[i]]])

\* A channel as Init leaves it, and no channel.
NewChannel(s) ==
  [s EXCEPT !.exists = TRUE, !.OpenPacketId = 0, !.OpenAcked = FALSE,
            !.Closing = FALSE, !.bPausedUntilReliableACK = FALSE, !.OutRec = << >>]

CleanUp(s) == [NewChannel(s) EXCEPT !.exists = FALSE]

-----------------------------------------------------------------------------
(* Receiving.                                                              *)

MakeRelative(value, reference, max) ==
  reference + ((value - reference + max \div 2) % max) - max \div 2

\* CleanUp of the client's channel.
CleanUpReceiver(c) ==
  [c EXCEPT !.exists = FALSE, !.OpenAcked = FALSE, !.InRec = << >>,
            !.InPartialBunch = None]

Error(c, error) == [c EXCEPT !.errors = Append(@, error)]

SkipAck(c) == [c EXCEPT !.bSkipAck = TRUE]

\* ReceivedSequencedBunch
ReceivedSequencedBunch(c, bunch) ==
  LET handled == [c EXCEPT !.received = Append(@, [bReliable |-> bunch.bReliable,
                                                   bClose |-> bunch.bClose,
                                                   Data |-> bunch.Data]),
                           !.stream = IF bunch.bReliable
                                      THEN @ \o Carried(bunch.Data, bunch.bClose) ELSE @]
      checked == IF c.InRec # << >> THEN Error(handled, "Close Anomaly") ELSE handled
  IN  IF bunch.bClose THEN CleanUpReceiver(checked) ELSE handled

\* The last part of ReceivedNextBunch: a whole bunch.
HandleBunch(c, bunch) ==
  IF bunch.bOpen /\ c.OpenAcked THEN Error(c, "AlreadyOpen")
  ELSE IF bunch.bOpen \/ c.OpenAcked
       THEN ReceivedSequencedBunch([c EXCEPT !.OpenAcked = TRUE], bunch)
       ELSE IF bunch.bReliable THEN Error(c, "ReliableBeforeOpen") ELSE SkipAck(c)

\* A reliable partial bunch that is still incomplete must not be destroyed.
HoldsReliablePartial(c) == c.InPartialBunch # None /\ c.InPartialBunch.bReliable

ReceivedPartialInitial(c, bunch) ==
  IF HoldsReliablePartial(c) /\ ~c.InPartialBunch.bPartialFinal
  THEN IF bunch.bReliable THEN Error(c, "PartialInitialReliableDestroy") ELSE SkipAck(c)
  ELSE [c EXCEPT !.InPartialBunch = bunch]

\* Mutant of ContinuesPartial: the sequence is not compared.
ContinuesPartialMutantAny(c, bunch) ==
  /\ c.InPartialBunch # None
  /\ ~c.InPartialBunch.bPartialFinal
  /\ c.InPartialBunch.bReliable = bunch.bReliable

ContinuesPartial(c, bunch) ==
  /\ c.InPartialBunch # None
  /\ ~c.InPartialBunch.bPartialFinal
  /\ c.InPartialBunch.bReliable = bunch.bReliable
  /\ \/ bunch.ChSequence = c.InPartialBunch.ChSequence + 1
     \/ ~bunch.bReliable /\ bunch.ChSequence = c.InPartialBunch.ChSequence

ReceivedPartialNext(c, bunch) ==
  LET joined == [c.InPartialBunch EXCEPT
                   !.Data = @ \o bunch.Data, !.ChSequence = bunch.ChSequence,
                   !.bPartialFinal = bunch.bPartialFinal, !.bClose = bunch.bClose]
      extended == [c EXCEPT !.InPartialBunch = joined]
  IN  IF ContinuesPartial(c, bunch)
      THEN IF bunch.bPartialFinal THEN HandleBunch(extended, joined) ELSE extended
      ELSE IF ~HoldsReliablePartial(c)
           THEN SkipAck([c EXCEPT !.InPartialBunch = None])
           ELSE IF bunch.bReliable THEN Error(SkipAck(c), "PartialMergeReliableDestroy")
                                   ELSE SkipAck(c)

\* ReceivedNextBunch
ReceivedNextBunch(c, bunch) ==
  LET retired == IF bunch.bReliable THEN [c EXCEPT !.InReliable = bunch.ChSequence] ELSE c
  IN  IF ~bunch.bPartial THEN HandleBunch(retired, bunch)
      ELSE IF bunch.bPartialInitial THEN ReceivedPartialInitial(retired, bunch)
      ELSE ReceivedPartialNext(retired, bunch)

\* The first branch of ReceivedRawBunch: a reliable bunch that came too early.
Queue(c, bunch) ==
  LET before == {i \in DOMAIN c.InRec : c.InRec[i].ChSequence < bunch.ChSequence}
      queued == [c EXCEPT !.InRec = InsertAt(@, Cardinality(before) + 1, bunch)]
  IN  IF \E i \in DOMAIN c.InRec : c.InRec[i].ChSequence = bunch.ChSequence THEN c
      ELSE IF Len(queued.InRec) >= RELIABLE_BUFFER THEN Error(queued, "MaxReliableExceeded")
      ELSE queued

\* The loop of ReceivedRawBunch over the bunches that waited.  Their bSkipAck
\* is dropped, and their errors are not looked at.
Unleash(c, bunch) ==
  IF c.InRec # << >> /\ Head(c.InRec) = bunch /\ bunch.ChSequence = c.InReliable + 1
  THEN [ReceivedNextBunch([c EXCEPT !.InRec = Tail(@)], bunch) EXCEPT !.bSkipAck = c.bSkipAck]
  ELSE c

AfterWaiting(c) ==
  LET after[i \in 0 .. Len(c.InRec)] ==
        IF i = 0 THEN c ELSE Unleash(after[i - 1], c.InRec[i])
  IN  after

DispatchWaiting(c) == AfterWaiting(c)[Len(c.InRec)]

ReceivedRawBunch(c, bunch) ==
  LET next == ReceivedNextBunch(c, bunch)
  IN  IF bunch.bReliable /\ bunch.ChSequence # c.InReliable + 1 THEN Queue(c, bunch)
      ELSE IF next.exists /\ next.errors = c.errors THEN DispatchWaiting(next)
      ELSE next

IsOutdated(c, bunch) == bunch.bReliable /\ bunch.ChSequence <= c.InReliable

\* DispatchPacket, for one bunch of packet id.
DispatchBunch(c, wire, id) ==
  LET bunch == [wire EXCEPT !.ChSequence =
                  IF wire.bReliable THEN MakeRelative(@ % MAX_CHSEQUENCE, c.InReliable, MAX_CHSEQUENCE)
                  ELSE IF wire.bPartial THEN id ELSE 0]
      mayOpen == bunch.bReliable \/ (bunch.bOpen /\ (bunch.bClose \/ bunch.bPartial))
  IN  IF IsOutdated(c, bunch) THEN c
      ELSE IF ~c.exists /\ ~mayOpen THEN SkipAck(c)
      ELSE ReceivedRawBunch([c EXCEPT !.exists = TRUE], bunch)

AfterBunches(c, packet, id) ==
  LET after[i \in 0 .. Len(packet)] ==
        IF i = 0 THEN [c EXCEPT !.bSkipAck = FALSE]
        ELSE DispatchBunch(after[i - 1], packet[i], id)
  IN  after

DispatchPacket(c, packet, id) == AfterBunches(c, packet, id)[Len(packet)]

-----------------------------------------------------------------------------
(* Actions.                                                                *)

Init ==
  /\ server = [exists |-> FALSE, OpenPacketId |-> 0, OpenAcked |-> FALSE,
               Closing |-> FALSE, bPausedUntilReliableACK |-> FALSE,
               OutRec |-> << >>, OutReliable |-> InitReliable, SendBuffer |-> << >>,
               AllowMerge |-> FALSE, ChannelsToClose |-> FALSE, connected |-> TRUE,
               network |-> << >>, sent |-> << >>, numbered |-> << >>]
  /\ client = [exists |-> FALSE, OpenAcked |-> FALSE, InRec |-> << >>,
               InPartialBunch |-> None, InReliable |-> InitReliable,
               bSkipAck |-> FALSE, errors |-> << >>, received |-> << >>, stream |-> << >>]
  /\ settled = 0
  /\ accepted = {}
  /\ told = 0
  /\ openings = 0
  /\ messages = 0
  /\ lost = 0

\* CreateChannelByName: the index is free once the last channel is cleaned up.
CreateChannel ==
  /\ server.connected /\ ~server.exists
  /\ openings < MaxOpenings
  /\ server' = NewChannel(server)
  /\ openings' = openings + 1
  /\ UNCHANGED <<client, settled, accepted, told, messages, lost>>

Send(bReliable, bClose, size, merge) ==
  /\ server.connected /\ server.exists /\ ~server.Closing
  /\ server' = SendBunch(server, [bReliable |-> bReliable, bClose |-> bClose,
                                  Data |-> Units(messages + 1, size, FALSE)], merge)
  /\ messages' = messages + 1
  /\ UNCHANGED <<client, settled, accepted, told, openings, lost>>

\* A remote call, or what else is sent reliably.
SendReliable(size) ==
  /\ messages < MaxMessages
  /\ Send(TRUE, FALSE, size, TRUE)

\* Mutant of IsPaused: ReplicateActor does not wait.
IsPausedMutantNever(s) == FALSE

\* After an update that was made reliable, until it is acknowledged.
IsPaused(s) == s.bPausedUntilReliableACK /\ s.OutRec # << >>

\* A property update: never on a channel that is not open yet, and not while
\* paused for a large update.
ReplicateActor(size) ==
  /\ messages < MaxMessages
  /\ server.OpenPacketId # 0
  /\ ~IsPaused(server)
  /\ server.connected /\ server.exists /\ ~server.Closing
  /\ server' = SendBunch([server EXCEPT !.bPausedUntilReliableACK = FALSE],
                         [bReliable |-> FALSE, bClose |-> FALSE,
                          Data |-> Units(messages + 1, size, TRUE)], TRUE)
  /\ messages' = messages + 1
  /\ UNCHANGED <<client, settled, accepted, told, openings, lost>>

\* Close, whose bunch has no data, and the messages that close their channel.
Close(size) ==
  /\ size > 0 => messages < MaxMessages
  /\ Send(TRUE, TRUE, size, size > 0)

Flush ==
  /\ server.connected /\ server.SendBuffer # << >>
  /\ server' = FlushNet(server)
  /\ UNCHANGED <<client, settled, accepted, told, openings, messages, lost>>

\* ReceivedPacket at the client.
Arrive ==
  /\ settled < Len(server.network)
  /\ settled' = settled + 1
  /\ client' = DispatchPacket(client, server.network[settled'], settled')
  /\ accepted' = IF client'.bSkipAck THEN accepted ELSE accepted \cup {settled'}
  /\ UNCHANGED <<server, told, openings, messages, lost>>

LosePacket ==
  /\ lost < MaxLost
  /\ settled < Len(server.network)
  /\ settled' = settled + 1
  /\ lost' = lost + 1
  /\ UNCHANGED <<server, client, accepted, told, openings, messages>>

\* HandlePacketNotification for one packet: the channel may be gone.
HandlePacketNotification(s, id, acked) ==
  IF ~s.exists THEN s
  ELSE IF acked THEN ReceivedAck(s, id) ELSE ReceivedNak(s, id)

AfterNotifications(s, first, last, acked) ==
  LET after[n \in 0 .. last - first] ==
        IF n = 0 THEN s
        ELSE HandlePacketNotification(after[n - 1], first + n, first + n \in acked)
  IN  after

\* The end of ReceivedPacket, which a wait for a flush returns before.
CloseChannels(s, reached) ==
  LET closed == IF reached /\ s.ChannelsToClose /\ s.exists THEN CleanUp(s) ELSE s
  IN  [closed EXCEPT !.ChannelsToClose = FALSE]

\* ReceivedPacket at the server: a header with the fate of packets up to id.
Notify(id, reached) ==
  /\ server.connected
  /\ id \in told + 1 .. settled
  /\ server' = CloseChannels(AfterNotifications(server, told, id, accepted)[id - told], reached)
  /\ told' = id
  /\ UNCHANGED <<client, settled, accepted, openings, messages, lost>>

\* While its packet layer waits for a flush, the server handles the
\* notifications of a packet and nothing else of it.
NotifyInWait == FlushWaits /\ \E id \in told + 1 .. settled : Notify(id, FALSE)

Next ==
  \/ CreateChannel
  \/ \E size \in ReliableSizes : SendReliable(size)
  \/ \E size \in PropertySizes : ReplicateActor(size)
  \/ \E size \in ClosingSizes : Close(size)
  \/ Flush
  \/ Arrive
  \/ LosePacket
  \/ \E id \in told + 1 .. settled : Notify(id, TRUE)
  \/ NotifyInWait

Spec == Init /\ [][Next]_vars

\* What Arrive and LosePacket have in common, and what Notify always does.
Settle == settled < Len(server.network) /\ settled' = settled + 1
Tell == server.connected /\ told' \in told + 1 .. settled

\* A connection's tick flushes what is written, packets get their fate, and
\* the client's ticks send what tells the server of it.
Fairness ==
  /\ WF_vars(Flush)
  /\ WF_settled(Settle)
  /\ WF_told(Tell)

FairSpec == Spec /\ Fairness

-----------------------------------------------------------------------------
(* Properties.                                                             *)

Unit == [message : Nat, part : Nat, of : Nat, update : BOOLEAN]
Bunch == [bReliable : BOOLEAN, bOpen : BOOLEAN, bClose : BOOLEAN,
          bPartial : BOOLEAN, bPartialInitial : BOOLEAN, bPartialFinal : BOOLEAN,
          ChSequence : Nat, Data : Seq(Unit)]
OutBunch == [bunch : Bunch, PacketId : Nat, ReceivedAck : BOOLEAN]
Stream == Seq(Unit \cup {CloseMark})
Handled == [bReliable : BOOLEAN, bClose : BOOLEAN, Data : Seq(Unit)]

SenderState ==
  [exists : BOOLEAN, OpenPacketId : Nat, OpenAcked : BOOLEAN, Closing : BOOLEAN,
   bPausedUntilReliableACK : BOOLEAN, OutRec : Seq(OutBunch), OutReliable : Nat,
   SendBuffer : Seq(Bunch), AllowMerge : BOOLEAN, ChannelsToClose : BOOLEAN,
   connected : BOOLEAN, network : Seq(Seq(Bunch)), sent : Stream,
   numbered : Seq([bunch : Bunch, upto : Stream])]

ReceiverState ==
  [exists : BOOLEAN, OpenAcked : BOOLEAN, InRec : Seq(Bunch),
   InPartialBunch : Bunch \cup {None}, InReliable : Nat, bSkipAck : BOOLEAN,
   errors : Seq(STRING), received : Seq(Handled), stream : Stream]

TypeOK ==
  /\ server \in SenderState /\ ~server.ChannelsToClose
  /\ client \in ReceiverState
  /\ settled \in Nat /\ told \in Nat /\ told <= settled
  /\ accepted \in SUBSET (1 .. settled)
  /\ {openings, messages, lost} \subseteq Nat

\* What the client handles of the reliable bunches, over all the channels
\* opened on the index, is what the server sent: in order, once, complete.
Promise == INSTANCE ReliableStream WITH
  sent <- server.sent, received <- client.stream
StreamSpec == Promise!Spec

NoBunchErrors == client.errors = << >>

WholeMessages == \A i \in DOMAIN client.received :
  LET data == client.received[i].Data
  IN  \A k \in DOMAIN data :
        /\ data[k].part = 1 \/ (k > 1 /\ data[k - 1] = [data[k] EXCEPT !.part = @ - 1])
        /\ data[k].part < data[k].of => k < Len(data)

\* Types, and: whatever was split, merged, lost and sent again, the client
\* handles whole messages, the parts of one never joined with those of another;
\* no bunch of a server that keeps to the code is an error to it, and no
\* channel is closed while bunches of it wait ("Close Anomaly").
ClientAgrees == TypeOK /\ NoBunchErrors /\ WholeMessages

\* The client never handles a property update after a later one: pausing a
\* channel for an update that was made reliable keeps it from being overtaken.
UpdatesInOrder == \A i, j \in DOMAIN client.received :
  LET earlier == client.received[i].Data
      later == client.received[j].Data
  IN  \A k \in DOMAIN earlier, m \in DOMAIN later :
        /\ i < j \/ (i = j /\ k < m)
        /\ earlier[k].update /\ later[m].update
        => earlier[k].message <= later[m].message

\* The server is not told that a packet arrived unless the client processed
\* its bunches, or keeps them until it can: "We don't want the sender to think
\* this bunch was processed when it really wasn't".
Processed(bunch) ==
  IF bunch.bReliable
  THEN \/ bunch.ChSequence <= client.InReliable
       \/ \E i \in DOMAIN client.InRec : client.InRec[i].ChSequence = bunch.ChSequence
  ELSE \/ bunch.bPartial /\ ~bunch.bPartialFinal
       \/ \E i \in DOMAIN client.received :
          ToSet(bunch.Data) \subseteq ToSet(client.received[i].Data)

AckedMeansProcessed == \A id \in accepted :
  \A i \in DOMAIN server.network[id] : Processed(server.network[id][i])

\* The server takes its channel for open at the client only when it is, or
\* was: all parts of the open bunch are there.
OpenAckedIsTrue ==
  server.exists /\ server.OpenAcked =>
    \/ client.exists /\ client.OpenAcked
    \/ client.received # << >> /\ Last(client.received).bClose

\* A channel is given up only when the client has handled all of it, close
\* included, so the next channel on the index starts with a client ready for
\* it: "If a close has been acknowledged in sequence, we're done".
CleanedUpWhenDone ==
  server.connected /\ ~server.exists => /\ client.stream = server.sent
                                        /\ ~client.exists

\* What is sent reliably arrives: the client catches up with the server again
\* and again, unless the connection closes.
EventuallyReceived ==
  []<>(client.stream = server.sent \/ ~server.connected)

\* A channel that was closed is cleaned up in the end, and its index is free
\* again, even when packets are lost.
CloseCompletes == server.Closing ~> ~server.exists \/ ~server.connected

=============================================================================
