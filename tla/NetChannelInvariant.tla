------------------------- MODULE NetChannelInvariant -------------------------
(***************************************************************************)
(* The inductive invariant of NetChannel: where each bunch is on its way,  *)
(* how the reliable ones are numbered, and how far the client is with      *)
(* them.  Its parts are about a sending side s and a receiving side c.     *)
(***************************************************************************)
EXTENDS NetChannel

\* Not even a close takes the last place of the reliable buffer.
HasRoom == Len(server.OutRec) < RELIABLE_BUFFER

-----------------------------------------------------------------------------
(* The sender's packets: those it has sent, and the one it writes.         *)

InPacket(s, id) ==
  IF id \in DOMAIN s.network THEN ToSet(s.network[id])
  ELSE IF id = Len(s.network) + 1 THEN ToSet(s.SendBuffer)
  ELSE {}

\* A bunch is whole, or one of the parts of a message.
GoesOn(bunch) == bunch.bPartial /\ ~bunch.bPartialFinal
Starts(bunch) == ~bunch.bPartial \/ bunch.bPartialInitial

Sound(bunch) ==
  /\ bunch.bPartialInitial => bunch.bPartial /\ ~bunch.bPartialFinal
  /\ bunch.bClose => ~GoesOn(bunch)
  /\ ~bunch.bReliable => ~bunch.bOpen /\ ~bunch.bClose

PacketsRight(s) == \A id \in Nat : \A bunch \in InPacket(s, id) : Sound(bunch)

-----------------------------------------------------------------------------
(* The reliable bunches, by number                                         *)

Count(s) == Len(s.numbered)
Released(s) == Count(s) - Len(s.OutRec)
Numbered(s, k) == s.numbered[k].bunch
Upto(s, k) == IF k = 0 THEN << >> ELSE s.numbered[k].upto

\* The bunch after number k is the first of a channel; it goes on with a message.
Fresh(s, k) == k = 0 \/ Numbered(s, k).bClose
InMessage(s, k) == k # 0 /\ GoesOn(Numbered(s, k))

NumberRight(s, k) ==
  LET bunch == Numbered(s, k)
  IN  /\ bunch.bReliable /\ bunch.ChSequence = InitReliable + k /\ Sound(bunch)
      /\ bunch.bOpen <=> Fresh(s, k - 1)
      /\ Starts(bunch) <=> ~InMessage(s, k - 1)
      /\ s.numbered[k].upto = Upto(s, k - 1) \o Carried(bunch.Data, bunch.bClose)

NumbersRight(s) ==
  /\ Len(s.OutRec) <= Count(s) /\ s.OutReliable = InitReliable + Count(s)
  /\ \A k \in 1 .. Count(s) : NumberRight(s, k)
  /\ \A i \in DOMAIN s.OutRec : s.OutRec[i].bunch = Numbered(s, Released(s) + i)
  /\ \A k \in Released(s) + 1 .. Count(s) - 1 : ~Numbered(s, k).bClose

\* A bunch that is not acknowledged is in the packet it is noted with, which the
\* sender was not told of, and those packets have no other reliable bunches.  In a
\* nak of packet t, the bunches of t are still to be written again after the i-th.
Placed(s, t, i) ==
  /\ \A n \in DOMAIN s.OutRec : ~s.OutRec[n].ReceivedAck =>
       /\ s.OutRec[n].PacketId > t \/ (n > i /\ s.OutRec[n].PacketId = t)
       /\ s.OutRec[n].bunch \in InPacket(s, s.OutRec[n].PacketId)
  /\ \A id \in Nat : \A bunch \in InPacket(s, id) : id > t /\ bunch.bReliable =>
       \E n \in DOMAIN s.OutRec : /\ s.OutRec[n].bunch = bunch
                                  /\ s.OutRec[n].PacketId = id
                                  /\ ~s.OutRec[n].ReceivedAck

\* A reliable bunch may be merged with the last bunch of the packet: it is the
\* last that was numbered, and is in the packet once.
Mergeable(s) == s.AllowMerge /\ s.SendBuffer # << >> /\ Last(s.SendBuffer).bReliable

MergesRight(s) == Mergeable(s) =>
    /\ Last(s.SendBuffer) = Numbered(s, Count(s)) /\ ~Last(s.SendBuffer).bPartial
    /\ Last(s.SendBuffer) \notin ToSet(Front(s.SendBuffer))

\* The channel has sent nothing; or its open bunch is in the buffer, or was
\* released with all of its message.
ChannelRight(s) ==
  /\ ~s.exists => s.OpenPacketId = 0
  /\ s.OpenPacketId = 0 =>
       s.OutRec = << >> /\ Fresh(s, Count(s)) /\ ~s.Closing /\ ~s.OpenAcked
  /\ s.OpenPacketId # 0 =>
       /\ Count(s) # 0 /\ (s.Closing <=> Numbered(s, Count(s)).bClose)
       /\ \/ \E i \in DOMAIN s.OutRec : s.OutRec[i].bunch.bOpen
          \/ \E n \in 1 .. Released(s) :
               /\ ~GoesOn(Numbered(s, n))
               /\ \A m \in n .. Released(s) : Numbered(s, m).bClose => m = Count(s)
  /\ s.OpenAcked => \A i \in DOMAIN s.OutRec : ~s.OutRec[i].bunch.bOpen
  /\ s.ChannelsToClose => s.OpenPacketId # 0 /\ s.Closing /\ s.OutRec = << >>

SendingRight(s, t) ==
  /\ s \in SenderState
  /\ PacketsRight(s) /\ NumbersRight(s) /\ Placed(s, t, Len(s.OutRec))

SenderRight(s, t) ==
  /\ SendingRight(s, t) /\ MergesRight(s) /\ ChannelRight(s)
  /\ ~InMessage(s, Count(s)) /\ s.sent = Upto(s, Count(s))

-----------------------------------------------------------------------------
(* The client, which has handled the reliable bunches up to InNumber.      *)

InNumber(c) == c.InReliable - InitReliable

Has(c, k) ==
  \/ k <= InNumber(c)
  \/ \E i \in DOMAIN c.InRec : c.InRec[i].ChSequence = InitReliable + k

\* The bunches that wait, in order; the next one may be there in the midst of a
\* packet (gap 0), and is not when it is done (gap 1).
QueueRight(c, s, gap) ==
  /\ \A i \in DOMAIN c.InRec :
       \E k \in InNumber(c) + 1 + gap .. Count(s) : c.InRec[i] = Numbered(s, k)
  /\ \A i, j \in DOMAIN c.InRec :
       i <= j => c.InRec[j].ChSequence - c.InRec[i].ChSequence >= j - i

\* A message that is not complete is in the partial bunch, apart from the rest.
PartialRight(c, s) ==
  LET part == c.InPartialBunch
      k == InNumber(c)
  IN  /\ part # None /\ ~part.bReliable => ~part.bOpen /\ ~part.bClose
      /\ IF InMessage(s, k)
         THEN /\ part # None /\ part.bReliable /\ ~part.bPartialFinal
              /\ part.ChSequence = c.InReliable /\ (part.bOpen <=> ~c.OpenAcked)
              /\ c.stream \o part.Data = Upto(s, k)
         ELSE /\ part # None /\ part.bReliable => part.bPartialFinal
              /\ c.stream = Upto(s, k)

\* A message was completed after the last close up to number k.
Opened(s, k) == \E n \in 1 .. k :
  ~GoesOn(Numbered(s, n)) /\ \A m \in n .. k : ~Numbered(s, m).bClose

ClientRight(c, s, gap) ==
  /\ c \in ReceiverState /\ c.errors = << >>
  /\ InNumber(c) \in Released(s) .. Count(s)
  /\ QueueRight(c, s, gap) /\ PartialRight(c, s)
  /\ c.OpenAcked <=> Opened(s, InNumber(c))
  /\ c.OpenAcked => c.exists
  /\ c.exists => c.OpenAcked \/ InMessage(s, InNumber(c)) \/ c.InRec # << >>
  /\ InNumber(c) # 0 /\ Numbered(s, InNumber(c)).bClose =>
       c.received # << >> /\ Last(c.received).bClose

\* A bunch that may be merged with has not been sent.
MergeIsUnseen(c, s) == Mergeable(s) => ~Has(c, Count(s))

\* What is acknowledged the client has, and it has processed what it acknowledges.
AcksRight(c, s) == \A i \in DOMAIN s.OutRec :
  s.OutRec[i].ReceivedAck => Has(c, Released(s) + i)

ProcessedBy(c, bunch) ==
  IF bunch.bReliable
  THEN \/ bunch.ChSequence <= c.InReliable
       \/ \E i \in DOMAIN c.InRec : c.InRec[i].ChSequence = bunch.ChSequence
  ELSE \/ bunch.bPartial /\ ~bunch.bPartialFinal
       \/ \E i \in DOMAIN c.received : ToSet(bunch.Data) \subseteq ToSet(c.received[i].Data)

AcceptedRight(c, s, acked) == \A id \in acked :
  \A i \in DOMAIN s.network[id] : ProcessedBy(c, s.network[id][i])

-----------------------------------------------------------------------------

IInv ==
  /\ TypeOK /\ settled <= Len(server.network)
  /\ SenderRight(server, told) /\ ClientRight(client, server, 1)
  /\ MergeIsUnseen(client, server) /\ AcksRight(client, server)
  /\ AcceptedRight(client, server, accepted)
=============================================================================
