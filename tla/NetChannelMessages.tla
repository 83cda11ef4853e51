-------------------------- MODULE NetChannelMessages --------------------------
(***************************************************************************)
(* What NetChannelInvariant does not say: that the messages stay whole,    *)
(* the unreliable ones too, and that a property update is never handled    *)
(* after a later one.  Again the parts are about a sender s and a client c.*)
(***************************************************************************)
EXTENDS NetChannelInvariant

-----------------------------------------------------------------------------
(* Whole messages, and the parts of one.                                   *)

NextPart(unit) == [unit EXCEPT !.part = @ + 1]
Continues(a, b) == a \in Unit /\ b = NextPart(a)
PartOf(unit) == unit.part \in 1 .. unit.of

Whole(x) == \A k \in DOMAIN x : x[k] \in Unit =>
  /\ PartOf(x[k])
  /\ x[k].part # 1 => k # 1 /\ Continues(x[k - 1], x[k])
  /\ x[k].part # x[k].of => k # Len(x) /\ Continues(x[k], x[k + 1])

\* Some of the parts of one message, one after another.
Parts(x) ==
  /\ x # << >>
  /\ \A k \in DOMAIN x : PartOf(x[k]) /\ (k # 1 => Continues(x[k - 1], x[k]))
Begins(x) == Parts(x) /\ x[1].part = 1
Ends(x) == x[Len(x)].part = x[Len(x)].of

\* What an unreliable bunch carries.
DataRight(bunch) ==
  IF bunch.bPartial
  THEN /\ Parts(bunch.Data)
       /\ bunch.bPartialInitial => Begins(bunch.Data)
       /\ bunch.bPartialFinal => Ends(bunch.Data)
  ELSE Whole(bunch.Data)

-----------------------------------------------------------------------------
(* Updates in order.                                                       *)

IsUpdate(unit) == unit \in Unit /\ unit.update

NoLater(A, B) == \A a \in A, b \in B :
  IsUpdate(a) /\ IsUpdate(b) => a.message <= b.message

InOrder(x) == \A k, n \in DOMAIN x :
  k < n /\ IsUpdate(x[k]) /\ IsUpdate(x[n]) => x[k].message <= x[n].message

Below(A, m) == \A a \in A : IsUpdate(a) => a.message <= m

-----------------------------------------------------------------------------
(* The sender's packets, bunch by bunch.                                   *)

Packet(s, id) ==
  IF id \in DOMAIN s.network THEN s.network[id]
  ELSE IF id = Len(s.network) + 1 THEN s.SendBuffer
  ELSE << >>

\* The units of the unreliable bunches after the j-th of packet id.
IsAhead(id, j, n, k) == n > id \/ (n = id /\ k > j)
UnitsAhead(s, id, j) ==
  UNION {UNION {ToSet(Packet(s, n)[k].Data) :
                  k \in {i \in DOMAIN Packet(s, n) :
                           IsAhead(id, j, n, i) /\ ~Packet(s, n)[i].bReliable}} :
           n \in 1 .. Len(s.network) + 1}

\* A bunch that goes on is followed by the next part; after the last bunch that
\* was written, units of U may still be followed.
Joins(unit, bunch) ==
  /\ ~bunch.bReliable /\ bunch.bPartial /\ ~bunch.bPartialInitial
  /\ Continues(unit, bunch.Data[1])

FollowedIn(s, id, j, U) ==
  LET packet == Packet(s, id)
      unit == Last(packet[j].Data)
  IN  IF j # Len(packet) THEN Joins(unit, packet[j + 1])
      ELSE IF Packet(s, id + 1) # << >> THEN Joins(unit, Packet(s, id + 1)[1])
      ELSE unit \in U

Chained(s, U) == \A id \in Nat : \A j \in DOMAIN Packet(s, id) :
  ~Packet(s, id)[j].bReliable /\ GoesOn(Packet(s, id)[j]) => FollowedIn(s, id, j, U)

\* The packets hold messages up to m, in order but for what is sent again.
WireRight(s, m) ==
  /\ \A id \in DOMAIN s.network : s.network[id] # << >>
  /\ \A id \in Nat : \A bunch \in InPacket(s, id) :
       /\ Below(ToSet(bunch.Data), m)
       /\ ~bunch.bReliable => DataRight(bunch) /\ InOrder(bunch.Data)
  /\ \A id \in Nat : \A j \in DOMAIN Packet(s, id) :
       NoLater(ToSet(Packet(s, id)[j].Data), UnitsAhead(s, id, j))

MergesWhole(s) ==
  s.AllowMerge /\ s.SendBuffer # << >> => ~Last(s.SendBuffer).bPartial

\* Every update that was sent reliably is part of a message that was released; or
\* the channel is paused.
Settled(s) == \A n \in DOMAIN s.sent : IsUpdate(s.sent[n]) =>
  \E k \in 0 .. Released(s) : ~InMessage(s, k) /\ n <= Len(Upto(s, k))

MessagesRight(s, m) ==
  /\ WireRight(s, m) /\ MergesWhole(s) /\ Chained(s, {})
  /\ \A k \in 0 .. Count(s) : ~InMessage(s, k) => Whole(Upto(s, k))
  /\ InOrder(s.sent) /\ Below(ToSet(s.sent), m)
  /\ s.bPausedUntilReliableACK \/ Settled(s)

-----------------------------------------------------------------------------
(* The client, with units A of unreliable bunches still ahead of it.       *)

HandledUnits(c) == UNION {ToSet(c.received[i].Data) : i \in DOMAIN c.received}
Pending(c, s) == {s.sent[n] : n \in Len(c.stream) + 1 .. Len(s.sent)}

\* The stream it has handled ends with a message.
EndsMessage(c, s) == \E k \in 0 .. InNumber(c) :
  /\ ~InMessage(s, k) /\ c.stream = Upto(s, k)
  /\ \A n \in k + 1 .. InNumber(c) : InMessage(s, n)

HandledRight(c, s, m, A) ==
  /\ \A i \in DOMAIN c.received :
       /\ Whole(c.received[i].Data) /\ InOrder(c.received[i].Data)
       /\ \A j \in DOMAIN c.received : i < j =>
            NoLater(ToSet(c.received[i].Data), ToSet(c.received[j].Data))
  /\ EndsMessage(c, s)
  /\ Below(HandledUnits(c), m)
  /\ NoLater(HandledUnits(c), A) /\ NoLater(HandledUnits(c), Pending(c, s))
  /\ NoLater(A, Pending(c, s))
  /\ \A k \in 1 .. Count(s) : Has(c, k) => NoLater(ToSet(Numbered(s, k).Data), A)

\* An unreliable message that is not complete: after the j-th bunch of packet id its
\* next part is the next bunch, unless a packet was lost.
Unfinished(c) ==
  c.InPartialBunch # None /\ ~c.InPartialBunch.bReliable /\ ~c.InPartialBunch.bPartialFinal

LastPart(c, s, id, j) ==
  /\ id \in DOMAIN s.network /\ j \in DOMAIN s.network[id]
  /\ ~s.network[id][j].bReliable /\ GoesOn(s.network[id][j])
  /\ Last(s.network[id][j].Data) = Last(c.InPartialBunch.Data)

UnfinishedRight(c, s, id, j) == Unfinished(c) =>
  LET at == c.InPartialBunch.ChSequence
  IN  /\ c.exists /\ Begins(c.InPartialBunch.Data)
      /\ \/ at < id - 1
         \/ at = id - 1 /\ j = 0 /\ LastPart(c, s, at, Len(s.network[at]))
         \/ at = id /\ LastPart(c, s, at, j)

-----------------------------------------------------------------------------
(* Client and server, with the packets that are not settled ahead.         *)

MInv ==
  /\ MessagesRight(server, messages)
  /\ HandledRight(client, server, messages, UnitsAhead(server, settled + 1, 0))
  /\ UnfinishedRight(client, server, settled + 1, 0)
=============================================================================
