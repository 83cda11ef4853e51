-------------------- MODULE PropertyReplicationInvariant --------------------
(***************************************************************************)
(* What every state of the replication of an actor keeps, and every step   *)
(* preserves: where a change is on its way, from the shared change lists   *)
(* through the history of the connection, its packets and the queue of the *)
(* client, and that the values on that way are in order.                   *)
(***************************************************************************)
EXTENDS PropertyReplication

\* The packets that have an answer, and the reliable bunches that are released.
Answered == network.OutPacketId - Len(network.packets)
Finished == channel.OutReliable - Len(channel.OutRec)

Packet(k) == network.packets[k]
Bunch(i) == channel.OutRec[i].bunch

\* a has no property newer than b has it.
Older(a, b) == \A p \in Prop : p \in DOMAIN a /\ p \in DOMAIN b => a[p] <= b[p]

Lists(sh) == {sh.ChangeHistory[i % MAX_CHANGE_HISTORY] : i \in sh.HistoryStart .. sh.HistoryEnd - 1}

-----------------------------------------------------------------------------
\* The comparison: the change lists are those of all changes, and what a
\* connection replicates is what the actor has.
Compares ==
    /\ shared.HistoryStart <= shared.HistoryEnd
    /\ shared.HistoryEnd - shared.HistoryStart < MAX_CHANGE_HISTORY
    /\ sending.LastChangelistIndex <= shared.HistoryEnd
    /\ \A p \in Prop :
         /\ object.value[p] <= object.changes
         /\ shared.StaticBuffer[p] <= object.value[p]
         /\ shared.StaticBuffer[p] # 0 => p \in UNION Lists(shared)
         /\ /\ Condition[p] # "InitialOnly"
            /\ shared.comparedThisFrame \/ (p \in PushModelProperty /\ p \notin object.dirty)
            => object.value[p] = shared.StaticBuffer[p]

\* Nothing has happened on a channel that is not open.
Unopened ==
    ~channel.opened =>
        /\ sending.history = <<>> /\ sending.LastChangelistIndex = 0
        /\ sending.RepFlags = NoFlags
        /\ channel.OutRec = <<>> /\ channel.OutReliable = 0 /\ ~channel.OpenAcked
        /\ network.packets = <<>> /\ ~client.OpenAcked

\* The history of the connection: sent items in the order of their packets,
\* of which the answered ones are acknowledged or to be sent again.
HistoryInOrder ==
    /\ network.OutAckPacketId <= Answered /\ Len(network.packets) <= network.OutPacketId
    /\ \A i \in DOMAIN sending.history :
         LET item == sending.history[i]
         IN /\ item.First <= item.Last /\ item.Last <= network.OutPacketId
            /\ \A j \in 1 .. i - 1 : sending.history[j].Last < item.First
            /\ item.Resend => item.First <= Answered
            /\ item.Last <= Answered /\ ~item.Resend => item.Last <= network.OutAckPacketId

\* What is not active, and what is sent again after the open bunch.
Activity ==
    /\ channel.opened => /\ sending.InactiveParents = InactiveUnder(sending.RepFlags)
                         /\ sending.InactiveChangelist \subseteq sending.InactiveParents
    /\ sending.bOpenAckedCalled => channel.OpenAcked
    /\ channel.OpenAcked => channel.opened /\ \A i \in DOMAIN channel.OutRec : ~Bunch(i).bOpen

\* The reliable bunches: numbered without a gap, the open bunch first, then at
\* most the parts of one large update, for which the channel is paused.
ReliableInOrder ==
    /\ Len(channel.OutRec) <= channel.OutReliable
    /\ \A i \in DOMAIN channel.OutRec :
         /\ Bunch(i).bReliable /\ Bunch(i).ChSequence = Finished + i
         /\ Bunch(i).initial \/ Bunch(i).final
         /\ Bunch(i).bOpen \/ (channel.bPausedUntilReliableACK /\ ~sending.bLastUpdateEmpty)
         /\ \A j \in 1 .. i - 1 : /\ Bunch(i).bOpen => Bunch(j).bOpen
                                  /\ Older(Bunch(j).values, Bunch(i).values)
         /\ i > 1 /\ ~Bunch(i).initial => /\ Bunch(i - 1).initial /\ ~Bunch(i - 1).final
                                         /\ Bunch(i).bOpen = Bunch(i - 1).bOpen
         /\ i > 1 /\ Bunch(i).initial => Bunch(i - 1).final /\ ~Bunch(i).bOpen
    /\ channel.OutRec # <<>> => Bunch(Len(channel.OutRec)).final

\* The packets under way: answered by the client in their order, the
\* unreliable ones before those of a large update; a reliable one is that of
\* its bunch.
PacketsInOrder ==
    /\ \A k \in DOMAIN network.packets :
         LET bunch == Packet(k).bunch
         IN /\ bunch.bReliable =>
                 \E i \in DOMAIN channel.OutRec : /\ channel.OutRec[i].PacketId = Answered + k
                                                  /\ ~channel.OutRec[i].ReceivedAck
            /\ ~bunch.bReliable => ~bunch.bOpen /\ (bunch.initial \/ bunch.final)
            /\ \A l \in 1 .. k - 1 :
                 /\ Packet(k).fate # "sent" => Packet(l).fate # "sent"
                 /\ ~bunch.bReliable /\ Packet(l).bunch.bReliable => Packet(l).bunch.bOpen
                 /\ ~bunch.bReliable /\ ~Packet(l).bunch.bReliable =>
                      Older(Packet(l).bunch.values, bunch.values)
    /\ \A i \in DOMAIN channel.OutRec :
         ~channel.OutRec[i].ReceivedAck =>
            /\ channel.OutRec[i].PacketId - Answered \in DOMAIN network.packets
            /\ Packet(channel.OutRec[i].PacketId - Answered).bunch = Bunch(i)

\* An unreliable update is newer than the open bunch and older than a large one.
UpdatesInBetween ==
    \A k \in DOMAIN network.packets : ~Packet(k).bunch.bReliable =>
        \A i \in DOMAIN channel.OutRec :
            IF Bunch(i).bOpen THEN Older(Bunch(i).values, Packet(k).bunch.values)
            ELSE Older(Packet(k).bunch.values, Bunch(i).values)

\* Nothing is newer than what was compared last.
NothingNewer ==
    /\ Older(client.value, shared.StaticBuffer)
    /\ \A i \in DOMAIN channel.OutRec : Older(Bunch(i).values, shared.StaticBuffer)
    /\ \A k \in DOMAIN network.packets : Older(Packet(k).bunch.values, shared.StaticBuffer)

\* What the client c (a value of client) has processed, and that what it has
\* not is newer.
ClientInOrder(c) ==
    /\ Finished <= c.InReliable /\ c.InReliable <= channel.OutReliable
    /\ \A i \in DOMAIN channel.OutRec :
         /\ Bunch(i).ChSequence <= c.InReliable /\ Bunch(i).final => Older(Bunch(i).values, c.value)
         /\ Bunch(i).ChSequence > c.InReliable => Older(c.value, Bunch(i).values)
         /\ c.OpenAcked /\ Bunch(i).bOpen => Bunch(i).ChSequence <= c.InReliable
         /\ Bunch(i).ChSequence = c.InReliable + 1 /\ ~Bunch(i).initial =>
              /\ c.InPartialBunch # NoPart /\ c.InPartialBunch.bReliable
              /\ c.InPartialBunch.ChSequence = c.InReliable
    /\ \/ c.OpenAcked \/ ~channel.opened
       \/ \E i \in DOMAIN channel.OutRec : Bunch(i).bOpen /\ Bunch(i).ChSequence > c.InReliable
    /\ \A k \in DOMAIN network.packets :
         ~Packet(k).bunch.bReliable /\ Packet(k).fate = "sent" =>
            Older(c.value, Packet(k).bunch.values)

\* The client has a reliable bunch, processed or in its queue.
Received(bunch) == bunch.ChSequence <= client.InReliable \/ bunch \in client.InRec

\* The queue of the client, and what it has answered.
Queue ==
    /\ \A b \in client.InRec : /\ b.ChSequence > client.InReliable + 1
                               /\ \E i \in DOMAIN channel.OutRec : b = Bunch(i)
    /\ \A i \in DOMAIN channel.OutRec :
         /\ channel.OutRec[i].ReceivedAck => Received(Bunch(i))
         /\ Received(Bunch(i)) /\ ~Bunch(i).bOpen =>
              \A k \in DOMAIN network.packets :
                  ~Packet(k).bunch.bReliable => Packet(k).fate # "sent"
    /\ \A k \in DOMAIN network.packets :
         LET bunch == Packet(k).bunch
         IN Packet(k).fate = "ack" =>
              /\ bunch.bReliable => Received(bunch)
              /\ ~bunch.bReliable /\ bunch.final => Older(bunch.values, client.value)

\* Where the client gets the newest value of a property from.
OnItsWay(p) ==
    \/ client.value[p] = shared.StaticBuffer[p]
    \/ p \in Gathered(sending, shared)
    \/ p \in sending.InactiveChangelist \cup sending.PreOpenAckHistory
    \/ \E i \in DOMAIN sending.history :
         /\ p \in sending.history[i].Changed
         /\ \/ sending.history[i].Resend
            \/ \E k \in DOMAIN network.packets :
                 /\ sending.history[i].Last = Answered + k
                 /\ ~Packet(k).bunch.bReliable /\ Packet(k).bunch.final
                 /\ p \in DOMAIN Packet(k).bunch.values
                 /\ Packet(k).bunch.values[p] = shared.StaticBuffer[p]
    \/ \E i \in DOMAIN channel.OutRec :
         /\ Bunch(i).final /\ p \in DOMAIN Bunch(i).values
         /\ Bunch(i).values[p] = shared.StaticBuffer[p]

NewestOnItsWay == channel.opened => \A p \in Prop : OnItsWay(p)

\* The inductive invariant.
IInv ==
    /\ HistoryAgrees
    /\ Compares /\ Unopened /\ HistoryInOrder /\ Activity
    /\ ReliableInOrder /\ PacketsInOrder /\ UpdatesInBetween /\ NothingNewer
    /\ ClientInOrder(client) /\ Queue /\ NewestOnItsWay

\* No bunch that is dispatched from the queue asks for its packet not to be
\* acknowledged, which it has been (DataChannel.cpp:715).
QueueNeverSkips ==
    (\E i \in DOMAIN network.packets : network.packets[i].fate = "sent") =>
        LET bunch == network.packets[OldestInFlight].bunch
            queued == client.InRec \cup {bunch}
        IN bunch.bReliable /\ bunch.ChSequence > client.InReliable =>
              \A n \in client.InReliable + 1 .. LastInOrder(queued) : ~Dispatched(queued)[n].skipAck

=============================================================================
