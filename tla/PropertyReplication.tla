------------------------ MODULE PropertyReplication ------------------------
(***************************************************************************)
(* How the properties of an actor reach one client: the comparison with    *)
(* the shadow state that all connections share and its circular history of *)
(* change lists (FRepChangelistState), the change lists one connection     *)
(* sent and has no answer for (FSendingRepState), the actor channel, and   *)
(* packets that are lost.  A change list is a set of properties; the       *)
(* values of a property only grow, so that an old one can be told.         *)
(***************************************************************************)
EXTENDS Integers, FiniteSets, SequencesExt

CONSTANTS Prop,
          Condition,          \* the ELifetimeCondition of each property
          PushModelProperty,  \* those that are compared only when marked dirty
          MAX_CHANGE_HISTORY, \* FRepChangelistState::MAX_CHANGE_HISTORY
          MAX_SENT_HISTORY,   \* FSendingRepState::MAX_CHANGE_HISTORY
          Sizes,              \* how large a bunch may get
          MaxChanges,         \* bound of the model: values that are set
          MaxOwnerChanges,    \* bound of the model: changes of the net owner
          MaxLosses           \* bound of the model: packets lost or not acked

ASSUME ReplicationAssumption ==
    /\ Condition \in [Prop -> {"None", "OwnerOnly", "InitialOnly"}]
    /\ PushModelProperty \subseteq Prop
    /\ MAX_CHANGE_HISTORY \in Nat /\ MAX_CHANGE_HISTORY > 1
    /\ MAX_SENT_HISTORY \in Nat /\ MAX_SENT_HISTORY > 1
    /\ Sizes \subseteq {"whole", "partial", "large"} /\ Sizes # {}
    /\ {MaxChanges, MaxOwnerChanges, MaxLosses} \subseteq Nat

VARIABLES
    object,   \* the actor: its values, what is marked dirty, its net owner
    shared,   \* FRepChangelistState, one for all connections
    sending,  \* FSendingRepState of the connection, and its replicator
    channel,  \* the UActorChannel of the server
    network,  \* the packets without an answer
    client    \* the channel and the actor of the client

vars == <<object, shared, sending, channel, network, client>>

-----------------------------------------------------------------------------
Value == 0 .. MaxChanges
NoFlags == [bNetInitial |-> FALSE, bNetOwner |-> FALSE]
NoPart == [ChSequence |-> 0]
Item(changed) == [Changed |-> changed, Resend |-> FALSE, First |-> 0, Last |-> 0]

\* The comparisons are counted up to two, all that is asked of their count: it
\* always has moved when a connection replicates, for it or another one has
\* compared in the frame.
Counted(n) == IF n > 2 THEN 2 ELSE n

\* comparedThisFrame says that LastReplicationFrame is the ReplicationFrame.
Init ==
    /\ object = [value |-> [p \in Prop |-> 0], dirty |-> {}, bNetOwner |-> FALSE,
                 changes |-> 0, ownerChanges |-> 0]
    /\ shared = [ChangeHistory |-> [i \in 0 .. MAX_CHANGE_HISTORY - 1 |-> {}],
                 HistoryStart |-> 0, HistoryEnd |-> 0,
                 StaticBuffer |-> [p \in Prop |-> 0], CompareIndex |-> 0,
                 comparedThisFrame |-> FALSE]
    /\ sending = [history |-> <<>>, NumNaks |-> 0, LastChangelistIndex |-> 0,
                  LastCompareIndex |-> 0,
                  RepFlags |-> NoFlags, InactiveParents |-> {}, InactiveChangelist |-> {},
                  bOpenAckedCalled |-> FALSE, PreOpenAckHistory |-> {},
                  bLastUpdateEmpty |-> FALSE]
    /\ channel = [opened |-> FALSE, OpenAcked |-> FALSE, SpawnAcked |-> FALSE,
                  bPausedUntilReliableACK |-> FALSE, OutRec |-> <<>>, OutReliable |-> 0]
    /\ network = [packets |-> <<>>, OutPacketId |-> 0, OutAckPacketId |-> 0, losses |-> 0]
    /\ client = [OpenAcked |-> FALSE, value |-> [p \in Prop |-> 0],
                 InReliable |-> 0, InRec |-> {}, InPartialBunch |-> NoPart]

-----------------------------------------------------------------------------
(***************************************************************************)
(* FRepLayout: comparing.                                                  *)
(***************************************************************************)

\* Mutant of Compared: a property that is sent with the open bunch only is
\* compared when it is dirty, like the others.
ComparedMutantDirtyOnly(bNetInitial) ==
    {p \in Prop : /\ p \notin PushModelProperty \/ p \in object.dirty
                  /\ bNetInitial \/ Condition[p] # "InitialOnly"}

\* CompareParentProperties and CompareParentProperty.
Compared(bNetInitial) ==
    {p \in Prop : /\ \/ p \notin PushModelProperty \/ p \in object.dirty
                     \/ bNetInitial /\ Condition[p] = "InitialOnly"
                  /\ bNetInitial \/ Condition[p] # "InitialOnly"}

\* Mutant of MakeRoom: the oldest change list is dropped.
MakeRoomMutantDrop(sh) ==
    IF sh.HistoryEnd - sh.HistoryStart = MAX_CHANGE_HISTORY
    THEN [sh EXCEPT !.HistoryStart = @ + 1]
    ELSE sh

\* A full history has its two oldest change lists merged.
MakeRoom(sh) ==
    LET first == sh.HistoryStart % MAX_CHANGE_HISTORY
        second == (sh.HistoryStart + 1) % MAX_CHANGE_HISTORY
    IN IF sh.HistoryEnd - sh.HistoryStart = MAX_CHANGE_HISTORY
       THEN [sh EXCEPT !.HistoryStart = @ + 1,
                       !.ChangeHistory[second] = @ \cup sh.ChangeHistory[first]]
       ELSE sh

CompareProperties(bNetInitial) ==
    LET changed == {p \in Compared(bNetInitial) : object.value[p] # shared.StaticBuffer[p]}
        compared == [shared EXCEPT
            !.CompareIndex = Counted(@ + 1), !.comparedThisFrame = TRUE,
            !.ChangeHistory[shared.HistoryEnd % MAX_CHANGE_HISTORY] = changed]
    IN IF changed = {} THEN compared
       ELSE MakeRoom([compared EXCEPT
                !.HistoryEnd = @ + 1,
                !.StaticBuffer = [p \in Prop |-> IF p \in changed THEN object.value[p] ELSE @[p]]])

\* Mutant of UpdateChangelistMgr: the comparison of an earlier frame will do.
UpdateChangelistMgrMutantAnyFrame(bNetInitial) ==
    IF ~bNetInitial /\ sending.LastCompareIndex > 1 THEN shared
    ELSE CompareProperties(bNetInitial)

\* One comparison in a frame is enough for all connections, except for the
\* first two of each and for its open bunch.
UpdateChangelistMgr(bNetInitial) ==
    IF ~bNetInitial /\ sending.LastCompareIndex > 1 /\ shared.comparedThisFrame THEN shared
    ELSE CompareProperties(bNetInitial)

-----------------------------------------------------------------------------
(***************************************************************************)
(* FRepLayout: what is sent.                                               *)
(***************************************************************************)

\* RebuildConditionalProperties
InactiveUnder(flags) ==
    {p \in Prop : \/ Condition[p] = "OwnerOnly" /\ ~flags.bNetOwner
                  \/ Condition[p] = "InitialOnly" /\ ~flags.bNetInitial}

\* UpdateChangelistHistory: the items that are released because they are
\* acknowledged, to be resent, or in a history that the new item fills. The
\* last two have their change lists merged into the new one.
Again(s, i) == s.history[i].Resend \/ Len(s.history) + 1 = MAX_SENT_HISTORY
Released(s) ==
    {i \in DOMAIN s.history : network.OutAckPacketId >= s.history[i].Last \/ Again(s, i)}

\* Mutant of Housekept: the naks that have been dealt with stay counted.
HousekeptMutantNaks(s, released) ==
    [s EXCEPT !.history = SubSeq([i \in DOMAIN @ |-> IF i \in released THEN Item({}) ELSE @[i]],
                                 Cardinality(released) + 1, Len(@))]

\* An item is cleared where it is, and HistoryStart moved on by one for it.
Housekept(s, released) ==
    [s EXCEPT !.history = SubSeq([i \in DOMAIN @ |-> IF i \in released THEN Item({}) ELSE @[i]],
                                 Cardinality(released) + 1, Len(@)),
              !.NumNaks = @ - Cardinality({i \in released : s.history[i].Resend})]

\* The change lists the connection has not looked at, as far as they are
\* still in the history.
Gathered(s, sh) ==
    LET from == IF s.LastChangelistIndex <= sh.HistoryStart
                THEN sh.HistoryStart ELSE s.LastChangelistIndex
    IN UNION {sh.ChangeHistory[i % MAX_CHANGE_HISTORY] : i \in from .. sh.HistoryEnd - 1}

\* A rebuilt list of newly active properties has at least its terminator, so
\* that a change of the flags never returns early.
NothingToDo(s, sh, flags) ==
    /\ s.LastChangelistIndex = sh.HistoryEnd
    /\ s.NumNaks = 0 /\ s.RepFlags = flags
    /\ ~(s.bOpenAckedCalled /\ s.PreOpenAckHistory # {})

\* ReplicateProperties: the new change list, before what is not active is
\* taken out. A property whose flags make it active again is in it.
NewlyActive(s, flags) ==
    IF s.RepFlags = flags THEN {} ELSE s.InactiveChangelist \ InactiveUnder(flags)

Changed(s, sh, flags) ==
    Gathered(s, sh) \cup NewlyActive(s, flags)
        \cup (UNION {s.history[i].Changed : i \in {j \in Released(s) : Again(s, j)}})
        \cup (IF s.bOpenAckedCalled THEN s.PreOpenAckHistory ELSE {})

\* The early return, and with something to do: what is not active is kept for
\* later, and what is becomes the newest item, if there is any.
Idle(s, sh) ==
    [Housekept(s, {i \in DOMAIN s.history : network.OutAckPacketId >= s.history[i].Last})
        EXCEPT !.LastCompareIndex = sh.CompareIndex, !.bLastUpdateEmpty = TRUE]

Replicated(s, sh, flags, changed, inactive) ==
    [Housekept(s, Released(s)) EXCEPT
        !.RepFlags = flags, !.InactiveParents = inactive,
        !.InactiveChangelist = (@ \cap inactive) \cup (changed \cap inactive),
        !.LastCompareIndex = sh.CompareIndex, !.LastChangelistIndex = sh.HistoryEnd,
        !.PreOpenAckHistory = IF s.bOpenAckedCalled THEN {} ELSE @,
        !.history = IF changed \subseteq inactive THEN @ ELSE Append(@, Item(changed \ inactive)),
        !.bLastUpdateEmpty = changed \subseteq inactive]

\* FObjectReplicator::ReceivedNak: the items that were in the packet are
\* marked to be sent again.
NakHistory(s, packet) ==
    LET hit == {i \in DOMAIN s.history : /\ ~s.history[i].Resend
                                         /\ s.history[i].First # 0
                                         /\ packet \in s.history[i].First .. s.history[i].Last}
    IN [s EXCEPT !.history = [i \in DOMAIN @ |-> [s.history[i] EXCEPT !.Resend = @ \/ i \in hit]],
                 !.NumNaks = @ + Cardinality(hit)]

\* Mutant of CanSkipUpdate: change lists that another connection has made are
\* not looked for.
CanSkipUpdateMutantOthers(s, flags) ==
    /\ ~flags.bNetInitial /\ s.RepFlags = flags
    /\ s.NumNaks = 0 /\ s.history = <<>>
    /\ s.LastCompareIndex > 1
    /\ ~(s.bOpenAckedCalled /\ s.PreOpenAckHistory # {})
    /\ object.dirty = {}

\* FObjectReplicator::CanSkipUpdate: only a class whose properties all are of
\* the push model can be left out.
CanSkipUpdate(s, flags) ==
    /\ PushModelProperty = Prop
    /\ ~flags.bNetInitial /\ s.RepFlags = flags
    /\ s.NumNaks = 0 /\ s.history = <<>>
    /\ s.LastCompareIndex > 1
    /\ ~(s.bOpenAckedCalled /\ s.PreOpenAckHistory # {})
    /\ s.LastChangelistIndex = shared.HistoryEnd
    /\ object.dirty = {}

\* Mutant of ReadyForDormancy: an update is out and not answered.
ReadyForDormancyMutantInFlight(s) ==
    s.bLastUpdateEmpty /\ s.NumNaks = 0 /\ s.bOpenAckedCalled /\ s.PreOpenAckHistory = {}

\* FObjectReplicator::ReadyForDormancy
ReadyForDormancy(s) ==
    /\ s.bLastUpdateEmpty
    /\ s.history = <<>> /\ s.NumNaks = 0
    /\ s.bOpenAckedCalled /\ s.PreOpenAckHistory = {}

-----------------------------------------------------------------------------
(***************************************************************************)
(* The actor channel of the server.                                        *)
(***************************************************************************)

\* SendBunch: the bunches of an update, one in a packet. A large one is made
\* reliable.
BunchesOf(values, size, bNetInitial) ==
    LET n == IF size = "whole" THEN 1 ELSE 2
        bReliable == bNetInitial \/ size = "large"
    IN [i \in 1 .. n |->
          [bReliable |-> bReliable,
           ChSequence |-> IF bReliable THEN channel.OutReliable + i ELSE network.OutPacketId + i,
           bOpen |-> bNetInitial, initial |-> i = 1, final |-> i = n, values |-> values]]

\* PrepBunch: reliable bunches are kept until they are acknowledged.
Kept(bunches) ==
    [i \in DOMAIN bunches |-> [bunch |-> bunches[i], PacketId |-> network.OutPacketId + i,
                              ReceivedAck |-> FALSE]]
InFlight(bunches) == [i \in DOMAIN bunches |-> [bunch |-> bunches[i], fate |-> "sent"]]

\* PostSendBunch: the new item learns the packets it is in, or is taken back
\* when its bunch will be resent until it arrives and nothing else is sent.
PostSendBunch(s, first, last, bReliable, bPausedUntilReliableACK) ==
    LET unsent == {i \in DOMAIN s.history : s.history[i].First = 0}
    IN IF unsent = {} THEN s
       ELSE IF bPausedUntilReliableACK THEN [s EXCEPT !.history = Front(@)]
       ELSE [s EXCEPT
               !.history = [i \in DOMAIN @ |-> IF i \in unsent
                               THEN [@[i] EXCEPT !.First = first, !.Last = last] ELSE @[i]],
               !.PreOpenAckHistory = IF bReliable \/ s.bOpenAckedCalled THEN @
                                     ELSE @ \cup UNION {s.history[i].Changed : i \in unsent}]

\* Mutant of Paused: the channel goes on while its reliable bunches are out.
PausedMutantNever == FALSE

\* Nothing is replicated until a large update has been acknowledged.
Paused == channel.bPausedUntilReliableACK /\ channel.OutRec # <<>>

\* ReplicateActor: the ack of the open bunch has it send again what was sent
\* unreliably before.
ForceRefresh == channel.opened /\ ~channel.SpawnAcked /\ channel.OpenAcked

Refreshed == [sending EXCEPT !.bOpenAckedCalled = @ \/ ForceRefresh]

CurrentFlags == [bNetInitial |-> ~channel.opened, bNetOwner |-> object.bNetOwner]

\* A channel that is replicated is no longer paused, and knows of the ack.
Unpaused == [channel EXCEPT !.SpawnAcked = @ \/ ForceRefresh,
                            !.bPausedUntilReliableACK = FALSE]

\* SendBunch and PostSendBunch.
SendBunch(s, values, size) ==
    LET bReliable == ~channel.opened \/ size = "large"
        bunches == BunchesOf(values, size, ~channel.opened)
        last == network.OutPacketId + Len(bunches)
    IN /\ sending' = PostSendBunch(s, network.OutPacketId + 1, last, bReliable, size = "large")
       /\ channel' = [Unpaused EXCEPT
             !.opened = TRUE, !.bPausedUntilReliableACK = size = "large",
             !.OutRec = IF bReliable THEN @ \o Kept(bunches) ELSE @,
             !.OutReliable = IF bReliable THEN @ + Len(bunches) ELSE @]
       /\ network' = [network EXCEPT !.OutPacketId = last,
                                     !.packets = @ \o InFlight(bunches)]

\* Another connection updates the actor, or sends it for the first time. This
\* one may not be reached in the frame at all: it is saturated, or the actor
\* is not relevant to it or not due.
ReplicateToOther(bNetInitial) ==
    /\ shared' = CompareProperties(bNetInitial)
    /\ object' = [object EXCEPT !.dirty = {}]
    /\ UNCHANGED <<sending, channel, network, client>>

\* ReplicateActor and ReplicateProperties, at the end of the frame. A bunch is
\* sent when it is the open bunch or has values; unless it is large, it takes
\* two parts only for more than one value. When none is sent its size is moot.
\* (The quantifiers over one element name what is used more than once.)
ReplicateActor(size) ==
    /\ ~Paused
    /\ \E sh \in {UpdateChangelistMgr(~channel.opened)} :
         /\ shared' = [sh EXCEPT !.comparedThisFrame = FALSE]
         /\ \/ /\ NothingToDo(Refreshed, sh, CurrentFlags)
               /\ size = CHOOSE z \in Sizes : TRUE
               /\ sending' = Idle(Refreshed, sh)
               /\ channel' = Unpaused
               /\ UNCHANGED network
            \/ /\ ~NothingToDo(Refreshed, sh, CurrentFlags)
               /\ \E changed \in {Changed(Refreshed, sh, CurrentFlags)},
                     inactive \in {InactiveUnder(CurrentFlags)} :
                    \E s \in {Replicated(Refreshed, sh, CurrentFlags, changed, inactive)} :
                      IF channel.opened /\ changed \subseteq inactive
                      THEN /\ size = CHOOSE z \in Sizes : TRUE
                           /\ sending' = s
                           /\ channel' = Unpaused
                           /\ UNCHANGED network
                      ELSE /\ size = "partial" => Cardinality(changed \ inactive) > 1
                           /\ SendBunch(s, [p \in changed \ inactive |-> object.value[p]], size)
    /\ object' = [object EXCEPT !.dirty = {}]
    /\ UNCHANGED client

\* ReplicateActor of an actor that has nothing new.
SkipUpdate ==
    /\ ~Paused /\ CanSkipUpdate(Refreshed, CurrentFlags)
    /\ sending' = [Refreshed EXCEPT !.bLastUpdateEmpty = TRUE]
    /\ channel' = Unpaused
    /\ UNCHANGED <<object, shared, network, client>>

\* ReceivedAcks: acknowledged bunches are released in order, the open bunch
\* only with its last part.
Releasable(OutRec) ==
    {i \in DOMAIN OutRec :
        /\ \A j \in 1 .. i : OutRec[j].ReceivedAck
        /\ \A j \in DOMAIN OutRec : OutRec[j].bunch.bOpen => OutRec[j].ReceivedAck}

ReceivedAck(packet) ==
    LET acked == [i \in DOMAIN channel.OutRec |->
                    [channel.OutRec[i] EXCEPT !.ReceivedAck = @ \/ channel.OutRec[i].PacketId = packet]]
        released == Releasable(acked)
    IN channel' = [channel EXCEPT
         !.OutRec = SubSeq(acked, Cardinality(released) + 1, Len(acked)),
         !.OpenAcked = @ \/ \E i \in released : acked[i].bunch.bOpen]

\* ReceivedNak of the channel: its reliable bunches are sent again at once, in
\* new packets, what follows the answered one behind it.
ReceivedNak(packet, waiting) ==
    LET lost == {i \in DOMAIN channel.OutRec : /\ channel.OutRec[i].PacketId = packet
                                               /\ ~channel.OutRec[i].ReceivedAck}
        Place(i) == Cardinality({j \in lost : j <= i})
        resent == [k \in 1 .. Cardinality(lost) |->
                      channel.OutRec[CHOOSE i \in lost : Place(i) = k].bunch]
    IN /\ channel' = [channel EXCEPT !.OutRec = [i \in DOMAIN @ |->
                        IF i \in lost
                        THEN [@[i] EXCEPT !.PacketId = network.OutPacketId + Place(i)]
                        ELSE @[i]]]
       /\ network' = [network EXCEPT !.packets = waiting \o InFlight(resent),
                                     !.OutPacketId = @ + Len(resent)]
       /\ sending' = NakHistory(sending, packet)

-----------------------------------------------------------------------------
(***************************************************************************)
(* The client.                                                             *)
(***************************************************************************)

Skipped(c) == [client |-> c, skipAck |-> TRUE]
Taken(c) == [client |-> c, skipAck |-> FALSE]

\* ReceivedNextBunch of a message that is complete: nothing but the open
\* bunch is processed before the channel is open, nor acknowledged.
Process(c, message) ==
    IF c.OpenAcked \/ message.bOpen
    THEN Taken([c EXCEPT !.OpenAcked = TRUE,
                         !.value = [p \in Prop |->
                            IF p \in DOMAIN message.values THEN message.values[p] ELSE @[p]]])
    ELSE Skipped(c)

\* ReceivedNextBunch: a message of two parts is put together.
ReceivedNextBunch(c, bunch) ==
    LET partial == c.InPartialBunch
        reliable == partial # NoPart /\ partial.bReliable
        next == [c EXCEPT !.InReliable = IF bunch.bReliable THEN bunch.ChSequence ELSE @]
    IN IF bunch.initial /\ bunch.final THEN Process(next, bunch)
       ELSE IF bunch.initial THEN
            IF reliable /\ ~bunch.bReliable THEN Skipped(next)
            ELSE Taken([next EXCEPT !.InPartialBunch = bunch])
       ELSE IF /\ partial # NoPart
               /\ partial.ChSequence + 1 = bunch.ChSequence
               /\ partial.bReliable = bunch.bReliable
            THEN Process([next EXCEPT !.InPartialBunch = NoPart], bunch)
            ELSE Skipped([next EXCEPT !.InPartialBunch = IF reliable THEN @ ELSE NoPart])

\* The client has its channel with the first reliable bunch it receives.
HasChannel == client.InReliable > 0 \/ client.InRec # {}

\* The last of the bunches that follow on the ones processed without a gap.
LastInOrder(queued) ==
    CHOOSE n \in {client.InReliable} \cup {b.ChSequence : b \in queued} :
        /\ \A k \in client.InReliable + 1 .. n : \E b \in queued : b.ChSequence = k
        /\ \A b \in queued : b.ChSequence # n + 1

\* The client after each of the bunches from the queue.
Dispatched(queued) ==
    LET processed[n \in client.InReliable .. LastInOrder(queued)] ==
            IF n = client.InReliable THEN Taken(client)
            ELSE ReceivedNextBunch(processed[n - 1].client,
                                   CHOOSE b \in queued : b.ChSequence = n)
    IN processed

\* ReceivedRawBunch: reliable bunches are processed once and in order; without
\* a channel the others are skipped. That a bunch from the queue is skipped
\* would be known to nobody, for its packet has been acknowledged.
ReceivedRawBunch(bunch) ==
    LET queued == client.InRec \cup {bunch}
        last == LastInOrder(queued)
    IN IF ~bunch.bReliable /\ ~HasChannel THEN Skipped(client)
       ELSE IF ~bunch.bReliable THEN ReceivedNextBunch(client, bunch)
       ELSE IF bunch.ChSequence <= client.InReliable THEN Taken(client)
       ELSE [client |-> [Dispatched(queued)[last].client EXCEPT
                            !.InRec = {b \in queued : b.ChSequence > last}],
             skipAck |-> /\ last > client.InReliable
                         /\ Dispatched(queued)[client.InReliable + 1].skipAck]

-----------------------------------------------------------------------------
(***************************************************************************)
(* The steps.                                                              *)
(***************************************************************************)

\* ReplicationFrame is counted up before the actors are replicated, and before
\* an RPC opens a channel, so that what the game does is compared.
NewFrame == shared' = [shared EXCEPT !.comparedThisFrame = FALSE]

\* The game sets a property, and marks it dirty, or gives the actor to
\* another player.
SetValue(p) ==
    /\ object.changes < MaxChanges
    /\ object' = [object EXCEPT !.value[p] = @ + 1, !.dirty = @ \cup {p}, !.changes = @ + 1]
    /\ NewFrame
    /\ UNCHANGED << sending, channel, network, client>>

SetOwner ==
    /\ object.ownerChanges < MaxOwnerChanges
    /\ object' = [object EXCEPT !.bNetOwner = ~@, !.ownerChanges = @ + 1]
    /\ NewFrame
    /\ UNCHANGED << sending, channel, network, client>>

\* The oldest packet still under way is lost, or arrives and is acknowledged
\* unless a bunch of it was skipped; the sender may also be told it is lost
\* when it is not.
OldestInFlight == CHOOSE i \in DOMAIN network.packets :
                      /\ network.packets[i].fate = "sent"
                      /\ \A j \in 1 .. i - 1 : network.packets[j].fate # "sent"

Arrive(known) ==
    /\ \E i \in DOMAIN network.packets : network.packets[i].fate = "sent"
    /\ known \/ network.losses < MaxLosses
    /\ LET r == ReceivedRawBunch(network.packets[OldestInFlight].bunch)
       IN /\ client' = r.client
          /\ network' = [network EXCEPT
                !.packets[OldestInFlight].fate = IF r.skipAck \/ ~known THEN "nak" ELSE "ack",
                !.losses = IF known THEN @ ELSE @ + 1]
    /\ UNCHANGED <<object, shared, sending, channel>>

Lose ==
    /\ \E i \in DOMAIN network.packets : network.packets[i].fate = "sent"
    /\ network.losses < MaxLosses
    /\ network' = [network EXCEPT !.packets[OldestInFlight].fate = "nak", !.losses = @ + 1]
    /\ UNCHANGED <<object, shared, sending, channel, client>>

\* The answers reach the server, in the order of the packets.
Answer ==
    LET packet == network.OutPacketId - Len(network.packets) + 1
    IN /\ network.packets # <<>>
       /\ \/ /\ Head(network.packets).fate = "ack"
             /\ ReceivedAck(packet)
             /\ network' = [network EXCEPT !.packets = Tail(@), !.OutAckPacketId = packet]
             /\ UNCHANGED sending
          \/ /\ Head(network.packets).fate = "nak"
             /\ ReceivedNak(packet, Tail(network.packets))
       /\ UNCHANGED <<object, shared, client>>

Next ==
    \/ \E p \in Prop : SetValue(p)
    \/ SetOwner
    \/ \E bNetInitial \in BOOLEAN : ReplicateToOther(bNetInitial)
    \/ \E size \in Sizes : ReplicateActor(size)
    \/ SkipUpdate
    \/ \E known \in BOOLEAN : Arrive(known)
    \/ Lose
    \/ Answer

Fairness ==
    /\ WF_vars(\E size \in Sizes : ReplicateActor(size))
    /\ WF_vars(Arrive(TRUE)) /\ WF_vars(Answer)

Spec == Init /\ [][Next]_vars /\ Fairness

-----------------------------------------------------------------------------
(***************************************************************************)
(* Properties.                                                             *)
(***************************************************************************)

ItemType == [Changed : SUBSET Prop, Resend : BOOLEAN, First : Nat, Last : Nat]
BunchType == [bReliable : BOOLEAN, ChSequence : Nat, bOpen : BOOLEAN, initial : BOOLEAN,
              final : BOOLEAN, values : UNION {[S -> Value] : S \in SUBSET Prop}]
FlagsType == [bNetInitial : BOOLEAN, bNetOwner : BOOLEAN]

ObjectType == [value : [Prop -> Value], dirty : SUBSET Prop, bNetOwner : BOOLEAN,
               changes : Value, ownerChanges : 0 .. MaxOwnerChanges]
SharedType == [ChangeHistory : [0 .. MAX_CHANGE_HISTORY - 1 -> SUBSET Prop],
               HistoryStart : Nat, HistoryEnd : Nat,
               StaticBuffer : [Prop -> Value], CompareIndex : 0 .. 2,
               comparedThisFrame : BOOLEAN]
SendingType == [history : Seq(ItemType), NumNaks : Nat, LastChangelistIndex : Nat,
                LastCompareIndex : 0 .. 2, RepFlags : FlagsType,
                InactiveParents : SUBSET Prop, InactiveChangelist : SUBSET Prop,
                bOpenAckedCalled : BOOLEAN, PreOpenAckHistory : SUBSET Prop,
                bLastUpdateEmpty : BOOLEAN]
KeptType == [bunch : BunchType, PacketId : Nat, ReceivedAck : BOOLEAN]
ChannelType == [opened : BOOLEAN, OpenAcked : BOOLEAN, SpawnAcked : BOOLEAN,
                bPausedUntilReliableACK : BOOLEAN, OutReliable : Nat, OutRec : Seq(KeptType)]
PacketType == [bunch : BunchType, fate : {"sent", "ack", "nak"}]
NetworkType == [packets : Seq(PacketType), OutPacketId : Nat, OutAckPacketId : Nat,
                losses : 0 .. MaxLosses]
ClientType == [OpenAcked : BOOLEAN, value : [Prop -> Value], InReliable : Nat,
               InRec : SUBSET BunchType, InPartialBunch : BunchType \cup {NoPart}]

TypeOK ==
    /\ object \in ObjectType /\ shared \in SharedType /\ sending \in SendingType
    /\ channel \in ChannelType /\ network \in NetworkType /\ client \in ClientType

\* Types, and what the code checks of the histories: no sent item is empty
\* or without its packets, the naks are those of the items to resend, and
\* there is room for the next item (RepLayout.cpp:2022, 2217, 2247, 2253).
HistoryAgrees ==
    /\ TypeOK
    /\ \A i \in DOMAIN sending.history :
          sending.history[i].Changed # {} /\ sending.history[i].First # 0
    /\ sending.NumNaks = Cardinality({i \in DOMAIN sending.history : sending.history[i].Resend})
    /\ Len(sending.history) < MAX_SENT_HISTORY
    /\ shared.HistoryEnd - shared.HistoryStart < MAX_CHANGE_HISTORY

Unanswered(item) == item.Resend \/ item.Last > network.OutAckPacketId

\* A property that the client does not have as it was last compared is still
\* to be sent to it, or is in a packet whose loss would have it sent again,
\* however far the connection lags behind and whichever lists were merged.
NothingForgotten ==
    channel.opened => \A p \in Prop : client.value[p] # shared.StaticBuffer[p] =>
        \/ p \in Gathered(sending, shared)
        \/ p \in sending.InactiveChangelist \cup sending.PreOpenAckHistory
        \/ \E i \in DOMAIN sending.history : /\ p \in sending.history[i].Changed
                                             /\ Unanswered(sending.history[i])
        \/ \E i \in DOMAIN channel.OutRec : p \in DOMAIN channel.OutRec[i].bunch.values

\* The client never gets an older value of a property after a newer one:
\* updates that are sent reliably hold back those that are not.
NeverGoesBack == [][\A p \in Prop : client'.value[p] >= client.value[p]]_vars

\* A replicator that may go dormant has its client up to date, but for what
\* was compared for other connections after its last update.
DormantIsUpToDate ==
    ReadyForDormancy(sending) =>
        \A p \in Prop \ sending.InactiveParents :
            \/ client.value[p] = shared.StaticBuffer[p]
            \/ p \in Gathered(sending, shared)

\* The update that CanSkipUpdate leaves out would not have sent anything
\* (DataChannel.cpp:3665).
SkippedIsEmpty ==
    ~Paused /\ CanSkipUpdate(Refreshed, CurrentFlags) =>
        Changed(Refreshed, UpdateChangelistMgr(FALSE), CurrentFlags) \subseteq InactiveUnder(CurrentFlags)

\* The open bunch has every property as it is, those that are sent with it
\* only too, though updates for other connections cleared that they are dirty
\* without comparing them (RepLayout.cpp:1541).
OpenBunchIsComplete ==
    [][~channel.opened /\ channel'.opened =>
        \A p \in Prop \ sending'.InactiveParents :
            object.value[p] # 0 =>
                LET values == Last(channel'.OutRec).bunch.values
                IN p \in DOMAIN values /\ values[p] = object.value[p]]_vars

\* Once the game leaves the actor alone its client gets it as it is, whatever
\* was lost.
Converges ==
    <>[](\A p \in Prop : \/ Condition[p] = "InitialOnly"
                         \/ Condition[p] = "OwnerOnly" /\ ~object.bNetOwner
                         \/ client.value[p] = object.value[p])
=============================================================================
