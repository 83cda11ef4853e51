# Formal models of the engine's networking, streaming and timers

The repository holds the Engine and Landscape modules and the shaders of a
game engine. This directory holds TLA+ models of parts of it whose correctness
depends on the order of events: the network connection up to the replication of
properties, the streaming of a texture by several threads, and the timers. With
them come the TLC configurations that check them and the TLAPS proofs of what
matters most about the packet layer, the handshake, the streaming and the timers.

## The system

The core that moves state between a server and its clients is a stack; two
components beside it have protocols of their own. From the network upwards:

| part | source (under `src/Engine`) | state | operations |
| --- | --- | --- | --- |
| packet numbers | `Public/Net/Util/SequenceNumber.h` | a 14-bit number | compare, difference |
| packet notification | `Private/Net/NetPacketNotify.cpp`, `Public/Net/NetPacketNotify.h` | incoming and outgoing sequence, history of deliveries, record of sent acks, flush to wait for | write and read a header, update from a received header, ack, nak |
| out of order cache | `Private/NetConnection.cpp` | circular array of packets, start, count | cache, replay, flush at the end of a tick |
| connection | `Private/NetConnection.cpp` | send buffer, last bunch, packet ids, channels | receive a packet, dispatch, acknowledge, flush, tick |
| channel | `Private/DataChannel.cpp` | queue of unacknowledged bunches, queue of early bunches, partial bunch | send, split, merge, resend, reassemble, open, close |
| actor channel | `Private/DataChannel.cpp` | open and acknowledged, paused | replicate or skip an actor, split or promote its update |
| property replication | `Private/RepLayout.cpp`, `Private/DataReplication.cpp` | shadow state, shared history of change lists, history of what one connection sent | compare, gather, send, retire, send again, ready for dormancy |
| package map | `Private/PackageMapClient.cpp` | GUIDs and their acknowledgement | export, ack, nak |
| handshake | `Private/PacketHandlers/StatelessConnectHandlerComponent.cpp` | secrets, cookie, client state | challenge, response, ack, restart |
| driver | `Private/NetDriver.cpp` | connections, actors | tick, flush |
| streaming update | `Private/Streaming/RenderAssetUpdate.cpp`, `Private/Streaming/Texture2DStreamIn*.cpp`, `Private/StreamableRenderAsset.cpp` | task state, lock, references, scheduled tasks, reads | tick from any thread, the steps of a pipeline, abort, suspend, resume, destroy |
| timers | `Private/TimerManager.cpp`, `Public/TimerManager.h` | sparse array of timers, heap, paused and pending sets, time | set, clear, pause, unpause, tick |

A connection's tick writes bunches into the send buffer and flushes it as a
packet, whose header carries the packet's number, the last number received and
a history of which packets before it were accepted. A received packet first
goes through the out of order cache, then its header through the packet
notification, which calls back `ReceivedAck` or `ReceivedNak` for every packet
the header settles; these release or resend the bunches of channels. Then the
bunches of the packet are dispatched to their channels, and the packet is
acknowledged unless one of them could not be processed (`bSkipAck`).

Above the channels a driver's tick replicates every actor to every connection.
The properties are compared once a frame for all connections, with a shadow
state; what changed goes into a history of change lists that the connections
share. Each connection gathers the lists it has not seen into a bunch, and
remembers in which packets it sent what, so that a nak has it sent again with
the values of then.

Networking runs on one thread per process. What makes it hard is the other
process and the network between the two: packets are lost, doubled, delayed and
reordered; all acknowledgements are piggybacked and may be lost themselves;
numbers wrap around; buffers and histories are bounded; callbacks send packets
in the middle of receiving one; channels close and their index is used again
while packets of the old one are still under way.

A streaming update is the opposite: one object in one process, ticked by the
game thread, the render thread, pool tasks and the callbacks of its own reads,
with one lock, a few atomic counters, flags that are written without the lock,
and a game thread that aborts, suspends or destroys at any time. Timers run on
one thread, but call the game, which changes the manager that is calling it.

The rest of the repository (gameplay framework, rendering, audio, animation,
physics, materials, assets, World Partition, Landscape, shaders) is listed
component by component in `PROJECT.json` with the reason each is not modelled;
see the end of this document.

What makes each of the modelled components correct:

* packet notification: every packet gets one fate, its sender is told of it
  once, in order, and truthfully; the connection's own packet ids agree with it;
* out of order cache: a packet that comes early is not dropped and does not
  overtake another one; the replay loop ends;
* channels: reliable bunches are handled once, in order, complete; partial
  bunches never mix; updates are not overtaken; a packet is acknowledged only if
  it was processed; a channel index is reused only when both sides are done;
* handshake: whoever completes one has a connection at the other side with the
  same initial numbers; a cookie is accepted as long as its holder relies on it,
  and names one connection; connecting never gets stuck;
* property replication: no change is forgotten, however far a connection lags
  and whatever is merged or lost; no old value follows a newer one; the client
  ends up with the actor as it is;
* streaming update: nobody uses it after it is deleted, it is deleted, it ends,
  and what is shown was loaded; suspended streaming is quiet;
* timers: called when due, as often as due, never after they were cleared.

`PROJECT.json` lists, line by line, what in this code is hard to test
("hazards") and the properties that cover it.

## Modules

| module | what it is |
| --- | --- |
| `SequenceNumber` | `TSequenceNumber`: comparisons modulo `SeqNumberCount` |
| `PacketDelivery` | abstract: what the packet layer promises |
| `PacketNotify` | `FNetPacketNotify` at two endpoints, driven by `UNetConnection` over a network |
| `PacketOrderCache` | the out of order cache, on top of `PacketNotify` |
| `ReliableStream` | abstract: what a channel promises of its reliable bunches |
| `NetChannel` | one channel index of a connection, over what `PacketDelivery` promises |
| `Handshake` | how client and server agree on a connection, and restore it at another address |
| `PropertyReplication` | the properties of an actor on their way to one client |
| `RenderAssetUpdate` | one streaming update of a texture and the threads that tick it |
| `TimerManager` | `FTimerManager` and the game that it calls |
| `PacketNotifyInvariant`, `HandshakeInvariant`, `PropertyReplicationInvariant`, `RenderAssetUpdateInvariant`, `TimerManagerInvariant`, `PacketOrderCacheInvariant`, `NetChannelInvariant` | the inductive invariants of those modules |
| `NetChannelMessages` | the second inductive invariant of `NetChannel`: whole messages and the order of updates |
| `MC...` | the constants of the checked instances |
| `PacketNotifyProofs`, `NetChannelProofs`, `NetChannelMessageProofs`, `HandshakeProofs`, `PropertyReplicationProofs`, `RenderAssetUpdateProofs`, `TimerManagerProofs`, `PacketOrderCacheProofs` | theorems and proofs |

How they compose: `PacketNotify` EXTENDS `SequenceNumber` and implements
`PacketDelivery` (proved and checked). `PacketOrderCache` EXTENDS `PacketNotify`
and puts the cache in front of its `ReceivedPacket`; it implements it (proved). `NetChannel` uses the packet
layer as `PacketDelivery` describes it, and implements `ReliableStream` (proved and checked).
`Handshake` ends where `PacketNotify` begins: `CompletesConnected` says that the
two sides start from the same numbers, which `PacketNotify`'s `Init` assumes.
`PropertyReplication` stands on what `PacketDelivery` and `ReliableStream`
promise: answers come in the order of the packets, and reliable bunches are
handled in order. `RenderAssetUpdate` and `TimerManager` stand alone.

Numbers are modelled as full integers which every comparison of the code looks
at through `SequenceNumber`, that is through their residues. So a comparison is
wrong in the model exactly when it is wrong in the code, and properties can say
which of the packets with one residue was meant.

### PacketNotify

`notify[e]` is the `FNetPacketNotify` of endpoint `e`; the operators named like
its methods take the object and return it changed. `SendBuffer[e]` is the header
of the packet being written (`StartPacket`: `WritePacketHeader` for the first
bits; `FlushNet`: refresh it if the history still fits its words, send, commit).
`ReceivedPacket` is `UNetConnection::ReceivedPacket` up to `DispatchPacket`,
`AcknowledgePacket` its end; between the two the endpoint may send packets, as
the code does when a dispatched bunch makes it write. `acked`, `acks` and `naks`
record who was told what; no guard reads them.

`network` keeps every packet until it is `MaxPacketAge` numbers old and any of
them may arrive at any time, any number of times: loss, duplication, delay and
reordering. `Recent` is the condition under which a comparison of wrapped
numbers is defined at all ("only valid if (A - B) < SeqNumberHalf"): the numbers
compared are at most `MaxPacketAge` apart.

Abstracted: packets that `ReceivedNak` fills and sends in the middle of the
handling of notifications go out before the handling starts; a header that
cannot be read, the packet info (jitter), internal acks of replays and the check
for premature sends are left out.

### PacketOrderCache

`PacketOrderCache[e]` is the circular buffer, by slot; `flush[e]` says whether
`FlushPacketOrderCache` is running and whether over the whole cache. The
function is one step per turn of its loop, since each replayed packet may be
dispatched and acknowledged (`Replay`, `SkipMissing`, `StopAtMissing`). A raw
packet is dropped, processed or cached (`ReceivedRawPacket`, `CachePacket`), and
`PostTickDispatch` flushes what is left at the end of a tick. The cache exists
once `EnableThreshold` packets came too late, as in the code. `Capacity`, a power
of two, is what the code rounds `net.PacketOrderMaxCachedPackets` up to.

The code asks that the index of a cached packet line up with its number
(`NetConnection.cpp:2052`). It does not when a replayed packet is ignored in a wait
for a flush: the cache moves on and the sequence may not. `waited[e]` records that
this has happened with packets left in the cache, until the cache is empty. The
packets of a wait are lost to the connection whether they were cached or not, so
`ahead`, the packets that must not be dropped, forgets them. Nothing but the
properties reads `waited`, `ahead` and `dispatched`.

A packet is cached and replayed within one tick; `StillRecent` says that meanwhile
its sender does not send so much that its number means another packet.

### NetChannel

`server` is the sending side of a channel and its connection, `client` the
receiving side. Data is a sequence of units; a message is a number of units, and
`MaxSingleBunchSize` and `PacketCapacity` count units. Three kinds of messages
are sent: reliable ones, property updates (`ReplicateActor`: unreliable, made
reliable when split into too many pieces, after which updates pause), and
messages that close the channel, with data or without. The first message of a
channel is reliable and opens it, as `ReplicateActor` makes it. `ReceivedRawBunch`,
`ReceivedNextBunch`, `ReceivedSequencedBunch` are the code's functions. `settled`,
`accepted` and `told` are the variables of `PacketDelivery`; `Arrive` is the
client's `DispatchPacket`, `Notify` the server's handling of a header that
settles packets up to some id, with the closing of channels at its end
(`CloseChannels`), which the early return of a wait for a flush skips
(`NotifyInWait`).

Abstracted: unreliable remote calls (they take the path of updates without the
pause); `IsNetReady`, which is left to callers; an overflow of the reliable
buffer ends the connection; GUID export bunches and bunches that must wait for
GUIDs; errors at the client are recorded rather than closing the connection.

### Handshake

`client` is the client's component with what its connection keeps of the
handshake, `server` the server's connectionless component (secrets) and its
connections by address. `ReceiveChallenge`, `ReceiveAck` and
`ReceiveRestartRequest` are the branches of `Incoming` at a client,
`SendConnectChallenge`, `AcceptResponse` and `SendRestartHandshakeRequest` those
of `IncomingConnectionless`, `ResendChallengeAck` and `EndAckResends` those of
`Incoming` at a connection; `Tick` and `TickSecret` are `Tick` at the two sides.
Time is explicit because the code's decisions are about it: `now` counts ticks,
and `TimePasses` waits for what is due, the client's resend and the server's
secret, which is due within its random variance. A packet arrives in the tick it
is sent in, unless it is late. Packets lost, late or doubled, moves of the client
and crashes are faults, counted together against `MaxFaults`.

A cookie is the address, the time and the value of the secret it was made of, so
that two cookies are equal when the hashed data are. Initial sequence numbers are
a function of the cookie; `Sequences` keeps only which of the two numbers is read
in which direction. The driver's side of the handshake
(`ProcessConnectionlessPacket`) and its list of recently disconnected clients are
not in this repository; they are modelled as the interface in the header asks for
(`HasPassedChallenge`, `DoesRestartedHandshakeMatch`), calling
`InitFromConnectionless` for new and for moved connections. The driver is assumed not
to time out the connection of a client that is still there, and to give up those
of crashed clients at any time. Versions, session ids and magic numbers agree; the
part of the check for dual addresses that asks when the connection last received
a packet is nondeterministic (`quiet`).

### PropertyReplication

`object` is the actor as the game sees it, `shared` its `FRepChangelistState`,
`sending` the `FSendingRepState` and replicator of one connection, `channel` that
connection's actor channel, `network` its packets without an answer, and `client`
the other side. A change list is a set of properties. `ReplicateActor` is the
whole call: comparison (`UpdateChangelistMgr`, `CompareProperties`), gathering
(`Changed`), the housekeeping of the sent history (`Housekept`), the bunch and
`PostSendBunch`. `Answer` is an ack or a nak with all it does at once: to the
channel, whose reliable bunches are sent again, and to the replicator, whose
items are marked for resending. Other connections are there through what they
change of the shared state (`ReplicateToOther`), also several times while this
one is not reached at all.

Abstracted: a bunch has a packet of its own; the values of a property only grow,
so that an old one can be told; the count of comparisons stops at two; a nak of a
packet that arrived is counted with the losses; the channel is opened once.
Left out: array handles with the merging and pruning they need, custom deltas and
fast arrays, roles, dynamic conditions, subobjects, replays and checkpoints,
`SharedSerialization`, remote calls, and an overflow of the reliable buffer, which
closes the connection. `ReadyForDormancy` is about the last update: what was
compared for other connections since then is left to the wake-up that a change of
a dormant actor asks for.

### RenderAssetUpdate

A step is one access to what the threads share: `TaskState` outside the lock, the
lock, `bIsCancelled` where it is read, the counters of tasks, the references, the
state of each read. `Tick` is the loop of `FRenderAssetUpdate::Tick` with
`TickInternal`, for whichever thread `t` runs it; the locals of the owner of the
lock are in `cs`. The steps of `FTexture2DStreamIn_IO_AsyncCreate` are operators
of the same name; each takes the mips in any order. `CancelRead` has both ways in
which a read can be cancelled: its callback comes later, or at once and on the
same thread. In the second case the callback of a read finds the lock held by its
own thread, which critical sections allow, so its tick does not fail as the
comment at `Texture2DStreamIn_IO.cpp:123` says; `NestedTick` is what it does then.
`Released` deletes the object with its last reference, or leaks it.

Abstracted: memory is sequentially consistent; one update exists at a time, and
the next begins when it is deleted; rendering has a thread of its own; suspension
is not nested and its flush has no time limit (`GStreamingFlushTimeOut` <= 0).
Left out: `bDeferExecution`, game-thread tasks and the pipelines that use them,
stream-out, derived data, virtual textures and meshes, and the choice of what to
stream. The comment at `RenderAssetUpdate.cpp:101`, that no more render commands
or reads are generated once streaming is suspended, holds for updates that are
not cancelled, and that is what `SuspensionIsQuiet` says.

### TimerManager

`manager` has the fields of `FTimerManager`. `Tick` is cut where it calls a
delegate: in `callback` every operation of the manager is enabled, on the timer
being called too, and `Returned` goes on with what `Tick` then finds. The heap is
a set whose top is any timer with the least `ExpireTime`; this is what a heap is as
long as no member's key changes, which `HeapStaysOrdered` checks. `held` are the
`FTimerHandle` variables of the game, which outlive their timers. `history` is for
the properties, no guard reads it: the time each timer should have left, counted
without the manager's conversions, and which were cleared, called or paused.

Abstracted: time is counted in whole units; every delegate is bound to an object,
which may be destroyed at any time; handles are not copied between variables;
queries are not actions. A looping timer that pauses itself from its own callback
keeps the expiry it was called for and is called again right after it is unpaused;
no comment says what is meant, so `CalledWhenDue` and `RemainingIsRight` leave
such timers out (`KeepsItsTime`).

## Runs

All bounds are constants of the configurations. Where bounded counters stop a
model when they are used up deadlock is not checked, as those configurations say;
`property_replication` and `render_asset` check it.

| run | what it shows | bounds |
| --- | --- | --- |
| `packet_notify` | types, agreement of counters, ack record, history, the inductive invariant, truth of notifications, refinement of `PacketDelivery` | modulo 8, 5 packets one way and 3 the other, ages up to half of the circle, history of 2 bits in words of 1: numbers wrap, histories overflow, reset and flush |
| `packet_notify_flush` | violation: both sides can wait for each other's flush forever | 4 packets one way and 3 the other, enough to fill both histories |
| `order_cache` | slots line up with packet numbers, nothing that comes early is dropped, the replay ends and leaves room | 7 packets, 4 slots, a history of 4: every order, duplicates, packets beyond the last slot, waits for a flush with packets in the cache |
| `net_channel` | whole messages, order of updates, acknowledged means processed, no errors; everything reliable arrives | 4 messages of 1 to 3 pieces, 2 losses; 4 places in the reliable buffer, which fills up, and sequences modulo 8, which wrap |
| `net_channel_reuse` | an index closed and opened again, messages merged, an open bunch in parts; refinement of `ReliableStream`; closes complete | 2 openings, 4 messages, 3 units to a packet and 2 to a bunch, 1 loss |
| `net_channel_limit` | violation: a close that takes the last place of the buffer is never received | 4 places |
| `net_channel_leak` | violation: a close acknowledged during a wait for a flush never completes | 1 message |
| `handshake` | connecting, restoring and reconnecting: valid cookies, unique cookies, matching numbers, in bounded time | ticks of about 5 s (secrets last 3, their variance is 1, restarts are 2 apart), 6 ticks, 2 addresses, 3 faults |
| `handshake_restore` | violation: a restarted handshake can end with the ack of another connection | secrets last 1 tick, no delays, 3 ticks, 3 addresses, 4 faults: three moves and a lost ack |
| `property_replication` | histories agree, nothing is forgotten, dormancy and skipping are safe, no value goes back, the open bunch is complete, the client converges | 3 properties, one of each condition, 2 changes, 1 change of owner, 1 loss, both histories of 2 |
| `render_asset` | no use after deletion, no leak, no read into freed memory; counters, results and the texture agree; suspension is quiet; every update ends, and so does suspending | 1 mip, all five kinds of thread, any number of aborts, suspensions and updates |
| `timers` | containers and statuses agree, times are right, called when due and not again, the heap stays ordered, a tick ends | 2 places, 2 handles, 2 timers ever, of two kinds and for the next tick, 4 units of time in frames of 1 or 2 |

Histories of 2 bits in words of 1 have every case the code's 256 bits in words of
32 have: empty, partly full, full, a header with fewer words than the history
needs. Packets modulo 8 wrap in both directions. Four slots hold a first, a
middle and a last one. `net_channel_reuse` keeps the reliable buffer larger than
what is outstanding, so that the case of `net_channel_limit` does not arise;
`net_channel` reaches the limit without closes. In
`order_cache` the client sends nothing, so that it hears of no acknowledgement and
its history of 4 has no room for packet 5: the wait begins with that one or with a
later one, with 6 or 7 in the cache or without, and does not end.
`net_channel` has waits (`FlushWaits`), `net_channel_reuse` has none, because of
what `net_channel_leak` shows. In `handshake` 6 ticks are enough to connect,
move, be asked to restart and complete, with the window for resent acks over and
both secrets replaced; 3 faults are a move and two of its packets lost, or a crash
with late packets of the life before. In `property_replication` histories of 2 are
full with their second list and merge with the next; three sizes of a bunch are
whole, in two parts, and large, which is made reliable; a change of owner makes a
property active that was not. In `render_asset` liveness keeps
it to one mip, whose read succeeds, fails or is cancelled, its callback early or
late; the safety properties are proved for every number of mips, so that reads
which succeed beside one that fails are covered there. The state space needs no
bound. In `timers` the second of the two timers may get the place of the
first, once that is gone, while the first one's handle is still held; 4 units of time
are two periods of the slower timer, and a frame of 2 has the faster one catch up.

Every property has a mutant in `PROJECT.json`: a plausible bug in one definition
that makes TLC find the property violated.

### Fairness

`NetChannel`: a tick flushes what is written (`WF_vars(Flush)`); packets get their
fate, and at most `MaxLost` are lost (`WF_settled(Settle)`); headers get through
that tell the server of it (`WF_told(Tell)`). The driver flushes every connection
every tick and a connection with nothing to say sends keep-alives, so headers do
not stop; that the network delivers some of them is an assumption about the
network, without which nothing can be promised. `PacketOrderCache`: the loop of
`FlushPacketOrderCache` and the dispatch of a packet are calls that return.
`PropertyReplication`: the driver keeps replicating the actor, packets are answered
(`Arrive(TRUE)`, `Answer`), losses are bounded, and neither the game nor other
connections have to do anything. `RenderAssetUpdate`: threads run, a thread that
blocks on the lock gets it some time (strong fairness, as an operating system's
locks are meant to give), the file system and the RHI answer, and the game thread
ticks its asset and goes on with what it began; it need not abort, suspend, resume
or destroy. `TimerManager`: a tick goes on when the callbacks return.
`Handshake` needs no fairness: `ConnectsInTime` bounds the time to connect, and
time does not pass over a tick that is due.

### What the violations say

* `FlushCanEnd`: an endpoint whose history is full of acks its peer may not have
  ignores packets until the peer acknowledges a packet sent after the wait began.
  When both are in that state, each ignores the packets that carry this
  acknowledgement and acknowledges nothing of the other's. Received packets
  keep updating `LastReceiveTime` (`NetConnection.cpp:2846`), so the connection
  does not time out either.
* `CleanedUpWhenDone` at the limit: a close may be sent as the
  `RELIABLE_BUFFER`-th outstanding bunch, but half of the circle of channel
  sequences is `RELIABLE_BUFFER`, so the receiver takes its number for an old one;
  the packet is acknowledged and the sender believes the channel closed.
* `RestoresConnection`: a client that completes a restarted handshake takes any ack
  with its client id. A connection of its own that it never got the ack of, because
  it moved while it connected, answers the first packet of a restart at the old
  address; the client goes on as if it were connected, and its connection is still
  at the address before. What does hold is `CompletesConnected`: the client has a
  connection, and where it is too, unless such another connection is left.
* `CloseCompletes` in a wait: the list of channels to close is local to
  `ReceivedPacket` and is dropped by the early return of a wait for a flush.

## Proofs

Each theorem holds for all values of the constants that satisfy the assumptions
named below; none of them asks for fairness.

| module | theorems | assumes |
| --- | --- | --- |
| `PacketNotifyProofs` | the operators of `SequenceNumber` tell the truth about numbers less than half of the circle apart (`SeqNear`), and a number they place between two others is between them (`SeqBetween`); `Spec => []IInv` (`Invariant`), and from it `CountersAgree`, `AckRecordInFlight`, `AcksStayInHistory`, `NotificationsAreTrue`; `Spec => DeliverySpec` (`ImplementsDelivery`) | `SeqNumberCountAssumption`: the circle is even and not empty; `PacketNotifyAssumption`: the history is a whole number of words and shorter than half of the circle, at most half of it is in flight, ages are at most half of it |
| `PacketOrderCacheProofs` | `CacheSpec => []CacheIInv`, and from it `CacheAgrees` and `NothingDropped`; `CacheSpec => Spec` (`CacheImplementsNotify`) and so `CacheSpec => DeliverySpec` | those of `PacketNotify`, and `PacketOrderCacheAssumption`: the capacity is a power of two and more than one, the cache is not made before a packet came too late |
| `NetChannelProofs` | `Spec /\ []HasRoom => []IInv`, and from it `NoBunchErrors`, `AckedMeansProcessed`, `CleanedUpWhenDone`, `OpenAckedIsTrue` and the refinement `StreamSpec` | `NetChannelAssumption`: half of the circle of channel sequences is at least `RELIABLE_BUFFER` (512 of 1024 in the code), a packet has room for a bunch; and `HasRoom` |
| `NetChannelMessageProofs` | `Spec /\ []HasRoom => []MInv`, and from it and `IInv` `ClientAgrees` and `UpdatesInOrder` | the same |
| `HandshakeProofs` | `Spec => []IInv`, and from it `ConnectionsAgree`, `CookieOutlivesChallenge` and the action property `CompletesConnected`; `ConnectsInTime` | `HandshakeAssumption`: secrets live some time; a packet is late by at most half the delay of a restart (10 s); there are more client ids than faults, so that none is used again; `NoneAssumption`: no cookie or connection is `None` |
| `PropertyReplicationProofs` | `Spec => []IInv`, and from it `HistoryAgrees`, `NothingForgotten`, `DormantIsUpToDate`, `SkippedIsEmpty`, the action properties `NeverGoesBack` and `OpenBunchIsComplete`, and `QueueNeverSkips` | `ReplicationAssumption`: a property is for everybody, for the owner or for the open bunch; both histories have room for two items |
| `RenderAssetUpdateProofs` | `Spec => []IInv`, and from it `MemorySafe`, `UpdateAgrees`, `TextureAgrees` and the action property `SuspensionIsQuiet` | `MipsAssumption`: there are mips, finitely many, none of which is a thread of another kind |
| `TimerManagerProofs` | `Spec => []IInv`, and from it `ManagerAgrees`, `TimesAreRight` and the action properties `CalledWhenDue`, `NotCalledAgain`, `HeapStaysOrdered` | `TimerAssumption`: there are finitely many places, 0 is one of them; the rates timers are set with are positive |

`IInv` of each module contains its type invariant. A property of a module is
seldom inductive as it stands; what `IInv` adds, and why, is the argument of the
proof. Each was checked by TLC before it was proved. In the proofs each action has
a lemma, in it one step per conjunct that the action can disturb.

**PacketNotify.** Whether a notification is true depends on the header that
carries it, on the history that header was written from, and on the receiver's
numbers having been close enough to the sender's for the wrapped comparison to be
right. `IInv` adds these: `NumbersInOrder` (acknowledged before received before
sent, at each end and across the two), `InFlightBounded` and `NetworkIsRecent` (so
every comparison is of numbers less than half of the circle apart), `DispatchFits`
(a packet being dispatched still fits the history), `RecordIsKnown` (what the ack
record says was acknowledged when a packet was sent), `SendBufferAgrees`,
`HeadersTruthful` and `HistoryTruthful` (the bits of every header under way, and
of the history, are those of the packets accepted), and `ToldInOrder`. The
refinement maps `StartPacket` to a stutter, `FlushNet` to a send, `ReceivedPacket`
to the sender's learning, and `AcknowledgePacket` to acceptance or rejection.

**PacketOrderCache.** A replayed packet is processed late, so the packet layer must
be shown to be in no other state than if it came from the network just then:
`CachedIsSent` says that a cached packet is still one of those under way, and that
makes each replay a step of `PacketNotify` (`PacketStep`), whose `IInv` is
therefore part of `CacheIInv`. That no cached packet is dropped when it is replayed
takes more: its number must be ahead (`CacheInOrder`: the cached packets are in the
order of their numbers, also the one in the last slot, whose index says nothing),
and it must not acknowledge less than the packet replayed before it, or
`GetSequenceDelta` ignores it. That is so because a sender that writes a later header
acknowledges no less in it (`AcksAscend`), also when it started the packet long before
it sent it. `LastIsEmpty` and `RoomForMore` say that a slot which is taken holds the
very packet, so that what is dropped for it is a duplicate (`SlotsCachePacket`). The
loop ends by its count, which is that of the packets (`CountsPackets`, with the
cardinalities of finite sets).

**NetChannel.** `HasRoom` says that fewer than `RELIABLE_BUFFER` reliable bunches are
outstanding. `bOverflowsReliable` keeps to it for every bunch but a close, which may
take the last place; the run `net_channel_limit` shows what happens then, so the
theorems are about the behaviours in which no close does. Both `HasRoom` and the
properties hold throughout the instances of `net_channel` and `net_channel_reuse`.

The client's numbers are compared with the server's through `numbered`, the history
of the reliable bunches as they were last sent, with what had been sent up to each.
`NumberRight` says what a bunch is by its number: it opens a channel exactly after a
close, begins a message exactly after the end of one, and carries the stream on.
`Placed` says where the outstanding ones are: each that is not acknowledged is in the
packet it is noted with, of which the server was not told, and a packet that is still
to be answered has no other reliable bunches; so nothing that was released comes
again, and a number that arrives is less than half of the circle from the client's,
which is what `MakeRelative` needs (`InFlight`, `RelativeSame`). In the middle of a
nak the bunches not looked at yet are still in the lost packet, hence the second
argument of `Placed`. `MergesRight` and `MergeIsUnseen`: the bunch that a merge takes
back is the last that was numbered, and no part of it was sent.

`ClientRight` is about the client at number `InNumber`. `QueueRight` says that the
queue has later bunches in the order of their numbers, without the next one between
packets (`gap` 1) and possibly with it within one (`gap` 0); since each waits at the
place its distance from the first allows, the loop over the queue ends with the next
one missing. `PartialRight` says that the client has the stream up to `InNumber`,
apart from an unfinished message which is the partial bunch. An unreliable part cannot
take the place of a reliable one, nor end the channel. `ChannelRight` and `Opened`
relate whether the channel is open at the two sides: the open bunch is released only
with the whole message it begins. The loops of the code are recursive functions, about
which `LoopKeeps` says that what every iteration keeps holds at the end.

That messages are whole and updates in order is not about the reliable stream alone,
and `IInv` says nothing of what an unreliable bunch carries. `MInv` does, and is
inductive beside `IInv`. An unreliable message that is split is put together from
bunches whose only number is that of their packet, which `ReceivedNextBunch` takes
for the next part if the packet is the same or the next one. That this is enough is `Chained`: in the
packets, a part that is not the last is followed by the next part, as the very next
bunch of its packet or the first of the next one. A reliable bunch written again,
which goes to the packet of that moment, must not come between the two, and a merge
must not take back a bunch with a part (`MergesWhole`); inside `SendBunch` the last
part written still lacks its successor, hence the second argument of `Chained`.
`UnfinishedRight` is the client's end of it: the parts it holds begin a message, and
either the next bunch to arrive is the next part, or a packet was lost and no bunch
that arrives passes for it.

For the order of updates `MInv` compares what the client has handled, what it still
has to come unreliably (`UnitsAhead`, which a loss only makes smaller), and what it
has not handled of the reliable stream (`Pending`): none of these is later than the
one after it, `NoLater` in each case. A reliable update that is sent again, or waits in
the queue, keeps its place among these because no unreliable update is written while
it is outstanding: the channel is paused, and when it resumes every update that was
sent reliably has been released (`Settled`), in a message all of which was. That in
turn needs to say where messages end among the numbers (`EndsMessage`), since a
message is handled with its last part and not before. The state in the middle of a
packet is that of the client after its j-th bunch, the arguments `id` and `j`.

**Handshake.** Cookies are unique because a cookie makes one connection at most, and
that is so because its address has a connection afterwards, which is moved away
only by a restarted handshake. By then the cookie must be `Retired`: no
response of a first handshake with it is under way, and the client has no challenge
with it left to answer. The delay between restarts is what retires it
(`RestartStep`): everything that was sent for the handshake before is older than
packets can be. So `IInv` bounds the age of each packet by what the client sent last
(`InTime`), says what it carries (`Carries`) and for whom it is (`Belongs`): the
restarted handshake of a client that has crashed must not name the connection of the
client that runs now. `Acknowledges` says that an ack which the client
still waits for was sent for a connection of its own, at an address it has had, and
in a first handshake for the connection with the cookie in the ack. `Genuine` relates
the timestamp of a challenge to the last change of secrets; it is what
`CookieOutlivesChallenge` needs.

That a client connects in time is safety as well, since time does not pass over
what is due, and has an invariant of its own, `RInv`. `Recovery` says that the
client is as good as connected, for a packet is under way that, answered at once,
has it connect (`Recovers`), or that it has waited no longer than it may (`Waits`):
without a challenge since the last fault, or with one that was asked for before it
and may be for an address the client no longer has. It gives such a challenge up
after `MIN_COOKIE_LIFETIME`, and begins again. The longest wait is thus a late
packet, the lifetime of its challenge, and the interval of resending: the sum that
`ConnectTime` is. No smaller bound holds, as TLC shows for one less. `NotIgnored`
says that nobody drops a packet that `Recovers`: the server accepts the cookie
(`CookiesOutlive`), or has the connection and, as no packet of it has come yet
(`Answered`), sends its ack again. This is about a first handshake of a client that
has not crashed; after a crash the old connection can be in the way for as long as
the server keeps it.

**PropertyReplication.** `NothingForgotten` is about one property and four places
where it may wait, and every step moves it from one to another. `OnItsWay` follows
it more closely than the property does: an item of the history that waits for an
answer counts only if its last packet is still under way and unreliable and has
the newest value, and a reliable bunch only with its last part. For that the
answers must come to the right item: `HistoryInOrder` says that the items are
those of the packets in their order, so that what an ack releases is the oldest
part of the history (`ReleasedFirst`) and `Housekept` may clear items where they
are and move `HistoryStart` on by their number. What the comparison gives to
`Gathered` is in `Compares`; that a full history merges its two oldest lists
without losing one is `MakeRoomExact`, that the connection may lag behind both of
them and still gather their union, `CompareExact`.

`NeverGoesBack` needs the order of everything under way. `ReliableInOrder` says
that the reliable bunches are numbered without a gap and are the open bunch and
then at most one large update, during which the channel is paused;
`PacketsInOrder` and `UpdatesInBetween` place the unreliable updates after the
open bunch and before the large one; and `Queue` says that when a part of a large
update is in the client's queue no unreliable update is under way any more, so
that what the queue releases is newer than all the client has (`ClientInOrder`).
The same facts say that the first part of a message is held when the second is
dispatched, whence `QueueNeverSkips`: what is dispatched from the queue never asks
for its packet not to be acknowledged. The code calls that not possible
(`DataChannel.cpp:715`) and only warns, for the acknowledgement has been sent. The
recursive function of the queue (`Dispatched`) is handled by the least number at
which the claim would fail (`LeastNumber`).

**RenderAssetUpdate.** That nobody uses a deleted update needs to say who holds
its references, and that needs to say where every thread is.
`OwnerIsInside` ties the lock to the places of the threads; `ReferencesCounted`
says that a reference is the asset's or that of a task which has not released it
yet. `Progress` names the stage of the pipeline, from the callbacks of the next
task and from where the owner of the lock is, and that the update is done exactly
when no task is left and no step runs. `Reads` says for each mip which stages its
read may be under way in, that `TaskSynchronization` counts the reads without an
answer and the texture being created, and that a mip which is missing is known to
be: its callback has cancelled the update or is still to do so. `TextureIsRight`
rests on the last: a texture that misses a mip has such a callback, which runs
before the update could be finished. `SuspensionHolds` says that a step taken in
spite of a suspension is one of a cancelled update.

**TimerManager.** `ContainersAgree` says that each container holds the timers of
its status, and that the handles of objects are those of their timers;
`SerialsDistinct` and `HistoryIsPast` that a handle can name no other timer than
its own. Whether a timer is called when it is due is about sums: `ExecutingExpired`
says that the time an executing timer has left is its `ExpireTime` less the
manager's time plus its rate times the calls it has had, and `LeftIsRight` says the
same of one that waits. `LateIsKnown` says that a timer is late only while `Tick`
is on its way to it, or because it was paused in a tick. When a tick ends it is on
its way to none, because a heap that is not empty has a top (`HeapHasTop`, from
the well-foundedness of the natural numbers). The
division in `CallCount` is used through two facts only: as many calls as it
counts are due, and one more is not.

Only model-checked: what a close in the last place of the reliable buffer does in
`NetChannel`; all liveness, which is out of the prover's reach, that of channels
(`EventuallyReceived`, `CloseCompletes`), of the cache (`FlushEnds`), of replication
(`Converges`), of updates (`UpdateCompletes`, `SuspensionEnds`) and of ticks
(`TickIsFinite`); the violations.

## Not modelled, and the plan

What is missing of the modelled components is said in their sections and in
`PROJECT.json`. Of the components that are not modelled at all these have a
protocol:

* the package map: GUID exports are acknowledged like change lists, but what is
  exported and when it is mapped depends on the object graph and on the
  asynchronous loader, which is not in this repository;
* level streaming: most transitions of its state machine are made by that loader
  and by `World`;
* ticking: an order of prerequisites given to a task system that is not in this
  repository;
* login: one message after the other over the reliable stream.

The rest is real arithmetic (animation, physics, movement, particles, audio),
compilers and rendering (materials, shaders, Landscape), editor tooling, or
adapters to code that is elsewhere.

Every invariant and action property that a passing run checks has a theorem, those
of `NetChannel` under `HasRoom`. A proof worth adding would do without `HasRoom` what
can be done without it: say which of the properties a close in the last place of the
buffer leaves true.
