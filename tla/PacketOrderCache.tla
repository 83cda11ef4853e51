-------------------------- MODULE PacketOrderCache --------------------------
(***************************************************************************)
(* The out of order packet cache of UNetConnection, between the network    *)
(* and PacketNotify: a packet that comes ahead of one that is missing is   *)
(* kept for the rest of the tick, and replayed when the missing one has    *)
(* come, when the cache is full or when the tick ends.                     *)
(*                                                                         *)
(* A replay processes packets one by one, and each of them may be          *)
(* dispatched, so FlushPacketOrderCache is one step per turn of its loop.  *)
(***************************************************************************)
EXTENDS PacketNotify

CONSTANTS
  Capacity,                     \* net.PacketOrderMaxCachedPackets (32), rounded
                                \* up to a power of two
  PacketOrderMaxMissingPackets, \* net.PacketOrderMaxMissingPackets (3)
  EnableThreshold               \* net.PacketOrderCorrectionEnableThreshold (1)

ASSUME PacketOrderCacheAssumption ==
  /\ Capacity \in Nat \ {0, 1}
  /\ \E k \in 1 .. Capacity : Capacity = 2 ^ k
  /\ PacketOrderMaxMissingPackets \in Nat
  /\ EnableThreshold \in Nat \ {0}

VARIABLES
  TotalOutOfOrderPacketsLost, \* counted up to EnableThreshold, see IsSet
  PacketOrderCache,           \* slot -> the header of its packet, or NoHeader
  PacketOrderCacheStartIdx,   \* the slot of the next packet in sequence
  PacketOrderCacheCount,
  flush,                      \* FlushPacketOrderCache: which loop e is in
  ahead,                      \* history: packets to be cached, and no wait since
  dispatched,                 \* history: packets given to DispatchPacket
  waited                      \* history: e came to wait for a flush of its
                              \* sequence history with packets in the cache

cacheVars == <<TotalOutOfOrderPacketsLost, PacketOrderCache,
               PacketOrderCacheStartIdx, PacketOrderCacheCount, flush>>
historyVars == <<ahead, dispatched, waited>>
orderVars == <<vars, cacheVars, historyVars>>

-----------------------------------------------------------------------------

Slot == 0 .. Capacity - 1

\* The cache is made once enough packets have come too late.
IsSet(e) == TotalOutOfOrderPacketsLost[e] >= EnableThreshold

\* The slot at linear index i, the packet i after the next in sequence.
CircularIdx(e, i) == (PacketOrderCacheStartIdx[e] + i) % Capacity

\* Mutant of LinearCacheIdx: a packet out of range wraps around.
LinearCacheIdxMutantWrap(delta) == (delta - 1) % Capacity

\* A packet out of range of the cache takes its last slot.
LinearCacheIdx(delta) == Lesser(delta - 1, Capacity - 1)

CacheInit ==
  /\ Init
  /\ TotalOutOfOrderPacketsLost = [e \in Endpoint |-> 0]
  /\ PacketOrderCache = [e \in Endpoint |-> [i \in Slot |-> NoHeader]]
  /\ PacketOrderCacheStartIdx = [e \in Endpoint |-> 0]
  /\ PacketOrderCacheCount = [e \in Endpoint |-> 0]
  /\ flush = [e \in Endpoint |-> "none"]
  /\ ahead = [e \in Endpoint |-> {}]
  /\ dispatched = [e \in Endpoint |-> {}]
  /\ waited = [e \in Endpoint |-> FALSE]

Send(e) ==
  /\ StartPacket(e) \/ FlushNet(e)
  /\ UNCHANGED <<cacheVars, historyVars>>

Acknowledge(e) ==
  /\ \E bSkipAck \in BOOLEAN : AcknowledgePacket(e, bSkipAck)
  /\ UNCHANGED <<cacheVars, historyVars>>

\* e receives nothing while it dispatches a packet or replays the cache.
CanReceive(e) == ~dispatching[e] /\ flush[e] = "none"

\* A packet that is not in sequence is dropped, and counted.
Drop(e, header) ==
  /\ GetSequenceDelta(notify[e], header) = 0
  /\ TotalOutOfOrderPacketsLost' =
       [TotalOutOfOrderPacketsLost EXCEPT ![e] = Lesser(@ + 1, EnableThreshold)]
  /\ UNCHANGED vars

\* A packet in sequence goes through PacketNotify, and to DispatchPacket
\* unless e waits for a flush of its sequence history.
Process(e, header) ==
  /\ ReceivedPacket(e, header)
  /\ dispatched' = [dispatched EXCEPT ![e] =
                      IF dispatching'[e] THEN @ \cup {InPacketId'[e]} ELSE @]
  /\ UNCHANGED TotalOutOfOrderPacketsLost

\* Mutant of GoesToCache: packets are cached only as the first one was.
GoesToCacheMutantMissing(e, delta) ==
  IsSet(e) /\ delta - 1 \in 1 .. PacketOrderMaxMissingPackets

\* A packet is cached when others are, or when it comes a little too early.
GoesToCache(e, delta) ==
  /\ IsSet(e)
  /\ \/ PacketOrderCacheCount[e] > 0
     \/ delta - 1 \in 1 .. PacketOrderMaxMissingPackets

\* ReceivedRawPacket, for a packet that is too late or in sequence.  The
\* FlushPacketOrderCache that follows finds the cache empty, or its first and
\* last slot empty (RoomForMore), and does nothing.
ReceivedRawPacket(e, header) ==
  LET delta == GetSequenceDelta(notify[e], header)
  IN  /\ CanReceive(e)
      /\ ~(delta > 0 /\ GoesToCache(e, delta))
      /\ \/ Drop(e, header) /\ UNCHANGED dispatched
         \/ Process(e, header)
      /\ UNCHANGED <<PacketOrderCache, PacketOrderCacheStartIdx,
                     PacketOrderCacheCount, flush, ahead, waited>>

\* Mutant of CountAfter: a packet that is in the cache already is counted.
CountAfterMutantDuplicate(e, slot) == PacketOrderCacheCount[e] + 1

CountAfter(e, slot) ==
  PacketOrderCacheCount[e] +
    IF PacketOrderCache[e][slot] = NoHeader THEN 1 ELSE 0

\* The loop that FlushPacketOrderCache starts once slot has been filled: over
\* the whole cache when its last slot is set, else over its first packets.
LoopFor(e, slot) == IF slot = CircularIdx(e, Capacity - 1) THEN "whole" ELSE "first"

\* ReceivedRawPacket, for a packet to be cached: it takes its slot unless the
\* slot is taken, and FlushPacketOrderCache begins.
CachePacket(e, header) ==
  LET delta == GetSequenceDelta(notify[e], header)
      slot == CircularIdx(e, LinearCacheIdx(delta))
  IN  /\ CanReceive(e)
      /\ delta > 0
      /\ GoesToCache(e, delta)
      /\ Recent(notify[e], header)
      /\ PacketOrderCache' =
           [PacketOrderCache EXCEPT ![e][slot] = IF @ = NoHeader THEN header ELSE @]
      /\ PacketOrderCacheCount' =
           [PacketOrderCacheCount EXCEPT ![e] = CountAfter(e, slot)]
      /\ flush' = [flush EXCEPT ![e] = LoopFor(e, slot)]
      /\ ahead' = [ahead EXCEPT ![e] =
                     IF waited[e] THEN @ ELSE @ \cup {InPacketId[e] + delta}]
      /\ UNCHANGED <<vars, TotalOutOfOrderPacketsLost, PacketOrderCacheStartIdx,
                     dispatched, waited>>

\* PostTickDispatch: FlushPacketOrderCache for the whole cache.
PostTickDispatch(e) ==
  /\ CanReceive(e)
  /\ PacketOrderCacheCount[e] > 0
  /\ flush' = [flush EXCEPT ![e] = "whole"]
  /\ UNCHANGED <<vars, TotalOutOfOrderPacketsLost, PacketOrderCache,
                 PacketOrderCacheStartIdx, PacketOrderCacheCount, historyVars>>

FirstPacket(e) == PacketOrderCache[e][PacketOrderCacheStartIdx[e]]

Advance(e) ==
  PacketOrderCacheStartIdx' =
    [PacketOrderCacheStartIdx EXCEPT ![e] = CircularIdx(e, 1)]

\* A packet that waits in the cache does not wait for longer than the others
\* are on their way.
StillRecent(e, header) == notify[Peer(e)].OutSeq - header.Seq <= MaxPacketAge

\* The loop's turn for a slot with a packet: ReceivedPacket again, this time
\* past the cache.  The loop ends with the last packet.  When e comes to wait
\* for a flush of its sequence history it gives up the packets in the cache,
\* as any new packets.
Replay(e) ==
  LET header == FirstPacket(e)
      left == PacketOrderCacheCount[e] - 1
  IN  /\ flush[e] # "none"
      /\ ~dispatching[e]
      /\ header # NoHeader
      /\ StillRecent(e, header)
      /\ \/ /\ Drop(e, header)
            /\ waited' = [waited EXCEPT ![e] = @ /\ left > 0]
            /\ UNCHANGED <<ahead, dispatched>>
         \/ /\ Process(e, header)
            /\ waited' = [waited EXCEPT ![e] = (@ \/ ~dispatching'[e]) /\ left > 0]
            /\ ahead' = [ahead EXCEPT ![e] = IF dispatching'[e] THEN @ ELSE {}]
      /\ PacketOrderCache' =
           [PacketOrderCache EXCEPT ![e][PacketOrderCacheStartIdx[e]] = NoHeader]
      /\ PacketOrderCacheCount' = [PacketOrderCacheCount EXCEPT ![e] = left]
      /\ Advance(e)
      /\ flush' = [flush EXCEPT ![e] = IF left = 0 THEN "none" ELSE @]

\* The loop's turn for an empty slot, when the whole cache is flushed.
SkipMissing(e) ==
  /\ flush[e] = "whole"
  /\ ~dispatching[e]
  /\ FirstPacket(e) = NoHeader
  /\ Advance(e)
  /\ UNCHANGED <<vars, TotalOutOfOrderPacketsLost, PacketOrderCache,
                 PacketOrderCacheCount, flush, historyVars>>

\* The loop stops at the first packet that is missing.
StopAtMissing(e) ==
  /\ flush[e] = "first"
  /\ ~dispatching[e]
  /\ FirstPacket(e) = NoHeader
  /\ flush' = [flush EXCEPT ![e] = "none"]
  /\ UNCHANGED <<vars, TotalOutOfOrderPacketsLost, PacketOrderCache,
                 PacketOrderCacheStartIdx, PacketOrderCacheCount, historyVars>>

CacheNext == \E e \in Endpoint :
  \/ Send(e)
  \/ Acknowledge(e)
  \/ \E header \in network[Peer(e)] : ReceivedRawPacket(e, header)
  \/ \E header \in network[Peer(e)] : CachePacket(e, header)
  \/ PostTickDispatch(e)
  \/ Replay(e)
  \/ SkipMissing(e)
  \/ StopAtMissing(e)

\* A turn of the loop that advances the cache, Replay or SkipMissing.
TurnReady(e) ==
  LET header == FirstPacket(e)
  IN  /\ flush[e] # "none"
      /\ ~dispatching[e]
      /\ header = NoHeader => flush[e] = "whole"
      /\ header # NoHeader =>
           /\ StillRecent(e, header)
           /\ GetSequenceDelta(notify[e], header) > 0 => Recent(notify[e], header)

Turn(e) == TurnReady(e) /\ Advance(e)

\* FlushPacketOrderCache is a call: its loop runs on, and what it dispatches
\* returns.
CacheSpec ==
  /\ CacheInit /\ [][CacheNext]_orderVars
  /\ \A e \in Endpoint : /\ WF_orderVars(Acknowledge(e) \/ StopAtMissing(e))
                         /\ WF_PacketOrderCacheStartIdx(Turn(e))

-----------------------------------------------------------------------------
(* Properties                                                              *)

CacheTypeOK ==
  /\ TypeOK
  /\ TotalOutOfOrderPacketsLost \in [Endpoint -> 0 .. EnableThreshold]
  /\ PacketOrderCache \in [Endpoint -> [Slot -> Header \cup {NoHeader}]]
  /\ PacketOrderCacheStartIdx \in [Endpoint -> Slot]
  /\ PacketOrderCacheCount \in [Endpoint -> 0 .. Capacity]
  /\ flush \in [Endpoint -> {"none", "first", "whole"}]
  /\ ahead \in [Endpoint -> SUBSET Number]
  /\ dispatched \in [Endpoint -> SUBSET Number]
  /\ waited \in [Endpoint -> BOOLEAN]

\* The comment in FlushPacketOrderCache: the cache index must line up with
\* the sequence number, but for a packet in the last slot, which forces the
\* whole cache to be flushed.  It does until e comes to wait for a flush of
\* its sequence history with packets in the cache: then a packet is taken from
\* the cache, and the cache advances, while InSeq need not.
LinesUp(e) == ~waited[e] /\ flush[e] # "whole" =>
  \A i \in 0 .. Capacity - 2 :
    LET packet == PacketOrderCache[e][CircularIdx(e, i)]
    IN  packet # NoHeader => packet.Seq = InPacketId[e] + 1 + i

\* When no flush of the cache is going on it has room: its first slot is
\* empty, as the packet in it would have been replayed, and its last is, as a
\* packet there would have forced a flush.  So a slot that is taken holds the
\* packet itself, and what is dropped for it is a duplicate.
RoomForMore(e) == flush[e] = "none" =>
  /\ FirstPacket(e) = NoHeader
  /\ PacketOrderCache[e][CircularIdx(e, Capacity - 1)] = NoHeader

\* The types, and that the slots mean what the code takes them to mean.
CacheAgrees ==
  /\ CacheTypeOK
  /\ \A e \in Endpoint : LinesUp(e) /\ RoomForMore(e)

\* The packets in the cache.
Cached(e) == {PacketOrderCache[e][i] : i \in Slot} \ {NoHeader}

\* A packet that arrives ahead of the sequence is dispatched in the end,
\* however early it came, whatever was missing and whatever came after it:
\* it is in the cache until it is, unless it is given up in a wait for a flush.
NothingDropped == \A e \in Endpoint : \A id \in ahead[e] \ dispatched[e] :
  \E packet \in Cached(e) : packet.Seq = id

\* The loop over the cache, which ends by its count, ends.
FlushEnds == \A e \in Endpoint : flush[e] # "none" ~> flush[e] = "none"

=============================================================================
