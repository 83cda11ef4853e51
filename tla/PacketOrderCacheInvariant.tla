----------------------- MODULE PacketOrderCacheInvariant -----------------------
(***************************************************************************)
(* The inductive invariant of PacketOrderCache: where the cached packets   *)
(* lie, that the packet layer could have received each of them just now,   *)
(* and that it would not drop one that is replayed after those before it.  *)
(***************************************************************************)
EXTENDS PacketOrderCache, PacketNotifyInvariant

\* The packet at linear index i of e's cache, and the slots that are taken.
At(e, i) == PacketOrderCache[e][CircularIdx(e, i)]
Taken(e) == {i \in Slot : PacketOrderCache[e][i] # NoHeader}

\* The packets of its peer that e may still process.
Receivable(e) == network[Peer(e)] \cup Cached(e)

\* The count is that of the packets in the cache, and there are none until
\* the cache is made.
CountsPackets(e) ==
  /\ PacketOrderCacheCount[e] = Cardinality(Taken(e))
  /\ PacketOrderCacheCount[e] > 0 => IsSet(e)

\* The last slot is empty unless the whole cache is flushed.
LastIsEmpty(e) == flush[e] # "whole" => At(e, Capacity - 1) = NoHeader

\* Cached packets are in the order of their numbers, all of them are ahead of
\* the last one processed, and all acknowledge at least as much.
CacheInOrder(e) == ~waited[e] => \A i \in Slot : At(e, i) # NoHeader =>
  /\ At(e, i).Seq > InPacketId[e]
  /\ At(e, i).AckedSeq >= notify[e].OutAckSeq
  /\ \A j \in Slot : i < j /\ At(e, j) # NoHeader => At(e, i).Seq < At(e, j).Seq

\* The packets given up in a wait are not asked for.
GivenUp(e) == waited[e] => ahead[e] = {}

\* A packet that came ahead and was not dispatched is in the cache.
Kept(e) == \A id \in ahead[e] \ dispatched[e] :
  \E i \in Slot : At(e, i) # NoHeader /\ At(e, i).Seq = id

\* What the cache says of its packets and their place in the sequence.
SlotsAgree(e) ==
  /\ CountsPackets(e)
  /\ LastIsEmpty(e)
  /\ RoomForMore(e)
  /\ LinesUp(e)
  /\ CacheInOrder(e)
  /\ GivenUp(e)
  /\ Kept(e)

\* A cached packet that is not too old is still on its way, as the network may
\* repeat it, and it acknowledges nothing that its sender did not.
CachedIsSent(e) == \A header \in Cached(e) :
  /\ header.Seq < notify[Peer(e)].OutSeq
  /\ StillRecent(e, header) => header \in network[Peer(e)]
  /\ header.AckedSeq <= notify[Peer(e)].InAckSeq

\* A number stands for one packet, and later packets acknowledge no less.
AcksAscend(e) == \A header \in Receivable(e) :
  /\ \A other \in Receivable(e) :
       /\ header.Seq = other.Seq => header = other
       /\ header.Seq < other.Seq => header.AckedSeq <= other.AckedSeq
  /\ SendBuffer[Peer(e)] # NoHeader =>
       header.AckedSeq <= SendBuffer[Peer(e)].AckedSeq

\* The inductive invariant.
CacheIInv ==
  /\ IInv
  /\ CacheTypeOK
  /\ \A e \in Endpoint : SlotsAgree(e) /\ CachedIsSent(e) /\ AcksAscend(e)

=============================================================================
