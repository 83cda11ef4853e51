------------------------ MODULE PacketOrderCacheProofs ------------------------
(***************************************************************************)
(* The cache of out of order packets is right for every value of the       *)
(* constants: with it the connection still implements what PacketNotify    *)
(* says, and a packet that came ahead is dispatched unless it is given up  *)
(* in a wait for a flush of the sequence history.                          *)
(***************************************************************************)
EXTENDS PacketOrderCacheInvariant, PacketNotifyProofs, FiniteSetTheorems

-----------------------------------------------------------------------------
(* Slots and indices                                                       *)

\* The constants of the cache.
LEMMA CacheConstants ==
  /\ Capacity \in Nat /\ Capacity >= 2
  /\ EnableThreshold \in Nat /\ EnableThreshold >= 1
  /\ PacketOrderMaxMissingPackets \in Nat
BY PacketOrderCacheAssumption

\* The remainder of a sum of two numbers below the divisor.
LEMMA WrapAround ==
  ASSUME NEW N \in Nat \ {0}, NEW s \in 0 .. N - 1, NEW i \in 0 .. N - 1
  PROVE  (s + i) % N = IF s + i < N THEN s + i ELSE s + i - N
<1>1. CASE s + i < N
  <2>1. (N * 0 + (s + i)) % N = s + i
    BY <1>1, Residue
  <2> QED BY <1>1, <2>1
<1>2. CASE ~(s + i < N)
  <2>1. s + i - N \in 0 .. N - 1
    BY <1>2
  <2>2. (N * 1 + (s + i - N)) % N = s + i - N
    BY <2>1, Residue
  <2> QED BY <1>2, <2>2
<1> QED BY <1>1, <1>2

\* The linear indices number the slots, from the first one on.
LEMMA Circular ==
  ASSUME NEW e, PacketOrderCacheStartIdx[e] \in Slot
  PROVE  /\ \A i \in Slot : CircularIdx(e, i) \in Slot
         /\ \A i, j \in Slot : CircularIdx(e, i) = CircularIdx(e, j) => i = j
         /\ \A s \in Slot : \E i \in Slot : CircularIdx(e, i) = s
         /\ CircularIdx(e, 0) = PacketOrderCacheStartIdx[e]
<1> DEFINE s == PacketOrderCacheStartIdx[e]
<1>1. Capacity \in Nat \ {0} /\ s \in 0 .. Capacity - 1
  BY CacheConstants DEF Slot
<1>2. \A i \in 0 .. Capacity - 1 :
        CircularIdx(e, i) = IF s + i < Capacity THEN s + i ELSE s + i - Capacity
  BY <1>1, WrapAround DEF CircularIdx
<1> HIDE DEF s
<1>3. \A i \in Slot : CircularIdx(e, i) \in Slot
  BY <1>1, <1>2 DEF Slot
<1>4. \A i, j \in Slot : CircularIdx(e, i) = CircularIdx(e, j) => i = j
  BY <1>1, <1>2 DEF Slot
<1>5. ASSUME NEW t \in Slot PROVE \E i \in Slot : CircularIdx(e, i) = t
  <2>1. CASE t >= s
    <3>1. t - s \in 0 .. Capacity - 1 /\ s + (t - s) = t /\ t < Capacity
      BY <1>1, <2>1 DEF Slot
    <3> QED BY <1>1, <1>2, <3>1 DEF Slot
  <2>2. CASE t < s
    <3>1. /\ t - s + Capacity \in 0 .. Capacity - 1
          /\ s + (t - s + Capacity) = t + Capacity
          /\ ~(t + Capacity < Capacity) /\ t + Capacity - Capacity = t
      BY <1>1, <2>2 DEF Slot
    <3> QED BY <1>1, <1>2, <3>1 DEF Slot
  <2>3. t \in Int /\ s \in Int
    BY <1>1 DEF Slot
  <2> QED BY <2>1, <2>2, <2>3
<1>6. CircularIdx(e, 0) = s
  BY <1>1, <1>2
<1> QED BY <1>3, <1>4, <1>5, <1>6 DEF s

\* When the cache advances, the first slot becomes the last and every other
\* comes one index earlier.
LEMMA CircularAdvance ==
  ASSUME CacheTypeOK, NEW e \in Endpoint, Advance(e)
  PROVE  /\ PacketOrderCacheStartIdx'[e] \in Slot
         /\ \A i \in 0 .. Capacity - 2 :
              CircularIdx(e, i)' = CircularIdx(e, i + 1)
         /\ CircularIdx(e, Capacity - 1)' = PacketOrderCacheStartIdx[e]
         /\ \A k \in Endpoint : k # e =>
              PacketOrderCacheStartIdx'[k] = PacketOrderCacheStartIdx[k]
<1> DEFINE s == PacketOrderCacheStartIdx[e]
           t == PacketOrderCacheStartIdx'[e]
<1>1. Capacity \in Nat \ {0} /\ Capacity >= 2 /\ s \in 0 .. Capacity - 1
  BY CacheConstants DEF Slot, CacheTypeOK
<1>2. t = IF s + 1 < Capacity THEN s + 1 ELSE s + 1 - Capacity
  <2>1. t = (s + 1) % Capacity
    BY DEF Advance, CircularIdx, CacheTypeOK
  <2>2. 1 \in 0 .. Capacity - 1
    BY <1>1
  <2> HIDE DEF s, t
  <2> QED BY <1>1, <2>1, <2>2, WrapAround
<1>3. t \in 0 .. Capacity - 1
  <2> HIDE DEF s, t
  <2> QED BY <1>1, <1>2
<1>4. \A i \in 0 .. Capacity - 1 :
        /\ CircularIdx(e, i) = IF s + i < Capacity THEN s + i ELSE s + i - Capacity
        /\ CircularIdx(e, i)' = IF t + i < Capacity THEN t + i ELSE t + i - Capacity
  BY <1>1, <1>3, WrapAround DEF CircularIdx
<1>5. \A k \in Endpoint : k # e =>
        PacketOrderCacheStartIdx'[k] = PacketOrderCacheStartIdx[k]
  BY DEF Advance, CacheTypeOK
<1> HIDE DEF s, t
<1>6. ASSUME NEW i \in 0 .. Capacity - 2
      PROVE  CircularIdx(e, i)' = CircularIdx(e, i + 1)
  <2>1. i \in 0 .. Capacity - 1 /\ i + 1 \in 0 .. Capacity - 1 /\ i \in Int
    BY <1>1
  <2>2. /\ CircularIdx(e, i)' = IF t + i < Capacity THEN t + i ELSE t + i - Capacity
        /\ CircularIdx(e, i + 1) =
             IF s + (i + 1) < Capacity THEN s + (i + 1) ELSE s + (i + 1) - Capacity
    BY <1>4, <2>1
  <2> QED BY <1>1, <1>2, <2>1, <2>2
<1>7. CircularIdx(e, Capacity - 1)' = s
  BY <1>1, <1>2, <1>3, <1>4
<1> QED BY <1>3, <1>5, <1>6, <1>7 DEF s, t, Slot

\* The cached packets are those at the linear indices, and are headers.
LEMMA CachedAt ==
  ASSUME CacheTypeOK, NEW e \in Endpoint
  PROVE  /\ Cached(e) = {At(e, i) : i \in Slot} \ {NoHeader}
         /\ Cached(e) \subseteq Header
         /\ \A i \in Slot : /\ At(e, i) \in Header \cup {NoHeader}
                            /\ At(e, i) # NoHeader => At(e, i) \in Cached(e)
         /\ FirstPacket(e) = At(e, 0)
<1>1. /\ PacketOrderCacheStartIdx[e] \in Slot
      /\ PacketOrderCache[e] \in [Slot -> Header \cup {NoHeader}]
  BY DEF CacheTypeOK
<1>2. Cached(e) = {At(e, i) : i \in Slot} \ {NoHeader}
  BY <1>1, Circular DEF Cached, At
<1>3. Cached(e) \subseteq Header
  BY <1>1 DEF Cached
<1>4. \A i \in Slot : At(e, i) \in Header \cup {NoHeader}
  BY <1>1, Circular DEF At
<1>5. FirstPacket(e) = At(e, 0)
  BY <1>1, Circular DEF FirstPacket, At
<1> QED BY <1>2, <1>3, <1>4, <1>5

\* Slots are finitely many.
LEMMA SlotsFinite ==
  ASSUME NEW S \in SUBSET Slot
  PROVE  IsFiniteSet(S) /\ Cardinality(S) \in 0 .. Capacity
<1>1. IsFiniteSet(Slot) /\ Cardinality(Slot) = Capacity
  BY CacheConstants, FS_Interval DEF Slot
<1>2. IsFiniteSet(S) /\ Cardinality(S) <= Capacity
  BY <1>1, FS_Subset
<1>3. Cardinality(S) \in Nat
  BY <1>2, FS_CardinalityType
<1> QED BY <1>2, <1>3, CacheConstants

\* The slots that are taken are.
LEMMA TakenFinite ==
  ASSUME NEW e
  PROVE  IsFiniteSet(Taken(e)) /\ Cardinality(Taken(e)) \in 0 .. Capacity
BY SlotsFinite DEF Taken

\* A cache with no packets has no slot taken.
LEMMA EmptyCache ==
  ASSUME CacheTypeOK, NEW e \in Endpoint, Taken(e) = {}
  PROVE  \A i \in Slot : At(e, i) = NoHeader
BY Circular DEF CacheTypeOK, At, Taken

-----------------------------------------------------------------------------
(* What the packet layer does with a packet of the network or of the cache *)

\* The numbers of an endpoint, of its peer and of a packet on its way.
LEMMA OnItsWay ==
  ASSUME IInv, NEW e \in Endpoint, NEW header \in network[Peer(e)]
  PROVE  LET n == notify[e]
             q == notify[Peer(e)]
         IN  /\ n \in Notify /\ q \in Notify /\ header \in Header
             /\ InPacketId[e] = n.InSeq
             /\ n.InSeq \in Int /\ n.OutSeq \in Int /\ n.OutAckSeq \in Int
             /\ header.Seq \in Int /\ header.AckedSeq \in Int
             /\ n.InSeq - header.Seq < SeqNumberHalf
             /\ header.Seq - n.InSeq < SeqNumberHalf
             /\ header.AckedSeq < n.OutSeq
             /\ n.OutAckSeq < n.OutSeq
             /\ n.OutSeq - n.OutAckSeq < SeqNumberHalf
<1> DEFINE n == notify[e]
           p == Peer(e)
           q == notify[p]
<1>1. TypeOK /\ p \in Endpoint /\ Peer(p) = e /\ header \in Header
  BY Endpoints DEF IInv, TypeOK
<1>2. /\ n.InSeq \in Int /\ n.InAckSeq \in Int
      /\ n.OutSeq \in Int /\ n.OutAckSeq \in Int
      /\ q.OutSeq \in Int /\ q.InSeq \in Int /\ q.InAckSeq \in Int
      /\ q.OutAckSeq \in Int
      /\ header.Seq \in Int /\ header.AckedSeq \in Int
      /\ n \in Notify /\ q \in Notify
  BY <1>1, NumbersType, HeaderType
<1>3. /\ header.Seq < q.OutSeq
      /\ q.OutSeq - header.Seq <= MaxPacketAge
      /\ header.AckedSeq <= q.InAckSeq
  BY <1>1 DEF IInv, NetworkIsRecent, HeadersTruthful, Truthful
<1>4. /\ q.InAckSeq <= q.InSeq
      /\ q.InSeq < n.OutSeq
      /\ n.InSeq < q.OutSeq
      /\ q.OutAckSeq <= n.InAckSeq
      /\ n.InAckSeq <= n.InSeq
  BY <1>1 DEF IInv, NumbersInOrder
<1>5. /\ n.OutAckSeq < n.OutSeq /\ n.OutSeq - n.OutAckSeq <= MaxInFlight + 1
      /\ q.OutAckSeq < q.OutSeq /\ q.OutSeq - q.OutAckSeq <= MaxInFlight + 1
  BY <1>1 DEF IInv, InFlightBounded
<1>6. InPacketId[e] = n.InSeq
  BY DEF IInv, CountersAgree
<1> HIDE DEF n, q
<1>7. /\ n.InSeq - header.Seq < SeqNumberHalf
      /\ header.Seq - n.InSeq < SeqNumberHalf
      /\ header.AckedSeq < n.OutSeq
      /\ n.OutSeq - n.OutAckSeq < SeqNumberHalf
  BY <1>2, <1>3, <1>4, <1>5, Constants, HalfType
<1> QED BY <1>1, <1>2, <1>5, <1>6, <1>7 DEF n, q

\* A packet on its way that is ahead of the sequence and acknowledges no less
\* than was known is not dropped.
LEMMA NotDropped ==
  ASSUME IInv, NEW e \in Endpoint, NEW header \in network[Peer(e)],
         header.Seq > InPacketId[e], header.AckedSeq >= notify[e].OutAckSeq
  PROVE  GetSequenceDelta(notify[e], header) # 0
<1> DEFINE n == notify[e]
<1>1. /\ n.InSeq \in Int /\ n.OutSeq \in Int /\ n.OutAckSeq \in Int
      /\ header.Seq \in Int /\ header.AckedSeq \in Int
      /\ InPacketId[e] = n.InSeq
      /\ n.InSeq - header.Seq < SeqNumberHalf
      /\ header.Seq - n.InSeq < SeqNumberHalf
      /\ header.AckedSeq < n.OutSeq
      /\ n.OutSeq - n.OutAckSeq < SeqNumberHalf
  BY OnItsWay
<1> HIDE DEF n
<1>2. /\ SeqGt(header.Seq, n.InSeq)
      /\ SeqDiff(header.Seq, n.InSeq) = header.Seq - n.InSeq
  BY <1>1, SeqNear, HalfType DEF n
<1>3. /\ header.AckedSeq - n.OutAckSeq < SeqNumberHalf
      /\ n.OutAckSeq - header.AckedSeq <= SeqNumberHalf
      /\ n.OutSeq - header.AckedSeq < SeqNumberHalf
      /\ header.AckedSeq - n.OutSeq <= SeqNumberHalf
      /\ header.AckedSeq >= n.OutAckSeq
  BY <1>1, HalfType DEF n
<1>4. SeqGeq(header.AckedSeq, n.OutAckSeq) /\ SeqGt(n.OutSeq, header.AckedSeq)
  BY <1>1, <1>3, SeqNear
<1>5. GetSequenceDelta(n, header) = header.Seq - n.InSeq
  BY <1>2, <1>4 DEF GetSequenceDelta
<1> QED BY <1>1, <1>5 DEF n

\* A recent packet that is not dropped is as far ahead as the code computes,
\* and acknowledges no less than was known.
LEMMA DeltaExact ==
  ASSUME IInv, NEW e \in Endpoint, NEW header \in network[Peer(e)],
         GetSequenceDelta(notify[e], header) > 0, Recent(notify[e], header)
  PROVE  /\ GetSequenceDelta(notify[e], header) = header.Seq - InPacketId[e]
         /\ header.AckedSeq >= notify[e].OutAckSeq
         /\ header.Seq > InPacketId[e]
<1> DEFINE n == notify[e]
<1>1. /\ n.InSeq \in Int /\ n.OutSeq \in Int /\ n.OutAckSeq \in Int
      /\ header.Seq \in Int /\ header.AckedSeq \in Int
      /\ InPacketId[e] = n.InSeq
      /\ n.InSeq - header.Seq < SeqNumberHalf
      /\ header.Seq - n.InSeq < SeqNumberHalf
      /\ header.AckedSeq < n.OutSeq
      /\ n.OutAckSeq < n.OutSeq
      /\ n.OutSeq - n.OutAckSeq < SeqNumberHalf
  BY OnItsWay
<1>2. n.OutSeq - header.AckedSeq <= MaxPacketAge
  BY DEF Recent
<1>3. /\ SeqGt(header.Seq, n.InSeq)
      /\ SeqGeq(header.AckedSeq, n.OutAckSeq)
      /\ GetSequenceDelta(n, header) = SeqDiff(header.Seq, n.InSeq)
  <2>1. ~(0 > 0)
    OBVIOUS
  <2> QED BY <2>1 DEF GetSequenceDelta
<1> HIDE DEF n
<1>4. /\ header.AckedSeq - n.OutAckSeq < SeqNumberHalf
      /\ n.OutAckSeq - header.AckedSeq <= SeqNumberHalf
      /\ n.InSeq - header.Seq <= SeqNumberHalf
  BY <1>1, <1>2, Constants, HalfType
<1>5. SeqDiff(header.Seq, n.InSeq) = header.Seq - n.InSeq /\ header.Seq > n.InSeq
  BY <1>1, <1>3, <1>4, SeqNear
<1>6. header.AckedSeq >= n.OutAckSeq
  BY <1>1, <1>3, <1>4, SeqNear
<1> QED BY <1>1, <1>3, <1>5, <1>6 DEF n

\* Processing a packet: its acknowledgements are known afterwards, and it is
\* the last one in sequence if it is dispatched.
LEMMA ProcessExact ==
  ASSUME IInv, NEW e \in Endpoint, NEW header \in network[Peer(e)],
         ReceivedPacket(e, header)
  PROVE  /\ notify'[e].OutAckSeq = header.AckedSeq
         /\ notify'[e].OutSeq = notify[e].OutSeq
         /\ notify'[e].InAckSeq >= notify[e].InAckSeq
         /\ dispatching'[e] => InPacketId'[e] = header.Seq
         /\ \A k \in Endpoint : k # e => /\ notify'[k] = notify[k]
                                         /\ InPacketId'[k] = InPacketId[k]
         /\ network' = network /\ SendBuffer' = SendBuffer
<1> DEFINE n == notify[e]
           m == Update(n, header)
<1>1. /\ header \in Header /\ n \in Notify
      /\ AcksInRange(n, header)
      /\ n.InAckSeq = n.InSeq
      /\ header.Seq - n.InSeq < SeqNumberHalf
      /\ GetSequenceDelta(n, header) = header.Seq - n.InSeq
  BY ReceivedInRange, OnItsWay
<1>2. n.InSeq \in Int /\ header.Seq \in Int /\ InPacketId[e] = n.InSeq
  BY OnItsWay
<1>3. /\ m.OutAckSeq = header.AckedSeq
      /\ m.OutSeq = n.OutSeq
      /\ IsWaitingForFlush(m) => m.InSeq \in n.InSeq .. header.Seq /\ m.InAckSeq = m.InSeq
      /\ ~IsWaitingForFlush(m) => m.InAckSeq = n.InAckSeq
  BY <1>1, UpdateExact
<1>4. /\ notify' = [notify EXCEPT ![e] = m]
      /\ InPacketId' = [InPacketId EXCEPT ![e] =
                          @ + IF IsWaitingForFlush(m) THEN m.InSeq - n.InSeq
                              ELSE GetSequenceDelta(n, header)]
      /\ dispatching' = [dispatching EXCEPT ![e] = ~IsWaitingForFlush(m)]
      /\ network' = network /\ SendBuffer' = SendBuffer
  BY DEF ReceivedPacket
<1> HIDE DEF m
<1>5. /\ notify \in [Endpoint -> Notify] /\ InPacketId \in [Endpoint -> Int]
      /\ dispatching \in [Endpoint -> BOOLEAN]
  BY DEF IInv, TypeOK, Number
<1>6. notify'[e] = m /\ dispatching'[e] = ~IsWaitingForFlush(m)
  BY <1>4, <1>5
<1>7. m.InAckSeq >= n.InAckSeq
  BY <1>1, <1>2, <1>3
<1>8. dispatching'[e] => InPacketId'[e] = header.Seq
  <2>1. ~IsWaitingForFlush(m) =>
          InPacketId'[e] = InPacketId[e] + GetSequenceDelta(n, header)
    BY <1>4, <1>5
  <2>2. InPacketId[e] + GetSequenceDelta(n, header) = header.Seq
    <3>1. /\ InPacketId[e] = n.InSeq
          /\ GetSequenceDelta(n, header) = header.Seq - n.InSeq
          /\ n.InSeq \in Int /\ header.Seq \in Int
      BY <1>1, <1>2
    <3> HIDE DEF n
    <3> QED BY <3>1
  <2> QED BY <1>6, <2>1, <2>2
<1> QED BY <1>3, <1>4, <1>5, <1>6, <1>7, <1>8

-----------------------------------------------------------------------------
(* What a step does to what an endpoint sends                              *)

\* The numbers a sender counts grow, a packet that is not too old stays on its
\* way, and the header of one that is sent is the one being written or newer.
SenderGoesOn(p) ==
  /\ notify'[p].OutSeq >= notify[p].OutSeq
  /\ notify'[p].InAckSeq >= notify[p].InAckSeq
  /\ \A header \in network[p] :
       notify'[p].OutSeq - header.Seq <= MaxPacketAge => header \in network'[p]
  /\ \A header \in network'[p] \ network[p] :
       /\ header = HeaderToSend(p) /\ header.Seq = notify[p].OutSeq
       /\ SendBuffer[p] # NoHeader /\ SendBuffer[p].AckedSeq <= header.AckedSeq
       /\ SendBuffer'[p] = NoHeader
  /\ SendBuffer'[p] # NoHeader =>
       \/ SendBuffer'[p] = SendBuffer[p]
       \/ SendBuffer'[p].AckedSeq = notify[p].InAckSeq

\* A step that neither sends nor writes.
LEMMA SenderQuiet ==
  ASSUME IInv, NEW p \in Endpoint,
         notify'[p].OutSeq = notify[p].OutSeq,
         notify'[p].InAckSeq >= notify[p].InAckSeq,
         network'[p] = network[p], SendBuffer'[p] = SendBuffer[p]
  PROVE  SenderGoesOn(p)
<1>1. notify[p].OutSeq \in Int
  BY NumbersType DEF IInv
<1> QED BY <1>1 DEF SenderGoesOn

\* Writing a header.
LEMMA SenderStartPacket ==
  ASSUME IInv, NEW e \in Endpoint, StartPacket(e), NEW p \in Endpoint
  PROVE  SenderGoesOn(p)
<1>1. /\ notify \in [Endpoint -> Notify] /\ notify[p] \in Notify
      /\ SendBuffer \in [Endpoint -> Header \cup {NoHeader}]
      /\ notify[p].OutSeq \in Int /\ notify[p].InAckSeq \in Int
  <2>1. TypeOK
    BY DEF IInv
  <2>2. notify[p].OutSeq \in Int /\ notify[p].InAckSeq \in Int
    BY <2>1, NumbersType
  <2> QED BY <2>1, <2>2 DEF TypeOK
<1> DEFINE words == HistoryWordsNeeded(notify[e])
<1>2. /\ notify' = [notify EXCEPT ![e] = WriteHeader(notify[e], words)]
      /\ SendBuffer' = [SendBuffer EXCEPT ![e] = HeaderOf(notify[e], words)]
      /\ network' = network
  BY DEF StartPacket
<1> HIDE DEF words
<1>3. CASE p = e
  <2>1. /\ notify'[p].OutSeq = notify[p].OutSeq
        /\ notify'[p].InAckSeq = notify[p].InAckSeq
    BY <1>1, <1>2, <1>3 DEF WriteHeader, Notify
  <2>2. SendBuffer'[p].AckedSeq = notify[p].InAckSeq
    BY <1>1, <1>2, <1>3 DEF HeaderOf
  <2> QED BY <1>1, <1>2, <2>1, <2>2 DEF SenderGoesOn
<1>4. CASE p # e
  <2>1. notify'[p] = notify[p] /\ SendBuffer'[p] = SendBuffer[p]
    BY <1>1, <1>2, <1>4
  <2> QED BY <1>1, <1>2, <2>1, SenderQuiet
<1> QED BY <1>3, <1>4

\* Sending a packet.
LEMMA SenderFlushNet ==
  ASSUME IInv, NEW e \in Endpoint, FlushNet(e), NEW p \in Endpoint
  PROVE  SenderGoesOn(p)
<1> DEFINE n == notify[e]
           header == HeaderToSend(e)
           m == CommitAndIncrementOutSeq(
                  IF CanRefresh(n) THEN WriteHeader(n, n.WrittenHistoryWordCount)
                                   ELSE n)
<1>1. /\ notify \in [Endpoint -> Notify] /\ notify[p] \in Notify /\ n \in Notify
      /\ SendBuffer \in [Endpoint -> Header \cup {NoHeader}]
      /\ network \in [Endpoint -> SUBSET Header]
      /\ notify[p].OutSeq \in Int /\ notify[p].InAckSeq \in Int
      /\ n.OutSeq \in Int /\ n.InAckSeq \in Int
  <2>1. TypeOK
    BY DEF IInv
  <2>2. /\ notify[p].OutSeq \in Int /\ notify[p].InAckSeq \in Int
        /\ n.OutSeq \in Int /\ n.InAckSeq \in Int
    BY <2>1, NumbersType
  <2> QED BY <2>1, <2>2 DEF TypeOK
<1>2. /\ SendBuffer[e] # NoHeader
      /\ notify' = [notify EXCEPT ![e] = m]
      /\ network' = [network EXCEPT
                       ![e] = InTransit(network[e] \cup {header}, n.OutSeq + 1)]
      /\ SendBuffer' = [SendBuffer EXCEPT ![e] = NoHeader]
  BY DEF FlushNet
<1>3. CASE p # e
  <2> HIDE DEF m
  <2>1. /\ notify'[p] = notify[p] /\ SendBuffer'[p] = SendBuffer[p]
        /\ network'[p] = network[p]
    BY <1>1, <1>2, <1>3
  <2> QED BY <1>1, <2>1, SenderQuiet
<1>4. CASE p = e
  <2>1. /\ header.Seq = n.OutSeq
        /\ m.OutSeq = n.OutSeq + 1 /\ m.InAckSeq = n.InAckSeq
    BY <1>2, SentHeader
  <2>2. SendBuffer[e].AckedSeq <= header.AckedSeq
    <3>1. /\ SendBuffer[e].AckedSeq = n.WrittenInAckSeq
          /\ n.WrittenInAckSeq <= n.InAckSeq
          /\ n.WrittenInAckSeq \in Int
      BY <1>2, NumbersType DEF IInv, SendBufferAgrees
    <3>2. \/ header.AckedSeq = n.InAckSeq
          \/ header = SendBuffer[e]
      BY DEF HeaderToSend, HeaderOf
    <3> HIDE DEF n, header
    <3> QED BY <1>1, <3>1, <3>2
  <2> HIDE DEF m, header
  <2>3. /\ notify'[e] = m /\ SendBuffer'[e] = NoHeader
        /\ network'[e] = InTransit(network[e] \cup {header}, n.OutSeq + 1)
    BY <1>1, <1>2
  <2>4. \A h \in network[e] :
          notify'[e].OutSeq - h.Seq <= MaxPacketAge => h \in network'[e]
    BY <2>1, <2>3 DEF InTransit
  <2>5. \A h \in network'[e] \ network[e] : h = header
    BY <2>3 DEF InTransit
  <2>6. notify'[e].OutSeq >= notify[e].OutSeq /\ notify'[e].InAckSeq >= notify[e].InAckSeq
    BY <1>1, <2>1, <2>3
  <2> QED BY <1>2, <1>4, <2>1, <2>2, <2>3, <2>4, <2>5, <2>6 DEF SenderGoesOn, header
<1> QED BY <1>3, <1>4

\* Acknowledging a packet changes none of the numbers of what is sent but the
\* last packet acknowledged.
LEMMA AcknowledgeExact ==
  ASSUME IInv, NEW e \in Endpoint, NEW bSkipAck \in BOOLEAN,
         AcknowledgePacket(e, bSkipAck)
  PROVE  /\ notify'[e].InAckSeq >= notify[e].InAckSeq
         /\ \A k \in Endpoint : /\ notify'[k].OutSeq = notify[k].OutSeq
                                /\ notify'[k].OutAckSeq = notify[k].OutAckSeq
                                /\ k # e => notify'[k] = notify[k]
         /\ network' = network /\ SendBuffer' = SendBuffer
         /\ InPacketId' = InPacketId
<1> DEFINE n == notify[e]
           b == ~bSkipAck
           m == AckSeq(n, n.InSeq, b)
<1>1. n \in Notify /\ n.InSeq \in Int /\ n.InAckSeq \in Int /\ b \in BOOLEAN
      /\ notify \in [Endpoint -> Notify]
  BY NumbersType DEF IInv, TypeOK
<1>2. /\ n.InAckSeq < n.InSeq /\ n.InSeq - n.InAckSeq < SeqNumberHalf
      /\ InPacketId[e] = n.InSeq
  BY DEF AcknowledgePacket, IInv, DispatchFits, CountersAgree
<1>3. /\ notify' = [notify EXCEPT ![e] = m]
      /\ network' = network /\ SendBuffer' = SendBuffer /\ InPacketId' = InPacketId
  BY <1>2 DEF AcknowledgePacket
<1>4. m.InAckSeq = n.InSeq /\ m.OutSeq = n.OutSeq /\ m.OutAckSeq = n.OutAckSeq
  <2> HIDE DEF n, b
  <2>1. n.InAckSeq <= n.InSeq
    BY <1>1, <1>2
  <2> QED BY <1>1, <1>2, <2>1, AckSeqExact
<1> HIDE DEF m
<1> QED BY <1>1, <1>2, <1>3, <1>4

\* Every step.
LEMMA SenderStep ==
  ASSUME IInv, [Next]_vars, NEW p \in Endpoint
  PROVE  SenderGoesOn(p)
<1>1. notify[p].OutSeq \in Int /\ notify[p].InAckSeq \in Int
  BY NumbersType DEF IInv
<1>2. CASE UNCHANGED vars
  BY <1>1, <1>2, SenderQuiet DEF vars
<1>3. ASSUME NEW e \in Endpoint, NEW header \in network[Peer(e)],
             ReceivedPacket(e, header)
      PROVE  SenderGoesOn(p)
  <2>1. /\ notify'[p].OutSeq = notify[p].OutSeq
        /\ notify'[p].InAckSeq >= notify[p].InAckSeq
        /\ network' = network /\ SendBuffer' = SendBuffer
    BY <1>1, <1>3, ProcessExact
  <2> QED BY <2>1, SenderQuiet
<1>4. ASSUME NEW e \in Endpoint, NEW bSkipAck \in BOOLEAN,
             AcknowledgePacket(e, bSkipAck)
      PROVE  SenderGoesOn(p)
  <2>1. /\ notify'[p].OutSeq = notify[p].OutSeq
        /\ notify'[p].InAckSeq >= notify[p].InAckSeq
        /\ network' = network /\ SendBuffer' = SendBuffer
    BY <1>1, <1>4, AcknowledgeExact
  <2> QED BY <2>1, SenderQuiet
<1> QED BY <1>2, <1>3, <1>4, SenderStartPacket, SenderFlushNet DEF Next

\* What is on the way to an endpoint stays right when the cache takes packets
\* from the network or gives packets up.
LEMMA OnTheWayStep ==
  ASSUME IInv, IInv', [Next]_vars, CacheTypeOK, NEW e \in Endpoint,
         CachedIsSent(e), AcksAscend(e), Cached(e)' \subseteq Receivable(e)
  PROVE  CachedIsSent(e)' /\ AcksAscend(e)'
<1> DEFINE p == Peer(e)
           new == network'[p] \ network[p]
<1>1. /\ p \in Endpoint /\ SenderGoesOn(p)
      /\ notify[p].OutSeq \in Int /\ notify'[p].OutSeq \in Int
      /\ notify[p].InAckSeq \in Int /\ notify'[p].InAckSeq \in Int
      /\ MaxPacketAge \in Nat
  <2>1. p \in Endpoint /\ TypeOK /\ TypeOK'
    BY Endpoints DEF IInv
  <2>2. notify[p] \in Notify /\ notify'[p] \in Notify
    BY <2>1 DEF TypeOK
  <2> QED BY <2>1, <2>2, SenderStep, Constants DEF Notify, Number
<1>2. ASSUME NEW header \in Receivable(e)
      PROVE  /\ header \in Header /\ header.Seq \in Int /\ header.AckedSeq \in Int
             /\ header.Seq < notify[p].OutSeq
             /\ header.AckedSeq <= notify[p].InAckSeq
             /\ StillRecent(e, header) => header \in network[p]
  <2>1. header \in Header
    BY <1>1, CachedAt DEF Receivable, CacheTypeOK, TypeOK
  <2>2. CASE header \in network[p]
    BY <1>1, <2>1, <2>2, HeaderType
       DEF IInv, NetworkIsRecent, HeadersTruthful, Truthful
  <2>3. CASE header \in Cached(e)
    BY <2>1, <2>3, HeaderType DEF CachedIsSent
  <2> QED BY <2>2, <2>3 DEF Receivable
<1>3. ASSUME NEW header \in new
      PROVE  /\ header = HeaderToSend(p) /\ header.Seq = notify[p].OutSeq
             /\ SendBuffer[p] # NoHeader /\ SendBuffer[p].AckedSeq <= header.AckedSeq
             /\ SendBuffer'[p] = NoHeader
             /\ header.AckedSeq \in Int /\ SendBuffer[p].AckedSeq \in Int
  <2>1. /\ header = HeaderToSend(p) /\ header.Seq = notify[p].OutSeq
        /\ SendBuffer[p] # NoHeader /\ SendBuffer[p].AckedSeq <= header.AckedSeq
        /\ SendBuffer'[p] = NoHeader
    BY <1>1 DEF SenderGoesOn
  <2>2. header \in Header
    BY <1>1 DEF IInv, TypeOK
  <2>3. SendBuffer[p] \in Header
    BY <1>1, <2>1 DEF IInv, TypeOK
  <2> QED BY <2>1, <2>2, <2>3, HeaderType
<1>4. Receivable(e)' \subseteq Receivable(e) \cup new
  BY DEF Receivable
<1>5. CachedIsSent(e)'
  <2> SUFFICES ASSUME NEW header \in Cached(e)'
               PROVE  /\ header.Seq < notify'[p].OutSeq
                      /\ notify'[p].OutSeq - header.Seq <= MaxPacketAge =>
                           header \in network'[p]
                      /\ header.AckedSeq <= notify'[p].InAckSeq
    BY DEF CachedIsSent, StillRecent
  <2>1. header \in Receivable(e)
    OBVIOUS
  <2>2. /\ header.Seq \in Int /\ header.AckedSeq \in Int
        /\ header.Seq < notify[p].OutSeq
        /\ header.AckedSeq <= notify[p].InAckSeq
        /\ notify[p].OutSeq - header.Seq <= MaxPacketAge => header \in network[p]
    BY <1>2, <2>1 DEF StillRecent
  <2>3. notify'[p].OutSeq >= notify[p].OutSeq /\ notify'[p].InAckSeq >= notify[p].InAckSeq
    BY <1>1 DEF SenderGoesOn
  <2>4. header \in network[p] /\ notify'[p].OutSeq - header.Seq <= MaxPacketAge =>
          header \in network'[p]
    BY <1>1 DEF SenderGoesOn
  <2> HIDE DEF p
  <2> QED BY <1>1, <2>2, <2>3, <2>4
<1>6. AcksAscend(e)'
  <2> SUFFICES ASSUME NEW header \in Receivable(e)', NEW other \in Receivable(e)'
               PROVE  /\ header.Seq = other.Seq => header = other
                      /\ header.Seq < other.Seq => header.AckedSeq <= other.AckedSeq
                      /\ SendBuffer'[p] # NoHeader =>
                           header.AckedSeq <= SendBuffer'[p].AckedSeq
    BY DEF AcksAscend
  <2> HIDE DEF new
  <2>1. SendBuffer'[p] # NoHeader => header.AckedSeq <= SendBuffer'[p].AckedSeq
    <3>1. CASE header \in new
      BY <1>3, <3>1
    <3>2. CASE header \in Receivable(e)
      <4>1. SendBuffer[p] # NoHeader => header.AckedSeq <= SendBuffer[p].AckedSeq
        BY <3>2 DEF AcksAscend
      <4>2. header.AckedSeq <= notify[p].InAckSeq
        BY <1>2, <3>2
      <4> QED BY <1>1, <4>1, <4>2 DEF SenderGoesOn
    <3> QED BY <1>4, <3>1, <3>2
  <2>2. CASE header \in Receivable(e) /\ other \in Receivable(e)
    BY <2>1, <2>2 DEF AcksAscend
  <2>3. CASE header \in Receivable(e) /\ other \in new
    <3>1. /\ header.Seq < other.Seq /\ header.Seq \in Int /\ header.AckedSeq \in Int
          /\ other.Seq \in Int
      BY <1>1, <1>2, <1>3, <2>3
    <3>2. header.AckedSeq <= SendBuffer[p].AckedSeq
      BY <1>3, <2>3 DEF AcksAscend
    <3>3. SendBuffer[p].AckedSeq <= other.AckedSeq /\ other.AckedSeq \in Int
          /\ SendBuffer[p].AckedSeq \in Int
      BY <1>3, <2>3
    <3> HIDE DEF p
    <3> QED BY <2>1, <3>1, <3>2, <3>3
  <2>4. CASE header \in new /\ other \in Receivable(e)
    <3>1. /\ other.Seq < header.Seq /\ other.Seq \in Int /\ header.Seq \in Int
      BY <1>1, <1>2, <1>3, <2>4
    <3> QED BY <2>1, <3>1
  <2>5. CASE header \in new /\ other \in new
    <3>1. header = other /\ header.Seq \in Int
      BY <1>1, <1>3, <2>5
    <3> QED BY <2>1, <3>1
  <2> QED BY <1>4, <2>2, <2>3, <2>4, <2>5
<1> QED BY <1>5, <1>6

-----------------------------------------------------------------------------
(* What a step does to the slots                                           *)

\* What the cache of an endpoint is made of, and what it is compared with.
SlotsKept(e) ==
  /\ PacketOrderCache'[e] = PacketOrderCache[e]
  /\ PacketOrderCacheStartIdx'[e] = PacketOrderCacheStartIdx[e]
  /\ PacketOrderCacheCount'[e] = PacketOrderCacheCount[e]
  /\ TotalOutOfOrderPacketsLost'[e] >= TotalOutOfOrderPacketsLost[e]
  /\ ahead'[e] = ahead[e] /\ waited'[e] = waited[e]
  /\ dispatched[e] \subseteq dispatched'[e]

SlotsUnmoved(e) ==
  /\ SlotsKept(e)
  /\ flush'[e] = flush[e]
  /\ InPacketId'[e] = InPacketId[e]
  /\ notify'[e].OutAckSeq = notify[e].OutAckSeq

\* The cache is made once and for all.
LEMMA StaysSet ==
  ASSUME CacheTypeOK, NEW e \in Endpoint, IsSet(e),
         TotalOutOfOrderPacketsLost'[e] >= TotalOutOfOrderPacketsLost[e],
         TotalOutOfOrderPacketsLost'[e] \in Int
  PROVE  IsSet(e)'
<1>1. TotalOutOfOrderPacketsLost[e] \in Int
  BY CacheConstants DEF CacheTypeOK
<1> QED BY <1>1, CacheConstants DEF IsSet

\* A step that has nothing to do with the cache of an endpoint.
LEMMA SlotsFrame ==
  ASSUME CacheTypeOK, NEW e \in Endpoint, SlotsAgree(e), SlotsUnmoved(e),
         TotalOutOfOrderPacketsLost'[e] \in Int
  PROVE  SlotsAgree(e)'
<1>1. /\ \A i : At(e, i)' = At(e, i)
      /\ \A i : CircularIdx(e, i)' = CircularIdx(e, i)
      /\ Taken(e)' = Taken(e)
      /\ FirstPacket(e)' = FirstPacket(e)
  BY DEF SlotsUnmoved, SlotsKept, At, CircularIdx, Taken, FirstPacket
<1>2. CountsPackets(e)'
  BY <1>1, StaysSet DEF SlotsAgree, CountsPackets, SlotsUnmoved, SlotsKept
<1>3. LastIsEmpty(e)'
  BY <1>1 DEF SlotsAgree, LastIsEmpty, SlotsUnmoved
<1>4. RoomForMore(e)'
  BY <1>1 DEF SlotsAgree, RoomForMore, SlotsUnmoved, SlotsKept
<1>5. LinesUp(e)'
  BY <1>1 DEF SlotsAgree, LinesUp, SlotsUnmoved, SlotsKept
<1>6. CacheInOrder(e)'
  BY <1>1 DEF SlotsAgree, CacheInOrder, SlotsUnmoved, SlotsKept
<1>7. GivenUp(e)' /\ Kept(e)'
  BY <1>1 DEF SlotsAgree, GivenUp, Kept, SlotsUnmoved, SlotsKept
<1> QED BY <1>2, <1>3, <1>4, <1>5, <1>6, <1>7 DEF SlotsAgree

\* A packet that is processed at once finds the cache empty.
LEMMA SlotsWhenEmpty ==
  ASSUME CacheTypeOK, NEW e \in Endpoint, SlotsAgree(e), SlotsKept(e),
         flush'[e] = flush[e], PacketOrderCacheCount[e] = 0
  PROVE  SlotsAgree(e)'
<1>1. Taken(e) = {}
  BY TakenFinite, FS_EmptySet DEF SlotsAgree, CountsPackets
<1>2. /\ \A i : At(e, i)' = At(e, i)
      /\ \A i : CircularIdx(e, i)' = CircularIdx(e, i)
      /\ Taken(e)' = Taken(e)
      /\ FirstPacket(e)' = FirstPacket(e)
  BY DEF SlotsKept, At, CircularIdx, Taken, FirstPacket
<1>3. \A i \in Slot : At(e, i)' = NoHeader
  BY <1>1, <1>2, EmptyCache
<1>4. 0 .. Capacity - 2 \subseteq Slot
  BY CacheConstants DEF Slot
<1>5. CountsPackets(e)'
  <2>1. PacketOrderCacheCount'[e] = Cardinality(Taken(e)') /\ PacketOrderCacheCount'[e] = 0
    BY <1>2 DEF SlotsAgree, CountsPackets, SlotsKept
  <2>2. ~(0 > 0)
    OBVIOUS
  <2> QED BY <2>1, <2>2 DEF CountsPackets
<1>6. LastIsEmpty(e)' /\ RoomForMore(e)'
  BY <1>2 DEF SlotsAgree, LastIsEmpty, RoomForMore, SlotsKept
<1>7. LinesUp(e)'
  BY <1>3, <1>4 DEF LinesUp, At
<1>8. CacheInOrder(e)'
  BY <1>3 DEF CacheInOrder
<1>9. GivenUp(e)'
  BY DEF SlotsAgree, GivenUp, SlotsKept
<1>10. Kept(e)'
  <2>1. ahead[e] \ dispatched[e] = {}
    BY <1>1, EmptyCache DEF SlotsAgree, Kept
  <2> QED BY <2>1 DEF Kept, SlotsKept
<1> QED BY <1>5, <1>6, <1>7, <1>8, <1>9, <1>10 DEF SlotsAgree

\* A flush of the whole cache begins.
LEMMA SlotsPostTick ==
  ASSUME CacheTypeOK, NEW e \in Endpoint, SlotsAgree(e), PostTickDispatch(e)
  PROVE  SlotsAgree(e)'
<1>1. flush'[e] = "whole"
  BY DEF PostTickDispatch, CacheTypeOK
<1>2. UNCHANGED <<vars, TotalOutOfOrderPacketsLost, PacketOrderCache,
                  PacketOrderCacheStartIdx, PacketOrderCacheCount, historyVars>>
  BY DEF PostTickDispatch
<1>3. /\ \A i : At(e, i)' = At(e, i)
      /\ Taken(e)' = Taken(e) /\ IsSet(e)' = IsSet(e)
  BY <1>2 DEF At, CircularIdx, Taken, IsSet
<1>4. CountsPackets(e)'
  BY <1>2, <1>3 DEF SlotsAgree, CountsPackets
<1>5. LastIsEmpty(e)' /\ RoomForMore(e)' /\ LinesUp(e)'
  BY <1>1 DEF LastIsEmpty, RoomForMore, LinesUp
<1>6. CacheInOrder(e)'
  BY <1>2, <1>3 DEF SlotsAgree, CacheInOrder, historyVars, vars
<1>7. GivenUp(e)' /\ Kept(e)'
  BY <1>2, <1>3 DEF SlotsAgree, GivenUp, Kept, historyVars
<1> QED BY <1>4, <1>5, <1>6, <1>7 DEF SlotsAgree

\* The replay stops at a packet that is missing.
LEMMA SlotsStop ==
  ASSUME CacheTypeOK, NEW e \in Endpoint, SlotsAgree(e), StopAtMissing(e)
  PROVE  SlotsAgree(e)'
<1>1. /\ flush'[e] = "none" /\ flush[e] = "first" /\ FirstPacket(e) = NoHeader
  BY DEF StopAtMissing, CacheTypeOK
<1>2. UNCHANGED <<vars, TotalOutOfOrderPacketsLost, PacketOrderCache,
                  PacketOrderCacheStartIdx, PacketOrderCacheCount, historyVars>>
  BY DEF StopAtMissing
<1>3. /\ \A i : At(e, i)' = At(e, i)
      /\ Taken(e)' = Taken(e) /\ IsSet(e)' = IsSet(e)
      /\ FirstPacket(e)' = FirstPacket(e)
  BY <1>2 DEF At, CircularIdx, Taken, IsSet, FirstPacket
<1>4. CountsPackets(e)'
  BY <1>2, <1>3 DEF SlotsAgree, CountsPackets
<1>5. At(e, Capacity - 1)' = NoHeader
  BY <1>1, <1>3 DEF SlotsAgree, LastIsEmpty
<1>6. LastIsEmpty(e)' /\ RoomForMore(e)'
  BY <1>1, <1>3, <1>5 DEF LastIsEmpty, RoomForMore, At
<1>7. LinesUp(e)'
  BY <1>1, <1>2, <1>3 DEF SlotsAgree, LinesUp, At, historyVars, vars
<1>8. CacheInOrder(e)'
  BY <1>2, <1>3 DEF SlotsAgree, CacheInOrder, historyVars, vars
<1>9. GivenUp(e)' /\ Kept(e)'
  BY <1>2, <1>3 DEF SlotsAgree, GivenUp, Kept, historyVars
<1> QED BY <1>4, <1>6, <1>7, <1>8, <1>9 DEF SlotsAgree

\* What is at the indices once the cache has advanced past its first slot,
\* which is empty by then.
LEMMA AtAdvance ==
  ASSUME CacheTypeOK, NEW e \in Endpoint, Advance(e),
         PacketOrderCache'[e] =
           [PacketOrderCache[e] EXCEPT ![PacketOrderCacheStartIdx[e]] = NoHeader]
  PROVE  /\ \A i \in 0 .. Capacity - 2 : At(e, i)' = At(e, i + 1)
         /\ At(e, Capacity - 1)' = NoHeader
         /\ Taken(e)' = Taken(e) \ {PacketOrderCacheStartIdx[e]}
         /\ PacketOrderCacheStartIdx'[e] \in Slot
<1> DEFINE s == PacketOrderCacheStartIdx[e]
           c == PacketOrderCache[e]
<1>1. s \in Slot /\ c \in [Slot -> Header \cup {NoHeader}]
  BY DEF CacheTypeOK
<1>2. /\ PacketOrderCacheStartIdx'[e] \in Slot
      /\ \A i \in 0 .. Capacity - 2 : CircularIdx(e, i)' = CircularIdx(e, i + 1)
      /\ CircularIdx(e, Capacity - 1)' = s
  BY CircularAdvance
<1>3. \A t \in Slot : PacketOrderCache'[e][t] = IF t = s THEN NoHeader ELSE c[t]
  BY <1>1
<1>4. ASSUME NEW i \in 0 .. Capacity - 2 PROVE At(e, i)' = At(e, i + 1)
  <2>1. i + 1 \in Slot /\ 0 \in Slot /\ i + 1 # 0
    BY CacheConstants DEF Slot
  <2>2. CircularIdx(e, i + 1) \in Slot /\ CircularIdx(e, i + 1) # s
    BY <1>1, <2>1, Circular
  <2>3. PacketOrderCache'[e][CircularIdx(e, i + 1)] = c[CircularIdx(e, i + 1)]
    BY <1>3, <2>2
  <2> QED BY <1>2, <2>3 DEF At
<1>5. At(e, Capacity - 1)' = NoHeader
  BY <1>1, <1>2, <1>3 DEF At
<1>6. Taken(e)' = Taken(e) \ {s}
  BY <1>1, <1>3 DEF Taken
<1> QED BY <1>2, <1>4, <1>5, <1>6

\* The cache advances past a packet that is missing.
LEMMA SlotsSkip ==
  ASSUME CacheTypeOK, NEW e \in Endpoint, SlotsAgree(e), SkipMissing(e)
  PROVE  SlotsAgree(e)'
<1>1. /\ flush[e] = "whole" /\ FirstPacket(e) = NoHeader /\ Advance(e)
      /\ UNCHANGED <<vars, TotalOutOfOrderPacketsLost, PacketOrderCache,
                     PacketOrderCacheCount, flush, historyVars>>
  BY DEF SkipMissing
<1>2. /\ \A i \in 0 .. Capacity - 2 : At(e, i)' = At(e, i + 1)
      /\ At(e, Capacity - 1)' = NoHeader
  <2>1. PacketOrderCache[e] \in [Slot -> Header \cup {NoHeader}]
    BY DEF CacheTypeOK
  <2>2. PacketOrderCache'[e] =
          [PacketOrderCache[e] EXCEPT ![PacketOrderCacheStartIdx[e]] = NoHeader]
    BY <1>1, <2>1 DEF FirstPacket
  <2> QED BY <1>1, <2>2, AtAdvance
<1>3. Taken(e)' = Taken(e) /\ IsSet(e)' = IsSet(e)
  BY <1>1 DEF Taken, IsSet
<1>4. CountsPackets(e)'
  BY <1>1, <1>3 DEF SlotsAgree, CountsPackets
<1>5. LastIsEmpty(e)' /\ RoomForMore(e)' /\ LinesUp(e)'
  BY <1>1 DEF LastIsEmpty, RoomForMore, LinesUp
<1>6. \A i \in Slot : At(e, i)' # NoHeader =>
        i \in 0 .. Capacity - 2 /\ i + 1 \in Slot /\ At(e, i)' = At(e, i + 1)
  BY <1>2, CacheConstants DEF Slot
<1>7. CacheInOrder(e)'
  <2> SUFFICES ASSUME ~waited[e], NEW i \in Slot, At(e, i)' # NoHeader
               PROVE  /\ At(e, i)'.Seq > InPacketId[e]
                      /\ At(e, i)'.AckedSeq >= notify[e].OutAckSeq
                      /\ \A j \in Slot : i < j /\ At(e, j)' # NoHeader =>
                           At(e, i)'.Seq < At(e, j)'.Seq
    BY <1>1 DEF CacheInOrder, historyVars, vars
  <2>1. i + 1 \in Slot /\ At(e, i)' = At(e, i + 1) /\ At(e, i + 1) # NoHeader
    BY <1>6
  <2>2. /\ At(e, i + 1).Seq > InPacketId[e]
        /\ At(e, i + 1).AckedSeq >= notify[e].OutAckSeq
        /\ \A j \in Slot : i + 1 < j /\ At(e, j) # NoHeader =>
             At(e, i + 1).Seq < At(e, j).Seq
    BY <2>1 DEF SlotsAgree, CacheInOrder
  <2>3. ASSUME NEW j \in Slot, i < j, At(e, j)' # NoHeader
        PROVE  At(e, i)'.Seq < At(e, j)'.Seq
    <3>1. j + 1 \in Slot /\ At(e, j)' = At(e, j + 1) /\ At(e, j + 1) # NoHeader
      BY <1>6, <2>3
    <3>2. i + 1 < j + 1
      BY <2>3 DEF Slot
    <3> QED BY <2>1, <2>2, <3>1, <3>2
  <2> QED BY <2>1, <2>2, <2>3
<1>8. GivenUp(e)'
  BY <1>1 DEF SlotsAgree, GivenUp, historyVars
<1>9. Kept(e)'
  <2> SUFFICES ASSUME NEW id \in ahead[e] \ dispatched[e]
               PROVE  \E i \in Slot : At(e, i)' # NoHeader /\ At(e, i)'.Seq = id
    BY <1>1 DEF Kept, historyVars
  <2>1. PICK i \in Slot : At(e, i) # NoHeader /\ At(e, i).Seq = id
    BY DEF SlotsAgree, Kept
  <2>2. i # 0
    BY <1>1, <2>1, CachedAt
  <2>3. i - 1 \in 0 .. Capacity - 2 /\ i - 1 \in Slot /\ (i - 1) + 1 = i
    BY <2>2, CacheConstants DEF Slot
  <2>4. At(e, i - 1)' = At(e, i)
    BY <1>2, <2>3
  <2> QED BY <2>1, <2>3, <2>4
<1> QED BY <1>4, <1>5, <1>7, <1>8, <1>9 DEF SlotsAgree

\* A packet that is cached comes to lie where its number says, unless it is
\* too far ahead: then it lies last, and the whole cache is flushed.
LEMMA SlotsCachePacket ==
  ASSUME IInv, CacheTypeOK, NEW e \in Endpoint, SlotsAgree(e),
         NEW header \in network[Peer(e)], CachePacket(e, header)
  PROVE  SlotsAgree(e)'
<1> DEFINE delta == GetSequenceDelta(notify[e], header)
           L == LinearCacheIdx(delta)
           slot == CircularIdx(e, L)
           id == InPacketId[e]
           last == Capacity - 1
<1>1. /\ flush[e] = "none"
      /\ delta > 0
      /\ IsSet(e)
      /\ Recent(notify[e], header)
      /\ PacketOrderCache' =
           [PacketOrderCache EXCEPT ![e][slot] = IF @ = NoHeader THEN header ELSE @]
      /\ PacketOrderCacheCount' =
           [PacketOrderCacheCount EXCEPT ![e] = CountAfter(e, slot)]
      /\ flush' = [flush EXCEPT ![e] = LoopFor(e, slot)]
      /\ ahead' = [ahead EXCEPT ![e] =
                     IF waited[e] THEN @ ELSE @ \cup {InPacketId[e] + delta}]
      /\ UNCHANGED <<vars, TotalOutOfOrderPacketsLost, PacketOrderCacheStartIdx,
                     dispatched, waited>>
  BY DEF CachePacket, CanReceive, GoesToCache
<1>2. /\ delta = header.Seq - id /\ header.AckedSeq >= notify[e].OutAckSeq
      /\ header.Seq > id /\ header \in Header
      /\ header.Seq \in Int /\ id \in Int /\ delta \in Int
  <2>1. /\ header.Seq \in Int /\ id \in Int /\ header \in Header
    BY OnItsWay
  <2>2. delta = header.Seq - id /\ header.AckedSeq >= notify[e].OutAckSeq /\ header.Seq > id
    BY <1>1, DeltaExact
  <2> HIDE DEF delta, id
  <2> QED BY <2>1, <2>2
<1>3. /\ L \in Slot /\ last \in Slot /\ last \in Int
      /\ L = IF delta - 1 <= last THEN delta - 1 ELSE last
  <2>1. L = IF delta - 1 <= last THEN delta - 1 ELSE last
    BY DEF LinearCacheIdx, Lesser
  <2> HIDE DEF L, delta
  <2> QED BY <1>1, <1>2, <2>1, CacheConstants DEF Slot
<1>4. /\ PacketOrderCacheStartIdx[e] \in Slot
      /\ PacketOrderCache[e] \in [Slot -> Header \cup {NoHeader}]
      /\ PacketOrderCache \in [Endpoint -> [Slot -> Header \cup {NoHeader}]]
      /\ PacketOrderCacheCount \in [Endpoint -> 0 .. Capacity]
      /\ flush \in [Endpoint -> {"none", "first", "whole"}]
  BY DEF CacheTypeOK
<1>5. /\ slot \in Slot
      /\ \A i \in Slot : CircularIdx(e, i) \in Slot
      /\ \A i \in Slot : CircularIdx(e, i)' = CircularIdx(e, i)
      /\ \A i \in Slot : CircularIdx(e, i) = slot => i = L
  BY <1>1, <1>3, <1>4, Circular DEF CircularIdx
<1>6. ahead'[e] = ahead[e] \/ (~waited[e] /\ ahead'[e] = ahead[e] \cup {id + delta})
  BY <1>1 DEF CacheTypeOK
<1> HIDE DEF delta, L, slot
<1>7. \A t \in Slot : PacketOrderCache'[e][t] =
        IF t = slot /\ PacketOrderCache[e][slot] = NoHeader THEN header
        ELSE PacketOrderCache[e][t]
  BY <1>1, <1>4, <1>5
<1>8. \A i \in Slot : At(e, i)' =
        IF i = L /\ At(e, L) = NoHeader THEN header ELSE At(e, i)
  BY <1>3, <1>5, <1>7 DEF At, slot
<1>9. flush'[e] = IF L = last THEN "whole" ELSE "first"
  <2>1. slot = CircularIdx(e, last) <=> L = last
    BY <1>3, <1>5 DEF slot
  <2> QED BY <1>1, <1>4, <2>1 DEF LoopFor
<1>10. At(e, last) = NoHeader
  BY <1>1 DEF SlotsAgree, LastIsEmpty
<1>11. header # NoHeader
  BY <1>2, NoHeaderType
<1>12. CountsPackets(e)'
  <2>1. Taken(e)' = Taken(e) \cup {slot}
    BY <1>5, <1>7, <1>11 DEF Taken
  <2>2. /\ IsFiniteSet(Taken(e)) /\ PacketOrderCacheCount[e] = Cardinality(Taken(e))
    BY TakenFinite DEF SlotsAgree, CountsPackets
  <2>3. Cardinality(Taken(e) \cup {slot}) =
          IF slot \in Taken(e) THEN Cardinality(Taken(e)) ELSE Cardinality(Taken(e)) + 1
    BY <2>2, FS_AddElement
  <2>4. slot \in Taken(e) <=> PacketOrderCache[e][slot] # NoHeader
    BY <1>5 DEF Taken
  <2>5. PacketOrderCacheCount'[e] = CountAfter(e, slot)
    BY <1>1, <1>4
  <2>6. CountAfter(e, slot) = Cardinality(Taken(e) \cup {slot})
    BY <1>4, <2>2, <2>3, <2>4 DEF CountAfter
  <2>7. IsSet(e)'
    BY <1>1 DEF IsSet
  <2> QED BY <2>1, <2>5, <2>6, <2>7 DEF CountsPackets
<1>13. LastIsEmpty(e)'
  BY <1>3, <1>8, <1>9, <1>10 DEF LastIsEmpty
<1>14. RoomForMore(e)'
  BY <1>9 DEF RoomForMore
<1>15. ASSUME ~waited[e], NEW i \in Slot, At(e, i) # NoHeader
       PROVE  /\ i \in 0 .. Capacity - 2 /\ i < last /\ i \in Int
              /\ At(e, i).Seq = id + 1 + i /\ At(e, i).Seq \in Int
  <2>1. i # last
    BY <1>10, <1>15
  <2>2. i \in 0 .. Capacity - 2 /\ i < last /\ i \in Int
    BY <2>1, CacheConstants DEF Slot
  <2>3. At(e, i).Seq = id + 1 + i
    BY <1>1, <1>15, <2>2 DEF SlotsAgree, LinesUp, At
  <2> QED BY <1>2, <2>2, <2>3
<1>16. waited'[e] = waited[e] /\ InPacketId' = InPacketId /\ notify' = notify
       /\ dispatched' = dispatched
  BY <1>1 DEF vars
<1>17. LinesUp(e)'
  <2> SUFFICES ASSUME ~waited[e], L # last, NEW i \in 0 .. Capacity - 2,
                      At(e, i)' # NoHeader
               PROVE  At(e, i)'.Seq = id + 1 + i
    BY <1>9, <1>16 DEF LinesUp, At
  <2>1. i \in Slot /\ i \in Int
    BY CacheConstants DEF Slot
  <2>2. CASE i = L /\ At(e, L) = NoHeader
    <3>1. L = delta - 1
      BY <1>3
    <3>2. At(e, i)' = header
      BY <1>8, <2>1, <2>2
    <3>3. header.Seq = id + 1 + L
      BY <1>2, <3>1
    <3> QED BY <2>2, <3>2, <3>3
  <2>3. CASE ~(i = L /\ At(e, L) = NoHeader)
    <3>1. At(e, i)' = At(e, i)
      BY <1>8, <2>1, <2>3
    <3> QED BY <1>15, <2>1, <3>1
  <2> QED BY <2>2, <2>3
<1>18. CacheInOrder(e)'
  <2> SUFFICES ASSUME ~waited[e], NEW i \in Slot, At(e, i)' # NoHeader
               PROVE  /\ At(e, i)'.Seq > id
                      /\ At(e, i)'.AckedSeq >= notify[e].OutAckSeq
                      /\ \A j \in Slot : i < j /\ At(e, j)' # NoHeader =>
                           At(e, i)'.Seq < At(e, j)'.Seq
    BY <1>16 DEF CacheInOrder
  <2>1. CASE i = L /\ At(e, L) = NoHeader
    <3>1. At(e, i)' = header
      BY <1>8, <2>1
    <3>2. ASSUME NEW j \in Slot, i < j, At(e, j)' # NoHeader
          PROVE  header.Seq < At(e, j)'.Seq
      <4>1. j # i
        BY <3>2 DEF Slot
      <4>2. At(e, j)' = At(e, j)
        BY <1>8, <2>1, <4>1
      <4>3. At(e, j).Seq = id + 1 + j /\ j < last /\ j \in Int
        BY <1>15, <3>2, <4>2
      <4>4. L < last /\ L \in Int
        BY <1>3, <2>1, <3>2, <4>3 DEF Slot
      <4>5. L = delta - 1
        BY <1>2, <1>3, <4>4
      <4> QED BY <1>2, <2>1, <3>2, <4>2, <4>3, <4>4, <4>5
    <3> QED BY <1>2, <3>1, <3>2
  <2>2. CASE ~(i = L /\ At(e, L) = NoHeader)
    <3>1. At(e, i)' = At(e, i) /\ At(e, i) # NoHeader
      BY <1>8, <2>2
    <3>2. At(e, i).Seq = id + 1 + i /\ i \in Int /\ i >= 0
      BY <1>15, <3>1 DEF Slot
    <3>3. At(e, i).Seq > id
      BY <1>2, <3>2
    <3>4. At(e, i).AckedSeq >= notify[e].OutAckSeq
      BY <3>1 DEF SlotsAgree, CacheInOrder
    <3>5. ASSUME NEW j \in Slot, i < j, At(e, j)' # NoHeader
          PROVE  At(e, i).Seq < At(e, j)'.Seq
      <4>1. CASE j = L /\ At(e, L) = NoHeader
        <5>1. At(e, j)' = header /\ L \in Int /\ L <= delta - 1
          BY <1>2, <1>3, <1>8, <4>1 DEF Slot
        <5> QED BY <1>2, <3>2, <3>5, <4>1, <5>1
      <4>2. CASE ~(j = L /\ At(e, L) = NoHeader)
        <5>1. At(e, j)' = At(e, j)
          BY <1>8, <4>2
        <5>2. At(e, j).Seq = id + 1 + j /\ j \in Int
          BY <1>15, <3>5, <5>1
        <5> QED BY <1>2, <3>2, <3>5, <5>1, <5>2
      <4> QED BY <4>1, <4>2
    <3> QED BY <3>1, <3>3, <3>4, <3>5
  <2> QED BY <2>1, <2>2
<1>19. GivenUp(e)'
  BY <1>6, <1>1, <1>16 DEF SlotsAgree, GivenUp
<1>20. Kept(e)'
  <2> SUFFICES ASSUME NEW x \in ahead'[e] \ dispatched[e]
               PROVE  \E i \in Slot : At(e, i)' # NoHeader /\ At(e, i)'.Seq = x
    BY <1>16 DEF Kept
  <2>1. CASE x \in ahead[e]
    <3>1. PICK i \in Slot : At(e, i) # NoHeader /\ At(e, i).Seq = x
      BY <2>1 DEF SlotsAgree, Kept
    <3>2. At(e, i)' = At(e, i)
      BY <1>8, <3>1
    <3> QED BY <3>1, <3>2
  <2>2. CASE x \notin ahead[e]
    <3>1. ~waited[e] /\ x = id + delta
      BY <1>6, <2>2
    <3>2. x = header.Seq
      BY <1>2, <3>1
    <3>3. CASE At(e, L) = NoHeader
      BY <1>3, <1>8, <1>11, <3>2, <3>3
    <3>4. CASE At(e, L) # NoHeader
      <4>1. PICK i \in Slot : i = L
        BY <1>3
      <4>2. At(e, i)' = At(e, i)
        BY <1>8, <3>4, <4>1
      <4>3. i < last /\ At(e, i).Seq = id + 1 + i /\ i \in Int
        BY <1>15, <3>1, <3>4, <4>1
      <4>4. L = delta - 1
        BY <1>2, <1>3, <4>1, <4>3
      <4>5. At(e, i).Seq = x
        BY <1>2, <3>1, <4>1, <4>3, <4>4
      <4> QED BY <3>4, <4>1, <4>2, <4>5
    <3> QED BY <3>3, <3>4
  <2> QED BY <2>1, <2>2
<1> QED BY <1>12, <1>13, <1>14, <1>17, <1>18, <1>19, <1>20 DEF SlotsAgree

\* A packet is counted as lost, up to the threshold.
LEMMA DropExact ==
  ASSUME CacheTypeOK, NEW e \in Endpoint, NEW header, Drop(e, header)
  PROVE  /\ \A k \in Endpoint :
              /\ TotalOutOfOrderPacketsLost'[k] >= TotalOutOfOrderPacketsLost[k]
              /\ TotalOutOfOrderPacketsLost'[k] \in Int
         /\ TotalOutOfOrderPacketsLost' \in [Endpoint -> 0 .. EnableThreshold]
<1>1. TotalOutOfOrderPacketsLost \in [Endpoint -> 0 .. EnableThreshold]
  BY DEF CacheTypeOK
<1>2. TotalOutOfOrderPacketsLost' =
        [TotalOutOfOrderPacketsLost EXCEPT
           ![e] = Lesser(TotalOutOfOrderPacketsLost[e] + 1, EnableThreshold)]
  BY DEF Drop
<1>3. /\ Lesser(TotalOutOfOrderPacketsLost[e] + 1, EnableThreshold)
           \in 0 .. EnableThreshold
      /\ Lesser(TotalOutOfOrderPacketsLost[e] + 1, EnableThreshold)
           >= TotalOutOfOrderPacketsLost[e]
  BY <1>1, CacheConstants DEF Lesser
<1>4. TotalOutOfOrderPacketsLost' \in [Endpoint -> 0 .. EnableThreshold]
  BY <1>1, <1>2, <1>3
<1>5. ASSUME NEW k \in Endpoint
      PROVE  /\ TotalOutOfOrderPacketsLost'[k] >= TotalOutOfOrderPacketsLost[k]
             /\ TotalOutOfOrderPacketsLost'[k] \in Int
  <2>1. TotalOutOfOrderPacketsLost[k] \in Int /\ TotalOutOfOrderPacketsLost'[k] \in Int
    BY <1>1, <1>4, CacheConstants
  <2>2. CASE k = e
    BY <1>1, <1>2, <1>3, <2>1, <2>2
  <2>3. CASE k # e
    BY <1>1, <1>2, <2>1, <2>3
  <2> QED BY <2>1, <2>2, <2>3
<1> QED BY <1>4, <1>5

\* A packet that does not go to the cache is processed or dropped at once.
LEMMA SlotsReceive ==
  ASSUME IInv, CacheTypeOK, NEW e \in Endpoint, SlotsAgree(e), NEW header,
         ReceivedRawPacket(e, header)
  PROVE  SlotsAgree(e)'
<1>1. /\ ~(GetSequenceDelta(notify[e], header) > 0
            /\ GoesToCache(e, GetSequenceDelta(notify[e], header)))
      /\ \/ Drop(e, header) /\ UNCHANGED dispatched
         \/ Process(e, header)
      /\ UNCHANGED <<PacketOrderCache, PacketOrderCacheStartIdx,
                     PacketOrderCacheCount, flush, ahead, waited>>
  BY DEF ReceivedRawPacket
<1>2. CASE Drop(e, header) /\ UNCHANGED dispatched
  <2>1. SlotsUnmoved(e)
    BY <1>1, <1>2, DropExact DEF SlotsUnmoved, SlotsKept, Drop, vars
  <2> QED BY <1>2, <2>1, DropExact, SlotsFrame
<1>3. CASE Process(e, header)
  <2>1. GetSequenceDelta(notify[e], header) > 0
    BY <1>3 DEF Process, ReceivedPacket
  <2>2. PacketOrderCacheCount[e] = 0
    <3>1. PacketOrderCacheCount[e] \in 0 .. Capacity
      BY DEF CacheTypeOK
    <3>2. ~(PacketOrderCacheCount[e] > 0)
      BY <1>1, <2>1 DEF GoesToCache, SlotsAgree, CountsPackets
    <3> QED BY <3>1, <3>2, CacheConstants
  <2>3. SlotsKept(e)
    <3>1. TotalOutOfOrderPacketsLost'[e] >= TotalOutOfOrderPacketsLost[e]
      BY <1>3, CacheConstants DEF Process, CacheTypeOK
    <3>2. dispatched[e] \subseteq dispatched'[e]
      BY <1>3 DEF Process, CacheTypeOK
    <3> QED BY <1>1, <3>1, <3>2 DEF SlotsKept
  <2> QED BY <1>1, <2>2, <2>3, SlotsWhenEmpty
<1> QED BY <1>1, <1>2, <1>3

\* A packet is replayed: it is no longer in the cache, and it is the last one
\* in sequence unless the cache is in disorder already.
LEMMA SlotsReplay ==
  ASSUME IInv, CacheTypeOK, NEW e \in Endpoint, SlotsAgree(e),
         CachedIsSent(e), AcksAscend(e), Replay(e)
  PROVE  SlotsAgree(e)'
<1> DEFINE s == PacketOrderCacheStartIdx[e]
           header == FirstPacket(e)
           left == PacketOrderCacheCount[e] - 1
           last == Capacity - 1
           id == InPacketId[e]
           dropped == /\ Drop(e, header)
                      /\ waited'[e] = (waited[e] /\ left > 0)
                      /\ UNCHANGED <<ahead, dispatched>>
           processed == /\ Process(e, header)
                        /\ waited'[e] = ((waited[e] \/ ~dispatching'[e]) /\ left > 0)
                        /\ ahead'[e] = IF dispatching'[e] THEN ahead[e] ELSE {}
<1>1. /\ s \in Slot
      /\ PacketOrderCache \in [Endpoint -> [Slot -> Header \cup {NoHeader}]]
      /\ PacketOrderCache[e] \in [Slot -> Header \cup {NoHeader}]
      /\ PacketOrderCacheCount \in [Endpoint -> 0 .. Capacity]
      /\ flush \in [Endpoint -> {"none", "first", "whole"}]
      /\ ahead \in [Endpoint -> SUBSET Number]
      /\ dispatched \in [Endpoint -> SUBSET Number]
      /\ waited \in [Endpoint -> BOOLEAN]
  BY DEF CacheTypeOK
<1>2. /\ flush[e] # "none" /\ header # NoHeader /\ StillRecent(e, header)
      /\ PacketOrderCache'[e] = [PacketOrderCache[e] EXCEPT ![s] = NoHeader]
      /\ PacketOrderCacheCount'[e] = left
      /\ Advance(e)
      /\ flush'[e] = IF left = 0 THEN "none" ELSE flush[e]
  BY <1>1 DEF Replay
<1>3. dropped \/ processed
  BY <1>1 DEF Replay
<1>4. /\ header = At(e, 0) /\ header \in Cached(e) /\ header \in Receivable(e)
      /\ header \in network[Peer(e)]
      /\ 0 \in Slot /\ s \in Taken(e)
  <2>1. 0 \in Slot
    BY CacheConstants DEF Slot
  <2>2. header = At(e, 0) /\ header \in Cached(e)
    BY <1>2, <2>1, CachedAt
  <2>3. header \in network[Peer(e)]
    BY <1>2, <2>2 DEF CachedIsSent
  <2>4. s \in Taken(e)
    BY <1>1, <1>2 DEF Taken, FirstPacket
  <2> QED BY <2>1, <2>2, <2>3, <2>4 DEF Receivable
<1>5. /\ \A i \in 0 .. Capacity - 2 : At(e, i)' = At(e, i + 1)
      /\ At(e, last)' = NoHeader
      /\ Taken(e)' = Taken(e) \ {s}
      /\ PacketOrderCacheStartIdx'[e] \in Slot
  BY <1>2, AtAdvance
<1>6. \A i \in Slot : At(e, i)' # NoHeader =>
        i \in 0 .. Capacity - 2 /\ i + 1 \in Slot /\ At(e, i)' = At(e, i + 1)
  BY <1>5, CacheConstants DEF Slot
<1> HIDE DEF dropped, processed, header, s
<1>7. /\ IsFiniteSet(Taken(e)) /\ Cardinality(Taken(e)) = PacketOrderCacheCount[e]
      /\ IsFiniteSet(Taken(e)') /\ left = Cardinality(Taken(e)') /\ left \in Nat
  <2>1. IsFiniteSet(Taken(e)) /\ Cardinality(Taken(e)) = PacketOrderCacheCount[e]
    BY TakenFinite DEF SlotsAgree, CountsPackets
  <2>2. IsFiniteSet(Taken(e)') /\ Cardinality(Taken(e)') = Cardinality(Taken(e)) - 1
    BY <1>4, <1>5, <2>1, FS_RemoveElement
  <2>3. Cardinality(Taken(e)') \in Nat
    BY <2>2, FS_CardinalityType
  <2> QED BY <2>1, <2>2, <2>3
<1>8. ASSUME left = 0
      PROVE  /\ \A i \in Slot : At(e, i)' = NoHeader
             /\ PacketOrderCache'[e][PacketOrderCacheStartIdx'[e]] = NoHeader
  <2>1. Taken(e)' = {}
    BY <1>7, <1>8, FS_EmptySet
  <2>2. PacketOrderCache'[e][PacketOrderCacheStartIdx'[e]] = NoHeader
    BY <1>5, <2>1 DEF Taken
  <2>3. ASSUME NEW i \in Slot, At(e, i)' # NoHeader PROVE FALSE
    <3>1. i + 1 \in Slot /\ At(e, i + 1) # NoHeader /\ i + 1 # 0
      BY <1>6, <2>3 DEF Slot
    <3>2. CircularIdx(e, i + 1) \in Slot /\ CircularIdx(e, i + 1) # s
      BY <1>1, <1>4, <3>1, Circular DEF s
    <3>3. CircularIdx(e, i + 1) \in Taken(e)
      BY <3>1, <3>2 DEF At, Taken
    <3> QED BY <1>5, <2>1, <3>2, <3>3
  <2> QED BY <2>2, <2>3
<1>9. CountsPackets(e)'
  <2>1. IsSet(e) /\ PacketOrderCacheCount'[e] = Cardinality(Taken(e)')
    <3>1. PacketOrderCacheCount[e] > 0
      BY <1>1, <1>7, CacheConstants
    <3> QED BY <1>2, <1>7, <3>1 DEF SlotsAgree, CountsPackets
  <2>2. /\ TotalOutOfOrderPacketsLost'[e] >= TotalOutOfOrderPacketsLost[e]
        /\ TotalOutOfOrderPacketsLost'[e] \in Int
    BY <1>3, DropExact, CacheConstants DEF CacheTypeOK, dropped, processed, Process
  <2> QED BY <2>1, <2>2, StaysSet DEF CountsPackets
<1>10. LastIsEmpty(e)'
  BY <1>5 DEF LastIsEmpty
<1>11. RoomForMore(e)'
  <2> SUFFICES ASSUME flush'[e] = "none"
               PROVE  /\ PacketOrderCache'[e][PacketOrderCacheStartIdx'[e]] = NoHeader
                      /\ At(e, last)' = NoHeader
    BY DEF RoomForMore, FirstPacket, At
  <2> QED BY <1>2, <1>5, <1>8
\* Unless it gave packets up, e dispatches the packet.
<1>12. ASSUME ~waited[e]
       PROVE  /\ processed /\ ~dropped
              /\ header.Seq > id /\ header \in Header
              /\ header.AckedSeq >= notify[e].OutAckSeq
              /\ notify'[e].OutAckSeq = header.AckedSeq
              /\ dispatching'[e] => InPacketId'[e] = header.Seq
  <2>1. header.Seq > id /\ header.AckedSeq >= notify[e].OutAckSeq
    BY <1>2, <1>4, <1>12 DEF SlotsAgree, CacheInOrder
  <2>2. ~Drop(e, header)
    BY <1>4, <2>1, NotDropped DEF Drop
  <2>3. processed /\ ~dropped
    BY <1>3, <2>2 DEF dropped
  <2>4. /\ notify'[e].OutAckSeq = header.AckedSeq
        /\ dispatching'[e] => InPacketId'[e] = header.Seq
    BY <1>4, <2>3, ProcessExact DEF processed, Process
  <2>5. header \in Header
    BY <1>1, <1>4, CachedAt
  <2> QED BY <2>1, <2>3, <2>4, <2>5
<1>13. ASSUME ~waited'[e], left # 0
       PROVE  /\ ~waited[e] /\ InPacketId'[e] = header.Seq
              /\ notify'[e].OutAckSeq = header.AckedSeq
  <2>1. left > 0
    <3>1. left \in Nat /\ left # 0
      BY <1>7, <1>13
    <3> HIDE DEF left
    <3> QED BY <3>1
  <2>2. ~waited[e]
    BY <1>1, <1>3, <1>13, <2>1 DEF dropped, processed
  <2>3. dispatching'[e]
    BY <1>12, <1>13, <2>1, <2>2 DEF processed
  <2> QED BY <1>12, <2>2, <2>3
<1>14. LinesUp(e)'
  <2> SUFFICES ASSUME ~waited'[e], flush'[e] # "whole", NEW i \in 0 .. Capacity - 2,
                      At(e, i)' # NoHeader
               PROVE  At(e, i)'.Seq = InPacketId'[e] + 1 + i
    BY DEF LinesUp, At
  <2>1. i \in Slot /\ i + 1 \in Slot /\ At(e, i)' = At(e, i + 1) /\ 0 \in 0 .. Capacity - 2
    BY <1>6, CacheConstants DEF Slot
  <2>2. left # 0
    BY <1>8, <2>1
  <2>3. ~waited[e] /\ InPacketId'[e] = header.Seq /\ flush[e] # "whole"
    BY <1>2, <1>13, <2>2
  <2>4. \A j \in 0 .. Capacity - 2 : At(e, j) # NoHeader => At(e, j).Seq = id + 1 + j
    BY <2>3 DEF SlotsAgree, LinesUp, At
  <2>5. header.Seq = id + 1 + 0
    BY <1>2, <1>4, <2>1, <2>4
  <2>6. i + 1 # last
    BY <2>1, <2>3 DEF SlotsAgree, LastIsEmpty
  <2>7. i + 1 \in 0 .. Capacity - 2 /\ i \in Int
    BY <2>1, <2>6, CacheConstants DEF Slot
  <2>8. At(e, i + 1).Seq = id + 1 + (i + 1)
    BY <2>1, <2>4, <2>7
  <2>9. id \in Int
    BY DEF IInv, TypeOK, Number
  <2> QED BY <2>1, <2>3, <2>5, <2>7, <2>8, <2>9
<1>15. CacheInOrder(e)'
  <2> SUFFICES ASSUME ~waited'[e], NEW i \in Slot, At(e, i)' # NoHeader
               PROVE  /\ At(e, i)'.Seq > InPacketId'[e]
                      /\ At(e, i)'.AckedSeq >= notify'[e].OutAckSeq
                      /\ \A j \in Slot : i < j /\ At(e, j)' # NoHeader =>
                           At(e, i)'.Seq < At(e, j)'.Seq
    BY DEF CacheInOrder
  <2>1. i + 1 \in Slot /\ At(e, i)' = At(e, i + 1) /\ 0 < i + 1
    BY <1>6 DEF Slot
  <2>2. /\ ~waited[e] /\ InPacketId'[e] = header.Seq
        /\ notify'[e].OutAckSeq = header.AckedSeq
    BY <1>8, <1>13
  <2>3. /\ header.Seq < At(e, i + 1).Seq
        /\ \A j \in Slot : i + 1 < j /\ At(e, j) # NoHeader =>
             At(e, i + 1).Seq < At(e, j).Seq
    BY <1>2, <1>4, <2>1, <2>2 DEF SlotsAgree, CacheInOrder
  <2>4. At(e, i + 1) \in Receivable(e) /\ At(e, i + 1) \in Header /\ header \in Header
    BY <1>4, <2>1, CachedAt DEF Receivable
  <2>5. header.AckedSeq <= At(e, i + 1).AckedSeq
    BY <1>4, <2>3, <2>4 DEF AcksAscend
  <2>6. ASSUME NEW j \in Slot, i < j, At(e, j)' # NoHeader
        PROVE  At(e, i)'.Seq < At(e, j)'.Seq
    <3>1. j + 1 \in Slot /\ At(e, j)' = At(e, j + 1) /\ i + 1 < j + 1
      BY <1>6, <2>6 DEF Slot
    <3> QED BY <2>1, <2>3, <2>6, <3>1
  <2>7. /\ header.Seq \in Int /\ header.AckedSeq \in Int
        /\ At(e, i + 1).Seq \in Int /\ At(e, i + 1).AckedSeq \in Int
    BY <2>4, HeaderType
  <2> QED BY <2>1, <2>2, <2>3, <2>5, <2>6, <2>7
<1>16. waited[e] => ahead'[e] = {}
  BY <1>3 DEF SlotsAgree, GivenUp, dropped, processed
<1>17. GivenUp(e)'
  <2> SUFFICES ASSUME waited'[e], ~waited[e] PROVE ahead'[e] = {}
    BY <1>16 DEF GivenUp
  <2> QED BY <1>12 DEF processed
<1>18. Kept(e)'
  <2> SUFFICES ASSUME NEW x \in ahead'[e] \ dispatched'[e]
               PROVE  \E i \in Slot : At(e, i)' # NoHeader /\ At(e, i)'.Seq = x
    BY DEF Kept
  <2>1. ~waited[e]
    BY <1>16
  <2>2. dispatching'[e] /\ ahead'[e] = ahead[e] /\ InPacketId'[e] = header.Seq
    BY <1>12, <2>1 DEF processed
  <2>3. dispatched'[e] = dispatched[e] \cup {header.Seq}
    BY <1>1, <1>12, <2>1, <2>2 DEF processed, Process
  <2>4. x \in ahead[e] \ dispatched[e] /\ x # header.Seq
    BY <2>2, <2>3
  <2>5. PICK i \in Slot : At(e, i) # NoHeader /\ At(e, i).Seq = x
    BY <2>4 DEF SlotsAgree, Kept
  <2>6. i # 0
    BY <1>4, <2>4, <2>5
  <2>7. i - 1 \in 0 .. Capacity - 2 /\ i - 1 \in Slot /\ (i - 1) + 1 = i
    BY <2>6, CacheConstants DEF Slot
  <2>8. At(e, i - 1)' = At(e, i)
    BY <1>5, <2>7
  <2> QED BY <2>5, <2>7, <2>8
<1> QED BY <1>9, <1>10, <1>11, <1>14, <1>15, <1>17, <1>18 DEF SlotsAgree

-----------------------------------------------------------------------------
(* A step of one endpoint leaves the cache of the other alone              *)

\* What an endpoint sends has nothing to do with its cache.
LEMMA SendUnmoved ==
  ASSUME IInv, CacheTypeOK, NEW e \in Endpoint, Send(e), NEW k \in Endpoint
  PROVE  SlotsUnmoved(k)
<1> DEFINE n == notify[e]
           words == HistoryWordsNeeded(n)
           m == CommitAndIncrementOutSeq(
                  IF CanRefresh(n) THEN WriteHeader(n, n.WrittenHistoryWordCount)
                                   ELSE n)
<1>1. /\ UNCHANGED <<cacheVars, historyVars>> /\ InPacketId' = InPacketId
      /\ \/ notify' = [notify EXCEPT ![e] = WriteHeader(n, words)]
         \/ notify' = [notify EXCEPT ![e] = m]
  BY DEF Send, StartPacket, FlushNet
<1>2. notify \in [Endpoint -> Notify]
  BY DEF IInv, TypeOK
<1>3. WriteHeader(n, words).OutAckSeq = n.OutAckSeq /\ m.OutAckSeq = n.OutAckSeq
  <2>1. n \in Notify
    BY <1>2
  <2> HIDE DEF n, words
  <2> QED BY <2>1 DEF WriteHeader, CommitAndIncrementOutSeq, Notify
<1> HIDE DEF m, words
<1>4. notify'[k].OutAckSeq = notify[k].OutAckSeq
  <2>1. CASE k = e
    BY <1>1, <1>2, <1>3, <2>1
  <2>2. CASE k # e
    BY <1>1, <1>2, <2>2
  <2> QED BY <2>1, <2>2
<1>5. TotalOutOfOrderPacketsLost[k] \in Int
  BY CacheConstants DEF CacheTypeOK
<1> QED BY <1>1, <1>4, <1>5 DEF SlotsUnmoved, SlotsKept, cacheVars, historyVars

\* Neither have its acknowledgements.
LEMMA AcknowledgeUnmoved ==
  ASSUME IInv, CacheTypeOK, NEW e \in Endpoint, Acknowledge(e), NEW k \in Endpoint
  PROVE  SlotsUnmoved(k)
<1>1. PICK bSkipAck \in BOOLEAN : AcknowledgePacket(e, bSkipAck)
  BY DEF Acknowledge
<1>2. InPacketId' = InPacketId /\ notify'[k].OutAckSeq = notify[k].OutAckSeq
  BY <1>1, AcknowledgeExact
<1>3. UNCHANGED <<cacheVars, historyVars>>
  BY DEF Acknowledge
<1>4. TotalOutOfOrderPacketsLost[k] \in Int
  BY CacheConstants DEF CacheTypeOK
<1> QED BY <1>2, <1>3, <1>4 DEF SlotsUnmoved, SlotsKept, cacheVars, historyVars

\* A packet that one endpoint processes is nothing to the other.
LEMMA ProcessUnmoved ==
  ASSUME IInv, CacheTypeOK, NEW e \in Endpoint, NEW header \in network[Peer(e)],
         Process(e, header), NEW k \in Endpoint, k # e
  PROVE  /\ notify'[k] = notify[k] /\ InPacketId'[k] = InPacketId[k]
         /\ TotalOutOfOrderPacketsLost' = TotalOutOfOrderPacketsLost
         /\ dispatched'[k] = dispatched[k]
<1>1. notify'[k] = notify[k] /\ InPacketId'[k] = InPacketId[k]
  BY ProcessExact DEF Process
<1> QED BY <1>1 DEF Process, CacheTypeOK

\* What an endpoint receives and caches is nothing to the other.
LEMMA ReceiveUnmoved ==
  ASSUME IInv, CacheTypeOK, NEW e \in Endpoint, NEW header \in network[Peer(e)],
         ReceivedRawPacket(e, header) \/ CachePacket(e, header),
         NEW k \in Endpoint, k # e
  PROVE  SlotsUnmoved(k)
<1>1. TotalOutOfOrderPacketsLost[k] \in Int
  BY CacheConstants DEF CacheTypeOK
<1>2. CASE ReceivedRawPacket(e, header)
  <2>1. /\ \/ Drop(e, header) /\ UNCHANGED dispatched
           \/ Process(e, header)
        /\ UNCHANGED <<PacketOrderCache, PacketOrderCacheStartIdx,
                       PacketOrderCacheCount, flush, ahead, waited>>
    BY <1>2 DEF ReceivedRawPacket
  <2>2. CASE Drop(e, header) /\ UNCHANGED dispatched
    BY <2>1, <2>2, DropExact DEF SlotsUnmoved, SlotsKept, Drop, vars
  <2>3. CASE Process(e, header)
    BY <1>1, <2>1, <2>3, ProcessUnmoved DEF SlotsUnmoved, SlotsKept
  <2> QED BY <2>1, <2>2, <2>3
<1>3. CASE CachePacket(e, header)
  <2>1. /\ PacketOrderCache'[k] = PacketOrderCache[k]
        /\ PacketOrderCacheCount'[k] = PacketOrderCacheCount[k]
        /\ flush'[k] = flush[k] /\ ahead'[k] = ahead[k]
        /\ UNCHANGED <<vars, TotalOutOfOrderPacketsLost, PacketOrderCacheStartIdx,
                       dispatched, waited>>
    BY <1>3 DEF CachePacket, CacheTypeOK
  <2> QED BY <1>1, <2>1 DEF SlotsUnmoved, SlotsKept, vars
<1> QED BY <1>2, <1>3

\* What an endpoint takes from its cache is nothing to the other.
LEMMA FlushUnmoved ==
  ASSUME IInv, CacheTypeOK, NEW e \in Endpoint, CachedIsSent(e),
         \/ PostTickDispatch(e)
         \/ Replay(e)
         \/ SkipMissing(e)
         \/ StopAtMissing(e),
         NEW k \in Endpoint, k # e
  PROVE  SlotsUnmoved(k)
<1>1. TotalOutOfOrderPacketsLost[k] \in Int
  BY CacheConstants DEF CacheTypeOK
<1>2. CASE PostTickDispatch(e)
  BY <1>1, <1>2
     DEF PostTickDispatch, CacheTypeOK, SlotsUnmoved, SlotsKept, vars, historyVars
<1>3. CASE StopAtMissing(e)
  BY <1>1, <1>3
     DEF StopAtMissing, CacheTypeOK, SlotsUnmoved, SlotsKept, vars, historyVars
<1>4. CASE SkipMissing(e)
  BY <1>1, <1>4, CircularAdvance
     DEF SkipMissing, CacheTypeOK, SlotsUnmoved, SlotsKept, vars, historyVars
<1>5. CASE Replay(e)
  <2> DEFINE header == FirstPacket(e)
  <2>1. /\ header # NoHeader /\ StillRecent(e, header) /\ Advance(e)
        /\ PacketOrderCache'[k] = PacketOrderCache[k]
        /\ PacketOrderCacheCount'[k] = PacketOrderCacheCount[k]
        /\ flush'[k] = flush[k] /\ waited'[k] = waited[k] /\ ahead'[k] = ahead[k]
        /\ (Drop(e, header) /\ UNCHANGED dispatched) \/ Process(e, header)
    BY <1>5 DEF Replay, CacheTypeOK
  <2>2. header \in network[Peer(e)]
    <3>1. header \in Cached(e)
      BY <2>1 DEF Cached, FirstPacket, CacheTypeOK
    <3> QED BY <2>1, <3>1 DEF CachedIsSent
  <2>3. PacketOrderCacheStartIdx'[k] = PacketOrderCacheStartIdx[k]
    BY <2>1, CircularAdvance
  <2>4. CASE Drop(e, header) /\ UNCHANGED dispatched
    BY <2>1, <2>3, <2>4, DropExact DEF SlotsUnmoved, SlotsKept, Drop, vars
  <2>5. CASE Process(e, header)
    BY <1>1, <2>1, <2>2, <2>3, <2>5, ProcessUnmoved DEF SlotsUnmoved, SlotsKept
  <2> QED BY <2>1, <2>4, <2>5
<1> QED BY <1>2, <1>3, <1>4, <1>5

-----------------------------------------------------------------------------
(* The invariant                                                           *)

\* What the packet layer sees of a step is one of its own steps.
LEMMA PacketStep == CacheIInv /\ [CacheNext]_orderVars => [Next]_vars
<1> SUFFICES ASSUME CacheIInv, CacheNext PROVE [Next]_vars
  BY DEF orderVars
<1>1. PICK e \in Endpoint :
        \/ Send(e)
        \/ Acknowledge(e)
        \/ \E header \in network[Peer(e)] : ReceivedRawPacket(e, header)
        \/ \E header \in network[Peer(e)] : CachePacket(e, header)
        \/ PostTickDispatch(e)
        \/ Replay(e)
        \/ SkipMissing(e)
        \/ StopAtMissing(e)
  BY DEF CacheNext
<1>2. CASE Send(e)
  BY <1>2 DEF Send, Next
<1>3. CASE Acknowledge(e)
  BY <1>3 DEF Acknowledge, Next
<1>4. ASSUME NEW header \in network[Peer(e)], ReceivedRawPacket(e, header)
      PROVE  [Next]_vars
  BY <1>4 DEF ReceivedRawPacket, Drop, Process, Next
<1>5. ASSUME NEW header \in network[Peer(e)], CachePacket(e, header)
      PROVE  [Next]_vars
  BY <1>5 DEF CachePacket
<1>6. CASE PostTickDispatch(e)
  BY <1>6 DEF PostTickDispatch
<1>7. CASE Replay(e)
  <2> DEFINE header == FirstPacket(e)
  <2>1. /\ header # NoHeader /\ StillRecent(e, header)
        /\ Drop(e, header) \/ Process(e, header)
    BY <1>7 DEF Replay
  <2>2. header \in Cached(e)
    BY <2>1 DEF Cached, FirstPacket, CacheIInv, CacheTypeOK
  <2>3. header \in network[Peer(e)]
    BY <2>1, <2>2 DEF CacheIInv, CachedIsSent
  <2> HIDE DEF header
  <2> QED BY <2>1, <2>3 DEF Drop, Process, Next
<1>8. CASE SkipMissing(e)
  BY <1>8 DEF SkipMissing
<1>9. CASE StopAtMissing(e)
  BY <1>9 DEF StopAtMissing
<1> QED BY <1>1, <1>2, <1>3, <1>4, <1>5, <1>6, <1>7, <1>8, <1>9

\* The slots of the endpoint that takes a step.
LEMMA SlotsOwnStep ==
  ASSUME CacheIInv, NEW e \in Endpoint,
         \/ \E header \in network[Peer(e)] : ReceivedRawPacket(e, header)
         \/ \E header \in network[Peer(e)] : CachePacket(e, header)
         \/ PostTickDispatch(e)
         \/ Replay(e)
         \/ SkipMissing(e)
         \/ StopAtMissing(e)
  PROVE  SlotsAgree(e)'
<1>1. IInv /\ CacheTypeOK /\ SlotsAgree(e) /\ CachedIsSent(e) /\ AcksAscend(e)
  BY DEF CacheIInv
<1>2. ASSUME NEW header \in network[Peer(e)], ReceivedRawPacket(e, header)
      PROVE  SlotsAgree(e)'
  BY <1>1, <1>2, SlotsReceive
<1>3. ASSUME NEW header \in network[Peer(e)], CachePacket(e, header)
      PROVE  SlotsAgree(e)'
  BY <1>1, <1>3, SlotsCachePacket
<1>4. CASE PostTickDispatch(e)
  BY <1>1, <1>4, SlotsPostTick
<1>5. CASE Replay(e)
  BY <1>1, <1>5, SlotsReplay
<1>6. CASE SkipMissing(e)
  BY <1>1, <1>6, SlotsSkip
<1>7. CASE StopAtMissing(e)
  BY <1>1, <1>7, SlotsStop
<1> QED BY <1>2, <1>3, <1>4, <1>5, <1>6, <1>7

\* A packet that is processed is dispatched or not, and nothing else.
LEMMA ProcessType ==
  ASSUME CacheTypeOK, TypeOK', NEW e \in Endpoint, NEW header, Process(e, header)
  PROVE  /\ TotalOutOfOrderPacketsLost' = TotalOutOfOrderPacketsLost
         /\ dispatched' \in [Endpoint -> SUBSET Number]
<1>1. InPacketId'[e] \in Number /\ dispatched \in [Endpoint -> SUBSET Number]
  BY DEF TypeOK, CacheTypeOK
<1>2. dispatched' = [dispatched EXCEPT ![e] =
        IF dispatching'[e] THEN dispatched[e] \cup {InPacketId'[e]} ELSE dispatched[e]]
  BY DEF Process
<1>3. dispatched' \in [Endpoint -> SUBSET Number]
  BY <1>1, <1>2
<1> QED BY <1>3 DEF Process

\* Every step keeps the types.
LEMMA CacheTypeStep ==
  ASSUME CacheIInv, CacheNext, TypeOK' PROVE CacheTypeOK'
<1>1. PICK e \in Endpoint :
        \/ Send(e)
        \/ Acknowledge(e)
        \/ \E header \in network[Peer(e)] : ReceivedRawPacket(e, header)
        \/ \E header \in network[Peer(e)] : CachePacket(e, header)
        \/ PostTickDispatch(e)
        \/ Replay(e)
        \/ SkipMissing(e)
        \/ StopAtMissing(e)
  BY DEF CacheNext
<1>2. /\ CacheTypeOK /\ IInv
      /\ TotalOutOfOrderPacketsLost \in [Endpoint -> 0 .. EnableThreshold]
      /\ PacketOrderCache \in [Endpoint -> [Slot -> Header \cup {NoHeader}]]
      /\ PacketOrderCacheStartIdx \in [Endpoint -> Slot]
      /\ PacketOrderCacheCount \in [Endpoint -> 0 .. Capacity]
      /\ flush \in [Endpoint -> {"none", "first", "whole"}]
      /\ ahead \in [Endpoint -> SUBSET Number]
      /\ dispatched \in [Endpoint -> SUBSET Number]
      /\ waited \in [Endpoint -> BOOLEAN]
  BY DEF CacheIInv, CacheTypeOK
<1>3. CASE Send(e) \/ Acknowledge(e)
  <2>1. UNCHANGED <<cacheVars, historyVars>>
    BY <1>3 DEF Send, Acknowledge
  <2> QED BY <1>2, <2>1 DEF CacheTypeOK, cacheVars, historyVars
<1>4. ASSUME NEW header \in network[Peer(e)], ReceivedRawPacket(e, header)
      PROVE  CacheTypeOK'
  <2>1. /\ \/ Drop(e, header) /\ UNCHANGED dispatched
           \/ Process(e, header)
        /\ UNCHANGED <<PacketOrderCache, PacketOrderCacheStartIdx,
                       PacketOrderCacheCount, flush, ahead, waited>>
    BY <1>4 DEF ReceivedRawPacket
  <2>2. CASE Drop(e, header) /\ UNCHANGED dispatched
    BY <1>2, <2>1, <2>2, DropExact DEF CacheTypeOK
  <2>3. CASE Process(e, header)
    BY <1>2, <2>1, <2>3, ProcessType DEF CacheTypeOK
  <2> QED BY <2>1, <2>2, <2>3
<1>5. ASSUME SlotsAgree(e)', PacketOrderCacheStartIdx'[e] \in Slot
      PROVE  PacketOrderCacheCount'[e] \in 0 .. Capacity
  <2>1. Taken(e)' \in SUBSET Slot
    BY DEF Taken
  <2> QED BY <1>5, <2>1, SlotsFinite DEF SlotsAgree, CountsPackets
<1>6. ASSUME NEW header \in network[Peer(e)], CachePacket(e, header)
      PROVE  CacheTypeOK'
  <2> DEFINE delta == GetSequenceDelta(notify[e], header)
             slot == CircularIdx(e, LinearCacheIdx(delta))
  <2>1. /\ delta > 0 /\ Recent(notify[e], header)
        /\ PacketOrderCache' =
             [PacketOrderCache EXCEPT ![e][slot] = IF @ = NoHeader THEN header ELSE @]
        /\ PacketOrderCacheCount' =
             [PacketOrderCacheCount EXCEPT ![e] = CountAfter(e, slot)]
        /\ flush' = [flush EXCEPT ![e] = LoopFor(e, slot)]
        /\ ahead' = [ahead EXCEPT ![e] =
                       IF waited[e] THEN @ ELSE @ \cup {InPacketId[e] + delta}]
        /\ UNCHANGED <<vars, TotalOutOfOrderPacketsLost, PacketOrderCacheStartIdx,
                       dispatched, waited>>
    BY <1>6 DEF CachePacket
  <2>2. header \in Header /\ InPacketId[e] + delta \in Int
    <3>1. header \in Header /\ header.Seq \in Int /\ InPacketId[e] \in Int
      BY <1>2, OnItsWay
    <3>2. delta = header.Seq - InPacketId[e]
      BY <1>2, <2>1, DeltaExact
    <3> HIDE DEF delta
    <3> QED BY <3>1, <3>2
  <2> HIDE DEF delta, slot
  <2>3. PacketOrderCache' \in [Endpoint -> [Slot -> Header \cup {NoHeader}]]
    BY <1>2, <2>1, <2>2
  <2>4. PacketOrderCacheCount' \in [Endpoint -> 0 .. Capacity]
    <3>1. SlotsAgree(e)'
      BY <1>6, SlotsOwnStep
    <3>2. PacketOrderCacheCount'[e] \in 0 .. Capacity
      BY <1>2, <1>5, <2>1, <3>1
    <3> QED BY <1>2, <2>1, <3>2
  <2>5. flush' \in [Endpoint -> {"none", "first", "whole"}]
    BY <1>2, <2>1 DEF LoopFor
  <2>6. ahead' \in [Endpoint -> SUBSET Number]
    BY <1>2, <2>1, <2>2 DEF Number
  <2> QED BY <1>2, <2>1, <2>3, <2>4, <2>5, <2>6 DEF CacheTypeOK
<1>7. CASE PostTickDispatch(e)
  BY <1>2, <1>7 DEF PostTickDispatch, CacheTypeOK, historyVars
<1>8. CASE Replay(e)
  <2> DEFINE header == FirstPacket(e)
             left == PacketOrderCacheCount[e] - 1
  <2>1. /\ (Drop(e, header) /\ UNCHANGED dispatched) \/ Process(e, header)
        /\ \E w \in BOOLEAN : waited' = [waited EXCEPT ![e] = w]
        /\ \/ ahead' = ahead
           \/ ahead' = [ahead EXCEPT ![e] = IF dispatching'[e] THEN ahead[e] ELSE {}]
        /\ PacketOrderCache' =
             [PacketOrderCache EXCEPT ![e][PacketOrderCacheStartIdx[e]] = NoHeader]
        /\ PacketOrderCacheCount' = [PacketOrderCacheCount EXCEPT ![e] = left]
        /\ Advance(e)
        /\ flush' = [flush EXCEPT ![e] = IF left = 0 THEN "none" ELSE flush[e]]
    BY <1>8 DEF Replay
  <2> HIDE DEF left, header
  <2>2. PacketOrderCache' \in [Endpoint -> [Slot -> Header \cup {NoHeader}]]
    BY <1>2, <2>1
  <2>3. PacketOrderCacheStartIdx' \in [Endpoint -> Slot]
    BY <1>2, <2>1, CircularAdvance DEF Advance
  <2>4. PacketOrderCacheCount' \in [Endpoint -> 0 .. Capacity]
    <3>1. SlotsAgree(e)'
      BY <1>8, SlotsOwnStep
    <3>2. PacketOrderCacheCount'[e] \in 0 .. Capacity
      BY <1>5, <2>3, <3>1
    <3> QED BY <1>2, <2>1, <3>2
  <2>5. /\ flush' \in [Endpoint -> {"none", "first", "whole"}]
        /\ ahead' \in [Endpoint -> SUBSET Number]
        /\ waited' \in [Endpoint -> BOOLEAN]
    BY <1>2, <2>1
  <2>6. CASE Drop(e, header) /\ UNCHANGED dispatched
    BY <1>2, <2>2, <2>3, <2>4, <2>5, <2>6, DropExact DEF CacheTypeOK
  <2>7. CASE Process(e, header)
    BY <1>2, <2>2, <2>3, <2>4, <2>5, <2>7, ProcessType DEF CacheTypeOK
  <2> QED BY <2>1, <2>6, <2>7
<1>9. CASE SkipMissing(e)
  <2>1. /\ Advance(e)
        /\ UNCHANGED <<vars, TotalOutOfOrderPacketsLost, PacketOrderCache,
                       PacketOrderCacheCount, flush, historyVars>>
    BY <1>9 DEF SkipMissing
  <2>2. PacketOrderCacheStartIdx' \in [Endpoint -> Slot]
    BY <1>2, <2>1, CircularAdvance DEF Advance
  <2> QED BY <1>2, <2>1, <2>2 DEF CacheTypeOK, historyVars
<1>10. CASE StopAtMissing(e)
  BY <1>2, <1>10 DEF StopAtMissing, CacheTypeOK, historyVars
<1> QED BY <1>1, <1>3, <1>4, <1>6, <1>7, <1>8, <1>9, <1>10

\* Only what was on its way is cached.
LEMMA CachedStep ==
  ASSUME CacheIInv, CacheNext, NEW k \in Endpoint
  PROVE  Cached(k)' \subseteq Receivable(k)
<1>1. PICK e \in Endpoint :
        \/ Send(e)
        \/ Acknowledge(e)
        \/ \E header \in network[Peer(e)] : ReceivedRawPacket(e, header)
        \/ \E header \in network[Peer(e)] : CachePacket(e, header)
        \/ PostTickDispatch(e)
        \/ Replay(e)
        \/ SkipMissing(e)
        \/ StopAtMissing(e)
  BY DEF CacheNext
<1>2. /\ PacketOrderCache \in [Endpoint -> [Slot -> Header \cup {NoHeader}]]
      /\ PacketOrderCacheStartIdx[e] \in Slot
  BY DEF CacheIInv, CacheTypeOK
<1>3. ASSUME UNCHANGED PacketOrderCache PROVE Cached(k)' \subseteq Receivable(k)
  BY <1>3 DEF Cached, Receivable
<1>4. ASSUME NEW header \in network[Peer(e)], CachePacket(e, header)
      PROVE  Cached(k)' \subseteq Receivable(k)
  <2> DEFINE slot == CircularIdx(e, LinearCacheIdx(GetSequenceDelta(notify[e], header)))
  <2>1. PacketOrderCache' =
          [PacketOrderCache EXCEPT ![e][slot] = IF @ = NoHeader THEN header ELSE @]
    BY <1>4 DEF CachePacket
  <2> HIDE DEF slot
  <2> SUFFICES ASSUME NEW i \in Slot, PacketOrderCache'[k][i] # NoHeader
               PROVE  PacketOrderCache'[k][i] \in Receivable(k)
    BY DEF Cached
  <2>2. PacketOrderCache'[k][i] =
          IF k = e /\ i = slot /\ PacketOrderCache[e][slot] = NoHeader THEN header
          ELSE PacketOrderCache[k][i]
    BY <1>2, <2>1
  <2> QED BY <1>4, <2>2 DEF Receivable, Cached
<1>5. CASE Replay(e)
  <2>1. PacketOrderCache' =
          [PacketOrderCache EXCEPT ![e][PacketOrderCacheStartIdx[e]] = NoHeader]
    BY <1>5 DEF Replay
  <2> SUFFICES ASSUME NEW i \in Slot, PacketOrderCache'[k][i] # NoHeader
               PROVE  PacketOrderCache'[k][i] \in Receivable(k)
    BY DEF Cached
  <2>2. PacketOrderCache'[k][i] = PacketOrderCache[k][i]
    BY <1>2, <2>1
  <2> QED BY <2>2 DEF Receivable, Cached
<1>6. ASSUME NEW header, ReceivedRawPacket(e, header)
      PROVE  Cached(k)' \subseteq Receivable(k)
  BY <1>3, <1>6 DEF ReceivedRawPacket
<1>7. CASE Send(e) \/ Acknowledge(e)
  BY <1>3, <1>7 DEF Send, Acknowledge, cacheVars
<1>8. CASE PostTickDispatch(e) \/ SkipMissing(e) \/ StopAtMissing(e)
  BY <1>3, <1>8 DEF PostTickDispatch, SkipMissing, StopAtMissing
<1> QED BY <1>1, <1>4, <1>5, <1>6, <1>7, <1>8

\* Every step keeps the slots of both endpoints in agreement.
LEMMA SlotsStep ==
  ASSUME CacheIInv, CacheNext, CacheTypeOK', NEW k \in Endpoint
  PROVE  SlotsAgree(k)'
<1>1. PICK e \in Endpoint :
        \/ Send(e)
        \/ Acknowledge(e)
        \/ \E header \in network[Peer(e)] : ReceivedRawPacket(e, header)
        \/ \E header \in network[Peer(e)] : CachePacket(e, header)
        \/ PostTickDispatch(e)
        \/ Replay(e)
        \/ SkipMissing(e)
        \/ StopAtMissing(e)
  BY DEF CacheNext
<1>2. /\ IInv /\ CacheTypeOK /\ CachedIsSent(e) /\ SlotsAgree(k)
      /\ TotalOutOfOrderPacketsLost'[k] \in Int
  BY CacheConstants DEF CacheIInv, CacheTypeOK
<1>3. SlotsUnmoved(k) => SlotsAgree(k)'
  BY <1>2, SlotsFrame
<1>4. CASE Send(e) \/ Acknowledge(e)
  BY <1>2, <1>3, <1>4, SendUnmoved, AcknowledgeUnmoved
<1>5. CASE /\ ~(Send(e) \/ Acknowledge(e))
           /\ k = e
  BY <1>1, <1>5, SlotsOwnStep
<1>6. CASE /\ ~(Send(e) \/ Acknowledge(e))
           /\ k # e
  <2>1. ASSUME NEW header \in network[Peer(e)],
               ReceivedRawPacket(e, header) \/ CachePacket(e, header)
        PROVE  SlotsUnmoved(k)
    BY <1>2, <1>6, <2>1, ReceiveUnmoved
  <2>2. CASE \/ PostTickDispatch(e)
             \/ Replay(e)
             \/ SkipMissing(e)
             \/ StopAtMissing(e)
    BY <1>2, <1>3, <1>6, <2>2, FlushUnmoved
  <2> QED BY <1>1, <1>3, <1>6, <2>1, <2>2
<1> QED BY <1>4, <1>5, <1>6

\* The invariant holds at first.
LEMMA CacheInvariantInit == CacheInit => CacheIInv
<1> SUFFICES ASSUME CacheInit PROVE CacheIInv
  OBVIOUS
<1>1. IInv
  BY InvariantInit DEF CacheInit
<1>2. /\ \A e \in Endpoint :
           /\ PacketOrderCache[e] = [i \in Slot |-> NoHeader]
           /\ PacketOrderCacheStartIdx[e] = 0
           /\ PacketOrderCacheCount[e] = 0
           /\ ahead[e] = {}
           /\ network[Peer(e)] = {} /\ SendBuffer[Peer(e)] = NoHeader
      /\ 0 \in Slot /\ 0 \in 0 .. Capacity /\ 0 \in 0 .. EnableThreshold
  BY Endpoints, CacheConstants DEF CacheInit, Init, Slot
<1>3. CacheTypeOK
  BY <1>1, <1>2 DEF CacheInit, CacheTypeOK, IInv
<1>4. ASSUME NEW e \in Endpoint
      PROVE  SlotsAgree(e) /\ CachedIsSent(e) /\ AcksAscend(e)
  <2>1. Taken(e) = {} /\ Cached(e) = {} /\ Receivable(e) = {}
    BY <1>2 DEF Taken, Cached, Receivable
  <2>2. \A i \in Slot : At(e, i) = NoHeader
    BY <1>3, <2>1, EmptyCache
  <2>3. 0 .. Capacity - 2 \subseteq Slot /\ Capacity - 1 \in Slot
    BY CacheConstants DEF Slot
  <2>4. CountsPackets(e)
    <3>1. PacketOrderCacheCount[e] = Cardinality(Taken(e)) /\ PacketOrderCacheCount[e] = 0
      BY <1>2, <2>1, FS_EmptySet
    <3>2. ~(0 > 0)
      OBVIOUS
    <3> QED BY <3>1, <3>2 DEF CountsPackets
  <2>5. LastIsEmpty(e) /\ RoomForMore(e) /\ LinesUp(e) /\ CacheInOrder(e)
    <3>1. FirstPacket(e) = NoHeader
      BY <1>2 DEF FirstPacket
    <3> QED BY <2>2, <2>3, <3>1
            DEF LastIsEmpty, RoomForMore, LinesUp, CacheInOrder, At
  <2>6. GivenUp(e) /\ Kept(e)
    BY <1>2 DEF GivenUp, Kept
  <2>7. CachedIsSent(e) /\ AcksAscend(e)
    BY <2>1 DEF CachedIsSent, AcksAscend
  <2> QED BY <2>4, <2>5, <2>6, <2>7 DEF SlotsAgree
<1> QED BY <1>1, <1>3, <1>4 DEF CacheIInv

\* Every step keeps the invariant.
LEMMA CacheInvariantStep == CacheIInv /\ [CacheNext]_orderVars => CacheIInv'
<1> SUFFICES ASSUME CacheIInv, [CacheNext]_orderVars PROVE CacheIInv'
  OBVIOUS
<1>1. IInv /\ IInv' /\ [Next]_vars /\ CacheTypeOK
  BY PacketStep, InvariantStep DEF CacheIInv
<1>2. CASE CacheNext
  <2>1. CacheTypeOK'
    BY <1>1, <1>2, CacheTypeStep DEF IInv
  <2>2. ASSUME NEW e \in Endpoint
        PROVE  SlotsAgree(e)' /\ CachedIsSent(e)' /\ AcksAscend(e)'
    <3>1. SlotsAgree(e)'
      BY <1>2, <2>1, SlotsStep
    <3>2. Cached(e)' \subseteq Receivable(e)
      BY <1>2, CachedStep
    <3>3. CachedIsSent(e) /\ AcksAscend(e)
      BY DEF CacheIInv
    <3> QED BY <1>1, <3>1, <3>2, <3>3, OnTheWayStep
  <2> QED BY <1>1, <2>1, <2>2 DEF CacheIInv
<1>3. CASE UNCHANGED orderVars
  <2>1. UNCHANGED <<vars, cacheVars, historyVars>>
    BY <1>3 DEF orderVars
  <2>2. CacheTypeOK'
    BY <1>1, <2>1 DEF CacheTypeOK, IInv, cacheVars, historyVars
  <2>3. ASSUME NEW e \in Endpoint
        PROVE  SlotsAgree(e)' /\ CachedIsSent(e)' /\ AcksAscend(e)'
    <3>1. SlotsAgree(e) /\ CachedIsSent(e) /\ AcksAscend(e)
      BY DEF CacheIInv
    <3>2. SlotsUnmoved(e) /\ TotalOutOfOrderPacketsLost'[e] \in Int
      BY <1>1, <2>1, <2>2, CacheConstants
         DEF CacheTypeOK, SlotsUnmoved, SlotsKept, vars, cacheVars, historyVars
    <3>3. SlotsAgree(e)'
      BY <1>1, <3>1, <3>2, SlotsFrame
    <3>4. Cached(e)' \subseteq Receivable(e)
      BY <2>1 DEF Cached, Receivable, cacheVars
    <3> QED BY <1>1, <3>1, <3>3, <3>4, OnTheWayStep
  <2> QED BY <1>1, <2>2, <2>3 DEF CacheIInv
<1> QED BY <1>2, <1>3

-----------------------------------------------------------------------------
(* What follows                                                            *)

\* The invariant holds of every behaviour.
THEOREM CacheInvariant == CacheSpec => []CacheIInv
BY CacheInvariantInit, CacheInvariantStep, PTL DEF CacheSpec

\* The slots of the cache mean what the code takes them to mean: its index
\* lines up with the sequence number until the connection comes to wait for a
\* flush of its sequence history with packets in the cache, and there is room
\* whenever no flush of the cache is going on.
THEOREM CacheAlwaysAgrees == CacheSpec => []CacheAgrees
<1>1. CacheIInv => CacheAgrees
  BY DEF CacheIInv, SlotsAgree, CacheAgrees
<1> QED BY <1>1, CacheInvariant, PTL

\* A packet that came ahead is dispatched, or in the cache, or was given up in
\* a wait for a flush: no other packet takes its slot and none is dropped when
\* it is replayed.
THEOREM NothingEverDropped == CacheSpec => []NothingDropped
<1>1. CacheIInv => NothingDropped
  <2> SUFFICES ASSUME CacheIInv, NEW e \in Endpoint,
                      NEW id \in ahead[e] \ dispatched[e]
               PROVE  \E packet \in Cached(e) : packet.Seq = id
    BY DEF NothingDropped
  <2>1. PICK i \in Slot : At(e, i) # NoHeader /\ At(e, i).Seq = id
    BY DEF CacheIInv, SlotsAgree, Kept
  <2>2. At(e, i) \in Cached(e)
    BY <2>1, CachedAt DEF CacheIInv
  <2> QED BY <2>1, <2>2
<1> QED BY <1>1, CacheInvariant, PTL

\* The cache delays and reorders packets as the network itself may: a
\* connection that has it still does what PacketNotify says, and so keeps what
\* that promises.
THEOREM CacheImplementsNotify == CacheSpec => Spec
<1>1. CacheInit => Init
  BY DEF CacheInit
<1> QED BY <1>1, PacketStep, CacheInvariant, PTL DEF CacheSpec, Spec

\* With the cache too, a packet is delivered, acknowledged and answered for as
\* PacketDelivery says.
THEOREM CacheImplementsDelivery == CacheSpec => DeliverySpec
BY CacheImplementsNotify, ImplementsDelivery, PTL

=============================================================================
