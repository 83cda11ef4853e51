-------------------------- MODULE PacketNotifyProofs --------------------------
(***************************************************************************)
(* The packet layer keeps its promises for every value of the constants:   *)
(* whatever the network does, the notifications an endpoint gets are true, *)
(* and the two endpoints implement PacketDelivery. The first lemmas are    *)
(* about the comparisons of TSequenceNumber: for numbers less than half of *)
(* the circle apart they say exactly what they seem to say, and a number   *)
(* between two such numbers is found where it is.                          *)
(***************************************************************************)
EXTENDS PacketNotifyInvariant, TLAPS

-----------------------------------------------------------------------------
(* Sequence numbers                                                        *)

\* The half and the whole of the circle are natural numbers.
LEMMA HalfType == SeqNumberHalf \in Nat /\ SeqNumberCount \in Nat
BY SeqNumberCountAssumption DEF SeqNumberHalf

\* The circle has two halves and neither is empty.
LEMMA TwiceHalf == SeqNumberHalf > 0 /\ SeqNumberCount = 2 * SeqNumberHalf
BY SeqNumberCountAssumption DEF SeqNumberHalf

\* How far a number is ahead of another is less than the circle.
LEMMA AheadType ==
  ASSUME NEW A \in Int, NEW B \in Int
  PROVE  Ahead(A, B) \in 0 .. SeqNumberCount - 1
BY SeqNumberCountAssumption DEF Ahead

\* Ahead, for numbers at most once around the circle apart.
LEMMA AheadNear ==
  ASSUME NEW A \in Int, NEW B \in Int,
         A - B < SeqNumberCount, B - A <= SeqNumberCount
  PROVE  Ahead(A, B) = IF A >= B THEN A - B ELSE A - B + SeqNumberCount
<1>1. CASE A >= B
  BY <1>1, SeqNumberCountAssumption DEF Ahead
<1>2. CASE A < B
  BY <1>2, SeqNumberCountAssumption DEF Ahead
<1> QED BY <1>1, <1>2

\* TSequenceNumber's operators say the truth about numbers less than half of
\* the circle apart: the precondition its comments give ("only valid if
\* (A - B) < SeqNumberHalf").
THEOREM SeqNear ==
  ASSUME NEW A \in Int, NEW B \in Int,
         A - B < SeqNumberHalf, B - A <= SeqNumberHalf
  PROVE  /\ SeqEq(A, B) <=> A = B
         /\ SeqGt(A, B) <=> A > B
         /\ SeqGeq(A, B) <=> A >= B
         /\ SeqDiff(A, B) = A - B
BY HalfType, TwiceHalf, AheadNear DEF SeqEq, SeqGt, SeqGeq, SeqDiff

\* A number exactly half of the circle ahead is not found to be ahead.
LEMMA SeqOpposite ==
  ASSUME NEW A \in Int, NEW B \in Int, A - B = SeqNumberHalf
  PROVE  ~SeqGt(A, B) /\ ~SeqGeq(A, B)
BY HalfType, TwiceHalf, AheadNear DEF SeqGt, SeqGeq

\* A number found to be ahead is ahead by a difference below the half,
\* whichever numbers were meant.
LEMMA SeqDiffType ==
  ASSUME NEW A \in Int, NEW B \in Int
  PROVE  /\ SeqDiff(A, B) \in Int
         /\ SeqGt(A, B) => SeqDiff(A, B) \in Nat /\ SeqDiff(A, B) \in 1 .. SeqNumberHalf - 1
         /\ SeqGeq(A, B) => SeqDiff(A, B) \in Nat /\ SeqDiff(A, B) \in 0 .. SeqNumberHalf - 1
         /\ SeqGeq(A, B) /\ ~SeqGt(A, B) => SeqDiff(A, B) = 0
<1>1. Ahead(A, B) \in 0 .. SeqNumberCount - 1
  BY AheadType
<1> QED BY <1>1, HalfType DEF SeqGt, SeqGeq, SeqDiff

\* Division by the circle, and what it does to a sum.
LEMMA DivMod ==
  ASSUME NEW x \in Int
  PROVE  /\ x % SeqNumberCount \in 0 .. SeqNumberCount - 1
         /\ x \div SeqNumberCount \in Int
         /\ x = SeqNumberCount * (x \div SeqNumberCount) + (x % SeqNumberCount)
BY SeqNumberCountAssumption

\* The remainder of a number given by quotient and remainder.
LEMMA Residue ==
  ASSUME NEW N \in Nat \ {0}, NEW q \in Int, NEW r \in 0 .. N - 1
  PROVE  (N * q + r) % N = r
OBVIOUS

\* The remainder of a sum, from the remainders of its terms.
LEMMA SumMod ==
  ASSUME NEW x \in Int, NEW y \in Int
  PROVE  LET a == x % SeqNumberCount
             b == y % SeqNumberCount
         IN  (x + y) % SeqNumberCount =
               IF a + b < SeqNumberCount THEN a + b ELSE a + b - SeqNumberCount
<1> DEFINE N == SeqNumberCount
           p == x \div N
           q == y \div N
           a == x % N
           b == y % N
<1>1. N \in Nat \ {0}
  BY SeqNumberCountAssumption
<1>2. /\ a \in 0 .. N - 1 /\ p \in Int /\ x = N * p + a
      /\ b \in 0 .. N - 1 /\ q \in Int /\ y = N * q + b
  BY DivMod
<1> HIDE DEF N, p, q, a, b
<1>3. /\ x + y = N * (p + q) + (a + b)
      /\ x + y = N * (p + q + 1) + (a + b - N)
  BY <1>1, <1>2
<1>4. CASE a + b < N
  <2>1. a + b \in 0 .. N - 1 /\ p + q \in Int
    BY <1>1, <1>2, <1>4
  <2>2. (x + y) % N = a + b
    BY <1>1, <1>3, <2>1, Residue
  <2> QED BY <2>2, <1>4 DEF N, a, b
<1>5. CASE ~(a + b < N)
  <2>1. a + b - N \in 0 .. N - 1 /\ p + q + 1 \in Int
    BY <1>1, <1>2, <1>5
  <2>2. (x + y) % N = a + b - N
    BY <1>1, <1>3, <2>1, Residue
  <2> QED BY <2>2, <1>5 DEF N, a, b
<1> QED BY <1>4, <1>5

\* A number found ahead of B and not beyond C, where C is ahead of B by less
\* than the half, is found at a difference between 0 and that of C, whichever
\* number was meant: the range check of GetSequenceDelta confines the packets
\* a header can acknowledge to those in flight.
THEOREM SeqBetween ==
  ASSUME NEW A \in Int, NEW B \in Int, NEW C \in Int,
         SeqGeq(A, B), SeqGt(C, A), C - B \in 1 .. SeqNumberHalf - 1
  PROVE  SeqDiff(A, B) \in 0 .. C - B - 1
<1>1. /\ Ahead(A, B) \in 0 .. SeqNumberHalf - 1
      /\ Ahead(C, A) \in 1 .. SeqNumberHalf - 1
  <2>1. /\ Ahead(A, B) \in 0 .. SeqNumberCount - 1
        /\ Ahead(C, A) \in 0 .. SeqNumberCount - 1
    BY AheadType
  <2> QED BY <2>1, HalfType DEF SeqGeq, SeqGt
<1>2. Ahead(C, B) = C - B
  BY HalfType, TwiceHalf, AheadNear
<1>3. Ahead(C, B) = Ahead(C, A) + Ahead(A, B)
  <2>1. C - B = (C - A) + (A - B)
    OBVIOUS
  <2>2. Ahead(C, A) + Ahead(A, B) < SeqNumberCount
    BY <1>1, HalfType, TwiceHalf
  <2> QED BY <2>1, <2>2, SumMod, C - A \in Int, A - B \in Int DEF Ahead
<1> QED BY <1>1, <1>2, <1>3, HalfType DEF SeqDiff

-----------------------------------------------------------------------------
(* Constants and operators                                                 *)

\* What the assumptions say of the constants.
LEMMA Constants ==
  /\ MaxSequenceHistoryLength \in Nat /\ MaxSequenceHistoryLength >= 1
  /\ BitsPerWord \in Nat \ {0}
  /\ MaxSequenceHistoryLength < SeqNumberHalf
  /\ MaxInFlight \in Nat /\ MaxInFlight + 1 < SeqNumberHalf
  /\ MaxPacketAge \in Nat /\ MaxPacketAge <= SeqNumberHalf
  /\ FirstPacketId \in [Endpoint -> Nat]
  /\ MaxPacketId \in [Endpoint -> Nat]
  /\ WordCount \in Nat \ {0}
  /\ MaxSequenceHistoryLength = WordCount * BitsPerWord
<1>1. /\ BitsPerWord \in Nat \ {0}
      /\ MaxSequenceHistoryLength \in Nat \ {0}
      /\ MaxSequenceHistoryLength % BitsPerWord = 0
  BY PacketNotifyAssumption
<1>2. /\ WordCount \in Nat \ {0}
      /\ MaxSequenceHistoryLength = WordCount * BitsPerWord
  BY <1>1 DEF WordCount
<1> QED BY <1>1, <1>2, PacketNotifyAssumption, HalfType

\* There are two endpoints, each the other's peer.
LEMMA Endpoints ==
  \A e \in Endpoint : Peer(e) \in Endpoint /\ Peer(e) # e /\ Peer(Peer(e)) = e
BY DEF Endpoint, Peer

\* The history in use is no longer than the whole history.
LEMMA CurrentHistoryLengthType ==
  ASSUME NEW n \in Notify
  PROVE  CurrentHistoryLength(n) \in 0 .. MaxSequenceHistoryLength
<1>1. n.InAckSeq \in Int /\ n.InAckSeqAck \in Int
  BY DEF Notify, Number
<1>2. SeqGeq(n.InAckSeq, n.InAckSeqAck) =>
        SeqDiff(n.InAckSeq, n.InAckSeqAck) \in Nat
  BY <1>1, SeqDiffType, HalfType
<1> QED BY <1>2, Constants DEF CurrentHistoryLength, Lesser

\* The words of a header hold the history it has to give.
LEMMA HistoryWordsNeededType ==
  ASSUME NEW n \in Notify
  PROVE  /\ HistoryWordsNeeded(n) \in 1 .. WordCount
         /\ CurrentHistoryLength(n) <= HistoryWordsNeeded(n) * BitsPerWord
<1> DEFINE c == CurrentHistoryLength(n)
           words == (c + BitsPerWord - 1) \div BitsPerWord
<1>1. c \in 0 .. MaxSequenceHistoryLength
  BY CurrentHistoryLengthType
<1>2. words \in Nat /\ c <= words * BitsPerWord
  <2> HIDE DEF c
  <2> QED BY <1>1, Constants
<1>3. HistoryWordsNeeded(n) = IF words < 1 THEN 1 ELSE Lesser(words, WordCount)
  BY DEF HistoryWordsNeeded
<1> HIDE DEF words, c
<1>4. HistoryWordsNeeded(n) \in 1 .. WordCount
  BY <1>2, <1>3, Constants DEF Lesser
<1>5. c <= HistoryWordsNeeded(n) * BitsPerWord
  <2>1. CASE words < 1
    BY <2>1, <1>2, <1>3, <1>1, Constants
  <2>2. CASE words >= 1 /\ words <= WordCount
    BY <2>2, <1>2, <1>3 DEF Lesser
  <2>3. CASE words > WordCount
    BY <2>3, <1>2, <1>3, <1>1, Constants DEF Lesser
  <2> QED BY <2>1, <2>2, <2>3, <1>2, Constants
<1> QED BY <1>4, <1>5 DEF c

\* Recording packets leaves a history.
LEMMA AddDeliveryStatusesType ==
  ASSUME NEW history \in History, NEW n \in Nat, NEW isAck \in BOOLEAN
  PROVE  AddDeliveryStatuses(history, n, isAck) \in History
<1> SUFFICES ASSUME NEW i \in HistoryIndex
             PROVE  (IF i >= n THEN history[i - n] ELSE i = 0 /\ isAck) \in BOOLEAN
  BY DEF AddDeliveryStatuses, History
<1>1. CASE i >= n
  <2>1. i - n \in HistoryIndex
    BY <1>1, Constants DEF HistoryIndex
  <2> QED BY <1>1, <2>1 DEF History
<1>2. CASE ~(i >= n)
  BY <1>2
<1> QED BY <1>1, <1>2

\* The header of a packet has the type of headers.
LEMMA HeaderOfType ==
  ASSUME NEW n \in Notify, NEW words \in 1 .. WordCount
  PROVE  HeaderOf(n, words) \in Header
BY DEF HeaderOf, Header, TransmitHistory, History, Notify, Number

\* AckSeq returns an FNetPacketNotify.
LEMMA AckSeqType ==
  ASSUME NEW n \in Notify, NEW seq \in Int, NEW isAck \in BOOLEAN
  PROVE  AckSeq(n, seq, isAck) \in Notify
<1> DEFINE count == IF SeqGt(seq, n.InAckSeq) THEN SeqDiff(seq, n.InAckSeq) ELSE 0
<1>1. n.InAckSeq \in Int /\ n.InSeqHistory \in History
  BY DEF Notify, Number
<1>2. count \in Nat
  BY <1>1, SeqDiffType, HalfType
<1> HIDE DEF count
<1> DEFINE history == AddDeliveryStatuses(n.InSeqHistory, count, isAck)
<1>3. history \in History
  BY <1>1, <1>2, AddDeliveryStatusesType
<1>4. AckSeq(n, seq, isAck) =
        [n EXCEPT !.InAckSeq = n.InAckSeq + count, !.InSeqHistory = history]
  BY DEF AckSeq, count
<1> HIDE DEF history
<1>5. n.InAckSeq + count \in Int
  BY <1>1, <1>2
<1> QED BY <1>3, <1>4, <1>5 DEF Notify, Number

\* UpdateInAckSeqAck returns an FNetPacketNotify.
LEMMA UpdateInAckSeqAckType ==
  ASSUME NEW n \in Notify, NEW count \in Nat \ {0}
  PROVE  UpdateInAckSeqAck(n, count) \in Notify
<1> DEFINE seq == IF AckRecordMatches(n, count)
                  THEN n.AckRecord[count].InAckSeq
                  ELSE n.OutAckSeq + count - MaxSequenceHistoryLength
           rest == IF count <= Len(n.AckRecord)
                   THEN SubSeq(n.AckRecord, count + 1, Len(n.AckRecord))
                   ELSE n.AckRecord
<1>1. n.AckRecord \in Seq(SentAck) /\ n.InAckSeqAck \in Int /\ n.OutAckSeq \in Int
  BY DEF Notify, Number
<1>2. seq \in Int
  <2>1. CASE AckRecordMatches(n, count)
    <3>1. count \in DOMAIN n.AckRecord
      BY <1>1, <2>1 DEF AckRecordMatches
    <3>2. n.AckRecord[count] \in SentAck
      BY <1>1, <3>1
    <3> QED BY <2>1, <3>2 DEF SentAck, Number
  <2>2. CASE ~AckRecordMatches(n, count)
    BY <1>1, <2>2, Constants
  <2> QED BY <2>1, <2>2
<1>3. rest \in Seq(SentAck)
  BY <1>1
<1> HIDE DEF seq, rest
<1>4. UpdateInAckSeqAck(n, count) =
        [n EXCEPT !.AckRecord = rest,
                  !.InAckSeqAck = IF SeqGt(seq, @) THEN seq ELSE @]
  BY DEF UpdateInAckSeqAck, seq, rest
<1> QED BY <1>1, <1>2, <1>3, <1>4 DEF Notify, Number

\* The packets a header tells of can be counted.
LEMMA AckCountType ==
  ASSUME NEW n \in Notify, NEW header \in Header
  PROVE  AckCount(n, header) \in Nat
<1>1. n.OutAckSeq \in Int /\ header.AckedSeq \in Int
  BY DEF Notify, Header, Number
<1> QED BY <1>1, SeqDiffType, HalfType DEF AckCount

\* ProcessReceivedAcks returns an FNetPacketNotify.
LEMMA ProcessReceivedAcksType ==
  ASSUME NEW n \in Notify, NEW header \in Header
  PROVE  ProcessReceivedAcks(n, header) \in Notify
<1> DEFINE count == AckCount(n, header)
           m == UpdateInAckSeqAck(n, count)
           seq == n.OutAckSeq + count
<1>1. count \in Nat /\ n.OutAckSeq \in Int
  BY AckCountType DEF Notify, Number
<1>2. count # 0 => m \in Notify
  BY <1>1, UpdateInAckSeqAckType
<1>3. ProcessReceivedAcks(n, header) =
        IF count = 0 THEN n
        ELSE [m EXCEPT !.OutAckSeq = seq,
                       !.WaitingForFlushSeqAck =
                          IF SeqGt(seq, m.WaitingForFlushSeqAck)
                          THEN seq ELSE m.WaitingForFlushSeqAck]
  BY DEF ProcessReceivedAcks
<1> HIDE DEF count, m
<1>4. CASE count = 0
  BY <1>3, <1>4
<1>5. CASE count # 0
  <2>1. m \in Notify /\ seq \in Int
    BY <1>1, <1>2, <1>5
  <2> HIDE DEF seq
  <2> QED BY <1>3, <1>5, <2>1 DEF Notify, Number
<1> QED BY <1>4, <1>5

\* CheckOvershoot returns an FNetPacketNotify.
LEMMA CheckOvershootType ==
  ASSUME NEW n \in Notify, NEW seq \in Int
  PROVE  CheckOvershoot(n, seq) \in Notify
BY DEF CheckOvershoot, Notify, Number

\* NewInSeqToAck returns a number.
LEMMA NewInSeqToAckType ==
  ASSUME NEW n \in Notify, NEW seq \in Int
  PROVE  NewInSeqToAck(n, seq) \in Int
BY CurrentHistoryLengthType, Constants DEF NewInSeqToAck, Notify, Number

\* TakeSequence returns an FNetPacketNotify.
LEMMA TakeSequenceType ==
  ASSUME NEW n \in Notify, NEW seq \in Int
  PROVE  TakeSequence(n, seq) \in Notify
<1> DEFINE new == NewInSeqToAck(n, seq)
           m == [n EXCEPT !.InSeq = @ + SeqDiff(new, n.InSeq)]
<1>1. new \in Int /\ n.InSeq \in Int
  BY NewInSeqToAckType DEF Notify, Number
<1>2. m \in Notify
  BY <1>1, SeqDiffType DEF Notify, Number
<1>3. AckSeq(m, new, FALSE) \in Notify
  BY <1>1, <1>2, AckSeqType
<1>4. [n EXCEPT !.InSeq = seq] \in Notify
  BY DEF Notify, Number
<1> QED BY <1>3, <1>4 DEF TakeSequence

\* GetSequenceDelta is never negative.
LEMMA GetSequenceDeltaType ==
  ASSUME NEW n \in Notify, NEW header \in Header
  PROVE  GetSequenceDelta(n, header) \in Nat
<1>1. n.InSeq \in Int /\ header.Seq \in Int
  BY DEF Notify, Header, Number
<1> QED BY <1>1, SeqDiffType, HalfType DEF GetSequenceDelta

\* Update returns an FNetPacketNotify.
LEMMA UpdateType ==
  ASSUME NEW n \in Notify, NEW header \in Header
  PROVE  Update(n, header) \in Notify
<1>1. n.InSeq + GetSequenceDelta(n, header) \in Int
  BY GetSequenceDeltaType DEF Notify, Number
<1> QED BY <1>1, ProcessReceivedAcksType, CheckOvershootType, TakeSequenceType
        DEF Update, InternalUpdate

-----------------------------------------------------------------------------
(* What the operators compute from numbers that are not too far apart      *)

\* A packet that the peer may not know about is in the part of the history
\* in use.
LEMMA IndexInHistory ==
  ASSUME NEW n \in Notify, NEW i \in HistoryIndex,
         i < n.InAckSeq - n.InAckSeqAck,
         n.InAckSeq - n.InAckSeqAck <= SeqNumberHalf
  PROVE  i < CurrentHistoryLength(n)
<1>1. /\ n.InAckSeq \in Int /\ n.InAckSeqAck \in Int
      /\ i \in Nat /\ i < MaxSequenceHistoryLength
  BY Constants DEF Notify, Number, HistoryIndex
<1>2. CASE n.InAckSeq - n.InAckSeqAck = SeqNumberHalf
  <2>1. ~SeqGeq(n.InAckSeq, n.InAckSeqAck)
    BY <1>1, <1>2, SeqOpposite
  <2> QED BY <1>1, <2>1 DEF CurrentHistoryLength
<1>3. CASE n.InAckSeq - n.InAckSeqAck < SeqNumberHalf
  <2>1. SeqDiff(n.InAckSeq, n.InAckSeqAck) = n.InAckSeq - n.InAckSeqAck
    BY <1>1, <1>3, SeqNear, HalfType
  <2> QED BY <1>1, <2>1, Constants DEF CurrentHistoryLength, Lesser
<1> QED BY <1>1, <1>2, <1>3, HalfType

\* AckSeq, for a number not too far ahead, records every packet up to it.
LEMMA AckSeqExact ==
  ASSUME NEW n \in Notify, NEW seq \in Int, NEW isAck \in BOOLEAN,
         n.InAckSeq <= seq, seq - n.InAckSeq < SeqNumberHalf
  PROVE  LET m == AckSeq(n, seq, isAck) IN
         /\ m.InAckSeq = seq
         /\ m.InSeqHistory =
              AddDeliveryStatuses(n.InSeqHistory, seq - n.InAckSeq, isAck)
         /\ m.AckRecord = n.AckRecord
         /\ m.WrittenInAckSeq = n.WrittenInAckSeq
         /\ m.InSeq = n.InSeq
         /\ m.InAckSeqAck = n.InAckSeqAck
         /\ m.WaitingForFlushSeqAck = n.WaitingForFlushSeqAck
         /\ m.OutSeq = n.OutSeq
         /\ m.OutAckSeq = n.OutAckSeq
<1> DEFINE count == IF SeqGt(seq, n.InAckSeq) THEN SeqDiff(seq, n.InAckSeq) ELSE 0
<1>1. n.InAckSeq \in Int
  BY DEF Notify, Number
<1>2. count = seq - n.InAckSeq
  <2>1. /\ SeqGt(seq, n.InAckSeq) <=> seq > n.InAckSeq
        /\ SeqDiff(seq, n.InAckSeq) = seq - n.InAckSeq
    <3>1. n.InAckSeq - seq <= SeqNumberHalf
      BY <1>1, HalfType
    <3> QED BY <1>1, <3>1, SeqNear
  <2> QED BY <1>1, <2>1
<1>3. AckSeq(n, seq, isAck) =
        [n EXCEPT !.InAckSeq = n.InAckSeq + count,
                  !.InSeqHistory = AddDeliveryStatuses(n.InSeqHistory, count, isAck)]
  BY DEF AckSeq, count
<1> HIDE DEF count
<1>4. n.InAckSeq + count = seq
  BY <1>1, <1>2
<1> QED BY <1>2, <1>3, <1>4 DEF Notify

\* A header that acknowledges packets in flight, and a record that is not too
\* far behind it: the conditions under which its acknowledgements are
\* processed as they were meant.
AcksInRange(n, header) ==
  /\ n.OutAckSeq <= header.AckedSeq
  /\ header.AckedSeq < n.OutSeq
  /\ n.OutSeq - n.OutAckSeq < SeqNumberHalf
  /\ Len(n.AckRecord) = n.OutSeq - 1 - n.OutAckSeq
  /\ \A i \in DOMAIN n.AckRecord :
       /\ n.AckRecord[i].OutSeq = n.OutAckSeq + i
       /\ n.AckRecord[i].InAckSeq <= n.InSeq
       /\ header.Seq - n.AckRecord[i].InAckSeq <= SeqNumberHalf
  /\ n.InAckSeqAck <= n.InSeq
  /\ n.InSeq < header.Seq
  /\ header.Seq - n.InAckSeqAck <= SeqNumberHalf

\* InAckSeqAck of an endpoint after it processed the acks of a header: as
\* before, or what the record has for the packet the header acknowledges.
AckKnown(n, header, ack) ==
  \/ ack = n.InAckSeqAck
  \/ \E i \in DOMAIN n.AckRecord : /\ n.AckRecord[i].OutSeq = header.AckedSeq
                                   /\ n.AckRecord[i].InAckSeq = ack

\* ProcessReceivedAcks, for an acknowledgement of a packet in flight, drops
\* the acknowledged packets from the record and takes what the last of them
\* acknowledged as known to the peer.
LEMMA ProcessReceivedAcksExact ==
  ASSUME NEW n \in Notify, NEW header \in Header, AcksInRange(n, header)
  PROVE  LET m == ProcessReceivedAcks(n, header)
             count == header.AckedSeq - n.OutAckSeq
         IN
         /\ AckCount(n, header) = count
         /\ m.OutAckSeq = header.AckedSeq
         /\ m.AckRecord = SubSeq(n.AckRecord, count + 1, Len(n.AckRecord))
         /\ m.InAckSeqAck >= n.InAckSeqAck
         /\ m.InAckSeqAck <= n.InSeq
         /\ AckKnown(n, header, m.InAckSeqAck)
         /\ m.WrittenInAckSeq = n.WrittenInAckSeq
         /\ m.InSeqHistory = n.InSeqHistory
         /\ m.InSeq = n.InSeq
         /\ m.InAckSeq = n.InAckSeq
         /\ m.OutSeq = n.OutSeq
<1> DEFINE count == header.AckedSeq - n.OutAckSeq
           m == ProcessReceivedAcks(n, header)
           record == n.AckRecord
<1>1. /\ n.OutAckSeq \in Int /\ n.OutSeq \in Int /\ header.AckedSeq \in Int
      /\ n.InAckSeqAck \in Int /\ n.WaitingForFlushSeqAck \in Int
      /\ header.Seq \in Int /\ n.InSeq \in Int /\ record \in Seq(SentAck)
  BY DEF Notify, Header, Number
<1>2. /\ n.InAckSeqAck <= n.InSeq /\ n.InSeq < header.Seq
      /\ header.Seq - n.InAckSeqAck <= SeqNumberHalf
  BY DEF AcksInRange
<1>3. count \in 0 .. Len(record) /\ count < SeqNumberHalf
  BY <1>1, HalfType DEF AcksInRange
<1>4. AckCount(n, header) = count
  <2>1. /\ SeqGt(header.AckedSeq, n.OutAckSeq) <=> header.AckedSeq > n.OutAckSeq
        /\ SeqDiff(header.AckedSeq, n.OutAckSeq) = count
    <3>1. /\ header.AckedSeq - n.OutAckSeq < SeqNumberHalf
          /\ n.OutAckSeq - header.AckedSeq <= SeqNumberHalf
      BY <1>1, <1>3, HalfType
    <3> QED BY <1>1, <3>1, SeqNear
  <2> QED BY <1>1, <1>3, <2>1 DEF AckCount
<1>5. CASE count = 0
  <2>1. m = n
    BY <1>4, <1>5 DEF ProcessReceivedAcks
  <2>2. SubSeq(record, count + 1, Len(record)) = record
    BY <1>1, <1>5
  <2>3. header.AckedSeq = n.OutAckSeq
    BY <1>1, <1>5
  <2>4. m.InAckSeqAck >= n.InAckSeqAck /\ m.InAckSeqAck <= n.InSeq
    BY <1>1, <2>1 DEF AcksInRange
  <2> QED BY <1>4, <2>1, <2>2, <2>3, <2>4 DEF AckKnown
<1>6. CASE count # 0
  <2> DEFINE seq == record[count].InAckSeq
             ack == IF SeqGt(seq, n.InAckSeqAck) THEN seq ELSE n.InAckSeqAck
  <2>1. count \in DOMAIN record /\ count \in Nat \ {0}
    BY <1>1, <1>3, <1>6
  <2>2. /\ record[count].OutSeq = header.AckedSeq
        /\ seq \in Int /\ seq <= n.InSeq
        /\ header.Seq - seq <= SeqNumberHalf
    <3>1. seq \in Int
      <4>1. record[count] \in SentAck
        BY <1>1, <2>1
      <4> QED BY <4>1 DEF SentAck, Number
    <3>2. record[count].OutSeq = n.OutAckSeq + count
      BY <2>1 DEF AcksInRange
    <3>3. seq <= n.InSeq /\ header.Seq - seq <= SeqNumberHalf
      BY <2>1 DEF AcksInRange
    <3> QED BY <1>1, <3>1, <3>2, <3>3
  <2>3. AckRecordMatches(n, count)
    <3>1. SeqEq(header.AckedSeq, header.AckedSeq)
      BY <1>1, SeqNear, HalfType, TwiceHalf
    <3>2. n.OutAckSeq + count = header.AckedSeq
      BY <1>1
    <3> QED BY <1>3, <2>2, <3>1, <3>2 DEF AckRecordMatches
  <2>4. SeqGt(seq, n.InAckSeqAck) <=> seq > n.InAckSeqAck
    <3>1. seq - n.InAckSeqAck < SeqNumberHalf /\ n.InAckSeqAck - seq <= SeqNumberHalf
      BY <1>1, <1>2, <2>2, HalfType
    <3> QED BY <1>1, <2>2, <3>1, SeqNear
  <2>5. /\ ack >= n.InAckSeqAck /\ ack <= n.InSeq
        /\ AckKnown(n, header, ack)
    <3>1. ack >= n.InAckSeqAck /\ ack <= n.InSeq
      BY <1>1, <1>2, <2>2, <2>4
    <3>2. AckKnown(n, header, ack)
      BY <2>1, <2>2 DEF AckKnown
    <3> QED BY <3>1, <3>2
  <2>6. UpdateInAckSeqAck(n, count) =
          [n EXCEPT !.AckRecord = SubSeq(n.AckRecord, count + 1, Len(n.AckRecord)),
                    !.InAckSeqAck = ack]
    BY <1>3, <2>1, <2>3 DEF UpdateInAckSeqAck
  <2>7. n.OutAckSeq + count = header.AckedSeq
    BY <1>1
  <2> DEFINE u == UpdateInAckSeqAck(n, count)
             flush == IF SeqGt(header.AckedSeq, u.WaitingForFlushSeqAck)
                      THEN header.AckedSeq ELSE u.WaitingForFlushSeqAck
  <2>8. m = [u EXCEPT !.OutAckSeq = header.AckedSeq,
                      !.WaitingForFlushSeqAck = flush]
    BY <1>4, <1>6, <2>7 DEF ProcessReceivedAcks
  <2> HIDE DEF u, ack, flush
  <2>9. /\ u.AckRecord = SubSeq(n.AckRecord, count + 1, Len(n.AckRecord))
        /\ u.InAckSeqAck = ack
        /\ u.WrittenInAckSeq = n.WrittenInAckSeq
        /\ u.InSeqHistory = n.InSeqHistory
        /\ u.InSeq = n.InSeq /\ u.InAckSeq = n.InAckSeq /\ u.OutSeq = n.OutSeq
        /\ u \in Notify
    BY <2>1, <2>6, UpdateInAckSeqAckType DEF Notify, u
  <2> HIDE DEF m
  <2>10. /\ m.OutAckSeq = header.AckedSeq
         /\ m.AckRecord = u.AckRecord
         /\ m.InAckSeqAck = u.InAckSeqAck
         /\ m.WrittenInAckSeq = u.WrittenInAckSeq
         /\ m.InSeqHistory = u.InSeqHistory
         /\ m.InSeq = u.InSeq /\ m.InAckSeq = u.InAckSeq /\ m.OutSeq = u.OutSeq
    BY <2>8, <2>9 DEF Notify
  <2> QED BY <1>4, <2>5, <2>9, <2>10 DEF m
<1> QED BY <1>5, <1>6

\* An acknowledgement that is in the history and not known to have arrived
\* keeps CheckOvershoot from resetting the history.
LEMMA UnacknowledgedAck ==
  ASSUME NEW n \in Notify, NEW i \in HistoryIndex,
         i < n.InAckSeq - n.InAckSeqAck,
         n.InAckSeq - n.InAckSeqAck <= SeqNumberHalf,
         n.InSeqHistory[i]
  PROVE  HasUnacknowledgedAcks(n)
BY IndexInHistory DEF HasUnacknowledgedAcks

\* WillSequenceFit compares numbers that are not too far apart truly.
LEMMA WillSequenceFitExact ==
  ASSUME NEW n \in Notify, NEW seq \in Int,
         n.InAckSeqAck < seq, seq - n.InAckSeqAck <= SeqNumberHalf
  PROVE  WillSequenceFit(n, seq) <=>
           seq - n.InAckSeqAck <= MaxSequenceHistoryLength
<1>1. n.InAckSeqAck \in Int
  BY DEF Notify, Number
<1>2. CASE seq - n.InAckSeqAck = SeqNumberHalf
  <2>1. ~SeqGeq(seq, n.InAckSeqAck)
    BY <1>1, <1>2, SeqOpposite
  <2> QED BY <1>1, <1>2, <2>1, Constants, HalfType DEF WillSequenceFit
<1>3. CASE seq - n.InAckSeqAck < SeqNumberHalf
  <2>1. /\ SeqGeq(seq, n.InAckSeqAck)
        /\ SeqDiff(seq, n.InAckSeqAck) = seq - n.InAckSeqAck
    <3>1. n.InAckSeqAck - seq <= SeqNumberHalf
      BY <1>1, HalfType
    <3> QED BY <1>1, <1>3, <3>1, SeqNear
  <2> QED BY <2>1 DEF WillSequenceFit
<1> QED BY <1>1, <1>2, <1>3, HalfType

\* A history is only reset when it has no acknowledgement left to give, and
\* a packet that will not be ignored fits into it.
LEMMA CheckOvershootExact ==
  ASSUME NEW n \in Notify, NEW seq \in Int,
         n.InAckSeqAck < seq, seq - n.InAckSeqAck <= SeqNumberHalf,
         n.OutAckSeq < n.OutSeq, n.OutSeq - n.OutAckSeq < SeqNumberHalf
  PROVE  LET m == CheckOvershoot(n, seq) IN
         /\ \/ m.InAckSeqAck = n.InAckSeqAck
            \/ /\ m.InAckSeqAck = seq - 1
               /\ ~HasUnacknowledgedAcks(n)
               /\ ~IsWaitingForFlush(m)
         /\ ~IsWaitingForFlush(m) =>
              /\ m.InAckSeqAck < seq
              /\ seq - m.InAckSeqAck <= MaxSequenceHistoryLength
         /\ m.AckRecord = n.AckRecord
         /\ m.WrittenInAckSeq = n.WrittenInAckSeq
         /\ m.InSeqHistory = n.InSeqHistory
         /\ m.InSeq = n.InSeq
         /\ m.InAckSeq = n.InAckSeq
         /\ m.OutSeq = n.OutSeq
         /\ m.OutAckSeq = n.OutAckSeq
<1> DEFINE m == CheckOvershoot(n, seq)
<1>1. /\ n.InAckSeqAck \in Int /\ n.OutSeq \in Int /\ n.OutAckSeq \in Int
      /\ MaxSequenceHistoryLength \in Nat /\ MaxSequenceHistoryLength >= 1
  BY Constants DEF Notify, Number
<1>2. CASE IsWaitingForFlush(n)
  BY <1>2 DEF CheckOvershoot
<1>3. CASE ~IsWaitingForFlush(n) /\ WillSequenceFit(n, seq)
  <2>1. m = n
    BY <1>3 DEF CheckOvershoot
  <2>2. seq - n.InAckSeqAck <= MaxSequenceHistoryLength
    BY <1>3, WillSequenceFitExact
  <2> QED BY <2>1, <2>2
<1>4. CASE ~IsWaitingForFlush(n) /\ ~WillSequenceFit(n, seq) /\ HasUnacknowledgedAcks(n)
  <2>1. m = [n EXCEPT !.WaitingForFlushSeqAck = n.OutSeq]
    BY <1>4 DEF CheckOvershoot
  <2>2. SeqGt(n.OutSeq, n.OutAckSeq)
    <3>1. n.OutAckSeq - n.OutSeq <= SeqNumberHalf
      BY <1>1, HalfType
    <3> QED BY <1>1, <3>1, SeqNear
  <2>3. IsWaitingForFlush(m)
    BY <2>1, <2>2 DEF IsWaitingForFlush, Notify
  <2> HIDE DEF m
  <2> QED BY <2>1, <2>3 DEF m, Notify
<1>5. CASE ~IsWaitingForFlush(n) /\ ~WillSequenceFit(n, seq) /\ ~HasUnacknowledgedAcks(n)
  <2>1. m = [n EXCEPT !.InAckSeqAck = seq - 1]
    BY <1>5 DEF CheckOvershoot
  <2>2. ~IsWaitingForFlush(m)
    BY <1>5, <2>1 DEF IsWaitingForFlush, Notify
  <2>3. m.InAckSeqAck = seq - 1
    BY <2>1 DEF Notify
  <2>4. m.InAckSeqAck < seq /\ seq - m.InAckSeqAck <= MaxSequenceHistoryLength
    BY <1>1, <2>3
  <2> QED BY <1>5, <2>1, <2>2, <2>3, <2>4 DEF Notify
<1> QED BY <1>2, <1>3, <1>4, <1>5

\* A packet that is ignored is recorded as lost, as far as the history has
\* room without dropping an acknowledgement.
LEMMA TakeSequenceExact ==
  ASSUME NEW n \in Notify, NEW seq \in Int,
         n.InSeq < seq, seq - n.InSeq < SeqNumberHalf,
         seq - n.InAckSeqAck <= SeqNumberHalf,
         n.InAckSeq = n.InSeq,
         IsWaitingForFlush(n) => n.InAckSeqAck <= n.InSeq
  PROVE  LET m == TakeSequence(n, seq) IN
         /\ ~IsWaitingForFlush(n) =>
              /\ m.InSeq = seq
              /\ m.InAckSeq = n.InAckSeq
              /\ m.InSeqHistory = n.InSeqHistory
         /\ IsWaitingForFlush(n) =>
              /\ m.InSeq \in n.InSeq .. seq
              /\ m.InAckSeq = m.InSeq
              /\ m.InSeqHistory =
                   AddDeliveryStatuses(n.InSeqHistory, m.InSeq - n.InSeq, FALSE)
              /\ \/ m.InSeq = n.InSeq
                 \/ m.InSeq - n.InAckSeqAck <= MaxSequenceHistoryLength
                 \/ ~HasUnacknowledgedAcks(n)
         /\ m.AckRecord = n.AckRecord
         /\ m.WrittenInAckSeq = n.WrittenInAckSeq
         /\ m.InAckSeqAck = n.InAckSeqAck
         /\ m.WaitingForFlushSeqAck = n.WaitingForFlushSeqAck
         /\ m.OutSeq = n.OutSeq
         /\ m.OutAckSeq = n.OutAckSeq
<1> DEFINE m == TakeSequence(n, seq)
           new == NewInSeqToAck(n, seq)
<1>1. /\ n.InSeq \in Int /\ n.InAckSeqAck \in Int /\ n.InAckSeq \in Int
      /\ n.InSeqHistory \in History
  BY DEF Notify, Number
<1>2. CASE ~IsWaitingForFlush(n)
  <2>1. m = [n EXCEPT !.InSeq = seq]
    BY <1>2 DEF TakeSequence
  <2> QED BY <1>2, <2>1 DEF Notify
<1>3. CASE IsWaitingForFlush(n)
  <2>1. /\ new \in Int /\ new <= seq
        /\ new - n.InSeq < SeqNumberHalf
        /\ n.InSeq - new <= SeqNumberHalf
        /\ \/ new - n.InAckSeqAck <= MaxSequenceHistoryLength
           \/ ~HasUnacknowledgedAcks(n)
    <3>1. CASE ~WillSequenceFit(n, seq) /\ HasUnacknowledgedAcks(n)
      <4>1. seq - n.InAckSeqAck > MaxSequenceHistoryLength
        <5>1. n.InAckSeqAck < seq
          BY <1>1, <1>3
        <5>2. ~(seq - n.InAckSeqAck <= MaxSequenceHistoryLength)
          BY <3>1, <5>1, WillSequenceFitExact
        <5> QED BY <1>1, <5>2, Constants
      <4>2. PICK c \in 0 .. MaxSequenceHistoryLength :
              new = n.InAckSeqAck + (MaxSequenceHistoryLength - c)
        BY <3>1, CurrentHistoryLengthType DEF NewInSeqToAck
      <4> HIDE DEF new
      <4> QED BY <1>1, <1>3, <4>1, <4>2, Constants, HalfType
    <3>2. CASE WillSequenceFit(n, seq) \/ ~HasUnacknowledgedAcks(n)
      <4>1. new = seq
        BY <3>2 DEF NewInSeqToAck
      <4>2. WillSequenceFit(n, seq) =>
              seq - n.InAckSeqAck <= MaxSequenceHistoryLength
        <5>1. n.InAckSeqAck < seq
          BY <1>1, <1>3
        <5> QED BY <5>1, WillSequenceFitExact
      <4>3. n.InSeq - seq <= SeqNumberHalf
        BY <1>1, HalfType
      <4> QED BY <3>2, <4>1, <4>2, <4>3
    <3> QED BY <3>1, <3>2
  <2> HIDE DEF new
  <2>2. /\ SeqGeq(new, n.InSeq) <=> new >= n.InSeq
        /\ SeqDiff(new, n.InSeq) = new - n.InSeq
    BY <1>1, <2>1, SeqNear
  <2>3. CASE new >= n.InSeq
    <3> DEFINE u == [n EXCEPT !.InSeq = n.InSeq + SeqDiff(new, n.InSeq)]
    <3>1. m = AckSeq(u, new, FALSE)
      BY <1>3, <2>2, <2>3 DEF TakeSequence, new
    <3>2. n.InSeq + SeqDiff(new, n.InSeq) = new
      BY <1>1, <2>1, <2>2
    <3>3. u \in Notify /\ u.InSeq = new /\ u.InAckSeq = n.InSeq
      BY <2>1, <3>2 DEF Notify, Number
    <3>4. /\ u.InSeqHistory = n.InSeqHistory
          /\ u.AckRecord = n.AckRecord
          /\ u.WrittenInAckSeq = n.WrittenInAckSeq
          /\ u.InAckSeqAck = n.InAckSeqAck
          /\ u.WaitingForFlushSeqAck = n.WaitingForFlushSeqAck
          /\ u.OutSeq = n.OutSeq
          /\ u.OutAckSeq = n.OutAckSeq
      BY DEF Notify
    <3> HIDE DEF u
    <3>5. /\ m.InAckSeq = new
          /\ m.InSeqHistory = AddDeliveryStatuses(u.InSeqHistory, new - n.InSeq, FALSE)
          /\ m.AckRecord = u.AckRecord
          /\ m.WrittenInAckSeq = u.WrittenInAckSeq
          /\ m.InSeq = u.InSeq
          /\ m.InAckSeqAck = u.InAckSeqAck
          /\ m.WaitingForFlushSeqAck = u.WaitingForFlushSeqAck
          /\ m.OutSeq = u.OutSeq
          /\ m.OutAckSeq = u.OutAckSeq
      <4>1. u.InAckSeq <= new /\ new - u.InAckSeq < SeqNumberHalf
        BY <2>1, <2>3, <3>3
      <4> DEFINE v == AckSeq(u, new, FALSE)
      <4>2. /\ v.InAckSeq = new
            /\ v.InSeqHistory =
                 AddDeliveryStatuses(u.InSeqHistory, new - u.InAckSeq, FALSE)
            /\ v.AckRecord = u.AckRecord
            /\ v.WrittenInAckSeq = u.WrittenInAckSeq
            /\ v.InSeq = u.InSeq
            /\ v.InAckSeqAck = u.InAckSeqAck
            /\ v.WaitingForFlushSeqAck = u.WaitingForFlushSeqAck
            /\ v.OutSeq = u.OutSeq
            /\ v.OutAckSeq = u.OutAckSeq
        BY <2>1, <3>3, <4>1, AckSeqExact
      <4> HIDE DEF m, v
      <4>3. m = v
        BY <3>1 DEF v
      <4> QED BY <3>3, <4>2, <4>3
    <3>6. m.InSeq \in n.InSeq .. seq
      BY <1>1, <2>1, <2>3, <3>3, <3>5
    <3> QED BY <1>3, <2>1, <3>3, <3>4, <3>5, <3>6
  <2>4. CASE ~(new >= n.InSeq)
    <3>1. m = n
      BY <1>3, <2>2, <2>4 DEF TakeSequence, new
    <3>2. AddDeliveryStatuses(n.InSeqHistory, m.InSeq - n.InSeq, FALSE) = n.InSeqHistory
      <4>1. m.InSeq - n.InSeq = 0
        BY <1>1, <3>1
      <4>2. \A i \in HistoryIndex : i \in Nat /\ i >= 0 /\ i - 0 = i
        BY Constants DEF HistoryIndex
      <4> QED BY <1>1, <4>1, <4>2 DEF AddDeliveryStatuses, History
    <3>3. m.InSeq \in n.InSeq .. seq
      BY <1>1, <3>1
    <3> QED BY <1>3, <3>1, <3>2, <3>3
  <2> QED BY <2>3, <2>4
<1> QED BY <1>2, <1>3

\* The whole of Update, for a header in sequence.
LEMMA UpdateExact ==
  ASSUME NEW n \in Notify, NEW header \in Header, AcksInRange(n, header),
         n.InAckSeq = n.InSeq,
         header.Seq - n.InSeq < SeqNumberHalf,
         GetSequenceDelta(n, header) = header.Seq - n.InSeq
  PROVE  LET m == Update(n, header) IN
         /\ m.OutAckSeq = header.AckedSeq
         /\ m.AckRecord = SubSeq(n.AckRecord, header.AckedSeq - n.OutAckSeq + 1,
                                 Len(n.AckRecord))
         /\ m.WrittenInAckSeq = n.WrittenInAckSeq
         /\ m.OutSeq = n.OutSeq
         /\ IF IsWaitingForFlush(m)
            THEN /\ m.InSeq \in n.InSeq .. header.Seq
                 /\ m.InAckSeq = m.InSeq
                 /\ m.InSeqHistory =
                      AddDeliveryStatuses(n.InSeqHistory, m.InSeq - n.InSeq, FALSE)
            ELSE /\ m.InSeq = header.Seq
                 /\ m.InAckSeq = n.InAckSeq
                 /\ m.InSeqHistory = n.InSeqHistory
                 /\ m.InAckSeqAck < header.Seq
                 /\ header.Seq - m.InAckSeqAck <= MaxSequenceHistoryLength
         /\ \E ack \in n.InAckSeqAck .. n.InSeq :
              /\ AckKnown(n, header, ack)
              /\ \/ m.InAckSeqAck = ack
                 \/ /\ m.InAckSeqAck = header.Seq - 1
                    /\ ~IsWaitingForFlush(m)
                    /\ \A i \in HistoryIndex :
                         n.InSeqHistory[i] => i >= n.InSeq - ack
              /\ IsWaitingForFlush(m) =>
                   \/ m.InSeq = n.InSeq
                   \/ m.InSeq - ack <= MaxSequenceHistoryLength
                   \/ \A i \in HistoryIndex :
                        n.InSeqHistory[i] => i >= n.InSeq - ack
<1> DEFINE a == ProcessReceivedAcks(n, header)
           b == CheckOvershoot(a, header.Seq)
           m == Update(n, header)
           ack == a.InAckSeqAck
<1>1. /\ n.InSeq \in Int /\ n.InAckSeqAck \in Int /\ header.Seq \in Int
      /\ n.OutSeq \in Int /\ n.OutAckSeq \in Int /\ header.AckedSeq \in Int
      /\ n.InSeqHistory \in History
  BY DEF Notify, Header, Number
<1>2. /\ n.InAckSeqAck <= n.InSeq /\ n.InSeq < header.Seq
       /\ header.Seq - n.InAckSeqAck <= SeqNumberHalf
       /\ header.AckedSeq < n.OutSeq /\ n.OutAckSeq <= header.AckedSeq
       /\ n.OutSeq - n.OutAckSeq < SeqNumberHalf
  BY DEF AcksInRange
<1>3. a \in Notify /\ ack \in Int
  <2>1. a \in Notify
    BY ProcessReceivedAcksType
  <2> QED BY <2>1 DEF Notify, Number
<1>4. /\ a.OutAckSeq = header.AckedSeq
      /\ a.AckRecord = SubSeq(n.AckRecord, header.AckedSeq - n.OutAckSeq + 1,
                              Len(n.AckRecord))
      /\ ack >= n.InAckSeqAck
      /\ ack <= n.InSeq
      /\ AckKnown(n, header, ack)
      /\ a.WrittenInAckSeq = n.WrittenInAckSeq
      /\ a.InSeqHistory = n.InSeqHistory
      /\ a.InSeq = n.InSeq
      /\ a.InAckSeq = n.InAckSeq
      /\ a.OutSeq = n.OutSeq
  BY ProcessReceivedAcksExact
<1>5. b \in Notify
  BY <1>1, <1>3, CheckOvershootType
<1>6. m = TakeSequence(b, header.Seq)
  BY <1>1 DEF Update, InternalUpdate
<1> HIDE DEF a, b, m
<1>7. /\ \/ b.InAckSeqAck = ack
         \/ /\ b.InAckSeqAck = header.Seq - 1
            /\ ~HasUnacknowledgedAcks(a)
            /\ ~IsWaitingForFlush(b)
      /\ ~IsWaitingForFlush(b) =>
           /\ b.InAckSeqAck < header.Seq
           /\ header.Seq - b.InAckSeqAck <= MaxSequenceHistoryLength
      /\ b.AckRecord = a.AckRecord
      /\ b.WrittenInAckSeq = a.WrittenInAckSeq
      /\ b.InSeqHistory = a.InSeqHistory
      /\ b.InSeq = a.InSeq
      /\ b.InAckSeq = a.InAckSeq
      /\ b.OutSeq = a.OutSeq
      /\ b.OutAckSeq = a.OutAckSeq
  <2>1. /\ ack < header.Seq /\ header.Seq - ack <= SeqNumberHalf
        /\ a.OutAckSeq < a.OutSeq /\ a.OutSeq - a.OutAckSeq < SeqNumberHalf
    <3>1. ack < header.Seq /\ header.Seq - ack <= SeqNumberHalf
      <4>1. ack >= n.InAckSeqAck /\ ack <= n.InSeq
        BY <1>4
      <4> HIDE DEF ack
      <4> QED BY <1>1, <1>2, <1>3, <4>1, HalfType
    <3>2. header.AckedSeq < n.OutSeq /\ n.OutSeq - header.AckedSeq < SeqNumberHalf
      BY <1>1, <1>2, HalfType
    <3> QED BY <1>4, <3>1, <3>2
  <2> QED BY <1>1, <1>3, <2>1, CheckOvershootExact DEF b
<1>8. /\ ~IsWaitingForFlush(b) =>
           /\ m.InSeq = header.Seq
           /\ m.InAckSeq = b.InAckSeq
           /\ m.InSeqHistory = b.InSeqHistory
      /\ IsWaitingForFlush(b) =>
           /\ m.InSeq \in b.InSeq .. header.Seq
           /\ m.InAckSeq = m.InSeq
           /\ m.InSeqHistory =
                AddDeliveryStatuses(b.InSeqHistory, m.InSeq - b.InSeq, FALSE)
           /\ \/ m.InSeq = b.InSeq
              \/ m.InSeq - b.InAckSeqAck <= MaxSequenceHistoryLength
              \/ ~HasUnacknowledgedAcks(b)
      /\ m.AckRecord = b.AckRecord
      /\ m.WrittenInAckSeq = b.WrittenInAckSeq
      /\ m.InAckSeqAck = b.InAckSeqAck
      /\ m.WaitingForFlushSeqAck = b.WaitingForFlushSeqAck
      /\ m.OutSeq = b.OutSeq
      /\ m.OutAckSeq = b.OutAckSeq
  <2>1. /\ b.InSeq < header.Seq /\ header.Seq - b.InSeq < SeqNumberHalf
        /\ b.InAckSeq = b.InSeq
    BY <1>4, <1>7 DEF AcksInRange
  <2>2. /\ header.Seq - b.InAckSeqAck <= SeqNumberHalf
        /\ IsWaitingForFlush(b) => b.InAckSeqAck <= b.InSeq
    <3>1. CASE b.InAckSeqAck = ack
      BY <1>1, <1>3, <1>4, <1>7, <1>2, <3>1, HalfType
    <3>2. CASE b.InAckSeqAck = header.Seq - 1 /\ ~IsWaitingForFlush(b)
      BY <1>1, <3>2, HalfType, TwiceHalf
    <3> QED BY <1>7, <3>1, <3>2
  <2> QED BY <1>1, <1>5, <1>6, <2>1, <2>2, TakeSequenceExact
<1>9. IsWaitingForFlush(m) <=> IsWaitingForFlush(b)
  BY <1>8 DEF IsWaitingForFlush
<1>10. ASSUME NEW c \in Notify, c.InSeqHistory = n.InSeqHistory,
             c.InAckSeq = n.InSeq, c.InAckSeqAck = ack,
             ~HasUnacknowledgedAcks(c), NEW i \in HistoryIndex,
             n.InSeqHistory[i]
      PROVE  i >= n.InSeq - ack
  <2> SUFFICES ASSUME i < n.InSeq - ack PROVE FALSE
    BY <1>1, <1>3, Constants DEF HistoryIndex
  <2>1. c.InAckSeq - c.InAckSeqAck <= SeqNumberHalf
    BY <1>1, <1>3, <1>4, <1>10, <1>2, HalfType
  <2> QED BY <1>10, <2>1, UnacknowledgedAck
<1>11. \/ b.InAckSeqAck = ack
       \/ /\ b.InAckSeqAck = header.Seq - 1
          /\ ~IsWaitingForFlush(m)
          /\ \A i \in HistoryIndex : n.InSeqHistory[i] => i >= n.InSeq - ack
  BY <1>3, <1>4, <1>7, <1>9, <1>10
<1>12. IsWaitingForFlush(m) =>
         \/ m.InSeq = n.InSeq
         \/ m.InSeq - ack <= MaxSequenceHistoryLength
         \/ \A i \in HistoryIndex : n.InSeqHistory[i] => i >= n.InSeq - ack
  BY <1>4, <1>5, <1>7, <1>8, <1>9, <1>10
<1>13. ack \in n.InAckSeqAck .. n.InSeq
  BY <1>1, <1>3, <1>4
<1>14. \E k \in n.InAckSeqAck .. n.InSeq :
         /\ AckKnown(n, header, k)
         /\ \/ m.InAckSeqAck = k
            \/ /\ m.InAckSeqAck = header.Seq - 1
               /\ ~IsWaitingForFlush(m)
               /\ \A i \in HistoryIndex : n.InSeqHistory[i] => i >= n.InSeq - k
         /\ IsWaitingForFlush(m) =>
              \/ m.InSeq = n.InSeq
              \/ m.InSeq - k <= MaxSequenceHistoryLength
              \/ \A i \in HistoryIndex : n.InSeqHistory[i] => i >= n.InSeq - k
  BY <1>4, <1>8, <1>11, <1>12, <1>13
<1> QED BY <1>4, <1>7, <1>8, <1>9, <1>14 DEF m

-----------------------------------------------------------------------------
(* Type correctness                                                        *)

\* The initial states have the types.
LEMMA TypeInit == Init => TypeOK
<1> SUFFICES ASSUME Init PROVE TypeOK
  OBVIOUS
<1>1. EmptyHistory \in History
  BY DEF EmptyHistory, History
<1>2. ASSUME NEW in \in Int, NEW out \in Int PROVE InitNotify(in, out) \in Notify
  <2>1. << >> \in Seq(SentAck) /\ out - 1 \in Int /\ 0 \in 0 .. WordCount
    BY Constants
  <2> QED BY <1>1, <2>1 DEF InitNotify, Notify, Number
<1>3. \A e \in Endpoint : /\ FirstPacketId[e] \in Int
                          /\ FirstPacketId[e] - 1 \in Int
                          /\ FirstPacketId[Peer(e)] - 1 \in Int
  BY Constants, Endpoints
<1>4. notify \in [Endpoint -> Notify]
  BY <1>2, <1>3 DEF Init
<1>5. /\ SendBuffer \in [Endpoint -> Header \cup {NoHeader}]
      /\ InPacketId \in [Endpoint -> Number]
      /\ LastNotifiedPacketId \in [Endpoint -> Number]
      /\ dispatching \in [Endpoint -> BOOLEAN]
      /\ network \in [Endpoint -> SUBSET Header]
      /\ acked \in [Endpoint -> SUBSET Number]
      /\ acks \in [Endpoint -> SUBSET Number]
      /\ naks \in [Endpoint -> SUBSET Number]
  BY <1>3 DEF Init, Number
<1> QED BY <1>4, <1>5 DEF TypeOK

\* The empty send buffer is not a header.
LEMMA NoHeaderType == NoHeader \notin Header
BY DEF NoHeader, Header

\* Writing a header keeps the types.
LEMMA TypeStartPacket ==
  ASSUME TypeOK, NEW e \in Endpoint, StartPacket(e)
  PROVE  TypeOK'
<1> DEFINE n == notify[e]
           words == HistoryWordsNeeded(n)
<1>1. n \in Notify
  BY DEF TypeOK
<1>2. words \in 1 .. WordCount
  BY <1>1, HistoryWordsNeededType
<1> HIDE DEF n, words
<1>3. WriteHeader(n, words) \in Notify
  <2>1. words \in 0 .. WordCount
    BY <1>2, Constants
  <2> QED BY <1>1, <2>1 DEF WriteHeader, Notify
<1>4. HeaderOf(n, words) \in Header
  BY <1>1, <1>2, HeaderOfType
<1>5. /\ notify' = [notify EXCEPT ![e] = WriteHeader(n, words)]
      /\ SendBuffer' = [SendBuffer EXCEPT ![e] = HeaderOf(n, words)]
      /\ UNCHANGED <<InPacketId, LastNotifiedPacketId, dispatching, network,
                     acked, acks, naks>>
  BY DEF StartPacket, n, words
<1> QED BY <1>3, <1>4, <1>5 DEF TypeOK

\* Committing a number leaves an FNetPacketNotify.
LEMMA CommitType ==
  ASSUME NEW n \in Notify
  PROVE  CommitAndIncrementOutSeq(n) \in Notify
<1>1. /\ n.AckRecord \in Seq(SentAck) /\ n.OutSeq \in Int
      /\ n.WrittenInAckSeq \in Int
  BY DEF Notify, Number
<1>2. [OutSeq |-> n.OutSeq, InAckSeq |-> n.WrittenInAckSeq] \in SentAck
  BY <1>1 DEF SentAck, Number
<1>3. Append(n.AckRecord, [OutSeq |-> n.OutSeq, InAckSeq |-> n.WrittenInAckSeq])
        \in Seq(SentAck)
  BY <1>1, <1>2
<1>4. 0 \in 0 .. WordCount /\ n.OutSeq + 1 \in Int
  BY <1>1, Constants
<1> QED BY <1>3, <1>4 DEF CommitAndIncrementOutSeq, Notify, Number

\* The packet that FlushNet sends and the object it was written by.
LEMMA FlushedType ==
  ASSUME TypeOK, NEW e \in Endpoint, SendBuffer[e] # NoHeader
  PROVE  LET n == notify[e]
             words == n.WrittenHistoryWordCount
         IN  /\ HeaderToSend(e) \in Header
             /\ WriteHeader(n, words) \in Notify
             /\ CanRefresh(n) => HeaderOf(n, words) \in Header
<1> DEFINE n == notify[e]
           words == n.WrittenHistoryWordCount
<1>1. n \in Notify /\ SendBuffer[e] \in Header
  BY DEF TypeOK
<1>2. WriteHeader(n, words) \in Notify
  BY <1>1 DEF WriteHeader, Notify
<1>3. CanRefresh(n) => HeaderOf(n, words) \in Header
  <2>1. words \in 0 .. WordCount
    BY <1>1 DEF Notify
  <2>2. CanRefresh(n) => words \in 1 .. WordCount
    <3>1. HistoryWordsNeeded(n) \in 1 .. WordCount
      BY <1>1, HistoryWordsNeededType
    <3> HIDE DEF words
    <3> QED BY <2>1, <3>1, Constants DEF CanRefresh, words
  <2> HIDE DEF words
  <2> QED BY <1>1, <2>2, HeaderOfType
<1>4. HeaderToSend(e) \in Header
  BY <1>1, <1>3 DEF HeaderToSend
<1> QED BY <1>2, <1>3, <1>4

\* Sending a packet keeps the types.
LEMMA TypeFlushNet ==
  ASSUME TypeOK, NEW e \in Endpoint, FlushNet(e)
  PROVE  TypeOK'
<1> DEFINE n == notify[e]
           written == IF CanRefresh(n)
                      THEN WriteHeader(n, n.WrittenHistoryWordCount)
                      ELSE n
           sent == network[e] \cup {HeaderToSend(e)}
<1>1. written \in Notify /\ HeaderToSend(e) \in Header
  BY FlushedType DEF FlushNet, TypeOK
<1>2. CommitAndIncrementOutSeq(written) \in Notify
  BY <1>1, CommitType
<1>3. InTransit(sent, n.OutSeq + 1) \subseteq Header
  BY <1>1 DEF InTransit, TypeOK
<1>4. /\ network' = [network EXCEPT ![e] = InTransit(sent, n.OutSeq + 1)]
      /\ notify' = [notify EXCEPT ![e] = CommitAndIncrementOutSeq(written)]
      /\ SendBuffer' = [SendBuffer EXCEPT ![e] = NoHeader]
      /\ UNCHANGED <<InPacketId, LastNotifiedPacketId, dispatching, acked, acks,
                     naks>>
  BY DEF FlushNet
<1> HIDE DEF n, written, sent
<1> QED BY <1>2, <1>3, <1>4 DEF TypeOK

\* Receiving a packet keeps the types.
LEMMA TypeReceivedPacket ==
  ASSUME TypeOK, NEW e \in Endpoint, NEW header \in network[Peer(e)],
         ReceivedPacket(e, header)
  PROVE  TypeOK'
<1> DEFINE n == notify[e]
           count == AckCount(n, header)
           last == LastNotifiedPacketId[e]
           news == IF SeqEq(last, n.OutAckSeq) THEN last + 1 .. last + count ELSE {}
           updated == Update(n, header)
           delta == GetSequenceDelta(n, header)
           step == IF IsWaitingForFlush(updated) THEN updated.InSeq - n.InSeq
                                                 ELSE delta
<1>1. n \in Notify /\ header \in Header /\ last \in Int /\ InPacketId[e] \in Int
  BY Endpoints DEF TypeOK, Number
<1>2. count \in Nat
  BY <1>1, AckCountType
<1>3. updated \in Notify
  BY <1>1, UpdateType
<1>4. step \in Int
  <2>1. delta \in Nat
    BY <1>1, GetSequenceDeltaType
  <2>2. updated.InSeq \in Int /\ n.InSeq \in Int
    BY <1>1, <1>3 DEF Notify, Number
  <2> HIDE DEF delta, updated, n
  <2> QED BY <2>1, <2>2
<1>5. news \subseteq Int
  BY <1>1, <1>2
<1>6. /\ notify' = [notify EXCEPT ![e] = updated]
      /\ InPacketId' = [InPacketId EXCEPT ![e] = InPacketId[e] + step]
      /\ dispatching' = [dispatching EXCEPT ![e] = ~IsWaitingForFlush(updated)]
      /\ LastNotifiedPacketId' = [LastNotifiedPacketId EXCEPT ![e] = last + count]
      /\ UNCHANGED <<SendBuffer, network, acked>>
  BY DEF ReceivedPacket, HandleNotifications
<1>7. PICK told \in SUBSET news, lost \in SUBSET news :
        /\ acks' = [acks EXCEPT ![e] = @ \cup told]
        /\ naks' = [naks EXCEPT ![e] = @ \cup lost]
  <2> DEFINE Delivered(id) == IsDelivered(header, last + count - id)
  <2>1. /\ acks' = [acks EXCEPT ![e] = @ \cup {id \in news : Delivered(id)}]
        /\ naks' = [naks EXCEPT ![e] = @ \cup {id \in news : ~Delivered(id)}]
    BY DEF ReceivedPacket, HandleNotifications
  <2> HIDE DEF Delivered, news
  <2> QED BY <2>1
<1> HIDE DEF n, count, news, updated, step
<1>8. /\ notify' \in [Endpoint -> Notify]
      /\ SendBuffer' \in [Endpoint -> Header \cup {NoHeader}]
      /\ network' \in [Endpoint -> SUBSET Header]
      /\ acked' \in [Endpoint -> SUBSET Number]
  BY <1>3, <1>6 DEF TypeOK
<1>9. /\ InPacketId' \in [Endpoint -> Number]
      /\ LastNotifiedPacketId' \in [Endpoint -> Number]
  <2>1. InPacketId[e] + step \in Number /\ last + count \in Number
    BY <1>1, <1>2, <1>4 DEF Number
  <2> QED BY <1>6, <2>1 DEF TypeOK
<1>10. dispatching' \in [Endpoint -> BOOLEAN]
  <2>1. (~IsWaitingForFlush(updated)) \in BOOLEAN
    BY DEF IsWaitingForFlush, SeqGt
  <2> QED BY <1>6, <2>1 DEF TypeOK
<1>11. /\ acks' \in [Endpoint -> SUBSET Number]
       /\ naks' \in [Endpoint -> SUBSET Number]
  BY <1>5, <1>7 DEF TypeOK, Number
<1> QED BY <1>8, <1>9, <1>10, <1>11 DEF TypeOK

\* Acknowledging a packet keeps the types.
LEMMA TypeAcknowledgePacket ==
  ASSUME TypeOK, NEW e \in Endpoint, NEW bSkipAck \in BOOLEAN,
         AcknowledgePacket(e, bSkipAck)
  PROVE  TypeOK'
<1> DEFINE m == AckSeq(notify[e], InPacketId[e], ~bSkipAck)
           new == IF bSkipAck THEN acked[e] ELSE acked[e] \cup {InPacketId[e]}
<1>1. m \in Notify
  <2>1. notify[e] \in Notify /\ InPacketId[e] \in Int /\ (~bSkipAck) \in BOOLEAN
    BY DEF TypeOK, Number
  <2> QED BY <2>1, AckSeqType
<1>2. new \subseteq Number
  BY DEF TypeOK
<1>3. /\ notify' = [notify EXCEPT ![e] = m]
      /\ acked' = [acked EXCEPT ![e] = new]
      /\ dispatching' = [dispatching EXCEPT ![e] = FALSE]
      /\ UNCHANGED <<SendBuffer, InPacketId, LastNotifiedPacketId, network, acks,
                     naks>>
  BY DEF AcknowledgePacket
<1> HIDE DEF m, new
<1> QED BY <1>1, <1>2, <1>3 DEF TypeOK

\* Every step keeps the types.
LEMMA TypeStep == TypeOK /\ [Next]_vars => TypeOK'
<1> SUFFICES ASSUME TypeOK, [Next]_vars PROVE TypeOK'
  OBVIOUS
<1>1. CASE UNCHANGED vars
  BY <1>1 DEF vars, TypeOK
<1>2. CASE Next
  BY <1>2, TypeStartPacket, TypeFlushNet, TypeReceivedPacket,
     TypeAcknowledgePacket DEF Next
<1> QED BY <1>1, <1>2

\* The state of the packet layer is always of its type: no header is written
\* with no word of history or with more than there are.
THEOREM TypeCorrect == Spec => []TypeOK
BY TypeInit, TypeStep, PTL DEF Spec

-----------------------------------------------------------------------------
(* The invariant                                                           *)

\* The invariant holds at first.
LEMMA InvariantInit == Init => IInv
<1> SUFFICES ASSUME Init PROVE IInv
  OBVIOUS
<1>1. TypeOK
  BY TypeInit
<1>2. ASSUME NEW e \in Endpoint
      PROVE  LET n == notify[e] IN
             /\ n.AckRecord = << >> /\ n.InSeqHistory = EmptyHistory
             /\ n.InSeq = FirstPacketId[Peer(e)] - 1
             /\ n.InAckSeq = FirstPacketId[Peer(e)] - 1
             /\ n.InAckSeqAck = FirstPacketId[Peer(e)] - 1
             /\ n.OutSeq = FirstPacketId[e] /\ n.OutAckSeq = FirstPacketId[e] - 1
             /\ FirstPacketId[e] \in Int /\ FirstPacketId[Peer(e)] \in Int
             /\ SendBuffer[e] = NoHeader /\ network[e] = {} /\ acked[e] = {}
             /\ acks[e] = {} /\ naks[e] = {} /\ dispatching[e] = FALSE
             /\ InPacketId[e] = FirstPacketId[Peer(e)] - 1
             /\ LastNotifiedPacketId[e] = FirstPacketId[e] - 1
  BY Constants, Endpoints DEF Init, InitNotify
<1>3. ASSUME NEW e \in Endpoint
      PROVE  /\ Len(notify[e].AckRecord) = notify[e].OutSeq - 1 - notify[e].OutAckSeq
             /\ DOMAIN notify[e].AckRecord = {}
             /\ notify[Peer(e)].OutAckSeq <= notify[e].InAckSeq
             /\ notify[e].InAckSeq <= notify[e].InSeq
             /\ notify[e].InSeq < notify[Peer(e)].OutSeq
             /\ notify[e].InAckSeqAck <= notify[e].InSeq
             /\ notify[e].InSeq - notify[e].InAckSeqAck <= SeqNumberHalf
             /\ notify[e].OutAckSeq < notify[e].OutSeq
             /\ notify[e].OutSeq - notify[e].OutAckSeq <= MaxInFlight + 1
  <2> DEFINE first == FirstPacketId[e]
             other == FirstPacketId[Peer(e)]
  <2>1. first \in Int /\ other \in Int
    BY <1>2
  <2>2. /\ notify[Peer(e)].OutAckSeq = other - 1 /\ notify[Peer(e)].OutSeq = other
    BY <1>2, Endpoints
  <2>3. /\ notify[e].AckRecord = << >>
        /\ notify[e].InSeq = other - 1 /\ notify[e].InAckSeq = other - 1
        /\ notify[e].InAckSeqAck = other - 1
        /\ notify[e].OutSeq = first /\ notify[e].OutAckSeq = first - 1
    BY <1>2
  <2> HIDE DEF first, other
  <2> QED BY <2>1, <2>2, <2>3, HalfType, Constants
<1>4. CountersAgree /\ DispatchFits
  BY <1>2 DEF CountersAgree, DispatchFits
<1>5. AckRecordInFlight
  BY <1>3 DEF AckRecordInFlight
<1>6. NumbersInOrder
  BY <1>3 DEF NumbersInOrder
<1>7. InFlightBounded
  BY <1>2, <1>3 DEF InFlightBounded
<1>8. SendBufferAgrees /\ NetworkIsRecent /\ HeadersTruthful
  BY <1>2 DEF SendBufferAgrees, NetworkIsRecent, HeadersTruthful
<1>9. RecordIsKnown
  BY <1>3 DEF RecordIsKnown
<1>10. HistoryTruthful /\ ToldInOrder
  BY <1>2 DEF HistoryTruthful, ToldInOrder, EmptyHistory
<1>11. AcksStayInHistory /\ NotificationsAreTrue
  BY <1>2, Endpoints DEF AcksStayInHistory, NotificationsAreTrue
<1> QED BY <1>1, <1>4, <1>5, <1>6, <1>7, <1>8, <1>9, <1>10, <1>11 DEF IInv

\* The numbers of an endpoint, as the invariant bounds them.
LEMMA NumbersType ==
  ASSUME TypeOK, NEW e \in Endpoint
  PROVE  /\ notify[e] \in Notify
         /\ notify[e].InSeq \in Int /\ notify[e].InAckSeq \in Int
         /\ notify[e].InAckSeqAck \in Int /\ notify[e].OutSeq \in Int
         /\ notify[e].OutAckSeq \in Int /\ notify[e].WrittenInAckSeq \in Int
         /\ notify[e].AckRecord \in Seq(SentAck)
         /\ \A i \in DOMAIN notify[e].AckRecord :
              /\ i \in Nat
              /\ notify[e].AckRecord[i].OutSeq \in Int
              /\ notify[e].AckRecord[i].InAckSeq \in Int
         /\ InPacketId[e] \in Int /\ LastNotifiedPacketId[e] \in Int
         /\ notify[e].InSeqHistory \in History
         /\ acked[e] \subseteq Int /\ acks[e] \subseteq Int /\ naks[e] \subseteq Int
<1>1. notify[e] \in Notify
  BY DEF TypeOK
<1>2. /\ notify[e].InSeq \in Int /\ notify[e].InAckSeq \in Int
      /\ notify[e].InAckSeqAck \in Int /\ notify[e].OutSeq \in Int
      /\ notify[e].OutAckSeq \in Int /\ notify[e].WrittenInAckSeq \in Int
      /\ notify[e].AckRecord \in Seq(SentAck)
      /\ notify[e].InSeqHistory \in History
  BY <1>1 DEF Notify, Number
<1>3. ASSUME NEW i \in DOMAIN notify[e].AckRecord
      PROVE  /\ i \in Nat
             /\ notify[e].AckRecord[i].OutSeq \in Int
             /\ notify[e].AckRecord[i].InAckSeq \in Int
  <2>1. notify[e].AckRecord[i] \in SentAck /\ i \in Nat
    BY <1>2
  <2> QED BY <2>1 DEF SentAck, Number
<1> QED BY <1>1, <1>2, <1>3 DEF TypeOK, Number

\* The fields of a header have their types.
LEMMA HeaderType ==
  ASSUME NEW header \in Header
  PROVE  /\ header.Seq \in Int /\ header.AckedSeq \in Int
         /\ header.HistoryWordCount \in 1 .. WordCount
         /\ header.History \in History
BY DEF Header, Number

\* A header written from the history of an endpoint, with room for it, tells
\* the truth.
LEMMA HeaderOfTruthful ==
  ASSUME IInv, NEW e \in Endpoint, NEW words \in 1 .. WordCount,
         HistoryWordsNeeded(notify[e]) <= words
  PROVE  Truthful(e, HeaderOf(notify[e], words))
<1> DEFINE n == notify[e]
           header == HeaderOf(n, words)
<1>1. TypeOK /\ n \in Notify
  BY NumbersType DEF IInv
<1>2. /\ n.InAckSeq \in Int /\ n.InAckSeqAck \in Int /\ n.InSeq \in Int
      /\ n.InAckSeq <= n.InSeq
      /\ n.InSeq - n.InAckSeqAck <= SeqNumberHalf
  BY <1>1, NumbersType DEF IInv, NumbersInOrder
<1>3. /\ header.AckedSeq = n.InAckSeq
      /\ header.HistoryWordCount = words
      /\ \A i \in HistoryIndex :
           header.History[i] <=> i < words * BitsPerWord /\ n.InSeqHistory[i]
  BY DEF HeaderOf, TransmitHistory
<1>4. words * BitsPerWord >= HistoryWordsNeeded(n) * BitsPerWord
  <2>1. HistoryWordsNeeded(n) \in Nat /\ BitsPerWord \in Nat /\ words \in Nat
    BY <1>1, HistoryWordsNeededType, Constants
  <2> DEFINE needed == HistoryWordsNeeded(n)
  <2> HIDE DEF needed
  <2>2. needed \in Nat /\ needed <= words
    BY <2>1 DEF needed
  <2>3. words * BitsPerWord >= needed * BitsPerWord
    BY <2>1, <2>2
  <2> QED BY <2>3 DEF needed
<1>5. header.AckedSeq <= n.InAckSeq
  BY <1>2, <1>3
<1>6. \A i \in HistoryIndex : header.History[i] => header.AckedSeq - i \in acked[e]
  BY <1>3 DEF IInv, HistoryTruthful
<1>7. ASSUME NEW id \in acked[e], id <= header.AckedSeq,
             id > notify[Peer(e)].OutAckSeq
      PROVE  IsDelivered(header, header.AckedSeq - id)
  <2> DEFINE i == n.InAckSeq - id
  <2>1. /\ id \in Int
        /\ id > n.InAckSeqAck
        /\ n.InAckSeq - id < MaxSequenceHistoryLength
        /\ n.InSeqHistory[i]
    BY <1>1, <1>7, NumbersType DEF IInv, AcksStayInHistory
  <2>2. i \in HistoryIndex
    BY <1>2, <1>3, <1>7, <2>1, Constants DEF HistoryIndex
  <2>3. i < CurrentHistoryLength(n)
    <3>1. i < n.InAckSeq - n.InAckSeqAck /\ n.InAckSeq - n.InAckSeqAck <= SeqNumberHalf
      BY <1>2, <2>1, HalfType
    <3> QED BY <1>1, <2>2, <3>1, IndexInHistory
  <2>4. i < words * BitsPerWord
    <3>1. /\ CurrentHistoryLength(n) \in Nat
          /\ CurrentHistoryLength(n) <= HistoryWordsNeeded(n) * BitsPerWord
          /\ HistoryWordsNeeded(n) * BitsPerWord \in Int
          /\ words * BitsPerWord \in Int
          /\ i \in Int
      BY <1>1, <1>2, <2>1, CurrentHistoryLengthType, HistoryWordsNeededType, Constants
    <3> HIDE DEF i
    <3> QED BY <1>4, <2>3, <3>1
  <2> QED BY <1>3, <2>1, <2>2, <2>4 DEF IsDelivered
<1> QED BY <1>5, <1>6, <1>7 DEF Truthful

\* A header stays truthful: what is accepted later is newer than what the
\* header acknowledges.
LEMMA TruthfulStays ==
  ASSUME TypeOK, NEW e \in Endpoint, NEW header \in Header, Truthful(e, header),
         TypeOK',
         notify'[e].InAckSeq >= notify[e].InAckSeq,
         notify'[Peer(e)].OutAckSeq >= notify[Peer(e)].OutAckSeq,
         acked[e] \subseteq acked'[e],
         \A id \in acked'[e] \ acked[e] : id > notify[e].InAckSeq
  PROVE  Truthful(e, header)'
<1>1. /\ notify[e].InAckSeq \in Int /\ notify'[e].InAckSeq \in Int
      /\ notify[Peer(e)].OutAckSeq \in Int /\ notify'[Peer(e)].OutAckSeq \in Int
      /\ acked'[e] \subseteq Int
      /\ header.AckedSeq \in Int
  <2>1. /\ notify[e] \in Notify /\ notify'[e] \in Notify
        /\ notify[Peer(e)] \in Notify /\ notify'[Peer(e)] \in Notify
        /\ acked'[e] \subseteq Int
    BY Endpoints DEF TypeOK, Number
  <2> QED BY <2>1, HeaderType DEF Notify, Number
<1>2. /\ header.AckedSeq <= notify[e].InAckSeq
      /\ \A i \in HistoryIndex :
           header.History[i] => header.AckedSeq - i \in acked[e]
      /\ \A id \in acked[e] :
           id <= header.AckedSeq /\ id > notify[Peer(e)].OutAckSeq =>
             IsDelivered(header, header.AckedSeq - id)
  BY DEF Truthful
<1>3. header.AckedSeq <= notify'[e].InAckSeq
  BY <1>1, <1>2
<1>4. \A i \in HistoryIndex : header.History[i] => header.AckedSeq - i \in acked'[e]
  BY <1>2
<1>5. ASSUME NEW id \in acked'[e], id <= header.AckedSeq,
             id > notify'[Peer(e)].OutAckSeq
      PROVE  IsDelivered(header, header.AckedSeq - id)
  <2>1. id \in Int /\ id > notify[Peer(e)].OutAckSeq /\ ~(id > notify[e].InAckSeq)
    BY <1>1, <1>2, <1>5
  <2> QED BY <1>2, <1>5, <2>1
<1> QED BY <1>3, <1>4, <1>5 DEF Truthful, IsDelivered

\* For e and its peer, and so for both endpoints.
LEMMA BothEndpoints ==
  ASSUME NEW e \in Endpoint, NEW k \in Endpoint
  PROVE  k = e \/ k = Peer(e)
BY DEF Endpoint, Peer

\* Writing a header keeps the invariant.
LEMMA InvariantStartPacket ==
  ASSUME IInv, NEW e \in Endpoint, StartPacket(e)
  PROVE  IInv'
<1> DEFINE n == notify[e]
           words == HistoryWordsNeeded(n)
           header == HeaderOf(n, words)
<1>1. TypeOK /\ TypeOK' /\ n \in Notify
  BY TypeStartPacket, NumbersType DEF IInv
<1>2. words \in 1 .. WordCount /\ header \in Header
  BY <1>1, HistoryWordsNeededType, HeaderOfType
<1>3. /\ notify' = [notify EXCEPT ![e] = WriteHeader(n, words)]
      /\ SendBuffer' = [SendBuffer EXCEPT ![e] = header]
      /\ n.OutSeq - n.OutAckSeq <= MaxInFlight
      /\ UNCHANGED <<InPacketId, LastNotifiedPacketId, dispatching, network,
                     acked, acks, naks>>
  BY DEF StartPacket
<1>4. /\ header.Seq = n.OutSeq /\ header.AckedSeq = n.InAckSeq
  BY DEF HeaderOf
<1> HIDE DEF words, header
<1>5. /\ WriteHeader(n, words).WrittenInAckSeq = n.InAckSeq
      /\ WriteHeader(n, words).AckRecord = n.AckRecord
      /\ WriteHeader(n, words).InSeqHistory = n.InSeqHistory
      /\ WriteHeader(n, words).InSeq = n.InSeq
      /\ WriteHeader(n, words).InAckSeq = n.InAckSeq
      /\ WriteHeader(n, words).InAckSeqAck = n.InAckSeqAck
      /\ WriteHeader(n, words).OutSeq = n.OutSeq
      /\ WriteHeader(n, words).OutAckSeq = n.OutAckSeq
  BY <1>1 DEF WriteHeader, Notify
<1>6. /\ \A k \in Endpoint :
           /\ notify'[k].AckRecord = notify[k].AckRecord
           /\ notify'[k].InSeqHistory = notify[k].InSeqHistory
           /\ notify'[k].InSeq = notify[k].InSeq
           /\ notify'[k].InAckSeq = notify[k].InAckSeq
           /\ notify'[k].InAckSeqAck = notify[k].InAckSeqAck
           /\ notify'[k].OutSeq = notify[k].OutSeq
           /\ notify'[k].OutAckSeq = notify[k].OutAckSeq
           /\ k # e => /\ notify'[k].WrittenInAckSeq = notify[k].WrittenInAckSeq
                       /\ SendBuffer'[k] = SendBuffer[k]
      /\ notify'[e].WrittenInAckSeq = n.InAckSeq
      /\ SendBuffer'[e] = header
  BY <1>1, <1>3, <1>5 DEF TypeOK
<1>7. CountersAgree' /\ AckRecordInFlight'
  BY <1>3, <1>6 DEF IInv, CountersAgree, AckRecordInFlight
<1>8. NumbersInOrder' /\ DispatchFits'
  BY <1>3, <1>6, Endpoints DEF IInv, NumbersInOrder, DispatchFits
<1>9. InFlightBounded'
  BY <1>3, <1>6 DEF IInv, InFlightBounded
<1>10. SendBufferAgrees'
  BY <1>1, <1>4, <1>6, NumbersType DEF IInv, SendBufferAgrees, RecordIsKnown
<1>11. RecordIsKnown' /\ NetworkIsRecent'
  BY <1>3, <1>6, Endpoints DEF IInv, RecordIsKnown, NetworkIsRecent
<1>12. HeadersTruthful'
  <2>1. Truthful(e, header)
    BY <1>1, <1>2, HeaderOfTruthful, Constants DEF words, header
  <2>2. \A k \in Endpoint : \A h : Truthful(k, h) => Truthful(k, h)'
    BY <1>3, <1>6, Endpoints DEF Truthful
  <2> QED BY <1>3, <1>6, <2>1, <2>2 DEF IInv, HeadersTruthful
<1>13. HistoryTruthful' /\ ToldInOrder'
  BY <1>3, <1>6 DEF IInv, HistoryTruthful, ToldInOrder
<1>14. AcksStayInHistory' /\ NotificationsAreTrue'
  BY <1>3, <1>6, Endpoints DEF IInv, AcksStayInHistory, NotificationsAreTrue
<1> QED BY <1>1, <1>7, <1>8, <1>9, <1>10, <1>11, <1>12, <1>13, <1>14 DEF IInv

\* The packet FlushNet sends, whether or not its header was refreshed.
LEMMA SentHeader ==
  ASSUME IInv, NEW e \in Endpoint, SendBuffer[e] # NoHeader
  PROVE  LET n == notify[e]
             header == HeaderToSend(e)
             m == CommitAndIncrementOutSeq(
                    IF CanRefresh(n) THEN WriteHeader(n, n.WrittenHistoryWordCount)
                                     ELSE n)
         IN  /\ header \in Header
             /\ header.Seq = n.OutSeq
             /\ header.AckedSeq <= n.InAckSeq
             /\ \A i \in DOMAIN n.AckRecord : n.AckRecord[i].InAckSeq <= header.AckedSeq
             /\ Truthful(e, header)
             /\ m.AckRecord = Append(n.AckRecord, [OutSeq |-> n.OutSeq,
                                                   InAckSeq |-> header.AckedSeq])
             /\ m.OutSeq = n.OutSeq + 1
             /\ m.OutAckSeq = n.OutAckSeq
             /\ m.InSeqHistory = n.InSeqHistory
             /\ m.InSeq = n.InSeq
             /\ m.InAckSeq = n.InAckSeq
             /\ m.InAckSeqAck = n.InAckSeqAck
<1> DEFINE n == notify[e]
           words == n.WrittenHistoryWordCount
           header == HeaderToSend(e)
           w == IF CanRefresh(n) THEN WriteHeader(n, words) ELSE n
<1>1. TypeOK /\ n \in Notify /\ header \in Header /\ w \in Notify
  BY FlushedType, NumbersType DEF IInv
<1>2. /\ w.WrittenInAckSeq = header.AckedSeq
      /\ header.Seq = n.OutSeq
      /\ header.AckedSeq <= n.InAckSeq
      /\ \A i \in DOMAIN n.AckRecord : n.AckRecord[i].InAckSeq <= header.AckedSeq
      /\ Truthful(e, header)
  <2>1. CASE CanRefresh(n)
    <3>1. /\ header = HeaderOf(n, words)
          /\ w.WrittenInAckSeq = n.InAckSeq
      BY <1>1, <2>1 DEF HeaderToSend, WriteHeader, Notify
    <3>2. header.Seq = n.OutSeq /\ header.AckedSeq = n.InAckSeq
      BY <3>1 DEF HeaderOf
    <3>3. words \in 1 .. WordCount /\ HistoryWordsNeeded(n) <= words
      <4>1. header.HistoryWordCount = words
        BY <3>1 DEF HeaderOf
      <4> QED BY <1>1, <2>1, <4>1 DEF CanRefresh, Header
    <3>4. Truthful(e, header)
      BY <1>1, <3>1, <3>3, HeaderOfTruthful
    <3>5. \A i \in DOMAIN n.AckRecord : n.AckRecord[i].InAckSeq <= n.InAckSeq
      BY DEF IInv, RecordIsKnown
    <3>6. n.InAckSeq <= n.InAckSeq
      BY <1>1, NumbersType
    <3> QED BY <3>1, <3>2, <3>4, <3>5, <3>6
  <2>2. CASE ~CanRefresh(n)
    <3>1. header = SendBuffer[e] /\ w = n
      BY <2>2 DEF HeaderToSend
    <3> HIDE DEF w, header
    <3> QED BY <3>1 DEF IInv, SendBufferAgrees, HeadersTruthful
  <2> QED BY <2>1, <2>2
<1>3. /\ w.AckRecord = n.AckRecord /\ w.OutSeq = n.OutSeq
      /\ w.OutAckSeq = n.OutAckSeq /\ w.InSeqHistory = n.InSeqHistory
      /\ w.InSeq = n.InSeq /\ w.InAckSeq = n.InAckSeq
      /\ w.InAckSeqAck = n.InAckSeqAck
  BY <1>1 DEF WriteHeader, Notify
<1> DEFINE m == CommitAndIncrementOutSeq(w)
<1> HIDE DEF w
<1>4. /\ m.AckRecord = Append(w.AckRecord, [OutSeq |-> w.OutSeq,
                                            InAckSeq |-> w.WrittenInAckSeq])
      /\ m.OutSeq = w.OutSeq + 1
      /\ m.OutAckSeq = w.OutAckSeq
      /\ m.InSeqHistory = w.InSeqHistory
      /\ m.InSeq = w.InSeq
      /\ m.InAckSeq = w.InAckSeq
      /\ m.InAckSeqAck = w.InAckSeqAck
  BY <1>1 DEF CommitAndIncrementOutSeq, Notify
<1> QED BY <1>1, <1>2, <1>3, <1>4 DEF w

\* Sending a packet keeps the invariant.
LEMMA InvariantFlushNet ==
  ASSUME IInv, NEW e \in Endpoint, FlushNet(e)
  PROVE  IInv'
<1> DEFINE n == notify[e]
           p == Peer(e)
           header == HeaderToSend(e)
           m == notify'[e]
           entry == [OutSeq |-> n.OutSeq, InAckSeq |-> header.AckedSeq]
<1>1. TypeOK /\ TypeOK' /\ SendBuffer[e] # NoHeader
  BY TypeFlushNet DEF IInv, FlushNet
<1>2. /\ notify' = [notify EXCEPT ![e] = CommitAndIncrementOutSeq(
                       IF CanRefresh(n)
                       THEN WriteHeader(n, n.WrittenHistoryWordCount) ELSE n)]
      /\ network' = [network EXCEPT
                       ![e] = InTransit(network[e] \cup {header}, n.OutSeq + 1)]
      /\ SendBuffer' = [SendBuffer EXCEPT ![e] = NoHeader]
      /\ UNCHANGED <<InPacketId, LastNotifiedPacketId, dispatching, acked, acks,
                     naks>>
  BY DEF FlushNet
<1>3. /\ header \in Header
      /\ header.Seq = n.OutSeq
      /\ header.AckedSeq <= n.InAckSeq
      /\ \A i \in DOMAIN n.AckRecord : n.AckRecord[i].InAckSeq <= header.AckedSeq
      /\ Truthful(e, header)
      /\ m.AckRecord = Append(n.AckRecord, entry)
      /\ m.OutSeq = n.OutSeq + 1
      /\ m.OutAckSeq = n.OutAckSeq
      /\ m.InSeqHistory = n.InSeqHistory
      /\ m.InSeq = n.InSeq
      /\ m.InAckSeq = n.InAckSeq
      /\ m.InAckSeqAck = n.InAckSeqAck
  <2>1. m = CommitAndIncrementOutSeq(
              IF CanRefresh(n) THEN WriteHeader(n, n.WrittenHistoryWordCount) ELSE n)
    BY <1>1, <1>2 DEF TypeOK
  <2> QED BY <1>1, <2>1, SentHeader
<1>4. /\ \A k \in Endpoint :
           /\ notify'[k].InSeqHistory = notify[k].InSeqHistory
           /\ notify'[k].InSeq = notify[k].InSeq
           /\ notify'[k].InAckSeq = notify[k].InAckSeq
           /\ notify'[k].InAckSeqAck = notify[k].InAckSeqAck
           /\ notify'[k].OutAckSeq = notify[k].OutAckSeq
           /\ k # e => /\ notify'[k] = notify[k]
                       /\ SendBuffer'[k] = SendBuffer[k]
                       /\ network'[k] = network[k]
      /\ SendBuffer'[e] = NoHeader
      /\ network'[e] = InTransit(network[e] \cup {header}, n.OutSeq + 1)
  BY <1>1, <1>2, <1>3 DEF TypeOK
<1> HIDE DEF m, header
<1>5. /\ n.OutSeq \in Int /\ n.OutAckSeq \in Int /\ n.InSeq \in Int
      /\ n.InAckSeq \in Int /\ header.AckedSeq \in Int
      /\ n.AckRecord \in Seq(SentAck)
      /\ notify[p].InSeq \in Int /\ notify[p].OutAckSeq \in Int
      /\ p \in Endpoint /\ p # e /\ Peer(p) = e
  BY <1>1, <1>3, NumbersType, HeaderType, Endpoints
<1>6. /\ Len(m.AckRecord) = Len(n.AckRecord) + 1
      /\ DOMAIN m.AckRecord = DOMAIN n.AckRecord \cup {Len(n.AckRecord) + 1}
      /\ \A i \in DOMAIN n.AckRecord : m.AckRecord[i] = n.AckRecord[i]
      /\ m.AckRecord[Len(n.AckRecord) + 1] = entry
      /\ entry.OutSeq = n.OutSeq /\ entry.InAckSeq = header.AckedSeq
  <2>1. entry \in SentAck
    BY <1>5 DEF SentAck, Number
  <2> HIDE DEF entry
  <2>2. /\ Len(m.AckRecord) = Len(n.AckRecord) + 1
        /\ DOMAIN m.AckRecord = DOMAIN n.AckRecord \cup {Len(n.AckRecord) + 1}
        /\ \A i \in DOMAIN n.AckRecord : m.AckRecord[i] = n.AckRecord[i]
        /\ m.AckRecord[Len(n.AckRecord) + 1] = entry
    BY <1>3, <1>5, <2>1
  <2> QED BY <2>2 DEF entry
<1>7. CountersAgree'
  BY <1>2, <1>4 DEF IInv, CountersAgree
<1>8. AckRecordInFlight'
  <2> SUFFICES ASSUME NEW k \in Endpoint
               PROVE  /\ Len(notify'[k].AckRecord) =
                           notify'[k].OutSeq - 1 - notify'[k].OutAckSeq
                      /\ \A i \in DOMAIN notify'[k].AckRecord :
                           notify'[k].AckRecord[i].OutSeq = notify'[k].OutAckSeq + i
    BY DEF AckRecordInFlight
  <2>1. CASE k # e
    BY <1>4, <2>1 DEF IInv, AckRecordInFlight
  <2>2. CASE k = e
    <3>1. Len(n.AckRecord) = n.OutSeq - 1 - n.OutAckSeq
      BY DEF IInv, AckRecordInFlight
    <3>2. \A i \in DOMAIN n.AckRecord : n.AckRecord[i].OutSeq = n.OutAckSeq + i
      BY DEF IInv, AckRecordInFlight
    <3>3. Len(m.AckRecord) = m.OutSeq - 1 - m.OutAckSeq
      BY <1>3, <1>5, <1>6, <3>1
    <3>4. entry.OutSeq = m.OutAckSeq + (Len(n.AckRecord) + 1)
      BY <1>3, <1>5, <1>6, <3>1
    <3>5. \A i \in DOMAIN m.AckRecord : m.AckRecord[i].OutSeq = m.OutAckSeq + i
      BY <1>3, <1>6, <3>2, <3>4
    <3> QED BY <2>2, <3>3, <3>5 DEF m
  <2> QED BY <2>1, <2>2
<1>9. NumbersInOrder'
  <2> SUFFICES ASSUME NEW k \in Endpoint
               PROVE  /\ notify'[Peer(k)].OutAckSeq <= notify'[k].InAckSeq
                      /\ notify'[k].InAckSeq <= notify'[k].InSeq
                      /\ notify'[k].InSeq < notify'[Peer(k)].OutSeq
                      /\ notify'[k].InAckSeqAck <= notify'[k].InSeq
                      /\ notify'[k].InSeq - notify'[k].InAckSeqAck <= SeqNumberHalf
    BY DEF NumbersInOrder
  <2>1. notify'[k].InSeq < notify'[Peer(k)].OutSeq
    <3>1. notify[k].InSeq < notify[Peer(k)].OutSeq
      BY DEF IInv, NumbersInOrder
    <3>2. CASE k = e
      BY <1>4, <1>5, <3>1, <3>2
    <3>3. CASE k = p
      <4>1. notify'[p].InSeq = notify[p].InSeq /\ notify'[Peer(p)].OutSeq = n.OutSeq + 1
        BY <1>3, <1>4, <1>5 DEF m
      <4> QED BY <1>5, <3>1, <3>3, <4>1
    <3> QED BY <3>2, <3>3, BothEndpoints
  <2> QED BY <1>4, <2>1, Endpoints DEF IInv, NumbersInOrder
<1>10. DispatchFits'
  BY <1>2, <1>4 DEF IInv, DispatchFits
<1>11. InFlightBounded'
  <2>1. /\ n.OutAckSeq < n.OutSeq
        /\ n.OutSeq - n.OutAckSeq <= MaxInFlight
    BY <1>1 DEF IInv, InFlightBounded
  <2>2. /\ notify'[e].OutAckSeq < notify'[e].OutSeq
        /\ notify'[e].OutSeq - notify'[e].OutAckSeq <= MaxInFlight + 1
        /\ SendBuffer'[e] = NoHeader
    <3>1. notify'[e].OutAckSeq = n.OutAckSeq /\ notify'[e].OutSeq = n.OutSeq + 1
      BY <1>3 DEF m
    <3>2. MaxInFlight \in Nat
      BY Constants
    <3> QED BY <1>4, <1>5, <2>1, <3>1, <3>2
  <2> QED BY <1>4, <2>2 DEF IInv, InFlightBounded
<1>12. SendBufferAgrees'
  BY <1>4 DEF IInv, SendBufferAgrees
<1>13. network'[e] \subseteq network[e] \cup {header}
  BY <1>4 DEF InTransit
<1>14. RecordIsKnown'
  <2> SUFFICES ASSUME NEW k \in Endpoint, NEW i \in DOMAIN notify'[k].AckRecord
               PROVE  /\ notify'[k].AckRecord[i].InAckSeq <= notify'[k].InAckSeq
                      /\ notify'[k].AckRecord[i].OutSeq <= notify'[Peer(k)].InSeq =>
                           notify'[k].AckRecord[i].InAckSeq <= notify'[Peer(k)].OutAckSeq
                      /\ \A h \in network'[k] :
                           notify'[k].AckRecord[i].OutSeq <= h.Seq =>
                             notify'[k].AckRecord[i].InAckSeq <= h.AckedSeq
    BY DEF RecordIsKnown
  <2>1. CASE k # e
    BY <1>4, <2>1, Endpoints DEF IInv, RecordIsKnown
  <2>2. CASE k = e /\ i \in DOMAIN n.AckRecord
    <3>1. m.AckRecord[i] = n.AckRecord[i]
      BY <1>6, <2>2
    <3>2. /\ n.AckRecord[i].InAckSeq <= n.InAckSeq
          /\ n.AckRecord[i].OutSeq <= notify[p].InSeq =>
               n.AckRecord[i].InAckSeq <= notify[p].OutAckSeq
          /\ \A h \in network[e] : n.AckRecord[i].OutSeq <= h.Seq =>
               n.AckRecord[i].InAckSeq <= h.AckedSeq
      BY <2>2 DEF IInv, RecordIsKnown
    <3>3. n.AckRecord[i].InAckSeq <= header.AckedSeq
      BY <1>3, <2>2
    <3> QED BY <1>3, <1>4, <1>5, <1>13, <2>2, <3>1, <3>2, <3>3 DEF m
  <2>3. CASE k = e /\ i = Len(n.AckRecord) + 1
    <3>1. m.AckRecord[i].OutSeq = n.OutSeq /\ m.AckRecord[i].InAckSeq = header.AckedSeq
      BY <1>6, <2>3
    <3>2. ~(n.OutSeq <= notify[p].InSeq)
      <4>1. notify[p].InSeq < notify[e].OutSeq
        BY <1>5 DEF IInv, NumbersInOrder
      <4> QED BY <1>5, <4>1
    <3>3. \A h \in network[e] : ~(n.OutSeq <= h.Seq)
      <4> SUFFICES ASSUME NEW h \in network[e] PROVE ~(n.OutSeq <= h.Seq)
        OBVIOUS
      <4>1. h.Seq \in Int /\ h.Seq < n.OutSeq
        BY <1>1, HeaderType DEF TypeOK, IInv, NetworkIsRecent
      <4> QED BY <1>5, <4>1
    <3>4. header.AckedSeq <= header.AckedSeq
      BY <1>5
    <3> QED BY <1>3, <1>4, <1>5, <1>13, <2>3, <3>1, <3>2, <3>3, <3>4 DEF m
  <2> QED BY <1>6, <2>1, <2>2, <2>3 DEF m
<1>15. NetworkIsRecent'
  <2> SUFFICES ASSUME NEW k \in Endpoint, NEW h \in network'[k]
               PROVE  /\ h.Seq < notify'[k].OutSeq
                      /\ notify'[k].OutSeq - h.Seq <= MaxPacketAge
    BY DEF NetworkIsRecent
  <2>1. CASE k # e
    BY <1>4, <2>1 DEF IInv, NetworkIsRecent
  <2>2. CASE k = e
    <3>1. h \in network[e] \cup {header} /\ (n.OutSeq + 1) - h.Seq <= MaxPacketAge
      <4>1. h \in InTransit(network[e] \cup {header}, n.OutSeq + 1)
        BY <1>4, <2>2
      <4> QED BY <4>1 DEF InTransit
    <3>2. h.Seq \in Int /\ h.Seq <= n.OutSeq
      <4>1. h \in Header
        BY <1>1, <1>3, <3>1 DEF TypeOK
      <4>2. h \in network[e] => h.Seq < n.OutSeq
        BY DEF IInv, NetworkIsRecent
      <4> QED BY <1>3, <1>5, <3>1, <4>1, <4>2, HeaderType
    <3> QED BY <1>3, <1>5, <2>2, <3>1, <3>2 DEF m
  <2> QED BY <2>1, <2>2
<1>16. HeadersTruthful'
  <2>1. \A k \in Endpoint : \A h : Truthful(k, h) => Truthful(k, h)'
    BY <1>2, <1>4, Endpoints DEF Truthful
  <2> QED BY <1>3, <1>4, <1>13, <2>1 DEF IInv, HeadersTruthful
<1>17. HistoryTruthful' /\ ToldInOrder'
  BY <1>2, <1>4 DEF IInv, HistoryTruthful, ToldInOrder
<1>18. AcksStayInHistory' /\ NotificationsAreTrue'
  BY <1>2, <1>4, Endpoints DEF IInv, AcksStayInHistory, NotificationsAreTrue
<1> QED BY <1>1, <1>7, <1>8, <1>9, <1>10, <1>11, <1>12, <1>14, <1>15, <1>16,
           <1>17, <1>18 DEF IInv

\* The conditions under which UpdateExact describes what a packet in sequence
\* does: the comparisons of the code see its numbers as they were meant.
LEMMA ReceivedInRange ==
  ASSUME IInv, NEW e \in Endpoint, NEW header \in network[Peer(e)],
         ReceivedPacket(e, header)
  PROVE  LET n == notify[e]
             q == notify[Peer(e)]
         IN  /\ header \in Header
             /\ AcksInRange(n, header)
             /\ n.InAckSeq = n.InSeq
             /\ header.Seq - n.InSeq < SeqNumberHalf
             /\ GetSequenceDelta(n, header) = header.Seq - n.InSeq
             /\ header.Seq < q.OutSeq
             /\ header.AckedSeq <= q.InAckSeq
             /\ q.InAckSeq <= q.InSeq
<1> DEFINE n == notify[e]
           p == Peer(e)
           q == notify[p]
<1>1. TypeOK /\ p \in Endpoint /\ Peer(p) = e /\ header \in Header
  BY Endpoints DEF IInv, TypeOK
<1>2. /\ n.InSeq \in Int /\ n.InAckSeqAck \in Int /\ n.InAckSeq \in Int
      /\ n.OutSeq \in Int /\ n.OutAckSeq \in Int
      /\ q.OutSeq \in Int /\ q.InSeq \in Int /\ q.InAckSeq \in Int
      /\ header.Seq \in Int /\ header.AckedSeq \in Int
  BY <1>1, NumbersType, HeaderType
<1>3. /\ ~dispatching[e]
      /\ GetSequenceDelta(n, header) > 0
      /\ n.OutSeq - header.AckedSeq <= MaxPacketAge
      /\ header.Seq - n.InAckSeqAck <= MaxPacketAge
      /\ \A i \in DOMAIN n.AckRecord :
           header.Seq - n.AckRecord[i].InAckSeq <= MaxPacketAge
  BY DEF ReceivedPacket, Recent
<1>4. /\ header.Seq < q.OutSeq
      /\ q.OutSeq - header.Seq <= MaxPacketAge
      /\ header.AckedSeq <= q.InAckSeq
  BY <1>1 DEF IInv, NetworkIsRecent, HeadersTruthful, Truthful
<1>5. /\ q.InAckSeq <= q.InSeq
      /\ q.InSeq < n.OutSeq
      /\ n.InSeq < q.OutSeq
      /\ n.InAckSeqAck <= n.InSeq
  BY <1>1 DEF IInv, NumbersInOrder
<1>6. n.InAckSeq = n.InSeq
  BY <1>3 DEF IInv, CountersAgree
<1>7. n.OutSeq - n.OutAckSeq < SeqNumberHalf /\ n.OutAckSeq < n.OutSeq
  <2>1. n.OutAckSeq < n.OutSeq /\ n.OutSeq - n.OutAckSeq <= MaxInFlight + 1
    BY DEF IInv, InFlightBounded
  <2> QED BY <1>2, <2>1, Constants, HalfType
<1>8. /\ SeqGt(header.Seq, n.InSeq)
      /\ SeqGeq(header.AckedSeq, n.OutAckSeq)
      /\ GetSequenceDelta(n, header) = SeqDiff(header.Seq, n.InSeq)
  <2>1. ~(0 > 0)
    OBVIOUS
  <2> QED BY <1>3, <2>1 DEF GetSequenceDelta
<1>9. /\ header.Seq - n.InSeq <= SeqNumberHalf
      /\ n.InSeq - header.Seq <= SeqNumberHalf
      /\ header.AckedSeq - n.OutAckSeq < SeqNumberHalf
      /\ n.OutAckSeq - header.AckedSeq <= SeqNumberHalf
      /\ header.AckedSeq < n.OutSeq
  BY <1>2, <1>3, <1>4, <1>5, <1>7, Constants, HalfType
<1>10. header.Seq - n.InSeq < SeqNumberHalf
  <2>1. header.Seq - n.InSeq # SeqNumberHalf
    BY <1>2, <1>8, SeqOpposite
  <2> QED BY <1>2, <1>9, <2>1, HalfType
<1>11. /\ n.InSeq < header.Seq
       /\ GetSequenceDelta(n, header) = header.Seq - n.InSeq
  <2>1. /\ SeqGt(header.Seq, n.InSeq) <=> header.Seq > n.InSeq
        /\ SeqDiff(header.Seq, n.InSeq) = header.Seq - n.InSeq
    BY <1>2, <1>9, <1>10, SeqNear
  <2> QED BY <1>2, <1>8, <2>1
<1>12. n.OutAckSeq <= header.AckedSeq
  <2>1. SeqGeq(header.AckedSeq, n.OutAckSeq) <=> header.AckedSeq >= n.OutAckSeq
    BY <1>2, <1>9, SeqNear
  <2> QED BY <1>2, <1>8, <2>1
<1>13. /\ Len(n.AckRecord) = n.OutSeq - 1 - n.OutAckSeq
       /\ \A i \in DOMAIN n.AckRecord : n.AckRecord[i].OutSeq = n.OutAckSeq + i
  BY DEF IInv, AckRecordInFlight
<1>14. ASSUME NEW i \in DOMAIN n.AckRecord
       PROVE  /\ n.AckRecord[i].InAckSeq <= n.InSeq
              /\ header.Seq - n.AckRecord[i].InAckSeq <= SeqNumberHalf
  <2>1. /\ n.AckRecord[i].InAckSeq <= n.InAckSeq
        /\ n.AckRecord[i].InAckSeq \in Int
        /\ header.Seq - n.AckRecord[i].InAckSeq <= MaxPacketAge
    BY <1>1, <1>3, NumbersType DEF IInv, RecordIsKnown
  <2> QED BY <1>2, <1>6, <2>1, Constants, HalfType
<1>15. header.Seq - n.InAckSeqAck <= SeqNumberHalf
  BY <1>2, <1>3, Constants, HalfType
<1>16. AcksInRange(n, header)
  BY <1>5, <1>7, <1>9, <1>11, <1>12, <1>13, <1>14, <1>15 DEF AcksInRange
<1> QED BY <1>1, <1>4, <1>5, <1>6, <1>10, <1>11, <1>16

\* What is left of the record when its first entries have been acknowledged.
LEMMA RestOfRecord ==
  ASSUME NEW s \in Seq(SentAck), NEW count \in 0 .. Len(s)
  PROVE  LET r == SubSeq(s, count + 1, Len(s)) IN
         /\ Len(r) = Len(s) - count
         /\ \A i \in DOMAIN r : /\ i \in Nat
                                /\ i + count \in DOMAIN s
                                /\ r[i] = s[i + count]
<1> DEFINE r == SubSeq(s, count + 1, Len(s))
<1>1. Len(s) \in Nat /\ count \in Nat /\ count <= Len(s)
  OBVIOUS
<1>2. Len(r) = Len(s) - count
  BY <1>1
<1>3. ASSUME NEW i \in DOMAIN r
      PROVE  i \in Nat /\ i + count \in DOMAIN s /\ r[i] = s[i + count]
  <2>1. DOMAIN r = 1 .. Len(s) - count
    BY <1>1
  <2> QED BY <1>1, <1>3, <2>1
<1> QED BY <1>2, <1>3

\* A header that e receives gives the true fate of every packet of e that e
\* has not been told about.
LEMMA FateIsTrue ==
  ASSUME IInv, NEW e \in Endpoint, NEW header \in network[Peer(e)],
         NEW id \in Int, id > notify[e].OutAckSeq, id <= header.AckedSeq
  PROVE  IsDelivered(header, header.AckedSeq - id) <=> id \in acked[Peer(e)]
<1> DEFINE p == Peer(e)
           i == header.AckedSeq - id
           w == header.HistoryWordCount
<1>1. /\ p \in Endpoint /\ Peer(p) = e /\ header \in Header
      /\ Truthful(p, header)
  BY Endpoints DEF IInv, TypeOK, HeadersTruthful
<1>2. /\ header.AckedSeq \in Int /\ i \in Nat /\ header.AckedSeq - i = id
      /\ w \in 1 .. WordCount
  BY <1>1, HeaderType
<1>3. /\ \A j \in HistoryIndex : header.History[j] => header.AckedSeq - j \in acked[p]
      /\ \A k \in acked[p] : k <= header.AckedSeq /\ k > notify[e].OutAckSeq =>
           IsDelivered(header, header.AckedSeq - k)
  BY <1>1 DEF Truthful
<1> HIDE DEF w
<1>4. w * BitsPerWord \in Int /\ w * BitsPerWord <= MaxSequenceHistoryLength
  <2>1. w * BitsPerWord <= WordCount * BitsPerWord
    BY <1>2, Constants
  <2> QED BY <1>2, <2>1, Constants
<1>5. id \in acked[p] => IsDelivered(header, i)
  BY <1>3
<1> HIDE DEF i
<1>6. IsDelivered(header, i) => id \in acked[p]
  <2> SUFFICES ASSUME i < w * BitsPerWord, header.History[i]
               PROVE  id \in acked[p]
    BY DEF IsDelivered, w
  <2>1. i \in HistoryIndex
    BY <1>2, <1>4, Constants DEF HistoryIndex
  <2> QED BY <1>2, <1>3, <2>1
<1> QED BY <1>5, <1>6 DEF i

\* Receiving a packet in sequence keeps the invariant.
LEMMA InvariantReceivedPacket ==
  ASSUME IInv, NEW e \in Endpoint, NEW header \in network[Peer(e)],
         ReceivedPacket(e, header)
  PROVE  IInv'
<1> DEFINE n == notify[e]
           p == Peer(e)
           q == notify[p]
           m == Update(n, header)
           waiting == IsWaitingForFlush(m)
           last == LastNotifiedPacketId[e]
           count == header.AckedSeq - n.OutAckSeq
           news == IF SeqEq(last, n.OutAckSeq) THEN last + 1 .. last + count ELSE {}
           Delivered(id) == IsDelivered(header, last + count - id)
<1>1. TypeOK /\ TypeOK' /\ p \in Endpoint /\ p # e /\ Peer(p) = e
  BY TypeReceivedPacket, Endpoints DEF IInv
<1>2. /\ header \in Header
      /\ AcksInRange(n, header)
      /\ n.InAckSeq = n.InSeq
      /\ header.Seq - n.InSeq < SeqNumberHalf
      /\ GetSequenceDelta(n, header) = header.Seq - n.InSeq
      /\ header.Seq < q.OutSeq
      /\ header.AckedSeq <= q.InAckSeq
      /\ q.InAckSeq <= q.InSeq
  BY ReceivedInRange
<1>3. /\ n \in Notify /\ m \in Notify
      /\ AckCount(n, header) = count
  BY <1>1, <1>2, NumbersType, UpdateType, ProcessReceivedAcksExact
<1>4. /\ n.InSeq \in Int /\ n.InAckSeqAck \in Int /\ n.InAckSeq \in Int
      /\ n.OutSeq \in Int /\ n.OutAckSeq \in Int
      /\ q.OutSeq \in Int /\ q.InSeq \in Int /\ q.InAckSeq \in Int
      /\ q.OutAckSeq \in Int
      /\ header.Seq \in Int /\ header.AckedSeq \in Int
      /\ last \in Int /\ InPacketId[e] \in Int
      /\ m.InSeq \in Int /\ m.InAckSeq \in Int /\ m.InAckSeqAck \in Int
  <2>1. m.InSeq \in Int /\ m.InAckSeq \in Int /\ m.InAckSeqAck \in Int
    BY <1>3 DEF Notify, Number
  <2> QED BY <1>1, <1>2, <2>1, NumbersType, HeaderType
<1>5. /\ m.OutAckSeq = header.AckedSeq
      /\ m.AckRecord = SubSeq(n.AckRecord, count + 1, Len(n.AckRecord))
      /\ m.WrittenInAckSeq = n.WrittenInAckSeq
      /\ m.OutSeq = n.OutSeq
      /\ waiting => /\ m.InSeq \in n.InSeq .. header.Seq
                    /\ m.InAckSeq = m.InSeq
                    /\ m.InSeqHistory =
                         AddDeliveryStatuses(n.InSeqHistory, m.InSeq - n.InSeq, FALSE)
      /\ ~waiting => /\ m.InSeq = header.Seq
                     /\ m.InAckSeq = n.InAckSeq
                     /\ m.InSeqHistory = n.InSeqHistory
                     /\ m.InAckSeqAck < header.Seq
                     /\ header.Seq - m.InAckSeqAck <= MaxSequenceHistoryLength
  BY <1>2, <1>3, UpdateExact
<1>6. PICK ack \in n.InAckSeqAck .. n.InSeq :
        /\ AckKnown(n, header, ack)
        /\ \/ m.InAckSeqAck = ack
           \/ /\ m.InAckSeqAck = header.Seq - 1
              /\ ~waiting
              /\ \A i \in HistoryIndex : n.InSeqHistory[i] => i >= n.InSeq - ack
        /\ waiting => \/ m.InSeq = n.InSeq
                      \/ m.InSeq - ack <= MaxSequenceHistoryLength
                      \/ \A i \in HistoryIndex :
                           n.InSeqHistory[i] => i >= n.InSeq - ack
  BY <1>2, <1>3, UpdateExact
<1>7. /\ notify' = [notify EXCEPT ![e] = m]
      /\ InPacketId' = [InPacketId EXCEPT ![e] =
                          @ + IF waiting THEN m.InSeq - n.InSeq
                              ELSE GetSequenceDelta(n, header)]
      /\ dispatching' = [dispatching EXCEPT ![e] = ~waiting]
      /\ LastNotifiedPacketId' = [LastNotifiedPacketId EXCEPT ![e] =
                                    @ + AckCount(n, header)]
      /\ UNCHANGED <<SendBuffer, network, acked>>
  BY DEF ReceivedPacket, HandleNotifications
<1>8. /\ acks' = [acks EXCEPT ![e] = @ \cup {id \in news : Delivered(id)}]
      /\ naks' = [naks EXCEPT ![e] = @ \cup {id \in news : ~Delivered(id)}]
  BY <1>3 DEF ReceivedPacket, HandleNotifications
<1> HIDE DEF m, waiting, count, news, Delivered
<1>9. /\ notify'[e] = m
      /\ notify'[p] = q
      /\ \A k \in Endpoint : k # e =>
           /\ notify'[k] = notify[k]
           /\ InPacketId'[k] = InPacketId[k]
           /\ LastNotifiedPacketId'[k] = LastNotifiedPacketId[k]
           /\ dispatching'[k] = dispatching[k]
           /\ acks'[k] = acks[k]
           /\ naks'[k] = naks[k]
      /\ SendBuffer' = SendBuffer /\ network' = network /\ acked' = acked
      /\ dispatching'[e] = ~waiting
  BY <1>1, <1>7, <1>8 DEF TypeOK
\* The numbers
<1>10. /\ n.InAckSeqAck <= n.InSeq
       /\ n.InSeq < header.Seq
       /\ header.Seq - n.InAckSeqAck <= SeqNumberHalf
       /\ n.OutAckSeq <= header.AckedSeq
       /\ header.AckedSeq < n.OutSeq
  BY <1>2 DEF AcksInRange
<1>31. /\ n.AckRecord \in Seq(SentAck) /\ n.InSeqHistory \in History
       /\ Len(n.AckRecord) = n.OutSeq - 1 - n.OutAckSeq
       /\ \A i \in DOMAIN n.AckRecord : n.AckRecord[i].OutSeq = n.OutAckSeq + i
  BY <1>1, <1>2, NumbersType DEF AcksInRange
<1>11. /\ n.InSeq <= m.InSeq /\ m.InSeq <= header.Seq
       /\ n.InAckSeq <= m.InAckSeq /\ m.InAckSeq <= m.InSeq
       /\ m.InAckSeqAck <= m.InSeq
       /\ m.InSeq - m.InAckSeqAck <= SeqNumberHalf
  <2>1. ack \in Int /\ n.InAckSeqAck <= ack /\ ack <= n.InSeq
    BY <1>4
  <2>2. CASE waiting
    <3>1. m.InAckSeqAck = ack
      BY <1>6, <2>2
    <3>2. m.InSeq \in n.InSeq .. header.Seq /\ m.InAckSeq = m.InSeq
      BY <1>5, <2>2
    <3> QED BY <1>2, <1>4, <1>10, <2>1, <3>1, <3>2, HalfType
  <2>3. CASE ~waiting
    <3>1. /\ m.InSeq = header.Seq /\ m.InAckSeq = n.InAckSeq
          /\ m.InAckSeqAck < header.Seq
          /\ header.Seq - m.InAckSeqAck <= MaxSequenceHistoryLength
      BY <1>5, <2>3
    <3> QED BY <1>2, <1>4, <1>10, <3>1, Constants, HalfType
  <2> QED BY <2>2, <2>3
<1>12. /\ q.OutAckSeq <= n.InAckSeq /\ n.InSeq < q.OutSeq /\ q.InSeq < n.OutSeq
       /\ q.InAckSeqAck <= q.InSeq /\ q.InSeq - q.InAckSeqAck <= SeqNumberHalf
  BY <1>1 DEF IInv, NumbersInOrder
<1>13. NumbersInOrder'
  <2>1. /\ notify'[p].OutAckSeq <= notify'[e].InAckSeq
        /\ notify'[e].InSeq < notify'[p].OutSeq
    BY <1>2, <1>4, <1>9, <1>11, <1>12
  <2>2. /\ notify'[e].OutAckSeq <= notify'[p].InAckSeq
        /\ notify'[p].InSeq < notify'[e].OutSeq
    BY <1>2, <1>5, <1>9, <1>12
  <2> QED BY <1>1, <1>2, <1>9, <1>11, <1>12, <2>1, <2>2, BothEndpoints
          DEF NumbersInOrder
<1>14. CountersAgree'
  <2>1. InPacketId[e] = n.InSeq /\ last = n.OutAckSeq
    BY DEF IInv, CountersAgree
  <2>2. LastNotifiedPacketId'[e] = m.OutAckSeq
    <3>1. LastNotifiedPacketId'[e] = last + count
      BY <1>1, <1>3, <1>7 DEF TypeOK
    <3> QED BY <1>4, <1>5, <2>1, <3>1 DEF count
  <2>3. InPacketId'[e] = m.InSeq
    <3>1. InPacketId'[e] = InPacketId[e] + IF waiting THEN m.InSeq - n.InSeq
                                           ELSE header.Seq - n.InSeq
      BY <1>1, <1>2, <1>7 DEF TypeOK
    <3> QED BY <1>4, <1>5, <2>1, <3>1
  <2>4. ~dispatching'[e] => m.InAckSeq = m.InSeq
    BY <1>5, <1>9
  <2> QED BY <1>9, <2>2, <2>3, <2>4 DEF IInv, CountersAgree
<1>15. DispatchFits'
  <2>1. dispatching'[e] => /\ m.InAckSeq < m.InSeq
                           /\ m.InSeq - m.InAckSeq < SeqNumberHalf
                           /\ m.InAckSeqAck < m.InSeq
                           /\ m.InSeq - m.InAckSeqAck <= MaxSequenceHistoryLength
    BY <1>2, <1>5, <1>9, <1>10
  <2> QED BY <1>9, <2>1 DEF IInv, DispatchFits
<1>16. InFlightBounded'
  <2>1. /\ n.OutSeq - n.OutAckSeq <= MaxInFlight + 1
        /\ SendBuffer[e] # NoHeader => n.OutSeq - n.OutAckSeq <= MaxInFlight
    BY DEF IInv, InFlightBounded
  <2>2. /\ m.OutAckSeq < m.OutSeq
        /\ m.OutSeq - m.OutAckSeq <= MaxInFlight + 1
        /\ SendBuffer[e] # NoHeader => m.OutSeq - m.OutAckSeq <= MaxInFlight
    <3>1. /\ n.OutSeq - header.AckedSeq <= MaxInFlight + 1
          /\ SendBuffer[e] # NoHeader => n.OutSeq - header.AckedSeq <= MaxInFlight
      BY <1>4, <1>10, <2>1, Constants
    <3>2. m.OutAckSeq = header.AckedSeq /\ m.OutSeq = n.OutSeq
      BY <1>5
    <3> QED BY <1>10, <3>1, <3>2
  <2> QED BY <1>9, <2>2 DEF IInv, InFlightBounded
<1>17. NetworkIsRecent'
  <2>1. \A k \in Endpoint : notify'[k].OutSeq = notify[k].OutSeq
    BY <1>5, <1>9
  <2> QED BY <1>9, <2>1 DEF IInv, NetworkIsRecent
\* The record
<1>18. /\ Len(m.AckRecord) = Len(n.AckRecord) - count
       /\ \A i \in DOMAIN m.AckRecord : /\ i \in Nat
                                        /\ i + count \in DOMAIN n.AckRecord
                                        /\ m.AckRecord[i] = n.AckRecord[i + count]
  <2>1. count \in 0 .. Len(n.AckRecord)
    <3>1. Len(n.AckRecord) = n.OutSeq - 1 - n.OutAckSeq
      BY <1>31
    <3>2. count \in Int /\ 0 <= count /\ count <= n.OutSeq - 1 - n.OutAckSeq
      BY <1>4, <1>10 DEF count
    <3> QED BY <3>1, <3>2
  <2> QED BY <1>5, <1>31, <2>1, RestOfRecord
<1>19. AckRecordInFlight'
  <2>1. Len(m.AckRecord) = m.OutSeq - 1 - m.OutAckSeq
    <3>1. Len(m.AckRecord) = (n.OutSeq - 1 - n.OutAckSeq) - count
      BY <1>18, <1>31
    <3>2. m.OutAckSeq = header.AckedSeq /\ m.OutSeq = n.OutSeq
      BY <1>5
    <3>3. (n.OutSeq - 1 - n.OutAckSeq) - count = n.OutSeq - 1 - header.AckedSeq
      BY <1>4 DEF count
    <3> QED BY <3>1, <3>2, <3>3
  <2>2. ASSUME NEW i \in DOMAIN m.AckRecord
        PROVE  m.AckRecord[i].OutSeq = m.OutAckSeq + i
    <3>1. m.AckRecord[i].OutSeq = n.OutAckSeq + (i + count) /\ i \in Nat
      BY <1>18, <1>31
    <3> QED BY <1>4, <1>5, <3>1 DEF count
  <2> QED BY <1>9, <2>1, <2>2 DEF IInv, AckRecordInFlight
<1>20. SendBufferAgrees'
  <2>1. SendBuffer[e] # NoHeader =>
          /\ SendBuffer[e].Seq = m.OutSeq
          /\ SendBuffer[e].AckedSeq = m.WrittenInAckSeq
          /\ m.WrittenInAckSeq <= m.InAckSeq
          /\ \A i \in DOMAIN m.AckRecord : m.AckRecord[i].InAckSeq <= m.WrittenInAckSeq
    <3> SUFFICES ASSUME SendBuffer[e] # NoHeader
                 PROVE  /\ SendBuffer[e].Seq = m.OutSeq
                        /\ SendBuffer[e].AckedSeq = m.WrittenInAckSeq
                        /\ m.WrittenInAckSeq <= m.InAckSeq
                        /\ \A i \in DOMAIN m.AckRecord :
                             m.AckRecord[i].InAckSeq <= m.WrittenInAckSeq
      OBVIOUS
    <3>1. /\ SendBuffer[e].Seq = n.OutSeq
          /\ SendBuffer[e].AckedSeq = n.WrittenInAckSeq
          /\ n.WrittenInAckSeq <= n.InAckSeq
          /\ \A i \in DOMAIN n.AckRecord : n.AckRecord[i].InAckSeq <= n.WrittenInAckSeq
          /\ n.WrittenInAckSeq \in Int
      BY <1>1, NumbersType DEF IInv, SendBufferAgrees
    <3>2. m.WrittenInAckSeq <= m.InAckSeq
      BY <1>4, <1>5, <1>11, <3>1
    <3> QED BY <1>5, <1>18, <3>1, <3>2
  <2> QED BY <1>9, <2>1 DEF IInv, SendBufferAgrees
<1>21. RecordIsKnown'
  <2> SUFFICES ASSUME NEW k \in Endpoint, NEW i \in DOMAIN notify'[k].AckRecord
               PROVE  /\ notify'[k].AckRecord[i].InAckSeq <= notify'[k].InAckSeq
                      /\ notify'[k].AckRecord[i].OutSeq <= notify'[Peer(k)].InSeq =>
                           notify'[k].AckRecord[i].InAckSeq <= notify'[Peer(k)].OutAckSeq
                      /\ \A h \in network[k] :
                           notify'[k].AckRecord[i].OutSeq <= h.Seq =>
                             notify'[k].AckRecord[i].InAckSeq <= h.AckedSeq
    BY <1>9 DEF RecordIsKnown
  <2>1. CASE k = e
    <3> DEFINE j == i + count
    <3>1. j \in DOMAIN n.AckRecord /\ m.AckRecord[i] = n.AckRecord[j]
      BY <1>9, <1>18, <2>1
    <3>2. /\ n.AckRecord[j].InAckSeq <= n.InAckSeq
          /\ n.AckRecord[j].OutSeq <= q.InSeq => n.AckRecord[j].InAckSeq <= q.OutAckSeq
          /\ \A h \in network[e] : n.AckRecord[j].OutSeq <= h.Seq =>
               n.AckRecord[j].InAckSeq <= h.AckedSeq
          /\ n.AckRecord[j].InAckSeq \in Int
      BY <1>1, <3>1, NumbersType DEF IInv, RecordIsKnown
    <3> HIDE DEF j
    <3>3. n.AckRecord[j].InAckSeq <= m.InAckSeq
      BY <1>4, <1>11, <3>2
    <3> QED BY <1>9, <2>1, <3>1, <3>2, <3>3
  <2>2. CASE k = p
    <3>1. i \in DOMAIN q.AckRecord
      BY <1>9, <2>2
    <3>2. /\ q.AckRecord[i].InAckSeq <= q.InAckSeq
          /\ \A h \in network[p] : q.AckRecord[i].OutSeq <= h.Seq =>
               q.AckRecord[i].InAckSeq <= h.AckedSeq
          /\ q.AckRecord[i].OutSeq \in Int
      BY <1>1, <3>1, NumbersType DEF IInv, RecordIsKnown
    <3>3. q.AckRecord[i].OutSeq <= m.InSeq => q.AckRecord[i].InAckSeq <= m.OutAckSeq
      <4>1. q.AckRecord[i].OutSeq <= m.InSeq => q.AckRecord[i].OutSeq <= header.Seq
        BY <1>4, <1>11, <3>2
      <4> QED BY <1>5, <3>2, <4>1
    <3> QED BY <1>1, <1>9, <2>2, <3>2, <3>3
  <2> QED BY <2>1, <2>2, BothEndpoints
\* The history
<1>22. \A id \in acked[e] : id > q.OutAckSeq => id > ack /\ n.InAckSeq - id \in HistoryIndex
                                               /\ n.InSeqHistory[n.InAckSeq - id]
  <2> SUFFICES ASSUME NEW id \in acked[e], id > q.OutAckSeq
               PROVE  /\ id > ack
                      /\ n.InAckSeq - id \in HistoryIndex
                      /\ n.InSeqHistory[n.InAckSeq - id]
    OBVIOUS
  <2>1. /\ id \in Int
        /\ id > n.InAckSeqAck
        /\ n.InAckSeq - id < MaxSequenceHistoryLength
        /\ n.InSeqHistory[n.InAckSeq - id]
        /\ id <= n.InAckSeq
    BY <1>1, NumbersType DEF IInv, AcksStayInHistory, HistoryTruthful
  <2>2. n.InAckSeq - id \in HistoryIndex
    BY <1>4, <2>1, Constants DEF HistoryIndex
  <2>3. id > ack
    <3>1. CASE ack = n.InAckSeqAck
      BY <2>1, <3>1
    <3>2. ASSUME NEW i \in DOMAIN n.AckRecord, n.AckRecord[i].OutSeq = header.AckedSeq,
                 n.AckRecord[i].InAckSeq = ack
          PROVE  id > ack
      <4>1. n.AckRecord[i].OutSeq <= q.InSeq
        BY <1>2, <1>4, <3>2
      <4>2. ack <= q.OutAckSeq
        BY <1>1, <3>2, <4>1 DEF IInv, RecordIsKnown
      <4>3. ack \in Int
        BY <1>4
      <4> QED BY <1>4, <2>1, <4>2, <4>3
    <3> QED BY <1>6, <3>1, <3>2 DEF AckKnown
  <2> QED BY <2>1, <2>2, <2>3
<1>23. ASSUME NEW id \in acked[e], id > q.OutAckSeq
       PROVE  /\ id > m.InAckSeqAck
              /\ m.InAckSeq - id < MaxSequenceHistoryLength
              /\ m.InSeqHistory[m.InAckSeq - id]
  <2> DEFINE i == n.InAckSeq - id
  <2>1. /\ id \in Int /\ ack \in Int /\ id > ack /\ i \in HistoryIndex
        /\ n.InSeqHistory[i]
    BY <1>1, <1>4, <1>22, <1>23, NumbersType
  <2>2. ~(i >= n.InSeq - ack)
    BY <1>2, <1>4, <2>1
  <2>3. m.InAckSeqAck = ack
    BY <1>6, <2>1, <2>2
  <2>4. CASE ~waiting
    <3>1. m.InAckSeq = n.InAckSeq /\ m.InSeqHistory = n.InSeqHistory
      BY <1>5, <2>4
    <3> QED BY <2>1, <2>3, <3>1, Constants DEF HistoryIndex
  <2>5. CASE waiting
    <3>1. m.InSeq = n.InSeq \/ m.InSeq - ack <= MaxSequenceHistoryLength
      BY <1>6, <2>1, <2>2, <2>5
    <3>2. m.InAckSeq = m.InSeq
      BY <1>5, <2>5
    <3>3. i < MaxSequenceHistoryLength /\ i >= 0
      BY <2>1, Constants DEF HistoryIndex
    <3>4. m.InAckSeq - id < MaxSequenceHistoryLength
      BY <1>2, <1>4, <2>1, <3>1, <3>2, <3>3, Constants
    <3> DEFINE d == m.InSeq - n.InSeq
    <3>5. /\ m.InAckSeq - id \in HistoryIndex
          /\ m.InAckSeq - id >= d
          /\ (m.InAckSeq - id) - d = i
      BY <1>2, <1>4, <1>11, <2>1, <3>2, <3>3, <3>4, Constants DEF HistoryIndex
    <3>6. m.InSeqHistory = AddDeliveryStatuses(n.InSeqHistory, d, FALSE)
      BY <1>5, <2>5
    <3> HIDE DEF d, i
    <3>7. m.InSeqHistory[m.InAckSeq - id] = n.InSeqHistory[i]
      BY <3>5, <3>6 DEF AddDeliveryStatuses
    <3> QED BY <2>1, <2>3, <3>4, <3>7
  <2> QED BY <2>4, <2>5
<1>24. AcksStayInHistory'
  <2> SUFFICES ASSUME NEW k \in Endpoint, NEW id \in acked[k],
                      id > notify'[Peer(k)].OutAckSeq
               PROVE  /\ id > notify'[k].InAckSeqAck
                      /\ notify'[k].InAckSeq - id < MaxSequenceHistoryLength
                      /\ notify'[k].InSeqHistory[notify'[k].InAckSeq - id]
    BY <1>9 DEF AcksStayInHistory
  <2>1. CASE k = e
    BY <1>9, <1>23, <2>1
  <2>2. CASE k = p
    <3>1. id > n.OutAckSeq
      <4>1. id > header.AckedSeq /\ id \in Int
        BY <1>1, <1>5, <1>9, <2>2, NumbersType
      <4> QED BY <1>4, <1>10, <4>1
    <3> QED BY <1>1, <1>9, <2>2, <3>1 DEF IInv, AcksStayInHistory
  <2> QED BY <2>1, <2>2, BothEndpoints
<1>25. HistoryTruthful'
  <2>1. ASSUME NEW i \in HistoryIndex, m.InSeqHistory[i]
        PROVE  m.InAckSeq - i \in acked[e]
    <3>1. \A j \in HistoryIndex : n.InSeqHistory[j] => n.InAckSeq - j \in acked[e]
      BY DEF IInv, HistoryTruthful
    <3>2. CASE ~waiting
      BY <1>5, <2>1, <3>1, <3>2
    <3>3. CASE waiting
      <4> DEFINE d == m.InSeq - n.InSeq
      <4>1. d \in Nat
        BY <1>4, <1>11
      <4>2. /\ m.InSeqHistory = AddDeliveryStatuses(n.InSeqHistory, d, FALSE)
            /\ m.InAckSeq = m.InSeq
        BY <1>5, <3>3
      <4>3. /\ i \in Nat /\ i < MaxSequenceHistoryLength
        BY Constants DEF HistoryIndex
      <4>4. n.InAckSeq - (i - d) = m.InAckSeq - i
        BY <1>2, <1>4, <4>2, <4>3
      <4> HIDE DEF d
      <4>5. i >= d /\ n.InSeqHistory[i - d]
        BY <2>1, <4>2 DEF AddDeliveryStatuses
      <4>6. i - d \in HistoryIndex
        BY <4>1, <4>3, <4>5, Constants DEF HistoryIndex
      <4>7. n.InAckSeq - (i - d) \in acked[e]
        BY <3>1, <4>5, <4>6
      <4> QED BY <4>4, <4>7
    <3> QED BY <3>2, <3>3
  <2>2. ASSUME NEW id \in acked[e] PROVE id <= m.InAckSeq
    <3>1. id \in Int /\ id <= n.InAckSeq
      BY <1>1, NumbersType DEF IInv, HistoryTruthful
    <3> QED BY <1>4, <1>11, <3>1
  <2> QED BY <1>9, <2>1, <2>2 DEF IInv, HistoryTruthful
<1>26. HeadersTruthful'
  <2>1. /\ notify'[e].InAckSeq >= n.InAckSeq /\ notify'[p].InAckSeq >= q.InAckSeq
        /\ notify'[e].OutAckSeq >= n.OutAckSeq /\ notify'[p].OutAckSeq >= q.OutAckSeq
    <3>1. /\ m.InAckSeq >= n.InAckSeq /\ q.InAckSeq >= q.InAckSeq
          /\ header.AckedSeq >= n.OutAckSeq /\ q.OutAckSeq >= q.OutAckSeq
      BY <1>4, <1>10, <1>11
    <3>2. m.OutAckSeq = header.AckedSeq
      BY <1>5
    <3> QED BY <1>9, <3>1, <3>2
  <2>2. ASSUME NEW k \in Endpoint, NEW h \in Header, Truthful(k, h)
        PROVE  Truthful(k, h)'
    <3>1. /\ notify'[k].InAckSeq >= notify[k].InAckSeq
          /\ notify'[Peer(k)].OutAckSeq >= notify[Peer(k)].OutAckSeq
      BY <1>1, <2>1, BothEndpoints
    <3>2. acked[k] \subseteq acked'[k] /\ acked'[k] \ acked[k] = {}
      BY <1>9
    <3> QED BY <1>1, <2>2, <3>1, <3>2, TruthfulStays
  <2> QED BY <1>1, <1>9, <2>2 DEF IInv, HeadersTruthful, TypeOK
\* The notifications
<1>27. /\ news \subseteq Int
       /\ \A id \in news : /\ id > n.OutAckSeq
                           /\ id <= header.AckedSeq
                           /\ last + count - id = header.AckedSeq - id
  <2>1. last = n.OutAckSeq
    BY DEF IInv, CountersAgree
  <2>2. last + count = header.AckedSeq /\ count \in Int
    BY <1>4, <2>1 DEF count
  <2> QED BY <1>4, <2>1, <2>2 DEF news
<1>28. ASSUME NEW id \in news
       PROVE  Delivered(id) <=> id \in acked[p]
  <2>1. /\ id \in Int /\ id > n.OutAckSeq /\ id <= header.AckedSeq
        /\ last + count - id = header.AckedSeq - id
    BY <1>27
  <2> QED BY <2>1, FateIsTrue DEF Delivered
<1>29. ToldInOrder'
  <2>1. ASSUME NEW id \in naks'[e] PROVE id <= m.OutAckSeq
    <3>1. naks'[e] = naks[e] \cup {k \in news : ~Delivered(k)}
      BY <1>1, <1>8 DEF TypeOK
    <3>2. CASE id \in naks[e]
      <4>1. id \in Int /\ id <= n.OutAckSeq
        BY <1>1, <3>2, NumbersType DEF IInv, ToldInOrder
      <4> QED BY <1>4, <1>5, <1>10, <4>1
    <3>3. CASE id \in news
      BY <1>5, <1>27, <3>3
    <3> QED BY <3>1, <3>2, <3>3
  <2> QED BY <1>9, <2>1 DEF IInv, ToldInOrder
<1>30. NotificationsAreTrue'
  <2>1. /\ acks'[e] = acks[e] \cup {id \in news : Delivered(id)}
        /\ naks'[e] = naks[e] \cup {id \in news : ~Delivered(id)}
    BY <1>1, <1>8 DEF TypeOK
  <2>2. acks[e] \subseteq acked[p] /\ naks[e] \cap acked[p] = {}
    BY DEF IInv, NotificationsAreTrue
  <2>3. acks'[e] \subseteq acked[p] /\ naks'[e] \cap acked[p] = {}
    BY <1>28, <2>1, <2>2
  <2> QED BY <1>9, <2>3 DEF IInv, NotificationsAreTrue
<1> QED BY <1>1, <1>13, <1>14, <1>15, <1>16, <1>17, <1>19, <1>20, <1>21, <1>24,
           <1>25, <1>26, <1>29, <1>30 DEF IInv

\* Acknowledging the packet that was dispatched keeps the invariant.
LEMMA InvariantAcknowledgePacket ==
  ASSUME IInv, NEW e \in Endpoint, NEW bSkipAck \in BOOLEAN,
         AcknowledgePacket(e, bSkipAck)
  PROVE  IInv'
<1> DEFINE n == notify[e]
           p == Peer(e)
           q == notify[p]
           m == AckSeq(n, InPacketId[e], ~bSkipAck)
           d == n.InSeq - n.InAckSeq
<1>1. /\ TypeOK /\ TypeOK' /\ n \in Notify
      /\ p \in Endpoint /\ p # e /\ Peer(p) = e
  BY TypeAcknowledgePacket, NumbersType, Endpoints DEF IInv
<1>2. /\ n.InSeq \in Int /\ n.InAckSeq \in Int /\ n.InAckSeqAck \in Int
      /\ q.OutSeq \in Int /\ q.OutAckSeq \in Int
  BY <1>1, NumbersType
<1>3. /\ n.InAckSeq < n.InSeq
      /\ n.InSeq - n.InAckSeq < SeqNumberHalf
      /\ n.InAckSeqAck < n.InSeq
      /\ n.InSeq - n.InAckSeqAck <= MaxSequenceHistoryLength
      /\ q.OutAckSeq <= n.InAckSeq
  BY DEF AcknowledgePacket, IInv, DispatchFits, NumbersInOrder
<1>4. InPacketId[e] = n.InSeq
  BY DEF IInv, CountersAgree
<1>5. /\ m.InAckSeq = n.InSeq
      /\ m.InSeqHistory = AddDeliveryStatuses(n.InSeqHistory, d, ~bSkipAck)
      /\ m.AckRecord = n.AckRecord
      /\ m.WrittenInAckSeq = n.WrittenInAckSeq
      /\ m.InSeq = n.InSeq
      /\ m.InAckSeqAck = n.InAckSeqAck
      /\ m.OutSeq = n.OutSeq
      /\ m.OutAckSeq = n.OutAckSeq
  <2> DEFINE b == ~bSkipAck
             v == AckSeq(n, n.InSeq, b)
  <2>1. b \in BOOLEAN
    OBVIOUS
  <2> HIDE DEF b, d
  <2>2. n.InAckSeq <= n.InSeq /\ n.InSeq - n.InAckSeq < SeqNumberHalf
    BY <1>2, <1>3
  <2>3. /\ v.InAckSeq = n.InSeq
        /\ v.InSeqHistory = AddDeliveryStatuses(n.InSeqHistory, n.InSeq - n.InAckSeq, b)
        /\ v.AckRecord = n.AckRecord
        /\ v.WrittenInAckSeq = n.WrittenInAckSeq
        /\ v.InSeq = n.InSeq
        /\ v.InAckSeqAck = n.InAckSeqAck
        /\ v.OutSeq = n.OutSeq
        /\ v.OutAckSeq = n.OutAckSeq
    <3> HIDE DEF n
    <3> QED BY <1>1, <1>2, <2>1, <2>2, AckSeqExact
  <2> HIDE DEF v
  <2>4. m = v
    BY <1>4 DEF v, b
  <2> HIDE DEF m
  <2> QED BY <2>3, <2>4 DEF b, d
<1>6. /\ notify' = [notify EXCEPT ![e] = m]
      /\ acked' = [acked EXCEPT ![e] = IF bSkipAck THEN acked[e]
                                       ELSE acked[e] \cup {n.InSeq}]
      /\ dispatching' = [dispatching EXCEPT ![e] = FALSE]
      /\ UNCHANGED <<SendBuffer, InPacketId, LastNotifiedPacketId, network, acks,
                     naks>>
  BY <1>4 DEF AcknowledgePacket
<1> HIDE DEF m
<1>7. /\ \A k \in Endpoint :
           /\ notify'[k].AckRecord = notify[k].AckRecord
           /\ notify'[k].WrittenInAckSeq = notify[k].WrittenInAckSeq
           /\ notify'[k].InSeq = notify[k].InSeq
           /\ notify'[k].InAckSeqAck = notify[k].InAckSeqAck
           /\ notify'[k].OutSeq = notify[k].OutSeq
           /\ notify'[k].OutAckSeq = notify[k].OutAckSeq
           /\ k # e => /\ notify'[k] = notify[k]
                       /\ acked'[k] = acked[k]
                       /\ dispatching'[k] = dispatching[k]
      /\ notify'[e] = m /\ m.InAckSeq = n.InSeq
      /\ acked'[e] = IF bSkipAck THEN acked[e] ELSE acked[e] \cup {n.InSeq}
      /\ ~dispatching'[e]
      /\ UNCHANGED <<SendBuffer, InPacketId, LastNotifiedPacketId, network, acks,
                     naks>>
  BY <1>1, <1>5, <1>6 DEF TypeOK
<1>8. CountersAgree' /\ AckRecordInFlight' /\ DispatchFits' /\ InFlightBounded'
  BY <1>7 DEF IInv, CountersAgree, AckRecordInFlight, DispatchFits, InFlightBounded
<1>9. \A k \in Endpoint : notify[k].InAckSeq <= notify'[k].InAckSeq
  <2>1. \A k \in Endpoint : notify[k].InAckSeq \in Int
    BY <1>1, NumbersType
  <2> QED BY <1>2, <1>3, <1>7, <2>1
<1>10. NumbersInOrder'
  <2> SUFFICES ASSUME NEW k \in Endpoint
               PROVE  /\ notify'[Peer(k)].OutAckSeq <= notify'[k].InAckSeq
                      /\ notify'[k].InAckSeq <= notify'[k].InSeq
                      /\ notify'[k].InSeq < notify'[Peer(k)].OutSeq
                      /\ notify'[k].InAckSeqAck <= notify'[k].InSeq
                      /\ notify'[k].InSeq - notify'[k].InAckSeqAck <= SeqNumberHalf
    BY DEF NumbersInOrder
  <2>1. /\ notify[Peer(k)].OutAckSeq <= notify[k].InAckSeq
        /\ notify[k].InAckSeq <= notify[k].InSeq
        /\ notify[k].InSeq < notify[Peer(k)].OutSeq
        /\ notify[k].InAckSeqAck <= notify[k].InSeq
        /\ notify[k].InSeq - notify[k].InAckSeqAck <= SeqNumberHalf
    BY DEF IInv, NumbersInOrder
  <2>2. CASE k # e
    BY <1>7, <2>1, <2>2, Endpoints
  <2>3. CASE k = e
    <3>1. q.OutAckSeq <= n.InSeq /\ n.InSeq <= n.InSeq
      BY <1>2, <1>3
    <3> QED BY <1>1, <1>7, <2>1, <2>3, <3>1
  <2> QED BY <2>2, <2>3
<1>11. SendBufferAgrees'
  <2> SUFFICES ASSUME NEW k \in Endpoint, SendBuffer[k] # NoHeader
               PROVE  /\ SendBuffer[k].Seq = notify'[k].OutSeq
                      /\ SendBuffer[k].AckedSeq = notify'[k].WrittenInAckSeq
                      /\ notify'[k].WrittenInAckSeq <= notify'[k].InAckSeq
                      /\ \A i \in DOMAIN notify'[k].AckRecord :
                           notify'[k].AckRecord[i].InAckSeq <= notify'[k].WrittenInAckSeq
    BY <1>7 DEF SendBufferAgrees
  <2>1. notify[k].WrittenInAckSeq <= notify[k].InAckSeq
    BY DEF IInv, SendBufferAgrees
  <2>2. notify[k].WrittenInAckSeq <= notify'[k].InAckSeq
    <3>1. /\ notify[k].WrittenInAckSeq \in Int /\ notify[k].InAckSeq \in Int
          /\ notify'[k].InAckSeq \in Int
      BY <1>1, <1>2, <1>7, NumbersType
    <3> QED BY <1>9, <2>1, <3>1
  <2> QED BY <1>7, <2>2 DEF IInv, SendBufferAgrees
<1>12. RecordIsKnown'
  <2> SUFFICES ASSUME NEW k \in Endpoint, NEW i \in DOMAIN notify[k].AckRecord
               PROVE  notify[k].AckRecord[i].InAckSeq <= notify'[k].InAckSeq
    BY <1>7, Endpoints DEF IInv, RecordIsKnown
  <2>1. /\ notify[k].AckRecord[i].InAckSeq \in Int /\ notify[k].InAckSeq \in Int
        /\ notify'[k].InAckSeq \in Int
    BY <1>1, <1>2, <1>7, NumbersType
  <2>2. notify[k].AckRecord[i].InAckSeq <= notify[k].InAckSeq
    BY DEF IInv, RecordIsKnown
  <2> QED BY <1>9, <2>1, <2>2
<1>13. NetworkIsRecent'
  BY <1>7 DEF IInv, NetworkIsRecent
<1>14. \A k \in Endpoint : /\ acked[k] \subseteq acked'[k]
                           /\ \A id \in acked'[k] \ acked[k] : k = e /\ id = n.InSeq
  BY <1>7
<1>15. HeadersTruthful'
  <2>1. ASSUME NEW k \in Endpoint, NEW h \in Header, Truthful(k, h)
        PROVE  Truthful(k, h)'
    <3>1. /\ notify'[k].InAckSeq >= notify[k].InAckSeq
          /\ notify'[Peer(k)].OutAckSeq >= notify[Peer(k)].OutAckSeq
      <4>1. /\ notify[Peer(k)].OutAckSeq \in Int /\ notify[k].InAckSeq \in Int
            /\ notify'[k].InAckSeq \in Int
        BY <1>1, <1>2, <1>7, NumbersType, Endpoints
      <4>2. notify'[Peer(k)].OutAckSeq = notify[Peer(k)].OutAckSeq
        BY <1>7, Endpoints
      <4> QED BY <1>9, <4>1, <4>2
    <3>2. \A id \in acked'[k] \ acked[k] : id > notify[k].InAckSeq
      BY <1>2, <1>3, <1>14
    <3> QED BY <1>1, <1>14, <2>1, <3>1, <3>2, TruthfulStays
  <2> QED BY <1>1, <1>7, <2>1 DEF IInv, HeadersTruthful, TypeOK
\* The history
<1>16. d \in Nat \ {0} /\ d = n.InSeq - n.InAckSeq
  BY <1>2, <1>3
<1> HIDE DEF d
<1>17. HistoryTruthful'
  <2>1. ASSUME NEW i \in HistoryIndex, m.InSeqHistory[i]
        PROVE  m.InAckSeq - i \in acked'[e]
    <3>1. i \in Nat /\ i < MaxSequenceHistoryLength
      BY Constants DEF HistoryIndex
    <3>2. CASE i >= d
      <4>1. n.InSeqHistory[i - d]
        BY <1>5, <2>1, <3>2 DEF AddDeliveryStatuses
      <4>2. i - d \in HistoryIndex
        BY <1>16, <3>1, <3>2, Constants DEF HistoryIndex
      <4>3. n.InAckSeq - (i - d) \in acked[e]
        BY <4>1, <4>2 DEF IInv, HistoryTruthful
      <4>4. n.InAckSeq - (i - d) = m.InAckSeq - i
        BY <1>2, <1>5, <1>16, <3>1
      <4> QED BY <1>14, <4>3, <4>4
    <3>3. CASE ~(i >= d)
      <4>1. i = 0 /\ ~bSkipAck
        BY <1>5, <2>1, <3>3 DEF AddDeliveryStatuses
      <4>2. m.InAckSeq - i = n.InSeq
        BY <1>2, <1>5, <4>1
      <4> QED BY <1>7, <4>1, <4>2
    <3> QED BY <3>2, <3>3
  <2>2. ASSUME NEW id \in acked'[e] PROVE id <= m.InAckSeq
    <3>1. CASE id \in acked[e]
      <4>1. id \in Int /\ id <= n.InAckSeq
        BY <1>1, <3>1, NumbersType DEF IInv, HistoryTruthful
      <4> QED BY <1>2, <1>3, <1>5, <4>1
    <3>2. CASE id = n.InSeq
      BY <1>2, <1>5, <3>2
    <3> QED BY <1>14, <3>1, <3>2
  <2> QED BY <1>7, <2>1, <2>2 DEF IInv, HistoryTruthful
<1>18. AcksStayInHistory'
  <2> SUFFICES ASSUME NEW k \in Endpoint, NEW id \in acked'[k],
                      id > notify[Peer(k)].OutAckSeq
               PROVE  /\ id > notify'[k].InAckSeqAck
                      /\ notify'[k].InAckSeq - id < MaxSequenceHistoryLength
                      /\ notify'[k].InSeqHistory[notify'[k].InAckSeq - id]
    BY <1>7, Endpoints DEF AcksStayInHistory
  <2>1. CASE k # e
    BY <1>7, <2>1 DEF IInv, AcksStayInHistory
  <2>2. CASE k = e /\ id \in acked[e]
    <3> DEFINE i == n.InAckSeq - id
    <3>1. /\ id \in Int /\ id > n.InAckSeqAck /\ id <= n.InAckSeq
          /\ i < MaxSequenceHistoryLength /\ n.InSeqHistory[i]
      BY <1>1, <2>2, NumbersType DEF IInv, AcksStayInHistory, HistoryTruthful
    <3>2. n.InSeq - id < MaxSequenceHistoryLength
      BY <1>2, <1>3, <3>1, Constants
    <3>3. /\ n.InSeq - id \in HistoryIndex /\ n.InSeq - id >= d
          /\ (n.InSeq - id) - d = i
      BY <1>2, <1>16, <3>1, <3>2, Constants DEF HistoryIndex
    <3> HIDE DEF i
    <3>4. m.InSeqHistory[n.InSeq - id]
      BY <1>5, <3>1, <3>3 DEF AddDeliveryStatuses
    <3> QED BY <1>7, <2>2, <3>1, <3>2, <3>4
  <2>3. CASE k = e /\ id = n.InSeq /\ ~bSkipAck
    <3>1. /\ n.InSeq - id = 0 /\ 0 \in HistoryIndex /\ ~(0 >= d)
          /\ 0 < MaxSequenceHistoryLength
      BY <1>2, <1>16, <2>3, Constants DEF HistoryIndex
    <3>2. m.InSeqHistory[0]
      BY <1>5, <2>3, <3>1 DEF AddDeliveryStatuses
    <3> QED BY <1>2, <1>3, <1>7, <2>3, <3>1, <3>2
  <2> QED BY <1>7, <2>1, <2>2, <2>3
\* The notifications
<1>19. ToldInOrder'
  BY <1>7 DEF IInv, ToldInOrder
<1>20. NotificationsAreTrue'
  <2>1. n.InSeq \notin naks[p]
    <3>1. \A id \in naks[p] : id \in Int /\ id <= q.OutAckSeq
      BY <1>1, NumbersType DEF IInv, ToldInOrder
    <3> QED BY <1>2, <1>3, <3>1
  <2>2. ASSUME NEW k \in Endpoint
        PROVE  acks[k] \subseteq acked'[Peer(k)] /\ naks[k] \cap acked'[Peer(k)] = {}
    <3>1. acks[k] \subseteq acked[Peer(k)] /\ naks[k] \cap acked[Peer(k)] = {}
      BY DEF IInv, NotificationsAreTrue
    <3>2. Peer(k) \in Endpoint /\ (Peer(k) = e => k = p)
      BY Endpoints
    <3> QED BY <1>14, <2>1, <3>1, <3>2
  <2> QED BY <1>7, <2>2 DEF NotificationsAreTrue
<1> QED BY <1>1, <1>8, <1>10, <1>11, <1>12, <1>13, <1>15, <1>17, <1>18, <1>19,
           <1>20 DEF IInv

\* Every step keeps the invariant.
LEMMA InvariantStep == IInv /\ [Next]_vars => IInv'
<1> SUFFICES ASSUME IInv, [Next]_vars PROVE IInv'
  OBVIOUS
<1>1. CASE UNCHANGED vars
  <2>1. /\ TypeOK' /\ CountersAgree' /\ AckRecordInFlight' /\ NumbersInOrder'
        /\ DispatchFits' /\ InFlightBounded' /\ SendBufferAgrees'
    BY <1>1 DEF vars, IInv, TypeOK, CountersAgree, AckRecordInFlight,
                NumbersInOrder, DispatchFits, InFlightBounded, SendBufferAgrees
  <2>2. /\ RecordIsKnown' /\ NetworkIsRecent' /\ HeadersTruthful'
        /\ HistoryTruthful' /\ ToldInOrder' /\ AcksStayInHistory'
        /\ NotificationsAreTrue'
    BY <1>1 DEF vars, IInv, RecordIsKnown, NetworkIsRecent, HeadersTruthful,
                Truthful, HistoryTruthful, ToldInOrder, AcksStayInHistory,
                NotificationsAreTrue
  <2> QED BY <2>1, <2>2 DEF IInv
<1>2. CASE Next
  BY <1>2, InvariantStartPacket, InvariantFlushNet, InvariantReceivedPacket,
     InvariantAcknowledgePacket DEF Next
<1> QED BY <1>1, <1>2

\* In every state that the packet layer reaches, what its two endpoints
\* remember agrees with what is in flight and with what was accepted.
THEOREM Invariant == Spec => []IInv
BY InvariantInit, InvariantStep, PTL DEF Spec

\* The packet ids of the connection and the numbers of its FNetPacketNotify
\* never part, and no check between them fails.
THEOREM CountersAlwaysAgree == Spec => []CountersAgree
<1>1. IInv => CountersAgree
  BY DEF IInv
<1> QED BY <1>1, Invariant, PTL

\* The pessimistic view UpdateInAckSeqAck has of a packet that is not in its
\* record, which "should never occur", never occurs.
THEOREM RecordAlwaysInFlight == Spec => []AckRecordInFlight
<1>1. IInv => AckRecordInFlight
  BY DEF IInv
<1> QED BY <1>1, Invariant, PTL

\* No acknowledgement that the other side may not have is ever forgotten.
THEOREM AcksAlwaysInHistory == Spec => []AcksStayInHistory
<1>1. IInv => AcksStayInHistory
  BY DEF IInv
<1> QED BY <1>1, Invariant, PTL

\* Whatever the network loses, repeats, delays or reorders, an endpoint is
\* told that a packet arrived only if it was accepted, and that it was lost
\* only if it was not and never will be.
THEOREM NotificationsAlwaysTrue == Spec => []NotificationsAreTrue
<1>1. IInv => NotificationsAreTrue
  BY DEF IInv
<1> QED BY <1>1, Invariant, PTL

-----------------------------------------------------------------------------
(* FNetPacketNotify and the connection that drives it implement            *)
(* PacketDelivery: the initial states of PacketNotify are initial states   *)
(* of PacketDelivery, and every step of PacketNotify is one of its steps   *)
(* or changes nothing it speaks of.  A packet becomes the next one to be   *)
(* written when it is sent, its fate is settled when its receiver records  *)
(* it, and its sender is told when a header gives it.                      *)

\* The variables of PacketDelivery as PacketNotify has them.
NextId == [e \in Endpoint |-> notify[e].OutSeq]
Settled == [e \in Endpoint |-> notify[Peer(e)].InAckSeq]
Accepted == [e \in Endpoint |-> acked[Peer(e)]]

\* Both modules speak of the same endpoints.
LEMMA DeliveryNames ==
  /\ Delivery!Endpoint = Endpoint
  /\ \A e : Delivery!Peer(e) = Peer(e)
BY DEF Delivery!Endpoint, Endpoint, Delivery!Peer, Peer

\* The initial states are initial states of PacketDelivery.
LEMMA DeliveryInit == Init => Delivery!Init
<1> SUFFICES ASSUME Init PROVE Delivery!Init
  OBVIOUS
<1>1. \A e \in Endpoint :
        /\ notify[e].OutSeq = FirstPacketId[e]
        /\ notify[e].InAckSeq = FirstPacketId[Peer(e)] - 1
  BY DEF Init, InitNotify
<1>2. NextId = FirstPacketId
  BY <1>1, Constants DEF NextId
<1>3. Settled = [e \in Endpoint |-> FirstPacketId[e] - 1]
  BY <1>1, Endpoints DEF Settled
<1>4. Accepted = [e \in Endpoint |-> {}]
  BY Endpoints DEF Accepted, Init
<1> QED BY <1>2, <1>3, <1>4, DeliveryNames
        DEF Init, Delivery!Init, NextId, Settled, Accepted

\* Writing a packet changes nothing that PacketDelivery speaks of.
LEMMA DeliveryStartPacket ==
  ASSUME TypeOK, NEW e \in Endpoint, StartPacket(e)
  PROVE  UNCHANGED Delivery!vars
<1>1. \A k \in Endpoint : /\ notify'[k].OutSeq = notify[k].OutSeq
                          /\ notify'[k].InAckSeq = notify[k].InAckSeq
  BY DEF TypeOK, StartPacket, WriteHeader, Notify
<1>2. NextId' = NextId /\ Settled' = Settled
  BY <1>1, Endpoints DEF NextId, Settled
<1>3. Accepted' = Accepted /\ UNCHANGED <<LastNotifiedPacketId, acks, naks>>
  BY DEF StartPacket, Accepted
<1> QED BY <1>2, <1>3 DEF Delivery!vars, NextId, Settled, Accepted

\* Sending a packet is PacketDelivery's Send.
LEMMA DeliveryFlushNet ==
  ASSUME TypeOK, NEW e \in Endpoint, FlushNet(e)
  PROVE  Delivery!Send(e)
<1> DEFINE n == notify[e]
           written == IF CanRefresh(n)
                      THEN WriteHeader(n, n.WrittenHistoryWordCount)
                      ELSE n
           sent == CommitAndIncrementOutSeq(written)
<1>1. n \in Notify
  BY DEF TypeOK
<1>2. sent.OutSeq = n.OutSeq + 1 /\ sent.InAckSeq = n.InAckSeq
  BY <1>1 DEF CommitAndIncrementOutSeq, WriteHeader, Notify
<1>3. /\ notify' = [notify EXCEPT ![e] = sent]
      /\ UNCHANGED <<acked, LastNotifiedPacketId, acks, naks>>
  BY DEF FlushNet
<1> HIDE DEF sent
<1>4. /\ notify'[e].OutSeq = notify[e].OutSeq + 1
      /\ \A k \in Endpoint : /\ k # e => notify'[k].OutSeq = notify[k].OutSeq
                             /\ notify'[k].InAckSeq = notify[k].InAckSeq
  BY <1>2, <1>3 DEF TypeOK
<1>5. NextId' = [NextId EXCEPT ![e] = @ + 1] /\ Settled' = Settled
  BY <1>4, Endpoints DEF NextId, Settled
<1>6. Accepted' = Accepted
  BY <1>3 DEF Accepted
<1> QED BY <1>3, <1>5, <1>6 DEF Delivery!Send, NextId, Settled, Accepted

\* A packet in sequence tells its receiver the fate of its own packets, and
\* may make it pass over packets of its peer: PacketDelivery's Learn.
LEMMA DeliveryReceivedPacket ==
  ASSUME IInv, IInv', NEW e \in Endpoint, NEW header \in network[Peer(e)],
         ReceivedPacket(e, header)
  PROVE  Delivery!Learn(e)
<1> DEFINE n == notify[e]
           p == Peer(e)
           q == notify[p]
           m == Update(n, header)
           last == LastNotifiedPacketId[e]
           count == header.AckedSeq - n.OutAckSeq
           seen == IF SeqEq(last, n.OutAckSeq) THEN last + 1 .. last + count ELSE {}
           Delivered(id) == IsDelivered(header, last + count - id)
           news == last + 1 .. header.AckedSeq
<1>1. TypeOK /\ p \in Endpoint /\ p # e /\ Peer(p) = e
  BY Endpoints DEF IInv
<1>2. /\ header \in Header /\ AcksInRange(n, header)
      /\ n.InAckSeq = n.InSeq
      /\ header.Seq - n.InSeq < SeqNumberHalf
      /\ GetSequenceDelta(n, header) = header.Seq - n.InSeq
      /\ header.AckedSeq <= q.InAckSeq
  BY ReceivedInRange
<1>3. /\ n \in Notify /\ m \in Notify
      /\ AckCount(n, header) = count
  BY <1>1, <1>2, NumbersType, UpdateType, ProcessReceivedAcksExact
<1>4. /\ n.InAckSeq \in Int /\ n.OutAckSeq \in Int /\ q.OutSeq \in Int
      /\ q.InAckSeq \in Int /\ header.AckedSeq \in Int
      /\ m.InSeq \in Int /\ m.InAckSeq \in Int
  <2>1. m.InSeq \in Int /\ m.InAckSeq \in Int
    BY <1>3 DEF Notify, Number
  <2> QED BY <1>1, <1>2, <2>1, NumbersType, HeaderType
<1>5. last = n.OutAckSeq /\ n.OutAckSeq <= header.AckedSeq
  BY <1>2 DEF IInv, CountersAgree, AcksInRange
<1>6. /\ m.OutSeq = n.OutSeq
      /\ \/ m.InAckSeq = n.InAckSeq
         \/ m.InSeq \in n.InSeq .. header.Seq /\ m.InAckSeq = m.InSeq
  BY <1>2, <1>3, UpdateExact
<1>7. /\ notify' = [notify EXCEPT ![e] = m]
      /\ LastNotifiedPacketId' = [LastNotifiedPacketId EXCEPT ![e] = @ + count]
      /\ acks' = [acks EXCEPT ![e] = @ \cup {id \in seen : Delivered(id)}]
      /\ naks' = [naks EXCEPT ![e] = @ \cup {id \in seen : ~Delivered(id)}]
      /\ acked' = acked
  BY <1>3 DEF ReceivedPacket, HandleNotifications
<1> HIDE DEF m
\* What e is told is the truth about the packets up to the acknowledged one.
<1>8. seen = news
  <2>1. SeqEq(last, n.OutAckSeq)
    <3>1. last \in Int /\ last - n.OutAckSeq < SeqNumberHalf
                       /\ n.OutAckSeq - last <= SeqNumberHalf
      BY <1>4, <1>5, HalfType, TwiceHalf
    <3> QED BY <1>4, <1>5, <3>1, SeqNear
  <2>2. last + count = header.AckedSeq
    BY <1>4, <1>5
  <2> QED BY <2>1, <2>2
<1>9. \A id \in news : Delivered(id) <=> id \in acked[p]
  <2> SUFFICES ASSUME NEW id \in news PROVE Delivered(id) <=> id \in acked[p]
    OBVIOUS
  <2>1. /\ id \in Int /\ id > n.OutAckSeq /\ id <= header.AckedSeq
        /\ last + count - id = header.AckedSeq - id
    BY <1>4, <1>5
  <2> QED BY <2>1, FateIsTrue DEF Delivered
<1> HIDE DEF count, seen, Delivered
<1>10. Accepted[e] = acked[p]
  BY DEF Accepted
<1>11. Delivery!Notify(e, header.AckedSeq)
  <2>1. header.AckedSeq \in LastNotifiedPacketId[e] .. Settled[e]
    BY <1>2, <1>4, <1>5 DEF Settled
  <2>2. LastNotifiedPacketId' = [LastNotifiedPacketId EXCEPT ![e] = header.AckedSeq]
    <3>1. last + count = header.AckedSeq
      BY <1>4, <1>5 DEF count
    <3> QED BY <1>7, <3>1
  <2>3. /\ acks' = [acks EXCEPT ![e] = @ \cup (news \cap Accepted[e])]
        /\ naks' = [naks EXCEPT ![e] = @ \cup (news \ Accepted[e])]
    <3>1. /\ {id \in seen : Delivered(id)} = news \cap Accepted[e]
          /\ {id \in seen : ~Delivered(id)} = news \ Accepted[e]
      BY <1>8, <1>9, <1>10
    <3> QED BY <1>7, <3>1
  <2> QED BY <2>1, <2>2, <2>3 DEF Delivery!Notify, Settled, Accepted
\* e may pass over packets of its peer.
<1>12. Delivery!Lose(p, m.InAckSeq)
  <2>1. m.InAckSeq \in n.InAckSeq .. q.OutSeq - 1
    <3>1. notify'[e] = m /\ notify'[p] = q
      BY <1>1, <1>7 DEF TypeOK
    <3>2. notify'[e].InAckSeq <= notify'[e].InSeq /\ notify'[e].InSeq < notify'[p].OutSeq
      BY <1>1 DEF IInv, NumbersInOrder
    <3>3. n.InAckSeq <= m.InAckSeq
      BY <1>2, <1>4, <1>6
    <3> QED BY <1>4, <3>1, <3>2, <3>3
  <2>2. Settled[p] = n.InAckSeq /\ NextId[p] = q.OutSeq
    BY <1>1 DEF Settled, NextId
  <2>3. Settled' = [Settled EXCEPT ![p] = m.InAckSeq]
    <3>1. \A k \in Endpoint : notify'[Peer(k)].InAckSeq =
                                IF k = p THEN m.InAckSeq ELSE notify[Peer(k)].InAckSeq
      BY <1>1, <1>7, Endpoints DEF TypeOK
    <3> QED BY <3>1 DEF Settled
  <2>4. Accepted' = Accepted
    BY <1>7 DEF Accepted
  <2> QED BY <2>1, <2>2, <2>3, <2>4 DEF Delivery!Lose, Settled, NextId, Accepted
<1>13. NextId' = NextId
  <2>1. \A k \in Endpoint : notify'[k].OutSeq = notify[k].OutSeq
    BY <1>6, <1>7 DEF TypeOK
  <2> QED BY <2>1 DEF NextId
<1>14. \E id \in Settled[p] .. NextId[p] - 1 : Delivery!Lose(p, id)
  BY <1>12 DEF Delivery!Lose, Settled, NextId
<1>15. \E id \in LastNotifiedPacketId[e] .. Settled[e] : Delivery!Notify(e, id)
  BY <1>11 DEF Delivery!Notify, Settled
<1> QED BY <1>13, <1>14, <1>15, DeliveryNames
        DEF Delivery!Learn, Settled, NextId

\* The receiver of a packet accepts it, or gives up on it.
LEMMA DeliveryAcknowledgePacket ==
  ASSUME IInv, NEW e \in Endpoint, NEW bSkipAck \in BOOLEAN,
         AcknowledgePacket(e, bSkipAck)
  PROVE  Delivery!Next
<1> DEFINE n == notify[e]
           p == Peer(e)
           m == AckSeq(n, n.InSeq, ~bSkipAck)
<1>1. TypeOK /\ p \in Endpoint /\ p # e /\ Peer(p) = e /\ n \in Notify
  BY Endpoints, NumbersType DEF IInv
<1>2. n.InSeq \in Int /\ n.InAckSeq \in Int /\ notify[p].OutSeq \in Int
  BY <1>1, NumbersType
<1>3. /\ n.InAckSeq < n.InSeq /\ n.InSeq - n.InAckSeq < SeqNumberHalf
      /\ n.InSeq < notify[p].OutSeq
      /\ InPacketId[e] = n.InSeq
  BY DEF AcknowledgePacket, IInv, DispatchFits, NumbersInOrder, CountersAgree
<1>4. m.InAckSeq = n.InSeq /\ m.OutSeq = n.OutSeq
  <2> DEFINE b == ~bSkipAck
             v == AckSeq(n, n.InSeq, b)
  <2>1. b \in BOOLEAN /\ n.InAckSeq <= n.InSeq
    BY <1>2, <1>3
  <2> HIDE DEF b
  <2>2. v.InAckSeq = n.InSeq /\ v.OutSeq = n.OutSeq
    <3> HIDE DEF n
    <3> QED BY <1>1, <1>2, <1>3, <2>1, AckSeqExact
  <2> QED BY <2>2 DEF b
<1>5. /\ notify' = [notify EXCEPT ![e] = m]
      /\ acked' = [acked EXCEPT ![e] =
                     IF bSkipAck THEN @ ELSE @ \cup {n.InSeq}]
      /\ UNCHANGED <<LastNotifiedPacketId, acks, naks>>
  BY <1>3 DEF AcknowledgePacket
<1> HIDE DEF m
<1>6. /\ NextId' = NextId
      /\ Settled' = [Settled EXCEPT ![p] = n.InSeq]
  <2>1. \A k \in Endpoint :
          /\ notify'[k].OutSeq = notify[k].OutSeq
          /\ notify'[Peer(k)].InAckSeq =
               IF k = p THEN n.InSeq ELSE notify[Peer(k)].InAckSeq
    BY <1>1, <1>4, <1>5, Endpoints DEF TypeOK
  <2> QED BY <2>1 DEF NextId, Settled
<1>7. n.InSeq \in Settled[p] + 1 .. NextId[p] - 1
  BY <1>1, <1>2, <1>3 DEF Settled, NextId
<1>8. CASE bSkipAck
  <2>1. Accepted' = Accepted
    BY <1>1, <1>5, <1>8 DEF Accepted, TypeOK
  <2>2. n.InSeq \in Settled[p] .. NextId[p] - 1
    BY <1>1, <1>2, <1>3 DEF Settled, NextId
  <2>3. Delivery!Lose(p, n.InSeq)
    BY <1>6, <2>1, <2>2 DEF Delivery!Lose, Settled, NextId, Accepted
  <2>4. \E id \in Settled[p] .. NextId[p] - 1 : Delivery!Lose(p, id)
    BY <2>2, <2>3
  <2>5. Delivery!Reject(p)
    BY <1>5, <1>6, <2>4 DEF Delivery!Reject, Settled, NextId
  <2> QED BY <1>1, <2>5, DeliveryNames DEF Delivery!Next
<1>9. CASE ~bSkipAck
  <2>1. Accepted' = [Accepted EXCEPT ![p] = @ \cup {n.InSeq}]
    <3>1. \A k \in Endpoint : acked'[Peer(k)] =
            IF k = p THEN acked[e] \cup {n.InSeq} ELSE acked[Peer(k)]
      BY <1>1, <1>5, <1>9, Endpoints DEF TypeOK
    <3> QED BY <1>1, <3>1 DEF Accepted
  <2>2. Delivery!Accept(p, n.InSeq)
    BY <1>5, <1>6, <1>7, <2>1 DEF Delivery!Accept, Settled, NextId, Accepted
  <2>3. \E id \in Settled[p] + 1 .. NextId[p] - 1 : Delivery!Accept(p, id)
    BY <1>7, <2>2
  <2> QED BY <1>1, <2>3, DeliveryNames DEF Delivery!Next, Settled, NextId
<1> QED BY <1>8, <1>9

\* Every step is a step of PacketDelivery or changes nothing it speaks of.
LEMMA DeliveryStep == IInv /\ IInv' /\ [Next]_vars => [Delivery!Next]_(Delivery!vars)
<1> SUFFICES ASSUME IInv, IInv', [Next]_vars
             PROVE  Delivery!Next \/ UNCHANGED Delivery!vars
  OBVIOUS
<1>1. CASE UNCHANGED vars
  <2>1. NextId' = NextId /\ Settled' = Settled /\ Accepted' = Accepted
    BY <1>1 DEF vars, NextId, Settled, Accepted
  <2> QED BY <1>1, <2>1 DEF vars, Delivery!vars, NextId, Settled, Accepted
<1>2. ASSUME NEW e \in Endpoint, StartPacket(e)
      PROVE  UNCHANGED Delivery!vars
  BY <1>2, DeliveryStartPacket DEF IInv
<1>3. ASSUME NEW e \in Endpoint, FlushNet(e)
      PROVE  Delivery!Next
  BY <1>3, DeliveryFlushNet, DeliveryNames DEF IInv, Delivery!Next
<1>4. ASSUME NEW e \in Endpoint, NEW header \in network[Peer(e)],
             ReceivedPacket(e, header)
      PROVE  Delivery!Next
  BY <1>4, DeliveryReceivedPacket, DeliveryNames DEF Delivery!Next
<1>5. ASSUME NEW e \in Endpoint, NEW bSkipAck \in BOOLEAN,
             AcknowledgePacket(e, bSkipAck)
      PROVE  Delivery!Next
  BY <1>5, DeliveryAcknowledgePacket
<1> QED BY <1>1, <1>2, <1>3, <1>4, <1>5 DEF Next

\* The packet layer of a connection implements PacketDelivery, whatever the
\* network loses, repeats, delays or reorders.
THEOREM ImplementsDelivery == Spec => DeliverySpec
<1>1. Spec => Delivery!Spec
  BY DeliveryInit, Invariant, DeliveryStep, PTL DEF Spec, Delivery!Spec
<1> QED BY <1>1 DEF DeliverySpec

=============================================================================
