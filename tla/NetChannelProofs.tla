-------------------------- MODULE NetChannelProofs --------------------------
(***************************************************************************)
(* What is sent reliably over the channels of an index arrives in order,   *)
(* once and complete, for any sizes of bunches, packets and messages, any  *)
(* number of channels and any losses, while the reliable buffer has room.  *)
(***************************************************************************)
EXTENDS NetChannelInvariant, FiniteSetTheorems, SequenceTheorems, WellFoundedInduction, TLAPS

\* What the assumption says of the constants.
LEMMA Constants ==
  /\ RELIABLE_BUFFER \in Nat /\ MAX_CHSEQUENCE \in Nat /\ InitReliable \in Nat
  /\ RELIABLE_BUFFER >= 2 /\ MAX_CHSEQUENCE >= 2 * RELIABLE_BUFFER
  /\ MAX_CHSEQUENCE % 2 = 0
  /\ PartialBunchReliableThreshold \in Nat /\ PartialBunchReliableThreshold >= 2
  /\ MaxSingleBunchSize \in Nat /\ MaxSingleBunchSize >= 1
  /\ ReliableSizes \subseteq Nat /\ PropertySizes \subseteq Nat /\ ClosingSizes \subseteq Nat
BY NetChannelAssumption

-----------------------------------------------------------------------------
(* Numbers, loops and sequences                                            *)

\* A set of natural numbers with some number has a least one.
LEMMA LeastNumber ==
  ASSUME NEW S \in SUBSET Nat, S # {}
  PROVE  \E n \in S : \A m \in S : n <= m
<1>1. IsWellFoundedOn(OpToRel(<, Nat), Nat)
  BY NatLessThanWellFounded
<1>2. PICK n \in S : \A m \in S : ~ (<<m, n>> \in OpToRel(<, Nat))
  BY <1>1, WFMin
<1>3. ASSUME NEW m \in S, m < n PROVE FALSE
  <2>1. <<m, n>> \in OpToRel(<, Nat)
    BY <1>3 DEF OpToRel
  <2> QED BY <1>2, <2>1
<1> QED BY <1>3

\* What holds at first and goes on to hold holds up to the last.
LEMMA StepByStep ==
  ASSUME NEW n \in Nat, NEW S, 0 \in S, \A i \in 1 .. n : i - 1 \in S => i \in S
  PROVE  \A i \in 0 .. n : i \in S
<1> SUFFICES ASSUME NEW i \in 0 .. n, i \notin S PROVE FALSE
  OBVIOUS
<1>1. PICK k \in {m \in 0 .. n : m \notin S} : \A m \in {m \in 0 .. n : m \notin S} : k <= m
  <2>1. {m \in 0 .. n : m \notin S} \in SUBSET Nat /\ {m \in 0 .. n : m \notin S} # {}
    OBVIOUS
  <2> QED BY <2>1, LeastNumber
<1>2. k \in 1 .. n /\ k - 1 \in 0 .. n /\ ~(k <= k - 1)
  OBVIOUS
<1>3. k - 1 \in S
  BY <1>1, <1>2
<1> QED BY <1>1, <1>2, <1>3

\* The steps F of a loop from x0 keep a relation G of the number of steps and the
\* state.
Keeps(n, S, F, x0, G) ==
  /\ x0 \in S /\ <<0, x0>> \in G
  /\ \A i \in 1 .. n : \A x \in S :
       <<i - 1, x>> \in G => F[<<i, x>>] \in S /\ <<i, F[<<i, x>>]>> \in G

\* Such a loop has a function of its states.
LEMMA LoopExists ==
  ASSUME NEW n \in Nat, NEW S, NEW F, NEW x0, NEW G, Keeps(n, S, F, x0, G)
  PROVE  \E f \in [0 .. n -> S] :
           /\ f[0] = x0 /\ \A i \in 1 .. n : f[i] = F[<<i, f[i - 1]>>]
           /\ \A i \in 0 .. n : <<i, f[i]>> \in G
<1>0. /\ x0 \in S /\ <<0, x0>> \in G
      /\ \A i \in 1 .. n : \A x \in S :
           <<i - 1, x>> \in G => F[<<i, x>>] \in S /\ <<i, F[<<i, x>>]>> \in G
  BY DEF Keeps
<1> DEFINE Loop(f, m) == /\ f = [i \in 0 .. m |-> IF i = 0 THEN x0 ELSE F[<<i, f[i - 1]>>]]
                         /\ \A i \in 0 .. m : f[i] \in S /\ <<i, f[i]>> \in G
           Lengths == {m \in 0 .. n : \E f : Loop(f, m)}
<1>1. 0 \in Lengths
  <2>1. PICK f : f = [i \in 0 .. 0 |-> x0]
    OBVIOUS
  <2>2. \A i \in 0 .. 0 : i = 0
    OBVIOUS
  <2>3. f = [i \in 0 .. 0 |-> IF i = 0 THEN x0 ELSE F[<<i, f[i - 1]>>]]
    BY <2>1, <2>2
  <2>4. \A i \in 0 .. 0 : f[i] = x0
    BY <2>1
  <2> QED BY <1>0, <2>2, <2>3, <2>4
<1>2. ASSUME NEW m \in 1 .. n, m - 1 \in Lengths PROVE m \in Lengths
  <2>1. PICK f : Loop(f, m - 1)
    BY <1>2
  <2>2. PICK g : g = [i \in 0 .. m |-> IF i = m THEN F[<<m, f[m - 1]>>] ELSE f[i]]
    OBVIOUS
  <2>3. \A i \in 0 .. m - 1 : g[i] = f[i]
    BY <2>2
  <2>4. g[m] = F[<<m, f[m - 1]>>] /\ g[m] \in S /\ <<m, g[m]>> \in G
    <3>1. f[m - 1] \in S /\ <<m - 1, f[m - 1]>> \in G
      BY <2>1
    <3> QED BY <1>0, <2>2, <3>1
  <2>5. ASSUME NEW i \in 0 .. m PROVE g[i] = IF i = 0 THEN x0 ELSE F[<<i, g[i - 1]>>]
    <3>1. CASE i = m
      BY <2>3, <2>4, <3>1
    <3>2. CASE i # m
      <4>1. i \in 0 .. m - 1 /\ (i # 0 => i - 1 \in 0 .. m - 1)
        BY <3>2
      <4>2. f[i] = IF i = 0 THEN x0 ELSE F[<<i, f[i - 1]>>]
        BY <2>1, <4>1
      <4> QED BY <2>3, <4>1, <4>2
    <3> QED BY <3>1, <3>2
  <2>6. g = [i \in 0 .. m |-> IF i = 0 THEN x0 ELSE F[<<i, g[i - 1]>>]]
    BY <2>2, <2>5
  <2>7. ASSUME NEW i \in 0 .. m PROVE g[i] \in S /\ <<i, g[i]>> \in G
    <3>1. CASE i = m
      BY <2>4, <3>1
    <3>2. CASE i # m
      <4>1. i \in 0 .. m - 1
        BY <3>2
      <4> QED BY <2>1, <2>3, <4>1
    <3> QED BY <3>1, <3>2
  <2>8. Loop(g, m)
    BY <2>6, <2>7
  <2>9. m \in 0 .. n
    OBVIOUS
  <2> HIDE DEF Loop
  <2> QED BY <2>8, <2>9
<1> HIDE DEF Lengths
<1>3. n \in Lengths
  BY <1>1, <1>2, StepByStep
<1>4. PICK f : Loop(f, n)
  BY <1>3 DEF Lengths
<1>5. f \in [0 .. n -> S] /\ \A i \in 0 .. n : <<i, f[i]>> \in G
  BY <1>4
<1>6. f[0] = x0 /\ \A i \in 1 .. n : f[i] = F[<<i, f[i - 1]>>]
  <2>1. f = [i \in 0 .. n |-> IF i = 0 THEN x0 ELSE F[<<i, f[i - 1]>>]] /\ 0 \in 0 .. n
    BY <1>4
  <2>2. \A i \in 0 .. n : f[i] = IF i = 0 THEN x0 ELSE F[<<i, f[i - 1]>>]
    BY <2>1
  <2>3. \A i \in 1 .. n : i \in 0 .. n /\ i # 0
    OBVIOUS
  <2> QED BY <2>1, <2>2, <2>3
<1> QED BY <1>5, <1>6

\* The last element of a sequence, and the others.
LEMMA FrontLast ==
  ASSUME NEW S, NEW s \in Seq(S), s # << >>
  PROVE  /\ Len(s) \in Nat \ {0} /\ Front(s) \in Seq(S) /\ Last(s) \in S
         /\ Len(Front(s)) = Len(s) - 1 /\ Last(s) = s[Len(s)]
         /\ \A i \in 1 .. Len(s) - 1 : Front(s)[i] = s[i]
         /\ ToSet(s) = ToSet(Front(s)) \cup {Last(s)}
<1>1. Len(s) \in Nat \ {0} /\ DOMAIN s = 1 .. Len(s)
  OBVIOUS
<1>2. Front(s) \in Seq(S) /\ Len(Front(s)) = Len(s) - 1
      /\ \A i \in 1 .. Len(s) - 1 : Front(s)[i] = s[i]
  BY <1>1 DEF Front
<1>3. DOMAIN Front(s) = 1 .. Len(s) - 1
  BY <1>1, <1>2
<1>4. ToSet(s) = ToSet(Front(s)) \cup {s[Len(s)]}
  BY <1>1, <1>2, <1>3 DEF ToSet
<1> QED BY <1>1, <1>2, <1>4 DEF Last

\* What appending does to a sequence.
LEMMA Appended ==
  ASSUME NEW S, NEW s \in Seq(S), NEW e \in S
  PROVE  /\ Append(s, e) \in Seq(S) /\ Append(s, e) # << >>
         /\ Len(Append(s, e)) = Len(s) + 1 /\ Append(s, e)[Len(s) + 1] = e
         /\ \A i \in 1 .. Len(s) : Append(s, e)[i] = s[i]
         /\ Front(Append(s, e)) = s /\ Last(Append(s, e)) = e
         /\ ToSet(Append(s, e)) = ToSet(s) \cup {e}
<1>1. /\ Append(s, e) \in Seq(S) /\ Append(s, e) # << >>
      /\ Len(Append(s, e)) = Len(s) + 1 /\ Append(s, e)[Len(s) + 1] = e
      /\ \A i \in 1 .. Len(s) : Append(s, e)[i] = s[i]
  OBVIOUS
<1>2. Last(Append(s, e)) = e
  BY <1>1 DEF Last
<1>3. Front(Append(s, e)) = s
  BY <1>1, FrontLast DEF Front
<1>4. ToSet(Append(s, e)) = ToSet(s) \cup {e}
  BY <1>1, <1>2, <1>3, FrontLast
<1> QED BY <1>1, <1>2, <1>3, <1>4

-----------------------------------------------------------------------------
(* Writing to packets                                                      *)

\* The channel and the queue of reliable bunches of x and y are the same.
SameChannel(x, y) ==
  /\ x.exists = y.exists /\ x.OpenPacketId = y.OpenPacketId /\ x.OpenAcked = y.OpenAcked
  /\ x.Closing = y.Closing /\ x.bPausedUntilReliableACK = y.bPausedUntilReliableACK
  /\ x.OutRec = y.OutRec /\ x.OutReliable = y.OutReliable
  /\ x.ChannelsToClose = y.ChannelsToClose /\ x.connected = y.connected
  /\ x.numbered = y.numbered /\ x.sent = y.sent

\* What was sent is sent.
SentStays(x, y) ==
  /\ Len(x.network) <= Len(y.network)
  /\ \A id \in DOMAIN x.network : id \in DOMAIN y.network /\ y.network[id] = x.network[id]

\* A packet that is sent stays what it is over several steps.
LEMMA SentStaysTransitive ==
  ASSUME NEW x \in SenderState, NEW y \in SenderState, NEW z \in SenderState,
         SentStays(x, y), SentStays(y, z)
  PROVE  SentStays(x, z)
<1>1. Len(x.network) \in Nat /\ Len(y.network) \in Nat /\ Len(z.network) \in Nat
  BY DEF SenderState
<1> QED BY <1>1 DEF SentStays

\* The types of the sender's fields.
LEMMA SenderFields ==
  ASSUME NEW s \in SenderState
  PROVE  /\ s.exists \in BOOLEAN /\ s.OpenPacketId \in Nat /\ s.OpenAcked \in BOOLEAN
         /\ s.Closing \in BOOLEAN /\ s.bPausedUntilReliableACK \in BOOLEAN
         /\ s.OutRec \in Seq(OutBunch) /\ s.OutReliable \in Nat /\ s.SendBuffer \in Seq(Bunch)
         /\ s.AllowMerge \in BOOLEAN /\ s.ChannelsToClose \in BOOLEAN
         /\ s.connected \in BOOLEAN /\ s.network \in Seq(Seq(Bunch))
         /\ s.numbered \in Seq([bunch : Bunch, upto : Stream]) /\ s.sent \in Stream
         /\ Len(s.OutRec) \in Nat /\ Len(s.network) \in Nat /\ Len(s.numbered) \in Nat
         /\ DOMAIN s.OutRec = 1 .. Len(s.OutRec) /\ DOMAIN s.network = 1 .. Len(s.network)
BY DEF SenderState

\* The lengths and domains of the sender's sequences.
LEMMA SenderLengths ==
  ASSUME NEW s \in SenderState
  PROVE  /\ Len(s.OutRec) \in Nat /\ Len(s.network) \in Nat /\ Len(s.numbered) \in Nat
         /\ DOMAIN s.OutRec = 1 .. Len(s.OutRec) /\ DOMAIN s.network = 1 .. Len(s.network)
         /\ DOMAIN s.numbered = 1 .. Len(s.numbered)
BY DEF SenderState

\* FlushNet moves the packet that is written to those that are sent, no more.
LEMMA FlushKeeps ==
  ASSUME NEW s \in SenderState
  PROVE  /\ FlushNet(s) \in SenderState /\ SameChannel(FlushNet(s), s)
         /\ FlushNet(s).SendBuffer = << >> /\ FlushNet(s).AllowMerge = s.AllowMerge
         /\ SentStays(s, FlushNet(s))
         /\ \A id \in Nat : InPacket(FlushNet(s), id) = InPacket(s, id)
<1> DEFINE y == FlushNet(s)
           N == Len(s.network)
<1>1. CASE s.SendBuffer = << >>
  BY <1>1, SenderFields DEF FlushNet, SameChannel, SentStays
<1>2. CASE s.SendBuffer # << >>
  <2>1. y = [s EXCEPT !.network = Append(s.network, s.SendBuffer), !.SendBuffer = << >>]
    BY <1>2 DEF FlushNet
  <2>2. y \in SenderState /\ SameChannel(y, s) /\ y.AllowMerge = s.AllowMerge
        /\ y.SendBuffer = << >> /\ y.network = Append(s.network, s.SendBuffer)
    <3>1. Append(s.network, s.SendBuffer) \in Seq(Seq(Bunch)) /\ << >> \in Seq(Bunch)
      BY SenderFields
    <3> QED BY <2>1, <3>1 DEF SenderState, SameChannel
  <2>3. N \in Nat /\ DOMAIN s.network = 1 .. N /\ Len(y.network) = N + 1
        /\ y.network[N + 1] = s.SendBuffer
        /\ \A id \in 1 .. N : y.network[id] = s.network[id]
        /\ DOMAIN y.network = 1 .. N + 1
    BY <2>2, SenderFields
  <2>4. SentStays(s, y)
    BY <2>3 DEF SentStays
  <2>5. ToSet(<< >>) = {}
    BY DEF ToSet
  <2>6. ASSUME NEW id \in Nat PROVE InPacket(y, id) = InPacket(s, id)
    <3>1. CASE id \in 1 .. N
      BY <2>3, <3>1 DEF InPacket
    <3>2. CASE id = N + 1
      BY <2>3, <3>2 DEF InPacket
    <3>3. CASE id \notin 1 .. N + 1
      <4>1. InPacket(s, id) = {}
        BY <2>3, <3>3 DEF InPacket
      <4>2. id \notin DOMAIN y.network
        BY <2>3, <3>3
      <4> QED BY <2>2, <2>5, <4>1, <4>2 DEF InPacket
    <3> QED BY <2>3, <3>1, <3>2, <3>3
  <2> QED BY <2>2, <2>4, <2>6
<1> QED BY <1>1, <1>2

\* A bunch is written to one packet, which has not been sent, and the rest stays.
Writes(s, bunch, merge, y) ==
  /\ y \in SenderState /\ SameChannel(y, s) /\ SentStays(s, y)
  /\ PacketIdFor(s, bunch) \in Nat /\ PacketIdFor(s, bunch) > Len(s.network)
  /\ \A id \in Nat : InPacket(y, id) =
       InPacket(s, id) \cup (IF id = PacketIdFor(s, bunch) THEN {bunch} ELSE {})
  /\ y.AllowMerge /\ y.SendBuffer # << >> =>
       /\ merge /\ Last(y.SendBuffer) = bunch
       /\ ToSet(Front(y.SendBuffer)) \subseteq InPacket(s, Len(s.network) + 1)

\* SendRawBunch writes the bunch to the packet PacketIdFor names.
LEMMA SendRawBunchWrites ==
  ASSUME NEW s \in SenderState, NEW bunch \in Bunch, NEW merge \in BOOLEAN
  PROVE  Writes(s, bunch, merge, SendRawBunch(s, bunch, merge))
<1> DEFINE p == PrepareWrite(s, bunch)
           N == Len(p.network)
           w == [p EXCEPT !.SendBuffer = Append(p.SendBuffer, bunch),
                          !.AllowMerge = merge /\ p.SendBuffer # << >>]
           y == SendRawBunch(s, bunch, merge)
<1>1. /\ p \in SenderState /\ SameChannel(p, s) /\ SentStays(s, p)
      /\ p = s \/ p.SendBuffer = << >>
      /\ \A id \in Nat : InPacket(p, id) = InPacket(s, id)
  BY FlushKeeps, SenderFields DEF PrepareWrite, SameChannel, SentStays
<1>2. y = w \/ y = FlushNet(w)
  BY DEF SendRawBunch
<1>3. PacketIdFor(s, bunch) = N + 1 /\ N \in Nat /\ DOMAIN p.network = 1 .. N
      /\ N >= Len(s.network) /\ Len(s.network) \in Nat
  BY <1>1, SenderFields DEF PacketIdFor, OutPacketId, SentStays
<1>4. p.SendBuffer \in Seq(Bunch) /\ p.AllowMerge \in BOOLEAN
  BY <1>1, SenderFields
<1>5. Append(p.SendBuffer, bunch) \in Seq(Bunch)
      /\ ToSet(Append(p.SendBuffer, bunch)) = ToSet(p.SendBuffer) \cup {bunch}
      /\ Front(Append(p.SendBuffer, bunch)) = p.SendBuffer
      /\ Last(Append(p.SendBuffer, bunch)) = bunch
  BY <1>4, Appended
<1>6. /\ w \in SenderState /\ SameChannel(w, p) /\ w.network = p.network
      /\ w.SendBuffer = Append(p.SendBuffer, bunch)
      /\ w.AllowMerge = (merge /\ p.SendBuffer # << >>)
  BY <1>1, <1>5 DEF SenderState, SameChannel
<1> HIDE DEF p, w, y
<1>7. SentStays(s, w) /\ SameChannel(w, s)
  BY <1>1, <1>6 DEF SentStays, SameChannel
<1>8. ASSUME NEW id \in Nat
      PROVE  InPacket(w, id) = InPacket(s, id) \cup (IF id = N + 1 THEN {bunch} ELSE {})
  BY <1>1, <1>3, <1>5, <1>6 DEF InPacket
<1>9. /\ y \in SenderState /\ SameChannel(y, s) /\ SentStays(s, y)
      /\ \A id \in Nat : InPacket(y, id) = InPacket(w, id)
      /\ y.AllowMerge = w.AllowMerge /\ (y.SendBuffer # << >> => y.SendBuffer = w.SendBuffer)
  <2>1. CASE y = w
    BY <1>6, <1>7, <2>1
  <2>2. CASE y = FlushNet(w)
    <3>1. /\ y \in SenderState /\ SameChannel(y, w) /\ SentStays(w, y)
          /\ \A id \in Nat : InPacket(y, id) = InPacket(w, id)
          /\ y.AllowMerge = w.AllowMerge /\ y.SendBuffer = << >>
      BY <1>6, <2>2, FlushKeeps
    <3>2. SentStays(s, y)
      BY <1>6, <1>7, <3>1, SentStaysTransitive
    <3> QED BY <1>7, <3>1, <3>2 DEF SameChannel
  <2> QED BY <1>2, <2>1, <2>2
<1>10. ASSUME y.AllowMerge, y.SendBuffer # << >>
       PROVE  merge /\ Last(y.SendBuffer) = bunch
              /\ ToSet(Front(y.SendBuffer)) \subseteq InPacket(s, Len(s.network) + 1)
  <2>1. p.SendBuffer # << >> /\ merge /\ y.SendBuffer = Append(p.SendBuffer, bunch)
    BY <1>6, <1>9, <1>10
  <2>2. p = s
    BY <1>1, <2>1
  <2>3. Len(s.network) + 1 \notin DOMAIN s.network
    BY <1>3, <2>2
  <2> QED BY <1>5, <2>1, <2>2, <2>3 DEF InPacket
<1> QED BY <1>3, <1>8, <1>9, <1>10 DEF Writes, y

-----------------------------------------------------------------------------
(* Bunches that are added to the packets                                   *)

\* The types of a bunch that waits for its acknowledgement.
LEMMA OutBunchFields ==
  ASSUME NEW s \in SenderState, NEW i \in DOMAIN s.OutRec
  PROVE  /\ s.OutRec[i] \in OutBunch /\ s.OutRec[i].bunch \in Bunch
         /\ s.OutRec[i].PacketId \in Nat /\ s.OutRec[i].ReceivedAck \in BOOLEAN
<1>1. s.OutRec[i] \in OutBunch
  BY SenderFields
<1> QED BY <1>1 DEF OutBunch

\* The types of a bunch.
LEMMA BunchFields ==
  ASSUME NEW bunch \in Bunch
  PROVE  /\ bunch.bReliable \in BOOLEAN /\ bunch.bOpen \in BOOLEAN /\ bunch.bClose \in BOOLEAN
         /\ bunch.bPartial \in BOOLEAN /\ bunch.bPartialInitial \in BOOLEAN
         /\ bunch.bPartialFinal \in BOOLEAN /\ bunch.ChSequence \in Nat
         /\ bunch.Data \in Seq(Unit)
BY DEF Bunch

\* The types of the numbered bunches.
LEMMA NumberedFields ==
  ASSUME NEW s \in SenderState, NEW k \in 1 .. Count(s)
  PROVE  s.numbered[k] \in [bunch : Bunch, upto : Stream] /\ Numbered(s, k) \in Bunch
         /\ s.numbered[k].upto \in Stream /\ Upto(s, k) = s.numbered[k].upto
<1> DEFINE Entry == [bunch : Bunch, upto : Stream]
<1>1. s.numbered[k] \in Entry
  <2>1. k \in 1 .. Len(s.numbered) /\ s.numbered \in Seq(Entry)
    BY SenderFields DEF Count
  <2> HIDE DEF Entry
  <2> QED BY <2>1
<1>2. k # 0
  BY SenderLengths DEF Count
<1> QED BY <1>1, <1>2 DEF Numbered, Upto

\* The bunches that are queued are the last that were numbered.
LEMMA Counts ==
  ASSUME NEW s \in SenderState, Len(s.OutRec) <= Count(s)
  PROVE  Count(s) \in Nat /\ Released(s) \in 0 .. Count(s)
         /\ Count(s) = Released(s) + Len(s.OutRec)
         /\ \A i \in DOMAIN s.OutRec : Released(s) + i \in Released(s) + 1 .. Count(s)
<1>1. Len(s.OutRec) \in Nat /\ Len(s.numbered) \in Nat
      /\ DOMAIN s.OutRec = 1 .. Len(s.OutRec)
  BY SenderLengths
<1>2. Count(s) = Len(s.numbered)
  BY DEF Count
<1>3. Released(s) = Count(s) - Len(s.OutRec)
  BY DEF Released
<1>4. Count(s) \in Nat
  BY <1>1, <1>2
<1>5. Released(s) \in 0 .. Count(s) /\ Count(s) = Released(s) + Len(s.OutRec)
  BY <1>1, <1>3, <1>4
<1>6. \A i \in 1 .. Len(s.OutRec) : Released(s) + i \in Released(s) + 1 .. Count(s)
  BY <1>1, <1>4, <1>5
<1> QED BY <1>1, <1>4, <1>5, <1>6

\* What is said of a number is the same where the numbers up to it are.
LEMMA NumberStays ==
  ASSUME NEW x, NEW y, NEW k \in Nat \ {0}, NumberRight(x, k),
         y.numbered[k] = x.numbered[k], k # 1 => y.numbered[k - 1] = x.numbered[k - 1]
  PROVE  NumberRight(y, k)
<1>1. Numbered(y, k) = Numbered(x, k) /\ y.numbered[k].upto = x.numbered[k].upto
  BY DEF Numbered
<1>2. Fresh(y, k - 1) = Fresh(x, k - 1) /\ InMessage(y, k - 1) = InMessage(x, k - 1)
      /\ Upto(y, k - 1) = Upto(x, k - 1)
  BY DEF Fresh, InMessage, Numbered, Upto
<1> QED BY <1>1, <1>2 DEF NumberRight

\* A reliable bunch of the buffer is there once: its number says where.
LEMMA BufferNumbers ==
  ASSUME NEW s \in SenderState, NumbersRight(s), NEW i \in DOMAIN s.OutRec
  PROVE  /\ Released(s) + i \in 1 .. Count(s)
         /\ s.OutRec[i].bunch.ChSequence = InitReliable + Released(s) + i
         /\ s.OutRec[i].bunch.bReliable
<1>1. Released(s) + i \in Released(s) + 1 .. Count(s) /\ Released(s) \in 0 .. Count(s)
      /\ i \in Nat
  BY Counts, SenderFields DEF NumbersRight
<1>2. Released(s) + i \in 1 .. Count(s)
  BY <1>1
<1>3. NumberRight(s, Released(s) + i) /\ s.OutRec[i].bunch = Numbered(s, Released(s) + i)
  BY <1>2 DEF NumbersRight
<1> QED BY <1>1, <1>2, <1>3, Constants DEF NumberRight

\* Bunch out is written to packet id, which has not been sent, and nothing else.
Adds(x, y, id, out) ==
  /\ id \in Nat /\ id > Len(x.network)
  /\ \A n \in Nat : InPacket(y, n) = InPacket(x, n) \cup (IF n = id THEN {out} ELSE {})
  /\ y.AllowMerge /\ y.SendBuffer # << >> =>
       /\ ~out.bPartial /\ Last(y.SendBuffer) = out
       /\ ToSet(Front(y.SendBuffer)) \subseteq InPacket(x, Len(x.network) + 1)

\* It is reliable, and gets the next number.
AddsReliable(x, y, id, out, upto) ==
  /\ Adds(x, y, id, out) /\ y.OutReliable = x.OutReliable + 1
  /\ y.numbered = Append(x.numbered, [bunch |-> out, upto |-> upto])
  /\ y.OutRec = Append(x.OutRec, [bunch |-> out, PacketId |-> id, ReceivedAck |-> FALSE])

\* It can be the next one.
NextReliable(x, out, upto) ==
  /\ out.bReliable /\ out.ChSequence = x.OutReliable + 1 /\ Sound(out)
  /\ out.bOpen <=> Fresh(x, Count(x))
  /\ Starts(out) <=> ~InMessage(x, Count(x))
  /\ x.OutRec # << >> => ~Numbered(x, Count(x)).bClose
  /\ upto = Upto(x, Count(x)) \o Carried(out.Data, out.bClose)

\* A reliable bunch that is numbered, queued and written in its turn is right.
LEMMA ReliableAdded ==
  ASSUME NEW x, NEW y \in SenderState, NEW t \in Nat, NEW id, NEW out \in Bunch, NEW upto,
         SendingRight(x, t), t <= Len(x.network), AddsReliable(x, y, id, out, upto),
         NextReliable(x, out, upto)
  PROVE  /\ SendingRight(y, t) /\ MergesRight(y)
         /\ Count(y) = Count(x) + 1 /\ Released(y) = Released(x)
         /\ Numbered(y, Count(y)) = out /\ Upto(y, Count(y)) = upto
         /\ \A k \in 1 .. Count(x) : y.numbered[k] = x.numbered[k]
<1> DEFINE C == Count(x)
           R == Released(x)
           L == Len(x.OutRec)
           queued == [bunch |-> out, PacketId |-> id, ReceivedAck |-> FALSE]
<1>a. /\ id \in Nat /\ id > Len(x.network)
      /\ \A n \in Nat : InPacket(y, n) = InPacket(x, n) \cup (IF n = id THEN {out} ELSE {})
      /\ y.AllowMerge /\ y.SendBuffer # << >> =>
           /\ ~out.bPartial /\ Last(y.SendBuffer) = out
           /\ ToSet(Front(y.SendBuffer)) \subseteq InPacket(x, Len(x.network) + 1)
  BY DEF AddsReliable, Adds
<1>b. /\ y.OutReliable = x.OutReliable + 1
      /\ y.numbered = Append(x.numbered, [bunch |-> out, upto |-> upto])
      /\ y.OutRec = Append(x.OutRec, queued)
  BY DEF AddsReliable
<1>c. /\ out.bReliable /\ out.ChSequence = x.OutReliable + 1 /\ Sound(out)
      /\ out.bOpen <=> Fresh(x, Count(x))
      /\ Starts(out) <=> ~InMessage(x, Count(x))
      /\ x.OutRec # << >> => ~Numbered(x, Count(x)).bClose
      /\ upto = Upto(x, Count(x)) \o Carried(out.Data, out.bClose)
  BY DEF NextReliable
<1>1. x \in SenderState /\ PacketsRight(x) /\ NumbersRight(x) /\ Placed(x, t, L)
  BY DEF SendingRight
<1>2. C \in Nat /\ L \in Nat /\ R \in 0 .. C /\ R = C - L /\ C = Len(x.numbered)
      /\ L <= C
  <2>1. L <= C
    BY <1>1 DEF NumbersRight, C, R, L
  <2> QED BY <1>1, <2>1, Counts, SenderLengths DEF Released, Count
<1>3. /\ Len(y.numbered) = C + 1 /\ y.numbered[C + 1] = [bunch |-> out, upto |-> upto]
      /\ \A k \in 1 .. C : y.numbered[k] = x.numbered[k]
  BY <1>1, <1>2, <1>b, SenderFields
<1>4. /\ Len(y.OutRec) = L + 1 /\ y.OutRec[L + 1] = queued
      /\ \A i \in 1 .. L : y.OutRec[i] = x.OutRec[i]
      /\ DOMAIN y.OutRec = 1 .. L + 1 /\ DOMAIN x.OutRec = 1 .. L
  BY <1>1, <1>2, <1>b, SenderFields
<1>5. Count(y) = C + 1 /\ Released(y) = R
  <2>1. Count(y) = Len(y.numbered) /\ Released(y) = Count(y) - Len(y.OutRec)
    BY DEF Count, Released
  <2> HIDE DEF C, R, L
  <2> QED BY <1>2, <1>3, <1>4, <2>1
<1>6. Numbered(y, C + 1) = out /\ Upto(y, C + 1) = upto
      /\ \A k \in 1 .. C : Numbered(y, k) = Numbered(x, k)
  <2> HIDE DEF C, R, L
  <2>1. C + 1 # 0
    BY <1>2
  <2>2. Numbered(y, C + 1) = out /\ Upto(y, C + 1) = upto
    <3>1. y.numbered[C + 1].bunch = out /\ y.numbered[C + 1].upto = upto
      BY <1>3
    <3> QED BY <2>1, <3>1 DEF Numbered, Upto
  <2> QED BY <1>3, <2>2 DEF Numbered
<1> HIDE DEF C, R, L
<1>7. PacketsRight(y)
  BY <1>1, <1>a, <1>c DEF PacketsRight
<1>8. NumbersRight(y)
  <2>1. Len(y.OutRec) <= Count(y) /\ y.OutReliable = InitReliable + Count(y)
    <3>1. x.OutReliable = InitReliable + C /\ L <= C
      BY <1>1 DEF NumbersRight, C, R, L
    <3> QED BY <1>2, <1>4, <1>5, <1>b, <3>1, Constants
  <2>2. ASSUME NEW k \in 1 .. Count(y) PROVE NumberRight(y, k)
    <3>1. CASE k \in 1 .. C
      <4>1. NumberRight(x, k)
        BY <1>1, <3>1 DEF NumbersRight, C, R, L
      <4>2. k \in Nat \ {0} /\ (k # 1 => k - 1 \in 1 .. C)
        BY <1>2, <3>1
      <4>3. y.numbered[k] = x.numbered[k] /\ (k # 1 => y.numbered[k - 1] = x.numbered[k - 1])
        BY <1>3, <3>1, <4>2
      <4> QED BY <4>1, <4>2, <4>3, NumberStays
    <3>2. CASE k = C + 1
      <4>1. k - 1 = C /\ k # 0
        BY <1>2, <3>2
      <4>2. Fresh(y, C) = Fresh(x, C) /\ InMessage(y, C) = InMessage(x, C)
            /\ Upto(y, C) = Upto(x, C)
        BY <1>2, <1>3, <1>6 DEF Fresh, InMessage, Upto
      <4>3. out.ChSequence = InitReliable + k
        <5>1. x.OutReliable = InitReliable + C
          BY <1>1 DEF NumbersRight, C
        <5> QED BY <1>2, <1>c, <3>2, <5>1, Constants
      <4>4. Numbered(y, k) = out /\ y.numbered[k].upto = upto
        BY <1>3, <1>6, <3>2
      <4> QED BY <1>c, <4>1, <4>2, <4>3, <4>4 DEF NumberRight, C
    <3> QED BY <1>2, <1>5, <3>1, <3>2
  <2>3. ASSUME NEW i \in DOMAIN y.OutRec
        PROVE  y.OutRec[i].bunch = Numbered(y, Released(y) + i)
    <3>1. CASE i \in 1 .. L
      <4>1. R + i \in 1 .. C
        BY <1>2, <3>1
      <4> QED BY <1>1, <1>4, <1>5, <1>6, <3>1, <4>1 DEF NumbersRight, C, R, L
    <3>2. CASE i = L + 1
      <4>1. Released(y) + i = C + 1
        <5>1. C \in Int /\ L \in Int /\ R = C - L
          BY <1>2
        <5>2. R + (L + 1) = C + 1
          BY <5>1
        <5> QED BY <1>5, <3>2, <5>2
      <4> QED BY <1>4, <1>6, <3>2, <4>1
    <3> QED BY <1>2, <1>4, <3>1, <3>2
  <2>4. ASSUME NEW k \in Released(y) + 1 .. Count(y) - 1 PROVE ~Numbered(y, k).bClose
    <3>1. k \in 1 .. C /\ k \in R + 1 .. C
      BY <1>2, <1>5
    <3>2. CASE k = C
      <4>1. x.OutRec # << >>
        <5>1. L # 0
          BY <1>2, <3>1, <3>2
        <5> QED BY <1>1, <5>1, SenderFields DEF L
      <4> QED BY <1>6, <1>c, <3>1, <3>2, <4>1 DEF C
    <3>3. CASE k # C
      <4>1. k \in R + 1 .. C - 1
        BY <1>2, <3>1, <3>3
      <4> QED BY <1>1, <1>6, <3>1, <4>1 DEF NumbersRight, C, R, L
    <3> QED BY <3>2, <3>3
  <2> QED BY <2>1, <2>2, <2>3, <2>4 DEF NumbersRight, C, R, L
<1>9. Placed(y, t, Len(y.OutRec))
  <2>1. ASSUME NEW n \in DOMAIN y.OutRec, ~y.OutRec[n].ReceivedAck
        PROVE  /\ y.OutRec[n].PacketId > t \/ (n > Len(y.OutRec) /\ y.OutRec[n].PacketId = t)
               /\ y.OutRec[n].bunch \in InPacket(y, y.OutRec[n].PacketId)
    <3>1. CASE n \in 1 .. L
      <4>1. /\ x.OutRec[n].PacketId > t \/ (n > L /\ x.OutRec[n].PacketId = t)
            /\ x.OutRec[n].bunch \in InPacket(x, x.OutRec[n].PacketId)
            /\ x.OutRec[n].PacketId \in Nat
        BY <1>1, <1>4, <2>1, <3>1, OutBunchFields DEF Placed, L
      <4> QED BY <1>2, <1>4, <1>a, <3>1, <4>1
    <3>2. CASE n = L + 1
      <4>1. Len(x.network) \in Nat
        BY <1>1, SenderLengths
      <4> QED BY <1>4, <1>a, <3>2, <4>1
    <3> QED BY <1>2, <1>4, <3>1, <3>2
  <2>2. ASSUME NEW n \in Nat, NEW bunch \in InPacket(y, n), n > t, bunch.bReliable
        PROVE  \E i \in DOMAIN y.OutRec : /\ y.OutRec[i].bunch = bunch
                                          /\ y.OutRec[i].PacketId = n
                                          /\ ~y.OutRec[i].ReceivedAck
    <3>1. CASE bunch \in InPacket(x, n)
      <4>1. PICK i \in DOMAIN x.OutRec : /\ x.OutRec[i].bunch = bunch
                                         /\ x.OutRec[i].PacketId = n
                                         /\ ~x.OutRec[i].ReceivedAck
        BY <1>1, <2>2, <3>1 DEF Placed, L
      <4>2. i \in DOMAIN y.OutRec
        BY <1>2, <1>4
      <4> QED BY <1>4, <4>1, <4>2
    <3>2. CASE n = id /\ bunch = out
      <4>1. L + 1 \in DOMAIN y.OutRec
        BY <1>2, <1>4
      <4> QED BY <1>4, <3>2, <4>1
    <3> QED BY <1>a, <2>2, <3>1, <3>2
  <2> QED BY <2>1, <2>2 DEF Placed
<1>10. MergesRight(y)
  <2>1. SUFFICES ASSUME y.AllowMerge, y.SendBuffer # << >>, out \in ToSet(Front(y.SendBuffer))
                 PROVE  FALSE
    BY <1>5, <1>6, <1>a DEF MergesRight, Mergeable
  <2>2. Len(x.network) \in Nat
    BY <1>1, SenderFields
  <2>3. out \in InPacket(x, Len(x.network) + 1) /\ Len(x.network) + 1 > t
        /\ Len(x.network) + 1 \in Nat
    BY <1>a, <2>1, <2>2
  <2>4. PICK n \in DOMAIN x.OutRec : x.OutRec[n].bunch = out
    BY <1>1, <1>c, <2>3 DEF Placed, L
  <2>5. out.ChSequence = InitReliable + R + n /\ R + n \in 1 .. C
        /\ n \in 1 .. L
    BY <1>1, <1>4, <2>4, BufferNumbers DEF C, R
  <2>6. out.ChSequence = InitReliable + C + 1
    BY <1>1, <1>2, <1>c, Constants DEF NumbersRight, C, R, L
  <2> QED BY <1>2, <2>5, <2>6, Constants
<1> QED BY <1>3, <1>5, <1>6, <1>7, <1>8, <1>9, <1>10 DEF SendingRight, C, R

\* An unreliable bunch gets no number.
AddsUnreliable(x, y, id, out) ==
  /\ Adds(x, y, id, out)
  /\ y.OutReliable = x.OutReliable /\ y.numbered = x.numbered /\ y.OutRec = x.OutRec

\* An unreliable bunch that is written disturbs no reliable one.
LEMMA UnreliableAdded ==
  ASSUME NEW x, NEW y \in SenderState, NEW t \in Nat, NEW id, NEW out \in Bunch,
         SendingRight(x, t), ~out.bReliable, Sound(out), AddsUnreliable(x, y, id, out)
  PROVE  SendingRight(y, t) /\ MergesRight(y)
<1>a. /\ id \in Nat /\ id > Len(x.network)
      /\ \A n \in Nat : InPacket(y, n) = InPacket(x, n) \cup (IF n = id THEN {out} ELSE {})
      /\ y.AllowMerge /\ y.SendBuffer # << >> => Last(y.SendBuffer) = out
      /\ y.OutReliable = x.OutReliable /\ y.numbered = x.numbered /\ y.OutRec = x.OutRec
  BY DEF AddsUnreliable, Adds
<1>1. x \in SenderState /\ PacketsRight(x) /\ NumbersRight(x) /\ Placed(x, t, Len(x.OutRec))
  BY DEF SendingRight
<1>2. PacketsRight(y)
  BY <1>1, <1>a DEF PacketsRight
<1>3. Count(y) = Count(x) /\ Released(y) = Released(x)
      /\ \A k : Numbered(y, k) = Numbered(x, k)
  BY <1>a DEF Count, Released, Numbered
<1>4. NumbersRight(y)
  <2>1. ASSUME NEW k \in 1 .. Count(y) PROVE NumberRight(y, k)
    <3>1. NumberRight(x, k) /\ Count(x) \in Nat
      BY <1>1, <1>3, Counts DEF NumbersRight
    <3> QED BY <3>1, <1>3, <1>a, NumberStays
  <2> QED BY <1>1, <1>3, <1>a, <2>1 DEF NumbersRight
<1>5. Placed(y, t, Len(y.OutRec))
  <2>1. ASSUME NEW n \in DOMAIN y.OutRec, ~y.OutRec[n].ReceivedAck
        PROVE  /\ y.OutRec[n].PacketId > t \/ (n > Len(y.OutRec) /\ y.OutRec[n].PacketId = t)
               /\ y.OutRec[n].bunch \in InPacket(y, y.OutRec[n].PacketId)
    <3>1. y.OutRec[n].PacketId \in Nat
      BY <1>1, <1>a, OutBunchFields
    <3> QED BY <1>1, <1>a, <2>1, <3>1 DEF Placed
  <2>2. ASSUME NEW n \in Nat, NEW bunch \in InPacket(y, n), n > t, bunch.bReliable
        PROVE  bunch \in InPacket(x, n)
    BY <1>a, <2>2
  <2> QED BY <1>1, <1>a, <2>1, <2>2 DEF Placed
<1>6. MergesRight(y)
  BY <1>a DEF MergesRight, Mergeable
<1> QED BY <1>2, <1>4, <1>5, <1>6 DEF SendingRight


-----------------------------------------------------------------------------
(* The pieces of a bunch                                                   *)

\* What SendBunch splits into pieces.
WholeBunch == [bReliable : BOOLEAN, bClose : BOOLEAN, bOpen : BOOLEAN, Data : Seq(Unit)]

\* Streams are closed under concatenation.
LEMMA StreamFacts ==
  /\ << >> \in Stream
  /\ \A a \in Stream, b \in Stream : a \o b \in Stream
  /\ \A data \in Seq(Unit) : data \in Stream
  /\ \A data \in Seq(Unit), bClose \in BOOLEAN : Carried(data, bClose) \in Stream
<1> DEFINE T == Unit \cup {CloseMark}
<1>1. Stream = Seq(T) /\ Unit \subseteq T /\ CloseMark \in T
  BY DEF Stream
<1>2. \A data \in Seq(Unit) : data \in Seq(T)
  <2> HIDE DEF T
  <2> QED BY <1>1
<1>3. \A data \in Seq(Unit) : Append(data, CloseMark) \in Seq(T)
  <2> HIDE DEF T
  <2> QED BY <1>1, <1>2
<1>4. \A data \in Seq(Unit), bClose \in BOOLEAN : Carried(data, bClose) \in Seq(T)
  BY <1>2, <1>3 DEF Carried
<1>5. << >> \in Seq(T) /\ \A a \in Seq(T), b \in Seq(T) : a \o b \in Seq(T)
  <2> HIDE DEF T
  <2> QED OBVIOUS
<1> QED BY <1>1, <1>2, <1>4, <1>5

\* A piece of a bunch is a bunch.
LEMMA PieceType ==
  ASSUME NEW bunch \in WholeBunch, NEW data \in Seq(Unit), NEW i \in Nat, NEW count \in Nat,
         NEW n \in Nat
  PROVE  Piece(bunch, data, i, count, n) \in Bunch
BY DEF Piece, WholeBunch, Bunch

\* The fields of the sender after a piece.
PieceDone(x, bunch, data, i, count, n, merged, merge) ==
  LET y == SendPiece(x, bunch, data, i, count, merged, merge)
      out == Piece(bunch, data, i, count, n)
      id == PacketIdFor(x, out)
      z == SendRawBunch(x, out, merge)
      before == IF merged THEN Front(x.numbered) ELSE x.numbered
      through == IF before = << >> THEN << >> ELSE Last(before).upto
      queued == [bunch |-> out, PacketId |-> id, ReceivedAck |-> FALSE]
  IN  /\ y \in SenderState /\ out \in Bunch /\ Writes(x, out, merge, z)
      /\ y.network = z.network /\ y.SendBuffer = z.SendBuffer
      /\ y.AllowMerge = z.AllowMerge
      /\ y.exists = x.exists /\ y.OpenAcked = x.OpenAcked /\ y.sent = x.sent
      /\ y.ChannelsToClose = x.ChannelsToClose /\ y.connected = x.connected
      /\ y.OpenPacketId = (IF bunch.bOpen THEN id ELSE x.OpenPacketId)
      /\ y.Closing = (x.Closing \/ out.bClose)
      /\ y.OutReliable = (IF bunch.bReliable /\ ~merged THEN x.OutReliable + 1
                          ELSE x.OutReliable)
      /\ y.numbered = (IF ~bunch.bReliable THEN x.numbered
                       ELSE Append(before, [bunch |-> out,
                              upto |-> through \o Carried(data, out.bClose)]))
      /\ y.OutRec = (IF ~bunch.bReliable THEN x.OutRec
                     ELSE Append(IF merged THEN Front(x.OutRec) ELSE x.OutRec, queued))

\* What an iteration of SendBunch's loop does, field by field.
LEMMA PieceFields ==
  ASSUME NEW x \in SenderState, NEW bunch \in WholeBunch, NEW data \in Seq(Unit),
         NEW i \in Nat, NEW count \in Nat, NEW merged \in BOOLEAN, NEW merge \in BOOLEAN,
         NEW n \in Nat,
         n = IF ~bunch.bReliable THEN 0
             ELSE IF merged THEN Last(x.OutRec).bunch.ChSequence ELSE x.OutReliable + 1,
         merged => bunch.bReliable /\ x.numbered # << >> /\ x.OutRec # << >>
  PROVE  PieceDone(x, bunch, data, i, count, n, merged, merge)
<1> DEFINE y == SendPiece(x, bunch, data, i, count, merged, merge)
           out == Piece(bunch, data, i, count, n)
           id == PacketIdFor(x, out)
           z == SendRawBunch(x, out, merge)
           before == IF merged THEN Front(x.numbered) ELSE x.numbered
           through == IF before = << >> THEN << >> ELSE Last(before).upto
           upto == through \o Carried(data, out.bClose)
           queued == [bunch |-> out, PacketId |-> id, ReceivedAck |-> FALSE]
           OutReliable2 == IF bunch.bReliable /\ ~merged THEN z.OutReliable + 1
                           ELSE z.OutReliable
           numbered2 == IF ~bunch.bReliable THEN z.numbered
                        ELSE Append(before, [bunch |-> out, upto |-> upto])
           OutRec2 == IF ~bunch.bReliable THEN z.OutRec
                      ELSE Append(IF merged THEN Front(z.OutRec) ELSE z.OutRec, queued)
           OpenPacketId2 == IF bunch.bOpen THEN id ELSE z.OpenPacketId
           Closing2 == z.Closing \/ out.bClose
           Entry == [bunch : Bunch, upto : Stream]
<1>1. out \in Bunch
  BY PieceType
<1>2. Writes(x, out, merge, z)
  BY <1>1, SendRawBunchWrites
<1>3. z \in SenderState /\ SameChannel(z, x) /\ id \in Nat
  BY <1>2 DEF Writes
<1>4. y = [z EXCEPT !.OutReliable = OutReliable2, !.numbered = numbered2,
                    !.OutRec = OutRec2, !.OpenPacketId = OpenPacketId2, !.Closing = Closing2]
  BY DEF SendPiece
<1>5. OutReliable2 \in Nat /\ OpenPacketId2 \in Nat
  BY <1>3, SenderFields
<1>6. Closing2 \in BOOLEAN
  <2>1. z.Closing \in BOOLEAN /\ out.bClose \in BOOLEAN
    BY <1>1, <1>3, SenderFields, BunchFields
  <2> QED BY <2>1
<1>7. before \in Seq(Entry) /\ Len(before) \in Nat /\ Carried(data, out.bClose) \in Stream
      /\ through \in Stream
  <2>1. x.numbered \in Seq(Entry) /\ out.bClose \in BOOLEAN
    BY <1>1, SenderFields, BunchFields
  <2>2. before \in Seq(Entry)
    <3> HIDE DEF Entry
    <3>1. CASE merged
      BY <2>1, <3>1, FrontLast
    <3>2. CASE ~merged
      BY <2>1, <3>2
    <3> QED BY <3>1, <3>2
  <2>3. before # << >> => Last(before) \in Entry
    <3> HIDE DEF Entry, before
    <3> QED BY <2>2, FrontLast
  <2>4. through \in Stream
    BY <2>3, StreamFacts
  <2> QED BY <2>1, <2>2, <2>4, StreamFacts
<1>8. numbered2 \in Seq(Entry)
  <2>1. upto \in Stream
    <3> HIDE DEF through
    <3> QED BY <1>7, StreamFacts
  <2>2. [bunch |-> out, upto |-> upto] \in Entry
    <3> HIDE DEF out, upto
    <3> QED BY <1>1, <2>1
  <2>3. z.numbered \in Seq(Entry)
    BY <1>3, SenderFields
  <2> HIDE DEF before, Entry, upto, out
  <2> QED BY <1>7, <2>2, <2>3
<1>9. OutRec2 \in Seq(OutBunch)
  <2>1. queued \in OutBunch
    <3> HIDE DEF out, id
    <3> QED BY <1>1, <1>3 DEF OutBunch
  <2>2. z.OutRec \in Seq(OutBunch) /\ z.OutRec = x.OutRec
    BY <1>3, SenderFields DEF SameChannel
  <2>3. merged => Front(z.OutRec) \in Seq(OutBunch)
    BY <2>2, FrontLast
  <2> HIDE DEF queued
  <2> QED BY <2>1, <2>2, <2>3
<1> HIDE DEF y, out, id, z, before, through, upto, queued, OutReliable2, numbered2, OutRec2, OpenPacketId2, Closing2
<1>10. /\ y \in SenderState
       /\ y.network = z.network /\ y.SendBuffer = z.SendBuffer /\ y.AllowMerge = z.AllowMerge
       /\ y.exists = z.exists /\ y.OpenAcked = z.OpenAcked /\ y.sent = z.sent
       /\ y.ChannelsToClose = z.ChannelsToClose /\ y.connected = z.connected
       /\ y.OutReliable = OutReliable2 /\ y.numbered = numbered2 /\ y.OutRec = OutRec2
       /\ y.OpenPacketId = OpenPacketId2 /\ y.Closing = Closing2
  BY <1>3, <1>4, <1>5, <1>6, <1>8, <1>9 DEF SenderState
<1>11. /\ y.exists = x.exists /\ y.OpenAcked = x.OpenAcked /\ y.sent = x.sent
       /\ y.ChannelsToClose = x.ChannelsToClose /\ y.connected = x.connected
       /\ y.OpenPacketId = (IF bunch.bOpen THEN id ELSE x.OpenPacketId)
       /\ y.Closing = (x.Closing \/ out.bClose)
       /\ y.OutReliable = (IF bunch.bReliable /\ ~merged THEN x.OutReliable + 1
                           ELSE x.OutReliable)
  BY <1>3, <1>10 DEF SameChannel, OutReliable2, OpenPacketId2, Closing2
<1>12. y.numbered = (IF ~bunch.bReliable THEN x.numbered
                     ELSE Append(before, [bunch |-> out, upto |-> upto]))
  BY <1>3, <1>10 DEF SameChannel, numbered2
<1>13. y.OutRec = (IF ~bunch.bReliable THEN x.OutRec
                   ELSE Append(IF merged THEN Front(x.OutRec) ELSE x.OutRec, queued))
  BY <1>3, <1>10 DEF SameChannel, OutRec2
<1> QED
  BY <1>1, <1>2, <1>10, <1>11, <1>12, <1>13
  DEF PieceDone, y, out, id, z, before, through, upto, queued


\* What a piece does to the channel.
ChannelAfter(x, y, bunch, id, bClose) ==
  /\ y.exists = x.exists /\ y.OpenAcked = x.OpenAcked /\ y.sent = x.sent
  /\ y.ChannelsToClose = x.ChannelsToClose /\ y.connected = x.connected
  /\ y.OpenPacketId = (IF bunch.bOpen THEN id ELSE x.OpenPacketId)
  /\ y.Closing = (x.Closing \/ bClose)

\* The only piece of a bunch is not partial.
LEMMA PieceParts ==
  ASSUME NEW bunch, NEW data, NEW i, NEW count, NEW n, NEW merge, merge => count = 1
  PROVE  merge => ~Piece(bunch, data, i, count, n).bPartial
<1> SUFFICES ASSUME count = 1 PROVE ~(count > 1)
  BY DEF Piece
<1> QED OBVIOUS

\* What SendRawBunch writes is added to one packet.
LEMMA WrittenAdds ==
  ASSUME NEW x, NEW y, NEW z, NEW out, NEW merge, Writes(x, out, merge, z),
         merge => ~out.bPartial,
         y.network = z.network, y.SendBuffer = z.SendBuffer, y.AllowMerge = z.AllowMerge
  PROVE  Adds(x, y, PacketIdFor(x, out), out) /\ SentStays(x, y)
<1>1. \A n : InPacket(y, n) = InPacket(z, n)
  BY DEF InPacket
<1> QED BY <1>1 DEF Writes, Adds, SentStays

\* An iteration for a reliable bunch that is not merged.
LEMMA ReliablePiece ==
  ASSUME NEW x \in SenderState, NEW bunch \in WholeBunch, NEW data \in Seq(Unit),
         NEW i \in Nat, NEW count \in Nat, NEW merged \in BOOLEAN, NEW merge \in BOOLEAN,
         bunch.bReliable, ~merged, merge => count = 1
  PROVE  LET y == SendPiece(x, bunch, data, i, count, merged, merge)
             out == Piece(bunch, data, i, count, x.OutReliable + 1)
             id == PacketIdFor(x, out)
         IN  /\ y \in SenderState /\ out \in Bunch /\ SentStays(x, y)
             /\ AddsReliable(x, y, id, out, Upto(x, Count(x)) \o Carried(data, out.bClose))
             /\ ChannelAfter(x, y, bunch, id, out.bClose)
<1> DEFINE y == SendPiece(x, bunch, data, i, count, merged, merge)
           n == x.OutReliable + 1
           out == Piece(bunch, data, i, count, n)
           id == PacketIdFor(x, out)
           z == SendRawBunch(x, out, merge)
           through == IF x.numbered = << >> THEN << >> ELSE Last(x.numbered).upto
           queued == [bunch |-> out, PacketId |-> id, ReceivedAck |-> FALSE]
<1>1. n \in Nat
  BY SenderFields
<1>a. PieceDone(x, bunch, data, i, count, n, merged, merge)
  <2> HIDE DEF n
  <2>1. n = IF ~bunch.bReliable THEN 0
            ELSE IF merged THEN Last(x.OutRec).bunch.ChSequence ELSE x.OutReliable + 1
    BY DEF n
  <2> QED BY <1>1, <2>1, PieceFields
<1>2. /\ y \in SenderState /\ out \in Bunch /\ Writes(x, out, merge, z)
      /\ y.network = z.network /\ y.SendBuffer = z.SendBuffer
      /\ y.AllowMerge = z.AllowMerge
      /\ y.exists = x.exists /\ y.OpenAcked = x.OpenAcked /\ y.sent = x.sent
      /\ y.ChannelsToClose = x.ChannelsToClose /\ y.connected = x.connected
      /\ y.OpenPacketId = (IF bunch.bOpen THEN id ELSE x.OpenPacketId)
      /\ y.Closing = (x.Closing \/ out.bClose)
      /\ y.OutReliable = x.OutReliable + 1
      /\ y.numbered = Append(x.numbered, [bunch |-> out,
                                          upto |-> through \o Carried(data, out.bClose)])
      /\ y.OutRec = Append(x.OutRec, queued)
  BY <1>a DEF PieceDone
<1>3. through = Upto(x, Count(x))
  <2>1. Len(x.numbered) \in Nat /\ x.numbered \in Seq([bunch : Bunch, upto : Stream])
    BY SenderFields
  <2>2. x.numbered = << >> <=> Len(x.numbered) = 0
    BY <2>1
  <2> QED BY <2>2 DEF Upto, Count, Last
<1>4. merge => ~out.bPartial
  BY PieceParts
<1> HIDE DEF y, out, id, z, through, n
<1>5. Adds(x, y, id, out) /\ SentStays(x, y)
  BY <1>2, <1>4, WrittenAdds DEF id
<1>6. AddsReliable(x, y, id, out, through \o Carried(data, out.bClose))
  BY <1>2, <1>5 DEF AddsReliable
<1>7. ChannelAfter(x, y, bunch, id, out.bClose)
  BY <1>2 DEF ChannelAfter
<1> QED BY <1>2, <1>3, <1>5, <1>6, <1>7 DEF y, out, id, n

\* An iteration for an unreliable bunch.
LEMMA UnreliablePiece ==
  ASSUME NEW x \in SenderState, NEW bunch \in WholeBunch, NEW data \in Seq(Unit),
         NEW i \in Nat, NEW count \in Nat, NEW merged \in BOOLEAN, NEW merge \in BOOLEAN,
         ~bunch.bReliable, merge => count = 1
  PROVE  LET y == SendPiece(x, bunch, data, i, count, merged, merge)
             out == Piece(bunch, data, i, count, 0)
             id == PacketIdFor(x, out)
         IN  /\ y \in SenderState /\ out \in Bunch /\ SentStays(x, y)
             /\ AddsUnreliable(x, y, id, out) /\ ChannelAfter(x, y, bunch, id, out.bClose)
<1> DEFINE y == SendPiece(x, bunch, data, i, count, merged, merge)
           out == Piece(bunch, data, i, count, 0)
           id == PacketIdFor(x, out)
           z == SendRawBunch(x, out, merge)
<1> HIDE DEF y
<1>1. /\ y \in SenderState /\ out \in Bunch /\ Writes(x, out, merge, z)
      /\ y.network = z.network /\ y.SendBuffer = z.SendBuffer
      /\ y.AllowMerge = z.AllowMerge
      /\ y.exists = x.exists /\ y.OpenAcked = x.OpenAcked /\ y.sent = x.sent
      /\ y.ChannelsToClose = x.ChannelsToClose /\ y.connected = x.connected
      /\ y.OpenPacketId = (IF bunch.bOpen THEN id ELSE x.OpenPacketId)
      /\ y.Closing = (x.Closing \/ out.bClose)
      /\ y.OutReliable = x.OutReliable
      /\ y.numbered = x.numbered /\ y.OutRec = x.OutRec
  <2>1. PICK m \in BOOLEAN : ~m
    OBVIOUS
  <2>2. PieceDone(x, bunch, data, i, count, 0, m, merge)
    BY <2>1, PieceFields
  <2>3. y = SendPiece(x, bunch, data, i, count, m, merge)
    BY <2>1 DEF SendPiece, y
  <2> QED BY <2>2, <2>3 DEF PieceDone
<1>2. merge => ~out.bPartial
  BY PieceParts
<1> HIDE DEF y, out, id, z
<1>3. Adds(x, y, id, out) /\ SentStays(x, y)
  BY <1>1, <1>2, WrittenAdds DEF id
<1>4. AddsUnreliable(x, y, id, out) /\ ChannelAfter(x, y, bunch, id, out.bClose)
  BY <1>1, <1>3 DEF AddsUnreliable, ChannelAfter
<1> QED BY <1>1, <1>3, <1>4 DEF y, out, id


-----------------------------------------------------------------------------
(* Merging: the last bunch is taken back, and sent again with more in it   *)

\* The sender as it was before its last bunch, which is reliable.
TakenBack(s) ==
  [s EXCEPT !.SendBuffer = Front(@), !.OutRec = Front(@), !.numbered = Front(@),
            !.OutReliable = @ - 1]

\* A bunch that may be merged with is the last one queued.
LEMMA LastWritten ==
  ASSUME NEW s, NEW t \in Nat, SendingRight(s, t), MergesRight(s), t <= Len(s.network),
         Mergeable(s)
  PROVE  LET L == Len(s.OutRec)
         IN  /\ s.OutRec # << >> /\ s.numbered # << >> /\ L \in Nat \ {0} /\ L \in DOMAIN s.OutRec
             /\ Count(s) = Released(s) + L
             /\ s.OutRec[L].bunch = Last(s.SendBuffer)
             /\ s.OutRec[L].bunch = Numbered(s, Count(s))
             /\ s.OutRec[L].PacketId = Len(s.network) + 1
             /\ s.OutRec[L].bunch.ChSequence = s.OutReliable
<1> DEFINE last == Last(s.SendBuffer)
           N == Len(s.network)
           C == Count(s)
           R == Released(s)
           L == Len(s.OutRec)
<1>1. s \in SenderState /\ NumbersRight(s) /\ Placed(s, t, Len(s.OutRec)) /\ L <= C
  BY DEF SendingRight, NumbersRight
<1>2. C \in Nat /\ R \in Nat /\ L \in Nat /\ C = R + L /\ N \in Nat /\ DOMAIN s.OutRec = 1 .. L
      /\ DOMAIN s.network = 1 .. N /\ R + 1 <= C + 1
  BY <1>1, Counts, SenderLengths
<1>3. last \in InPacket(s, N + 1)
  <2>1. last \in ToSet(s.SendBuffer) /\ N + 1 \notin DOMAIN s.network
    <3>1. s.SendBuffer \in Seq(Bunch) /\ s.SendBuffer # << >>
      BY <1>1, SenderFields DEF Mergeable
    <3>2. last \in ToSet(s.SendBuffer)
      BY <3>1, FrontLast
    <3> HIDE DEF N, last
    <3> QED BY <1>2, <3>2
  <2> QED BY <2>1 DEF InPacket
<1>4. PICK n \in DOMAIN s.OutRec : s.OutRec[n].bunch = last /\ s.OutRec[n].PacketId = N + 1
  <2>1. N + 1 \in Nat /\ N + 1 > t /\ last.bReliable
    BY <1>2 DEF Mergeable
  <2> QED BY <1>1, <1>3, <2>1 DEF Placed
<1>5. last = Numbered(s, C)
  BY DEF MergesRight, Mergeable
<1>6. R + n \in 1 .. C /\ last.ChSequence = InitReliable + R + n /\ n \in 1 .. L
  BY <1>1, <1>2, <1>4, BufferNumbers
<1>7. last.ChSequence = InitReliable + C /\ s.OutReliable = InitReliable + C
  <2>1. C \in 1 .. C
    BY <1>2, <1>6
  <2>2. NumberRight(s, C) /\ s.OutReliable = InitReliable + C
    BY <1>1, <2>1 DEF NumbersRight
  <2> QED BY <1>5, <2>2 DEF NumberRight
<1> HIDE DEF last, N, C, R, L
<1>8. n = L
  BY <1>2, <1>6, <1>7, Constants
<1>9. L \in Nat \ {0} /\ C # 0
  BY <1>2, <1>6, <1>8
<1>10. s.OutRec # << >> /\ s.numbered # << >>
  BY <1>9 DEF L, C, Count
<1> QED BY <1>2, <1>4, <1>5, <1>7, <1>8, <1>9, <1>10 DEF last, N, C, R, L

\* Taking back the last bunch leaves a sender that is right.
LEMMA TakenBackRight ==
  ASSUME NEW s, NEW t \in Nat, SendingRight(s, t), MergesRight(s), t <= Len(s.network),
         Mergeable(s)
  PROVE  LET b == TakenBack(s)
         IN  /\ SendingRight(b, t) /\ Count(b) = Count(s) - 1 /\ Released(b) = Released(s)
             /\ b.OutReliable = s.OutReliable - 1 /\ b.network = s.network /\ b.sent = s.sent
             /\ b.SendBuffer = Front(s.SendBuffer)
             /\ b.numbered = Front(s.numbered) /\ b.OutRec = Front(s.OutRec)
             /\ \A k \in 1 .. Count(b) : b.numbered[k] = s.numbered[k]
<1> DEFINE b == TakenBack(s)
           last == Last(s.SendBuffer)
           N == Len(s.network)
           C == Count(s)
           R == Released(s)
           L == Len(s.OutRec)
<1>1. s \in SenderState /\ PacketsRight(s) /\ NumbersRight(s) /\ Placed(s, t, Len(s.OutRec))
      /\ L <= C
  BY DEF SendingRight, NumbersRight
<1>2. C \in Nat /\ R \in Nat /\ L \in Nat /\ C = R + L /\ N \in Nat /\ DOMAIN s.OutRec = 1 .. L
      /\ DOMAIN s.network = 1 .. N /\ C = Len(s.numbered)
  BY <1>1, Counts, SenderLengths DEF Count
<1>3. s.OutRec # << >> /\ s.numbered # << >> /\ L \in Nat \ {0} /\ s.SendBuffer # << >>
      /\ s.OutRec[L].bunch = last /\ s.OutRec[L].bunch = Numbered(s, C)
      /\ s.OutRec[L].PacketId = N + 1 /\ s.OutRec[L].bunch.ChSequence = s.OutReliable
      /\ last \notin ToSet(Front(s.SendBuffer))
  BY LastWritten DEF MergesRight, Mergeable
<1>4. s.OutReliable = InitReliable + C
  BY <1>1 DEF NumbersRight
<1>5. Front(s.OutRec) \in Seq(OutBunch) /\ Len(Front(s.OutRec)) = L - 1
      /\ \A i \in 1 .. L - 1 : Front(s.OutRec)[i] = s.OutRec[i]
  <2>1. s.OutRec \in Seq(OutBunch) /\ s.OutRec # << >>
    BY <1>1, <1>3, SenderFields
  <2> QED BY <2>1, FrontLast
<1>6. Front(s.SendBuffer) \in Seq(Bunch)
      /\ ToSet(s.SendBuffer) = ToSet(Front(s.SendBuffer)) \cup {last}
  <2>1. s.SendBuffer \in Seq(Bunch) /\ s.SendBuffer # << >>
    BY <1>1, <1>3, SenderFields
  <2> QED BY <2>1, FrontLast
<1>7. Front(s.numbered) \in Seq([bunch : Bunch, upto : Stream])
      /\ Len(Front(s.numbered)) = C - 1 /\ C \in Nat \ {0}
      /\ \A i \in 1 .. C - 1 : Front(s.numbered)[i] = s.numbered[i]
  BY <1>1, <1>2, <1>3, SenderFields, FrontLast
<1> HIDE DEF last, N, C, R, L
<1>8. s.OutReliable - 1 \in Nat /\ s.OutReliable \in Nat
  BY <1>4, <1>7, Constants
<1>9. /\ b \in SenderState /\ b.OutReliable = s.OutReliable - 1 /\ b.network = s.network /\ b.sent = s.sent
      /\ b.SendBuffer = Front(s.SendBuffer)
      /\ b.numbered = Front(s.numbered) /\ b.OutRec = Front(s.OutRec)
  BY <1>1, <1>5, <1>6, <1>7, <1>8 DEF TakenBack, SenderState
<1> HIDE DEF b
<1>10. Count(b) = C - 1 /\ Released(b) = R /\ Len(b.OutRec) = L - 1
       /\ DOMAIN b.OutRec = 1 .. L - 1
  <2>1. Count(b) = C - 1 /\ Len(b.OutRec) = L - 1 /\ Released(b) = Count(b) - Len(b.OutRec)
    BY <1>5, <1>7, <1>9 DEF Count, Released
  <2>2. DOMAIN b.OutRec = 1 .. Len(b.OutRec)
    BY <1>9, SenderLengths
  <2> QED BY <1>2, <2>1, <2>2
<1>11. \A k \in 1 .. C - 1 : b.numbered[k] = s.numbered[k] /\ Numbered(b, k) = Numbered(s, k)
  BY <1>7, <1>9 DEF Numbered
<1>12. ASSUME NEW id \in Nat
       PROVE  IF id = N + 1 THEN InPacket(b, id) = ToSet(Front(s.SendBuffer))
                                 /\ InPacket(s, id) = ToSet(s.SendBuffer)
              ELSE InPacket(b, id) = InPacket(s, id)
  <2>1. N + 1 \notin 1 .. N
    BY <1>2
  <2> QED BY <1>2, <1>9, <2>1 DEF InPacket, N
<1>13. PacketsRight(b)
  BY <1>1, <1>6, <1>12 DEF PacketsRight
<1>14. NumbersRight(b)
  <2>1. Len(b.OutRec) <= Count(b) /\ b.OutReliable = InitReliable + Count(b)
    BY <1>2, <1>4, <1>7, <1>9, <1>10, Constants
  <2>2. ASSUME NEW k \in 1 .. Count(b) PROVE NumberRight(b, k)
    <3>1. k \in 1 .. C /\ k \in 1 .. C - 1 /\ k \in Nat \ {0} /\ (k # 1 => k - 1 \in 1 .. C - 1)
      BY <1>2, <1>10
    <3>2. NumberRight(s, k)
      BY <1>1, <3>1 DEF NumbersRight, C
    <3> QED BY <1>11, <3>1, <3>2, NumberStays
  <2>3. ASSUME NEW i \in DOMAIN b.OutRec
        PROVE  b.OutRec[i].bunch = Numbered(b, Released(b) + i)
    <3>1. i \in 1 .. L - 1 /\ i \in 1 .. L /\ R + i \in 1 .. C - 1
      BY <1>2, <1>10
    <3>2. s.OutRec[i].bunch = Numbered(s, R + i)
      BY <1>1, <1>2, <3>1 DEF NumbersRight, R
    <3> QED BY <1>5, <1>9, <1>10, <1>11, <3>1, <3>2
  <2>4. ASSUME NEW k \in Released(b) + 1 .. Count(b) - 1 PROVE ~Numbered(b, k).bClose
    <3>1. k \in R + 1 .. C - 1 /\ k \in 1 .. C - 1
      BY <1>2, <1>10
    <3> QED BY <1>1, <1>11, <3>1 DEF NumbersRight, R, C
  <2> QED BY <2>1, <2>2, <2>3, <2>4 DEF NumbersRight
<1>15. Placed(b, t, Len(b.OutRec))
  <2>1. ASSUME NEW n \in DOMAIN b.OutRec, ~b.OutRec[n].ReceivedAck
        PROVE  /\ b.OutRec[n].PacketId > t \/ (n > Len(b.OutRec) /\ b.OutRec[n].PacketId = t)
               /\ b.OutRec[n].bunch \in InPacket(b, b.OutRec[n].PacketId)
    <3>1. n \in 1 .. L - 1 /\ n \in DOMAIN s.OutRec /\ b.OutRec[n] = s.OutRec[n] /\ n # L
          /\ L \in DOMAIN s.OutRec /\ ~(n > L)
      BY <1>2, <1>3, <1>5, <1>9, <1>10
    <3>2. s.OutRec[n].PacketId \in Nat
      BY <1>1, <3>1, OutBunchFields
    <3>3. s.OutRec[n].PacketId > t /\ s.OutRec[n].bunch \in InPacket(s, s.OutRec[n].PacketId)
      BY <1>1, <2>1, <3>1, <3>2 DEF Placed, L
    <3>4. s.OutRec[n].bunch # last
      <4>1. s.OutRec[n].bunch.ChSequence = InitReliable + R + n
            /\ s.OutRec[L].bunch.ChSequence = InitReliable + R + L
        BY <1>1, <3>1, BufferNumbers DEF R
      <4>2. InitReliable + R + n # InitReliable + R + L
        BY <1>2, <3>1, Constants
      <4> QED BY <1>3, <4>1, <4>2
    <3> QED BY <1>6, <1>12, <3>1, <3>2, <3>3, <3>4
  <2>2. ASSUME NEW id \in Nat, NEW bunch \in InPacket(b, id), id > t, bunch.bReliable
        PROVE  \E n \in DOMAIN b.OutRec : /\ b.OutRec[n].bunch = bunch
                                          /\ b.OutRec[n].PacketId = id
                                          /\ ~b.OutRec[n].ReceivedAck
    <3>1. bunch \in InPacket(s, id)
      BY <1>6, <1>12
    <3>2. PICK n \in DOMAIN s.OutRec : /\ s.OutRec[n].bunch = bunch
                                       /\ s.OutRec[n].PacketId = id
                                       /\ ~s.OutRec[n].ReceivedAck
      BY <1>1, <2>2, <3>1 DEF Placed
    <3>3. n # L
      BY <1>3, <1>12, <3>2
    <3>4. n \in 1 .. L - 1
      BY <1>2, <3>3
    <3> QED BY <1>5, <1>9, <1>10, <3>2, <3>4
  <2> QED BY <2>1, <2>2 DEF Placed
<1> QED BY <1>9, <1>10, <1>11, <1>13, <1>14, <1>15 DEF SendingRight, b, C, R


\* A merged bunch is sent as the next one after the last was taken back.
LEMMA MergedPiece ==
  ASSUME NEW s, NEW t \in Nat, SendingRight(s, t), MergesRight(s), t <= Len(s.network),
         Mergeable(s), NEW bunch \in WholeBunch, bunch.bReliable, NEW data \in Seq(Unit),
         NEW merged \in BOOLEAN, merged, NEW merge \in BOOLEAN
  PROVE  LET b == TakenBack(s)
             y == SendPiece(PopLastStart(s), bunch, data, 1, 1, merged, merge)
             out == Piece(bunch, data, 1, 1, b.OutReliable + 1)
         IN  \E id : /\ y \in SenderState /\ out \in Bunch /\ SentStays(b, y)
                     /\ AddsReliable(b, y, id, out,
                                     Upto(b, Count(b)) \o Carried(data, out.bClose))
                     /\ ChannelAfter(b, y, bunch, id, out.bClose)
<1> DEFINE b == TakenBack(s)
           x == PopLastStart(s)
           y == SendPiece(x, bunch, data, 1, 1, merged, merge)
           n == s.OutReliable
           out == Piece(bunch, data, 1, 1, n)
           id == PacketIdFor(x, out)
           z == SendRawBunch(x, out, merge)
           before == IF merged THEN Front(x.numbered) ELSE x.numbered
           through == IF before = << >> THEN << >> ELSE Last(before).upto
           queued == [bunch |-> out, PacketId |-> id, ReceivedAck |-> FALSE]
<1>1. s \in SenderState
  BY DEF SendingRight
<1>2. s.OutRec # << >> /\ s.numbered # << >> /\ s.SendBuffer # << >>
      /\ Last(s.OutRec).bunch.ChSequence = s.OutReliable
  <2>1. s.OutRec # << >> /\ s.numbered # << >> /\ s.SendBuffer # << >>
        /\ s.OutRec[Len(s.OutRec)].bunch.ChSequence = s.OutReliable
    BY LastWritten DEF Mergeable
  <2> QED BY <2>1 DEF Last
<1>3. /\ x \in SenderState /\ x.OutRec = s.OutRec /\ x.numbered = s.numbered
      /\ x.network = s.network /\ x.SendBuffer = Front(s.SendBuffer)
      /\ x.OutReliable = s.OutReliable /\ x.exists = s.exists /\ x.OpenAcked = s.OpenAcked
      /\ x.ChannelsToClose = s.ChannelsToClose /\ x.connected = s.connected
      /\ x.OpenPacketId = s.OpenPacketId /\ x.Closing = s.Closing /\ x.sent = s.sent
  <2>1. Front(s.SendBuffer) \in Seq(Bunch)
    BY <1>1, <1>2, SenderFields, FrontLast
  <2> QED BY <1>1, <2>1 DEF PopLastStart, SenderState
<1>4. /\ SendingRight(b, t) /\ b.OutReliable = s.OutReliable - 1 /\ b.network = s.network
      /\ b.SendBuffer = Front(s.SendBuffer)
      /\ b.numbered = Front(s.numbered) /\ b.OutRec = Front(s.OutRec)
  BY TakenBackRight
<1>5. /\ b.exists = s.exists /\ b.OpenAcked = s.OpenAcked /\ b.sent = s.sent
      /\ b.ChannelsToClose = s.ChannelsToClose /\ b.connected = s.connected
      /\ b.OpenPacketId = s.OpenPacketId /\ b.Closing = s.Closing
  BY <1>1 DEF TakenBack, SenderState
<1>6. n \in Nat /\ n = b.OutReliable + 1 /\ b \in SenderState
  BY <1>1, <1>4, SenderFields DEF SendingRight
<1> HIDE DEF x, b, n
<1>7. PieceDone(x, bunch, data, 1, 1, n, merged, merge)
  <2>1. n = IF ~bunch.bReliable THEN 0
            ELSE IF merged THEN Last(x.OutRec).bunch.ChSequence ELSE x.OutReliable + 1
    BY <1>2, <1>3 DEF n
  <2> QED BY <1>2, <1>3, <1>6, <2>1, PieceFields
<1>8. /\ y \in SenderState /\ out \in Bunch /\ Writes(x, out, merge, z)
      /\ y.network = z.network /\ y.SendBuffer = z.SendBuffer
      /\ y.AllowMerge = z.AllowMerge
      /\ y.exists = x.exists /\ y.OpenAcked = x.OpenAcked /\ y.sent = x.sent
      /\ y.ChannelsToClose = x.ChannelsToClose /\ y.connected = x.connected
      /\ y.OpenPacketId = (IF bunch.bOpen THEN id ELSE x.OpenPacketId)
      /\ y.Closing = (x.Closing \/ out.bClose)
      /\ y.OutReliable = x.OutReliable
      /\ y.numbered = Append(before, [bunch |-> out,
                                      upto |-> through \o Carried(data, out.bClose)])
      /\ y.OutRec = Append(Front(x.OutRec), queued)
  BY <1>7 DEF PieceDone
<1>9. before = b.numbered /\ through = Upto(b, Count(b))
  <2>1. before = b.numbered
    BY <1>3, <1>4
  <2>2. Len(b.numbered) \in Nat /\ (b.numbered = << >> <=> Len(b.numbered) = 0)
    BY <1>6, SenderFields
  <2> QED BY <2>1, <2>2 DEF Upto, Count, Last
<1>10. merge => ~out.bPartial
  BY PieceParts
<1> HIDE DEF y, out, id, z, through, before
<1>11. Adds(x, y, id, out) /\ SentStays(x, y)
  BY <1>8, <1>10, WrittenAdds DEF id
<1>12. Adds(b, y, id, out) /\ SentStays(b, y)
  <2>1. \A k : InPacket(b, k) = InPacket(x, k)
    BY <1>3, <1>4 DEF InPacket
  <2>2. b.network = x.network
    BY <1>3, <1>4
  <2> QED BY <1>11, <2>1, <2>2 DEF Adds, SentStays
<1>13. AddsReliable(b, y, id, out, Upto(b, Count(b)) \o Carried(data, out.bClose))
  BY <1>3, <1>4, <1>6, <1>8, <1>9, <1>12 DEF AddsReliable, n
<1>14. ChannelAfter(b, y, bunch, id, out.bClose)
  BY <1>3, <1>5, <1>8 DEF ChannelAfter
<1> QED BY <1>6, <1>8, <1>12, <1>13, <1>14 DEF y, out, b, x

\* The pieces of a bunch: where the i-th ends.
Cut(data, i) == Lesser(i * MaxSingleBunchSize, Len(data))

SplitRight(data) ==
  LET pieces == Split(data)
      count == Len(pieces)
  IN  /\ count \in Nat \ {0} /\ Cut(data, 0) = 0 /\ Cut(data, count) = Len(data)
      /\ Len(data) <= MaxSingleBunchSize => count = 1 /\ pieces[1] = data
      /\ \A i \in 1 .. count :
           /\ Cut(data, i - 1) \in 0 .. Cut(data, i) /\ Cut(data, i) \in 0 .. Len(data)
           /\ pieces[i] = SubSeq(data, Cut(data, i - 1) + 1, Cut(data, i))
           /\ pieces[i] \in Seq(Unit)

\* Split cuts the data into pieces that are the data again when joined.
LEMMA SplitFacts ==
  ASSUME NEW data \in Seq(Unit)
  PROVE  SplitRight(data)
<1> DEFINE M == MaxSingleBunchSize
           N == Len(data)
           pieces == Split(data)
           count == Len(pieces)
<1>1. M \in Nat /\ M >= 1 /\ N \in Nat
  BY Constants
<1>2. CASE N <= M
  <2>1. pieces = <<data>> /\ count = 1 /\ pieces[1] = data
    BY <1>2 DEF Split
  <2>2. Cut(data, 0) = 0 /\ Cut(data, 1) = N
    <3>1. 0 * M = 0 /\ 1 * M = M
      BY <1>1
    <3> QED BY <1>1, <1>2, <3>1 DEF Cut, Lesser
  <2>3. SubSeq(data, 1, N) = data
    OBVIOUS
  <2> HIDE DEF pieces, count, N
  <2>4. \A i \in 1 .. count : i = 1 /\ i - 1 = 0
    BY <2>1
  <2> QED BY <1>1, <2>1, <2>2, <2>3, <2>4 DEF N, pieces, count, SplitRight
<1>3. CASE N > M
  <2> DEFINE K == (N + M - 1) \div M
  <2> HIDE DEF M, N
  <2>1. K \in Nat \ {0} /\ (K - 1) * M < N /\ N <= K * M
    BY <1>1, <1>3
  <2> HIDE DEF K
  <2>2. pieces = [i \in 1 .. K |-> SubSeq(data, (i - 1) * M + 1, Lesser(i * M, N))]
    BY <1>1, <1>3 DEF Split, K, M, N
  <2>3. count = K
    BY <2>1, <2>2
  <2>4. Cut(data, 0) = 0 /\ Cut(data, K) = N
    BY <1>1, <2>1 DEF Cut, Lesser, M, N
  <2>5. ASSUME NEW i \in 1 .. K
        PROVE  /\ Cut(data, i - 1) \in 0 .. Cut(data, i) /\ Cut(data, i) \in 0 .. N
               /\ pieces[i] = SubSeq(data, Cut(data, i - 1) + 1, Cut(data, i))
               /\ pieces[i] \in Seq(Unit)
    <3> DEFINE p == (i - 1) * M
               q == i * M
    <3>1. p \in Nat /\ q = p + M /\ q \in Nat /\ p < N
      <4>1. i - 1 <= K - 1 /\ i - 1 \in Nat /\ K - 1 \in Nat
        BY <2>1
      <4>2. p <= (K - 1) * M /\ p \in Nat
        BY <1>1, <4>1
      <4>3. q = p + M
        BY <1>1, <4>1
      <4> QED BY <1>1, <2>1, <4>2, <4>3
    <3>2. Cut(data, i - 1) = Lesser(p, N) /\ Cut(data, i) = Lesser(q, N)
          /\ pieces[i] = SubSeq(data, p + 1, Lesser(q, N))
      BY <2>2 DEF Cut, M, N
    <3> HIDE DEF p, q
    <3>3. Cut(data, i - 1) = p /\ p \in 0 .. Lesser(q, N) /\ Lesser(q, N) \in 0 .. N
      BY <1>1, <3>1, <3>2 DEF Lesser
    <3>4. SubSeq(data, p + 1, Lesser(q, N)) \in Seq(Unit)
      <4>1. \A k \in p + 1 .. Lesser(q, N) : k \in 1 .. Len(data)
        BY <1>1, <3>1, <3>3 DEF N
      <4> QED BY <3>1, <3>3, <4>1
    <3> QED BY <3>2, <3>3, <3>4
  <2> HIDE DEF pieces, count
  <2>6. count \in Nat \ {0} /\ Cut(data, 0) = 0 /\ Cut(data, count) = N /\ ~(N <= M)
    BY <1>1, <1>3, <2>1, <2>3, <2>4
  <2>7. \A i \in 1 .. count :
          /\ Cut(data, i - 1) \in 0 .. Cut(data, i) /\ Cut(data, i) \in 0 .. N
          /\ pieces[i] = SubSeq(data, Cut(data, i - 1) + 1, Cut(data, i))
          /\ pieces[i] \in Seq(Unit)
    BY <2>3, <2>5
  <2> QED BY <2>6, <2>7 DEF M, N, pieces, count, SplitRight
<1> QED BY <1>1, <1>2, <1>3

\* One part of a sequence goes on with the next.
LEMMA PartsJoin ==
  ASSUME NEW S, NEW data \in Seq(S), NEW a \in Nat, NEW b \in Nat, a <= b, b <= Len(data)
  PROVE  SubSeq(data, 1, a) \o SubSeq(data, a + 1, b) = SubSeq(data, 1, b)
OBVIOUS


\* What a reliable bunch needs: it opens the channel or the channel is open, and it
\* is not closing.
BaseRight(b, bunch, t) ==
  /\ SendingRight(b, t) /\ t <= Len(b.network) /\ bunch.bReliable
  /\ bunch.bOpen <=> Fresh(b, Count(b))
  /\ ~InMessage(b, Count(b))
  /\ b.OutRec # << >> => ~Numbered(b, Count(b)).bClose
  /\ b.exists /\ ~b.Closing /\ ~b.ChannelsToClose
  /\ b.OpenPacketId = 0 => bunch.bOpen
  /\ b.OpenAcked => ~bunch.bOpen /\ \A i \in DOMAIN b.OutRec : ~b.OutRec[i].bunch.bOpen
  /\ \/ bunch.bOpen
     \/ \E i \in DOMAIN b.OutRec : b.OutRec[i].bunch.bOpen
     \/ \E n \in 1 .. Released(b) :
          ~GoesOn(Numbered(b, n)) /\ \A m \in n .. Released(b) : ~Numbered(b, m).bClose

\* The sender x, after i pieces of count of the bunch, sent from b.
PiecesSent(b, bunch, t, count, i, x) ==
  /\ SendingRight(x, t) /\ SentStays(b, x)
  /\ Count(x) = Count(b) + i /\ Released(x) = Released(b)
  /\ \A k \in 1 .. Count(b) : x.numbered[k] = b.numbered[k]
  /\ \A j \in 1 .. i :
       LET out == Numbered(x, Count(b) + j)
       IN  /\ out.bClose <=> bunch.bClose /\ j = count
           /\ GoesOn(out) <=> j # count
           /\ out.bOpen <=> bunch.bOpen /\ j = 1
  /\ \A n \in DOMAIN x.OutRec : x.OutRec[n].ReceivedAck =>
       n \in DOMAIN b.OutRec /\ b.OutRec[n].ReceivedAck
  /\ i # 0 => MergesRight(x)
  /\ x.exists = b.exists /\ x.OpenAcked = b.OpenAcked /\ x.sent = b.sent
  /\ x.ChannelsToClose = b.ChannelsToClose
  /\ x.Closing <=> bunch.bClose /\ i = count
  /\ x.OpenPacketId = 0 => b.OpenPacketId = 0 /\ i = 0
  /\ Upto(x, Count(x)) = Upto(b, Count(b)) \o
       Carried(SubSeq(bunch.Data, 1, Cut(bunch.Data, i)), bunch.bClose /\ i = count)

\* The marks of a piece, from its place in the bunch.
LEMMA PieceIs ==
  ASSUME NEW bunch \in WholeBunch, bunch.bReliable, NEW data, NEW count \in Nat,
         NEW i \in 1 .. count, NEW n
  PROVE  LET out == Piece(bunch, data, i, count, n)
         IN  /\ out.bReliable /\ out.ChSequence = n /\ out.Data = data /\ Sound(out)
             /\ out.bOpen <=> bunch.bOpen /\ i = 1
             /\ out.bClose <=> bunch.bClose /\ i = count
             /\ GoesOn(out) <=> i # count
             /\ Starts(out) <=> i = 1
<1> DEFINE out == Piece(bunch, data, i, count, n)
<1>1. /\ out.bReliable = bunch.bReliable /\ out.bOpen = (bunch.bOpen /\ i = 1)
      /\ out.bClose = (bunch.bClose /\ i = count) /\ out.bPartial = (count > 1)
      /\ out.bPartialInitial = (count > 1 /\ i = 1)
      /\ out.bPartialFinal = (count > 1 /\ i = count)
      /\ out.ChSequence = n /\ out.Data = data
  BY DEF Piece
<1> HIDE DEF out
<1>2. (i # count => count > 1) /\ (~(count > 1) => i = 1) /\ (i = 1 /\ i = count => ~(count > 1))
  OBVIOUS
<1>3. (GoesOn(out) <=> i # count) /\ (Starts(out) <=> i = 1)
  BY <1>1, <1>2 DEF GoesOn, Starts
<1>4. Sound(out)
  BY <1>1, <1>2, <1>3 DEF Sound
<1> QED BY <1>1, <1>3, <1>4 DEF out

\* An iteration of the loop sends the next piece.
LEMMA PieceStep ==
  ASSUME NEW b \in SenderState, NEW bunch \in WholeBunch, NEW t \in Nat, BaseRight(b, bunch, t),
         NEW count, count = Len(Split(bunch.Data)), NEW i \in 1 .. count,
         NEW x, PiecesSent(b, bunch, t, count, i - 1, x), NEW y \in SenderState, NEW id,
         NEW out \in Bunch,
         out = Piece(bunch, Split(bunch.Data)[i], i, count, x.OutReliable + 1),
         AddsReliable(x, y, id, out,
                      Upto(x, Count(x)) \o Carried(Split(bunch.Data)[i], out.bClose)),
         SentStays(x, y), ChannelAfter(x, y, bunch, id, out.bClose)
  PROVE  PiecesSent(b, bunch, t, count, i, y)
<1> DEFINE data == bunch.Data
           piece == Split(data)[i]
           upto == Upto(x, Count(x)) \o Carried(piece, out.bClose)
           C == Count(b)
           R == Released(b)
<1>1. data \in Seq(Unit) /\ bunch.bClose \in BOOLEAN /\ bunch.bOpen \in BOOLEAN
      /\ bunch.bReliable
  BY DEF WholeBunch, BaseRight
<1>2. /\ count \in Nat \ {0} /\ Cut(data, i - 1) \in 0 .. Cut(data, i)
      /\ Cut(data, i) \in 0 .. Len(data) /\ piece \in Seq(Unit)
      /\ piece = SubSeq(data, Cut(data, i - 1) + 1, Cut(data, i))
      /\ Cut(data, 0) = 0
  <2> DEFINE pieces == Split(data)
  <2>1. /\ count \in Nat \ {0} /\ Cut(data, 0) = 0
        /\ \A k \in 1 .. count :
             /\ Cut(data, k - 1) \in 0 .. Cut(data, k) /\ Cut(data, k) \in 0 .. Len(data)
             /\ pieces[k] = SubSeq(data, Cut(data, k - 1) + 1, Cut(data, k))
             /\ pieces[k] \in Seq(Unit)
    <3>1. data \in Seq(Unit)
      BY <1>1
    <3>2. SplitRight(data)
      BY <3>1, SplitFacts
    <3>3. count = Len(pieces)
      OBVIOUS
    <3> HIDE DEF data, pieces
    <3> QED BY <3>2, <3>3 DEF SplitRight, pieces
  <2> HIDE DEF pieces
  <2>2. piece = pieces[i]
    BY DEF pieces
  <2> HIDE DEF data, piece
  <2> QED BY <2>1, <2>2
<1>3. /\ SendingRight(x, t) /\ SentStays(b, x) /\ x \in SenderState
      /\ Count(x) = C + (i - 1) /\ Released(x) = R
      /\ \A k \in 1 .. C : x.numbered[k] = b.numbered[k]
      /\ \A n \in DOMAIN x.OutRec : x.OutRec[n].ReceivedAck =>
           n \in DOMAIN b.OutRec /\ b.OutRec[n].ReceivedAck
      /\ x.exists = b.exists /\ x.OpenAcked = b.OpenAcked /\ x.sent = b.sent
      /\ x.ChannelsToClose = b.ChannelsToClose
      /\ x.Closing <=> bunch.bClose /\ i - 1 = count
      /\ Upto(x, Count(x)) = Upto(b, C) \o
           Carried(SubSeq(data, 1, Cut(data, i - 1)), bunch.bClose /\ i - 1 = count)
      /\ x.OpenPacketId = 0 => i - 1 = 0 /\ b.OpenPacketId = 0
  BY DEF PiecesSent, SendingRight
<1>4. \A j \in 1 .. i - 1 :
        /\ Numbered(x, C + j).bClose <=> bunch.bClose /\ j = count
        /\ GoesOn(Numbered(x, C + j)) <=> j # count
        /\ Numbered(x, C + j).bOpen <=> bunch.bOpen /\ j = 1
  BY DEF PiecesSent
<1>5. /\ out.bReliable /\ out.ChSequence = x.OutReliable + 1 /\ out.Data = piece /\ Sound(out)
      /\ out.bOpen <=> bunch.bOpen /\ i = 1
      /\ out.bClose <=> bunch.bClose /\ i = count
      /\ GoesOn(out) <=> i # count
      /\ Starts(out) <=> i = 1
  <2>1. count \in Nat /\ bunch.bReliable
    BY <1>1, <1>2
  <2> DEFINE n == x.OutReliable + 1
             o == Piece(bunch, piece, i, count, n)
  <2> HIDE DEF piece, n
  <2>2. /\ o.bReliable /\ o.ChSequence = n /\ o.Data = piece /\ Sound(o)
        /\ o.bOpen <=> bunch.bOpen /\ i = 1
        /\ o.bClose <=> bunch.bClose /\ i = count
        /\ GoesOn(o) <=> i # count
        /\ Starts(o) <=> i = 1
    BY <2>1, PieceIs
  <2>3. out = o
    BY DEF o, n, piece
  <2> HIDE DEF o
  <2> QED BY <2>2, <2>3 DEF n
<1>6. SendingRight(b, t) /\ t <= Len(b.network) /\ (bunch.bOpen <=> Fresh(b, C))
      /\ ~InMessage(b, C) /\ (b.OutRec # << >> => ~Numbered(b, C).bClose)
      /\ (b.OpenPacketId = 0 => bunch.bOpen)
  BY DEF BaseRight
<1>7. C \in Nat /\ R \in 0 .. C /\ C = R + Len(b.OutRec) /\ Len(b.OutRec) \in Nat
      /\ Count(x) = R + Len(x.OutRec) /\ Len(x.OutRec) \in Nat
      /\ DOMAIN b.OutRec = 1 .. Len(b.OutRec) /\ DOMAIN x.OutRec = 1 .. Len(x.OutRec)
  <2>1. Len(b.OutRec) <= Count(b) /\ Len(x.OutRec) <= Count(x)
    BY <1>3, <1>6 DEF SendingRight, NumbersRight
  <2> QED BY <1>3, <2>1, Counts, SenderLengths
<1> HIDE DEF C, R, data, piece, upto
<1>8. t <= Len(x.network)
  <2>1. Len(b.network) \in Nat /\ Len(x.network) \in Nat /\ Len(b.network) <= Len(x.network)
    BY <1>3, SenderLengths DEF SentStays
  <2> QED BY <1>6, <2>1
<1>9. NextReliable(x, out, upto)
  <2>1. CASE i = 1
    <3>1. Count(x) = C
      BY <1>3, <1>7, <2>1
    <3>2. C # 0 => Numbered(x, C) = Numbered(b, C)
      <4>1. C # 0 => C \in 1 .. C
        BY <1>7
      <4>2. \A k \in 1 .. C : x.numbered[k] = b.numbered[k]
        BY <1>3
      <4> QED BY <4>1, <4>2 DEF Numbered
    <3>3. Fresh(x, C) = Fresh(b, C) /\ InMessage(x, C) = InMessage(b, C)
      BY <3>2 DEF Fresh, InMessage
    <3>4. x.OutRec # << >> => ~Numbered(x, C).bClose
      <4>1. SUFFICES ASSUME x.OutRec # << >> PROVE ~Numbered(x, C).bClose
        OBVIOUS
      <4>2. Len(x.OutRec) # 0
        BY <1>3, <4>1, SenderFields
      <4>3. Len(b.OutRec) # 0 /\ C # 0
        BY <1>7, <3>1, <4>2
      <4> QED BY <1>6, <3>2, <4>3
    <3> QED BY <1>5, <1>6, <2>1, <3>1, <3>3, <3>4 DEF NextReliable, upto
  <2>2. CASE i # 1
    <3>1. i - 1 \in 1 .. i - 1 /\ i - 1 # count /\ Count(x) = C + (i - 1) /\ Count(x) # 0
      BY <1>2, <1>3, <1>7, <2>2
    <3>2. ~Numbered(x, Count(x)).bClose /\ GoesOn(Numbered(x, Count(x)))
      BY <1>4, <3>1
    <3>3. ~Fresh(x, Count(x)) /\ InMessage(x, Count(x))
      BY <3>1, <3>2 DEF Fresh, InMessage
    <3> QED BY <1>5, <2>2, <3>2, <3>3 DEF NextReliable, upto
  <2> QED BY <2>1, <2>2
<1>10. AddsReliable(x, y, id, out, upto)
  BY DEF upto, piece, data
<1>11. /\ SendingRight(y, t) /\ MergesRight(y)
       /\ Count(y) = Count(x) + 1 /\ Released(y) = Released(x)
       /\ Numbered(y, Count(y)) = out /\ Upto(y, Count(y)) = upto
       /\ \A k \in 1 .. Count(x) : y.numbered[k] = x.numbered[k]
  BY <1>3, <1>8, <1>9, <1>10, ReliableAdded
<1>12. Count(y) = C + i
  <2>1. Count(x) = C + (i - 1) /\ Count(y) = Count(x) + 1 /\ C \in Int /\ i \in Int
    <3>1. C \in Int
      BY <1>7
    <3>2. i \in Int
      BY <1>2
    <3> QED BY <1>3, <1>11, <3>1, <3>2
  <2> QED BY <2>1
<1>13. \A k \in 1 .. C : y.numbered[k] = b.numbered[k]
  <2>1. \A k \in 1 .. C : k \in 1 .. Count(x)
    BY <1>3, <1>7
  <2> QED BY <1>3, <1>11, <2>1
<1>14. ASSUME NEW j \in 1 .. i
       PROVE  /\ Numbered(y, C + j).bClose <=> bunch.bClose /\ j = count
              /\ GoesOn(Numbered(y, C + j)) <=> j # count
              /\ Numbered(y, C + j).bOpen <=> bunch.bOpen /\ j = 1
  <2>1. CASE j = i
    BY <1>5, <1>11, <1>12, <2>1
  <2>2. CASE j # i
    <3>1. j \in 1 .. i - 1 /\ C + j \in 1 .. Count(x)
      BY <1>3, <1>7, <2>2
    <3>2. Numbered(y, C + j) = Numbered(x, C + j)
      BY <1>11, <3>1 DEF Numbered
    <3> QED BY <1>4, <3>1, <3>2
  <2> QED BY <2>1, <2>2
<1>15. ASSUME NEW n \in DOMAIN y.OutRec, y.OutRec[n].ReceivedAck
       PROVE  n \in DOMAIN b.OutRec /\ b.OutRec[n].ReceivedAck
  <2> DEFINE queued == [bunch |-> out, PacketId |-> id, ReceivedAck |-> FALSE]
  <2>1. y.OutRec = Append(x.OutRec, queued) /\ queued.ReceivedAck = FALSE
    BY <1>10 DEF AddsReliable
  <2> HIDE DEF queued
  <2>2. x.OutRec \in Seq(OutBunch)
    BY <1>3, SenderFields
  <2>3. n \in 1 .. Len(x.OutRec) + 1 /\ (n = Len(x.OutRec) + 1 => y.OutRec[n] = queued)
        /\ (n \in 1 .. Len(x.OutRec) => y.OutRec[n] = x.OutRec[n])
    BY <1>7, <2>1, <2>2
  <2>4. n \in 1 .. Len(x.OutRec) /\ x.OutRec[n].ReceivedAck
    BY <1>7, <1>15, <2>1, <2>3
  <2> QED BY <1>3, <1>7, <2>4
<1>16. SentStays(b, y)
  BY <1>3, SentStaysTransitive
<1>17. /\ y.exists = b.exists /\ y.OpenAcked = b.OpenAcked /\ y.sent = b.sent
       /\ y.ChannelsToClose = b.ChannelsToClose
       /\ y.Closing = (x.Closing \/ out.bClose)
       /\ y.OpenPacketId = (IF bunch.bOpen THEN id ELSE x.OpenPacketId)
  BY <1>3 DEF ChannelAfter
<1>18. y.Closing <=> bunch.bClose /\ i = count
  <2>1. i - 1 # count
    BY <1>2
  <2>2. ~x.Closing /\ (out.bClose <=> bunch.bClose /\ i = count)
    BY <1>3, <1>5, <2>1
  <2> QED BY <1>17, <2>2
<1>19. y.OpenPacketId # 0
  <2>1. id > Len(x.network) /\ id \in Nat /\ Len(x.network) \in Nat
    BY <1>3, <1>10, SenderLengths DEF AddsReliable, Adds
  <2>2. id # 0
    BY <2>1
  <2> QED BY <1>3, <1>6, <1>17, <2>2
<1>20. Upto(y, Count(y)) = Upto(b, C) \o
         Carried(SubSeq(data, 1, Cut(data, i)), bunch.bClose /\ i = count)
  <2> DEFINE left == SubSeq(data, 1, Cut(data, i - 1))
             u == Upto(b, C)
             bClose == bunch.bClose /\ i = count
  <2>1. Upto(x, Count(x)) = u \o left
    <3>1. i - 1 # count
      BY <1>2
    <3> QED BY <1>3, <3>1 DEF Carried
  <2>2. left \in Stream /\ u \in Stream /\ Carried(piece, bClose) \in Stream
    <3>1. left \in Seq(Unit)
      BY <1>1, <1>2 DEF data
    <3>2. u \in Stream
      <4>1. C # 0 => C \in 1 .. Count(b)
        BY <1>7 DEF C
      <4>2. C # 0 => u \in Stream
        BY <4>1, NumberedFields
      <4>3. C = 0 => u \in Stream
        BY StreamFacts DEF Upto
      <4> QED BY <4>2, <4>3
    <3> QED BY <1>1, <1>2, <3>1, <3>2, StreamFacts
  <2>3. left \o Carried(piece, bClose) = Carried(left \o piece, bClose)
    <3>1. left \in Seq(Unit) /\ piece \in Seq(Unit)
      BY <1>1, <1>2 DEF data
    <3> HIDE DEF left
    <3>2. left \o Append(piece, CloseMark) = Append(left \o piece, CloseMark)
      <4> DEFINE T == Unit \cup {CloseMark}
      <4>1. left \in Seq(T) /\ piece \in Seq(T) /\ CloseMark \in T
        BY <3>1
      <4> HIDE DEF T
      <4> QED BY <4>1
    <3> QED BY <3>2 DEF Carried
  <2>4. left \o piece = SubSeq(data, 1, Cut(data, i))
    <3>1. data \in Seq(Unit)
      BY <1>1 DEF data
    <3>2. Cut(data, i - 1) \in Nat /\ Cut(data, i) \in Nat
          /\ Cut(data, i - 1) <= Cut(data, i) /\ Cut(data, i) <= Len(data)
      BY <1>2
    <3> DEFINE from == Cut(data, i - 1)
               to == Cut(data, i)
    <3> HIDE DEF from, to
    <3>3. SubSeq(data, 1, from) \o SubSeq(data, from + 1, to) = SubSeq(data, 1, to)
      BY <3>1, <3>2, PartsJoin DEF from, to
    <3> QED BY <1>2, <3>3 DEF from, to
  <2>5. out.bClose = bClose
    <3>1. out.bClose \in BOOLEAN
      BY BunchFields
    <3> QED BY <1>5, <3>1
  <2>6. upto = (u \o left) \o Carried(piece, bClose)
    BY <2>1, <2>5 DEF upto
  <2> HIDE DEF left, u
  <2>7. (u \o left) \o Carried(piece, bClose) = u \o (left \o Carried(piece, bClose))
    BY <2>2 DEF Stream
  <2> QED BY <1>11, <2>3, <2>4, <2>6, <2>7 DEF u
<1> QED
  BY <1>11, <1>12, <1>13, <1>14, <1>15, <1>16, <1>17, <1>18, <1>19, <1>20, <1>3
  DEF PiecesSent, C, R, data

\* The pieces of the bunch keep a relation G of their number and the sender.
PiecesKeep(b, bunch, merged, merge, G) ==
  LET pieces == Split(bunch.Data)
      count == Len(pieces)
  IN  /\ <<0, b>> \in G
      /\ \A i \in 1 .. count : \A x \in SenderState : <<i - 1, x>> \in G =>
           LET y == SendPiece(x, bunch, pieces[i], i, count, merged, merge /\ count = 1)
           IN  y \in SenderState /\ <<i, y>> \in G

\* What the pieces sent so far leave as it was.
LEMMA PiecesKept ==
  ASSUME NEW b \in SenderState, NEW bunch \in WholeBunch, NEW merged, NEW merge, NEW G,
         PiecesKeep(b, bunch, merged, merge, G)
  PROVE  LET count == Len(Split(bunch.Data))
             y == AfterPieces(b, bunch, merged, merge)[count]
         IN  y \in SenderState /\ <<count, y>> \in G
<1> DEFINE pieces == Split(bunch.Data)
           count == Len(pieces)
           single == merge /\ count = 1
           Step(i, x) == SendPiece(x, bunch, pieces[i], i, count, merged, single)
           F == [p \in (1 .. count) \X SenderState |-> Step(p[1], p[2])]
           g == AfterPieces(b, bunch, merged, merge)
<1>1. count \in Nat
  <2>1. bunch.Data \in Seq(Unit)
    BY DEF WholeBunch
  <2> QED BY <2>1, SplitFacts DEF SplitRight
<1>2. /\ <<0, b>> \in G
      /\ \A i \in 1 .. count : \A x \in SenderState :
           <<i - 1, x>> \in G => Step(i, x) \in SenderState /\ <<i, Step(i, x)>> \in G
  BY DEF PiecesKeep
<1>3. g = CHOOSE f : f = [i \in 0 .. count |-> IF i = 0 THEN b ELSE Step(i, f[i - 1])]
  BY DEF AfterPieces
<1> HIDE DEF Step, g, pieces, count
<1>4. \A i \in 1 .. count : \A x \in SenderState : F[<<i, x>>] = Step(i, x)
  OBVIOUS
<1> HIDE DEF F
<1>5. Keeps(count, SenderState, F, b, G)
  BY <1>2, <1>4 DEF Keeps
<1>6. PICK f \in [0 .. count -> SenderState] :
        /\ f[0] = b /\ \A i \in 1 .. count : f[i] = F[<<i, f[i - 1]>>]
        /\ \A i \in 0 .. count : <<i, f[i]>> \in G
  BY <1>1, <1>5, LoopExists
<1>7. f = [i \in 0 .. count |-> IF i = 0 THEN b ELSE Step(i, f[i - 1])]
  <2>1. ASSUME NEW i \in 0 .. count, i # 0 PROVE f[i] = Step(i, f[i - 1])
    <3>1. i - 1 \in 0 .. count /\ i \in 1 .. count
      BY <1>1, <2>1
    <3> QED BY <1>4, <1>6, <3>1
  <2> QED BY <1>6, <2>1
<1>8. g = [i \in 0 .. count |-> IF i = 0 THEN b ELSE Step(i, g[i - 1])]
  BY <1>3, <1>7
<1> DEFINE T == {i \in 0 .. count : g[i] \in SenderState /\ <<i, g[i]>> \in G}
<1>9. 0 \in T
  <2>1. 0 \in 0 .. count
    BY <1>1
  <2>2. g[0] = b
    BY <1>8, <2>1
  <2> QED BY <1>2, <2>1, <2>2
<1>10. ASSUME NEW i \in 1 .. count, i - 1 \in T PROVE i \in T
  <2>1. i \in 0 .. count /\ i # 0
    BY <1>1
  <2>2. g[i] = Step(i, g[i - 1])
    BY <1>8, <2>1
  <2> QED BY <1>2, <1>10, <2>1, <2>2
<1> HIDE DEF T
<1>11. \A i \in 0 .. count : i \in T
  BY <1>1, <1>9, <1>10, StepByStep
<1>12. count \in T
  BY <1>1, <1>11
<1> QED BY <1>12 DEF T, g, count, pieces

\* Before the first iteration.
LEMMA NothingSent ==
  ASSUME NEW b \in SenderState, NEW bunch \in WholeBunch, NEW t, BaseRight(b, bunch, t)
  PROVE  PiecesSent(b, bunch, t, Len(Split(bunch.Data)), 0, b)
<1> DEFINE count == Len(Split(bunch.Data))
<1>1. bunch.Data \in Seq(Unit)
  BY DEF WholeBunch
<1>2. count \in Nat \ {0} /\ Cut(bunch.Data, 0) = 0
  BY <1>1, SplitFacts DEF SplitRight
<1>3. PiecesSent(b, bunch, t, count, 0, b)
  <2>1. /\ SendingRight(b, t) /\ b.exists /\ ~b.Closing
    BY DEF BaseRight
  <2>2. SentStays(b, b) /\ Count(b) \in Nat
    <3>1. Len(b.OutRec) <= Count(b) /\ Len(b.network) \in Nat
      BY <2>1, SenderLengths DEF SendingRight, NumbersRight
    <3> QED BY <3>1, Counts DEF SentStays
  <2>3. Upto(b, Count(b)) \in Stream
    <3>1. Count(b) # 0 => Count(b) \in 1 .. Count(b)
      BY <2>2
    <3> QED BY <3>1, NumberedFields, StreamFacts DEF Upto
  <2>4. Upto(b, Count(b)) = Upto(b, Count(b)) \o Carried(SubSeq(bunch.Data, 1, 0), FALSE)
    <3>1. SubSeq(bunch.Data, 1, 0) = << >>
      BY <1>1
    <3>2. \A u \in Stream : u \o << >> = u
      BY DEF Stream
    <3> QED BY <2>3, <3>1, <3>2 DEF Carried
  <2>5. 0 # count /\ Count(b) + 0 = Count(b)
    BY <1>2, <2>2
  <2>6. (bunch.bClose /\ 0 = count) = FALSE
    BY <2>5
  <2> HIDE DEF count
  <2>7. \A j \in 1 .. 0 : FALSE
    OBVIOUS
  <2>8. /\ b.exists = b.exists /\ b.OpenAcked = b.OpenAcked /\ b.sent = b.sent
        /\ b.ChannelsToClose = b.ChannelsToClose
        /\ b.Closing <=> bunch.bClose /\ 0 = count
        /\ b.OpenPacketId = 0 => b.OpenPacketId = 0 /\ 0 = 0
        /\ 0 # 0 => MergesRight(b)
    BY <2>1, <2>6
  <2>9. Upto(b, Count(b)) = Upto(b, Count(b)) \o
          Carried(SubSeq(bunch.Data, 1, Cut(bunch.Data, 0)), bunch.bClose /\ 0 = count)
    <3> DEFINE c == Cut(bunch.Data, 0)
               bClose == bunch.bClose /\ 0 = count
    <3>1. c = 0 /\ bClose = FALSE
      BY <1>2, <2>6
    <3> HIDE DEF c, bClose
    <3> QED BY <2>4, <3>1 DEF c, bClose
  <2> QED BY <2>1, <2>2, <2>5, <2>7, <2>8, <2>9 DEF PiecesSent
<1> QED BY <1>3

\* A reliable bunch is sent in pieces.
LEMMA AllPieces ==
  ASSUME NEW b \in SenderState, NEW bunch \in WholeBunch, NEW t \in Nat, BaseRight(b, bunch, t),
         NEW merged \in BOOLEAN, ~merged, NEW merge \in BOOLEAN
  PROVE  LET count == Len(Split(bunch.Data))
             y == AfterPieces(b, bunch, merged, merge)[count]
         IN  y \in SenderState /\ PiecesSent(b, bunch, t, count, count, y)
<1> DEFINE pieces == Split(bunch.Data)
           count == Len(pieces)
           single == merge /\ count = 1
           G == {p \in (0 .. count) \X SenderState : PiecesSent(b, bunch, t, count, p[1], p[2])}
<1>1. bunch.Data \in Seq(Unit) /\ bunch.bReliable
  BY DEF WholeBunch, BaseRight
<1>2. count \in Nat \ {0} /\ (\A i \in 1 .. count : pieces[i] \in Seq(Unit))
      /\ Cut(bunch.Data, 0) = 0
  BY <1>1, SplitFacts DEF SplitRight
<1>3. single \in BOOLEAN /\ (single => count = 1)
  OBVIOUS
<1> HIDE DEF single
<1>4. PiecesSent(b, bunch, t, count, 0, b)
  BY NothingSent
<1>5. ASSUME NEW i \in 1 .. count, NEW x \in SenderState, PiecesSent(b, bunch, t, count, i - 1, x)
      PROVE  LET y == SendPiece(x, bunch, pieces[i], i, count, merged, single)
             IN  y \in SenderState /\ PiecesSent(b, bunch, t, count, i, y)
  <2> DEFINE y == SendPiece(x, bunch, pieces[i], i, count, merged, single)
             n == x.OutReliable + 1
             out == Piece(bunch, pieces[i], i, count, n)
             id == PacketIdFor(x, out)
  <2>1. pieces[i] \in Seq(Unit) /\ i \in Nat /\ count \in Nat
    BY <1>2
  <2>2. /\ y \in SenderState /\ out \in Bunch /\ SentStays(x, y)
        /\ AddsReliable(x, y, id, out, Upto(x, Count(x)) \o Carried(pieces[i], out.bClose))
        /\ ChannelAfter(x, y, bunch, id, out.bClose)
    <3> DEFINE piece == pieces[i]
               N == count
    <3> HIDE DEF piece, N, pieces, count
    <3>1. piece \in Seq(Unit) /\ N \in Nat /\ (single => N = 1) /\ i \in Nat
      BY <1>3, <2>1 DEF piece, N
    <3>2. LET yy == SendPiece(x, bunch, piece, i, N, merged, single)
              oo == Piece(bunch, piece, i, N, x.OutReliable + 1)
              ii == PacketIdFor(x, oo)
          IN  /\ yy \in SenderState /\ oo \in Bunch /\ SentStays(x, yy)
              /\ AddsReliable(x, yy, ii, oo, Upto(x, Count(x)) \o Carried(piece, oo.bClose))
              /\ ChannelAfter(x, yy, bunch, ii, oo.bClose)
      BY <1>1, <1>3, <3>1, ReliablePiece
    <3> QED BY <3>2 DEF piece, N
  <2> HIDE DEF y, out, id
  <2>3. PiecesSent(b, bunch, t, count, i, y)
    <3>1. out = Piece(bunch, pieces[i], i, count, x.OutReliable + 1)
      BY DEF out
    <3> HIDE DEF n
    <3> QED BY <1>5, <2>2, <3>1, PieceStep
  <2> QED BY <2>2, <2>3 DEF y
<1> HIDE DEF pieces, count
<1>6. PiecesKeep(b, bunch, merged, merge, G)
  <2>1. <<0, b>> \in G
    BY <1>2, <1>4
  <2>2. ASSUME NEW i \in 1 .. count, NEW x \in SenderState, <<i - 1, x>> \in G
        PROVE  LET y == SendPiece(x, bunch, pieces[i], i, count, merged, single)
               IN  y \in SenderState /\ <<i, y>> \in G
    <3>1. PiecesSent(b, bunch, t, count, i - 1, x)
      BY <2>2
    <3>2. i \in 0 .. count
      BY <1>2
    <3> QED BY <1>5, <3>1, <3>2
  <2> HIDE DEF G
  <2> QED BY <2>1, <2>2 DEF PiecesKeep, pieces, count, single
<1> HIDE DEF G
<1>7. LET y == AfterPieces(b, bunch, merged, merge)[count]
      IN  y \in SenderState /\ <<count, y>> \in G
  BY <1>6, PiecesKept DEF count, pieces
<1> QED BY <1>7 DEF G, count, pieces

\* An unreliable bunch leaves the channel and the reliable bunches as they are.
UnreliableSent(b, t, x) ==
  /\ SendingRight(x, t) /\ SentStays(b, x)
  /\ x.numbered = b.numbered /\ x.OutRec = b.OutRec /\ x.OutReliable = b.OutReliable
  /\ x.exists = b.exists /\ x.OpenAcked = b.OpenAcked /\ x.sent = b.sent
  /\ x.ChannelsToClose = b.ChannelsToClose /\ x.Closing = b.Closing
  /\ x.OpenPacketId = b.OpenPacketId

\* The loop over the pieces of an unreliable bunch.
LEMMA AllUnreliable ==
  ASSUME NEW b \in SenderState, NEW bunch \in WholeBunch, NEW t \in Nat, SendingRight(b, t),
         ~bunch.bReliable, ~bunch.bOpen, ~bunch.bClose, NEW merged \in BOOLEAN,
         NEW merge \in BOOLEAN
  PROVE  LET count == Len(Split(bunch.Data))
             y == AfterPieces(b, bunch, merged, merge)[count]
         IN  y \in SenderState /\ UnreliableSent(b, t, y) /\ ~Mergeable(y)
<1> DEFINE pieces == Split(bunch.Data)
           count == Len(pieces)
           single == merge /\ count = 1
           Right(i, x) == UnreliableSent(b, t, x) /\ (i # 0 => ~Mergeable(x))
           G == {p \in (0 .. count) \X SenderState : Right(p[1], p[2])}
<1>1. bunch.Data \in Seq(Unit)
  BY DEF WholeBunch
<1>2. count \in Nat \ {0} /\ (\A i \in 1 .. count : pieces[i] \in Seq(Unit))
  BY <1>1, SplitFacts DEF SplitRight
<1>3. single \in BOOLEAN /\ (single => count = 1)
  OBVIOUS
<1> HIDE DEF single
<1>4. UnreliableSent(b, t, b)
  BY SenderLengths DEF UnreliableSent, SentStays
<1>5. ASSUME NEW i \in 1 .. count, NEW x \in SenderState, UnreliableSent(b, t, x)
      PROVE  LET y == SendPiece(x, bunch, pieces[i], i, count, merged, single)
             IN  y \in SenderState /\ UnreliableSent(b, t, y) /\ ~Mergeable(y)
  <2> DEFINE piece == pieces[i]
             N == count
             y == SendPiece(x, bunch, piece, i, N, merged, single)
             out == Piece(bunch, piece, i, N, 0)
             id == PacketIdFor(x, out)
  <2>1. piece \in Seq(Unit) /\ i \in Nat /\ N \in Nat /\ (single => N = 1)
    BY <1>2, <1>3
  <2> HIDE DEF piece, N, pieces, count
  <2>2. /\ y \in SenderState /\ out \in Bunch /\ SentStays(x, y)
        /\ AddsUnreliable(x, y, id, out) /\ ChannelAfter(x, y, bunch, id, out.bClose)
    BY <1>3, <2>1, UnreliablePiece
  <2>3. ~out.bReliable /\ ~out.bOpen /\ ~out.bClose /\ Sound(out)
    <3>1. /\ out.bReliable = bunch.bReliable /\ out.bOpen = (bunch.bOpen /\ i = 1)
          /\ out.bClose = (bunch.bClose /\ i = N)
          /\ out.bPartialInitial = (N > 1 /\ i = 1) /\ out.bPartial = (N > 1)
          /\ out.bPartialFinal = (N > 1 /\ i = N)
      BY DEF Piece
    <3> HIDE DEF out
    <3>2. N > 1 /\ i = 1 => i # N
      BY <2>1
    <3> QED BY <3>1, <3>2 DEF Sound, GoesOn
  <2> HIDE DEF y, out, id
  <2>4. SendingRight(x, t)
    BY <1>5 DEF UnreliableSent
  <2>5. SendingRight(y, t) /\ ~Mergeable(y)
    BY <2>2, <2>3, <2>4, UnreliableAdded DEF Mergeable, AddsUnreliable, Adds
  <2>6. SentStays(b, y)
    BY <1>5, <2>2, SentStaysTransitive DEF UnreliableSent
  <2>7. x.Closing \in BOOLEAN
    BY SenderFields
  <2>8. UnreliableSent(b, t, y)
    BY <1>5, <2>2, <2>3, <2>5, <2>6, <2>7 DEF UnreliableSent, AddsUnreliable, ChannelAfter
  <2> QED BY <2>2, <2>5, <2>8 DEF y, piece, N
<1> HIDE DEF pieces, count
<1>6. PiecesKeep(b, bunch, merged, merge, G)
  <2>1. <<0, b>> \in G
    BY <1>2, <1>4
  <2>2. ASSUME NEW i \in 1 .. count, NEW x \in SenderState, <<i - 1, x>> \in G
        PROVE  LET y == SendPiece(x, bunch, pieces[i], i, count, merged, single)
               IN  y \in SenderState /\ <<i, y>> \in G
    <3>1. UnreliableSent(b, t, x)
      BY <2>2
    <3>2. i \in 0 .. count
      BY <1>2
    <3> QED BY <1>5, <3>1, <3>2
  <2> HIDE DEF G
  <2> QED BY <2>1, <2>2 DEF PiecesKeep, pieces, count, single
<1> HIDE DEF G
<1>7. LET y == AfterPieces(b, bunch, merged, merge)[count]
      IN  y \in SenderState /\ <<count, y>> \in G
  BY <1>6, PiecesKept DEF count, pieces
<1> QED BY <1>2, <1>7 DEF G, count, pieces

-----------------------------------------------------------------------------
(* SendBunch                                                               *)

\* What is right of a sender depends on its packets and its reliable bunches.
LEMMA SendingSame ==
  ASSUME NEW x, NEW y \in SenderState, NEW t, SendingRight(x, t),
         y.SendBuffer = x.SendBuffer, y.network = x.network, y.OutRec = x.OutRec,
         y.OutReliable = x.OutReliable, y.numbered = x.numbered
  PROVE  /\ SendingRight(y, t) /\ SentStays(x, y)
         /\ y.AllowMerge = x.AllowMerge /\ MergesRight(x) => MergesRight(y)
<1>1. /\ \A id : InPacket(y, id) = InPacket(x, id)
      /\ Count(y) = Count(x) /\ Released(y) = Released(x)
      /\ \A k : Numbered(y, k) = Numbered(x, k)
      /\ \A k : Upto(y, k) = Upto(x, k)
  BY DEF InPacket, Count, Released, Numbered, Upto
<1>2. \A k : Fresh(y, k) = Fresh(x, k) /\ InMessage(y, k) = InMessage(x, k)
  BY <1>1 DEF Fresh, InMessage
<1>3. \A k : NumberRight(x, k) => NumberRight(y, k)
  BY <1>1, <1>2 DEF NumberRight
<1>4. PacketsRight(y)
  BY <1>1 DEF PacketsRight, SendingRight
<1>5. NumbersRight(y)
  BY <1>1, <1>3 DEF NumbersRight, SendingRight
<1>6. Placed(y, t, Len(y.OutRec))
  BY <1>1 DEF Placed, SendingRight
<1>7. SentStays(x, y)
  <2>1. Len(x.network) \in Nat
    BY SenderLengths DEF SendingRight
  <2> QED BY <2>1 DEF SentStays
<1>8. y.AllowMerge = x.AllowMerge /\ MergesRight(x) => MergesRight(y)
  BY <1>1 DEF MergesRight, Mergeable
<1> QED BY <1>4, <1>5, <1>6, <1>7, <1>8 DEF SendingRight

\* Fields the invariant does not speak of may change.
LEMMA SenderSame ==
  ASSUME NEW x, NEW y \in SenderState, NEW t, SenderRight(x, t),
         y.SendBuffer = x.SendBuffer, y.network = x.network, y.OutRec = x.OutRec,
         y.OutReliable = x.OutReliable, y.numbered = x.numbered,
         y.AllowMerge = x.AllowMerge, y.exists = x.exists, y.OpenPacketId = x.OpenPacketId,
         y.OpenAcked = x.OpenAcked, y.Closing = x.Closing,
         y.ChannelsToClose = x.ChannelsToClose, y.sent = x.sent
  PROVE  SenderRight(y, t)
<1>1. SendingRight(y, t) /\ MergesRight(y)
  BY SendingSame DEF SenderRight
<1>2. /\ Count(y) = Count(x) /\ Released(y) = Released(x)
      /\ \A k : Numbered(y, k) = Numbered(x, k)
      /\ \A k : Upto(y, k) = Upto(x, k)
  BY DEF Count, Released, Numbered, Upto
<1>3. \A k : Fresh(y, k) = Fresh(x, k) /\ InMessage(y, k) = InMessage(x, k)
  BY <1>2 DEF Fresh, InMessage
<1>4. ChannelRight(y)
  BY <1>2, <1>3 DEF ChannelRight, SenderRight
<1> QED BY <1>1, <1>2, <1>3, <1>4 DEF SenderRight

\* What was sent up to a number is a stream.
LEMMA UptoType ==
  ASSUME NEW s \in SenderState, NEW k \in 0 .. Count(s)
  PROVE  Upto(s, k) \in Stream
<1>1. Count(s) \in Nat
  BY SenderLengths DEF Count
<1>2. k # 0 => k \in 1 .. Count(s)
  BY <1>1
<1> QED BY <1>2, NumberedFields, StreamFacts DEF Upto

\* Data and a close, in two parts or at once.
LEMMA CarriedJoins ==
  ASSUME NEW u \in Stream, NEW left \in Seq(Unit), NEW right \in Seq(Unit), NEW bClose
  PROVE  (u \o left) \o Carried(right, bClose) = u \o Carried(left \o right, bClose)
<1> DEFINE T == Unit \cup {CloseMark}
           e == CloseMark
<1>1. u \in Seq(T) /\ left \in Seq(T) /\ right \in Seq(T) /\ e \in T
  BY DEF Stream
<1>e. Carried(right, bClose) = (IF bClose THEN Append(right, e) ELSE right)
      /\ Carried(left \o right, bClose) = (IF bClose THEN Append(left \o right, e) ELSE left \o right)
  BY DEF Carried
<1> HIDE DEF T, e
<1>2. u \o left \in Seq(T) /\ left \o right \in Seq(T) /\ <<e>> \in Seq(T)
  BY <1>1, ConcatProperties
<1>3. (u \o left) \o right = u \o (left \o right)
  BY <1>1, ConcatAssociative
<1>4. Append(right, e) = right \o <<e>>
  BY <1>1, AppendIsConcat
<1>5. Append(left \o right, e) = (left \o right) \o <<e>>
  BY <1>1, <1>2, AppendIsConcat
<1>6. (left \o right) \o <<e>> = left \o (right \o <<e>>)
  BY <1>1, <1>2, ConcatAssociative
<1>7. right \o <<e>> \in Seq(T)
  BY <1>1, <1>2, ConcatProperties
<1>8. (u \o left) \o (right \o <<e>>) = u \o (left \o (right \o <<e>>))
  BY <1>1, <1>7, ConcatAssociative
<1>9. (u \o left) \o Append(right, e) = u \o Append(left \o right, e)
  BY <1>4, <1>5, <1>6, <1>8
<1> QED BY <1>e, <1>3, <1>9

\* The reliable bunch is sent: the sender is right again.
LEMMA SentAll ==
  ASSUME NEW b \in SenderState, NEW bunch \in WholeBunch, NEW t \in Nat, BaseRight(b, bunch, t),
         b.sent = Upto(b, Count(b)) \o Carried(bunch.Data, bunch.bClose),
         NEW count, count = Len(Split(bunch.Data)), NEW y,
         PiecesSent(b, bunch, t, count, count, y)
  PROVE  SenderRight(y, t)
<1> DEFINE C == Count(b)
           R == Released(b)
<1>1. /\ SendingRight(b, t) /\ t <= Len(b.network) /\ bunch.bReliable
      /\ b.exists /\ ~b.Closing /\ ~b.ChannelsToClose
      /\ b.OpenAcked => ~bunch.bOpen /\ \A i \in DOMAIN b.OutRec : ~b.OutRec[i].bunch.bOpen
      /\ \/ bunch.bOpen
         \/ \E i \in DOMAIN b.OutRec : b.OutRec[i].bunch.bOpen
         \/ \E n \in 1 .. R :
              ~GoesOn(Numbered(b, n)) /\ \A m \in n .. R : ~Numbered(b, m).bClose
  BY DEF BaseRight
<1>2. /\ SendingRight(y, t) /\ y \in SenderState
      /\ Count(y) = C + count /\ Released(y) = R
      /\ \A k \in 1 .. C : y.numbered[k] = b.numbered[k]
      /\ count # 0 => MergesRight(y)
      /\ y.exists = b.exists /\ y.OpenAcked = b.OpenAcked /\ y.sent = b.sent
      /\ y.ChannelsToClose = b.ChannelsToClose
      /\ y.Closing <=> bunch.bClose
      /\ y.OpenPacketId = 0 => count = 0
      /\ Upto(y, Count(y)) = Upto(b, C) \o
           Carried(SubSeq(bunch.Data, 1, Cut(bunch.Data, count)), bunch.bClose /\ count = count)
  BY DEF PiecesSent, SendingRight
<1>3. \A j \in 1 .. count :
        /\ Numbered(y, C + j).bClose <=> bunch.bClose /\ j = count
        /\ GoesOn(Numbered(y, C + j)) <=> j # count
        /\ Numbered(y, C + j).bOpen <=> bunch.bOpen /\ j = 1
  BY DEF PiecesSent
<1>4. count \in Nat \ {0} /\ Cut(bunch.Data, count) = Len(bunch.Data)
  <2>1. bunch.Data \in Seq(Unit)
    BY DEF WholeBunch
  <2> QED BY <2>1, SplitFacts DEF SplitRight
<1> HIDE DEF C, R
<1>5. C \in Nat /\ R \in 0 .. C /\ C = R + Len(b.OutRec) /\ Len(b.OutRec) \in Nat
      /\ Count(y) = R + Len(y.OutRec) /\ Len(y.OutRec) \in Nat
      /\ DOMAIN b.OutRec = 1 .. Len(b.OutRec) /\ DOMAIN y.OutRec = 1 .. Len(y.OutRec)
  <2>1. Len(b.OutRec) <= Count(b) /\ Len(y.OutRec) <= Count(y)
    BY <1>1, <1>2 DEF SendingRight, NumbersRight
  <2> QED BY <1>2, <2>1, Counts, SenderLengths DEF C, R
<1>6. \A k \in 1 .. C : Numbered(y, k) = Numbered(b, k)
  BY <1>2 DEF Numbered
<1>7. \A i \in DOMAIN y.OutRec : y.OutRec[i].bunch = Numbered(y, R + i)
  BY <1>2 DEF SendingRight, NumbersRight
<1>8. ASSUME NEW i \in DOMAIN b.OutRec
      PROVE  /\ i \in DOMAIN y.OutRec /\ y.OutRec[i].bunch = b.OutRec[i].bunch
             /\ b.OutRec[i].bunch = Numbered(b, R + i)
  <2>1. R + i \in 1 .. C /\ i \in 1 .. Len(y.OutRec)
    BY <1>2, <1>4, <1>5
  <2>2. b.OutRec[i].bunch = Numbered(b, R + i)
    BY <1>1 DEF SendingRight, NumbersRight, R
  <2> QED BY <1>5, <1>6, <1>7, <2>1, <2>2
<1>9. /\ Count(y) # 0 /\ Count(y) \in Nat /\ count \in 1 .. count
      /\ Count(y) = C + count
  BY <1>2, <1>4, <1>5
<1>10. Numbered(y, Count(y)).bClose <=> bunch.bClose
  BY <1>3, <1>9
<1>11. ~InMessage(y, Count(y))
  BY <1>3, <1>9 DEF InMessage
<1>12. \/ \E i \in DOMAIN y.OutRec : y.OutRec[i].bunch.bOpen
       \/ \E n \in 1 .. R :
            /\ ~GoesOn(Numbered(y, n))
            /\ \A m \in n .. R : Numbered(y, m).bClose => m = Count(y)
  <2>1. CASE bunch.bOpen
    <3> DEFINE p == Len(b.OutRec)
               q == Len(y.OutRec)
               i == p + 1
    <3>1. i \in DOMAIN y.OutRec /\ R + i = C + 1 /\ 1 \in 1 .. count
      <4>1. /\ C = R + p /\ R + q = C + count /\ p \in Nat /\ q \in Nat /\ R \in Nat
            /\ DOMAIN y.OutRec = 1 .. q
        <5>1. R \in Nat
          BY <1>5
        <5>2. R + q = C + count
          BY <1>2, <1>5
        <5> QED BY <1>5, <5>1, <5>2
      <4> HIDE DEF p, q
      <4> QED BY <1>4, <4>1
    <3>2. Numbered(y, C + 1).bOpen
      BY <1>3, <2>1, <3>1
    <3> QED BY <1>7, <3>1, <3>2
  <2>2. CASE \E i \in DOMAIN b.OutRec : b.OutRec[i].bunch.bOpen
    BY <1>8, <2>2
  <2>3. CASE \E n \in 1 .. R : ~GoesOn(Numbered(b, n)) /\ \A m \in n .. R : ~Numbered(b, m).bClose
    <3>1. PICK n \in 1 .. R : ~GoesOn(Numbered(b, n)) /\ \A m \in n .. R : ~Numbered(b, m).bClose
      BY <2>3
    <3>2. \A m \in n .. R : m \in 1 .. C
      BY <1>5
    <3>3. n \in n .. R
      BY <1>5
    <3> QED BY <1>6, <3>1, <3>2, <3>3
  <2> QED BY <1>1, <2>1, <2>2, <2>3
<1>13. ASSUME y.OpenAcked, NEW i \in DOMAIN y.OutRec PROVE ~y.OutRec[i].bunch.bOpen
  <2>1. CASE i \in DOMAIN b.OutRec
    BY <1>1, <1>2, <1>8, <1>13, <2>1
  <2>2. CASE i \notin DOMAIN b.OutRec
    <3> DEFINE j == R + i - C
    <3>1. j \in 1 .. count /\ C + j = R + i
      <4> DEFINE p == Len(b.OutRec)
                 q == Len(y.OutRec)
      <4>1. /\ C = R + p /\ R + q = C + count /\ p \in Nat /\ q \in Nat /\ R \in Nat
            /\ i \in 1 .. q /\ i \notin 1 .. p
        <5>1. R \in Nat
          BY <1>5
        <5>2. R + q = C + count
          BY <1>2, <1>5
        <5>3. i \in 1 .. q /\ i \notin 1 .. p
          BY <1>5, <2>2
        <5> QED BY <1>5, <5>1, <5>2, <5>3
      <4> HIDE DEF p, q
      <4> QED BY <1>4, <4>1
    <3> HIDE DEF j
    <3>2. ~Numbered(y, C + j).bOpen
      BY <1>1, <1>2, <1>3, <1>13, <3>1
    <3> QED BY <1>7, <3>1, <3>2
  <2> QED BY <2>1, <2>2
<1>14. ChannelRight(y)
  BY <1>1, <1>2, <1>4, <1>9, <1>10, <1>12, <1>13 DEF ChannelRight
<1>15. y.sent = Upto(y, Count(y))
  <2>1. SubSeq(bunch.Data, 1, Len(bunch.Data)) = bunch.Data
    BY DEF WholeBunch
  <2>2. (bunch.bClose /\ count = count) = bunch.bClose
    BY DEF WholeBunch
  <2> QED BY <1>2, <1>4, <2>1, <2>2 DEF C
<1> QED BY <1>2, <1>4, <1>11, <1>14, <1>15 DEF SenderRight

\* What a send leaves as it was: all but a last number that may be merged with.
Extends(s, y) ==
  /\ SentStays(s, y) /\ Released(y) = Released(s) /\ Count(s) <= Count(y)
  /\ \A k \in 1 .. Count(s) : k # Count(s) \/ ~Mergeable(s) => y.numbered[k] = s.numbered[k]
  /\ \A n \in DOMAIN y.OutRec : y.OutRec[n].ReceivedAck =>
       n \in DOMAIN s.OutRec /\ s.OutRec[n].ReceivedAck
  /\ Mergeable(y) => Count(y) # Count(s) \/ Mergeable(s)

\* Before a bunch that is not merged.
LEMMA FreshBase ==
  ASSUME NEW s \in SenderState, NEW t \in Nat, SenderRight(s, t), t <= Len(s.network),
         s.exists, ~s.Closing, ~s.ChannelsToClose,
         NEW b \in SenderState, NEW bunch \in WholeBunch, bunch.bReliable,
         bunch.bOpen <=> s.OpenPacketId = 0,
         b.SendBuffer = s.SendBuffer, b.network = s.network, b.OutRec = s.OutRec,
         b.OutReliable = s.OutReliable, b.numbered = s.numbered, b.exists = s.exists,
         b.OpenPacketId = s.OpenPacketId, b.OpenAcked = s.OpenAcked, b.Closing = s.Closing,
         b.ChannelsToClose = s.ChannelsToClose
  PROVE  BaseRight(b, bunch, t)
<1>1. SendingRight(b, t)
  BY SendingSame DEF SenderRight
<1>2. /\ Count(b) = Count(s) /\ Released(b) = Released(s)
      /\ \A k : Numbered(b, k) = Numbered(s, k)
  BY DEF Count, Released, Numbered
<1>3. \A k : Fresh(b, k) = Fresh(s, k) /\ InMessage(b, k) = InMessage(s, k)
  BY <1>2 DEF Fresh, InMessage
<1>4. /\ s.OpenPacketId = 0 => s.OutRec = << >> /\ Fresh(s, Count(s)) /\ ~s.OpenAcked
      /\ s.OpenPacketId # 0 =>
           /\ Count(s) # 0 /\ ~Numbered(s, Count(s)).bClose
           /\ \/ \E i \in DOMAIN s.OutRec : s.OutRec[i].bunch.bOpen
              \/ \E n \in 1 .. Released(s) :
                   /\ ~GoesOn(Numbered(s, n))
                   /\ \A m \in n .. Released(s) : ~Numbered(s, m).bClose
      /\ s.OpenAcked => \A i \in DOMAIN s.OutRec : ~s.OutRec[i].bunch.bOpen
  BY DEF SenderRight, ChannelRight
<1>5. bunch.bOpen <=> Fresh(b, Count(b))
  BY <1>2, <1>3, <1>4 DEF Fresh
<1>6. ~InMessage(b, Count(b))
  BY <1>2, <1>3 DEF SenderRight
<1>7. /\ b.OutRec # << >> => ~Numbered(b, Count(b)).bClose
      /\ b.OpenPacketId = 0 => bunch.bOpen
      /\ b.OpenAcked => ~bunch.bOpen /\ \A i \in DOMAIN b.OutRec : ~b.OutRec[i].bunch.bOpen
      /\ \/ bunch.bOpen
         \/ \E i \in DOMAIN b.OutRec : b.OutRec[i].bunch.bOpen
         \/ \E n \in 1 .. Released(b) :
              ~GoesOn(Numbered(b, n)) /\ \A m \in n .. Released(b) : ~Numbered(b, m).bClose
  BY <1>2, <1>4
<1> QED BY <1>1, <1>5, <1>6, <1>7 DEF BaseRight

\* Before one that is merged with the last bunch, the last number taken back.
LEMMA MergedBase ==
  ASSUME NEW s \in SenderState, NEW t \in Nat, SenderRight(s, t), t <= Len(s.network),
         s.exists, ~s.Closing, ~s.ChannelsToClose, Mergeable(s),
         NEW b \in SenderState, NEW bunch \in WholeBunch, bunch.bReliable,
         bunch.bOpen <=> Last(s.SendBuffer).bOpen,
         SendingRight(b, t), b.numbered = Front(s.numbered), b.OutRec = Front(s.OutRec),
         Count(b) = Count(s) - 1, Released(b) = Released(s),
         \A k \in 1 .. Count(b) : b.numbered[k] = s.numbered[k],
         b.network = s.network, b.exists = s.exists,
         b.OpenPacketId = s.OpenPacketId, b.OpenAcked = s.OpenAcked, b.Closing = s.Closing,
         b.ChannelsToClose = s.ChannelsToClose
  PROVE  BaseRight(b, bunch, t) /\ ~Last(s.SendBuffer).bClose /\ s.OpenPacketId # 0
<1> DEFINE C == Count(s)
           R == Released(s)
           L == Len(s.OutRec)
           last == Last(s.SendBuffer)
<1>1. SendingRight(s, t) /\ MergesRight(s) /\ ChannelRight(s)
  BY DEF SenderRight
<1>2. /\ s.OutRec # << >> /\ L \in Nat \ {0} /\ C = R + L /\ L \in DOMAIN s.OutRec
      /\ s.OutRec[L].bunch = last /\ last = Numbered(s, C)
  BY <1>1, LastWritten
<1>3. ~last.bPartial
  BY <1>1 DEF MergesRight
<1>4. C \in Nat /\ R \in 0 .. C /\ DOMAIN s.OutRec = 1 .. L /\ DOMAIN b.OutRec = 1 .. L - 1
      /\ Len(b.OutRec) = L - 1 /\ s.OutRec \in Seq(OutBunch)
      /\ \A i \in 1 .. L - 1 : b.OutRec[i] = s.OutRec[i]
  <2>1. s.OutRec \in Seq(OutBunch) /\ L <= C
    BY <1>1, SenderFields DEF SendingRight, NumbersRight
  <2>2. Len(b.OutRec) = L - 1 /\ \A i \in 1 .. L - 1 : b.OutRec[i] = s.OutRec[i]
    <3>1. Len(Front(s.OutRec)) = L - 1 /\ \A i \in 1 .. L - 1 : Front(s.OutRec)[i] = s.OutRec[i]
      BY <1>2, <2>1, FrontLast
    <3> QED BY <3>1
  <2> QED BY <2>1, <2>2, Counts, SenderLengths
<1> HIDE DEF C, R, L, last
<1>5. s.OpenPacketId # 0 /\ ~last.bClose
  <2>1. s.OpenPacketId # 0
    BY <1>1, <1>2 DEF ChannelRight
  <2> QED BY <1>1, <1>2, <2>1 DEF ChannelRight, C
<1>6. NumberRight(s, C)
  <2>1. C \in 1 .. C
    BY <1>2, <1>4
  <2> QED BY <1>1, <2>1 DEF SendingRight, NumbersRight, C
<1>7. /\ last.bOpen <=> Fresh(s, C - 1)
      /\ Starts(last) <=> ~InMessage(s, C - 1)
  BY <1>2, <1>6 DEF NumberRight
<1>8. Count(b) = C - 1 /\ Released(b) = R /\ C - 1 \in Nat
      /\ \A k \in 1 .. C - 1 : Numbered(b, k) = Numbered(s, k)
  <2>1. C - 1 \in Nat
    BY <1>2, <1>4
  <2> QED BY <2>1 DEF C, R, Numbered
<1>9. Fresh(b, C - 1) = Fresh(s, C - 1) /\ InMessage(b, C - 1) = InMessage(s, C - 1)
  <2>1. C - 1 # 0 => C - 1 \in 1 .. C - 1
    <3>1. C - 1 \in Nat /\ C \in Nat
      BY <1>4, <1>8
    <3> QED BY <3>1
  <2> QED BY <1>8, <2>1 DEF Fresh, InMessage
<1>10. ASSUME b.OutRec # << >> PROVE ~Numbered(b, Count(b)).bClose
  <2>1. L - 1 # 0
    BY <1>4, <1>10, SenderFields
  <2>2. C - 1 \in R + 1 .. C - 1 /\ C - 1 \in 1 .. C - 1
    BY <1>2, <1>4, <2>1
  <2>3. ~Numbered(s, C - 1).bClose
    BY <1>1, <2>2 DEF SendingRight, NumbersRight, C, R
  <2> QED BY <1>8, <2>2, <2>3
<1>11. b.OpenAcked => ~bunch.bOpen /\ \A i \in DOMAIN b.OutRec : ~b.OutRec[i].bunch.bOpen
  <2>1. SUFFICES ASSUME b.OpenAcked
                 PROVE  ~bunch.bOpen /\ \A i \in DOMAIN b.OutRec : ~b.OutRec[i].bunch.bOpen
    OBVIOUS
  <2>2. \A i \in DOMAIN s.OutRec : ~s.OutRec[i].bunch.bOpen
    BY <1>1, <2>1 DEF ChannelRight
  <2>3. \A i \in 1 .. L - 1 : i \in 1 .. L
    BY <1>2
  <2> QED BY <1>2, <1>4, <2>2, <2>3 DEF last
<1>12. \/ bunch.bOpen
       \/ \E i \in DOMAIN b.OutRec : b.OutRec[i].bunch.bOpen
       \/ \E n \in 1 .. R : ~GoesOn(Numbered(b, n)) /\ \A m \in n .. R : ~Numbered(b, m).bClose
  <2>1. \/ \E i \in DOMAIN s.OutRec : s.OutRec[i].bunch.bOpen
        \/ \E n \in 1 .. R :
             /\ ~GoesOn(Numbered(s, n))
             /\ \A m \in n .. R : Numbered(s, m).bClose => m = C
    BY <1>1, <1>5 DEF ChannelRight, C, R
  <2>2. CASE \E i \in DOMAIN s.OutRec : s.OutRec[i].bunch.bOpen
    <3>1. PICK i \in 1 .. L : s.OutRec[i].bunch.bOpen
      BY <1>4, <2>2
    <3>2. CASE i = L
      BY <1>2, <3>1, <3>2 DEF last
    <3>3. CASE i # L
      <4>1. i \in 1 .. L - 1
        BY <1>2, <3>3
      <4> QED BY <1>4, <3>1, <4>1
    <3> QED BY <3>2, <3>3
  <2>3. CASE \E n \in 1 .. R : /\ ~GoesOn(Numbered(s, n))
                               /\ \A m \in n .. R : Numbered(s, m).bClose => m = C
    <3>1. PICK n \in 1 .. R : /\ ~GoesOn(Numbered(s, n))
                              /\ \A m \in n .. R : Numbered(s, m).bClose => m = C
      BY <2>3
    <3>2. \A m \in n .. R : m \in 1 .. C - 1 /\ m # C
      BY <1>2, <1>4
    <3>3. n \in n .. R
      BY <1>4
    <3> QED BY <1>8, <3>1, <3>2, <3>3
  <2> QED BY <2>1, <2>2, <2>3
<1>13. t <= Len(b.network)
  OBVIOUS
<1>14. (bunch.bOpen <=> Fresh(b, Count(b))) /\ ~InMessage(b, Count(b))
  <2>1. Starts(last)
    BY <1>3 DEF Starts
  <2> QED BY <1>7, <1>8, <1>9, <2>1 DEF last
<1> QED
  BY <1>5, <1>8, <1>10, <1>11, <1>12, <1>13, <1>14 DEF BaseRight, last, R

\* The channel of b is that of s, with more sent.
Prepared(s, b) ==
  /\ b.AllowMerge = s.AllowMerge /\ b.network = s.network /\ b.OutRec = s.OutRec
  /\ b.OutReliable = s.OutReliable /\ b.numbered = s.numbered /\ b.exists = s.exists
  /\ b.OpenPacketId = s.OpenPacketId /\ b.OpenAcked = s.OpenAcked /\ b.Closing = s.Closing
  /\ b.ChannelsToClose = s.ChannelsToClose

\* What may be sent: a channel that is not closing, and s is right.
MaySend(s, t) ==
  /\ s \in SenderState /\ SenderRight(s, t) /\ t <= Len(s.network)
  /\ s.exists /\ ~s.Closing /\ ~s.ChannelsToClose

\* Of the new numbers only the last ends a message.
NewParts(s, y) ==
  /\ \A k \in Count(s) + 1 .. Count(y) - 1 : InMessage(y, k)
  /\ Count(y) # Count(s) => \A k \in 1 .. Count(s) : y.numbered[k] = s.numbered[k]

\* The sender after a message: all of it is sent, and the sender is right.
Sent(s, t, b, y) ==
  /\ y \in SenderState /\ SenderRight(y, t) /\ Extends(s, y) /\ y.sent = b.sent
  /\ ~y.ChannelsToClose /\ NewParts(s, y)

\* SendBunch's loop for a reliable bunch that is not merged keeps the sender right.
LEMMA ReliableSent ==
  ASSUME NEW s, NEW t \in Nat, MaySend(s, t), NEW b \in SenderState, Prepared(s, b),
         b.SendBuffer = s.SendBuffer, NEW bunch \in WholeBunch, bunch.bReliable,
         bunch.bOpen <=> s.OpenPacketId = 0,
         b.sent = s.sent \o Carried(bunch.Data, bunch.bClose),
         NEW merged \in BOOLEAN, ~merged, NEW merge \in BOOLEAN
  PROVE  Sent(s, t, b, AfterPieces(b, bunch, merged, merge)[Len(Split(bunch.Data))])
<1> DEFINE count == Len(Split(bunch.Data))
           y == AfterPieces(b, bunch, merged, merge)[count]
<1>1. /\ s \in SenderState /\ SenderRight(s, t) /\ t <= Len(s.network)
      /\ s.exists /\ ~s.Closing /\ ~s.ChannelsToClose
  BY DEF MaySend
<1>2. BaseRight(b, bunch, t)
  BY <1>1, FreshBase DEF Prepared
<1>3. y \in SenderState /\ PiecesSent(b, bunch, t, count, count, y)
  BY <1>2, AllPieces
<1> HIDE DEF y
<1>4. Count(b) = Count(s) /\ Upto(b, Count(b)) = Upto(s, Count(s)) /\ Released(b) = Released(s)
  BY DEF Prepared, Count, Upto, Released
<1>5. SenderRight(y, t)
  <2>1. b.sent = Upto(b, Count(b)) \o Carried(bunch.Data, bunch.bClose)
    BY <1>1, <1>4 DEF SenderRight
  <2> HIDE DEF count
  <2>2. count = Len(Split(bunch.Data))
    BY DEF count
  <2> QED BY <1>2, <1>3, <2>1, <2>2, SentAll
<1>6. count \in Nat \ {0}
  <2>1. bunch.Data \in Seq(Unit)
    BY DEF WholeBunch
  <2> QED BY <2>1, SplitFacts DEF SplitRight
<1> HIDE DEF count
<1>7. /\ SentStays(b, y) /\ Count(y) = Count(b) + count /\ Released(y) = Released(b)
      /\ \A k \in 1 .. Count(b) : y.numbered[k] = b.numbered[k]
      /\ \A n \in DOMAIN y.OutRec : y.OutRec[n].ReceivedAck =>
           n \in DOMAIN b.OutRec /\ b.OutRec[n].ReceivedAck
      /\ y.sent = b.sent /\ y.ChannelsToClose = b.ChannelsToClose
  BY <1>3 DEF PiecesSent
<1>8. Count(s) \in Nat /\ Count(y) = Count(s) + count
  BY <1>1, <1>4, <1>7, SenderLengths DEF Count
<1>9. SentStays(s, y)
  BY <1>7 DEF SentStays, Prepared
<1>10. Count(s) <= Count(y) /\ Count(y) # Count(s)
  BY <1>6, <1>8
<1>11. Extends(s, y)
  BY <1>4, <1>7, <1>9, <1>10 DEF Extends, Prepared
<1>12. NewParts(s, y)
  <2>0. \A k \in 1 .. Count(s) : y.numbered[k] = s.numbered[k]
    BY <1>7 DEF Prepared, Count
  <2>1. SUFFICES ASSUME NEW k \in Count(s) + 1 .. Count(y) - 1
                 PROVE  InMessage(y, k)
    BY <2>0 DEF NewParts
  <2> DEFINE j == k - Count(s)
  <2>2. j \in 1 .. count /\ j # count /\ k = Count(b) + j /\ k # 0
    BY <1>4, <1>6, <1>8, <2>1
  <2> HIDE DEF j
  <2>3. GoesOn(Numbered(y, Count(b) + j))
    BY <1>3, <2>2 DEF PiecesSent
  <2> QED BY <2>2, <2>3 DEF InMessage
<1> QED BY <1>1, <1>3, <1>5, <1>7, <1>11, <1>12 DEF y, count, Prepared, Sent

\* SendBunch's loop for a merged bunch keeps the sender right.
LEMMA MergedSent ==
  ASSUME NEW s, NEW t \in Nat, MaySend(s, t), Mergeable(s), NEW p \in SenderState, Prepared(s, p),
         p.SendBuffer = s.SendBuffer, NEW bunch \in WholeBunch, bunch.bReliable,
         bunch.bOpen <=> Last(s.SendBuffer).bOpen, NEW data \in Seq(Unit),
         bunch.Data = Last(s.SendBuffer).Data \o data, Len(bunch.Data) <= MaxSingleBunchSize,
         p.sent = s.sent \o Carried(data, bunch.bClose),
         NEW merged \in BOOLEAN, merged, NEW merge \in BOOLEAN
  PROVE  Sent(s, t, p, AfterPieces(PopLastStart(p), bunch, merged, merge)[Len(Split(bunch.Data))])
<1> DEFINE b == TakenBack(p)
           x == PopLastStart(p)
           C == Count(s)
           last == Last(s.SendBuffer)
           single == merge /\ Len(Split(bunch.Data)) = 1
           y == SendPiece(x, bunch, bunch.Data, 1, 1, merged, single)
           out == Piece(bunch, bunch.Data, 1, 1, b.OutReliable + 1)
<1>1. /\ s \in SenderState /\ SenderRight(s, t) /\ t <= Len(s.network)
      /\ s.exists /\ ~s.Closing /\ ~s.ChannelsToClose
      /\ SendingRight(s, t) /\ MergesRight(s)
  BY DEF MaySend, SenderRight
<1>2. /\ SendingRight(p, t) /\ MergesRight(p) /\ Mergeable(p) /\ t <= Len(p.network)
      /\ Count(p) = C /\ Released(p) = Released(s)
  BY <1>1, SendingSame DEF Prepared, Mergeable, Count, Released
<1>3. /\ SendingRight(b, t) /\ Count(b) = C - 1 /\ Released(b) = Released(s)
      /\ b.network = s.network /\ b.sent = p.sent
      /\ b.numbered = Front(s.numbered) /\ b.OutRec = Front(s.OutRec)
      /\ \A k \in 1 .. Count(b) : b.numbered[k] = s.numbered[k]
  <2>1. /\ SendingRight(b, t) /\ Count(b) = Count(p) - 1 /\ Released(b) = Released(p)
        /\ b.network = p.network /\ b.sent = p.sent
        /\ b.numbered = Front(p.numbered) /\ b.OutRec = Front(p.OutRec)
        /\ \A k \in 1 .. Count(b) : b.numbered[k] = p.numbered[k]
    BY <1>2, TakenBackRight
  <2> HIDE DEF b
  <2> QED BY <1>2, <2>1 DEF Prepared
<1>4. /\ b.exists = s.exists /\ b.OpenAcked = s.OpenAcked
      /\ b.ChannelsToClose = s.ChannelsToClose /\ b.OpenPacketId = s.OpenPacketId
      /\ b.Closing = s.Closing /\ b \in SenderState
  <2>1. /\ b.exists = p.exists /\ b.OpenAcked = p.OpenAcked
        /\ b.ChannelsToClose = p.ChannelsToClose /\ b.OpenPacketId = p.OpenPacketId
        /\ b.Closing = p.Closing
    BY DEF TakenBack, SenderState
  <2> QED BY <1>3, <2>1 DEF Prepared, SendingRight
<1>5. bunch.Data \in Seq(Unit) /\ Split(bunch.Data)[1] = bunch.Data /\ Len(Split(bunch.Data)) = 1
      /\ Cut(bunch.Data, 1) = Len(bunch.Data)
  <2>1. bunch.Data \in Seq(Unit)
    BY DEF WholeBunch
  <2> QED BY <2>1, SplitFacts DEF SplitRight
<1>6. PICK id : /\ y \in SenderState /\ out \in Bunch /\ SentStays(b, y)
                /\ AddsReliable(b, y, id, out,
                                Upto(b, Count(b)) \o Carried(bunch.Data, out.bClose))
                /\ ChannelAfter(b, y, bunch, id, out.bClose)
  <2>1. single \in BOOLEAN
    OBVIOUS
  <2> HIDE DEF single
  <2>2. LET bb == TakenBack(p)
            yy == SendPiece(PopLastStart(p), bunch, bunch.Data, 1, 1, merged, single)
            oo == Piece(bunch, bunch.Data, 1, 1, bb.OutReliable + 1)
        IN  \E id : /\ yy \in SenderState /\ oo \in Bunch /\ SentStays(bb, yy)
                    /\ AddsReliable(bb, yy, id, oo,
                                    Upto(bb, Count(bb)) \o Carried(bunch.Data, oo.bClose))
                    /\ ChannelAfter(bb, yy, bunch, id, oo.bClose)
    BY <1>2, <1>5, <2>1, MergedPiece
  <2> QED BY <2>2
<1> HIDE DEF b, x, y, out, single
<1>7. BaseRight(b, bunch, t) /\ ~last.bClose /\ s.OpenPacketId # 0
  BY <1>1, <1>3, <1>4, MergedBase
<1>8. PiecesSent(b, bunch, t, 1, 1, y)
  <2> DEFINE i == 1
             N == Len(Split(bunch.Data))
  <2>1. N = 1 /\ i \in 1 .. N /\ i - 1 = 0 /\ i = N
    BY <1>5
  <2>2. PiecesSent(b, bunch, t, N, i - 1, b)
    <3>1. PiecesSent(b, bunch, t, N, 0, b)
      BY <1>4, <1>7, NothingSent
    <3> HIDE DEF N
    <3> QED BY <2>1, <3>1
  <2>3. out = Piece(bunch, Split(bunch.Data)[i], i, N, b.OutReliable + 1)
    BY <1>5 DEF out
  <2>4. AddsReliable(b, y, id, out,
          Upto(b, Count(b)) \o Carried(Split(bunch.Data)[i], out.bClose))
    BY <1>5, <1>6
  <2>5. N = Len(Split(bunch.Data))
    OBVIOUS
  <2> HIDE DEF i, N
  <2>6. PiecesSent(b, bunch, t, N, i, y)
    BY <1>4, <1>6, <1>7, <2>1, <2>2, <2>3, <2>4, <2>5, PieceStep
  <2> QED BY <2>1, <2>6 DEF i
<1>9. SenderRight(y, t)
  <2>1. b.sent = Upto(b, Count(b)) \o Carried(bunch.Data, bunch.bClose)
    <3>1. /\ C \in Nat /\ s.OutRec # << >> /\ C # 0 /\ last = Numbered(s, C)
      <4>1. s.OutRec # << >> /\ s.numbered # << >>
        BY <1>1, LastWritten
      <4>2. Len(s.numbered) # 0
        BY <1>1, <4>1, SenderFields
      <4> QED BY <1>1, <4>1, <4>2, SenderLengths DEF Count, MergesRight
    <3>2. NumberRight(s, C)
      <4>1. C \in 1 .. C
        BY <3>1
      <4> QED BY <1>1, <4>1 DEF SendingRight, NumbersRight
    <3>3. s.sent = Upto(s, C - 1) \o last.Data
      <4>1. Upto(s, C) = s.numbered[C].upto
        BY <3>1 DEF Upto
      <4> QED BY <1>1, <1>7, <3>1, <3>2, <4>1 DEF SenderRight, NumberRight, Carried
    <3> HIDE DEF C, last
    <3>4. Upto(b, C - 1) = Upto(s, C - 1) /\ C - 1 \in 0 .. C
      <4>1. C - 1 # 0 => C - 1 \in 1 .. C - 1
        BY <3>1
      <4>2. \A k \in 1 .. C - 1 : b.numbered[k] = s.numbered[k]
        BY <1>3
      <4> QED BY <3>1, <4>1, <4>2 DEF Upto
    <3>5. Upto(s, C - 1) \in Stream
      BY <1>1, <3>4, UptoType DEF C
    <3>6. last.Data \in Seq(Unit)
      <4>1. last \in Bunch
        BY <1>1, SenderFields, FrontLast DEF Mergeable, last
      <4> QED BY <4>1, BunchFields
    <3>7. (Upto(s, C - 1) \o last.Data) \o Carried(data, bunch.bClose)
          = Upto(s, C - 1) \o Carried(last.Data \o data, bunch.bClose)
      BY <3>5, <3>6, CarriedJoins
    <3> QED BY <1>3, <3>3, <3>4, <3>7 DEF last
  <2> DEFINE N == Len(Split(bunch.Data))
  <2>2. N = 1
    BY <1>5
  <2> HIDE DEF N
  <2>3. PiecesSent(b, bunch, t, N, N, y) /\ N = Len(Split(bunch.Data))
    BY <1>8, <2>2 DEF N
  <2> QED BY <1>4, <1>7, <2>1, <2>3, SentAll
<1>10. AfterPieces(x, bunch, merged, merge)[Len(Split(bunch.Data))] = y
  <2> DEFINE G == {<<0, x>>, <<1, y>>}
  <2>1. PiecesKeep(x, bunch, merged, merge, G)
    <3>1. <<0, x>> \in G
      OBVIOUS
    <3>2. ASSUME NEW i \in 1 .. Len(Split(bunch.Data)), NEW z \in SenderState, <<i - 1, z>> \in G
          PROVE  SendPiece(z, bunch, Split(bunch.Data)[i], i, Len(Split(bunch.Data)), merged,
                           single) \in SenderState
                 /\ <<i, SendPiece(z, bunch, Split(bunch.Data)[i], i, Len(Split(bunch.Data)),
                                   merged, single)>> \in G
      <4>1. i = 1 /\ z = x
        <5>1. i = 1
          BY <1>5
        <5> QED BY <3>2, <5>1
      <4>2. SendPiece(z, bunch, Split(bunch.Data)[i], i, Len(Split(bunch.Data)), merged, single)
            = y
        BY <1>5, <4>1 DEF y
      <4> QED BY <1>6, <4>1, <4>2
    <3> HIDE DEF G
    <3> QED BY <3>1, <3>2 DEF PiecesKeep, single
  <2>2. x \in SenderState
    <3>1. p.SendBuffer \in Seq(Bunch) /\ p.SendBuffer # << >>
      BY <1>2, SenderFields DEF Mergeable
    <3>2. Front(p.SendBuffer) \in Seq(Bunch)
      BY <3>1, FrontLast
    <3> QED BY <3>2 DEF x, PopLastStart, SenderState
  <2> HIDE DEF G
  <2>3. <<Len(Split(bunch.Data)), AfterPieces(x, bunch, merged, merge)[Len(Split(bunch.Data))]>> \in G
    BY <2>1, <2>2, PiecesKept
  <2> DEFINE N == Len(Split(bunch.Data))
             z == AfterPieces(x, bunch, merged, merge)[N]
  <2>4. <<N, z>> \in G /\ N = 1
    BY <1>5, <2>3
  <2> HIDE DEF N, z
  <2>5. z = y
    BY <2>4 DEF G
  <2> QED BY <2>5 DEF z, N
<1>11. /\ Count(y) = Count(b) + 1 /\ Released(y) = Released(b)
       /\ \A k \in 1 .. Count(b) : y.numbered[k] = b.numbered[k]
       /\ \A n \in DOMAIN y.OutRec : y.OutRec[n].ReceivedAck =>
            n \in DOMAIN b.OutRec /\ b.OutRec[n].ReceivedAck
       /\ y.sent = b.sent /\ y.ChannelsToClose = b.ChannelsToClose
  BY <1>8 DEF PiecesSent
<1>12. SentStays(s, y)
  BY <1>3, <1>6 DEF SentStays
<1>13. Extends(s, y)
  <2>1. C \in Nat /\ Count(y) = C /\ \A k \in 1 .. C : k # C => k \in 1 .. C - 1
    BY <1>1, <1>3, <1>11, SenderLengths DEF Count
  <2>2. ASSUME NEW n \in DOMAIN b.OutRec, b.OutRec[n].ReceivedAck
        PROVE  n \in DOMAIN s.OutRec /\ s.OutRec[n].ReceivedAck
    <3>1. s.OutRec \in Seq(OutBunch) /\ s.OutRec # << >>
      BY <1>1, SenderFields, LastWritten
    <3>2. Len(Front(s.OutRec)) = Len(s.OutRec) - 1 /\ Front(s.OutRec) \in Seq(OutBunch)
          /\ \A i \in 1 .. Len(s.OutRec) - 1 : Front(s.OutRec)[i] = s.OutRec[i]
      BY <3>1, FrontLast
    <3>3. n \in 1 .. Len(s.OutRec) - 1 /\ n \in DOMAIN s.OutRec
      BY <1>3, <3>1, <3>2
    <3> QED BY <1>3, <2>2, <3>2, <3>3
  <2> HIDE DEF C
  <2>3. Count(s) = C
    BY DEF C
  <2>4. \A k \in 1 .. C - 1 : y.numbered[k] = s.numbered[k]
    BY <1>3, <1>11
  <2> QED BY <1>3, <1>11, <1>12, <2>1, <2>2, <2>3, <2>4 DEF Extends
<1>14. NewParts(s, y)
  <2>1. C \in Nat /\ Count(y) = C
    BY <1>1, <1>3, <1>11, SenderLengths DEF Count
  <2>2. Count(s) = C
    BY DEF C
  <2> HIDE DEF C
  <2> QED BY <2>1, <2>2 DEF NewParts
<1> QED BY <1>1, <1>3, <1>4, <1>6, <1>9, <1>10, <1>11, <1>13, <1>14 DEF x, Sent

\* Taking back an unreliable bunch disturbs no reliable one.
LEMMA UnreliablePopped ==
  ASSUME NEW s \in SenderState, NEW t, SendingRight(s, t), s.SendBuffer # << >>,
         ~Last(s.SendBuffer).bReliable
  PROVE  PopLastStart(s) \in SenderState /\ SendingRight(PopLastStart(s), t)
<1> DEFINE b == PopLastStart(s)
           N == Len(s.network)
<1>1. Front(s.SendBuffer) \in Seq(Bunch)
      /\ ToSet(s.SendBuffer) = ToSet(Front(s.SendBuffer)) \cup {Last(s.SendBuffer)}
  BY SenderFields, FrontLast
<1>2. /\ b \in SenderState /\ b.SendBuffer = Front(s.SendBuffer) /\ b.network = s.network
      /\ b.OutRec = s.OutRec /\ b.OutReliable = s.OutReliable /\ b.numbered = s.numbered
  BY <1>1 DEF PopLastStart, SenderState
<1> HIDE DEF b
<1>3. N \in Nat /\ DOMAIN s.network = 1 .. N /\ N + 1 \notin 1 .. N
  BY SenderLengths
<1>4. ASSUME NEW id
      PROVE  /\ InPacket(b, id) \subseteq InPacket(s, id)
             /\ \A bunch \in InPacket(s, id) : bunch.bReliable => bunch \in InPacket(b, id)
  BY <1>1, <1>2 DEF InPacket
<1>5. /\ Count(b) = Count(s) /\ Released(b) = Released(s)
      /\ \A k : Numbered(b, k) = Numbered(s, k)
      /\ \A k : Upto(b, k) = Upto(s, k)
  BY <1>2 DEF Count, Released, Numbered, Upto
<1>6. \A k : Fresh(b, k) = Fresh(s, k) /\ InMessage(b, k) = InMessage(s, k)
  BY <1>5 DEF Fresh, InMessage
<1>7. \A k : NumberRight(s, k) => NumberRight(b, k)
  BY <1>2, <1>5, <1>6 DEF NumberRight
<1>8. PacketsRight(b)
  BY <1>4 DEF PacketsRight, SendingRight
<1>9. NumbersRight(b)
  BY <1>2, <1>5, <1>7 DEF NumbersRight, SendingRight
<1>10. Placed(b, t, Len(b.OutRec))
  <2>1. /\ \A n \in DOMAIN s.OutRec : ~s.OutRec[n].ReceivedAck =>
             /\ s.OutRec[n].PacketId > t \/ (n > Len(s.OutRec) /\ s.OutRec[n].PacketId = t)
             /\ s.OutRec[n].bunch \in InPacket(s, s.OutRec[n].PacketId)
        /\ \A id \in Nat : \A bunch \in InPacket(s, id) : id > t /\ bunch.bReliable =>
             \E n \in DOMAIN s.OutRec : /\ s.OutRec[n].bunch = bunch
                                        /\ s.OutRec[n].PacketId = id
                                        /\ ~s.OutRec[n].ReceivedAck
    BY DEF Placed, SendingRight
  <2>2. \A n \in DOMAIN s.OutRec : s.OutRec[n].bunch.bReliable
    BY BufferNumbers DEF SendingRight
  <2> QED BY <1>2, <1>4, <2>1, <2>2 DEF Placed
<1> QED BY <1>2, <1>8, <1>9, <1>10 DEF SendingRight, b

\* SendBunch's loop for an unreliable bunch keeps the sender right.
LEMMA UnreliableDone ==
  ASSUME NEW s, NEW t \in Nat, MaySend(s, t), NEW b \in SenderState, Prepared(s, b),
         b.sent = s.sent, NEW y \in SenderState, UnreliableSent(b, t, y), ~Mergeable(y)
  PROVE  /\ SenderRight(y, t) /\ Extends(s, y) /\ y.sent = s.sent /\ ~y.ChannelsToClose
         /\ NewParts(s, y)
<1>1. /\ s \in SenderState /\ SenderRight(s, t) /\ t <= Len(s.network)
      /\ s.exists /\ ~s.Closing /\ ~s.ChannelsToClose
  BY DEF MaySend
<1>2. /\ y.numbered = s.numbered /\ y.OutRec = s.OutRec /\ y.sent = s.sent
      /\ y.exists = s.exists /\ y.OpenAcked = s.OpenAcked
      /\ y.ChannelsToClose = s.ChannelsToClose /\ y.Closing = s.Closing
      /\ y.OpenPacketId = s.OpenPacketId /\ SendingRight(y, t) /\ SentStays(s, y)
  BY DEF UnreliableSent, Prepared, SentStays
<1>3. /\ Count(y) = Count(s) /\ Released(y) = Released(s)
      /\ \A k : Numbered(y, k) = Numbered(s, k)
      /\ \A k : Upto(y, k) = Upto(s, k)
  BY <1>2 DEF Count, Released, Numbered, Upto
<1>4. \A k : Fresh(y, k) = Fresh(s, k) /\ InMessage(y, k) = InMessage(s, k)
  BY <1>3 DEF Fresh, InMessage
<1>5. ChannelRight(y)
  BY <1>1, <1>2, <1>3, <1>4 DEF ChannelRight, SenderRight
<1>6. SenderRight(y, t)
  BY <1>1, <1>2, <1>3, <1>4, <1>5 DEF SenderRight, MergesRight
<1>7. Extends(s, y)
  <2>1. Count(s) \in Nat
    BY <1>1, SenderLengths DEF Count
  <2> QED BY <1>2, <1>3, <2>1 DEF Extends
<1>8. NewParts(s, y)
  <2>1. Count(s) \in Nat
    BY <1>1, SenderLengths DEF Count
  <2> QED BY <1>3, <2>1 DEF NewParts
<1> QED BY <1>1, <1>2, <1>6, <1>7, <1>8

\* What a message is: unreliable ones only update a channel that is open.
Message(s, message) ==
  /\ message \in [bReliable : BOOLEAN, bClose : BOOLEAN, Data : Seq(Unit)]
  /\ ~message.bReliable => ~message.bClose /\ s.OpenPacketId # 0

\* A message is sent, or the connection closes.
BunchDone(s, message, t, y) ==
  \/ y = [s EXCEPT !.connected = FALSE]
  \/ /\ y \in SenderState /\ SenderRight(y, t) /\ Extends(s, y) /\ ~y.ChannelsToClose
     /\ NewParts(s, y)
     /\ y.sent = s.sent \/ y.sent = s.sent \o Carried(message.Data, message.bClose)

\* How it is sent: y is the connection after the pieces of bunch all, which takes the
\* place of the last one if it is merged with it.
SentAs(s, message, merge, merged, all, p, y) ==
  /\ Prepared(s, p) /\ p.SendBuffer = s.SendBuffer
  /\ y = AfterPieces(IF merged THEN PopLastStart(p) ELSE p, all, merged, merge)[Len(Split(all.Data))]
  /\ p.sent = IF all.bReliable THEN s.sent \o Carried(message.Data, message.bClose) ELSE s.sent
  /\ message.bReliable => all.bReliable
  /\ s.bPausedUntilReliableACK \/ (all.bReliable /\ ~message.bReliable) =>
       p.bPausedUntilReliableACK
  /\ IF merged
     THEN LET last == Last(s.SendBuffer)
          IN  /\ s.SendBuffer # << >> /\ s.AllowMerge /\ last \in Bunch
              /\ last.bReliable = message.bReliable /\ all.bReliable = message.bReliable
              /\ all.Data = last.Data \o message.Data /\ Len(all.Data) <= MaxSingleBunchSize
              /\ all.bOpen = (last.bOpen \/ s.OpenPacketId = 0)
              /\ all.bClose = (last.bClose \/ message.bClose)
     ELSE /\ all.Data = message.Data /\ all.bClose = message.bClose
          /\ all.bOpen = (s.OpenPacketId = 0)

\* SendBunch ends the connection, or writes the pieces of a bunch it has made ready.
LEMMA BunchIs ==
  ASSUME NEW s, NEW t \in Nat, MaySend(s, t), NEW message, Message(s, message),
         NEW merge \in BOOLEAN
  PROVE  LET y == SendBunch(s, message, merge)
         IN  \/ y = [s EXCEPT !.connected = FALSE]
             \/ \E merged \in BOOLEAN, all \in WholeBunch, p \in SenderState :
                  SentAs(s, message, merge, merged, all, p, y)
<1> DEFINE bunch == [bReliable |-> message.bReliable, bClose |-> message.bClose,
                     bOpen |-> s.OpenPacketId = 0, Data |-> message.Data]
           merged == merge /\ CanMerge(s, bunch)
           last == Last(s.SendBuffer)
           joined == Merged(s, bunch)
           whole == IF merged THEN [bunch EXCEPT !.Data = joined.Data, !.bOpen = joined.bOpen,
                                                 !.bClose = joined.bClose]
                              ELSE bunch
           count == Len(Split(whole.Data))
           overflows == OverflowsReliable(s, count, whole.bClose)
           promoted == count >= PartialBunchReliableThreshold /\ ~overflows
           bReliable == whole.bReliable \/ promoted
           pause == s.bPausedUntilReliableACK \/ promoted
           sent == IF bReliable THEN s.sent \o Carried(message.Data, message.bClose) ELSE s.sent
           ready == [(IF merged THEN PopLastStart(s) ELSE s) EXCEPT
                       !.bPausedUntilReliableACK = @ \/ promoted,
                       !.sent = IF bReliable THEN @ \o Carried(message.Data, message.bClose)
                                ELSE @]
           p == [s EXCEPT !.bPausedUntilReliableACK = pause, !.sent = sent]
           all == [whole EXCEPT !.bReliable = bReliable]
           y == AfterPieces(ready, all, merged, merge)[count]
<1>1. SendBunch(s, message, merge) =
        IF bReliable /\ overflows THEN [s EXCEPT !.connected = FALSE] ELSE y
  BY DEF SendBunch
<1>2. /\ s \in SenderState /\ SenderRight(s, t) /\ t <= Len(s.network) /\ SendingRight(s, t)
      /\ s.exists /\ ~s.Closing /\ ~s.ChannelsToClose
  BY DEF MaySend, SenderRight
<1>3. /\ message.bReliable \in BOOLEAN /\ message.bClose \in BOOLEAN
      /\ message.Data \in Seq(Unit)
      /\ ~message.bReliable => ~message.bClose /\ s.OpenPacketId # 0
  BY DEF Message
<1>4. bunch \in WholeBunch /\ bunch.bReliable = message.bReliable
      /\ bunch.bClose = message.bClose /\ bunch.bOpen = (s.OpenPacketId = 0)
      /\ bunch.Data = message.Data
  BY <1>3 DEF WholeBunch
<1> HIDE DEF bunch
<1>5. ASSUME merged
      PROVE  /\ s.SendBuffer # << >> /\ last \in Bunch /\ last.bReliable = message.bReliable
             /\ joined.Data = last.Data \o message.Data
             /\ joined.bOpen = (last.bOpen \/ bunch.bOpen)
             /\ joined.bClose = (last.bClose \/ bunch.bClose)
             /\ joined.Data \in Seq(Unit) /\ Len(joined.Data) <= MaxSingleBunchSize
             /\ s.AllowMerge
  <2>1. /\ s.SendBuffer # << >> /\ last.bReliable = bunch.bReliable /\ s.AllowMerge
        /\ Len(last.Data) + Len(bunch.Data) <= MaxSingleBunchSize
    BY <1>5 DEF CanMerge
  <2>2. last \in Bunch
    BY <1>2, <2>1, SenderFields, FrontLast
  <2>3. /\ joined.Data = last.Data \o bunch.Data
        /\ joined.bOpen = (last.bOpen \/ bunch.bOpen)
        /\ joined.bClose = (last.bClose \/ bunch.bClose)
    BY <2>2 DEF Merged, Bunch
  <2>4. last.Data \in Seq(Unit)
    BY <2>2, BunchFields
  <2> HIDE DEF joined, last
  <2>5. last.Data \o message.Data \in Seq(Unit)
        /\ Len(last.Data \o message.Data) = Len(last.Data) + Len(message.Data)
    BY <1>3, <2>4
  <2> QED BY <1>4, <2>1, <2>2, <2>3, <2>5
<1>6. /\ whole \in WholeBunch /\ whole.bReliable = message.bReliable
      /\ whole.bOpen = IF merged THEN joined.bOpen ELSE bunch.bOpen
      /\ whole.bClose = IF merged THEN joined.bClose ELSE bunch.bClose
      /\ whole.Data = IF merged THEN joined.Data ELSE bunch.Data
  <2>1. CASE merged
    <3>1. joined.bOpen \in BOOLEAN /\ joined.bClose \in BOOLEAN /\ joined.Data \in Seq(Unit)
      BY <1>5, <2>1, BunchFields
    <3> HIDE DEF joined, merged
    <3> QED BY <1>4, <2>1, <3>1 DEF WholeBunch
  <2>2. CASE ~merged
    BY <1>4, <2>2
  <2> QED BY <2>1, <2>2
<1> HIDE DEF joined, whole
<1>7. count \in Nat /\ (Len(whole.Data) <= MaxSingleBunchSize => count = 1)
  <2>1. whole.Data \in Seq(Unit)
    BY <1>6 DEF WholeBunch
  <2> QED BY <2>1, SplitFacts DEF SplitRight
<1>8. merged => ~promoted
  <2>1. count = 1 => ~(count >= PartialBunchReliableThreshold)
    BY Constants
  <2> QED BY <1>5, <1>6, <1>7, <2>1
<1>9. bReliable \in BOOLEAN /\ promoted \in BOOLEAN /\ overflows \in BOOLEAN /\ merged \in BOOLEAN
  <2>1. message.bReliable \in BOOLEAN /\ overflows \in BOOLEAN
    BY <1>3 DEF OverflowsReliable
  <2> QED BY <1>6, <2>1
<1> HIDE DEF overflows, promoted, bReliable, count
<1>10. pause \in BOOLEAN /\ sent \in Stream
  <2>1. s.sent \in Stream /\ s.bPausedUntilReliableACK \in BOOLEAN
    BY <1>2, SenderFields
  <2>2. Carried(message.Data, message.bClose) \in Stream
    BY <1>3, StreamFacts
  <2> QED BY <1>9, <2>1, <2>2, StreamFacts
<1> HIDE DEF pause, sent
<1>11. p \in SenderState /\ Prepared(s, p) /\ p.SendBuffer = s.SendBuffer /\ p.sent = sent
  BY <1>2, <1>10 DEF SenderState, Prepared
<1>12. ~merged => ready = p
  BY <1>2 DEF SenderState, pause, sent
<1>13. merged => ready = PopLastStart(p)
  <2>1. SUFFICES ASSUME merged PROVE ready = PopLastStart(p)
    OBVIOUS
  <2>2. PopLastStart(p) = [p EXCEPT !.SendBuffer = Front(s.SendBuffer)]
    BY <1>11 DEF PopLastStart
  <2>3. PopLastStart(s) = [s EXCEPT !.SendBuffer = Front(s.SendBuffer)]
    BY DEF PopLastStart
  <2> DEFINE q == PopLastStart(s)
  <2>4. q.bPausedUntilReliableACK = s.bPausedUntilReliableACK /\ q.sent = s.sent
    BY <1>2, <2>3 DEF SenderState
  <2>5. ready = [q EXCEPT !.bPausedUntilReliableACK = pause, !.sent = sent]
    BY <2>1, <2>4 DEF pause, sent
  <2> DEFINE buffer == Front(s.SendBuffer)
  <2> HIDE DEF ready, q, p, buffer
  <2>6. q = [s EXCEPT !.SendBuffer = buffer]
    BY <2>3 DEF q, buffer
  <2>7. PopLastStart(p) = [p EXCEPT !.SendBuffer = buffer]
    BY <2>2 DEF buffer
  <2>8. p = [s EXCEPT !.bPausedUntilReliableACK = pause, !.sent = sent]
    BY DEF p
  <2> QED BY <1>2, <2>5, <2>6, <2>7, <2>8 DEF SenderState
<1>14. all \in WholeBunch /\ all.bReliable = bReliable /\ all.bOpen = whole.bOpen
       /\ all.bClose = whole.bClose /\ all.Data = whole.Data
  BY <1>6, <1>9 DEF WholeBunch
<1>15. /\ p.bPausedUntilReliableACK = pause
       /\ p.sent = IF all.bReliable THEN s.sent \o Carried(message.Data, message.bClose) ELSE s.sent
  BY <1>2, <1>10, <1>11, <1>14 DEF SenderState, sent
<1> HIDE DEF ready, p, all, merged
<1>16. y = AfterPieces(IF merged THEN PopLastStart(p) ELSE p, all, merged, merge)[Len(Split(all.Data))]
  BY <1>12, <1>13, <1>14 DEF count
<1> HIDE DEF y
<1>17. SentAs(s, message, merge, merged, all, p, y)
  <2>1. /\ message.bReliable => all.bReliable
        /\ s.bPausedUntilReliableACK \/ (all.bReliable /\ ~message.bReliable) =>
             p.bPausedUntilReliableACK
    BY <1>6, <1>14, <1>15 DEF pause, bReliable
  <2>2. Prepared(s, p) /\ p.SendBuffer = s.SendBuffer
    BY <1>11
  <2>3. CASE merged
    <3>1. all.bReliable = message.bReliable
      BY <1>3, <1>6, <1>8, <1>14, <2>3 DEF bReliable
    <3>2. /\ all.Data = last.Data \o message.Data /\ Len(all.Data) <= MaxSingleBunchSize
          /\ all.bOpen = (last.bOpen \/ s.OpenPacketId = 0)
          /\ all.bClose = (last.bClose \/ message.bClose)
          /\ s.SendBuffer # << >> /\ s.AllowMerge /\ last \in Bunch
          /\ last.bReliable = message.bReliable
      BY <1>4, <1>5, <1>6, <1>14, <2>3
    <3> QED BY <1>15, <1>16, <2>1, <2>2, <2>3, <3>1, <3>2 DEF SentAs
  <2>4. CASE ~merged
    <3>1. all.Data = message.Data /\ all.bClose = message.bClose /\ all.bOpen = (s.OpenPacketId = 0)
      BY <1>4, <1>6, <1>14, <2>4
    <3> QED BY <1>15, <1>16, <2>1, <2>2, <2>4, <3>1 DEF SentAs
  <2> QED BY <2>3, <2>4
<1> QED BY <1>1, <1>9, <1>11, <1>14, <1>17

\* SendBunch, every branch of it, keeps the sender right.
LEMMA BunchSent ==
  ASSUME NEW s, NEW t \in Nat, MaySend(s, t), NEW message, Message(s, message),
         NEW merge \in BOOLEAN
  PROVE  BunchDone(s, message, t, SendBunch(s, message, merge))
<1> DEFINE y == SendBunch(s, message, merge)
           last == Last(s.SendBuffer)
<1> SUFFICES ASSUME NEW merged \in BOOLEAN, NEW all \in WholeBunch, NEW p \in SenderState,
                    SentAs(s, message, merge, merged, all, p, y)
             PROVE  BunchDone(s, message, t, y)
  BY BunchIs DEF BunchDone
<1> HIDE DEF y
<1>2. /\ s \in SenderState /\ SenderRight(s, t) /\ t <= Len(s.network) /\ SendingRight(s, t)
      /\ s.exists /\ ~s.Closing /\ ~s.ChannelsToClose
  BY DEF MaySend, SenderRight
<1>3. /\ message.bReliable \in BOOLEAN /\ message.bClose \in BOOLEAN
      /\ message.Data \in Seq(Unit)
      /\ ~message.bReliable => ~message.bClose /\ s.OpenPacketId # 0
  BY DEF Message
<1>4. /\ Prepared(s, p) /\ p.SendBuffer = s.SendBuffer /\ (message.bReliable => all.bReliable)
      /\ p.sent = IF all.bReliable THEN s.sent \o Carried(message.Data, message.bClose) ELSE s.sent
      /\ all.bReliable \in BOOLEAN
  BY DEF SentAs, WholeBunch
<1>5. merged =>
        /\ s.SendBuffer # << >> /\ s.AllowMerge /\ last \in Bunch
        /\ last.bReliable = message.bReliable /\ all.bReliable = message.bReliable
        /\ all.Data = last.Data \o message.Data /\ Len(all.Data) <= MaxSingleBunchSize
        /\ all.bOpen = (last.bOpen \/ s.OpenPacketId = 0)
        /\ all.bClose = (last.bClose \/ message.bClose)
        /\ y = AfterPieces(PopLastStart(p), all, merged, merge)[Len(Split(all.Data))]
  BY DEF SentAs
<1>6. ~merged =>
        /\ all.Data = message.Data /\ all.bClose = message.bClose
        /\ all.bOpen = (s.OpenPacketId = 0)
        /\ y = AfterPieces(p, all, merged, merge)[Len(Split(all.Data))]
  BY DEF SentAs
<1> HIDE DEF last
<1>16. CASE all.bReliable /\ ~merged
  <2>1. /\ all.bReliable /\ (all.bOpen <=> s.OpenPacketId = 0)
        /\ p.sent = s.sent \o Carried(all.Data, all.bClose)
        /\ y = AfterPieces(p, all, merged, merge)[Len(Split(all.Data))]
        /\ p.sent = s.sent \o Carried(message.Data, message.bClose)
    BY <1>4, <1>6, <1>16
  <2>2. Sent(s, t, p, AfterPieces(p, all, merged, merge)[Len(Split(all.Data))])
    BY <1>4, <1>16, <2>1, ReliableSent
  <2>3. Sent(s, t, p, y)
    BY <2>1, <2>2
  <2> QED BY <2>1, <2>3 DEF BunchDone, Sent
<1>17. CASE all.bReliable /\ merged
  <2>1. Mergeable(s) /\ message.bReliable
    BY <1>5, <1>17 DEF Mergeable, last
  <2>2. s.OpenPacketId # 0 /\ ~last.bClose /\ last.bOpen \in BOOLEAN /\ last.bClose \in BOOLEAN
    <3>1. last \in Bunch
      BY <1>5, <1>17
    <3>2. /\ s.OutRec # << >> /\ s.numbered # << >>
          /\ s.OutRec[Len(s.OutRec)].bunch = last
          /\ s.OutRec[Len(s.OutRec)].bunch = Numbered(s, Count(s))
      BY <1>2, <2>1, LastWritten DEF SenderRight, last
    <3>3. s.OpenPacketId # 0
      BY <1>2, <3>2 DEF SenderRight, ChannelRight
    <3>4. ~last.bClose
      BY <1>2, <3>2, <3>3 DEF SenderRight, ChannelRight
    <3> QED BY <3>1, <3>3, <3>4, BunchFields
  <2> DEFINE data == message.Data
  <2>3. /\ all.bReliable /\ (all.bOpen <=> Last(s.SendBuffer).bOpen)
        /\ all.Data = Last(s.SendBuffer).Data \o data
        /\ Len(all.Data) <= MaxSingleBunchSize /\ data \in Seq(Unit)
        /\ p.sent = s.sent \o Carried(data, all.bClose)
    BY <1>3, <1>4, <1>5, <1>17, <2>2 DEF last
  <2> HIDE DEF data
  <2>4. Sent(s, t, p, AfterPieces(PopLastStart(p), all, merged, merge)[Len(Split(all.Data))])
    BY <1>4, <1>17, <2>1, <2>3, MergedSent
  <2>5. Sent(s, t, p, y)
    BY <1>5, <1>17, <2>4
  <2> QED BY <1>4, <1>17, <2>5 DEF BunchDone, Sent
<1>18. CASE ~all.bReliable
  <2>1. ~message.bReliable /\ ~message.bClose /\ s.OpenPacketId # 0 /\ p.sent = s.sent
    BY <1>3, <1>4, <1>18
  <2>p. SendingRight(p, t)
    BY <1>2, <1>4, SendingSame DEF Prepared
  <2>3. CASE ~merged
    <3>1. ~all.bOpen /\ ~all.bClose
      BY <1>6, <2>1, <2>3
    <3>3. y \in SenderState /\ UnreliableSent(p, t, y) /\ ~Mergeable(y)
      BY <1>6, <1>18, <2>3, <2>p, <3>1, AllUnreliable
    <3>4. SenderRight(y, t) /\ Extends(s, y) /\ y.sent = s.sent /\ ~y.ChannelsToClose
          /\ NewParts(s, y)
      BY <1>4, <2>1, <3>3, UnreliableDone
    <3> QED BY <3>3, <3>4 DEF BunchDone
  <2>4. CASE merged
    <3>1. last \in Bunch /\ ~last.bReliable /\ s.SendBuffer # << >>
      BY <1>5, <2>1, <2>4
    <3>2. last \in InPacket(s, Len(s.network) + 1)
      <4>1. last \in ToSet(s.SendBuffer)
        BY <1>2, <3>1, SenderFields, FrontLast DEF last
      <4>2. Len(s.network) + 1 \notin DOMAIN s.network
        BY <1>2, SenderLengths
      <4> QED BY <4>1, <4>2 DEF InPacket
    <3>3. ~last.bOpen /\ ~last.bClose
      <4>1. Len(s.network) + 1 \in Nat
        BY <1>2, SenderLengths
      <4>2. Sound(last)
        BY <1>2, <3>2, <4>1 DEF SendingRight, PacketsRight
      <4> QED BY <3>1, <4>2 DEF Sound
    <3>4. ~all.bOpen /\ ~all.bClose
      BY <1>5, <2>1, <2>4, <3>3
    <3> DEFINE ready == PopLastStart(p)
    <3>6. ready \in SenderState /\ SendingRight(ready, t)
      BY <1>4, <2>p, <3>1, UnreliablePopped DEF last
    <3>8. Prepared(s, ready) /\ ready.sent = s.sent
      <4>1. /\ ready.AllowMerge = p.AllowMerge /\ ready.network = p.network
            /\ ready.OutRec = p.OutRec /\ ready.OutReliable = p.OutReliable
            /\ ready.numbered = p.numbered /\ ready.exists = p.exists
            /\ ready.OpenPacketId = p.OpenPacketId /\ ready.OpenAcked = p.OpenAcked
            /\ ready.Closing = p.Closing /\ ready.ChannelsToClose = p.ChannelsToClose
            /\ ready.sent = p.sent
        BY DEF PopLastStart, SenderState
      <4> QED BY <1>4, <2>1, <4>1 DEF Prepared
    <3>7. y = AfterPieces(ready, all, merged, merge)[Len(Split(all.Data))]
      BY <1>5, <2>4
    <3> HIDE DEF ready
    <3>9. y \in SenderState /\ UnreliableSent(ready, t, y) /\ ~Mergeable(y)
      BY <1>18, <2>4, <3>4, <3>6, <3>7, AllUnreliable
    <3>10. SenderRight(y, t) /\ Extends(s, y) /\ y.sent = s.sent /\ ~y.ChannelsToClose
          /\ NewParts(s, y)
      BY <3>6, <3>8, <3>9, UnreliableDone
    <3> QED BY <3>9, <3>10 DEF BunchDone
  <2> QED BY <2>3, <2>4
<1> QED BY <1>4, <1>16, <1>17, <1>18

-----------------------------------------------------------------------------
(* What the server does to its own side is nothing to the client: what the *)
(* client has stays as it was.                                             *)

\* The types of the receiver's fields.
LEMMA ReceiverFields ==
  ASSUME NEW c \in ReceiverState
  PROVE  /\ c.exists \in BOOLEAN /\ c.OpenAcked \in BOOLEAN /\ c.InRec \in Seq(Bunch)
         /\ c.InPartialBunch \in Bunch \cup {None} /\ c.InReliable \in Nat
         /\ c.bSkipAck \in BOOLEAN /\ c.errors \in Seq(STRING) /\ c.received \in Seq(Handled)
         /\ c.stream \in Stream /\ Len(c.InRec) \in Nat /\ DOMAIN c.InRec = 1 .. Len(c.InRec)
BY DEF ReceiverState

\* How the numbers of the client and of the server are ordered.
LEMMA ClientCounts ==
  ASSUME NEW c, NEW s \in SenderState, NumbersRight(s), NEW gap \in {0, 1}, ClientRight(c, s, gap)
  PROVE  /\ c \in ReceiverState /\ Count(s) \in Nat /\ Released(s) \in 0 .. Count(s)
         /\ InNumber(c) \in 0 .. Count(s) /\ Released(s) <= InNumber(c)
         /\ c.InReliable = InitReliable + InNumber(c)
<1>1. Count(s) \in Nat /\ Released(s) \in 0 .. Count(s)
  BY Counts DEF NumbersRight
<1>2. c \in ReceiverState /\ InNumber(c) \in Released(s) .. Count(s)
  BY DEF ClientRight
<1>3. c.InReliable \in Nat
  BY <1>2, ReceiverFields
<1>4. c.InReliable = InitReliable + InNumber(c)
  BY <1>3, Constants DEF InNumber
<1> QED BY <1>1, <1>2, <1>4

\* A bunch that waits has a number, which the client has.
LEMMA QueuedNumbers ==
  ASSUME NEW c, NEW s \in SenderState, NumbersRight(s), NEW gap \in {0, 1}, ClientRight(c, s, gap),
         NEW i \in DOMAIN c.InRec
  PROVE  \E k \in InNumber(c) + 1 + gap .. Count(s) :
           /\ k \in 1 .. Count(s) /\ c.InRec[i] = Numbered(s, k) /\ Has(c, k)
           /\ c.InRec[i].ChSequence = InitReliable + k
<1>1. PICK k \in InNumber(c) + 1 + gap .. Count(s) : c.InRec[i] = Numbered(s, k)
  BY DEF ClientRight, QueueRight
<1>2. k \in 1 .. Count(s)
  BY ClientCounts
<1>3. c.InRec[i].ChSequence = InitReliable + k
  BY <1>1, <1>2 DEF NumbersRight, NumberRight
<1> QED BY <1>1, <1>2, <1>3 DEF Has

\* The client has no numbers beyond the last.
LEMMA HasUpTo ==
  ASSUME NEW c, NEW s \in SenderState, NumbersRight(s), NEW gap \in {0, 1}, ClientRight(c, s, gap),
         NEW k \in Nat, Has(c, k)
  PROVE  k <= Count(s)
<1>1. CASE k <= InNumber(c)
  BY <1>1, ClientCounts
<1>2. CASE \E i \in DOMAIN c.InRec : c.InRec[i].ChSequence = InitReliable + k
  <2>1. PICK i \in DOMAIN c.InRec : c.InRec[i].ChSequence = InitReliable + k
    BY <1>2
  <2>2. PICK n \in InNumber(c) + 1 + gap .. Count(s) :
          n \in 1 .. Count(s) /\ c.InRec[i].ChSequence = InitReliable + n
    BY QueuedNumbers
  <2>3. n = k
    <3>1. Count(s) \in Nat
      BY ClientCounts
    <3> QED BY <2>1, <2>2, <3>1, Constants
  <2> QED BY <2>2, <2>3
<1> QED BY <1>1, <1>2 DEF Has

\* The client stays right when the sender numbers more bunches.
LEMMA ClientRightKept ==
  ASSUME NEW c, NEW s \in SenderState, NumbersRight(s), ClientRight(c, s, 1), NEW y,
         Count(y) \in Nat, Released(y) \in Nat, Count(s) <= Count(y), Released(y) <= InNumber(c),
         \A k \in 1 .. Count(s) : Has(c, k) => y.numbered[k] = s.numbered[k]
  PROVE  ClientRight(c, y, 1)
<1> DEFINE K == InNumber(c)
           gap == 1
<1>a. gap \in {0, 1} /\ ClientRight(c, s, gap)
  OBVIOUS
<1>1. c \in ReceiverState /\ Count(s) \in Nat /\ K \in 0 .. Count(s)
  BY <1>a, ClientCounts
<1>2. \A k \in 1 .. K : k \in 1 .. Count(s) /\ y.numbered[k] = s.numbered[k]
                        /\ Numbered(y, k) = Numbered(s, k)
  <2>1. \A k \in 1 .. K : k \in 1 .. Count(s) /\ Has(c, k)
    BY <1>1 DEF Has
  <2> QED BY <2>1 DEF Numbered
<1>3. K \in 1 .. K \/ K = 0
  BY <1>1
<1>4. QueueRight(c, y, 1)
  <2>1. ASSUME NEW i \in DOMAIN c.InRec
        PROVE  \E k \in K + 1 + 1 .. Count(y) : c.InRec[i] = Numbered(y, k)
    <3>1. PICK k \in K + 1 + gap .. Count(s) :
             k \in 1 .. Count(s) /\ c.InRec[i] = Numbered(s, k) /\ Has(c, k)
      <4> HIDE DEF gap
      <4> QED BY <1>a, QueuedNumbers
    <3>2. c.InRec[i] = Numbered(y, k)
      BY <3>1 DEF Numbered
    <3>3. k \in K + 1 + 1 .. Count(y)
      BY <1>1, <3>1
    <3> QED BY <3>2, <3>3
  <2> QED BY <2>1 DEF QueueRight, ClientRight
<1> HIDE DEF K
<1>5. InMessage(y, K) = InMessage(s, K) /\ Upto(y, K) = Upto(s, K)
  BY <1>2, <1>3 DEF InMessage, Upto
<1>6. PartialRight(c, y)
  BY <1>5 DEF PartialRight, ClientRight, K
<1>7. Opened(y, K) <=> Opened(s, K)
  <2>1. \A n \in 1 .. K : \A m \in n .. K : m \in 1 .. K
    BY <1>1
  <2> QED BY <1>2, <2>1 DEF Opened
<1>8. K # 0 => Numbered(y, K) = Numbered(s, K)
  BY <1>2, <1>3
<1>9. K \in Released(y) .. Count(y)
  BY <1>1 DEF K
<1> QED BY <1>4, <1>5, <1>6, <1>7, <1>8, <1>9 DEF ClientRight, K

\* What the client acknowledged stays processed.
LEMMA AcceptedKept ==
  ASSUME NEW c, NEW s, NEW y, NEW acked, AcceptedRight(c, s, acked), SentStays(s, y),
         acked \subseteq DOMAIN s.network
  PROVE  AcceptedRight(c, y, acked)
BY DEF AcceptedRight, SentStays

\* All that is said of the client and of the server's side together.
ClientSide(c, s, acked) ==
  /\ ClientRight(c, s, 1) /\ MergeIsUnseen(c, s) /\ AcksRight(c, s)
  /\ AcceptedRight(c, s, acked)

\* What the client knows stays right when the sender sends.
LEMMA ClientKept ==
  ASSUME NEW c, NEW s \in SenderState, NEW y \in SenderState, NumbersRight(s), NumbersRight(y),
         Extends(s, y), NEW acked, acked \subseteq DOMAIN s.network, ClientSide(c, s, acked)
  PROVE  ClientSide(c, y, acked)
<1> DEFINE gap == 1
<1>1. /\ ClientRight(c, s, 1) /\ MergeIsUnseen(c, s) /\ AcksRight(c, s)
      /\ AcceptedRight(c, s, acked)
  BY DEF ClientSide
<1>2. /\ SentStays(s, y) /\ Released(y) = Released(s) /\ Count(s) <= Count(y)
      /\ \A k \in 1 .. Count(s) : k # Count(s) \/ ~Mergeable(s) => y.numbered[k] = s.numbered[k]
      /\ \A n \in DOMAIN y.OutRec : y.OutRec[n].ReceivedAck =>
           n \in DOMAIN s.OutRec /\ s.OutRec[n].ReceivedAck
      /\ Mergeable(y) => Count(y) # Count(s) \/ Mergeable(s)
  BY DEF Extends
<1>3. Count(y) \in Nat /\ Count(s) \in Nat /\ Released(y) \in Nat
  BY Counts DEF NumbersRight
<1>a. gap \in {0, 1} /\ ClientRight(c, s, gap)
  BY <1>1
<1> HIDE DEF gap
<1>4. Released(y) <= InNumber(c)
  BY <1>2, <1>a, ClientCounts
<1>5. \A k \in 1 .. Count(s) : Has(c, k) => y.numbered[k] = s.numbered[k]
  BY <1>1, <1>2 DEF MergeIsUnseen
<1>6. ClientRight(c, y, 1)
  BY <1>1, <1>2, <1>3, <1>4, <1>5, ClientRightKept
<1>7. MergeIsUnseen(c, y)
  <2>1. CASE Count(y) # Count(s)
    <3>1. ~(Count(y) <= Count(s))
      BY <1>2, <1>3, <2>1
    <3> QED BY <1>3, <1>a, <3>1, HasUpTo DEF MergeIsUnseen
  <2>2. CASE Count(y) = Count(s)
    BY <1>1, <1>2, <2>2 DEF MergeIsUnseen
  <2> QED BY <2>1, <2>2
<1>8. AcksRight(c, y)
  BY <1>1, <1>2 DEF AcksRight
<1>9. AcceptedRight(c, y, acked)
  BY <1>1, <1>2, AcceptedKept
<1> QED BY <1>6, <1>7, <1>8, <1>9 DEF ClientSide

-----------------------------------------------------------------------------
(* Acks                                                                    *)

\* The longest beginning of 1 .. L that is in P.
LEMMA Beginning ==
  ASSUME NEW L \in Nat, NEW P
  PROVE  LET S == {n \in 1 .. L : \A i \in 1 .. n : i \in P}
         IN  /\ Cardinality(S) \in 0 .. L /\ \A i \in 1 .. Cardinality(S) : i \in P
             /\ Cardinality(S) # L => Cardinality(S) + 1 \notin P
<1> DEFINE S == {n \in 1 .. L : \A i \in 1 .. n : i \in P}
           Bad == {n \in 1 .. L : n \notin P}
<1>1. CASE Bad = {}
  <2>1. S = 1 .. L
    BY <1>1
  <2>2. Cardinality(1 .. L) = L
    <3>1. 1 \in Int /\ L \in Int
      OBVIOUS
    <3>2. Cardinality(1 .. L) = IF 1 > L THEN 0 ELSE L - 1 + 1
      BY <3>1, FS_Interval
    <3> QED BY <3>2
  <2>3. \A i \in 1 .. L : i \in P
    BY <1>1
  <2> HIDE DEF S, Bad
  <2>4. Cardinality(S) = L
    BY <2>1, <2>2
  <2> QED BY <2>3, <2>4 DEF S
<1>2. CASE Bad # {}
  <2>1. Bad \in SUBSET Nat
    OBVIOUS
  <2>2. PICK m \in Bad : \A n \in Bad : m <= n
    BY <1>2, <2>1, LeastNumber
  <2>3. m \in 1 .. L /\ m \notin P
    BY <2>2
  <2>4. \A n \in 1 .. m - 1 : n \in P
    <3>1. SUFFICES ASSUME NEW n \in 1 .. m - 1, n \notin P PROVE FALSE
      OBVIOUS
    <3>2. n \in Bad /\ ~(m <= n)
      BY <2>3, <3>1
    <3> QED BY <2>2, <3>2
  <2>5. S = 1 .. m - 1
    <3>1. \A n \in 1 .. m - 1 : n \in S
      BY <2>3, <2>4
    <3>2. ASSUME NEW n \in S PROVE n \in 1 .. m - 1
      <4>1. n \in 1 .. L /\ (m <= n => m \in 1 .. n)
        BY <2>3
      <4>2. ~(m <= n)
        BY <2>3, <4>1
      <4> QED BY <2>3, <4>1, <4>2
    <3> QED BY <3>1, <3>2
  <2>6. Cardinality(1 .. m - 1) = m - 1
    <3>1. 1 \in Int /\ m - 1 \in Int
      BY <2>3
    <3>2. Cardinality(1 .. m - 1) = IF 1 > m - 1 THEN 0 ELSE (m - 1) - 1 + 1
      BY <3>1, FS_Interval
    <3> QED BY <2>3, <3>2
  <2> HIDE DEF S, Bad
  <2>7. Cardinality(S) = m - 1
    BY <2>5, <2>6
  <2>8. m - 1 \in 0 .. L /\ (m - 1) + 1 = m
    BY <2>3
  <2> QED BY <2>3, <2>4, <2>7, <2>8 DEF S
<1> QED BY <1>1, <1>2

\* Some of the bunches of a packet are marked as acknowledged: a is the sender then.
Marked(s, id, a) ==
  /\ Len(a.OutRec) = Len(s.OutRec) /\ DOMAIN a.OutRec = DOMAIN s.OutRec
  /\ \A i \in DOMAIN s.OutRec :
       /\ a.OutRec[i].bunch = s.OutRec[i].bunch
       /\ a.OutRec[i].PacketId = s.OutRec[i].PacketId
       /\ a.OutRec[i].ReceivedAck <=> s.OutRec[i].ReceivedAck \/ s.OutRec[i].PacketId = id

\* The channel after count bunches are released.
AcksReleased(s, id, count, y) ==
  /\ y \in SenderState /\ y.OutRec \in Seq(OutBunch)
  /\ count \in 0 .. Len(s.OutRec) /\ Len(y.OutRec) = Len(s.OutRec) - count
  /\ \A i \in 1 .. Len(s.OutRec) - count :
       /\ y.OutRec[i].bunch = s.OutRec[count + i].bunch
       /\ y.OutRec[i].PacketId = s.OutRec[count + i].PacketId
       /\ y.OutRec[i].ReceivedAck <=>
            s.OutRec[count + i].ReceivedAck \/ s.OutRec[count + i].PacketId = id
  /\ \A i \in 1 .. count : s.OutRec[i].ReceivedAck \/ s.OutRec[i].PacketId = id
  \* An open bunch that is released is released with the parts that follow.
  /\ \A i \in 1 .. count, j \in 1 .. Len(s.OutRec) :
       /\ s.OutRec[i].bunch.bOpen /\ i <= j
       /\ \A k \in i .. j - 1 : GoesOn(s.OutRec[k].bunch)
       /\ \A k \in i + 1 .. j : ~s.OutRec[k].bunch.bOpen
       => j <= count
  /\ y.OpenAcked <=>
       \/ (s.OpenAcked \/ s.OpenPacketId = id) /\ ~\E i \in DOMAIN s.OutRec : s.OutRec[i].bunch.bOpen
       \/ \E i \in 1 .. count : s.OutRec[i].bunch.bOpen
  /\ y.ChannelsToClose <=> s.ChannelsToClose \/ \E i \in 1 .. count : s.OutRec[i].bunch.bClose
  /\ y.exists = s.exists /\ y.OpenPacketId = s.OpenPacketId /\ y.Closing = s.Closing
  /\ y.OutReliable = s.OutReliable /\ y.SendBuffer = s.SendBuffer
  /\ y.AllowMerge = s.AllowMerge /\ y.connected = s.connected /\ y.network = s.network
  /\ y.numbered = s.numbered /\ y.sent = s.sent

\* The first part of ReceivedAck marks the bunches of the packet.
LEMMA MarkedFields ==
  ASSUME NEW s \in SenderState, NEW id
  PROVE  LET hasOpen == \E i \in DOMAIN s.OutRec : s.OutRec[i].bunch.bOpen
             a == [s EXCEPT
                    !.OpenAcked = (@ \/ s.OpenPacketId = id) /\ ~hasOpen,
                    !.OutRec = [i \in DOMAIN @ |->
                                  IF @[i].PacketId = id THEN [@[i] EXCEPT !.ReceivedAck = TRUE]
                                                        ELSE @[i]]]
         IN  /\ a \in SenderState /\ Marked(s, id, a)
             /\ a.OpenAcked <=> (s.OpenAcked \/ s.OpenPacketId = id) /\ ~hasOpen
             /\ a.exists = s.exists /\ a.OpenPacketId = s.OpenPacketId /\ a.Closing = s.Closing
             /\ a.OutReliable = s.OutReliable /\ a.SendBuffer = s.SendBuffer
             /\ a.AllowMerge = s.AllowMerge /\ a.connected = s.connected
             /\ a.network = s.network /\ a.numbered = s.numbered /\ a.sent = s.sent
             /\ a.ChannelsToClose = s.ChannelsToClose
<1> DEFINE hasOpen == \E i \in DOMAIN s.OutRec : s.OutRec[i].bunch.bOpen
           outRec == [i \in DOMAIN s.OutRec |->
                        IF s.OutRec[i].PacketId = id
                        THEN [s.OutRec[i] EXCEPT !.ReceivedAck = TRUE] ELSE s.OutRec[i]]
           acked == (s.OpenAcked \/ s.OpenPacketId = id) /\ ~hasOpen
           a == [s EXCEPT !.OpenAcked = acked, !.OutRec = outRec]
           L == Len(s.OutRec)
<1>1. L \in Nat /\ DOMAIN s.OutRec = 1 .. L
  BY SenderLengths
<1>2. ASSUME NEW i \in DOMAIN s.OutRec
      PROVE  /\ outRec[i] \in OutBunch /\ outRec[i].bunch = s.OutRec[i].bunch
             /\ outRec[i].PacketId = s.OutRec[i].PacketId
             /\ outRec[i].ReceivedAck <=> s.OutRec[i].ReceivedAck \/ s.OutRec[i].PacketId = id
  <2>1. s.OutRec[i] \in OutBunch
    BY OutBunchFields
  <2> DEFINE q == s.OutRec[i]
             m == [q EXCEPT !.ReceivedAck = TRUE]
  <2>2. m \in OutBunch /\ m.bunch = q.bunch /\ m.PacketId = q.PacketId /\ m.ReceivedAck
    BY <2>1 DEF OutBunch
  <2>3. outRec[i] = IF q.PacketId = id THEN m ELSE q
    OBVIOUS
  <2> HIDE DEF q, m, outRec
  <2> QED BY <2>1, <2>2, <2>3 DEF q
<1>3. DOMAIN outRec = 1 .. L
  BY <1>1
<1> HIDE DEF outRec, L
<1>4. outRec \in [1 .. L -> OutBunch]
  <2>1. outRec = [i \in 1 .. L |-> outRec[i]]
    BY <1>1 DEF outRec
  <2> QED BY <1>1, <1>2, <2>1
<1>5. outRec \in Seq(OutBunch) /\ Len(outRec) = L
  BY <1>1, <1>4
<1>6. acked \in BOOLEAN
  OBVIOUS
<1> HIDE DEF acked
<1>7. /\ a \in SenderState /\ a.OutRec = outRec /\ a.OpenAcked = acked
      /\ a.exists = s.exists /\ a.OpenPacketId = s.OpenPacketId /\ a.Closing = s.Closing
      /\ a.OutReliable = s.OutReliable /\ a.SendBuffer = s.SendBuffer
      /\ a.AllowMerge = s.AllowMerge /\ a.connected = s.connected
      /\ a.network = s.network /\ a.numbered = s.numbered /\ a.sent = s.sent
      /\ a.ChannelsToClose = s.ChannelsToClose
  BY <1>5, <1>6 DEF SenderState
<1>8. [s EXCEPT
         !.OpenAcked = (@ \/ s.OpenPacketId = id) /\ ~hasOpen,
         !.OutRec = [i \in DOMAIN @ |->
                       IF @[i].PacketId = id THEN [@[i] EXCEPT !.ReceivedAck = TRUE] ELSE @[i]]]
      = a
  BY DEF acked, outRec
<1>9. Marked(s, id, a)
  BY <1>1, <1>2, <1>3, <1>5, <1>7 DEF Marked, L
<1> HIDE DEF a
<1> QED BY <1>7, <1>8, <1>9 DEF acked

\* ReceivedAck releases the bunches that are acknowledged, up to one that is not.
LEMMA AckReleases ==
  ASSUME NEW s \in SenderState, NEW id
  PROVE  \E count : AcksReleased(s, id, count, ReceivedAck(s, id))
<1> DEFINE hasOpen == \E i \in DOMAIN s.OutRec : s.OutRec[i].bunch.bOpen
           a == [s EXCEPT
                  !.OpenAcked = (@ \/ s.OpenPacketId = id) /\ ~hasOpen,
                  !.OutRec = [i \in DOMAIN @ |->
                                IF @[i].PacketId = id THEN [@[i] EXCEPT !.ReceivedAck = TRUE]
                                                      ELSE @[i]]]
           y == ReceivedAck(s, id)
           L == Len(s.OutRec)
           P == {i \in 1 .. L : Releasable(a.OutRec, i)}
           S == {n \in 1 .. L : \A i \in 1 .. n : i \in P}
           count == Cardinality(S)
           released == SubSeq(a.OutRec, 1, count)
           left == SubSeq(a.OutRec, count + 1, L)
           open == a.OpenAcked \/ \E i \in DOMAIN released : released[i].bunch.bOpen
           close == a.ChannelsToClose \/ \E i \in DOMAIN released : released[i].bunch.bClose
<1>1. /\ a \in SenderState /\ Marked(s, id, a)
      /\ a.OpenAcked <=> (s.OpenAcked \/ s.OpenPacketId = id) /\ ~hasOpen
      /\ a.exists = s.exists /\ a.OpenPacketId = s.OpenPacketId /\ a.Closing = s.Closing
      /\ a.OutReliable = s.OutReliable /\ a.SendBuffer = s.SendBuffer
      /\ a.AllowMerge = s.AllowMerge /\ a.connected = s.connected
      /\ a.network = s.network /\ a.numbered = s.numbered /\ a.sent = s.sent
      /\ a.ChannelsToClose = s.ChannelsToClose
  BY MarkedFields
<1>2. y = ReceivedAcks(a)
  BY DEF ReceivedAck
<1> HIDE DEF a
<1>3. /\ L \in Nat /\ DOMAIN s.OutRec = 1 .. L /\ DOMAIN a.OutRec = 1 .. L /\ Len(a.OutRec) = L
      /\ a.OutRec \in Seq(OutBunch)
      /\ \A i \in 1 .. L :
           /\ a.OutRec[i].bunch = s.OutRec[i].bunch
           /\ a.OutRec[i].PacketId = s.OutRec[i].PacketId
           /\ a.OutRec[i].ReceivedAck <=> s.OutRec[i].ReceivedAck \/ s.OutRec[i].PacketId = id
  <2>1. L \in Nat /\ DOMAIN s.OutRec = 1 .. L
    BY SenderLengths
  <2>2. a.OutRec \in Seq(OutBunch)
    BY <1>1, SenderFields
  <2> QED BY <1>1, <2>1, <2>2 DEF Marked
<1> HIDE DEF L, y
<1>4. /\ count \in 0 .. L /\ \A i \in 1 .. count : i \in P
      /\ count # L => count + 1 \notin P
  <2> HIDE DEF P
  <2> QED BY <1>3, Beginning
<1>5. count = Cardinality({n \in DOMAIN a.OutRec : \A i \in 1 .. n : Releasable(a.OutRec, i)})
  <2>1. S = {n \in DOMAIN a.OutRec : \A i \in 1 .. n : Releasable(a.OutRec, i)}
    BY <1>3
  <2> HIDE DEF S
  <2> QED BY <2>1
<1> HIDE DEF S, count
<1>6. y = [a EXCEPT !.OutRec = left, !.OpenAcked = open, !.ChannelsToClose = close]
  BY <1>2, <1>3, <1>5 DEF ReceivedAcks
<1>7. /\ left \in Seq(OutBunch) /\ Len(left) = L - count
      /\ \A i \in 1 .. L - count : left[i] = a.OutRec[count + i]
      /\ DOMAIN released = 1 .. count /\ \A i \in 1 .. count : released[i] = a.OutRec[i]
  <2>1. \A i \in count + 1 .. L : i \in 1 .. Len(a.OutRec)
    BY <1>3, <1>4
  <2>2. left \in Seq(OutBunch) /\ Len(left) = L - count
        /\ \A i \in 1 .. L - count : left[i] = a.OutRec[count + i]
    BY <1>3, <1>4, <2>1
  <2>3. DOMAIN released = 1 .. count /\ \A i \in 1 .. count : released[i] = a.OutRec[i]
    BY <1>3, <1>4
  <2> QED BY <2>2, <2>3
<1>8. open \in BOOLEAN /\ close \in BOOLEAN
  <2>1. a.OpenAcked \in BOOLEAN /\ a.ChannelsToClose \in BOOLEAN
    BY <1>1, SenderFields
  <2> QED BY <2>1
<1> HIDE DEF left, open, close, released
<1>9. /\ y \in SenderState /\ y.OutRec = left /\ y.OpenAcked = open /\ y.ChannelsToClose = close
      /\ y.exists = s.exists /\ y.OpenPacketId = s.OpenPacketId /\ y.Closing = s.Closing
      /\ y.OutReliable = s.OutReliable /\ y.SendBuffer = s.SendBuffer
      /\ y.AllowMerge = s.AllowMerge /\ y.connected = s.connected /\ y.network = s.network
      /\ y.numbered = s.numbered /\ y.sent = s.sent
  <2>1. /\ y \in SenderState /\ y.OutRec = left /\ y.OpenAcked = open /\ y.ChannelsToClose = close
        /\ y.exists = a.exists /\ y.OpenPacketId = a.OpenPacketId /\ y.Closing = a.Closing
        /\ y.OutReliable = a.OutReliable /\ y.SendBuffer = a.SendBuffer
        /\ y.AllowMerge = a.AllowMerge /\ y.connected = a.connected /\ y.network = a.network
        /\ y.numbered = a.numbered /\ y.sent = a.sent
    BY <1>1, <1>6, <1>7, <1>8 DEF SenderState
  <2> QED BY <1>1, <2>1
<1>10. /\ y.OpenAcked <=> \/ (s.OpenAcked \/ s.OpenPacketId = id) /\ ~hasOpen
                          \/ \E i \in 1 .. count : s.OutRec[i].bunch.bOpen
       /\ y.ChannelsToClose <=>
            s.ChannelsToClose \/ \E i \in 1 .. count : s.OutRec[i].bunch.bClose
  <2>1. \A i \in 1 .. count : released[i].bunch = s.OutRec[i].bunch
    <3>1. \A i \in 1 .. count : i \in 1 .. L
      BY <1>3, <1>4
    <3> QED BY <1>3, <1>7, <3>1
  <2> QED BY <1>1, <1>7, <1>9, <2>1 DEF open, close
<1>11. \A i \in 1 .. count : /\ i \in 1 .. L /\ Releasable(a.OutRec, i)
                             /\ s.OutRec[i].ReceivedAck \/ s.OutRec[i].PacketId = id
  <2>1. \A i \in 1 .. count : i \in 1 .. L /\ Releasable(a.OutRec, i)
    BY <1>4
  <2> QED BY <1>3, <2>1 DEF Releasable
<1>12. ASSUME NEW i \in 1 .. count, NEW j \in 1 .. L, s.OutRec[i].bunch.bOpen, i <= j,
              \A k \in i .. j - 1 : GoesOn(s.OutRec[k].bunch),
              \A k \in i + 1 .. j : ~s.OutRec[k].bunch.bOpen
       PROVE  j <= count
  <2> SUFFICES ASSUME ~(j <= count) PROVE FALSE
    OBVIOUS
  <2> DEFINE e == count + 1
  <2>1. count \in Nat /\ L \in Nat /\ i \in Nat /\ i <= count /\ 1 <= i
    BY <1>3, <1>4
  <2>2. /\ e \in i + 1 .. j /\ e \in 1 .. L /\ e \in i .. L /\ count # L /\ i \in i .. j - 1
        /\ \A k \in i .. e - 1 : k \in i .. j - 1 /\ k \in 1 .. L
    BY <2>1
  <2> HIDE DEF e
  <2>3. a.OutRec[i].bunch.bOpen /\ a.OutRec[i].bunch.bPartial
    BY <1>3, <1>11, <1>12, <2>2 DEF GoesOn
  <2>4. OpenFinished(a.OutRec, i)
    BY <1>11, <2>3 DEF Releasable
  <2>5. \A k \in i .. e - 1 : ~a.OutRec[k].bunch.bPartialFinal
    BY <1>3, <1>12, <2>2 DEF GoesOn
  <2>6. a.OutRec[e].ReceivedAck
    BY <1>3, <2>2, <2>4, <2>5 DEF OpenFinished
  <2>7. Releasable(a.OutRec, e)
    BY <1>3, <1>12, <2>2, <2>6 DEF Releasable
  <2> QED BY <1>4, <2>2, <2>7 DEF e
<1>13. \A i \in 1 .. L - count :
         /\ y.OutRec[i].bunch = s.OutRec[count + i].bunch
         /\ y.OutRec[i].PacketId = s.OutRec[count + i].PacketId
         /\ y.OutRec[i].ReceivedAck <=>
              s.OutRec[count + i].ReceivedAck \/ s.OutRec[count + i].PacketId = id
  <2>1. \A i \in 1 .. L - count : count + i \in 1 .. L
    BY <1>3, <1>4
  <2> QED BY <1>3, <1>7, <1>9, <2>1
<1>14. AcksReleased(s, id, count, y)
  BY <1>4, <1>7, <1>9, <1>10, <1>11, <1>12, <1>13 DEF AcksReleased, L
<1> QED BY <1>14 DEF y

\* The client has what is acknowledged with packet id.
LEMMA AckKnown ==
  ASSUME NEW s, NEW t \in Nat, SendingRight(s, t), NEW c, NEW acked,
         ClientSide(c, s, acked), t + 1 \in acked, t + 1 <= Len(s.network),
         NEW i \in DOMAIN s.OutRec, s.OutRec[i].ReceivedAck \/ s.OutRec[i].PacketId = t + 1
  PROVE  Has(c, Released(s) + i)
<1> DEFINE id == t + 1
           bunch == s.OutRec[i].bunch
<1>1. s \in SenderState /\ NumbersRight(s) /\ Placed(s, t, Len(s.OutRec))
  BY DEF SendingRight
<1>2. AcksRight(c, s) /\ AcceptedRight(c, s, acked)
  BY DEF ClientSide
<1>3. CASE s.OutRec[i].ReceivedAck
  BY <1>2, <1>3 DEF AcksRight
<1>4. CASE ~s.OutRec[i].ReceivedAck
  <2>1. s.OutRec[i].PacketId = id /\ id \in DOMAIN s.network
    BY <1>1, <1>4, SenderLengths
  <2>2. bunch \in ToSet(s.network[id])
    <3>1. bunch \in InPacket(s, id)
      BY <1>1, <1>4, <2>1 DEF Placed
    <3> QED BY <2>1, <3>1 DEF InPacket
  <2>3. PICK n \in DOMAIN s.network[id] : s.network[id][n] = bunch
    BY <2>2 DEF ToSet
  <2>4. ProcessedBy(c, bunch)
    BY <1>2, <2>3 DEF AcceptedRight
  <2>5. bunch.bReliable /\ bunch.ChSequence = InitReliable + Released(s) + i
    BY <1>1, BufferNumbers
  <2> HIDE DEF bunch
  <2>6. \/ bunch.ChSequence <= c.InReliable
        \/ \E w \in DOMAIN c.InRec : c.InRec[w].ChSequence = bunch.ChSequence
    BY <2>4, <2>5 DEF ProcessedBy
  <2>7. c.InReliable \in Nat /\ Released(s) \in Nat /\ i \in Nat
    <3>1. c \in ReceiverState
      BY DEF ClientSide, ClientRight
    <3> QED BY <1>1, <3>1, ReceiverFields, Counts, SenderLengths DEF NumbersRight
  <2> DEFINE k == Released(s) + i
  <2>8. bunch.ChSequence = InitReliable + k /\ k \in Nat
    BY <2>5, <2>7, Constants
  <2> HIDE DEF k
  <2>9. bunch.ChSequence <= c.InReliable => k <= InNumber(c)
    BY <2>7, <2>8, Constants DEF InNumber
  <2>10. Has(c, k)
    BY <2>6, <2>8, <2>9 DEF Has
  <2> QED BY <2>10 DEF k
<1> QED BY <1>3, <1>4

\* So it has handled them: all up to the last one that is released.
LEMMA ReleasedHandled ==
  ASSUME NEW c, NEW s \in SenderState, NumbersRight(s), ClientRight(c, s, 1),
         NEW count \in Nat, count <= Len(s.OutRec),
         \A i \in 1 .. count : Has(c, Released(s) + i)
  PROVE  Released(s) + count <= InNumber(c)
<1> DEFINE gap == 1
           R == Released(s)
           K == InNumber(c)
<1>1. gap \in {0, 1} /\ ClientRight(c, s, gap)
  OBVIOUS
<1> HIDE DEF gap
<1>2. R \in Nat /\ K \in Nat /\ R <= K /\ Count(s) \in Nat
  BY <1>1, ClientCounts
<1> SUFFICES ASSUME ~(R + count <= K) PROVE FALSE
  OBVIOUS
<1> HIDE DEF R, K
<1>3. K + 1 - R \in 1 .. count /\ R + (K + 1 - R) = K + 1
  BY <1>2
<1>4. Has(c, K + 1)
  <2> DEFINE i == K + 1 - R
  <2>1. i \in 1 .. count /\ R + i = K + 1
    BY <1>3
  <2> HIDE DEF i
  <2> QED BY <2>1 DEF R
<1>5. ~(K + 1 <= K)
  BY <1>2
<1>6. PICK n \in DOMAIN c.InRec : c.InRec[n].ChSequence = InitReliable + (K + 1)
  BY <1>4, <1>5 DEF Has, K
<1>7. PICK k \in InNumber(c) + 1 + gap .. Count(s) : c.InRec[n].ChSequence = InitReliable + k
  BY <1>1, QueuedNumbers
<1>8. k \in K + 2 .. Count(s)
  BY <1>2, <1>7 DEF K, gap
<1> QED BY <1>2, <1>6, <1>7, <1>8, Constants

\* Releasing acknowledged bunches leaves the others placed and numbered.
LEMMA AckSending ==
  ASSUME NEW s, NEW t \in Nat, SendingRight(s, t), NEW count, NEW y,
         NEW id, id = t + 1, AcksReleased(s, id, count, y)
  PROVE  /\ SendingRight(y, id) /\ Count(y) = Count(s) /\ Released(y) = Released(s) + count
<1> DEFINE L == Len(s.OutRec)
           R == Released(s)
<1>1. s \in SenderState /\ PacketsRight(s) /\ NumbersRight(s) /\ Placed(s, t, L)
  BY DEF SendingRight
<1>2. /\ y \in SenderState /\ count \in 0 .. L /\ Len(y.OutRec) = L - count
      /\ \A i \in 1 .. L - count :
           /\ y.OutRec[i].bunch = s.OutRec[count + i].bunch
           /\ y.OutRec[i].PacketId = s.OutRec[count + i].PacketId
           /\ y.OutRec[i].ReceivedAck <=>
                s.OutRec[count + i].ReceivedAck \/ s.OutRec[count + i].PacketId = id
      /\ \A i \in 1 .. count : s.OutRec[i].ReceivedAck \/ s.OutRec[i].PacketId = id
      /\ y.OutReliable = s.OutReliable /\ y.SendBuffer = s.SendBuffer
      /\ y.network = s.network /\ y.numbered = s.numbered
  BY DEF AcksReleased
<1>3. L \in Nat /\ DOMAIN s.OutRec = 1 .. L /\ DOMAIN y.OutRec = 1 .. L - count
      /\ R \in Nat /\ Count(s) \in Nat /\ Count(s) = R + L
  <2>1. L <= Count(s)
    BY <1>1 DEF NumbersRight
  <2>2. L \in Nat /\ DOMAIN s.OutRec = 1 .. L /\ DOMAIN y.OutRec = 1 .. Len(y.OutRec)
    BY <1>1, <1>2, SenderLengths
  <2> QED BY <1>1, <1>2, <2>1, <2>2, Counts
<1>4. /\ Count(y) = Count(s)
      /\ \A k : Numbered(y, k) = Numbered(s, k)
      /\ \A k : Upto(y, k) = Upto(s, k)
      /\ \A k : InPacket(y, k) = InPacket(s, k)
  BY <1>2 DEF Count, Numbered, Upto, InPacket
<1>5. \A k : Fresh(y, k) = Fresh(s, k) /\ InMessage(y, k) = InMessage(s, k)
  BY <1>4 DEF Fresh, InMessage
<1>6. \A k : NumberRight(s, k) => NumberRight(y, k)
  BY <1>2, <1>4, <1>5 DEF NumberRight
<1> HIDE DEF L, R
<1>7. Released(y) = R + count
  <2>1. Released(y) = Count(y) - Len(y.OutRec)
    BY DEF Released
  <2> QED BY <1>2, <1>3, <1>4, <2>1
<1>8. \A i \in 1 .. L - count : count + i \in 1 .. L
  BY <1>2, <1>3
<1>9. NumbersRight(y)
  <2>1. Len(y.OutRec) <= Count(y) /\ y.OutReliable = InitReliable + Count(y)
    BY <1>1, <1>2, <1>3, <1>4 DEF NumbersRight
  <2>2. \A k \in 1 .. Count(y) : NumberRight(y, k)
    BY <1>1, <1>4, <1>6 DEF NumbersRight
  <2>3. ASSUME NEW i \in DOMAIN y.OutRec
        PROVE  y.OutRec[i].bunch = Numbered(y, Released(y) + i)
    <3>1. i \in 1 .. L - count /\ count + i \in 1 .. L
      BY <1>3, <1>8
    <3>2. s.OutRec[count + i].bunch = Numbered(s, R + (count + i))
      BY <1>1, <1>3, <3>1 DEF NumbersRight, R
    <3>3. R + (count + i) = Released(y) + i
      BY <1>2, <1>3, <1>7, <3>1
    <3> QED BY <1>2, <1>4, <3>1, <3>2, <3>3
  <2>4. \A k \in Released(y) + 1 .. Count(y) - 1 : ~Numbered(y, k).bClose
    <3>1. \A k \in Released(y) + 1 .. Count(y) - 1 : k \in R + 1 .. Count(s) - 1
      BY <1>2, <1>3, <1>4, <1>7
    <3> QED BY <1>1, <1>4, <3>1 DEF NumbersRight, R
  <2> QED BY <2>1, <2>2, <2>3, <2>4 DEF NumbersRight
<1>10. PacketsRight(y)
  BY <1>1, <1>4 DEF PacketsRight
<1>11. Placed(y, id, Len(y.OutRec))
  <2>1. ASSUME NEW n \in DOMAIN y.OutRec, ~y.OutRec[n].ReceivedAck
        PROVE  /\ y.OutRec[n].PacketId > id
               /\ y.OutRec[n].bunch \in InPacket(y, y.OutRec[n].PacketId)
    <3> DEFINE m == count + n
    <3>1. m \in 1 .. L /\ n \in 1 .. L - count
      BY <1>3, <1>8
    <3>2. /\ ~s.OutRec[m].ReceivedAck /\ s.OutRec[m].PacketId # id
          /\ y.OutRec[n].bunch = s.OutRec[m].bunch /\ y.OutRec[n].PacketId = s.OutRec[m].PacketId
      BY <1>2, <2>1, <3>1
    <3> HIDE DEF m
    <3>3. /\ s.OutRec[m].PacketId > t /\ s.OutRec[m].bunch \in InPacket(s, s.OutRec[m].PacketId)
          /\ s.OutRec[m].PacketId \in Nat
      <4>1. ~(m > L)
        BY <1>3, <3>1
      <4> QED BY <1>1, <1>3, <3>1, <3>2, <4>1, OutBunchFields DEF Placed
    <3>4. s.OutRec[m].PacketId > id
      BY <3>2, <3>3
    <3> QED BY <1>4, <3>2, <3>3, <3>4
  <2>2. ASSUME NEW q \in Nat, NEW bunch \in InPacket(y, q), q > id, bunch.bReliable
        PROVE  \E n \in DOMAIN y.OutRec : /\ y.OutRec[n].bunch = bunch
                                          /\ y.OutRec[n].PacketId = q
                                          /\ ~y.OutRec[n].ReceivedAck
    <3>1. bunch \in InPacket(s, q) /\ q > t /\ q # id
      BY <1>4, <2>2
    <3>2. PICK m \in DOMAIN s.OutRec : /\ s.OutRec[m].bunch = bunch
                                       /\ s.OutRec[m].PacketId = q
                                       /\ ~s.OutRec[m].ReceivedAck
      BY <1>1, <2>2, <3>1 DEF Placed
    <3>3. m \in 1 .. L /\ m \notin 1 .. count
      BY <1>2, <1>3, <3>1, <3>2
    <3>4. m - count \in 1 .. L - count /\ count + (m - count) = m
      BY <1>2, <1>3, <3>3
    <3> DEFINE n == m - count
    <3>5. n \in 1 .. L - count /\ count + n = m
      BY <3>4
    <3> HIDE DEF n
    <3> QED BY <1>2, <1>3, <3>1, <3>2, <3>5
  <2> QED BY <2>1, <2>2 DEF Placed
<1> QED BY <1>2, <1>4, <1>7, <1>9, <1>10, <1>11 DEF SendingRight, R

\* Of the bunches in the buffer only the first can open a channel, only the last
\* can close it.
LEMMA OpenIsFirst ==
  ASSUME NEW s \in SenderState, NumbersRight(s), NEW i \in DOMAIN s.OutRec
  PROVE  /\ s.OutRec[i].bunch = Numbered(s, Released(s) + i)
         /\ s.OutRec[i].bunch.bOpen => i = 1
         /\ s.OutRec[i].bunch.bClose => i = Len(s.OutRec)
<1> DEFINE L == Len(s.OutRec)
           R == Released(s)
           C == Count(s)
<1>1. L \in Nat /\ DOMAIN s.OutRec = 1 .. L /\ R \in Nat /\ C \in Nat /\ C = R + L
  <2>1. L <= C
    BY DEF NumbersRight
  <2> QED BY <2>1, Counts, SenderLengths
<1>2. s.OutRec[i].bunch = Numbered(s, R + i)
  BY DEF NumbersRight
<1>3. NumberRight(s, R + i) /\ \A k \in R + 1 .. C - 1 : ~Numbered(s, k).bClose
  BY <1>1 DEF NumbersRight
<1> HIDE DEF L, R, C
<1>4. Numbered(s, R + i).bOpen => i = 1
  <2> SUFFICES ASSUME Numbered(s, R + i).bOpen, i # 1 PROVE FALSE
    OBVIOUS
  <2>1. Fresh(s, R + i - 1)
    <3> DEFINE k == R + i
    <3>1. NumberRight(s, k) /\ Numbered(s, k).bOpen
      BY <1>3
    <3> HIDE DEF k
    <3>2. Fresh(s, k - 1)
      BY <3>1 DEF NumberRight
    <3>3. k = R + i /\ k - 1 = R + i - 1
      BY <1>1 DEF k
    <3> QED BY <3>2, <3>3
  <2>2. R + i - 1 # 0 /\ R + i - 1 \in R + 1 .. C - 1
    BY <1>1
  <2> QED BY <1>3, <2>1, <2>2 DEF Fresh
<1>5. Numbered(s, R + i).bClose => i = L
  <2>1. i # L => R + i \in R + 1 .. C - 1
    BY <1>1
  <2> QED BY <1>3, <2>1
<1> QED BY <1>2, <1>4, <1>5 DEF L, R

\* Releasing acknowledged bunches keeps the channel's state right.
LEMMA AckChannel ==
  ASSUME NEW s, NEW t \in Nat, SenderRight(s, t), NEW count, NEW y,
         NEW id, id = t + 1, AcksReleased(s, id, count, y)
  PROVE  ChannelRight(y)
<1> DEFINE L == Len(s.OutRec)
           R == Released(s)
           C == Count(s)
<1>1. /\ SendingRight(s, t) /\ s \in SenderState /\ NumbersRight(s) /\ ChannelRight(s)
      /\ ~InMessage(s, C)
  BY DEF SenderRight, SendingRight
<1>2. /\ Count(y) = C /\ Released(y) = R + count
      /\ \A k : Numbered(y, k) = Numbered(s, k)
  <2>1. y.numbered = s.numbered
    BY DEF AcksReleased
  <2>2. Count(y) = C /\ Released(y) = R + count
    BY <1>1, AckSending
  <2> QED BY <2>1, <2>2 DEF Numbered
<1>3. /\ y \in SenderState /\ count \in 0 .. L /\ Len(y.OutRec) = L - count
      /\ \A i \in 1 .. L - count : y.OutRec[i].bunch = s.OutRec[count + i].bunch
      /\ \A i \in 1 .. count, j \in 1 .. L :
           /\ s.OutRec[i].bunch.bOpen /\ i <= j
           /\ \A k \in i .. j - 1 : GoesOn(s.OutRec[k].bunch)
           /\ \A k \in i + 1 .. j : ~s.OutRec[k].bunch.bOpen
           => j <= count
      /\ y.OpenAcked <=>
           \/ (s.OpenAcked \/ s.OpenPacketId = id) /\ ~\E i \in DOMAIN s.OutRec : s.OutRec[i].bunch.bOpen
           \/ \E i \in 1 .. count : s.OutRec[i].bunch.bOpen
      /\ y.ChannelsToClose <=> s.ChannelsToClose \/ \E i \in 1 .. count : s.OutRec[i].bunch.bClose
      /\ y.exists = s.exists /\ y.OpenPacketId = s.OpenPacketId /\ y.Closing = s.Closing
  BY DEF AcksReleased
<1>4. L \in Nat /\ DOMAIN s.OutRec = 1 .. L /\ DOMAIN y.OutRec = 1 .. L - count
      /\ R \in Nat /\ C \in Nat /\ C = R + L /\ s.OutRec \in Seq(OutBunch)
      /\ y.OutRec \in Seq(OutBunch)
  <2>1. L <= C
    BY <1>1 DEF NumbersRight
  <2>2. L \in Nat /\ DOMAIN s.OutRec = 1 .. L /\ DOMAIN y.OutRec = 1 .. Len(y.OutRec)
    BY <1>1, <1>3, SenderLengths
  <2>3. s.OutRec \in Seq(OutBunch) /\ y.OutRec \in Seq(OutBunch)
    BY <1>1, <1>3, SenderFields
  <2> QED BY <1>1, <1>3, <2>1, <2>2, <2>3, Counts
<1>5. \A i \in 1 .. L : /\ s.OutRec[i].bunch = Numbered(s, R + i)
                        /\ s.OutRec[i].bunch.bOpen => i = 1
                        /\ s.OutRec[i].bunch.bClose => i = L
  BY <1>1, <1>4, OpenIsFirst
<1>6. \A k \in R + 1 .. C : Numbered(s, k).bClose => k = C
  <2>1. \A k \in R + 1 .. C : k # C => k \in R + 1 .. C - 1
    BY <1>4
  <2> QED BY <1>1, <2>1 DEF NumbersRight
<1>7. \A i \in 1 .. count : i \in 1 .. L
  BY <1>3, <1>4
<1>8. id # 0
  OBVIOUS
<1> HIDE DEF L, R, C
<1>9. ~y.exists => y.OpenPacketId = 0
  BY <1>1, <1>3 DEF ChannelRight
<1>10. ASSUME y.OpenPacketId = 0
       PROVE  y.OutRec = << >> /\ Fresh(y, C) /\ ~y.Closing /\ ~y.OpenAcked
  <2>1. s.OutRec = << >> /\ Fresh(s, C) /\ ~s.Closing /\ ~s.OpenAcked
    BY <1>1, <1>3, <1>10 DEF ChannelRight, C
  <2>2. L = 0 /\ count = 0
    BY <1>3, <1>4, <2>1 DEF L
  <2>3. y.OutRec = << >>
    BY <1>3, <1>4, <2>2
  <2>4. ~\E i \in 1 .. count : s.OutRec[i].bunch.bOpen
    BY <2>2
  <2>5. ~y.OpenAcked
    BY <1>3, <1>8, <1>10, <2>1, <2>4
  <2> QED BY <1>2, <1>3, <2>1, <2>3, <2>5 DEF Fresh
<1>11. ASSUME y.OpenPacketId # 0
       PROVE  \/ \E i \in DOMAIN y.OutRec : y.OutRec[i].bunch.bOpen
              \/ \E n \in 1 .. R + count :
                   /\ ~GoesOn(Numbered(s, n))
                   /\ \A m \in n .. R + count : Numbered(s, m).bClose => m = C
  <2>1. \/ \E i \in DOMAIN s.OutRec : s.OutRec[i].bunch.bOpen
        \/ \E n \in 1 .. R :
             /\ ~GoesOn(Numbered(s, n))
             /\ \A m \in n .. R : Numbered(s, m).bClose => m = C
    BY <1>1, <1>3, <1>11 DEF ChannelRight, R, C
  <2>2. CASE \E n \in 1 .. R :
               /\ ~GoesOn(Numbered(s, n))
               /\ \A m \in n .. R : Numbered(s, m).bClose => m = C
    <3>1. PICK n \in 1 .. R :
               /\ ~GoesOn(Numbered(s, n))
               /\ \A m \in n .. R : Numbered(s, m).bClose => m = C
      BY <2>2
    <3>2. n \in 1 .. R + count /\ \A m \in n .. R + count : m \in n .. R \/ m \in R + 1 .. C
      BY <1>3, <1>4
    <3>3. \A m \in n .. R + count : Numbered(s, m).bClose => m = C
      BY <1>6, <3>1, <3>2
    <3> QED BY <3>1, <3>2, <3>3
  <2>3. CASE \E i \in DOMAIN s.OutRec : s.OutRec[i].bunch.bOpen
    <3>1. L >= 1 /\ s.OutRec[1].bunch.bOpen
      BY <1>4, <1>5, <2>3
    <3>2. CASE count = 0
      BY <1>3, <1>4, <3>1, <3>2
    <3>3. CASE count # 0
      <4> DEFINE Ends == {i \in 1 .. L : ~GoesOn(s.OutRec[i].bunch)}
      <4>1. L \in Ends
        <5>1. ~GoesOn(Numbered(s, C))
          BY <1>1, <1>4, <3>1 DEF InMessage
        <5> QED BY <1>4, <1>5, <3>1, <5>1
      <4>2. Ends \in SUBSET Nat
        OBVIOUS
      <4>3. PICK e \in Ends : \A i \in Ends : e <= i
        BY <4>1, <4>2, LeastNumber
      <4>4. e \in 1 .. L /\ ~GoesOn(s.OutRec[e].bunch)
        BY <4>3
      <4>5. \A k \in 1 .. e - 1 : GoesOn(s.OutRec[k].bunch)
        <5>1. SUFFICES ASSUME NEW k \in 1 .. e - 1, ~GoesOn(s.OutRec[k].bunch) PROVE FALSE
          OBVIOUS
        <5>2. k \in Ends /\ ~(e <= k)
          BY <1>4, <4>4, <5>1
        <5> QED BY <4>3, <5>2
      <4>6. \A k \in 2 .. e : ~s.OutRec[k].bunch.bOpen
        <5>1. \A k \in 2 .. e : k \in 1 .. L /\ k # 1
          BY <1>4, <4>4
        <5> QED BY <1>5, <5>1
      <4> HIDE DEF Ends
      <4>7. e <= count
        <5>1. 1 \in 1 .. count /\ 1 <= e /\ 1 + 1 = 2
          BY <1>3, <1>4, <3>3, <4>4
        <5> DEFINE first == 1
        <5>2. /\ first \in 1 .. count /\ s.OutRec[first].bunch.bOpen /\ first <= e
              /\ \A k \in first .. e - 1 : GoesOn(s.OutRec[k].bunch)
              /\ \A k \in first + 1 .. e : ~s.OutRec[k].bunch.bOpen
          BY <3>1, <4>5, <4>6, <5>1
        <5> HIDE DEF first
        <5> QED BY <1>3, <4>4, <5>2
      <4>8. ~GoesOn(Numbered(s, R + e))
        BY <1>5, <4>4
      <4>9. R + e \in 1 .. R + count /\ \A m \in R + e .. R + count : m \in R + 1 .. C
        BY <1>3, <1>4, <4>4, <4>7
      <4>10. \A m \in R + e .. R + count : Numbered(s, m).bClose => m = C
        BY <1>6, <4>9
      <4> QED BY <4>8, <4>9, <4>10
    <3> QED BY <3>2, <3>3
  <2> QED BY <2>1, <2>2, <2>3
<1>12. y.OpenPacketId # 0 => C # 0 /\ (y.Closing <=> Numbered(s, C).bClose)
  BY <1>1, <1>3 DEF ChannelRight, C
<1>13. ASSUME y.OpenAcked, NEW i \in DOMAIN y.OutRec, y.OutRec[i].bunch.bOpen
       PROVE  FALSE
  <2>1. i \in 1 .. L - count /\ count + i \in 1 .. L
    BY <1>3, <1>4
  <2>2. s.OutRec[count + i].bunch.bOpen
    BY <1>3, <1>13, <2>1
  <2>3. count + i = 1
    BY <1>5, <2>1, <2>2
  <2>4. count = 0
    BY <1>3, <1>4, <2>1, <2>3
  <2>5. \E k \in DOMAIN s.OutRec : s.OutRec[k].bunch.bOpen
    BY <1>4, <2>1, <2>2
  <2>6. ~\E k \in 1 .. count : s.OutRec[k].bunch.bOpen
    BY <2>4
  <2> QED BY <1>3, <1>13, <2>5, <2>6
<1>14. ASSUME y.ChannelsToClose PROVE y.OpenPacketId # 0 /\ y.Closing /\ y.OutRec = << >>
  <2>1. CASE s.ChannelsToClose
    <3>1. s.OpenPacketId # 0 /\ s.Closing /\ s.OutRec = << >>
      BY <1>1, <2>1 DEF ChannelRight
    <3>2. L = 0 /\ count = 0
      BY <1>3, <1>4, <3>1 DEF L
    <3> QED BY <1>3, <1>4, <3>1, <3>2
  <2>2. CASE \E i \in 1 .. count : s.OutRec[i].bunch.bClose
    <3>1. PICK i \in 1 .. count : s.OutRec[i].bunch.bClose
      BY <2>2
    <3>2. i = L /\ i \in 1 .. L
      BY <1>5, <1>7, <3>1
    <3>3. count = L
      BY <1>3, <1>4, <3>2
    <3>4. Len(y.OutRec) = 0
      BY <1>3, <1>4, <3>3
    <3>5. Numbered(s, C).bClose
      BY <1>4, <1>5, <3>1, <3>2
    <3>6. s.OpenPacketId # 0
      <4>1. s.OutRec # << >>
        BY <1>4, <3>2 DEF L
      <4> QED BY <1>1, <4>1 DEF ChannelRight
    <3> QED BY <1>3, <1>4, <1>12, <3>4, <3>5, <3>6
  <2> QED BY <1>3, <1>14, <2>1, <2>2
<1>15. ASSUME y.OpenPacketId # 0
       PROVE  \/ \E i \in DOMAIN y.OutRec : y.OutRec[i].bunch.bOpen
              \/ \E n \in 1 .. Released(y) :
                   /\ ~GoesOn(Numbered(y, n))
                   /\ \A m \in n .. Released(y) : Numbered(y, m).bClose => m = C
  BY <1>2, <1>11, <1>15
<1> QED BY <1>2, <1>9, <1>10, <1>12, <1>13, <1>14, <1>15 DEF ChannelRight

\* ReceivedAck of the next packet keeps both sides right.
LEMMA AckRight ==
  ASSUME NEW s, NEW t \in Nat, SenderRight(s, t), NEW c, NEW acked,
         NEW id, id = t + 1, ClientSide(c, s, acked), id \in acked, id <= Len(s.network)
  PROVE  LET y == ReceivedAck(s, id)
         IN  SenderRight(y, id) /\ ClientSide(c, y, acked) /\ SentStays(s, y)
             /\ y.sent = s.sent /\ y.numbered = s.numbered
<1> DEFINE y == ReceivedAck(s, id)
           R == Released(s)
           C == Count(s)
           L == Len(s.OutRec)
<1>1. /\ SendingRight(s, t) /\ s \in SenderState /\ NumbersRight(s) /\ ChannelRight(s)
      /\ MergesRight(s) /\ ~InMessage(s, C) /\ s.sent = Upto(s, C)
  BY DEF SenderRight, SendingRight
<1>2. PICK count : AcksReleased(s, id, count, y)
  BY <1>1, AckReleases
<1> HIDE DEF y
<1>3. ChannelRight(y)
  BY <1>2, AckChannel
<1>4. /\ SendingRight(y, id) /\ Count(y) = C /\ Released(y) = R + count
      /\ \A k : Numbered(y, k) = Numbered(s, k) /\ Upto(y, k) = Upto(s, k)
  <2>1. y.numbered = s.numbered
    BY <1>2 DEF AcksReleased
  <2>2. SendingRight(y, id) /\ Count(y) = C /\ Released(y) = R + count
    BY <1>1, <1>2, AckSending
  <2> QED BY <2>1, <2>2 DEF Numbered, Upto
<1>5. /\ y.SendBuffer = s.SendBuffer /\ y.AllowMerge = s.AllowMerge
      /\ y.network = s.network /\ y.numbered = s.numbered /\ y.sent = s.sent
      /\ count \in 0 .. L /\ Len(y.OutRec) = L - count
      /\ \A i \in 1 .. L - count :
           y.OutRec[i].ReceivedAck <=>
             s.OutRec[count + i].ReceivedAck \/ s.OutRec[count + i].PacketId = id
      /\ \A i \in 1 .. count : s.OutRec[i].ReceivedAck \/ s.OutRec[i].PacketId = id
  BY <1>2 DEF AcksReleased
<1>6. MergesRight(y) /\ (Mergeable(y) <=> Mergeable(s))
  BY <1>1, <1>4, <1>5 DEF MergesRight, Mergeable
<1>7. SenderRight(y, id)
  BY <1>1, <1>3, <1>4, <1>5, <1>6 DEF SenderRight, InMessage
<1>8. L \in Nat /\ DOMAIN s.OutRec = 1 .. L /\ DOMAIN y.OutRec = 1 .. L - count
      /\ R \in Nat /\ C \in Nat
  <2>1. L <= C
    BY <1>1 DEF NumbersRight
  <2>2. y \in SenderState
    BY <1>4 DEF SendingRight
  <2> QED BY <1>1, <1>5, <2>1, <2>2, Counts, SenderLengths
<1>9. \A i \in 1 .. L : s.OutRec[i].ReceivedAck \/ s.OutRec[i].PacketId = id => Has(c, R + i)
  <2>1. t + 1 \in acked /\ t + 1 <= Len(s.network)
    OBVIOUS
  <2> QED BY <1>1, <1>8, <2>1, AckKnown
<1> HIDE DEF R, C, L
<1>10. \A i \in 1 .. count : i \in 1 .. L
  BY <1>5, <1>8
<1>11. ClientRight(c, s, 1) /\ MergeIsUnseen(c, s) /\ AcceptedRight(c, s, acked)
  BY DEF ClientSide
<1>12. R + count <= InNumber(c)
  <2>1. \A i \in 1 .. count : Has(c, R + i)
    BY <1>5, <1>9, <1>10
  <2>2. count \in Nat /\ count <= Len(s.OutRec)
    BY <1>5, <1>8 DEF L
  <2> QED BY <1>1, <1>11, <2>1, <2>2, ReleasedHandled DEF R
<1>13. ClientRight(c, y, 1)
  <2>1. Count(y) \in Nat /\ Released(y) \in Nat /\ C <= Count(y)
    BY <1>4, <1>5, <1>8
  <2>2. Released(y) <= InNumber(c)
    BY <1>4, <1>12
  <2> QED BY <1>1, <1>5, <1>11, <2>1, <2>2, ClientRightKept DEF C
<1>14. MergeIsUnseen(c, y)
  BY <1>4, <1>6, <1>11 DEF MergeIsUnseen, C
<1>15. AcksRight(c, y)
  <2>1. ASSUME NEW i \in DOMAIN y.OutRec, y.OutRec[i].ReceivedAck
        PROVE  Has(c, Released(y) + i)
    <3>1. i \in 1 .. L - count /\ count + i \in 1 .. L
      BY <1>5, <1>8
    <3>2. Has(c, R + (count + i))
      BY <1>5, <1>9, <2>1, <3>1
    <3>3. R + (count + i) = Released(y) + i
      BY <1>4, <1>5, <1>8, <3>1
    <3> QED BY <3>2, <3>3
  <2> QED BY <2>1 DEF AcksRight
<1>16. AcceptedRight(c, y, acked) /\ SentStays(s, y)
  <2>1. Len(s.network) \in Nat
    BY <1>1, SenderLengths
  <2> QED BY <1>5, <1>11, <2>1 DEF AcceptedRight, SentStays
<1> QED BY <1>5, <1>7, <1>13, <1>14, <1>15, <1>16 DEF ClientSide, y

-----------------------------------------------------------------------------
(* Naks                                                                    *)

\* A function that takes the steps of such a loop keeps what the steps keep.
Follows(n, S, F, x0, g) ==
  g[0] = x0 /\ \A i \in 1 .. n : g[i - 1] \in S => g[i] = F[<<i, g[i - 1]>>]

\* A loop whose every iteration keeps G ends in G.
LEMMA LoopKeeps ==
  ASSUME NEW n \in Nat, NEW S, NEW F, NEW x0, NEW G, Keeps(n, S, F, x0, G), NEW g,
         Follows(n, S, F, x0, g)
  PROVE  \A i \in 0 .. n : g[i] \in S /\ <<i, g[i]>> \in G
<1> DEFINE T == {i \in 0 .. n : g[i] \in S /\ <<i, g[i]>> \in G}
<1>1. 0 \in T
  BY DEF Keeps, Follows
<1>2. ASSUME NEW i \in 1 .. n, i - 1 \in T PROVE i \in T
  <2>1. g[i] = F[<<i, g[i - 1]>>] /\ i \in 0 .. n
    BY <1>2 DEF Follows
  <2> QED BY <1>2, <2>1 DEF Keeps
<1> HIDE DEF T
<1>3. \A i \in 0 .. n : i \in T
  BY <1>1, <1>2, StepByStep
<1> QED BY <1>3 DEF T

\* What a nak leaves as it was: all but the packets that bunches are noted with.
NakSame(s, x) ==
  /\ x.exists = s.exists /\ x.OpenPacketId = s.OpenPacketId /\ x.OpenAcked = s.OpenAcked
  /\ x.Closing = s.Closing /\ x.ChannelsToClose = s.ChannelsToClose
  /\ x.connected = s.connected /\ x.sent = s.sent
  /\ x.OutReliable = s.OutReliable /\ x.numbered = s.numbered
  /\ Len(x.OutRec) = Len(s.OutRec)
  /\ \A n \in 1 .. Len(s.OutRec) : /\ x.OutRec[n].bunch = s.OutRec[n].bunch
                                   /\ x.OutRec[n].ReceivedAck = s.OutRec[n].ReceivedAck

\* After i of the bunches of the buffer.
Resent(s, id, i, x) ==
  /\ x \in SenderState /\ NakSame(s, x) /\ SentStays(s, x) /\ PacketsRight(x)
  /\ Placed(x, id, i) /\ MergesRight(x) /\ (Mergeable(x) => Mergeable(s))

\* Before the first bunch of a lost packet is looked at.
LEMMA NakStart ==
  ASSUME NEW s, NEW t \in Nat, SendingRight(s, t), MergesRight(s), NEW id, id = t + 1
  PROVE  Resent(s, id, 0, s)
<1>1. /\ s \in SenderState /\ PacketsRight(s) /\ Placed(s, t, Len(s.OutRec))
  BY DEF SendingRight
<1>2. NakSame(s, s) /\ SentStays(s, s)
  <2>1. Len(s.network) \in Nat
    BY <1>1, SenderLengths
  <2> QED BY <2>1 DEF NakSame, SentStays
<1>3. Placed(s, id, 0)
  <2>1. ASSUME NEW n \in DOMAIN s.OutRec, ~s.OutRec[n].ReceivedAck
        PROVE  /\ s.OutRec[n].PacketId > id \/ (n > 0 /\ s.OutRec[n].PacketId = id)
               /\ s.OutRec[n].bunch \in InPacket(s, s.OutRec[n].PacketId)
    <3>1. s.OutRec[n].PacketId \in Nat /\ n \in 1 .. Len(s.OutRec) /\ Len(s.OutRec) \in Nat
      BY <1>1, OutBunchFields, SenderLengths
    <3>2. ~(n > Len(s.OutRec))
      BY <3>1
    <3>3. s.OutRec[n].PacketId > t /\ s.OutRec[n].bunch \in InPacket(s, s.OutRec[n].PacketId)
      BY <1>1, <2>1, <3>2 DEF Placed
    <3> QED BY <3>1, <3>3
  <2>2. \A q \in Nat : q > id => q > t
    OBVIOUS
  <2>3. \A q \in Nat : \A bunch \in InPacket(s, q) : q > id /\ bunch.bReliable =>
          \E n \in DOMAIN s.OutRec : /\ s.OutRec[n].bunch = bunch
                                     /\ s.OutRec[n].PacketId = q
                                     /\ ~s.OutRec[n].ReceivedAck
    BY <1>1, <2>2 DEF Placed
  <2> QED BY <2>1, <2>3 DEF Placed
<1> QED BY <1>1, <1>2, <1>3 DEF Resent

\* The sender after a bunch of the packet is written again.
ResendDone(x, i, id) ==
  LET bunch == x.OutRec[i].bunch
      y == Resend(x, i, id)
      z == SendRawBunch(x, bunch, FALSE)
      w == PacketIdFor(x, bunch)
  IN  /\ y \in SenderState /\ Writes(x, bunch, FALSE, z)
      /\ y.network = z.network /\ y.SendBuffer = z.SendBuffer /\ y.AllowMerge = z.AllowMerge
      /\ NakSame(x, y)
      /\ \A n \in 1 .. Len(x.OutRec) : y.OutRec[n].PacketId =
           IF n = i THEN w ELSE x.OutRec[n].PacketId

\* What writing a lost bunch again does, field by field.
LEMMA ResendFields ==
  ASSUME NEW x \in SenderState, NEW i \in 1 .. Len(x.OutRec), NEW id,
         x.OutRec[i].PacketId = id /\ ~x.OutRec[i].ReceivedAck
  PROVE  ResendDone(x, i, id)
<1> DEFINE q == x.OutRec[i]
           bunch == q.bunch
           merge == FALSE
           w == PacketIdFor(x, bunch)
           moved == [q EXCEPT !.PacketId = w]
           z == SendRawBunch(x, bunch, merge)
           outRec == [z.OutRec EXCEPT ![i] = moved]
           y == [z EXCEPT !.OutRec = outRec]
           L == Len(x.OutRec)
<1>1. L \in Nat /\ DOMAIN x.OutRec = 1 .. L /\ x.OutRec \in Seq(OutBunch)
  BY SenderFields
<1>2. q \in OutBunch /\ bunch \in Bunch
  BY <1>1, OutBunchFields
<1>3. Writes(x, bunch, merge, z)
  <2>1. merge \in BOOLEAN
    OBVIOUS
  <2> HIDE DEF merge, bunch
  <2> QED BY <1>2, <2>1, SendRawBunchWrites
<1>4. Resend(x, i, id) = y
  BY DEF Resend
<1>5. w \in Nat
  BY <1>3 DEF Writes
<1> HIDE DEF w
<1>6. moved \in OutBunch /\ moved.bunch = bunch /\ moved.PacketId = w
      /\ moved.ReceivedAck = q.ReceivedAck
  BY <1>2, <1>5 DEF OutBunch
<1> HIDE DEF z, moved, q, bunch
<1>7. z \in SenderState /\ SameChannel(z, x) /\ z.OutRec = x.OutRec
  BY <1>3 DEF Writes, SameChannel
<1>8. /\ outRec \in Seq(OutBunch) /\ Len(outRec) = L /\ outRec[i] = moved
      /\ \A n \in 1 .. L : n # i => outRec[n] = x.OutRec[n]
  BY <1>1, <1>6, <1>7
<1> HIDE DEF outRec
<1>9. /\ y \in SenderState /\ y.OutRec = outRec
      /\ y.exists = z.exists /\ y.OpenPacketId = z.OpenPacketId /\ y.OpenAcked = z.OpenAcked
      /\ y.Closing = z.Closing /\ y.ChannelsToClose = z.ChannelsToClose
      /\ y.connected = z.connected /\ y.sent = z.sent
      /\ y.OutReliable = z.OutReliable /\ y.numbered = z.numbered
      /\ y.network = z.network /\ y.SendBuffer = z.SendBuffer /\ y.AllowMerge = z.AllowMerge
  BY <1>7, <1>8 DEF SenderState
<1> HIDE DEF y
<1>10. NakSame(x, y)
  <2>1. \A n \in 1 .. L : /\ y.OutRec[n].bunch = x.OutRec[n].bunch
                          /\ y.OutRec[n].ReceivedAck = x.OutRec[n].ReceivedAck
    BY <1>6, <1>8, <1>9 DEF q, bunch
  <2> QED BY <1>7, <1>8, <1>9, <2>1 DEF NakSame, SameChannel, L
<1>11. \A n \in 1 .. L : y.OutRec[n].PacketId = IF n = i THEN w ELSE x.OutRec[n].PacketId
  BY <1>6, <1>8, <1>9
<1> QED BY <1>3, <1>4, <1>9, <1>10, <1>11 DEF ResendDone, z, w, bunch, q, L, merge

\* An iteration of ReceivedNak's loop.
LEMMA ResendStep ==
  ASSUME NEW s \in SenderState, NEW id \in Nat, id <= Len(s.network),
         NEW i \in 1 .. Len(s.OutRec), NEW x, Resent(s, id, i - 1, x)
  PROVE  Resent(s, id, i, Resend(x, i, id))
<1> DEFINE L == Len(s.OutRec)
           q == x.OutRec[i]
           bunch == q.bunch
           y == Resend(x, i, id)
<1>1. /\ x \in SenderState /\ NakSame(s, x) /\ SentStays(s, x) /\ PacketsRight(x)
      /\ Placed(x, id, i - 1) /\ MergesRight(x) /\ (Mergeable(x) => Mergeable(s))
  BY DEF Resent
<1>2. L \in Nat /\ Len(x.OutRec) = L /\ DOMAIN x.OutRec = 1 .. L /\ i \in 1 .. L
  BY <1>1, SenderLengths DEF NakSame
<1>3. \A n \in 1 .. L : x.OutRec[n].PacketId \in Nat
  BY <1>1, <1>2, OutBunchFields
<1>4. /\ \A n \in 1 .. L : ~x.OutRec[n].ReceivedAck =>
           /\ x.OutRec[n].PacketId > id \/ (n > i - 1 /\ x.OutRec[n].PacketId = id)
           /\ x.OutRec[n].bunch \in InPacket(x, x.OutRec[n].PacketId)
      /\ \A p \in Nat : \A b \in InPacket(x, p) : p > id /\ b.bReliable =>
           \E n \in 1 .. L : /\ x.OutRec[n].bunch = b
                             /\ x.OutRec[n].PacketId = p
                             /\ ~x.OutRec[n].ReceivedAck
  BY <1>1, <1>2 DEF Placed
<1>5. CASE ~(q.PacketId = id /\ ~q.ReceivedAck)
  <2>1. y = x
    BY <1>5 DEF Resend
  <2>2. Placed(x, id, i)
    <3>1. \A n \in 1 .. L : n > i - 1 => n = i \/ n > i
      BY <1>2
    <3>2. \A n \in 1 .. L : ~x.OutRec[n].ReceivedAck =>
             x.OutRec[n].PacketId > id \/ (n > i /\ x.OutRec[n].PacketId = id)
      BY <1>4, <1>5, <3>1
    <3> QED BY <1>2, <1>4, <3>2 DEF Placed
  <2> QED BY <1>1, <2>1, <2>2 DEF Resent
<1>6. CASE q.PacketId = id /\ ~q.ReceivedAck
  <2> DEFINE z == SendRawBunch(x, bunch, FALSE)
             w == PacketIdFor(x, bunch)
  <2>1. /\ y \in SenderState /\ Writes(x, bunch, FALSE, z)
        /\ y.network = z.network /\ y.SendBuffer = z.SendBuffer /\ y.AllowMerge = z.AllowMerge
        /\ NakSame(x, y)
        /\ \A n \in 1 .. L : y.OutRec[n].PacketId = IF n = i THEN w ELSE x.OutRec[n].PacketId
    <3>1. x \in SenderState /\ i \in 1 .. Len(x.OutRec) /\ L = Len(x.OutRec)
      BY <1>1, <1>2
    <3>2. x.OutRec[i].PacketId = id /\ ~x.OutRec[i].ReceivedAck
      BY <1>6
    <3>3. /\ y \in SenderState /\ Writes(x, bunch, FALSE, z)
          /\ y.network = z.network /\ y.SendBuffer = z.SendBuffer /\ y.AllowMerge = z.AllowMerge
          /\ NakSame(x, y)
          /\ \A n \in 1 .. Len(x.OutRec) :
               y.OutRec[n].PacketId = IF n = i THEN w ELSE x.OutRec[n].PacketId
      <4>1. ResendDone(x, i, id)
        BY <3>1, <3>2, ResendFields
      <4> QED BY <4>1 DEF ResendDone
    <3> HIDE DEF y, z, w
    <3> QED BY <3>1, <3>3
  <2> HIDE DEF y, z, w
  <2>2. /\ z \in SenderState /\ SentStays(x, z) /\ w \in Nat /\ w > Len(x.network)
        /\ \A p \in Nat : InPacket(z, p) = InPacket(x, p) \cup (IF p = w THEN {bunch} ELSE {})
        /\ ~(z.AllowMerge /\ z.SendBuffer # << >>)
    BY <2>1 DEF Writes, w
  <2>3. /\ \A p \in Nat : InPacket(y, p) = InPacket(x, p) \cup (IF p = w THEN {bunch} ELSE {})
        /\ ~Mergeable(y) /\ SentStays(x, y)
    <3>1. \A p : InPacket(y, p) = InPacket(z, p)
      BY <2>1 DEF InPacket
    <3> QED BY <2>1, <2>2, <3>1 DEF Mergeable, SentStays
  <2>4. SentStays(s, y) /\ w > id
    <3>1. Len(s.network) <= Len(x.network) /\ Len(s.network) \in Nat /\ Len(x.network) \in Nat
      BY <1>1, SenderLengths DEF SentStays
    <3>2. w > id
      BY <2>2, <3>1
    <3>3. SentStays(s, y)
      BY <1>1, <2>1, <2>3, SentStaysTransitive
    <3> QED BY <3>2, <3>3
  <2>5. /\ NakSame(s, y) /\ Len(y.OutRec) = L /\ DOMAIN y.OutRec = 1 .. L
        /\ \A n \in 1 .. L : /\ y.OutRec[n].bunch = x.OutRec[n].bunch
                             /\ y.OutRec[n].ReceivedAck = x.OutRec[n].ReceivedAck
    <3>1. NakSame(s, y)
      BY <1>1, <2>1 DEF NakSame
    <3>2. DOMAIN y.OutRec = 1 .. Len(y.OutRec)
      BY <2>1, SenderLengths
    <3> QED BY <1>2, <2>1, <3>1, <3>2 DEF NakSame
  <2>6. Sound(bunch)
    <3>1. bunch \in InPacket(x, id)
      BY <1>2, <1>4, <1>6
    <3> QED BY <1>1, <3>1 DEF PacketsRight
  <2>7. PacketsRight(y)
    BY <1>1, <2>3, <2>6 DEF PacketsRight
  <2>8. Placed(y, id, i)
    <3>1. ASSUME NEW n \in 1 .. L, ~y.OutRec[n].ReceivedAck
          PROVE  /\ y.OutRec[n].PacketId > id \/ (n > i /\ y.OutRec[n].PacketId = id)
                 /\ y.OutRec[n].bunch \in InPacket(y, y.OutRec[n].PacketId)
      <4>1. CASE n = i
        <5>1. y.OutRec[n].PacketId = w /\ y.OutRec[n].bunch = bunch
          BY <2>1, <2>5, <4>1
        <5> QED BY <2>2, <2>3, <2>4, <5>1
      <4>2. CASE n # i
        <5>1. y.OutRec[n].PacketId = x.OutRec[n].PacketId /\ y.OutRec[n].bunch = x.OutRec[n].bunch
              /\ ~x.OutRec[n].ReceivedAck
          BY <2>1, <2>5, <3>1, <4>2
        <5>2. n > i - 1 => n > i
          BY <1>2, <4>2
        <5>3. /\ x.OutRec[n].PacketId > id \/ (n > i /\ x.OutRec[n].PacketId = id)
              /\ x.OutRec[n].bunch \in InPacket(x, x.OutRec[n].PacketId)
          BY <1>4, <5>1, <5>2
        <5> QED BY <1>3, <2>3, <5>1, <5>3
      <4> QED BY <4>1, <4>2
    <3>2. ASSUME NEW p \in Nat, NEW b \in InPacket(y, p), p > id, b.bReliable
          PROVE  \E n \in 1 .. L : /\ y.OutRec[n].bunch = b
                                   /\ y.OutRec[n].PacketId = p
                                   /\ ~y.OutRec[n].ReceivedAck
      <4>1. CASE b \in InPacket(x, p)
        <5>1. PICK n \in 1 .. L : /\ x.OutRec[n].bunch = b
                                  /\ x.OutRec[n].PacketId = p
                                  /\ ~x.OutRec[n].ReceivedAck
          BY <1>4, <3>2, <4>1
        <5>2. n # i
          BY <1>6, <3>2, <5>1
        <5> QED BY <2>1, <2>5, <5>1, <5>2
      <4>2. CASE b \notin InPacket(x, p)
        <5>1. p = w /\ b = bunch
          BY <2>3, <3>2, <4>2
        <5> QED BY <1>2, <1>6, <2>1, <2>5, <5>1
      <4> QED BY <4>1, <4>2
    <3>3. DOMAIN y.OutRec = 1 .. L
      BY <2>5
    <3> HIDE DEF y, L
    <3> QED BY <3>1, <3>2, <3>3 DEF Placed
  <2> QED BY <2>1, <2>3, <2>4, <2>5, <2>7, <2>8 DEF Resent, MergesRight, y
<1> QED BY <1>5, <1>6

\* The bunches of the lost packet keep a relation G of their place and the sender.
ResendsKeep(s, id, G) ==
  /\ <<0, s>> \in G
  /\ \A i \in 1 .. Len(s.OutRec) : \A x \in SenderState : <<i - 1, x>> \in G =>
       Resend(x, i, id) \in SenderState /\ <<i, Resend(x, i, id)>> \in G

\* ReceivedNak's loop keeps what every bunch written again keeps.
LEMMA ResendsKept ==
  ASSUME NEW s \in SenderState, NEW id, NEW G, ResendsKeep(s, id, G)
  PROVE  <<Len(s.OutRec), ReceivedNak(s, id)>> \in G
<1> DEFINE L == Len(s.OutRec)
           Step(i, x) == Resend(x, i, id)
           F == [p \in (1 .. L) \X SenderState |-> Step(p[1], p[2])]
           g == AfterResends(s, id)
<1>1. L \in Nat
  BY SenderLengths
<1>2. /\ <<0, s>> \in G
      /\ \A i \in 1 .. L : \A x \in SenderState : <<i - 1, x>> \in G =>
           Step(i, x) \in SenderState /\ <<i, Step(i, x)>> \in G
  BY DEF ResendsKeep
<1>3. g = CHOOSE f : f = [i \in 0 .. L |-> IF i = 0 THEN s ELSE Step(i, f[i - 1])]
  BY DEF AfterResends
<1> HIDE DEF Step, g, L
<1>4. \A i \in 1 .. L : \A x \in SenderState : F[<<i, x>>] = Step(i, x)
  OBVIOUS
<1> HIDE DEF F
<1>5. Keeps(L, SenderState, F, s, G)
  BY <1>2, <1>4 DEF Keeps
<1>6. PICK f \in [0 .. L -> SenderState] :
        f[0] = s /\ \A i \in 1 .. L : f[i] = F[<<i, f[i - 1]>>]
  BY <1>1, <1>5, LoopExists
<1>7. f = [i \in 0 .. L |-> IF i = 0 THEN s ELSE Step(i, f[i - 1])]
  <2>1. ASSUME NEW i \in 0 .. L, i # 0 PROVE f[i] = Step(i, f[i - 1])
    <3>1. i - 1 \in 0 .. L /\ i \in 1 .. L
      BY <1>1, <2>1
    <3> QED BY <1>4, <1>6, <3>1
  <2> QED BY <1>6, <2>1
<1>8. g = [i \in 0 .. L |-> IF i = 0 THEN s ELSE Step(i, g[i - 1])]
  BY <1>3, <1>7
<1>9. Follows(L, SenderState, F, s, g)
  <2>1. 0 \in 0 .. L /\ \A i \in 1 .. L : i \in 0 .. L /\ i # 0
    BY <1>1
  <2> QED BY <1>4, <1>8, <2>1 DEF Follows
<1>10. \A i \in 0 .. L : g[i] \in SenderState /\ <<i, g[i]>> \in G
  BY <1>1, <1>5, <1>9, LoopKeeps
<1>11. L \in 0 .. L
  BY <1>1
<1> QED BY <1>10, <1>11 DEF ReceivedNak, g, L

\* ReceivedNak writes every bunch of the lost packet again.
LEMMA AllResent ==
  ASSUME NEW s, NEW t \in Nat, SendingRight(s, t), MergesRight(s), NEW id, id = t + 1,
         id <= Len(s.network)
  PROVE  Resent(s, id, Len(s.OutRec), ReceivedNak(s, id))
<1> DEFINE L == Len(s.OutRec)
           G == {p \in (0 .. L) \X SenderState : Resent(s, id, p[1], p[2])}
           y == ReceivedNak(s, id)
<1>1. s \in SenderState /\ L \in Nat /\ id \in Nat
  BY SenderLengths DEF SendingRight
<1>2. Resent(s, id, 0, s)
  BY NakStart
<1>3. ASSUME NEW i \in 1 .. L, NEW x \in SenderState, <<i - 1, x>> \in G
      PROVE  Resend(x, i, id) \in SenderState /\ <<i, Resend(x, i, id)>> \in G
  <2>1. Resent(s, id, i - 1, x)
    BY <1>3
  <2>2. Resent(s, id, i, Resend(x, i, id))
    BY <1>1, <2>1, ResendStep
  <2>3. Resend(x, i, id) \in SenderState /\ i \in 0 .. L
    BY <1>1, <2>2 DEF Resent
  <2> QED BY <2>2, <2>3
<1>4. <<0, s>> \in G
  BY <1>1, <1>2
<1> HIDE DEF G
<1>5. ResendsKeep(s, id, G)
  BY <1>3, <1>4 DEF ResendsKeep
<1> HIDE DEF L
<1>6. <<L, y>> \in G
  BY <1>1, <1>5, ResendsKept DEF L
<1> QED BY <1>6 DEF G, L

\* What the server is told changes what is still to be acknowledged, and nothing
\* of what was sent; the client is as well off as before.
Told(s, id, c, acked, y) ==
  /\ SenderRight(y, id) /\ ClientSide(c, y, acked) /\ SentStays(s, y)
  /\ y.sent = s.sent /\ y.numbered = s.numbered /\ y.connected = s.connected

\* ReceivedNak of the next packet keeps both sides right.
LEMMA NakRight ==
  ASSUME NEW s, NEW t \in Nat, SenderRight(s, t), NEW c, NEW acked,
         NEW id, id = t + 1, ClientSide(c, s, acked), id <= Len(s.network),
         acked \subseteq DOMAIN s.network
  PROVE  Told(s, id, c, acked, ReceivedNak(s, id))
<1> DEFINE y == ReceivedNak(s, id)
           L == Len(s.OutRec)
<1>1. /\ SendingRight(s, t) /\ s \in SenderState /\ NumbersRight(s) /\ ChannelRight(s)
      /\ MergesRight(s) /\ ~InMessage(s, Count(s)) /\ s.sent = Upto(s, Count(s))
  BY DEF SenderRight, SendingRight
<1>2. Resent(s, id, L, y)
  BY <1>1, AllResent
<1> HIDE DEF y
<1>3. /\ y \in SenderState /\ NakSame(s, y) /\ SentStays(s, y) /\ PacketsRight(y)
      /\ Placed(y, id, L) /\ MergesRight(y) /\ (Mergeable(y) => Mergeable(s))
  BY <1>2 DEF Resent
<1>4. /\ y.exists = s.exists /\ y.OpenPacketId = s.OpenPacketId /\ y.OpenAcked = s.OpenAcked
      /\ y.Closing = s.Closing /\ y.ChannelsToClose = s.ChannelsToClose
      /\ y.connected = s.connected /\ y.sent = s.sent
      /\ y.OutReliable = s.OutReliable /\ y.numbered = s.numbered
      /\ Len(y.OutRec) = L
      /\ \A n \in 1 .. L : /\ y.OutRec[n].bunch = s.OutRec[n].bunch
                           /\ y.OutRec[n].ReceivedAck = s.OutRec[n].ReceivedAck
  BY <1>3 DEF NakSame
<1>5. L \in Nat /\ DOMAIN s.OutRec = 1 .. L /\ DOMAIN y.OutRec = 1 .. L
      /\ y.OutRec \in Seq(OutBunch) /\ s.OutRec \in Seq(OutBunch)
  <2>1. DOMAIN y.OutRec = 1 .. Len(y.OutRec)
    BY <1>3, SenderLengths
  <2> QED BY <1>1, <1>3, <1>4, <2>1, SenderFields
<1>6. /\ Count(y) = Count(s) /\ Released(y) = Released(s)
      /\ \A k : Numbered(y, k) = Numbered(s, k)
      /\ \A k : Upto(y, k) = Upto(s, k)
  BY <1>4 DEF Count, Released, Numbered, Upto
<1>7. \A k : Fresh(y, k) = Fresh(s, k) /\ InMessage(y, k) = InMessage(s, k)
  BY <1>6 DEF Fresh, InMessage
<1>8. \A k : NumberRight(s, k) => NumberRight(y, k)
  BY <1>4, <1>6, <1>7 DEF NumberRight
<1>9. s.OutRec = << >> => y.OutRec = << >>
  BY <1>4, <1>5
<1> HIDE DEF L
<1>10. NumbersRight(y)
  BY <1>1, <1>4, <1>5, <1>6, <1>8 DEF NumbersRight, L
<1>11. ChannelRight(y)
  <2>1. (\E i \in DOMAIN s.OutRec : s.OutRec[i].bunch.bOpen) <=>
          \E i \in DOMAIN y.OutRec : y.OutRec[i].bunch.bOpen
    BY <1>4, <1>5
  <2> QED BY <1>1, <1>4, <1>6, <1>7, <1>9, <2>1 DEF ChannelRight
<1>12. SenderRight(y, id)
  BY <1>1, <1>3, <1>4, <1>6, <1>7, <1>10, <1>11 DEF SenderRight, SendingRight, L
<1>13. Extends(s, y)
  <2>1. Count(s) \in Nat
    BY <1>1, Counts DEF NumbersRight
  <2> QED BY <1>3, <1>4, <1>5, <1>6, <2>1 DEF Extends
<1>14. ClientSide(c, y, acked)
  BY <1>1, <1>3, <1>10, <1>13, ClientKept
<1> QED BY <1>3, <1>4, <1>12, <1>14 DEF Told, y

\* A notification for a channel that is gone changes nothing.
LEMMA GoneRight ==
  ASSUME NEW s, NEW t \in Nat, SenderRight(s, t), NEW c, NEW acked,
         NEW id, id = t + 1, ClientSide(c, s, acked), ~s.exists
  PROVE  Told(s, id, c, acked, s)
<1>1. /\ SendingRight(s, t) /\ s \in SenderState /\ PacketsRight(s) /\ NumbersRight(s)
      /\ Placed(s, t, Len(s.OutRec)) /\ ChannelRight(s)
  BY DEF SenderRight, SendingRight
<1>2. s.OutRec = << >>
  BY <1>1 DEF ChannelRight
<1>3. \A q \in Nat : q > id => q > t
  OBVIOUS
<1>4. DOMAIN s.OutRec = {}
  BY <1>2
<1>5. Placed(s, id, Len(s.OutRec))
  BY <1>1, <1>3, <1>4 DEF Placed
<1>6. SenderRight(s, id)
  BY <1>1, <1>5 DEF SenderRight, SendingRight
<1>7. SentStays(s, s)
  BY <1>1, SenderLengths DEF SentStays
<1> QED BY <1>6, <1>7 DEF Told

\* ReceivedAck, as a notification.
LEMMA AckTold ==
  ASSUME NEW s, NEW t \in Nat, SenderRight(s, t), NEW c, NEW acked,
         NEW id, id = t + 1, ClientSide(c, s, acked), id \in acked, id <= Len(s.network)
  PROVE  Told(s, id, c, acked, ReceivedAck(s, id))
<1> DEFINE y == ReceivedAck(s, id)
<1>1. SenderRight(y, id) /\ ClientSide(c, y, acked) /\ SentStays(s, y)
      /\ y.sent = s.sent /\ y.numbered = s.numbered
  BY AckRight
<1>2. y.connected = s.connected
  <2>1. s \in SenderState
    BY DEF SenderRight, SendingRight
  <2>2. PICK count : AcksReleased(s, id, count, y)
    BY <2>1, AckReleases
  <2> HIDE DEF y
  <2> QED BY <2>2 DEF AcksReleased
<1> QED BY <1>1, <1>2 DEF Told

\* A notification of either kind keeps both sides right.
LEMMA NotificationRight ==
  ASSUME NEW s, NEW t \in Nat, SenderRight(s, t), NEW c, NEW acked,
         NEW id, id = t + 1, ClientSide(c, s, acked), id <= Len(s.network),
         acked \subseteq DOMAIN s.network, NEW isAcked, isAcked <=> id \in acked
  PROVE  Told(s, id, c, acked, HandlePacketNotification(s, id, isAcked))
<1>1. CASE ~s.exists
  BY <1>1, GoneRight DEF HandlePacketNotification
<1>2. CASE s.exists /\ isAcked
  BY <1>2, AckTold DEF HandlePacketNotification
<1>3. CASE s.exists /\ ~isAcked
  BY <1>3, NakRight DEF HandlePacketNotification
<1> QED BY <1>1, <1>2, <1>3

\* Two notifications, one after the other.
LEMMA ToldAgain ==
  ASSUME NEW s \in SenderState, NEW m, NEW x, NEW id, NEW c, NEW acked, NEW y,
         Told(s, m, c, acked, x), Told(x, id, c, acked, y)
  PROVE  Told(s, id, c, acked, y)
<1>1. x \in SenderState /\ y \in SenderState
  BY DEF Told, SenderRight, SendingRight
<1>2. SentStays(s, y)
  BY <1>1, SentStaysTransitive DEF Told
<1> QED BY <1>2 DEF Told

\* The notifications of a packet, one after another, keep a relation G.
NotificationsKeep(s, t, last, acked, G) ==
  /\ <<0, s>> \in G
  /\ \A n \in 1 .. last - t : \A x \in SenderState : <<n - 1, x>> \in G =>
       LET y == HandlePacketNotification(x, t + n, t + n \in acked)
       IN  y \in SenderState /\ <<n, y>> \in G

\* The notifications of a header keep what each of them keeps.
LEMMA NotificationsKept ==
  ASSUME NEW s \in SenderState, NEW t \in Nat, NEW last \in Nat, t <= last, NEW acked,
         NEW G, NotificationsKeep(s, t, last, acked, G)
  PROVE  <<last - t, AfterNotifications(s, t, last, acked)[last - t]>> \in G
<1> DEFINE L == last - t
           Step(n, x) == HandlePacketNotification(x, t + n, t + n \in acked)
           F == [p \in (1 .. L) \X SenderState |-> Step(p[1], p[2])]
           g == AfterNotifications(s, t, last, acked)
<1>1. L \in Nat
  OBVIOUS
<1>2. /\ <<0, s>> \in G
      /\ \A n \in 1 .. L : \A x \in SenderState : <<n - 1, x>> \in G =>
           Step(n, x) \in SenderState /\ <<n, Step(n, x)>> \in G
  BY DEF NotificationsKeep
<1>3. g = CHOOSE f : f = [n \in 0 .. L |-> IF n = 0 THEN s ELSE Step(n, f[n - 1])]
  BY DEF AfterNotifications
<1> HIDE DEF Step, g, L
<1>4. \A n \in 1 .. L : \A x \in SenderState : F[<<n, x>>] = Step(n, x)
  OBVIOUS
<1> HIDE DEF F
<1>5. Keeps(L, SenderState, F, s, G)
  BY <1>2, <1>4 DEF Keeps
<1>6. PICK f \in [0 .. L -> SenderState] :
        f[0] = s /\ \A n \in 1 .. L : f[n] = F[<<n, f[n - 1]>>]
  BY <1>1, <1>5, LoopExists
<1>7. f = [n \in 0 .. L |-> IF n = 0 THEN s ELSE Step(n, f[n - 1])]
  <2>1. ASSUME NEW n \in 0 .. L, n # 0 PROVE f[n] = Step(n, f[n - 1])
    <3>1. n - 1 \in 0 .. L /\ n \in 1 .. L
      BY <1>1, <2>1
    <3> QED BY <1>4, <1>6, <3>1
  <2> QED BY <1>6, <2>1
<1>8. g = [n \in 0 .. L |-> IF n = 0 THEN s ELSE Step(n, g[n - 1])]
  BY <1>3, <1>7
<1>9. Follows(L, SenderState, F, s, g)
  <2>1. 0 \in 0 .. L /\ \A n \in 1 .. L : n \in 0 .. L /\ n # 0
    BY <1>1
  <2> QED BY <1>4, <1>8, <2>1 DEF Follows
<1>10. \A n \in 0 .. L : g[n] \in SenderState /\ <<n, g[n]>> \in G
  BY <1>1, <1>5, <1>9, LoopKeeps
<1>11. L \in 0 .. L
  BY <1>1
<1> QED BY <1>10, <1>11 DEF g, L

\* The notifications of a header keep the sender right.
LEMMA NotificationsRight ==
  ASSUME NEW s, NEW t \in Nat, SenderRight(s, t), NEW last \in Nat, t <= last,
         last <= Len(s.network), NEW c, NEW acked, ClientSide(c, s, acked),
         acked \subseteq DOMAIN s.network
  PROVE  Told(s, last, c, acked, AfterNotifications(s, t, last, acked)[last - t])
<1> DEFINE L == last - t
           Step(n, x) == HandlePacketNotification(x, t + n, t + n \in acked)
           G == {p \in (0 .. L) \X SenderState : Told(s, t + p[1], c, acked, p[2])}
           g == AfterNotifications(s, t, last, acked)
<1>1. s \in SenderState /\ L \in Nat /\ t + L = last /\ Len(s.network) \in Nat
  BY SenderLengths DEF SenderRight, SendingRight
<1>2. Told(s, t, c, acked, s)
  BY <1>1 DEF Told, SentStays
<1>3. ASSUME NEW n \in 1 .. L, NEW x \in SenderState, Told(s, t + (n - 1), c, acked, x)
      PROVE  Step(n, x) \in SenderState /\ Told(s, t + n, c, acked, Step(n, x))
  <2> DEFINE id == t + n
             before == t + (n - 1)
             isAcked == id \in acked
             y == HandlePacketNotification(x, id, isAcked)
  <2>1. before \in Nat /\ id = before + 1 /\ id <= Len(s.network) /\ id \in Nat
    BY <1>1
  <2>2. SenderRight(x, before) /\ ClientSide(c, x, acked) /\ SentStays(s, x)
    BY <1>3 DEF Told
  <2>3. isAcked \in BOOLEAN /\ (isAcked <=> id \in acked)
    OBVIOUS
  <2>4. Step(n, x) = y
    OBVIOUS
  <2> HIDE DEF id, before, isAcked, y, L, Step
  <2>5. id <= Len(x.network) /\ acked \subseteq DOMAIN x.network
    <3>1. Len(x.network) \in Nat /\ Len(s.network) <= Len(x.network)
          /\ DOMAIN s.network \subseteq DOMAIN x.network
      BY <1>3, <2>2, SenderLengths DEF SentStays
    <3> QED BY <1>1, <2>1, <3>1
  <2>6. Told(x, id, c, acked, y)
    BY <2>1, <2>2, <2>3, <2>5, NotificationRight DEF y
  <2>7. Told(s, id, c, acked, y)
    BY <1>1, <1>3, <2>6, ToldAgain DEF before
  <2>8. y \in SenderState
    BY <2>7 DEF Told, SenderRight, SendingRight
  <2> QED BY <2>4, <2>7, <2>8 DEF id
<1> HIDE DEF Step, L
<1>4. NotificationsKeep(s, t, last, acked, G)
  <2>1. <<0, s>> \in G
    BY <1>1, <1>2
  <2>2. ASSUME NEW n \in 1 .. L, NEW x \in SenderState, <<n - 1, x>> \in G
        PROVE  Step(n, x) \in SenderState /\ <<n, Step(n, x)>> \in G
    <3>1. Told(s, t + (n - 1), c, acked, x)
      BY <2>2
    <3>2. n \in 0 .. L
      BY <1>1
    <3> QED BY <1>3, <3>1, <3>2
  <2> HIDE DEF G
  <2> QED BY <2>1, <2>2 DEF NotificationsKeep, Step, L
<1> HIDE DEF G
<1>5. <<L, g[L]>> \in G
  BY <1>1, <1>4, NotificationsKept DEF L, g
<1>6. Told(s, t + L, c, acked, g[L])
  BY <1>5 DEF G
<1> QED BY <1>1, <1>6 DEF g, L

-----------------------------------------------------------------------------
(* The other things the server does                                        *)

\* The sender is right again after a step, and the client as it was.
ServerKept(s, t, c, acked, y) ==
  /\ y \in SenderState /\ SenderRight(y, t) /\ ClientSide(c, y, acked) /\ SentStays(s, y)
  /\ ~y.ChannelsToClose

\* Fields the client's part does not speak of may change.
LEMMA SideSame ==
  ASSUME NEW c, NEW x \in SenderState, NEW y, NEW acked, ClientSide(c, x, acked),
         NumbersRight(x), y \in SenderState,
         y.SendBuffer = x.SendBuffer, y.network = x.network, y.OutRec = x.OutRec,
         y.numbered = x.numbered, y.AllowMerge = x.AllowMerge, NumbersRight(y),
         acked \subseteq DOMAIN x.network
  PROVE  ClientSide(c, y, acked)
<1>1. Extends(x, y)
  <2>1. Len(x.network) \in Nat /\ Count(x) \in Nat
    BY SenderLengths DEF Count
  <2> QED BY <2>1 DEF Extends, SentStays, Released, Count, Mergeable
<1> QED BY <1>1, ClientKept

\* A channel index after Init or CleanUp.
IndexReset(s, exists) == [NewChannel(s) EXCEPT !.exists = exists]

WasReset(s, exists, y) ==
  /\ y \in SenderState /\ y.ChannelsToClose = s.ChannelsToClose
  /\ y.SendBuffer = s.SendBuffer /\ y.network = s.network
  /\ y.OutReliable = s.OutReliable /\ y.numbered = s.numbered
  /\ y.AllowMerge = s.AllowMerge /\ y.sent = s.sent /\ y.connected = s.connected
  /\ y.exists = exists /\ y.OpenPacketId = 0 /\ y.OpenAcked = FALSE
  /\ y.Closing = FALSE /\ y.OutRec = << >>

\* What resetting the index does, field by field.
LEMMA NewFields ==
  ASSUME NEW s \in SenderState, NEW exists \in BOOLEAN
  PROVE  WasReset(s, exists, IndexReset(s, exists))
<1> DEFINE y == IndexReset(s, exists)
           none == << >>
           no == FALSE
           yes == TRUE
           x == [s EXCEPT !.exists = yes, !.OpenPacketId = 0, !.OpenAcked = no,
                          !.Closing = no, !.bPausedUntilReliableACK = no, !.OutRec = none]
<1>1. none \in Seq(OutBunch) /\ no \in BOOLEAN /\ yes \in BOOLEAN /\ 0 \in Nat
  OBVIOUS
<1>2. y = [x EXCEPT !.exists = exists]
  BY DEF NewChannel, IndexReset
<1> HIDE DEF none, no, yes, y
<1>3. x \in SenderState
  BY <1>1 DEF SenderState
<1>4. /\ x.ChannelsToClose = s.ChannelsToClose
      /\ x.SendBuffer = s.SendBuffer /\ x.network = s.network
      /\ x.OutReliable = s.OutReliable /\ x.numbered = s.numbered
      /\ x.AllowMerge = s.AllowMerge /\ x.sent = s.sent /\ x.connected = s.connected
      /\ x.OpenPacketId = 0 /\ x.OpenAcked = no
      /\ x.Closing = no /\ x.OutRec = none
  BY DEF SenderState
<1> HIDE DEF x
<1>5. y \in SenderState /\ y.exists = exists
  BY <1>2, <1>3 DEF SenderState
<1>6. /\ y.ChannelsToClose = x.ChannelsToClose
      /\ y.SendBuffer = x.SendBuffer /\ y.network = x.network
      /\ y.OutReliable = x.OutReliable /\ y.numbered = x.numbered
      /\ y.AllowMerge = x.AllowMerge /\ y.sent = x.sent /\ y.connected = x.connected
      /\ y.OpenPacketId = x.OpenPacketId /\ y.OpenAcked = x.OpenAcked
      /\ y.Closing = x.Closing /\ y.OutRec = x.OutRec
  BY <1>2, <1>3 DEF SenderState
<1> QED BY <1>4, <1>5, <1>6 DEF WasReset, no, none, y

\* The channel is cleaned up once its close was acknowledged.
LEMMA ChannelsClosed ==
  ASSUME NEW s, NEW t, SenderRight(s, t), NEW c, NEW acked, ClientSide(c, s, acked),
         acked \subseteq DOMAIN s.network, NEW reached \in BOOLEAN
  PROVE  LET y == CloseChannels(s, reached)
         IN  ServerKept(s, t, c, acked, y) /\ y.sent = s.sent /\ y.connected = s.connected
             /\ y.numbered = s.numbered
<1> DEFINE y == CloseChannels(s, reached)
           closes == reached /\ s.ChannelsToClose /\ s.exists
<1>1. /\ s \in SenderState /\ SendingRight(s, t) /\ NumbersRight(s) /\ ChannelRight(s)
      /\ MergesRight(s) /\ ~InMessage(s, Count(s)) /\ s.sent = Upto(s, Count(s))
  BY DEF SenderRight, SendingRight
<1>2. /\ y \in SenderState /\ ~y.ChannelsToClose
      /\ y.SendBuffer = s.SendBuffer /\ y.network = s.network
      /\ y.OutReliable = s.OutReliable /\ y.numbered = s.numbered
      /\ y.AllowMerge = s.AllowMerge /\ y.sent = s.sent /\ y.connected = s.connected
      /\ closes => /\ ~y.exists /\ y.OpenPacketId = 0 /\ ~y.OpenAcked /\ ~y.Closing
                   /\ y.OutRec = << >>
      /\ ~closes => /\ y.exists = s.exists /\ y.OpenPacketId = s.OpenPacketId
                    /\ y.OpenAcked = s.OpenAcked /\ y.Closing = s.Closing
                    /\ y.OutRec = s.OutRec
  <2> DEFINE no == FALSE
             closed == IF closes THEN CleanUp(s) ELSE s
  <2>1. no \in BOOLEAN
    OBVIOUS
  <2>2. CleanUp(s) = [NewChannel(s) EXCEPT !.exists = no]
    BY DEF CleanUp
  <2>3. y = [closed EXCEPT !.ChannelsToClose = no]
    BY DEF CloseChannels
  <2> HIDE DEF y, no
  <2>4. /\ closed \in SenderState
        /\ closed.SendBuffer = s.SendBuffer /\ closed.network = s.network
        /\ closed.OutReliable = s.OutReliable /\ closed.numbered = s.numbered
        /\ closed.AllowMerge = s.AllowMerge /\ closed.sent = s.sent
        /\ closed.connected = s.connected
        /\ closes => /\ closed.exists = no /\ closed.OpenPacketId = 0
                     /\ closed.OpenAcked = FALSE /\ closed.Closing = FALSE
                     /\ closed.OutRec = << >>
        /\ ~closes => closed = s
    <3>1. CASE closes
      <4> DEFINE z == CleanUp(s)
      <4>1. z = IndexReset(s, no)
        BY <2>2 DEF IndexReset
      <4> HIDE DEF z
      <4>2. /\ z \in SenderState
            /\ z.SendBuffer = s.SendBuffer /\ z.network = s.network
            /\ z.OutReliable = s.OutReliable /\ z.numbered = s.numbered
            /\ z.AllowMerge = s.AllowMerge /\ z.sent = s.sent /\ z.connected = s.connected
            /\ z.exists = no /\ z.OpenPacketId = 0 /\ z.OpenAcked = FALSE
            /\ z.Closing = FALSE /\ z.OutRec = << >>
        <5>1. WasReset(s, no, z)
          BY <1>1, <2>1, <4>1, NewFields
        <5> QED BY <5>1 DEF WasReset
      <4>3. closed = z
        BY <3>1 DEF z
      <4> HIDE DEF closes, closed
      <4> QED BY <3>1, <4>2, <4>3
    <3>2. CASE ~closes
      BY <1>1, <3>2
    <3> QED BY <3>1, <3>2
  <2> HIDE DEF closed
  <2>5. /\ y \in SenderState /\ y.ChannelsToClose = no
        /\ y.SendBuffer = closed.SendBuffer /\ y.network = closed.network
        /\ y.OutReliable = closed.OutReliable /\ y.numbered = closed.numbered
        /\ y.AllowMerge = closed.AllowMerge /\ y.sent = closed.sent
        /\ y.connected = closed.connected
        /\ y.exists = closed.exists /\ y.OpenPacketId = closed.OpenPacketId
        /\ y.OpenAcked = closed.OpenAcked /\ y.Closing = closed.Closing
        /\ y.OutRec = closed.OutRec
    BY <2>1, <2>3, <2>4 DEF SenderState
  <2>6. no = FALSE
    BY DEF no
  <2> HIDE DEF closes
  <2> QED BY <2>4, <2>5, <2>6
<1> HIDE DEF y
<1>3. closes => s.OutRec = << >> /\ Fresh(s, Count(s))
  BY <1>1 DEF ChannelRight, Fresh
<1>4. y.OutRec = s.OutRec
  BY <1>2, <1>3
<1>5. SendingRight(y, t) /\ SentStays(s, y) /\ MergesRight(y)
  BY <1>1, <1>2, <1>4, SendingSame
<1>6. /\ Count(y) = Count(s) /\ Released(y) = Released(s)
      /\ \A k : Numbered(y, k) = Numbered(s, k)
      /\ \A k : Upto(y, k) = Upto(s, k)
  BY <1>2, <1>4 DEF Count, Released, Numbered, Upto
<1>7. \A k : Fresh(y, k) = Fresh(s, k) /\ InMessage(y, k) = InMessage(s, k)
  BY <1>6 DEF Fresh, InMessage
<1>8. ChannelRight(y)
  <2>1. CASE closes
    BY <1>2, <1>3, <1>6, <1>7, <2>1 DEF ChannelRight
  <2>2. CASE ~closes
    BY <1>1, <1>2, <1>6, <1>7, <2>2 DEF ChannelRight
  <2> QED BY <2>1, <2>2
<1>9. SenderRight(y, t)
  BY <1>1, <1>2, <1>5, <1>6, <1>7, <1>8 DEF SenderRight
<1>10. ClientSide(c, y, acked)
  BY <1>1, <1>2, <1>4, <1>5, SideSame DEF SendingRight
<1> QED BY <1>2, <1>5, <1>9, <1>10 DEF ServerKept, y

\* NewChannel is such a reset.
LEMMA NewIsReset ==
  ASSUME NEW s \in SenderState
  PROVE  WasReset(s, TRUE, NewChannel(s))
<1> DEFINE y == NewChannel(s)
           yes == TRUE
<1>1. yes \in BOOLEAN /\ yes = TRUE
  OBVIOUS
<1>2. y.exists = yes
  BY DEF NewChannel, SenderState
<1>3. y = [f \in DOMAIN y |-> y[f]]
  BY DEF NewChannel, SenderState
<1>4. y = [y EXCEPT !.exists = yes]
  <2> HIDE DEF y, yes
  <2> QED BY <1>2, <1>3
<1>5. y = IndexReset(s, yes)
  BY <1>4 DEF IndexReset
<1> HIDE DEF y, yes
<1>6. WasReset(s, yes, y)
  BY <1>1, <1>5, NewFields
<1> QED BY <1>1, <1>6 DEF y

\* CreateChannel keeps both sides right.
LEMMA ChannelCreated ==
  ASSUME NEW s, NEW t, SenderRight(s, t), NEW c, NEW acked, ClientSide(c, s, acked),
         acked \subseteq DOMAIN s.network, ~s.exists, ~s.ChannelsToClose
  PROVE  LET y == NewChannel(s)
         IN  ServerKept(s, t, c, acked, y) /\ y.sent = s.sent
<1> DEFINE y == NewChannel(s)
<1>1. /\ s \in SenderState /\ SendingRight(s, t) /\ NumbersRight(s) /\ ChannelRight(s)
      /\ MergesRight(s) /\ ~InMessage(s, Count(s)) /\ s.sent = Upto(s, Count(s))
  BY DEF SenderRight, SendingRight
<1>2. /\ y \in SenderState /\ y.ChannelsToClose = s.ChannelsToClose
      /\ y.SendBuffer = s.SendBuffer /\ y.network = s.network
      /\ y.OutReliable = s.OutReliable /\ y.numbered = s.numbered
      /\ y.AllowMerge = s.AllowMerge /\ y.sent = s.sent
      /\ y.exists = TRUE /\ y.OpenPacketId = 0 /\ y.OpenAcked = FALSE /\ y.Closing = FALSE
      /\ y.OutRec = << >>
  BY <1>1, NewIsReset DEF WasReset
<1> HIDE DEF y
<1>3. s.OutRec = << >> /\ Fresh(s, Count(s))
  BY <1>1 DEF ChannelRight
<1>4. SendingRight(y, t) /\ SentStays(s, y) /\ MergesRight(y)
  BY <1>1, <1>2, <1>3, SendingSame
<1>5. /\ Count(y) = Count(s) /\ Released(y) = Released(s)
      /\ \A k : Numbered(y, k) = Numbered(s, k)
      /\ \A k : Upto(y, k) = Upto(s, k)
  BY <1>2, <1>3 DEF Count, Released, Numbered, Upto
<1>6. \A k : Fresh(y, k) = Fresh(s, k) /\ InMessage(y, k) = InMessage(s, k)
  BY <1>5 DEF Fresh, InMessage
<1>7. ChannelRight(y)
  BY <1>2, <1>3, <1>5, <1>6 DEF ChannelRight
<1>8. SenderRight(y, t)
  BY <1>1, <1>2, <1>4, <1>5, <1>6, <1>7 DEF SenderRight
<1>9. ClientSide(c, y, acked)
  BY <1>1, <1>2, <1>3, <1>4, SideSame DEF SendingRight
<1> QED BY <1>2, <1>4, <1>8, <1>9 DEF ServerKept, y

\* FlushNet keeps both sides right.
LEMMA Flushed ==
  ASSUME NEW s, NEW t, SenderRight(s, t), NEW c, NEW acked, ClientSide(c, s, acked),
         acked \subseteq DOMAIN s.network, ~s.ChannelsToClose
  PROVE  LET y == FlushNet(s)
         IN  ServerKept(s, t, c, acked, y) /\ y.sent = s.sent
<1> DEFINE y == FlushNet(s)
<1>1. /\ s \in SenderState /\ SendingRight(s, t) /\ NumbersRight(s) /\ ChannelRight(s)
      /\ ~InMessage(s, Count(s)) /\ s.sent = Upto(s, Count(s))
      /\ PacketsRight(s) /\ Placed(s, t, Len(s.OutRec))
  BY DEF SenderRight, SendingRight
<1>2. /\ y \in SenderState /\ SameChannel(y, s) /\ y.SendBuffer = << >> /\ SentStays(s, y)
      /\ \A id \in Nat : InPacket(y, id) = InPacket(s, id)
  BY <1>1, FlushKeeps
<1> HIDE DEF y
<1>3. /\ y.exists = s.exists /\ y.OpenPacketId = s.OpenPacketId /\ y.OpenAcked = s.OpenAcked
      /\ y.Closing = s.Closing /\ y.OutRec = s.OutRec /\ y.OutReliable = s.OutReliable
      /\ y.ChannelsToClose = s.ChannelsToClose /\ y.numbered = s.numbered /\ y.sent = s.sent
  BY <1>2 DEF SameChannel
<1>4. /\ Count(y) = Count(s) /\ Released(y) = Released(s)
      /\ \A k : Numbered(y, k) = Numbered(s, k)
      /\ \A k : Upto(y, k) = Upto(s, k)
  BY <1>3 DEF Count, Released, Numbered, Upto
<1>5. \A k : Fresh(y, k) = Fresh(s, k) /\ InMessage(y, k) = InMessage(s, k)
  BY <1>4 DEF Fresh, InMessage
<1>6. \A k : NumberRight(s, k) => NumberRight(y, k)
  BY <1>3, <1>4, <1>5 DEF NumberRight
<1>7. NumbersRight(y)
  BY <1>1, <1>3, <1>4, <1>6 DEF NumbersRight
<1>8. PacketsRight(y)
  BY <1>1, <1>2 DEF PacketsRight
<1>9. Placed(y, t, Len(y.OutRec))
  <2>1. \A n \in DOMAIN s.OutRec : s.OutRec[n].PacketId \in Nat
    BY <1>1, OutBunchFields
  <2> QED BY <1>1, <1>2, <1>3, <2>1 DEF Placed
<1>10. ChannelRight(y)
  BY <1>1, <1>3, <1>4, <1>5 DEF ChannelRight
<1>11. ~Mergeable(y) /\ MergesRight(y)
  BY <1>2 DEF Mergeable, MergesRight
<1>12. SenderRight(y, t)
  BY <1>1, <1>2, <1>3, <1>4, <1>5, <1>7, <1>8, <1>9, <1>10, <1>11 DEF SenderRight, SendingRight
<1>13. Extends(s, y)
  <2>1. Count(s) \in Nat
    BY <1>1, SenderLengths DEF Count
  <2> QED BY <1>2, <1>3, <1>4, <1>11, <2>1 DEF Extends
<1>14. ClientSide(c, y, acked)
  BY <1>1, <1>2, <1>7, <1>13, ClientKept
<1> QED BY <1>2, <1>3, <1>12, <1>14 DEF ServerKept, y

\* SendBunch keeps both sides right.
LEMMA SentKept ==
  ASSUME NEW s, NEW t \in Nat, MaySend(s, t), NEW message, Message(s, message),
         NEW merge \in BOOLEAN, NEW c, NEW acked, ClientSide(c, s, acked),
         acked \subseteq DOMAIN s.network
  PROVE  LET y == SendBunch(s, message, merge)
         IN  /\ ServerKept(s, t, c, acked, y)
             /\ y.sent = s.sent \/ y.sent = s.sent \o Carried(message.Data, message.bClose)
<1> DEFINE y == SendBunch(s, message, merge)
<1>1. BunchDone(s, message, t, y)
  BY BunchSent
<1> HIDE DEF y
<1>2. s \in SenderState /\ NumbersRight(s) /\ SenderRight(s, t) /\ ~s.ChannelsToClose
  BY DEF MaySend, SenderRight, SendingRight
<1>3. CASE y = [s EXCEPT !.connected = FALSE]
  <2>1. /\ y \in SenderState
        /\ y.SendBuffer = s.SendBuffer /\ y.network = s.network /\ y.OutRec = s.OutRec
        /\ y.OutReliable = s.OutReliable /\ y.numbered = s.numbered
        /\ y.AllowMerge = s.AllowMerge /\ y.exists = s.exists
        /\ y.OpenPacketId = s.OpenPacketId /\ y.OpenAcked = s.OpenAcked
        /\ y.Closing = s.Closing /\ y.ChannelsToClose = s.ChannelsToClose /\ y.sent = s.sent
    BY <1>2, <1>3 DEF SenderState
  <2>2. SenderRight(y, t)
    BY <1>2, <2>1, SenderSame
  <2>3. SentStays(s, y)
    <3>1. Len(s.network) \in Nat
      BY <1>2, SenderLengths
    <3> QED BY <2>1, <3>1 DEF SentStays
  <2>4. ClientSide(c, y, acked)
    BY <1>2, <2>1, <2>2, SideSame DEF SenderRight, SendingRight
  <2> QED BY <1>2, <2>1, <2>2, <2>3, <2>4 DEF ServerKept, y
<1>4. CASE /\ y \in SenderState /\ SenderRight(y, t) /\ Extends(s, y) /\ ~y.ChannelsToClose
           /\ y.sent = s.sent \/ y.sent = s.sent \o Carried(message.Data, message.bClose)
  <2>1. ClientSide(c, y, acked)
    BY <1>2, <1>4, ClientKept DEF SenderRight, SendingRight
  <2> QED BY <1>4, <2>1 DEF ServerKept, Extends, y
<1> QED BY <1>1, <1>3, <1>4 DEF BunchDone

-----------------------------------------------------------------------------
(* The client                                                              *)

\* A bunch is not None.
LEMMA NotNone ==
  ASSUME NEW bunch \in Bunch
  PROVE  bunch # None
<1>1. "bReliable" \in DOMAIN bunch
  BY DEF Bunch
<1>2. DOMAIN None = {"None"} /\ "bReliable" # "None"
  BY DEF None
<1> QED BY <1>1, <1>2

\* ClientRight, but for a channel that may just have been created.
Receiving(c, s, gap) ==
  /\ c \in ReceiverState /\ c.errors = << >>
  /\ InNumber(c) \in Released(s) .. Count(s)
  /\ QueueRight(c, s, gap) /\ PartialRight(c, s)
  /\ c.OpenAcked <=> Opened(s, InNumber(c))
  /\ c.OpenAcked => c.exists
  /\ InNumber(c) # 0 /\ Numbered(s, InNumber(c)).bClose =>
       c.received # << >> /\ Last(c.received).bClose

InUse(c, s) == c.exists => c.OpenAcked \/ InMessage(s, InNumber(c)) \/ c.InRec # << >>

\* ClientRight, in the part that holds within a bunch and the rest.
LEMMA ClientParts ==
  ASSUME NEW c, NEW s, NEW gap
  PROVE  ClientRight(c, s, gap) <=> Receiving(c, s, gap) /\ InUse(c, s)
BY DEF ClientRight, Receiving, InUse

\* A whole bunch is handled; one that closes leaves nothing of the channel.
WasHandled(x, w, y) ==
  /\ y \in ReceiverState /\ y.errors = x.errors /\ y.InReliable = x.InReliable
  /\ y.bSkipAck = x.bSkipAck
  /\ y.received = Append(x.received, [bReliable |-> w.bReliable, bClose |-> w.bClose,
                                      Data |-> w.Data])
  /\ y.stream = IF w.bReliable THEN x.stream \o Carried(w.Data, w.bClose) ELSE x.stream
  /\ w.bClose => ~y.exists /\ ~y.OpenAcked /\ y.InRec = << >> /\ y.InPartialBunch = None
  /\ ~w.bClose => /\ y.exists = x.exists /\ y.OpenAcked /\ y.InRec = x.InRec
                  /\ y.InPartialBunch = x.InPartialBunch

\* What ReceivedSequencedBunch does, field by field.
LEMMA SequencedFields ==
  ASSUME NEW x \in ReceiverState, NEW w \in Bunch, w.bClose => x.InRec = << >>
  PROVE  WasHandled(x, w, ReceivedSequencedBunch([x EXCEPT !.OpenAcked = TRUE], w))
<1> DEFINE yes == TRUE
           no == FALSE
           none == << >>
           noone == None
           o == [x EXCEPT !.OpenAcked = yes]
           entry == [bReliable |-> w.bReliable, bClose |-> w.bClose, Data |-> w.Data]
           received == Append(x.received, entry)
           stream == IF w.bReliable THEN x.stream \o Carried(w.Data, w.bClose) ELSE x.stream
           handled == [o EXCEPT !.received = received, !.stream = stream]
           closed == [handled EXCEPT !.exists = no, !.OpenAcked = no, !.InRec = none,
                                     !.InPartialBunch = noone]
           y == ReceivedSequencedBunch([x EXCEPT !.OpenAcked = TRUE], w)
<1>1. /\ x.received \in Seq(Handled) /\ x.stream \in Stream /\ x.InRec \in Seq(Bunch)
      /\ entry \in Handled /\ w.bClose \in BOOLEAN /\ w.Data \in Seq(Unit)
  BY ReceiverFields, BunchFields DEF Handled
<1>2. received \in Seq(Handled) /\ stream \in Stream
  <2>1. Carried(w.Data, w.bClose) \in Stream
    BY <1>1, StreamFacts
  <2>2. x.stream \o Carried(w.Data, w.bClose) \in Stream
    BY <1>1, <2>1, StreamFacts
  <2>3. received \in Seq(Handled)
    <3> HIDE DEF entry
    <3> QED BY <1>1
  <2> QED BY <1>1, <2>2, <2>3
<1>3. yes \in BOOLEAN /\ no \in BOOLEAN /\ none \in Seq(Bunch) /\ noone \in Bunch \cup {None}
  OBVIOUS
<1>4. /\ o.received = x.received /\ o.stream = x.stream /\ o.InRec = x.InRec
      /\ [x EXCEPT !.OpenAcked = TRUE] = o
  BY DEF ReceiverState
<1>5. y = IF w.bClose THEN IF o.InRec # << >> THEN CleanUpReceiver(Error(handled, "Close Anomaly"))
                                             ELSE closed
                      ELSE handled
  <2> DEFINE raw == [o EXCEPT !.received = Append(@, entry),
                              !.stream = IF w.bReliable THEN @ \o Carried(w.Data, w.bClose)
                                                        ELSE @]
  <2>1. y = IF w.bClose THEN CleanUpReceiver(IF o.InRec # << >> THEN Error(raw, "Close Anomaly")
                                                              ELSE raw)
                        ELSE raw
    BY DEF ReceivedSequencedBunch
  <2> HIDE DEF o, entry, y
  <2>2. raw = handled
    BY <1>4
  <2> HIDE DEF raw, handled
  <2> QED BY <2>1, <2>2 DEF CleanUpReceiver
<1> HIDE DEF y, received, stream, yes, no, none, noone, entry
<1>6. /\ o \in ReceiverState /\ o.exists = x.exists /\ o.OpenAcked = yes /\ o.InRec = x.InRec
      /\ o.InPartialBunch = x.InPartialBunch /\ o.InReliable = x.InReliable
      /\ o.bSkipAck = x.bSkipAck /\ o.errors = x.errors
  BY <1>3 DEF ReceiverState
<1> HIDE DEF o
<1>7. /\ handled \in ReceiverState /\ handled.exists = x.exists /\ handled.OpenAcked = yes
      /\ handled.InRec = x.InRec /\ handled.InPartialBunch = x.InPartialBunch
      /\ handled.InReliable = x.InReliable /\ handled.bSkipAck = x.bSkipAck
      /\ handled.errors = x.errors /\ handled.received = received /\ handled.stream = stream
  BY <1>2, <1>6 DEF ReceiverState
<1> HIDE DEF handled
<1>8. /\ closed \in ReceiverState /\ closed.exists = no /\ closed.OpenAcked = no
      /\ closed.InRec = none /\ closed.InPartialBunch = noone
      /\ closed.InReliable = x.InReliable /\ closed.bSkipAck = x.bSkipAck
      /\ closed.errors = x.errors /\ closed.received = received /\ closed.stream = stream
  BY <1>3, <1>7 DEF ReceiverState
<1> HIDE DEF closed
<1>9. CASE w.bClose
  <2>1. y = closed
    BY <1>5, <1>6, <1>9
  <2> QED BY <1>8, <1>9, <2>1 DEF WasHandled, received, stream, no, none, noone, entry, y
<1>10. CASE ~w.bClose
  <2>1. y = handled
    BY <1>5, <1>10
  <2> QED BY <1>7, <1>10, <2>1 DEF WasHandled, received, stream, yes, entry, y
<1> QED BY <1>9, <1>10

\* What the client had it has; and it has no more than one number.
Grows(c, y) ==
  /\ c.InReliable <= y.InReliable
  /\ \A i \in DOMAIN c.InRec :
       \/ c.InRec[i].ChSequence <= y.InReliable
       \/ \E j \in DOMAIN y.InRec : y.InRec[j].ChSequence = c.InRec[i].ChSequence
  /\ \A i \in DOMAIN c.received : i \in DOMAIN y.received /\ y.received[i] = c.received[i]
  /\ c.bSkipAck => y.bSkipAck
  /\ \E more \in Stream : y.stream = c.stream \o more

Learns(c, y, k) == \A n \in Nat : Has(y, n) => Has(c, n) \/ n = k

\* Concatenation of streams is associative.
LEMMA StreamsJoin ==
  ASSUME NEW a \in Stream, NEW b \in Stream, NEW d \in Stream
  PROVE  (a \o b) \o d = a \o (b \o d)
<1> DEFINE T == Unit \cup {CloseMark}
<1>1. a \in Seq(T) /\ b \in Seq(T) /\ d \in Seq(T)
  BY DEF Stream
<1> HIDE DEF T
<1> QED BY <1>1

\* The client grows over several steps.
LEMMA GrowsTransitive ==
  ASSUME NEW x \in ReceiverState, NEW y \in ReceiverState, NEW z \in ReceiverState,
         Grows(x, y), Grows(y, z)
  PROVE  Grows(x, z)
<1>1. /\ x.InReliable \in Nat /\ y.InReliable \in Nat /\ z.InReliable \in Nat
      /\ x.stream \in Stream /\ y.stream \in Stream
  BY ReceiverFields
<1>2. x.InReliable <= z.InReliable
  BY <1>1 DEF Grows
<1>3. ASSUME NEW i \in DOMAIN x.InRec
      PROVE  \/ x.InRec[i].ChSequence <= z.InReliable
             \/ \E j \in DOMAIN z.InRec : z.InRec[j].ChSequence = x.InRec[i].ChSequence
  <2>1. x.InRec[i].ChSequence \in Nat
    <3>1. x.InRec \in Seq(Bunch)
      BY ReceiverFields
    <3>2. x.InRec[i] \in Bunch
      BY <3>1
    <3> QED BY <3>2, BunchFields
  <2>2. CASE x.InRec[i].ChSequence <= y.InReliable
    BY <1>1, <2>1, <2>2 DEF Grows
  <2>3. CASE \E j \in DOMAIN y.InRec : y.InRec[j].ChSequence = x.InRec[i].ChSequence
    BY <2>3 DEF Grows
  <2> QED BY <2>2, <2>3 DEF Grows
<1>4. \A i \in DOMAIN x.received : i \in DOMAIN z.received /\ z.received[i] = x.received[i]
  BY DEF Grows
<1>5. \E more \in Stream : z.stream = x.stream \o more
  <2>1. PICK a \in Stream : y.stream = x.stream \o a
    BY DEF Grows
  <2>2. PICK b \in Stream : z.stream = y.stream \o b
    BY DEF Grows
  <2>3. (x.stream \o a) \o b = x.stream \o (a \o b)
    BY <1>1, StreamsJoin
  <2>4. a \o b \in Stream
    BY StreamFacts
  <2> QED BY <2>1, <2>2, <2>3, <2>4
<1> QED BY <1>2, <1>3, <1>4, <1>5 DEF Grows

\* What the client learns over several steps.
LEMMA LearnsTransitive ==
  ASSUME NEW x, NEW y, NEW z, NEW k, NEW n \in Nat, Has(x, n), Learns(x, y, k), Learns(y, z, n)
  PROVE  Learns(x, z, k)
BY DEF Learns

\* What the client has it keeps.
LEMMA HasGrows ==
  ASSUME NEW x \in ReceiverState, NEW y \in ReceiverState, Grows(x, y), NEW k \in Nat, Has(x, k)
  PROVE  Has(y, k)
<1>1. x.InReliable \in Nat /\ y.InReliable \in Nat /\ InitReliable \in Nat
  BY ReceiverFields, Constants
<1>2. CASE k <= InNumber(x)
  <2>1. k <= InNumber(y)
    BY <1>1, <1>2 DEF Grows, InNumber
  <2> QED BY <2>1 DEF Has
<1>3. CASE \E i \in DOMAIN x.InRec : x.InRec[i].ChSequence = InitReliable + k
  <2>1. PICK i \in DOMAIN x.InRec : x.InRec[i].ChSequence = InitReliable + k
    BY <1>3
  <2>2. \/ InitReliable + k <= y.InReliable
        \/ \E j \in DOMAIN y.InRec : y.InRec[j].ChSequence = InitReliable + k
    BY <2>1 DEF Grows
  <2>3. InitReliable + k <= y.InReliable => k <= InNumber(y)
    BY <1>1 DEF InNumber
  <2> QED BY <2>2, <2>3 DEF Has
<1> QED BY <1>2, <1>3 DEF Has

\* What the client has processed stays processed.
LEMMA ProcessedGrows ==
  ASSUME NEW x \in ReceiverState, NEW y \in ReceiverState, Grows(x, y), NEW bunch \in Bunch,
         ProcessedBy(x, bunch)
  PROVE  ProcessedBy(y, bunch)
<1>1. x.InReliable \in Nat /\ y.InReliable \in Nat /\ bunch.ChSequence \in Nat
  BY ReceiverFields, BunchFields
<1>2. CASE bunch.bReliable
  <2>1. CASE bunch.ChSequence <= x.InReliable
    BY <1>1, <1>2, <2>1 DEF ProcessedBy, Grows
  <2>2. CASE \E i \in DOMAIN x.InRec : x.InRec[i].ChSequence = bunch.ChSequence
    BY <1>2, <2>2 DEF ProcessedBy, Grows
  <2> QED BY <1>2, <2>1, <2>2 DEF ProcessedBy
<1>3. CASE ~bunch.bReliable
  BY <1>3 DEF ProcessedBy, Grows
<1> QED BY <1>2, <1>3

\* A message that ends after the last close opens the channel.
LEMMA OpenedStep ==
  ASSUME NEW s, NEW k \in Nat
  PROVE  /\ Opened(s, k + 1) <=> /\ ~Numbered(s, k + 1).bClose
                                 /\ ~GoesOn(Numbered(s, k + 1)) \/ Opened(s, k)
         /\ Fresh(s, k) => ~Opened(s, k)
         /\ ~Fresh(s, k) /\ ~InMessage(s, k) => Opened(s, k)
<1>1. ASSUME Opened(s, k + 1)
      PROVE  ~Numbered(s, k + 1).bClose /\ (~GoesOn(Numbered(s, k + 1)) \/ Opened(s, k))
  <2>1. PICK n \in 1 .. k + 1 :
          ~GoesOn(Numbered(s, n)) /\ \A m \in n .. k + 1 : ~Numbered(s, m).bClose
    BY <1>1 DEF Opened
  <2>2. k + 1 \in n .. k + 1 /\ \A m \in n .. k : m \in n .. k + 1
    OBVIOUS
  <2>3. CASE n = k + 1
    BY <2>1, <2>2, <2>3
  <2>4. CASE n # k + 1
    <3>1. n \in 1 .. k
      BY <2>4
    <3> QED BY <2>1, <2>2, <3>1 DEF Opened
  <2> QED BY <2>3, <2>4
<1>2. ASSUME ~Numbered(s, k + 1).bClose, ~GoesOn(Numbered(s, k + 1))
      PROVE  Opened(s, k + 1)
  <2> DEFINE n == k + 1
  <2>1. n \in 1 .. n /\ \A m \in n .. n : m = n
    OBVIOUS
  <2>2. ~GoesOn(Numbered(s, n)) /\ \A m \in n .. n : ~Numbered(s, m).bClose
    BY <1>2, <2>1
  <2> HIDE DEF n
  <2>3. Opened(s, n)
    BY <2>1, <2>2 DEF Opened
  <2> QED BY <2>3 DEF n
<1>3. ASSUME ~Numbered(s, k + 1).bClose, Opened(s, k) PROVE Opened(s, k + 1)
  <2>1. PICK n \in 1 .. k :
          ~GoesOn(Numbered(s, n)) /\ \A m \in n .. k : ~Numbered(s, m).bClose
    BY <1>3 DEF Opened
  <2>2. n \in 1 .. k + 1 /\ \A m \in n .. k + 1 : m = k + 1 \/ m \in n .. k
    OBVIOUS
  <2>3. \A m \in n .. k + 1 : ~Numbered(s, m).bClose
    BY <1>3, <2>1, <2>2
  <2> QED BY <2>1, <2>2, <2>3 DEF Opened
<1>4. ASSUME Fresh(s, k), Opened(s, k) PROVE FALSE
  <2>1. PICK n \in 1 .. k :
          ~GoesOn(Numbered(s, n)) /\ \A m \in n .. k : ~Numbered(s, m).bClose
    BY <1>4 DEF Opened
  <2>2. k # 0 /\ k \in n .. k
    OBVIOUS
  <2> QED BY <1>4, <2>1, <2>2 DEF Fresh
<1>5. ASSUME ~Fresh(s, k), ~InMessage(s, k) PROVE Opened(s, k)
  <2>1. k \in 1 .. k /\ \A m \in k .. k : m = k
    BY <1>5 DEF Fresh
  <2>2. ~GoesOn(Numbered(s, k)) /\ \A m \in k .. k : ~Numbered(s, m).bClose
    BY <1>5, <2>1 DEF Fresh, InMessage
  <2> QED BY <2>1, <2>2 DEF Opened
<1> QED BY <1>1, <1>2, <1>3, <1>4, <1>5

\* What is known of the bunch after number k.
NextIs(s, k, bunch) ==
  /\ bunch = Numbered(s, k + 1) /\ bunch \in Bunch /\ bunch.bReliable
  /\ bunch.ChSequence = InitReliable + k + 1 /\ Sound(bunch)
  /\ bunch.bOpen <=> Fresh(s, k)
  /\ Starts(bunch) <=> ~InMessage(s, k)
  /\ Upto(s, k + 1) = Upto(s, k) \o Carried(bunch.Data, bunch.bClose)
  /\ bunch.bClose => k + 1 = Count(s)

\* The bunch after one the client may have come to is the next.
LEMMA NextNumber ==
  ASSUME NEW s \in SenderState, NumbersRight(s), NEW k \in Nat, Released(s) <= k, k < Count(s)
  PROVE  NextIs(s, k, Numbered(s, k + 1))
<1> DEFINE n == k + 1
<1>1. Count(s) \in Nat /\ Released(s) \in Nat
  BY Counts DEF NumbersRight
<1>2. n \in 1 .. Count(s) /\ n - 1 = k /\ n # 0 /\ n \in Nat
  BY <1>1
<1>3. n # Count(s) => n \in Released(s) + 1 .. Count(s) - 1
  BY <1>1
<1>4. InitReliable + n = InitReliable + k + 1
  BY Constants
<1> HIDE DEF n
<1>5. Numbered(s, n) \in Bunch
  BY <1>2, NumberedFields
<1>6. NumberRight(s, n) /\ (n # Count(s) => ~Numbered(s, n).bClose)
  BY <1>2, <1>3 DEF NumbersRight
<1>7. Upto(s, n) = s.numbered[n].upto
  BY <1>2 DEF Upto
<1>8. NextIs(s, k, Numbered(s, n)) <=>
        /\ Numbered(s, n) = Numbered(s, n) /\ Numbered(s, n) \in Bunch /\ Numbered(s, n).bReliable
        /\ Numbered(s, n).ChSequence = InitReliable + n /\ Sound(Numbered(s, n))
        /\ Numbered(s, n).bOpen <=> Fresh(s, k)
        /\ Starts(Numbered(s, n)) <=> ~InMessage(s, k)
        /\ Upto(s, n) = Upto(s, k) \o Carried(Numbered(s, n).Data, Numbered(s, n).bClose)
        /\ Numbered(s, n).bClose => n = Count(s)
  BY <1>4 DEF NextIs, n
<1> QED BY <1>2, <1>5, <1>6, <1>7, <1>8 DEF NumberRight, n

\* Nothing but the number of the last reliable bunch, and what is partial, is new.
Retired(x, z) ==
  /\ z \in ReceiverState /\ z.errors = x.errors /\ z.InReliable = x.InReliable + 1
  /\ z.exists = x.exists /\ z.OpenAcked = x.OpenAcked /\ z.InRec = x.InRec
  /\ z.received = x.received /\ z.stream = x.stream /\ z.bSkipAck = x.bSkipAck

\* The next reliable bunch is dealt with.
NextDone(s, x, y) ==
  /\ Receiving(y, s, 0) /\ InNumber(y) = InNumber(x) + 1 /\ Grows(x, y)
  /\ y.bSkipAck = x.bSkipAck
  /\ \/ ~y.exists /\ y.InRec = << >>
     \/ y.exists /\ y.InRec = x.InRec /\ InUse(y, s)

\* How the numbers are ordered while a bunch is handled.
LEMMA ReceivingCounts ==
  ASSUME NEW c, NEW s \in SenderState, NumbersRight(s), NEW gap, Receiving(c, s, gap)
  PROVE  /\ c \in ReceiverState /\ Count(s) \in Nat /\ Released(s) \in 0 .. Count(s)
         /\ InNumber(c) \in 0 .. Count(s) /\ Released(s) <= InNumber(c)
         /\ c.InReliable = InitReliable + InNumber(c) /\ c.InReliable \in Nat
<1>1. Count(s) \in Nat /\ Released(s) \in 0 .. Count(s)
  BY Counts DEF NumbersRight
<1>2. c \in ReceiverState /\ InNumber(c) \in Released(s) .. Count(s)
  BY DEF Receiving
<1>3. c.InReliable \in Nat
  BY <1>2, ReceiverFields
<1>4. c.InReliable = InitReliable + InNumber(c)
  BY <1>3, Constants DEF InNumber
<1> QED BY <1>1, <1>2, <1>3, <1>4

\* The queue is right for the next number when the last is handled.
LEMMA QueueKept ==
  ASSUME NEW x, NEW y, NEW s, NEW k \in Nat, InNumber(x) = k, InNumber(y) = k + 1,
         QueueRight(x, s, 1), y.InRec = x.InRec
  PROVE  QueueRight(y, s, 0)
<1>1. \A i \in DOMAIN x.InRec :
        \E n \in k + 1 + 1 .. Count(s) : x.InRec[i] = Numbered(s, n)
  BY DEF QueueRight
<1>2. k + 1 + 1 = (k + 1) + 1 + 0
  OBVIOUS
<1>3. \A i \in DOMAIN y.InRec :
        \E n \in InNumber(y) + 1 + 0 .. Count(s) : y.InRec[i] = Numbered(s, n)
  BY <1>1, <1>2
<1>4. \A i, j \in DOMAIN y.InRec :
        i <= j => y.InRec[j].ChSequence - y.InRec[i].ChSequence >= j - i
  BY DEF QueueRight
<1> QED BY <1>3, <1>4 DEF QueueRight

\* Retiring a number.
LEMMA NumberAfter ==
  ASSUME NEW x \in ReceiverState, NEW z, z.InReliable = x.InReliable + 1
  PROVE  InNumber(z) = InNumber(x) + 1
<1>1. x.InReliable \in Nat /\ InitReliable \in Nat
  BY ReceiverFields, Constants
<1> QED BY <1>1 DEF InNumber

\* The message is complete.
LEMMA WholeRight ==
  ASSUME NEW s \in SenderState, NumbersRight(s), NEW x, Receiving(x, s, 1), x.exists,
         NEW bunch, NextIs(s, InNumber(x), bunch), InNumber(x) < Count(s), ~GoesOn(bunch),
         NEW z, Retired(x, z), NEW w \in Bunch, w.bReliable, w.bOpen <=> ~x.OpenAcked,
         w.bClose = bunch.bClose,
         x.stream \o Carried(w.Data, w.bClose) = Upto(s, InNumber(x) + 1),
         z.InPartialBunch # None => /\ z.InPartialBunch.bReliable => z.InPartialBunch.bPartialFinal
                                    /\ ~z.InPartialBunch.bReliable =>
                                         ~z.InPartialBunch.bOpen /\ ~z.InPartialBunch.bClose
  PROVE  NextDone(s, x, HandleBunch(z, w))
<1> DEFINE k == InNumber(x)
           y == HandleBunch(z, w)
           C == Count(s)
<1>1. /\ x \in ReceiverState /\ C \in Nat /\ k \in 0 .. C /\ Released(s) \in 0 .. C
      /\ Released(s) <= k /\ x.InReliable \in Nat
  BY ReceivingCounts
<1>2. /\ z \in ReceiverState /\ z.errors = x.errors /\ z.InReliable = x.InReliable + 1
      /\ z.exists = x.exists /\ z.OpenAcked = x.OpenAcked /\ z.InRec = x.InRec
      /\ z.received = x.received /\ z.stream = x.stream /\ z.bSkipAck = x.bSkipAck
  BY DEF Retired
<1>3. InNumber(z) = k + 1
  BY <1>1, <1>2, NumberAfter
<1>4. /\ x.errors = << >> /\ QueueRight(x, s, 1)
      /\ x.OpenAcked <=> Opened(s, k)
  BY DEF Receiving
<1>5. w.bClose => x.InRec = << >>
  <2> SUFFICES ASSUME w.bClose, x.InRec # << >> PROVE FALSE
    OBVIOUS
  <2>1. k + 1 = C
    BY DEF NextIs
  <2>2. 1 \in DOMAIN x.InRec
    BY <1>1, ReceiverFields
  <2>3. PICK n \in k + 1 + 1 .. C : x.InRec[1] = Numbered(s, n)
    BY <1>4, <2>2 DEF QueueRight
  <2> QED BY <1>1, <2>1, <2>3
<1>6. y = ReceivedSequencedBunch([z EXCEPT !.OpenAcked = TRUE], w)
  BY <1>2 DEF HandleBunch
<1>7. WasHandled(z, w, y)
  BY <1>2, <1>5, <1>6, SequencedFields
<1> HIDE DEF y
<1>8. /\ y \in ReceiverState /\ y.errors = << >> /\ y.InReliable = x.InReliable + 1
      /\ y.bSkipAck = x.bSkipAck
      /\ y.received = Append(x.received, [bReliable |-> w.bReliable, bClose |-> w.bClose,
                                          Data |-> w.Data])
      /\ y.stream = x.stream \o Carried(w.Data, w.bClose)
      /\ w.bClose => ~y.exists /\ ~y.OpenAcked /\ y.InRec = << >> /\ y.InPartialBunch = None
      /\ ~w.bClose => /\ y.exists /\ y.OpenAcked /\ y.InRec = x.InRec
                      /\ y.InPartialBunch = z.InPartialBunch
  BY <1>2, <1>4, <1>7 DEF WasHandled
<1>9. InNumber(y) = k + 1
  BY <1>1, <1>8, NumberAfter
<1>10. bunch = Numbered(s, k + 1)
  BY DEF NextIs
<1>11. Opened(s, k + 1) <=> ~w.bClose
  <2>1. k \in Nat
    BY <1>1
  <2> HIDE DEF k
  <2>2. Opened(s, k + 1) <=> /\ ~Numbered(s, k + 1).bClose
                             /\ ~GoesOn(Numbered(s, k + 1)) \/ Opened(s, k)
    BY <2>1, OpenedStep
  <2> QED BY <1>10, <2>2
<1>12. ~InMessage(s, k + 1)
  BY <1>10 DEF InMessage
<1> HIDE DEF k, C
<1>13. k + 1 \in Released(s) .. Count(s) /\ k \in Nat
  BY <1>1 DEF C, k
<1>14. QueueRight(y, s, 0)
  <2>1. CASE w.bClose
    BY <1>8, <2>1 DEF QueueRight
  <2>2. CASE ~w.bClose
    <3>1. InNumber(x) = k /\ QueueRight(x, s, 1)
      BY <1>4 DEF k
    <3> QED BY <1>8, <1>9, <1>13, <2>2, <3>1, QueueKept
  <2> QED BY <2>1, <2>2
<1>15. PartialRight(y, s)
  <2>1. y.stream = Upto(s, k + 1)
    BY <1>8 DEF k
  <2>2. y.InPartialBunch = None \/ y.InPartialBunch = z.InPartialBunch
    BY <1>8
  <2> QED BY <1>9, <1>12, <2>1, <2>2 DEF PartialRight
<1>16. Last(y.received).bClose = w.bClose /\ y.received # << >>
       /\ \A i \in DOMAIN x.received : i \in DOMAIN y.received /\ y.received[i] = x.received[i]
  <2> DEFINE entry == [bReliable |-> w.bReliable, bClose |-> w.bClose, Data |-> w.Data]
             r == x.received
  <2>1. entry \in Handled /\ r \in Seq(Handled) /\ entry.bClose = w.bClose
    BY <1>1, ReceiverFields, BunchFields DEF Handled
  <2>2. y.received = Append(r, entry)
    BY <1>8
  <2> HIDE DEF entry, r
  <2>3. /\ Append(r, entry) # << >> /\ Last(Append(r, entry)) = entry
        /\ Len(Append(r, entry)) = Len(r) + 1 /\ Append(r, entry) \in Seq(Handled)
        /\ \A i \in 1 .. Len(r) : Append(r, entry)[i] = r[i]
    BY <2>1, Appended
  <2>4. Len(r) \in Nat /\ DOMAIN r = 1 .. Len(r)
        /\ DOMAIN Append(r, entry) = 1 .. Len(r) + 1
    BY <2>1, <2>3
  <2>5. \A i \in 1 .. Len(r) : i \in 1 .. Len(r) + 1
    BY <2>4
  <2> QED BY <2>1, <2>2, <2>3, <2>4, <2>5 DEF r
<1>17. Receiving(y, s, 0)
  <2>1. y.OpenAcked => y.exists
    BY <1>8
  <2>2. y.OpenAcked <=> ~w.bClose
    BY <1>8
  <2>3. InNumber(y) # 0 /\ Numbered(s, InNumber(y)).bClose =>
          y.received # << >> /\ Last(y.received).bClose
    BY <1>9, <1>10, <1>16
  <2> QED BY <1>8, <1>9, <1>11, <1>13, <1>14, <1>15, <2>1, <2>2, <2>3 DEF Receiving
<1>18. Grows(x, y)
  <2>1. x.InReliable <= y.InReliable
    BY <1>1, <1>8
  <2>2. \A i \in DOMAIN x.InRec :
          \E j \in DOMAIN y.InRec : y.InRec[j].ChSequence = x.InRec[i].ChSequence
    <3>1. CASE w.bClose
      <4>1. DOMAIN x.InRec = {}
        BY <1>5, <3>1
      <4> QED BY <4>1
    <3>2. CASE ~w.bClose
      BY <1>8, <3>2
    <3> QED BY <3>1, <3>2
  <2>3. Carried(w.Data, w.bClose) \in Stream
    BY BunchFields, StreamFacts
  <2> QED BY <1>8, <1>16, <2>1, <2>2, <2>3 DEF Grows
<1> QED BY <1>8, <1>9, <1>17, <1>18 DEF NextDone, InUse, k, y

\* The message goes on: it is kept in the partial bunch.
LEMMA PartRight ==
  ASSUME NEW s \in SenderState, NumbersRight(s), NEW x, Receiving(x, s, 1), x.exists,
         NEW bunch, NextIs(s, InNumber(x), bunch), InNumber(x) < Count(s), GoesOn(bunch),
         NEW y, Retired(x, y), NEW w \in Bunch, y.InPartialBunch = w,
         w.bReliable, ~w.bPartialFinal, w.ChSequence = x.InReliable + 1,
         w.bOpen <=> ~x.OpenAcked, x.stream \o w.Data = Upto(s, InNumber(x) + 1)
  PROVE  NextDone(s, x, y)
<1> DEFINE k == InNumber(x)
           C == Count(s)
<1>1. /\ x \in ReceiverState /\ C \in Nat /\ k \in 0 .. C /\ Released(s) \in 0 .. C
      /\ Released(s) <= k /\ x.InReliable \in Nat
  BY ReceivingCounts
<1>2. /\ y \in ReceiverState /\ y.errors = x.errors /\ y.InReliable = x.InReliable + 1
      /\ y.exists = x.exists /\ y.OpenAcked = x.OpenAcked /\ y.InRec = x.InRec
      /\ y.received = x.received /\ y.stream = x.stream /\ y.bSkipAck = x.bSkipAck
  BY DEF Retired
<1>3. InNumber(y) = k + 1
  BY <1>1, <1>2, NumberAfter
<1>4. /\ x.errors = << >> /\ QueueRight(x, s, 1) /\ (x.OpenAcked <=> Opened(s, k))
      /\ (x.OpenAcked => x.exists)
  BY DEF Receiving
<1>5. bunch = Numbered(s, k + 1) /\ ~bunch.bClose
  BY DEF NextIs, Sound
<1>6. Opened(s, k + 1) <=> Opened(s, k)
  <2>1. k \in Nat
    BY <1>1
  <2> HIDE DEF k
  <2>2. Opened(s, k + 1) <=> /\ ~Numbered(s, k + 1).bClose
                             /\ ~GoesOn(Numbered(s, k + 1)) \/ Opened(s, k)
    BY <2>1, OpenedStep
  <2> QED BY <1>5, <2>2
<1>7. InMessage(s, k + 1)
  <2>1. k + 1 # 0
    BY <1>1
  <2> QED BY <1>5, <2>1 DEF InMessage
<1>8. InNumber(x) = k
  OBVIOUS
<1>9. Upto(s, k + 1) = x.stream \o w.Data
  OBVIOUS
<1>10. k + 1 \in Released(s) .. Count(s) /\ k \in Nat
  BY <1>1
<1> HIDE DEF k, C
<1>11. QueueRight(y, s, 0)
  BY <1>2, <1>3, <1>4, <1>8, <1>10, QueueKept
<1>12. PartialRight(y, s)
  BY <1>2, <1>3, <1>7, <1>9, NotNone DEF PartialRight
<1>13. Receiving(y, s, 0)
  BY <1>2, <1>3, <1>4, <1>5, <1>6, <1>10, <1>11, <1>12 DEF Receiving
<1>14. Grows(x, y)
  <2>1. << >> \in Stream /\ x.stream \in Stream
    BY <1>1, StreamFacts, ReceiverFields
  <2>2. y.stream = x.stream \o << >>
    BY <1>2, <2>1 DEF Stream
  <2>3. x.InReliable <= y.InReliable
    BY <1>1, <1>2
  <2> QED BY <1>2, <2>1, <2>2, <2>3 DEF Grows
<1>15. InUse(y, s)
  BY <1>3, <1>7 DEF InUse
<1> QED BY <1>2, <1>3, <1>8, <1>13, <1>14, <1>15 DEF NextDone

\* Assignments that keep the receiver's types.
LEMMA ReceiverUpdates ==
  ASSUME NEW x \in ReceiverState, NEW n, NEW part \in Bunch \cup {None}
  PROVE  /\ n \in Nat => [x EXCEPT !.InReliable = n] \in ReceiverState
         /\ [x EXCEPT !.InPartialBunch = part] \in ReceiverState
BY DEF ReceiverState

\* What setting InReliable does, field by field.
LEMMA RetiredFields ==
  ASSUME NEW x \in ReceiverState, NEW n, n = x.InReliable + 1
  PROVE  LET z == [x EXCEPT !.InReliable = n]
         IN  Retired(x, z) /\ z.InPartialBunch = x.InPartialBunch
<1>1. n \in Nat
  BY ReceiverFields
<1> DEFINE z == [x EXCEPT !.InReliable = n]
<1>2. /\ z \in ReceiverState /\ z.errors = x.errors /\ z.InReliable = n
      /\ z.exists = x.exists /\ z.OpenAcked = x.OpenAcked /\ z.InRec = x.InRec
      /\ z.received = x.received /\ z.stream = x.stream /\ z.bSkipAck = x.bSkipAck
      /\ z.InPartialBunch = x.InPartialBunch
  BY <1>1 DEF ReceiverState
<1> HIDE DEF z
<1> QED BY <1>2 DEF Retired, z

\* What setting InPartialBunch does, field by field.
LEMMA PartialFields ==
  ASSUME NEW x \in ReceiverState, NEW part \in Bunch \cup {None}
  PROVE  LET z == [x EXCEPT !.InPartialBunch = part]
         IN  /\ z \in ReceiverState /\ z.InPartialBunch = part
             /\ z.errors = x.errors /\ z.InReliable = x.InReliable
             /\ z.exists = x.exists /\ z.OpenAcked = x.OpenAcked /\ z.InRec = x.InRec
             /\ z.received = x.received /\ z.stream = x.stream /\ z.bSkipAck = x.bSkipAck
BY DEF ReceiverState

\* The partial bunch with the next part.
Joined(part, bunch) ==
  [part EXCEPT !.Data = @ \o bunch.Data, !.ChSequence = bunch.ChSequence,
               !.bPartialFinal = bunch.bPartialFinal, !.bClose = bunch.bClose]

\* What a partial bunch becomes when the next part is appended.
LEMMA JoinedFields ==
  ASSUME NEW part \in Bunch, NEW bunch \in Bunch
  PROVE  LET w == Joined(part, bunch)
         IN  /\ w \in Bunch /\ w.Data = part.Data \o bunch.Data
             /\ w.ChSequence = bunch.ChSequence /\ w.bPartialFinal = bunch.bPartialFinal
             /\ w.bClose = bunch.bClose /\ w.bOpen = part.bOpen /\ w.bReliable = part.bReliable
             /\ w.bPartial = part.bPartial
<1> DEFINE data == part.Data \o bunch.Data
           w == [part EXCEPT !.Data = data, !.ChSequence = bunch.ChSequence,
                             !.bPartialFinal = bunch.bPartialFinal, !.bClose = bunch.bClose]
<1>1. data \in Seq(Unit) /\ bunch.ChSequence \in Nat /\ bunch.bPartialFinal \in BOOLEAN
      /\ bunch.bClose \in BOOLEAN
  BY BunchFields
<1>2. Joined(part, bunch) = w
  BY DEF Joined
<1> HIDE DEF data
<1>3. /\ w \in Bunch /\ w.Data = data
      /\ w.ChSequence = bunch.ChSequence /\ w.bPartialFinal = bunch.bPartialFinal
      /\ w.bClose = bunch.bClose /\ w.bOpen = part.bOpen /\ w.bReliable = part.bReliable
      /\ w.bPartial = part.bPartial
  BY <1>1 DEF Bunch
<1> HIDE DEF w
<1> QED BY <1>2, <1>3 DEF data

\* ReceivedNextBunch, for the reliable bunch that comes next.
LEMMA NextRight ==
  ASSUME NEW s \in SenderState, NumbersRight(s), NEW x, Receiving(x, s, 1), x.exists,
         NEW bunch, NextIs(s, InNumber(x), bunch), InNumber(x) < Count(s)
  PROVE  NextDone(s, x, ReceivedNextBunch(x, bunch))
<1> DEFINE k == InNumber(x)
           part == x.InPartialBunch
           retired == [x EXCEPT !.InReliable = bunch.ChSequence]
           y == ReceivedNextBunch(x, bunch)
<1>1. /\ x \in ReceiverState /\ k \in Nat /\ x.InReliable \in Nat
      /\ x.InReliable = InitReliable + k
  BY ReceivingCounts
<1>2. /\ bunch = Numbered(s, k + 1) /\ bunch \in Bunch /\ bunch.bReliable
      /\ bunch.ChSequence = InitReliable + k + 1 /\ Sound(bunch)
      /\ bunch.bOpen <=> Fresh(s, k)
      /\ Starts(bunch) <=> ~InMessage(s, k)
      /\ Upto(s, k + 1) = Upto(s, k) \o Carried(bunch.Data, bunch.bClose)
  BY DEF NextIs
<1>3. bunch.ChSequence = x.InReliable + 1
  BY <1>1, <1>2, Constants
<1>4. Retired(x, retired) /\ retired.InPartialBunch = part
  BY <1>1, <1>3, RetiredFields
<1>5. /\ PartialRight(x, s) /\ (x.OpenAcked <=> Opened(s, k)) /\ x.errors = << >>
      /\ x.OpenAcked \in BOOLEAN /\ x.stream \in Stream /\ part \in Bunch \cup {None}
  BY <1>1, ReceiverFields DEF Receiving
<1>6. /\ part # None /\ ~part.bReliable => ~part.bOpen /\ ~part.bClose
      /\ InMessage(s, k) => /\ part # None /\ part.bReliable /\ ~part.bPartialFinal
                            /\ part.ChSequence = x.InReliable /\ (part.bOpen <=> ~x.OpenAcked)
                            /\ x.stream \o part.Data = Upto(s, k)
      /\ ~InMessage(s, k) => /\ part # None /\ part.bReliable => part.bPartialFinal
                             /\ x.stream = Upto(s, k)
  BY <1>5 DEF PartialRight
<1>7. y = IF ~bunch.bPartial THEN HandleBunch(retired, bunch)
          ELSE IF bunch.bPartialInitial THEN ReceivedPartialInitial(retired, bunch)
          ELSE ReceivedPartialNext(retired, bunch)
  BY <1>2 DEF ReceivedNextBunch
<1>8. retired \in ReceiverState
  BY <1>4 DEF Retired
<1> HIDE DEF retired, y
<1>9. Starts(bunch) => (bunch.bOpen <=> ~x.OpenAcked)
  <2> SUFFICES ASSUME ~InMessage(s, k) PROVE Fresh(s, k) <=> ~Opened(s, k)
    BY <1>2, <1>5
  <2> HIDE DEF k
  <2> QED BY <1>1, OpenedStep
<1>10. CASE ~bunch.bPartial
  <2>1. Starts(bunch) /\ ~GoesOn(bunch)
    BY <1>10 DEF Starts, GoesOn
  <2>2. x.stream \o Carried(bunch.Data, bunch.bClose) = Upto(s, k + 1)
    BY <1>2, <1>6, <2>1
  <2>3. NextDone(s, x, HandleBunch(retired, bunch))
    BY <1>2, <1>4, <1>6, <1>9, <2>1, <2>2, WholeRight
  <2> QED BY <1>7, <1>10, <2>3 DEF y
<1>11. CASE bunch.bPartial /\ bunch.bPartialInitial
  <2>1. Starts(bunch) /\ GoesOn(bunch) /\ ~bunch.bClose /\ ~bunch.bPartialFinal
    BY <1>2, <1>11 DEF Starts, GoesOn, Sound
  <2> DEFINE z == [retired EXCEPT !.InPartialBunch = bunch]
  <2>2. y = z
    BY <1>2, <1>4, <1>6, <1>7, <1>11, <2>1 DEF ReceivedPartialInitial, HoldsReliablePartial
  <2>3. Retired(x, z) /\ z.InPartialBunch = bunch
    <3>1. bunch \in Bunch \cup {None}
      BY <1>2
    <3> QED BY <1>4, <1>8, <3>1, PartialFields DEF Retired
  <2> HIDE DEF z
  <2>4. x.stream \o bunch.Data = Upto(s, k + 1)
    BY <1>2, <1>6, <2>1 DEF Carried
  <2>5. NextDone(s, x, z)
    BY <1>2, <1>3, <1>9, <2>1, <2>3, <2>4, PartRight
  <2> QED BY <2>2, <2>5 DEF y
<1>12. CASE bunch.bPartial /\ ~bunch.bPartialInitial
  <2>1. InMessage(s, k)
    BY <1>2, <1>12 DEF Starts
  <2>2. part \in Bunch
    BY <1>5, <1>6, <2>1
  <2> DEFINE w == Joined(part, bunch)
             z == [retired EXCEPT !.InPartialBunch = w]
  <2>3. /\ w \in Bunch /\ w.Data = part.Data \o bunch.Data
        /\ w.ChSequence = bunch.ChSequence /\ w.bPartialFinal = bunch.bPartialFinal
        /\ w.bClose = bunch.bClose /\ w.bOpen = part.bOpen /\ w.bReliable = part.bReliable
        /\ w.bPartial = part.bPartial
    BY <1>2, <2>2, JoinedFields
  <2>4. ContinuesPartial(retired, bunch)
    BY <1>2, <1>3, <1>4, <1>6, <2>1 DEF ContinuesPartial
  <2>5. y = IF bunch.bPartialFinal THEN HandleBunch(z, w) ELSE z
    BY <1>4, <1>7, <1>12, <2>4 DEF ReceivedPartialNext, Joined
  <2>6. Retired(x, z) /\ z.InPartialBunch = w
    <3>1. w \in Bunch \cup {None}
      BY <2>3
    <3> HIDE DEF w
    <3> QED BY <1>4, <1>8, <3>1, PartialFields DEF Retired
  <2> HIDE DEF w, z
  <2>7. x.stream \o Carried(w.Data, w.bClose) = Upto(s, k + 1)
    <3>1. part.Data \in Seq(Unit) /\ bunch.Data \in Seq(Unit)
      BY <1>2, <2>2, BunchFields
    <3>2. (x.stream \o part.Data) \o Carried(bunch.Data, bunch.bClose)
            = x.stream \o Carried(part.Data \o bunch.Data, bunch.bClose)
      BY <1>5, <3>1, CarriedJoins
    <3> QED BY <1>2, <1>6, <2>1, <2>3, <3>2
  <2>8. w.bReliable /\ (w.bOpen <=> ~x.OpenAcked)
    BY <1>6, <2>1, <2>3
  <2>9. CASE bunch.bPartialFinal
    <3>1. ~GoesOn(bunch)
      BY <2>9 DEF GoesOn
    <3>2. z.InPartialBunch # None =>
             /\ z.InPartialBunch.bReliable => z.InPartialBunch.bPartialFinal
             /\ ~z.InPartialBunch.bReliable => ~z.InPartialBunch.bOpen /\ ~z.InPartialBunch.bClose
      BY <2>3, <2>6, <2>8, <2>9
    <3>3. NextDone(s, x, HandleBunch(z, w))
      BY <2>3, <2>6, <2>7, <2>8, <3>1, <3>2, WholeRight
    <3> QED BY <2>5, <2>9, <3>3 DEF y
  <2>10. CASE ~bunch.bPartialFinal
    <3>1. GoesOn(bunch) /\ ~bunch.bClose
      BY <1>2, <1>12, <2>10 DEF GoesOn, Sound
    <3>2. x.stream \o w.Data = Upto(s, k + 1)
      BY <2>3, <2>7, <3>1 DEF Carried
    <3>3. NextDone(s, x, z)
      BY <1>3, <2>3, <2>6, <2>8, <2>10, <3>1, <3>2, PartRight
    <3> QED BY <2>5, <2>10, <3>3 DEF y
  <2> QED BY <2>9, <2>10
<1> QED BY <1>10, <1>11, <1>12

-----------------------------------------------------------------------------
(* The bunches that waited                                                 *)

\* The queue, by the numbers of its bunches.
QueueNumbers(c, s) == \A i \in 1 .. Len(c.InRec) :
  \E n \in InNumber(c) + 1 .. Count(s) :
    c.InRec[i] = Numbered(s, n) /\ c.InRec[i].ChSequence = InitReliable + n

\* The queue as a sequence of numbers in order.
LEMMA QueueAsNumbers ==
  ASSUME NEW s \in SenderState, NumbersRight(s), NEW x, ClientRight(x, s, 0)
  PROVE  /\ QueueNumbers(x, s) /\ x.InRec \in Seq(Bunch)
         /\ Len(x.InRec) \in Nat /\ DOMAIN x.InRec = 1 .. Len(x.InRec)
         /\ \A i, j \in 1 .. Len(x.InRec) :
              i <= j => x.InRec[j].ChSequence - x.InRec[i].ChSequence >= j - i
<1> DEFINE gap == 0
<1>1. gap \in {0, 1} /\ ClientRight(x, s, gap) /\ gap = 0
  OBVIOUS
<1> HIDE DEF gap
<1>2. /\ x \in ReceiverState /\ Count(s) \in Nat /\ InNumber(x) \in 0 .. Count(s)
  BY <1>1, ClientCounts
<1>3. x.InRec \in Seq(Bunch) /\ Len(x.InRec) \in Nat /\ DOMAIN x.InRec = 1 .. Len(x.InRec)
  BY <1>2, ReceiverFields
<1>4. ASSUME NEW i \in DOMAIN x.InRec
      PROVE  \E n \in InNumber(x) + 1 .. Count(s) :
               x.InRec[i] = Numbered(s, n) /\ x.InRec[i].ChSequence = InitReliable + n
  <2>1. PICK n \in InNumber(x) + 1 + gap .. Count(s) :
           x.InRec[i] = Numbered(s, n) /\ x.InRec[i].ChSequence = InitReliable + n
    BY <1>1, QueuedNumbers
  <2>2. n \in InNumber(x) + 1 .. Count(s)
    BY <1>1, <1>2, <2>1
  <2> QED BY <2>1, <2>2
<1>5. \A i, j \in DOMAIN x.InRec :
        i <= j => x.InRec[j].ChSequence - x.InRec[i].ChSequence >= j - i
  BY DEF ClientRight, QueueRight
<1> QED BY <1>3, <1>4, <1>5 DEF QueueNumbers

\* If the first does not come next, none does.
LEMMA NoneNext ==
  ASSUME NEW s \in SenderState, NumbersRight(s), NEW x, ClientRight(x, s, 0),
         x.InRec # << >> => x.InRec[1].ChSequence # x.InReliable + 1
  PROVE  QueueRight(x, s, 1)
<1> DEFINE k == InNumber(x)
           L == Len(x.InRec)
           C == Count(s)
<1>1. /\ QueueNumbers(x, s) /\ x.InRec \in Seq(Bunch)
      /\ L \in Nat /\ DOMAIN x.InRec = 1 .. L
      /\ \A i, j \in 1 .. L :
           i <= j => x.InRec[j].ChSequence - x.InRec[i].ChSequence >= j - i
  BY QueueAsNumbers
<1>2. /\ C \in Nat /\ k \in 0 .. C /\ x.InReliable = InitReliable + k /\ InitReliable \in Nat
  <2> DEFINE gap == 0
  <2>1. gap \in {0, 1} /\ ClientRight(x, s, gap)
    OBVIOUS
  <2> HIDE DEF gap
  <2> QED BY <2>1, ClientCounts, Constants
<1>3. \A i \in 1 .. L : \E n \in k + 1 .. C :
        x.InRec[i] = Numbered(s, n) /\ x.InRec[i].ChSequence = InitReliable + n
  BY <1>1 DEF QueueNumbers
<1>4. ASSUME NEW i \in 1 .. L PROVE \E n \in k + 1 + 1 .. C : x.InRec[i] = Numbered(s, n)
  <2>1. 1 \in 1 .. L /\ 1 <= i /\ x.InRec # << >>
    BY <1>1
  <2>2. PICK n \in k + 1 .. C :
          x.InRec[i] = Numbered(s, n) /\ x.InRec[i].ChSequence = InitReliable + n
    BY <1>3
  <2>3. PICK m \in k + 1 .. C : x.InRec[1].ChSequence = InitReliable + m
    BY <1>3, <2>1
  <2>4. m # k + 1
    <3>1. x.InRec[1].ChSequence # x.InReliable + 1
      BY <2>1
    <3> HIDE DEF k, L, C
    <3> QED BY <1>2, <2>3, <3>1
  <2>5. x.InRec[i].ChSequence - x.InRec[1].ChSequence >= i - 1
    BY <1>1, <2>1
  <2> HIDE DEF k, L, C
  <2>6. n >= m
    BY <1>2, <2>1, <2>2, <2>3, <2>5
  <2>7. n \in k + 1 + 1 .. C
    BY <1>2, <2>2, <2>3, <2>4, <2>6
  <2> QED BY <2>2, <2>7
<1> QED BY <1>1, <1>4 DEF QueueRight

\* After i of the bunches that waited in q: the loop has come to a bunch that is
\* not the next one, or all of them were dealt with.
Waits(s, y, q, i, x) ==
  /\ ClientRight(x, s, 0) /\ (x.exists \/ x.InRec = << >>) /\ Grows(y, x)
  /\ x.bSkipAck = y.bSkipAck /\ \A n \in Nat : Has(x, n) => Has(y, n)
  /\ \/ QueueRight(x, s, 1)
     \/ /\ Len(x.InRec) = Len(q) - i
        /\ \A m \in 1 .. Len(q) - i : x.InRec[m] = q[i + m]

\* The client grows when nothing changes.
LEMMA GrowsItself ==
  ASSUME NEW x \in ReceiverState
  PROVE  Grows(x, x)
<1>1. << >> \in Stream /\ x.stream \in Stream /\ x.InReliable \in Nat
  BY StreamFacts, ReceiverFields
<1>2. x.stream = x.stream \o << >>
  BY <1>1 DEF Stream
<1>3. x.InReliable <= x.InReliable
  BY <1>1
<1> QED BY <1>1, <1>2, <1>3 DEF Grows

\* The first of the queue is taken out of it.
Taken(c) == [c EXCEPT !.InRec = Tail(@)]

\* What taking the first bunch off the queue does, field by field.
LEMMA TakenFields ==
  ASSUME NEW x \in ReceiverState, x.InRec # << >>
  PROVE  LET p == Taken(x)
         IN  /\ p \in ReceiverState /\ p.exists = x.exists /\ p.OpenAcked = x.OpenAcked
             /\ p.InPartialBunch = x.InPartialBunch /\ p.InReliable = x.InReliable
             /\ p.bSkipAck = x.bSkipAck /\ p.errors = x.errors /\ p.received = x.received
             /\ p.stream = x.stream /\ InNumber(p) = InNumber(x)
             /\ Len(p.InRec) = Len(x.InRec) - 1
             /\ DOMAIN p.InRec = 1 .. Len(x.InRec) - 1
             /\ \A m \in 1 .. Len(x.InRec) - 1 : p.InRec[m] = x.InRec[m + 1]
<1> DEFINE q == Tail(x.InRec)
           p == [x EXCEPT !.InRec = q]
<1>1. x.InRec \in Seq(Bunch)
  BY ReceiverFields
<1>2. /\ q \in Seq(Bunch) /\ Len(q) = Len(x.InRec) - 1 /\ DOMAIN q = 1 .. Len(x.InRec) - 1
      /\ \A m \in 1 .. Len(x.InRec) - 1 : q[m] = x.InRec[m + 1]
  BY <1>1
<1>3. Taken(x) = p
  BY DEF Taken
<1> HIDE DEF q
<1>4. /\ p \in ReceiverState /\ p.exists = x.exists /\ p.OpenAcked = x.OpenAcked
      /\ p.InPartialBunch = x.InPartialBunch /\ p.InReliable = x.InReliable
      /\ p.bSkipAck = x.bSkipAck /\ p.errors = x.errors /\ p.received = x.received
      /\ p.stream = x.stream /\ p.InRec = q
  BY <1>2 DEF ReceiverState
<1> HIDE DEF p
<1> QED BY <1>2, <1>3, <1>4 DEF InNumber

\* It is the next one, and dealt with.
LEMMA TakenRight ==
  ASSUME NEW s \in SenderState, NumbersRight(s), NEW x, ClientRight(x, s, 0), x.exists,
         x.InRec # << >>, x.InRec[1].ChSequence = x.InReliable + 1
  PROVE  /\ InNumber(x) < Count(s) /\ x.InRec[1] = Numbered(s, InNumber(x) + 1)
         /\ Receiving(Taken(x), s, 1)
<1> DEFINE k == InNumber(x)
           L == Len(x.InRec)
           C == Count(s)
           p == Taken(x)
<1>1. /\ QueueNumbers(x, s) /\ x.InRec \in Seq(Bunch)
      /\ L \in Nat /\ DOMAIN x.InRec = 1 .. L
      /\ \A i, j \in 1 .. L :
           i <= j => x.InRec[j].ChSequence - x.InRec[i].ChSequence >= j - i
  BY QueueAsNumbers
<1>2. /\ x \in ReceiverState
      /\ C \in Nat /\ k \in 0 .. C /\ x.InReliable = InitReliable + k /\ InitReliable \in Nat
  <2> DEFINE gap == 0
  <2>1. gap \in {0, 1} /\ ClientRight(x, s, gap)
    OBVIOUS
  <2> HIDE DEF gap
  <2> QED BY <2>1, ClientCounts, Constants
<1>3. \A i \in 1 .. L : \E n \in k + 1 .. C :
        x.InRec[i] = Numbered(s, n) /\ x.InRec[i].ChSequence = InitReliable + n
  BY <1>1 DEF QueueNumbers
<1>4. 1 \in 1 .. L
  BY <1>1
<1>5. k < C /\ x.InRec[1] = Numbered(s, k + 1)
  <2>1. PICK n \in k + 1 .. C :
          x.InRec[1] = Numbered(s, n) /\ x.InRec[1].ChSequence = InitReliable + n
    BY <1>3, <1>4
  <2> HIDE DEF k, C, L
  <2>2. n = k + 1
    BY <1>2, <2>1
  <2>3. k < C
    BY <1>2, <2>1, <2>2
  <2> QED BY <2>1, <2>2, <2>3
<1>6. /\ p \in ReceiverState /\ p.exists = x.exists /\ p.OpenAcked = x.OpenAcked
      /\ p.InPartialBunch = x.InPartialBunch /\ p.InReliable = x.InReliable
      /\ p.bSkipAck = x.bSkipAck /\ p.errors = x.errors /\ p.received = x.received
      /\ p.stream = x.stream /\ InNumber(p) = k
      /\ Len(p.InRec) = L - 1 /\ DOMAIN p.InRec = 1 .. L - 1
      /\ \A m \in 1 .. L - 1 : p.InRec[m] = x.InRec[m + 1]
  BY <1>2, TakenFields
<1>7. InNumber(x) = k
  OBVIOUS
<1> HIDE DEF p, k, C, L
<1>8. \A m \in 1 .. L - 1 : m + 1 \in 1 .. L
  BY <1>1
<1>9. QueueRight(p, s, 1)
  <2>1. ASSUME NEW i \in 1 .. L - 1
        PROVE  \E n \in k + 1 + 1 .. C : p.InRec[i] = Numbered(s, n)
    <3> DEFINE j == i + 1
    <3>1. j \in 1 .. L /\ 1 <= j /\ j - 1 >= 1
      BY <1>1, <1>8
    <3>2. p.InRec[i] = x.InRec[j]
      BY <1>6
    <3> HIDE DEF j
    <3>3. PICK n \in k + 1 .. C :
            x.InRec[j] = Numbered(s, n) /\ x.InRec[j].ChSequence = InitReliable + n
      BY <1>3, <3>1
    <3>4. x.InRec[j].ChSequence - x.InRec[1].ChSequence >= j - 1
      BY <1>1, <1>4, <3>1
    <3>5. j \in Nat
      BY <1>1, <3>1
    <3>6. n \in k + 1 + 1 .. C
      BY <1>2, <3>1, <3>3, <3>4, <3>5
    <3> QED BY <3>2, <3>3, <3>6
  <2>2. ASSUME NEW i \in 1 .. L - 1, NEW j \in 1 .. L - 1, i <= j
        PROVE  p.InRec[j].ChSequence - p.InRec[i].ChSequence >= j - i
    <3>1. i + 1 \in 1 .. L /\ j + 1 \in 1 .. L /\ i + 1 <= j + 1 /\ (j + 1) - (i + 1) = j - i
      BY <1>1, <1>8, <2>2
    <3> DEFINE a == i + 1
               b == j + 1
    <3>2. a \in 1 .. L /\ b \in 1 .. L /\ a <= b /\ b - a = j - i
          /\ p.InRec[i] = x.InRec[a] /\ p.InRec[j] = x.InRec[b]
      BY <1>6, <3>1
    <3> HIDE DEF a, b
    <3>3. x.InRec[b].ChSequence - x.InRec[a].ChSequence >= b - a
      BY <1>1, <3>2
    <3> QED BY <3>2, <3>3
  <2> QED BY <1>6, <2>1, <2>2 DEF QueueRight, C
<1>10. PartialRight(p, s)
  BY <1>6, <1>7 DEF PartialRight, ClientRight
<1>11. Receiving(p, s, 1)
  BY <1>6, <1>7, <1>9, <1>10 DEF Receiving, ClientRight
<1> QED BY <1>5, <1>11 DEF p, k, C

\* Taking the next bunch off the queue and handling it loses nothing.
LEMMA TakenGrows ==
  ASSUME NEW s \in SenderState, NumbersRight(s), NEW x \in ReceiverState, x.InRec # << >>,
         x.InRec[1].ChSequence = x.InReliable + 1, NEW z, NextDone(s, Taken(x), z)
  PROVE  /\ Grows(x, z) /\ \A n \in Nat : Has(z, n) => Has(x, n)
<1> DEFINE p == Taken(x)
           L == Len(x.InRec)
           k == InNumber(x)
<1>1. /\ p \in ReceiverState /\ p.InReliable = x.InReliable
      /\ p.bSkipAck = x.bSkipAck /\ p.received = x.received
      /\ p.stream = x.stream /\ InNumber(p) = k
      /\ DOMAIN p.InRec = 1 .. L - 1
      /\ \A m \in 1 .. L - 1 : p.InRec[m] = x.InRec[m + 1]
  BY TakenFields
<1>2. /\ L \in Nat /\ DOMAIN x.InRec = 1 .. L /\ x.InReliable \in Nat /\ 1 \in 1 .. L
      /\ x.InRec \in Seq(Bunch)
  BY ReceiverFields
<1>3. /\ Receiving(z, s, 0) /\ InNumber(z) = k + 1 /\ Grows(p, z)
      /\ z.InRec = << >> \/ z.InRec = p.InRec
  BY <1>1 DEF NextDone
<1>4. z \in ReceiverState /\ z.InReliable \in Nat /\ InitReliable \in Nat
  BY <1>3, ReceiverFields, Constants DEF Receiving
<1> HIDE DEF p
<1>5. x.InReliable = InitReliable + k /\ z.InReliable = x.InReliable + 1 /\ k \in Int
  BY <1>2, <1>3, <1>4 DEF InNumber
<1> HIDE DEF k, L
<1>6. ASSUME NEW i \in 1 .. L
      PROVE  \/ x.InRec[i].ChSequence <= z.InReliable
             \/ \E j \in DOMAIN z.InRec : z.InRec[j].ChSequence = x.InRec[i].ChSequence
  <2>1. CASE i = 1
    BY <1>2, <1>4, <1>5, <2>1
  <2>2. CASE i # 1
    <3>1. PICK m \in 1 .. L - 1 : m + 1 = i
      <4>1. i - 1 \in 1 .. L - 1 /\ (i - 1) + 1 = i
        BY <1>2, <2>2
      <4> QED BY <4>1
    <3>2. p.InRec[m].ChSequence = x.InRec[i].ChSequence /\ m \in DOMAIN p.InRec
      BY <1>1, <3>1
    <3>3. \/ p.InRec[m].ChSequence <= z.InReliable
          \/ \E j \in DOMAIN z.InRec : z.InRec[j].ChSequence = p.InRec[m].ChSequence
      BY <1>3, <3>2 DEF Grows
    <3> QED BY <3>2, <3>3
  <2> QED BY <2>1, <2>2
<1>7. Grows(x, z)
  <2>1. x.InReliable <= z.InReliable
    BY <1>2, <1>5
  <2> QED BY <1>1, <1>2, <1>3, <1>6, <2>1 DEF Grows
<1>8. ASSUME NEW n \in Nat, Has(z, n) PROVE Has(x, n)
  <2>1. CASE n <= InNumber(z)
    <3>1. n <= k \/ n = k + 1
      BY <1>3, <1>5, <2>1
    <3>2. n = k + 1 => x.InRec[1].ChSequence = InitReliable + n
      BY <1>4, <1>5
    <3> QED BY <1>2, <3>1, <3>2 DEF Has, k
  <2>2. CASE \E i \in DOMAIN z.InRec : z.InRec[i].ChSequence = InitReliable + n
    <3>1. PICK i \in DOMAIN z.InRec : z.InRec[i].ChSequence = InitReliable + n
      BY <2>2
    <3>2. z.InRec = p.InRec
      BY <1>3, <3>1
    <3>3. i \in 1 .. L - 1 /\ x.InRec[i + 1].ChSequence = InitReliable + n
      BY <1>1, <3>1, <3>2
    <3>4. i + 1 \in 1 .. L
      BY <1>2, <3>3
    <3> QED BY <1>2, <3>3, <3>4 DEF Has
  <2> QED BY <1>8, <2>1, <2>2 DEF Has
<1> QED BY <1>7, <1>8

\* Or there is nothing left that waits.
LEMMA NoneLeft ==
  ASSUME NEW x, NEW s, NEW gap, x.InRec = << >>
  PROVE  QueueRight(x, s, gap)
BY DEF QueueRight

\* An iteration of the loop over the bunches that waited.
LEMMA WaitStep ==
  ASSUME NEW s \in SenderState, NumbersRight(s), NEW y \in ReceiverState,
         NEW q \in Seq(Bunch), NEW i \in 1 .. Len(q), NEW x, Waits(s, y, q, i - 1, x)
  PROVE  Waits(s, y, q, i, Unleash(x, q[i]))
<1> DEFINE L == Len(q)
<1>1. /\ ClientRight(x, s, 0) /\ (x.exists \/ x.InRec = << >>) /\ Grows(y, x)
      /\ x.bSkipAck = y.bSkipAck /\ \A n \in Nat : Has(x, n) => Has(y, n)
      /\ \/ QueueRight(x, s, 1)
         \/ /\ Len(x.InRec) = L - (i - 1)
            /\ \A m \in 1 .. L - (i - 1) : x.InRec[m] = q[(i - 1) + m]
  BY DEF Waits
<1>2. x \in ReceiverState /\ L \in Nat /\ i \in 1 .. L
  BY <1>1 DEF ClientRight
<1>3. x.InRec \in Seq(Bunch) /\ Len(x.InRec) \in Nat /\ DOMAIN x.InRec = 1 .. Len(x.InRec)
      /\ x.InReliable \in Nat
  BY <1>2, ReceiverFields
<1>4. CASE x.InRec # << >> /\ Head(x.InRec) = q[i] /\ q[i].ChSequence = x.InReliable + 1
  <2> DEFINE p == Taken(x)
             z == ReceivedNextBunch(p, q[i])
             u == Unleash(x, q[i])
  <2>1. x.InRec[1] = q[i] /\ 1 \in DOMAIN x.InRec /\ x.exists
    BY <1>1, <1>3, <1>4
  <2>2. u = [z EXCEPT !.bSkipAck = x.bSkipAck]
    BY <1>4 DEF Unleash, Taken
  <2> HIDE DEF u
  <2>3. /\ InNumber(x) < Count(s) /\ x.InRec[1] = Numbered(s, InNumber(x) + 1)
        /\ Receiving(p, s, 1)
    BY <1>1, <1>4, <2>1, TakenRight
  <2>4. /\ p \in ReceiverState /\ p.exists = x.exists /\ p.bSkipAck = x.bSkipAck
        /\ InNumber(p) = InNumber(x)
        /\ Len(p.InRec) = Len(x.InRec) - 1
        /\ \A m \in 1 .. Len(x.InRec) - 1 : p.InRec[m] = x.InRec[m + 1]
    BY <1>2, <1>4, TakenFields
  <2>5. NextIs(s, InNumber(p), q[i])
    <3>1. InNumber(p) \in Nat /\ Released(s) <= InNumber(p)
      BY <2>3, ReceivingCounts
    <3>2. InNumber(p) < Count(s)
      BY <2>3, <2>4
    <3>3. NextIs(s, InNumber(p), Numbered(s, InNumber(p) + 1))
      BY <3>1, <3>2, NextNumber
    <3> QED BY <2>1, <2>3, <2>4, <3>3
  <2>6. NextDone(s, p, z)
    <3>1. p.exists /\ InNumber(p) < Count(s)
      BY <2>1, <2>3, <2>4
    <3> QED BY <2>3, <2>5, <3>1, NextRight
  <2> HIDE DEF z, p
  <2>7. /\ Receiving(z, s, 0) /\ z.bSkipAck = x.bSkipAck
        /\ \/ ~z.exists /\ z.InRec = << >>
           \/ z.exists /\ z.InRec = p.InRec /\ InUse(z, s)
    BY <2>4, <2>6 DEF NextDone
  <2>8. z \in ReceiverState
    BY <2>7 DEF Receiving
  <2>9. u = z
    BY <2>2, <2>7, <2>8 DEF ReceiverState
  <2>10. ClientRight(z, s, 0)
    BY <2>7, ClientParts DEF InUse
  <2>11. Grows(x, z) /\ \A n \in Nat : Has(z, n) => Has(x, n)
    BY <1>2, <1>4, <2>1, <2>6, TakenGrows DEF p
  <2>12. Grows(y, z)
    BY <1>1, <1>2, <2>8, <2>11, GrowsTransitive
  <2>13. \/ QueueRight(z, s, 1)
         \/ /\ Len(z.InRec) = L - i
            /\ \A m \in 1 .. L - i : z.InRec[m] = q[i + m]
    <3>1. CASE z.InRec = << >>
      BY <3>1, NoneLeft
    <3>2. CASE z.InRec = p.InRec
      <4>1. ~QueueRight(x, s, 1)
        <5> SUFFICES ASSUME QueueRight(x, s, 1) PROVE FALSE
          OBVIOUS
        <5> DEFINE gap == 1
        <5>1. gap \in {0, 1} /\ ClientRight(x, s, gap)
          BY <1>1 DEF ClientRight
        <5>2. gap = 1
          OBVIOUS
        <5> HIDE DEF gap
        <5>3. PICK k \in InNumber(x) + 1 + gap .. Count(s) :
                x.InRec[1].ChSequence = InitReliable + k
          BY <2>1, <5>1, QueuedNumbers
        <5>4. /\ x.InReliable = InitReliable + InNumber(x) /\ InNumber(x) \in 0 .. Count(s)
              /\ Count(s) \in Nat /\ InitReliable \in Nat
          BY <5>1, ClientCounts, Constants
        <5>5. x.InRec[1].ChSequence = x.InReliable + 1
          BY <1>4, <2>1
        <5> QED BY <5>2, <5>3, <5>4, <5>5
      <4>2. /\ Len(x.InRec) = L - (i - 1)
            /\ \A m \in 1 .. L - (i - 1) : x.InRec[m] = q[(i - 1) + m]
        BY <1>1, <4>1
      <4>3. Len(p.InRec) = L - i
        BY <1>2, <2>4, <4>2
      <4>4. ASSUME NEW m \in 1 .. L - i PROVE p.InRec[m] = q[i + m]
        <5> DEFINE n == m + 1
        <5>1. n \in 1 .. L - (i - 1) /\ (i - 1) + n = i + m /\ m \in 1 .. Len(x.InRec) - 1
          BY <1>2, <4>2
        <5>2. p.InRec[m] = x.InRec[n]
          BY <2>4, <5>1
        <5> HIDE DEF n
        <5>3. x.InRec[n] = q[(i - 1) + n]
          BY <4>2, <5>1
        <5> QED BY <5>1, <5>2, <5>3
      <4> QED BY <3>2, <4>3, <4>4
    <3> QED BY <2>7, <3>1, <3>2
  <2>14. \A n \in Nat : Has(z, n) => Has(y, n)
    BY <1>1, <2>11
  <2>15. (z.exists \/ z.InRec = << >>) /\ z.bSkipAck = y.bSkipAck
    BY <1>1, <2>7
  <2> HIDE DEF L
  <2>16. Waits(s, y, q, i, z)
    BY <2>10, <2>12, <2>13, <2>14, <2>15 DEF Waits, L
  <2> QED BY <2>9, <2>16 DEF u
<1>5. CASE ~(x.InRec # << >> /\ Head(x.InRec) = q[i] /\ q[i].ChSequence = x.InReliable + 1)
  <2>1. Unleash(x, q[i]) = x
    BY <1>5 DEF Unleash
  <2>2. QueueRight(x, s, 1)
    <3> SUFFICES ASSUME ~QueueRight(x, s, 1) PROVE FALSE
      OBVIOUS
    <3>1. /\ Len(x.InRec) = L - (i - 1)
          /\ \A m \in 1 .. L - (i - 1) : x.InRec[m] = q[(i - 1) + m]
      BY <1>1
    <3> DEFINE n == 1
    <3>2. n \in 1 .. L - (i - 1) /\ (i - 1) + n = i
      BY <1>2
    <3>3. x.InRec[n] = q[(i - 1) + n]
      BY <3>1, <3>2
    <3>4. x.InRec[1] = q[i]
      BY <3>2, <3>3
    <3>5. x.InRec # << >> /\ Head(x.InRec) = x.InRec[1]
      BY <1>2, <1>3, <3>1
    <3>6. x.InRec[1].ChSequence # x.InReliable + 1
      BY <1>5, <3>4, <3>5
    <3> QED BY <1>1, <3>6, NoneNext
  <2> HIDE DEF L
  <2>3. Waits(s, y, q, i, x)
    BY <1>1, <2>2 DEF Waits
  <2> QED BY <2>1, <2>3
<1> QED BY <1>4, <1>5

\* The client after the loop.
Waited(s, y, z) ==
  /\ ClientRight(z, s, 1) /\ Grows(y, z) /\ z.bSkipAck = y.bSkipAck
  /\ \A n \in Nat : Has(z, n) => Has(y, n)

\* The loop ends with the next bunch not in the queue.
LEMMA WaitingRight ==
  ASSUME NEW s \in SenderState, NumbersRight(s), NEW y, ClientRight(y, s, 0),
         y.exists \/ y.InRec = << >>
  PROVE  Waited(s, y, DispatchWaiting(y))
<1> DEFINE q == y.InRec
           L == Len(q)
           Step(i, x) == Unleash(x, q[i])
           F == [p \in (1 .. L) \X ReceiverState |-> Step(p[1], p[2])]
           G == {p \in (0 .. L) \X ReceiverState : Waits(s, y, q, p[1], p[2])}
           g == AfterWaiting(y)
<1>1. y \in ReceiverState /\ L \in Nat /\ q \in Seq(Bunch)
  <2>1. y \in ReceiverState
    BY DEF ClientRight
  <2> QED BY <2>1, ReceiverFields
<1>2. Waits(s, y, q, 0, y)
  <2>1. Grows(y, y)
    BY <1>1, GrowsItself
  <2>2. L = L - 0 /\ \A m \in 1 .. L - 0 : 0 + m = m
    BY <1>1
  <2>3. \A m \in 1 .. L - 0 : q[m] = q[0 + m]
    BY <2>2
  <2> QED BY <2>1, <2>2, <2>3 DEF Waits
<1> HIDE DEF q
<1>3. ASSUME NEW i \in 1 .. L, NEW x \in ReceiverState, Waits(s, y, q, i - 1, x)
      PROVE  Step(i, x) \in ReceiverState /\ Waits(s, y, q, i, Step(i, x))
  <2>1. Waits(s, y, q, i, Step(i, x))
    BY <1>1, <1>3, WaitStep
  <2> QED BY <2>1 DEF Waits, ClientRight
<1>4. g = CHOOSE f : f = [i \in 0 .. L |-> IF i = 0 THEN y ELSE Step(i, f[i - 1])]
  BY DEF AfterWaiting, q
<1> HIDE DEF Step, g, L
<1>5. \A i \in 1 .. L : \A x \in ReceiverState : F[<<i, x>>] = Step(i, x)
  OBVIOUS
<1> HIDE DEF F
<1>6. Keeps(L, ReceiverState, F, y, G)
  <2>1. <<0, y>> \in G
    BY <1>1, <1>2
  <2>2. ASSUME NEW i \in 1 .. L, NEW x \in ReceiverState, <<i - 1, x>> \in G
        PROVE  F[<<i, x>>] \in ReceiverState /\ <<i, F[<<i, x>>]>> \in G
    <3>1. Waits(s, y, q, i - 1, x)
      BY <2>2
    <3>2. i \in 0 .. L
      BY <1>1
    <3> QED BY <1>3, <1>5, <3>1, <3>2
  <2> QED BY <1>1, <2>1, <2>2 DEF Keeps
<1> HIDE DEF G
<1>7. PICK f \in [0 .. L -> ReceiverState] :
        f[0] = y /\ \A i \in 1 .. L : f[i] = F[<<i, f[i - 1]>>]
  BY <1>1, <1>6, LoopExists
<1>8. f = [i \in 0 .. L |-> IF i = 0 THEN y ELSE Step(i, f[i - 1])]
  <2>1. ASSUME NEW i \in 0 .. L, i # 0 PROVE f[i] = Step(i, f[i - 1])
    <3>1. i - 1 \in 0 .. L /\ i \in 1 .. L
      BY <1>1, <2>1
    <3> QED BY <1>5, <1>7, <3>1
  <2> QED BY <1>7, <2>1
<1>9. g = [i \in 0 .. L |-> IF i = 0 THEN y ELSE Step(i, g[i - 1])]
  BY <1>4, <1>8
<1>10. Follows(L, ReceiverState, F, y, g)
  <2>1. 0 \in 0 .. L /\ \A i \in 1 .. L : i \in 0 .. L /\ i # 0
    BY <1>1
  <2> QED BY <1>5, <1>9, <2>1 DEF Follows
<1>11. \A i \in 0 .. L : g[i] \in ReceiverState /\ <<i, g[i]>> \in G
  BY <1>1, <1>6, <1>10, LoopKeeps
<1> DEFINE z == g[L]
<1>12. L \in 0 .. L
  BY <1>1
<1>13. Waits(s, y, q, L, z)
  BY <1>11, <1>12 DEF G
<1>14. z = DispatchWaiting(y)
  BY DEF DispatchWaiting, g, L, q
<1> HIDE DEF z
<1>15. ClientRight(z, s, 0) /\ z \in ReceiverState
  BY <1>13 DEF Waits, ClientRight
<1>16. QueueRight(z, s, 1)
  <2>1. QueueRight(z, s, 1) \/ Len(z.InRec) = Len(q) - L
    BY <1>13 DEF Waits
  <2>2. Len(z.InRec) = Len(q) - L => z.InRec = << >>
    <3>1. z.InRec \in Seq(Bunch) /\ Len(q) - L = 0
      BY <1>1, <1>15, ReceiverFields DEF L
    <3> QED BY <3>1
  <2> QED BY <2>1, <2>2, NoneLeft
<1>17. ClientRight(z, s, 1)
  BY <1>15, <1>16 DEF ClientRight
<1> QED BY <1>13, <1>14, <1>17 DEF Waited, Waits

-----------------------------------------------------------------------------
(* A bunch that came too early is kept.                                    *)

\* Where InsertAt leaves what it inserts into.
Inserted(q, b, e, w) ==
  /\ Len(w) = Len(q) + 1 /\ DOMAIN w = 1 .. Len(q) + 1 /\ w[b + 1] = e
  /\ \A m \in 1 .. b : w[m] = q[m]
  /\ \A m \in b + 1 .. Len(q) : w[m + 1] = q[m]

\* What InsertAt does, element by element.
LEMMA InsertedAt ==
  ASSUME NEW S, NEW q \in Seq(S), NEW b \in 0 .. Len(q), NEW e \in S
  PROVE  InsertAt(q, b + 1, e) \in Seq(S) /\ Inserted(q, b, e, InsertAt(q, b + 1, e))
<1> DEFINE L == Len(q)
           a == SubSeq(q, 1, b)
           d == SubSeq(q, b + 1, L)
           w == a \o <<e>> \o d
<1>1. L \in Nat /\ b \in Nat /\ b <= L
  OBVIOUS
<1>2. /\ a \in Seq(S) /\ Len(a) = b /\ \A m \in 1 .. b : a[m] = q[m]
  OBVIOUS
<1>3. /\ d \in Seq(S) /\ Len(d) = L - b /\ \A m \in 1 .. L - b : d[m] = q[b + m]
  <2> HIDE DEF a, w
  <2> QED BY <1>1
<1>4. InsertAt(q, b + 1, e) = w
  <2>1. (b + 1) - 1 = b
    BY <1>1
  <2> QED BY <2>1 DEF InsertAt
<1>5. <<e>> \in Seq(S) /\ Len(<<e>>) = 1 /\ <<e>>[1] = e
  OBVIOUS
<1> DEFINE one == <<e>>
           ae == a \o one
<1> HIDE DEF a, d, one
<1>6. /\ ae \in Seq(S) /\ Len(ae) = b + 1 /\ ae[b + 1] = e
      /\ \A m \in 1 .. b : ae[m] = a[m]
  <2>1. one \in Seq(S) /\ Len(one) = 1 /\ one[1] = e
    BY <1>5 DEF one
  <2>2. a \in Seq(S) /\ Len(a) = b /\ b \in Nat
    BY <1>1, <1>2
  <2>3. ae \in Seq(S) /\ Len(ae) = b + 1
    <3>1. ae \in Seq(S) /\ Len(ae) = Len(a) + Len(one)
      BY <2>1, <2>2, ConcatProperties
    <3> HIDE DEF ae
    <3> QED BY <2>1, <2>2, <3>1
  <2>4. \A m \in 1 .. b + 1 : ae[m] = IF m <= b THEN a[m] ELSE one[m - b]
    <3>1. \A m \in 1 .. Len(a) + Len(one) :
            (a \o one)[m] = IF m <= Len(a) THEN a[m] ELSE one[m - Len(a)]
      BY <2>1, <2>2, ConcatProperties
    <3>2. \A m \in 1 .. Len(a) + Len(one) :
            ae[m] = IF m <= Len(a) THEN a[m] ELSE one[m - Len(a)]
      BY <3>1
    <3> HIDE DEF ae
    <3> QED BY <2>1, <2>2, <3>2
  <2> HIDE DEF ae
  <2>5. ae[b + 1] = e
    <3>1. b + 1 \in 1 .. b + 1 /\ ~(b + 1 <= b) /\ (b + 1) - b = 1
      BY <2>2
    <3> QED BY <2>1, <2>4, <3>1
  <2>6. \A m \in 1 .. b : m \in 1 .. b + 1 /\ m <= b
    BY <2>2
  <2> QED BY <2>3, <2>4, <2>5, <2>6
<1>7. w = ae \o d
  BY DEF one
<1> HIDE DEF ae, w, L
<1>8. /\ w \in Seq(S) /\ Len(w) = L + 1 /\ DOMAIN w = 1 .. L + 1
      /\ \A m \in 1 .. b + 1 : w[m] = ae[m]
      /\ \A m \in 1 .. L - b : w[b + 1 + m] = d[m]
  <2>1. /\ ae \in Seq(S) /\ d \in Seq(S) /\ Len(ae) = b + 1 /\ Len(d) = L - b
        /\ L \in Nat /\ b \in Nat /\ b <= L
    BY <1>1, <1>3, <1>6
  <2>2. /\ w \in Seq(S) /\ Len(w) = Len(ae) + Len(d)
        /\ \A m \in 1 .. Len(ae) + Len(d) :
             w[m] = IF m <= Len(ae) THEN ae[m] ELSE d[m - Len(ae)]
    BY <1>7, <2>1, ConcatProperties
  <2>3. Len(ae) + Len(d) = L + 1
    BY <2>1
  <2>4. w \in Seq(S) /\ Len(w) = L + 1
    BY <2>2, <2>3
  <2>5. DOMAIN w = 1 .. L + 1
    BY <2>4
  <2>6. \A m \in 1 .. L + 1 : w[m] = IF m <= b + 1 THEN ae[m] ELSE d[m - (b + 1)]
    BY <2>1, <2>2, <2>3
  <2>7. \A m \in 1 .. b + 1 : w[m] = ae[m]
    <3>1. \A m \in 1 .. b + 1 : m \in 1 .. L + 1 /\ m <= b + 1
      BY <2>1
    <3> QED BY <2>6, <3>1
  <2>8. \A m \in 1 .. L - b : w[b + 1 + m] = d[m]
    <3>1. \A m \in 1 .. L - b : /\ b + 1 + m \in 1 .. L + 1 /\ ~(b + 1 + m <= b + 1)
                               /\ (b + 1 + m) - (b + 1) = m
      BY <2>1
    <3> QED BY <2>6, <3>1
  <2> QED BY <2>4, <2>5, <2>7, <2>8
<1>9. \A m \in b + 1 .. L : w[m + 1] = q[m]
  <2> TAKE m \in b + 1 .. L
  <2> DEFINE r == m - b
  <2>1. r \in 1 .. L - b /\ b + 1 + r = m + 1 /\ b + r = m
    BY <1>1
  <2> HIDE DEF r
  <2>2. w[b + 1 + r] = d[r] /\ d[r] = q[b + r]
    BY <1>3, <1>8, <2>1
  <2> QED BY <2>1, <2>2
<1>10. w[b + 1] = e /\ \A m \in 1 .. b : w[m] = q[m]
  <2>1. b + 1 \in 1 .. b + 1 /\ \A m \in 1 .. b : m \in 1 .. b + 1
    BY <1>1
  <2> QED BY <1>2, <1>6, <1>8, <2>1
<1> QED BY <1>4, <1>8, <1>9, <1>10 DEF Inserted, L

\* The place of a number in the queue.
Place(q, n, b) ==
  /\ b \in 0 .. Len(q)
  /\ \A i \in 1 .. b : q[i].ChSequence < n
  /\ \A i \in b + 1 .. Len(q) : q[i].ChSequence >= n

Spaced(q) == \A i, j \in 1 .. Len(q) :
  i <= j => q[j].ChSequence - q[i].ChSequence >= j - i

\* Where a number belongs in an ordered queue.
LEMMA PlaceOf ==
  ASSUME NEW q \in Seq(Bunch), Spaced(q), NEW n \in Nat
  PROVE  Place(q, n, Cardinality({i \in DOMAIN q : q[i].ChSequence < n}))
<1> DEFINE L == Len(q)
           before == {i \in DOMAIN q : q[i].ChSequence < n}
           P == {i \in 1 .. L : q[i].ChSequence < n}
           S == {m \in 1 .. L : \A i \in 1 .. m : i \in P}
           b == Cardinality(S)
<1>1. L \in Nat /\ DOMAIN q = 1 .. L
  OBVIOUS
<1>2. \A i \in 1 .. L : q[i].ChSequence \in Nat
  BY BunchFields
<1>3. \A i, j \in 1 .. L : i <= j => q[i].ChSequence <= q[j].ChSequence
  <2> TAKE i, j \in 1 .. L
  <2> HAVE i <= j
  <2>1. q[j].ChSequence - q[i].ChSequence >= j - i
    BY DEF Spaced
  <2>2. q[j].ChSequence \in Nat /\ q[i].ChSequence \in Nat
    BY <1>2
  <2>3. i \in Nat /\ j \in Nat
    BY <1>1
  <2> QED BY <2>1, <2>2, <2>3
<1>4. /\ b \in 0 .. L /\ \A i \in 1 .. b : i \in P
      /\ b # L => b + 1 \notin P
  <2> HIDE DEF P, L
  <2> QED BY <1>1, Beginning
<1>5. before = S
  <2>1. ASSUME NEW m \in before PROVE m \in S
    <3>1. m \in 1 .. L /\ q[m].ChSequence < n
      BY <1>1
    <3>2. ASSUME NEW i \in 1 .. m PROVE i \in P
      <4>1. i \in 1 .. L /\ i <= m
        BY <1>1, <3>1
      <4> QED BY <1>2, <1>3, <3>1, <4>1
    <3> QED BY <3>1, <3>2
  <2>2. ASSUME NEW m \in S PROVE m \in before
    <3>1. m \in 1 .. m
      BY <1>1
    <3> QED BY <1>1, <3>1
  <2> HIDE DEF before, S
  <2> QED BY <2>1, <2>2
<1> HIDE DEF b, S, before
<1>6. \A i \in 1 .. b : q[i].ChSequence < n
  BY <1>4
<1>7. \A i \in b + 1 .. L : q[i].ChSequence >= n
  <2> TAKE i \in b + 1 .. L
  <2>1. b + 1 \in 1 .. L /\ b + 1 <= i /\ b # L /\ i \in 1 .. L
    <3>1. b \in 0 .. L
      BY <1>4
    <3> HIDE DEF L
    <3> QED BY <1>1, <3>1
  <2>2. ~(q[b + 1].ChSequence < n)
    BY <1>4, <2>1
  <2>3. q[b + 1].ChSequence <= q[i].ChSequence
    BY <1>3, <2>1
  <2> QED BY <1>2, <2>1, <2>2, <2>3
<1>8. Place(q, n, b)
  BY <1>4, <1>6, <1>7 DEF Place
<1> QED BY <1>5, <1>8 DEF b, before

\* A queue in order stays in order when a bunch is put in its place.
LEMMA StillSpaced ==
  ASSUME NEW q \in Seq(Bunch), Spaced(q), NEW e \in Bunch, NEW b, Place(q, e.ChSequence, b),
         \A i \in DOMAIN q : q[i].ChSequence # e.ChSequence, NEW w, Inserted(q, b, e, w)
  PROVE  Spaced(w)
<1> DEFINE L == Len(q)
           n == e.ChSequence
<1>1. L \in Nat /\ DOMAIN q = 1 .. L /\ n \in Nat /\ b \in 0 .. L
  BY BunchFields DEF Place
<1>2. \A i \in 1 .. L : q[i].ChSequence \in Nat
  BY BunchFields
<1>3. /\ Len(w) = L + 1 /\ w[b + 1].ChSequence = n
      /\ \A m \in 1 .. b : w[m].ChSequence = q[m].ChSequence
      /\ \A m \in b + 1 .. L : w[m + 1].ChSequence = q[m].ChSequence
  BY DEF Inserted
<1>4. \A i, j \in 1 .. L : i <= j => q[j].ChSequence - q[i].ChSequence >= j - i
  BY DEF Spaced
<1>5. ASSUME NEW i \in 1 .. b PROVE n - q[i].ChSequence >= b + 1 - i
  <2>1. b \in 1 .. L /\ i \in 1 .. L /\ i <= b /\ b \in 1 .. b
    BY <1>1
  <2>2. q[b].ChSequence - q[i].ChSequence >= b - i
    BY <1>4, <2>1
  <2>3. q[b].ChSequence < n
    BY <2>1 DEF Place
  <2> HIDE DEF n, L
  <2>4. q[b].ChSequence \in Nat /\ q[i].ChSequence \in Nat
    BY <1>2, <2>1
  <2> QED BY <1>1, <2>1, <2>2, <2>3, <2>4
<1>6. ASSUME NEW j \in b + 1 .. L PROVE q[j].ChSequence - n >= j - b
  <2>1. b + 1 \in 1 .. L /\ j \in 1 .. L /\ b + 1 <= j /\ b + 1 \in b + 1 .. L
    BY <1>1
  <2>2. q[j].ChSequence - q[b + 1].ChSequence >= j - (b + 1)
    BY <1>4, <2>1
  <2>3. q[b + 1].ChSequence >= n /\ q[b + 1].ChSequence # n
    BY <1>1, <2>1 DEF Place
  <2> HIDE DEF n, L
  <2>4. q[b + 1].ChSequence \in Nat /\ q[j].ChSequence \in Nat
    BY <1>2, <2>1
  <2> QED BY <1>1, <2>1, <2>2, <2>3, <2>4
<1> HIDE DEF n, L
<1>7. ASSUME NEW i \in 1 .. L + 1, NEW j \in 1 .. L + 1, i <= j
      PROVE  w[j].ChSequence - w[i].ChSequence >= j - i
  <2>1. b \in Nat /\ i \in Nat /\ j \in Nat
    BY <1>1
  <2>2. CASE j <= b
    <3>1. i \in 1 .. b /\ j \in 1 .. b /\ i \in 1 .. L /\ j \in 1 .. L
      BY <1>1, <1>7, <2>1, <2>2
    <3> QED BY <1>3, <1>4, <1>7, <3>1
  <2>3. CASE j = b + 1
    <3>1. CASE i = b + 1
      BY <1>1, <1>3, <2>1, <2>3, <3>1
    <3>2. CASE i # b + 1
      <4>1. i \in 1 .. b
        BY <1>1, <1>7, <2>1, <2>3, <3>2
      <4>2. w[i].ChSequence = q[i].ChSequence /\ w[j].ChSequence = n
        BY <1>3, <2>3, <4>1
      <4>3. n - q[i].ChSequence >= b + 1 - i
        BY <1>5, <4>1
      <4> QED BY <2>1, <2>3, <4>2, <4>3
    <3> QED BY <3>1, <3>2
  <2>4. CASE j > b + 1
    <3>1. PICK m \in b + 1 .. L : j = m + 1
      <4>1. j - 1 \in b + 1 .. L /\ j = (j - 1) + 1
        BY <1>1, <2>1, <2>4
      <4> QED BY <4>1
    <3>2. w[j].ChSequence = q[m].ChSequence /\ m \in 1 .. L /\ m \in Nat
          /\ q[m].ChSequence \in Nat
      BY <1>1, <1>2, <1>3, <3>1
    <3>3. q[m].ChSequence - n >= m - b
      BY <1>6
    <3>4. CASE i = b + 1
      BY <1>1, <1>3, <2>1, <3>1, <3>2, <3>3, <3>4
    <3>5. CASE i <= b
      <4>1. i \in 1 .. b /\ i \in 1 .. L /\ q[i].ChSequence \in Nat
        BY <1>1, <1>2, <3>5
      <4>2. w[i].ChSequence = q[i].ChSequence /\ n - q[i].ChSequence >= b + 1 - i
        BY <1>3, <1>5, <4>1
      <4> QED BY <1>1, <2>1, <3>1, <3>2, <3>3, <4>1, <4>2
    <3>6. CASE i > b + 1
      <4>1. PICK h \in b + 1 .. L : i = h + 1
        <5>1. i - 1 \in b + 1 .. L /\ i = (i - 1) + 1
          BY <1>1, <2>1, <3>6
        <5> QED BY <5>1
      <4>2. w[i].ChSequence = q[h].ChSequence /\ h \in 1 .. L /\ h \in Nat /\ h <= m
        BY <1>1, <1>3, <1>7, <3>1, <3>2, <4>1
      <4>3. q[m].ChSequence - q[h].ChSequence >= m - h
        BY <1>4, <3>2, <4>2
      <4>4. m - h = j - i
        BY <3>1, <3>2, <4>1, <4>2
      <4> QED BY <3>2, <4>2, <4>3, <4>4
    <3>7. i = b + 1 \/ i <= b \/ i > b + 1
      BY <2>1
    <3> QED BY <3>4, <3>5, <3>6, <3>7
  <2>5. j <= b \/ j = b + 1 \/ j > b + 1
    BY <2>1
  <2> QED BY <2>2, <2>3, <2>4, <2>5
<1> QED BY <1>3, <1>7 DEF Spaced

\* HasRoom, for any sender.
Room(s) == Len(s.OutRec) < RELIABLE_BUFFER

\* What a bunch may do to the client: n is the number of a reliable one.
Dealt(s, c, y, n) == ClientRight(y, s, 1) /\ Grows(c, y) /\ Learns(c, y, n)

Early(c, s, n) == n \in InNumber(c) + 1 + 1 .. Count(s)

\* Queueing changes nothing but the queue.
LEMMA QueueField ==
  ASSUME NEW c \in ReceiverState, NEW w \in Seq(Bunch)
  PROVE  LET y == [c EXCEPT !.InRec = w]
         IN  /\ y \in ReceiverState /\ y.InRec = w /\ y.exists = c.exists
             /\ y.OpenAcked = c.OpenAcked /\ y.InPartialBunch = c.InPartialBunch
             /\ y.InReliable = c.InReliable /\ y.bSkipAck = c.bSkipAck /\ y.errors = c.errors
             /\ y.received = c.received /\ y.stream = c.stream /\ InNumber(y) = InNumber(c)
BY DEF ReceiverState, InNumber

\* The queue is no longer than what it has of the reliable buffer.
LEMMA QueueIsShort ==
  ASSUME NEW s \in SenderState, NumbersRight(s), Room(s), NEW c, Receiving(c, s, 1),
         NEW w \in Seq(Bunch), w # << >>, Spaced(w),
         \A m \in 1 .. Len(w) : \E n \in InNumber(c) + 1 + 1 .. Count(s) :
            w[m].ChSequence = InitReliable + n
  PROVE  Len(w) < RELIABLE_BUFFER
<1> DEFINE L == Len(w)
           k == InNumber(c)
           C == Count(s)
<1>1. L \in Nat /\ 1 \in 1 .. L /\ L \in 1 .. L /\ 1 <= L
  OBVIOUS
<1>2. w[L].ChSequence - w[1].ChSequence >= L - 1
  BY <1>1 DEF Spaced
<1>3. PICK a \in k + 1 + 1 .. C : w[1].ChSequence = InitReliable + a
  BY <1>1
<1>4. PICK b \in k + 1 + 1 .. C : w[L].ChSequence = InitReliable + b
  BY <1>1
<1>5. C \in Nat /\ k \in 0 .. C /\ Released(s) <= k /\ InitReliable \in Nat
      /\ Released(s) = C - Len(s.OutRec) /\ Len(s.OutRec) \in Nat
      /\ RELIABLE_BUFFER \in Nat /\ Len(s.OutRec) < RELIABLE_BUFFER
  BY ReceivingCounts, SenderLengths, Constants DEF Released, Room
<1> HIDE DEF L, k, C
<1>6. L <= C - k - 1
  BY <1>1, <1>2, <1>3, <1>4, <1>5
<1> QED BY <1>1, <1>5, <1>6 DEF L

\* Queueing loses nothing.
LEMMA QueueGrows ==
  ASSUME NEW s \in SenderState, NumbersRight(s), Room(s), NEW c, Receiving(c, s, 1),
         NEW n, Early(c, s, n), NEW bunch, bunch = Numbered(s, n),
         \A i \in DOMAIN c.InRec : c.InRec[i].ChSequence # bunch.ChSequence,
         NEW b, Place(c.InRec, bunch.ChSequence, b),
         NEW w \in Seq(Bunch), Inserted(c.InRec, b, bunch, w),
         NEW y, y = [c EXCEPT !.InRec = w]
  PROVE  /\ Dealt(s, c, y, n) /\ Has(y, n) /\ Len(w) < RELIABLE_BUFFER
<1> DEFINE q == c.InRec
           L == Len(q)
           k == InNumber(c)
           C == Count(s)
<1>1. /\ c \in ReceiverState /\ C \in Nat /\ k \in 0 .. C /\ Released(s) <= k
      /\ InitReliable \in Nat /\ q \in Seq(Bunch) /\ L \in Nat /\ DOMAIN q = 1 .. L
  BY ReceivingCounts, ReceiverFields, Constants
<1>2. n \in k + 1 + 1 .. C /\ n \in 1 .. C /\ n \in Nat
  BY <1>1 DEF Early
<1>3. bunch \in Bunch /\ bunch.ChSequence = InitReliable + n
  <2>1. NumberRight(s, n)
    BY <1>2 DEF NumbersRight
  <2> QED BY <1>2, <2>1, NumberedFields DEF NumberRight
<1>4. /\ y \in ReceiverState /\ y.InRec = w /\ y.exists = c.exists
      /\ y.OpenAcked = c.OpenAcked /\ y.InPartialBunch = c.InPartialBunch
      /\ y.InReliable = c.InReliable /\ y.bSkipAck = c.bSkipAck /\ y.errors = c.errors
      /\ y.received = c.received /\ y.stream = c.stream /\ InNumber(y) = k
  BY <1>1, QueueField
<1>5. /\ Len(w) = L + 1 /\ DOMAIN w = 1 .. L + 1 /\ w[b + 1] = bunch /\ b \in 0 .. L
      /\ \A m \in 1 .. b : w[m] = q[m]
      /\ \A m \in b + 1 .. L : w[m + 1] = q[m]
  BY DEF Inserted, Place
<1>6. Spaced(q)
  BY <1>1 DEF Receiving, QueueRight, Spaced
<1>7. Spaced(w)
  <2>1. \A i \in DOMAIN q : q[i].ChSequence # bunch.ChSequence
    OBVIOUS
  <2> HIDE DEF q
  <2> QED BY <1>1, <1>3, <1>6, <2>1, StillSpaced DEF q
<1>8. \A i \in 1 .. L : \E m \in k + 1 + 1 .. C : q[i] = Numbered(s, m)
  BY <1>1 DEF Receiving, QueueRight
<1>9. ASSUME NEW i \in 1 .. L + 1
      PROVE  \/ i = b + 1 /\ w[i] = bunch
             \/ \E j \in 1 .. L : w[i] = q[j]
  <2>1. b \in Nat /\ i \in Nat
    BY <1>1, <1>5
  <2> HIDE DEF L, q
  <2>2. CASE i <= b
    <3>1. i \in 1 .. b /\ i \in 1 .. L
      BY <1>1, <1>5, <2>1, <2>2
    <3> QED BY <1>5, <3>1
  <2>3. CASE i > b + 1
    <3>1. PICK j \in b + 1 .. L : i = j + 1
      <4>1. i - 1 \in b + 1 .. L /\ i = (i - 1) + 1
        BY <1>1, <2>1, <2>3
      <4> QED BY <4>1
    <3>2. j \in 1 .. L
      BY <1>1, <2>1, <3>1
    <3> QED BY <1>5, <3>1, <3>2
  <2>4. i <= b \/ i = b + 1 \/ i > b + 1
    BY <2>1
  <2> QED BY <1>5, <2>2, <2>3, <2>4
<1>10. \A i \in 1 .. L + 1 : \E m \in k + 1 + 1 .. C : w[i] = Numbered(s, m)
  BY <1>2, <1>8, <1>9
<1>11. \A i \in 1 .. L : \E j \in 1 .. L + 1 : w[j] = q[i]
  <2> TAKE i \in 1 .. L
  <2> HIDE DEF L, q
  <2>1. b \in Nat /\ i \in Nat /\ (i \in 1 .. b \/ i \in b + 1 .. L)
        /\ i \in 1 .. L + 1 /\ i + 1 \in 1 .. L + 1
    BY <1>1, <1>5
  <2> QED BY <1>5, <2>1
<1>12. b + 1 \in 1 .. L + 1
  <2> HIDE DEF L
  <2> QED BY <1>1, <1>5
<1>13. QueueRight(y, s, 1)
  <2>1. \A i, j \in DOMAIN y.InRec :
          i <= j => y.InRec[j].ChSequence - y.InRec[i].ChSequence >= j - i
    BY <1>4, <1>5, <1>7 DEF Spaced
  <2>2. \A i \in DOMAIN y.InRec :
          \E m \in InNumber(y) + 1 + 1 .. Count(s) : y.InRec[i] = Numbered(s, m)
    BY <1>4, <1>5, <1>10
  <2> QED BY <2>1, <2>2 DEF QueueRight
<1>14. Len(w) < RELIABLE_BUFFER
  <2>1. ASSUME NEW i \in 1 .. Len(w)
        PROVE  \E m \in k + 1 + 1 .. C : w[i].ChSequence = InitReliable + m
    <3>1. PICK m \in k + 1 + 1 .. C : w[i] = Numbered(s, m)
      BY <1>5, <1>10
    <3>2. m \in 1 .. C
      BY <1>1
    <3>3. NumberRight(s, m)
      BY <3>2 DEF NumbersRight
    <3> QED BY <3>1, <3>3 DEF NumberRight
  <2>2. w # << >>
    BY <1>5, <1>12
  <2> QED BY <1>7, <2>1, <2>2, QueueIsShort
<1> HIDE DEF L, k, C, q
<1>15. w # << >>
  BY <1>5, <1>12
<1>16. ClientRight(y, s, 1)
  <2>1. PartialRight(y, s)
    BY <1>4 DEF Receiving, PartialRight, k
  <2>2. Receiving(y, s, 1)
    BY <1>4, <1>13, <2>1 DEF Receiving, k
  <2> QED BY <1>4, <1>15, <2>2, ClientParts DEF InUse
<1>17. Grows(c, y)
  <2>1. Grows(c, c)
    BY <1>1, GrowsItself
  <2>2. \A i \in DOMAIN c.InRec :
          \E j \in DOMAIN y.InRec : y.InRec[j].ChSequence = c.InRec[i].ChSequence
    <3> TAKE i \in DOMAIN c.InRec
    <3>1. i \in 1 .. L
      BY <1>1 DEF q
    <3>2. PICK j \in 1 .. L + 1 : w[j] = q[i]
      BY <1>11, <3>1
    <3> QED BY <1>4, <1>5, <3>2 DEF q
  <2> QED BY <1>4, <2>1, <2>2 DEF Grows
<1>18. Has(y, n)
  BY <1>3, <1>4, <1>5, <1>12 DEF Has
<1>19. Learns(c, y, n)
  <2>1. ASSUME NEW m \in Nat, Has(y, m), m # n PROVE Has(c, m)
    <3>1. CASE m <= InNumber(y)
      BY <1>4, <3>1 DEF Has, k
    <3>2. CASE \E i \in DOMAIN y.InRec : y.InRec[i].ChSequence = InitReliable + m
      <4>1. PICK i \in 1 .. L + 1 : w[i].ChSequence = InitReliable + m
        BY <1>4, <1>5, <3>2
      <4>2. w[i] # bunch
        BY <1>1, <1>2, <1>3, <2>1, <4>1
      <4>3. PICK j \in 1 .. L : w[i] = q[j]
        BY <1>9, <4>2
      <4> QED BY <1>1, <4>1, <4>3 DEF Has, q
    <3> QED BY <2>1, <3>1, <3>2 DEF Has
  <2> QED BY <2>1 DEF Learns
<1> QED BY <1>14, <1>16, <1>17, <1>18, <1>19 DEF Dealt

\* A bunch that came too early is queued where it belongs.
LEMMA QueueIsRight ==
  ASSUME NEW s \in SenderState, NumbersRight(s), Room(s), NEW c, Receiving(c, s, 1),
         NEW n, Early(c, s, n), NEW bunch, bunch = Numbered(s, n)
  PROVE  Dealt(s, c, Queue(c, bunch), n) /\ Has(Queue(c, bunch), n)
<1>1. /\ c \in ReceiverState /\ Count(s) \in Nat /\ InNumber(c) \in 0 .. Count(s)
      /\ c.InRec \in Seq(Bunch) /\ DOMAIN c.InRec = 1 .. Len(c.InRec) /\ InitReliable \in Nat
  BY ReceivingCounts, ReceiverFields, Constants
<1>2. n \in 1 .. Count(s) /\ n \in Nat
  BY <1>1 DEF Early
<1>3. bunch \in Bunch /\ bunch.ChSequence = InitReliable + n /\ bunch.ChSequence \in Nat
  <2>1. NumberRight(s, n)
    BY <1>2 DEF NumbersRight
  <2> QED BY <1>2, <2>1, NumberedFields, BunchFields DEF NumberRight
<1>4. CASE \E i \in DOMAIN c.InRec : c.InRec[i].ChSequence = bunch.ChSequence
  <2>1. Queue(c, bunch) = c
    BY <1>4 DEF Queue
  <2>2. Has(c, n)
    BY <1>3, <1>4 DEF Has
  <2>3. c.InRec # << >>
    BY <1>4
  <2>4. ClientRight(c, s, 1)
    BY <2>3, ClientParts DEF InUse
  <2>5. Grows(c, c) /\ Learns(c, c, n)
    BY <1>1, GrowsItself DEF Learns
  <2> QED BY <2>1, <2>2, <2>4, <2>5 DEF Dealt
<1>5. CASE ~\E i \in DOMAIN c.InRec : c.InRec[i].ChSequence = bunch.ChSequence
  <2> DEFINE b == Cardinality({i \in DOMAIN c.InRec : c.InRec[i].ChSequence < bunch.ChSequence})
             w == InsertAt(c.InRec, b + 1, bunch)
             y == [c EXCEPT !.InRec = w]
  <2>1. Place(c.InRec, bunch.ChSequence, b)
    <3>1. Spaced(c.InRec)
      BY <1>1 DEF Receiving, QueueRight, Spaced
    <3> HIDE DEF b
    <3> QED BY <1>1, <1>3, <3>1, PlaceOf DEF b
  <2> HIDE DEF b
  <2>2. w \in Seq(Bunch) /\ Inserted(c.InRec, b, bunch, w)
    <3>1. b \in 0 .. Len(c.InRec)
      BY <2>1 DEF Place
    <3> QED BY <1>1, <1>3, <3>1, InsertedAt
  <2>3. [c EXCEPT !.InRec = InsertAt(@, b + 1, bunch)] = y
    OBVIOUS
  <2>4. Queue(c, bunch) = IF Len(y.InRec) >= RELIABLE_BUFFER THEN Error(y, "MaxReliableExceeded")
                                                            ELSE y
    BY <1>5, <2>3 DEF Queue, b
  <2>5. y.InRec = w
    BY <1>1 DEF ReceiverState
  <2> HIDE DEF y, w
  <2>6. /\ Dealt(s, c, y, n) /\ Has(y, n) /\ Len(w) < RELIABLE_BUFFER
    <3>1. \A i \in DOMAIN c.InRec : c.InRec[i].ChSequence # bunch.ChSequence
      BY <1>5
    <3>2. y = [c EXCEPT !.InRec = w]
      BY DEF y
    <3> QED BY <2>1, <2>2, <3>1, <3>2, QueueGrows
  <2>7. ~(Len(y.InRec) >= RELIABLE_BUFFER)
    <3>1. Len(w) \in Nat /\ RELIABLE_BUFFER \in Nat
      BY <2>2, Constants
    <3> QED BY <2>5, <2>6, <3>1
  <2> QED BY <2>4, <2>6, <2>7
<1> QED BY <1>4, <1>5

-----------------------------------------------------------------------------
(* A bunch of a packet                                                     *)

\* Without the next bunch in the queue the gap is there.
LEMMA GapClosed ==
  ASSUME NEW c, NEW s \in SenderState, NumbersRight(s), ClientRight(c, s, 1)
  PROVE  ClientRight(c, s, 0)
<1>1. \A n : n \in InNumber(c) + 1 + 1 .. Count(s) => n \in InNumber(c) + 1 + 0 .. Count(s)
  <2> DEFINE gap == 1
  <2>1. gap \in {0, 1} /\ ClientRight(c, s, gap)
    OBVIOUS
  <2> HIDE DEF gap
  <2>2. InNumber(c) \in 0 .. Count(s) /\ Count(s) \in Nat
    BY <2>1, ClientCounts
  <2> QED BY <2>2
<1>2. QueueRight(c, s, 1)
  BY DEF ClientRight
<1>3. QueueRight(c, s, 0)
  BY <1>1, <1>2 DEF QueueRight
<1> QED BY <1>3 DEF ClientRight

\* What the loop over the waiting bunches does comes after what y did.
LEMMA WaitedAfter ==
  ASSUME NEW s, NEW c \in ReceiverState, NEW y \in ReceiverState, NEW n, Grows(c, y),
         Learns(c, y, n), NEW z, Waited(s, y, z)
  PROVE  Dealt(s, c, z, n)
<1>1. z \in ReceiverState /\ Grows(y, z) /\ ClientRight(z, s, 1)
  BY DEF Waited, ClientRight
<1>2. Grows(c, z)
  BY <1>1, GrowsTransitive
<1>3. Learns(c, z, n)
  BY DEF Learns, Waited
<1> QED BY <1>1, <1>2, <1>3 DEF Dealt

\* A channel that is created if there is none.
Created(c) == [c EXCEPT !.exists = TRUE]

\* The client's channel may be created for a bunch that may open it.
LEMMA CreatedRight ==
  ASSUME NEW s, NEW c, ClientRight(c, s, 1)
  PROVE  LET x == Created(c)
         IN  /\ Receiving(x, s, 1) /\ x.exists /\ Grows(c, x) /\ Learns(c, x, 0)
             /\ InNumber(x) = InNumber(c) /\ x.bSkipAck = c.bSkipAck
             /\ c \in ReceiverState /\ x \in ReceiverState /\ (c.exists => x = c)
<1> DEFINE x == Created(c)
<1>1. c \in ReceiverState
  BY DEF ClientRight
<1>2. /\ x \in ReceiverState /\ x.InRec = c.InRec /\ x.exists
      /\ x.OpenAcked = c.OpenAcked /\ x.InPartialBunch = c.InPartialBunch
      /\ x.InReliable = c.InReliable /\ x.bSkipAck = c.bSkipAck /\ x.errors = c.errors
      /\ x.received = c.received /\ x.stream = c.stream
  BY <1>1 DEF ReceiverState, Created
<1>3. c.exists => x = c
  BY <1>1 DEF ReceiverState, Created
<1> HIDE DEF x
<1>4. InNumber(x) = InNumber(c)
  BY <1>2 DEF InNumber
<1>5. Receiving(x, s, 1)
  <2>1. QueueRight(x, s, 1) /\ PartialRight(x, s)
    BY <1>2, <1>4 DEF ClientRight, QueueRight, PartialRight
  <2> QED BY <1>2, <1>4, <2>1 DEF ClientRight, Receiving
<1>6. Grows(c, x)
  <2>1. Grows(c, c)
    BY <1>1, GrowsItself
  <2> QED BY <1>2, <2>1 DEF Grows
<1>7. Learns(c, x, 0)
  BY <1>2, <1>4 DEF Learns, Has
<1> QED BY <1>1, <1>2, <1>3, <1>4, <1>5, <1>6, <1>7 DEF x

\* A reliable bunch that the client is not past.
Ahead(c, s, n) == n \in InNumber(c) + 1 .. Count(s)

\* Handling the next bunch teaches the client nothing but that bunch.
LEMMA NextLearns ==
  ASSUME NEW s \in SenderState, NumbersRight(s), NEW x, Receiving(x, s, 1), NEW y,
         NextDone(s, x, y), NEW n, n = InNumber(x) + 1
  PROVE  Learns(x, y, n) /\ Has(y, n) /\ y \in ReceiverState /\ Grows(x, y)
<1>1. InNumber(x) \in Nat
  <2>1. InNumber(x) \in 0 .. Count(s) /\ Count(s) \in Nat
    BY ReceivingCounts
  <2> QED BY <2>1
<1>2. /\ InNumber(y) = n /\ (y.InRec = << >> \/ y.InRec = x.InRec)
      /\ y \in ReceiverState /\ Grows(x, y)
  BY DEF NextDone, Receiving
<1>3. Has(y, n)
  <2>1. n \in Nat
    BY <1>1
  <2> HIDE DEF Has
  <2>2. n <= InNumber(y)
    BY <1>2, <2>1
  <2> QED BY <2>2 DEF Has
<1>4. ASSUME NEW m \in Nat, Has(y, m), m # n PROVE Has(x, m)
  <2>1. CASE m <= InNumber(y)
    <3>1. m <= InNumber(x)
      BY <1>1, <1>2, <1>4, <2>1
    <3> QED BY <3>1 DEF Has
  <2>2. CASE \E i \in DOMAIN y.InRec : y.InRec[i].ChSequence = InitReliable + m
    <3>1. y.InRec = x.InRec
      BY <1>2, <2>2
    <3> QED BY <2>2, <3>1 DEF Has
  <2> QED BY <1>4, <2>1, <2>2 DEF Has
<1>5. Learns(x, y, n)
  BY <1>4 DEF Learns
<1> QED BY <1>2, <1>3, <1>5

\* ReceivedRawBunch of a reliable bunch, next or early, is right.
LEMMA ReliableRight ==
  ASSUME NEW s \in SenderState, NumbersRight(s), Room(s), NEW c, ClientRight(c, s, 1),
         NEW n \in Nat, Ahead(c, s, n), NEW bunch, bunch = Numbered(s, n)
  PROVE  LET y == ReceivedRawBunch(Created(c), bunch)
         IN  Dealt(s, c, y, n) /\ Has(y, n)
<1> DEFINE x == Created(c)
           y == ReceivedRawBunch(x, bunch)
           next == ReceivedNextBunch(x, bunch)
           k == InNumber(x)
<1>1. /\ Receiving(x, s, 1) /\ x.exists /\ Grows(c, x) /\ Learns(c, x, 0)
      /\ k = InNumber(c) /\ c \in ReceiverState /\ x \in ReceiverState
  BY CreatedRight
<1> HIDE DEF x
<1>2. /\ Count(s) \in Nat /\ k \in 0 .. Count(s) /\ Released(s) <= k
      /\ x.InReliable = InitReliable + k /\ InitReliable \in Nat
  BY <1>1, ReceivingCounts, Constants
<1>3. n \in k + 1 .. Count(s) /\ n \in 1 .. Count(s)
  BY <1>1, <1>2 DEF Ahead
<1>4. bunch.bReliable /\ bunch.ChSequence = InitReliable + n
  <2>1. NumberRight(s, n)
    BY <1>3 DEF NumbersRight
  <2> QED BY <2>1 DEF NumberRight
<1>5. ASSUME NEW m \in Nat, Has(x, m) PROVE Has(c, m)
  <2>1. Has(c, m) \/ m = 0
    BY <1>1, <1>5 DEF Learns
  <2>2. 0 <= InNumber(c)
    BY <1>1, <1>2
  <2> QED BY <2>1, <2>2 DEF Has
<1>6. CASE n = k + 1
  <2>1. y = IF next.exists /\ next.errors = x.errors THEN DispatchWaiting(next) ELSE next
    BY <1>2, <1>4, <1>6 DEF ReceivedRawBunch
  <2> HIDE DEF y
  <2>2. k \in Nat /\ k < Count(s)
    BY <1>2, <1>3, <1>6
  <2>3. NextIs(s, k, bunch)
    <3>1. NextIs(s, k, Numbered(s, k + 1))
      <4> HIDE DEF k
      <4> QED BY <1>2, <2>2, NextNumber
    <3> QED BY <1>6, <3>1
  <2>4. NextDone(s, x, next)
    BY <1>1, <2>2, <2>3, NextRight
  <2> HIDE DEF next
  <2>5. Learns(x, next, n) /\ Has(next, n) /\ next \in ReceiverState /\ Grows(x, next)
    BY <1>1, <1>6, <2>4, NextLearns DEF k
  <2>6. Grows(c, next) /\ Learns(c, next, n)
    <3>1. Grows(c, next)
      BY <1>1, <2>5, GrowsTransitive
    <3>2. Learns(c, next, n)
      BY <1>5, <2>5 DEF Learns
    <3> QED BY <3>1, <3>2
  <2>7. /\ Receiving(next, s, 0)
        /\ \/ ~next.exists /\ next.InRec = << >>
           \/ next.exists /\ InUse(next, s)
    BY <2>4 DEF NextDone
  <2>8. ClientRight(next, s, 0)
    BY <2>7, ClientParts DEF InUse
  <2>9. next.errors = x.errors
    BY <1>1, <2>7 DEF Receiving
  <2>10. CASE next.exists
    <3>1. y = DispatchWaiting(next)
      BY <2>1, <2>9, <2>10
    <3>2. Waited(s, next, y)
      BY <2>8, <2>10, <3>1, WaitingRight
    <3>3. Dealt(s, c, y, n)
      BY <1>1, <2>5, <2>6, <3>2, WaitedAfter
    <3>4. Has(y, n)
      <4>1. Grows(next, y) /\ y \in ReceiverState
        BY <3>2 DEF Waited, ClientRight
      <4> QED BY <2>5, <4>1, HasGrows
    <3> QED BY <3>3, <3>4 DEF y, x
  <2>11. CASE ~next.exists
    <3>1. y = next
      BY <2>1, <2>11
    <3>2. QueueRight(next, s, 1)
      BY <2>7, <2>11, NoneLeft
    <3>3. ClientRight(next, s, 1)
      BY <2>8, <3>2 DEF ClientRight
    <3> QED BY <2>5, <2>6, <3>1, <3>3 DEF Dealt, y, x
  <2> QED BY <2>10, <2>11
<1>7. CASE n # k + 1
  <2>1. y = Queue(x, bunch)
    <3>1. bunch.ChSequence # x.InReliable + 1
      BY <1>2, <1>3, <1>4, <1>7
    <3> QED BY <1>4, <3>1 DEF ReceivedRawBunch
  <2> HIDE DEF y
  <2>2. Early(x, s, n)
    <3>1. n \in k + 1 + 1 .. Count(s)
      BY <1>2, <1>3, <1>7
    <3> QED BY <3>1 DEF Early
  <2>3. Dealt(s, x, y, n) /\ Has(y, n)
    BY <1>1, <2>1, <2>2, QueueIsRight
  <2>4. y \in ReceiverState /\ Grows(x, y) /\ Learns(x, y, n) /\ ClientRight(y, s, 1)
    BY <2>3 DEF Dealt, ClientRight
  <2>5. Grows(c, y)
    BY <1>1, <2>4, GrowsTransitive
  <2>6. Learns(c, y, n)
    BY <1>5, <2>4 DEF Learns
  <2> QED BY <2>3, <2>4, <2>5, <2>6 DEF Dealt, y, x
<1> QED BY <1>6, <1>7

\* What an unreliable bunch may change.
Side(c, y) ==
  /\ y \in ReceiverState /\ y.errors = c.errors /\ y.exists = c.exists
  /\ y.OpenAcked = c.OpenAcked /\ y.InRec = c.InRec /\ y.InReliable = c.InReliable
  /\ y.stream = c.stream /\ (c.bSkipAck => y.bSkipAck)
  /\ \A i \in DOMAIN c.received : i \in DOMAIN y.received /\ y.received[i] = c.received[i]
  /\ y.received = c.received \/ c.OpenAcked

\* Nothing changed.
LEMMA SideItself ==
  ASSUME NEW c \in ReceiverState
  PROVE  Side(c, c)
BY DEF Side

\* Two steps with an unreliable bunch.
LEMMA SideTransitive ==
  ASSUME NEW c, NEW x, NEW y, Side(c, x), Side(x, y)
  PROVE  Side(c, y)
BY DEF Side

\* A partial bunch may be replaced when it is not part of a reliable message.
Replaces(c, y) ==
  \/ y.InPartialBunch = c.InPartialBunch
  \/ /\ \/ c.InPartialBunch = None
        \/ ~c.InPartialBunch.bReliable
        \/ c.InPartialBunch.bPartialFinal
     /\ \/ y.InPartialBunch = None
        \/ /\ y.InPartialBunch # None /\ ~y.InPartialBunch.bReliable
           /\ ~y.InPartialBunch.bOpen /\ ~y.InPartialBunch.bClose

\* What an unreliable bunch may change keeps the client right.
LEMMA SideRight ==
  ASSUME NEW s \in SenderState, NumbersRight(s), NEW c, ClientRight(c, s, 1), NEW y, Side(c, y),
         Replaces(c, y)
  PROVE  Dealt(s, c, y, 0)
<1> DEFINE k == InNumber(c)
<1>1. c \in ReceiverState /\ k \in Nat /\ y \in ReceiverState
  <2> DEFINE gap == 1
  <2>1. gap \in {0, 1} /\ ClientRight(c, s, gap)
    OBVIOUS
  <2> HIDE DEF gap
  <2>2. c \in ReceiverState /\ k \in 0 .. Count(s) /\ Count(s) \in Nat
    BY <2>1, ClientCounts
  <2> QED BY <2>2 DEF Side
<1>2. InNumber(y) = k
  BY DEF InNumber, Side
<1> HIDE DEF k
<1>3. /\ y.errors = c.errors /\ y.exists = c.exists
      /\ y.OpenAcked = c.OpenAcked /\ y.InRec = c.InRec /\ y.InReliable = c.InReliable
      /\ y.stream = c.stream
      /\ y.received = c.received \/ c.OpenAcked
  BY DEF Side
<1>4. PartialRight(y, s)
  <2>1. PartialRight(c, s)
    BY DEF ClientRight
  <2>2. CASE y.InPartialBunch = c.InPartialBunch
    BY <1>2, <1>3, <2>1, <2>2 DEF PartialRight, k
  <2>3. CASE y.InPartialBunch # c.InPartialBunch
    <3>1. ~InMessage(s, k)
      BY <2>1, <2>3 DEF PartialRight, Replaces, k
    <3>2. c.stream = Upto(s, k)
      BY <2>1, <3>1 DEF PartialRight, k
    <3>3. y.InPartialBunch = None \/ (~y.InPartialBunch.bReliable
            /\ ~y.InPartialBunch.bOpen /\ ~y.InPartialBunch.bClose)
      BY <2>3 DEF Replaces
    <3> QED BY <1>2, <1>3, <3>1, <3>2, <3>3 DEF PartialRight
  <2> QED BY <2>2, <2>3
<1>5. QueueRight(y, s, 1)
  BY <1>2, <1>3 DEF ClientRight, QueueRight, k
<1>6. k # 0 /\ Numbered(s, k).bClose => y.received # << >> /\ Last(y.received).bClose
  <2> SUFFICES ASSUME k # 0, Numbered(s, k).bClose
               PROVE  y.received # << >> /\ Last(y.received).bClose
    OBVIOUS
  <2>1. ~Opened(s, k)
    BY <1>1, OpenedStep DEF Fresh
  <2>2. ~c.OpenAcked
    BY <2>1 DEF ClientRight, k
  <2> QED BY <1>3, <2>2 DEF ClientRight, k
<1>7. ClientRight(y, s, 1)
  BY <1>1, <1>2, <1>3, <1>4, <1>5, <1>6 DEF ClientRight, k
<1>8. Grows(c, y)
  <2>1. Grows(c, c)
    BY <1>1, GrowsItself
  <2> QED BY <1>3, <2>1 DEF Grows, Side
<1>9. Learns(c, y, 0)
  BY <1>2, <1>3 DEF Learns, Has, k
<1> QED BY <1>7, <1>8, <1>9 DEF Dealt

\* Asking for the packet again changes nothing else.
LEMMA SkipAckSide ==
  ASSUME NEW x \in ReceiverState
  PROVE  /\ Side(x, SkipAck(x)) /\ SkipAck(x).bSkipAck
         /\ SkipAck(x).InPartialBunch = x.InPartialBunch
<1> DEFINE yes == TRUE
           y == [x EXCEPT !.bSkipAck = yes]
<1>1. SkipAck(x) = y /\ yes \in BOOLEAN
  BY DEF SkipAck
<1> HIDE DEF yes
<1>2. /\ y \in ReceiverState /\ y.InRec = x.InRec /\ y.exists = x.exists
      /\ y.OpenAcked = x.OpenAcked /\ y.InPartialBunch = x.InPartialBunch
      /\ y.InReliable = x.InReliable /\ y.bSkipAck = yes /\ y.errors = x.errors
      /\ y.received = x.received /\ y.stream = x.stream
  BY <1>1 DEF ReceiverState
<1> HIDE DEF y
<1> QED BY <1>1, <1>2 DEF Side, yes

\* A partial bunch that is unreliable may be kept or dropped.
LEMMA PartSide ==
  ASSUME NEW x \in ReceiverState, NEW part \in Bunch \cup {None}
  PROVE  LET y == [x EXCEPT !.InPartialBunch = part]
         IN  Side(x, y) /\ y.InPartialBunch = part
<1> DEFINE y == [x EXCEPT !.InPartialBunch = part]
<1>1. /\ y \in ReceiverState /\ y.InPartialBunch = part
      /\ y.errors = x.errors /\ y.InReliable = x.InReliable
      /\ y.exists = x.exists /\ y.OpenAcked = x.OpenAcked /\ y.InRec = x.InRec
      /\ y.received = x.received /\ y.stream = x.stream /\ y.bSkipAck = x.bSkipAck
  BY PartialFields
<1> HIDE DEF y
<1> QED BY <1>1 DEF Side, y

\* The client handled the data, or what it was part of; or does not acknowledge it.
Took(y, data) == y.bSkipAck \/ \E i \in DOMAIN y.received : y.received[i].Data = data

\* HandleBunch of an unreliable bunch that is whole.
LEMMA UnreliableHandled ==
  ASSUME NEW x \in ReceiverState, NEW w \in Bunch, ~w.bReliable, ~w.bOpen, ~w.bClose
  PROVE  LET y == HandleBunch(x, w)
         IN  Side(x, y) /\ y.InPartialBunch = x.InPartialBunch /\ Took(y, w.Data)
<1> DEFINE y == HandleBunch(x, w)
<1>1. CASE ~x.OpenAcked
  <2>1. y = SkipAck(x)
    BY <1>1 DEF HandleBunch
  <2> HIDE DEF y
  <2> QED BY <2>1, SkipAckSide DEF Took, y
<1>2. CASE x.OpenAcked
  <2>1. y = ReceivedSequencedBunch([x EXCEPT !.OpenAcked = TRUE], w)
    BY <1>2 DEF HandleBunch
  <2> HIDE DEF y
  <2>2. WasHandled(x, w, y)
    BY <2>1, SequencedFields
  <2> DEFINE entry == [bReliable |-> w.bReliable, bClose |-> w.bClose, Data |-> w.Data]
             r == x.received
             L == Len(r)
  <2>3. y.received = Append(r, entry)
    BY <2>2 DEF WasHandled
  <2>4. r \in Seq(Handled) /\ entry \in Handled /\ entry.Data = w.Data
    BY ReceiverFields, BunchFields DEF Handled
  <2> HIDE DEF entry, r
  <2>5. /\ L \in Nat /\ DOMAIN r = 1 .. L /\ DOMAIN y.received = 1 .. L + 1
        /\ y.received[L + 1] = entry
        /\ \A i \in 1 .. L : y.received[i] = r[i]
    BY <2>3, <2>4, Appended
  <2>6. L + 1 \in 1 .. L + 1 /\ \A i \in 1 .. L : i \in 1 .. L + 1
    <3> HIDE DEF L
    <3> QED BY <2>5
  <2> HIDE DEF L
  <2>7. Took(y, w.Data)
    BY <2>4, <2>5, <2>6 DEF Took
  <2>8. Side(x, y)
    BY <1>2, <2>2, <2>5, <2>6 DEF Side, WasHandled, r
  <2> QED BY <2>2, <2>7, <2>8 DEF WasHandled, y
<1> QED BY <1>1, <1>2

\* The data of a part is in that of the whole.
LEMMA JoinedData ==
  ASSUME NEW a \in Seq(Unit), NEW b \in Seq(Unit)
  PROVE  ToSet(b) \subseteq ToSet(a \o b)
<1> SUFFICES ASSUME NEW e \in ToSet(b) PROVE e \in ToSet(a \o b)
  OBVIOUS
<1>1. PICK i \in DOMAIN b : b[i] = e
  BY DEF ToSet
<1> DEFINE S == Unit
           w == a \o b
           j == Len(a) + i
<1>2. a \in Seq(S) /\ b \in Seq(S)
  OBVIOUS
<1> HIDE DEF S
<1>3. /\ Len(a) \in Nat /\ Len(b) \in Nat /\ i \in 1 .. Len(b)
      /\ w \in Seq(S) /\ Len(w) = Len(a) + Len(b)
      /\ \A m \in 1 .. Len(a) + Len(b) : w[m] = IF m <= Len(a) THEN a[m] ELSE b[m - Len(a)]
  BY <1>2, ConcatProperties
<1> HIDE DEF w
<1>4. j \in 1 .. Len(a) + Len(b) /\ ~(j <= Len(a)) /\ j - Len(a) = i /\ DOMAIN w = 1 .. Len(w)
  BY <1>3
<1> HIDE DEF j
<1>5. w[j] = e /\ j \in DOMAIN w
  BY <1>1, <1>3, <1>4
<1> QED BY <1>5 DEF ToSet, w

\* ReceivedNextBunch, for an unreliable bunch.
LEMMA UnreliableNext ==
  ASSUME NEW c \in ReceiverState, NEW bunch \in Bunch, ~bunch.bReliable, Sound(bunch),
         c.InPartialBunch # None /\ ~c.InPartialBunch.bReliable =>
           ~c.InPartialBunch.bOpen /\ ~c.InPartialBunch.bClose
  PROVE  LET y == ReceivedNextBunch(c, bunch)
         IN  Side(c, y) /\ Replaces(c, y) /\ (y.bSkipAck \/ ProcessedBy(y, bunch))
<1> DEFINE y == ReceivedNextBunch(c, bunch)
           part == c.InPartialBunch
<1>1. y = IF ~bunch.bPartial THEN HandleBunch(c, bunch)
          ELSE IF bunch.bPartialInitial THEN ReceivedPartialInitial(c, bunch)
          ELSE ReceivedPartialNext(c, bunch)
  BY DEF ReceivedNextBunch
<1> HIDE DEF y
<1>2. ~bunch.bOpen /\ ~bunch.bClose /\ part \in Bunch \cup {None}
  BY ReceiverFields DEF Sound
<1>3. CASE ~bunch.bPartial
  <2>1. Side(c, y) /\ y.InPartialBunch = part /\ Took(y, bunch.Data)
    BY <1>1, <1>2, <1>3, UnreliableHandled
  <2> QED BY <2>1 DEF Replaces, Took, ProcessedBy, y
<1>4. CASE bunch.bPartial /\ bunch.bPartialInitial
  <2>1. ProcessedBy(y, bunch)
    BY <1>4 DEF ProcessedBy, Sound
  <2>2. CASE HoldsReliablePartial(c) /\ ~part.bPartialFinal
    <3>1. y = SkipAck(c)
      BY <1>1, <1>4, <2>2 DEF ReceivedPartialInitial
    <3>2. Side(c, y) /\ y.InPartialBunch = part
      BY <3>1, SkipAckSide
    <3> QED BY <2>1, <3>2 DEF Replaces, y
  <2>3. CASE ~(HoldsReliablePartial(c) /\ ~part.bPartialFinal)
    <3>1. y = [c EXCEPT !.InPartialBunch = bunch]
      BY <1>1, <1>4, <2>3 DEF ReceivedPartialInitial
    <3>2. bunch \in Bunch \cup {None}
      OBVIOUS
    <3>3. Side(c, y) /\ y.InPartialBunch = bunch
      BY <3>1, <3>2, PartSide
    <3>4. Replaces(c, y)
      BY <1>2, <2>3, <3>3, NotNone DEF Replaces, HoldsReliablePartial
    <3> QED BY <2>1, <3>3, <3>4 DEF y
  <2> QED BY <2>2, <2>3
<1>5. CASE bunch.bPartial /\ ~bunch.bPartialInitial
  <2>1. y = ReceivedPartialNext(c, bunch)
    BY <1>1, <1>5
  <2>2. CASE ContinuesPartial(c, bunch)
    <3>1. part \in Bunch /\ ~part.bReliable /\ ~part.bOpen /\ ~part.bClose
      BY <1>2, <2>2 DEF ContinuesPartial
    <3> DEFINE w == Joined(part, bunch)
               z == [c EXCEPT !.InPartialBunch = w]
    <3>2. /\ w \in Bunch /\ w.Data = part.Data \o bunch.Data
          /\ w.ChSequence = bunch.ChSequence /\ w.bPartialFinal = bunch.bPartialFinal
          /\ w.bClose = bunch.bClose /\ w.bOpen = part.bOpen /\ w.bReliable = part.bReliable
          /\ w.bPartial = part.bPartial
      BY <3>1, JoinedFields
    <3>3. y = IF bunch.bPartialFinal THEN HandleBunch(z, w) ELSE z
      BY <2>1, <2>2 DEF ReceivedPartialNext, Joined
    <3> HIDE DEF w
    <3>4. Side(c, z) /\ z.InPartialBunch = w
      <4>1. w \in Bunch \cup {None}
        BY <3>2
      <4> QED BY <4>1, PartSide
    <3> HIDE DEF z
    <3>5. \A v \in ReceiverState : v.InPartialBunch = w => Replaces(c, v)
      BY <1>2, <3>1, <3>2, NotNone DEF Replaces
    <3>6. z \in ReceiverState
      BY <3>4 DEF Side
    <3>7. CASE ~bunch.bPartialFinal
      <4>1. ProcessedBy(y, bunch)
        BY <1>5, <3>7 DEF ProcessedBy
      <4> QED BY <3>3, <3>4, <3>5, <3>6, <3>7, <4>1 DEF y
    <3>8. CASE bunch.bPartialFinal
      <4>1. Side(z, y) /\ y.InPartialBunch = w /\ Took(y, w.Data)
        BY <1>2, <3>1, <3>2, <3>3, <3>4, <3>6, <3>8, UnreliableHandled
      <4>2. Side(c, y) /\ y \in ReceiverState
        BY <3>4, <4>1, SideTransitive DEF Side
      <4>3. y.bSkipAck \/ ProcessedBy(y, bunch)
        <5> SUFFICES ASSUME NEW i \in DOMAIN y.received, y.received[i].Data = w.Data
                     PROVE  ProcessedBy(y, bunch)
          BY <4>1 DEF Took
        <5>1. part.Data \in Seq(Unit) /\ bunch.Data \in Seq(Unit)
          BY <3>1, BunchFields
        <5>2. ToSet(bunch.Data) \subseteq ToSet(w.Data)
          BY <3>2, <5>1, JoinedData
        <5> QED BY <5>2 DEF ProcessedBy
      <4> QED BY <3>5, <4>1, <4>2, <4>3 DEF y
    <3> QED BY <3>7, <3>8
  <2>3. CASE ~ContinuesPartial(c, bunch) /\ ~HoldsReliablePartial(c)
    <3> DEFINE noone == None
               z == [c EXCEPT !.InPartialBunch = noone]
    <3>1. y = SkipAck(z)
      BY <2>1, <2>3 DEF ReceivedPartialNext
    <3>2. noone \in Bunch \cup {None} /\ noone = None
      OBVIOUS
    <3> HIDE DEF noone
    <3>3. Side(c, z) /\ z.InPartialBunch = None
      BY <3>2, PartSide
    <3> HIDE DEF z
    <3>4. z \in ReceiverState
      BY <3>3 DEF Side
    <3>5. Side(z, y) /\ y.bSkipAck /\ y.InPartialBunch = None
      BY <3>1, <3>3, <3>4, SkipAckSide
    <3>6. Side(c, y)
      BY <3>3, <3>5, SideTransitive
    <3>7. Replaces(c, y)
      BY <2>3, <3>5 DEF Replaces, HoldsReliablePartial
    <3> QED BY <3>5, <3>6, <3>7 DEF y
  <2>4. CASE ~ContinuesPartial(c, bunch) /\ HoldsReliablePartial(c)
    <3>1. y = SkipAck(c)
      BY <2>1, <2>4 DEF ReceivedPartialNext
    <3>2. Side(c, y) /\ y.bSkipAck /\ y.InPartialBunch = part
      BY <3>1, SkipAckSide
    <3> QED BY <3>2 DEF Replaces, y
  <2> QED BY <2>2, <2>3, <2>4
<1> QED BY <1>3, <1>4, <1>5

\* ReceivedRawBunch, for an unreliable bunch.
LEMMA UnreliableRight ==
  ASSUME NEW s \in SenderState, NumbersRight(s), NEW c, ClientRight(c, s, 1), c.exists,
         NEW bunch \in Bunch, ~bunch.bReliable, Sound(bunch)
  PROVE  LET y == ReceivedRawBunch(c, bunch)
         IN  Dealt(s, c, y, 0) /\ (y.bSkipAck \/ ProcessedBy(y, bunch))
<1> DEFINE y == ReceivedRawBunch(c, bunch)
           next == ReceivedNextBunch(c, bunch)
<1>1. c \in ReceiverState /\ PartialRight(c, s)
  BY DEF ClientRight
<1>2. Side(c, next) /\ Replaces(c, next) /\ (next.bSkipAck \/ ProcessedBy(next, bunch))
  <2>1. c.InPartialBunch # None /\ ~c.InPartialBunch.bReliable =>
           ~c.InPartialBunch.bOpen /\ ~c.InPartialBunch.bClose
    BY <1>1 DEF PartialRight
  <2> QED BY <1>1, <2>1, UnreliableNext
<1>3. y = IF next.exists /\ next.errors = c.errors THEN DispatchWaiting(next) ELSE next
  BY DEF ReceivedRawBunch
<1> HIDE DEF y, next
<1>4. Dealt(s, c, next, 0)
  BY <1>2, SideRight
<1>5. ClientRight(next, s, 1) /\ Grows(c, next) /\ Learns(c, next, 0) /\ next \in ReceiverState
  BY <1>4 DEF Dealt, ClientRight
<1>6. y = DispatchWaiting(next) /\ next.exists
  BY <1>2, <1>3 DEF Side
<1>7. Waited(s, next, y)
  <2>1. ClientRight(next, s, 0)
    BY <1>5, GapClosed
  <2> QED BY <1>6, <2>1, WaitingRight
<1>8. Dealt(s, c, y, 0)
  BY <1>1, <1>5, <1>7, WaitedAfter
<1>9. y.bSkipAck \/ ProcessedBy(y, bunch)
  <2>1. Grows(next, y) /\ y \in ReceiverState /\ y.bSkipAck = next.bSkipAck
    BY <1>7 DEF Waited, ClientRight
  <2> QED BY <1>2, <1>5, <2>1, ProcessedGrows
<1> QED BY <1>8, <1>9 DEF y

\* A number is found again from its residue, near a number that is known.
LEMMA Residue ==
  ASSUME NEW N \in Nat \ {0}, NEW q \in Int, NEW r \in 0 .. N - 1
  PROVE  (N * q + r) % N = r
OBVIOUS

\* MakeRelative decodes a number that is less than half of the circle ahead.
LEMMA RelativeSame ==
  ASSUME NEW M \in Nat, NEW B \in Nat, B >= 1, M >= 2 * B, NEW v \in Nat, NEW r \in Nat,
         v < r + B, r < v + B
  PROVE  MakeRelative(v % M, r, M) = v
<1> DEFINE q == v \div M
           h == M \div 2
           p == v % M
           e == (v - r) + h
<1>1. M \in Nat \ {0}
  OBVIOUS
<1>2. q \in Int /\ v = M * q + p /\ p \in 0 .. M - 1
  BY <1>1
<1>3. h \in Nat /\ B <= h /\ B <= M - h
  BY <1>1
<1> DEFINE d == M * q
           nq == - q
<1>4. d \in Int /\ nq \in Int /\ M * nq = - d
  BY <1>1, <1>2
<1> HIDE DEF q, h, d
<1>5. e \in 0 .. M - 1 /\ (p - r) + h = - d + e
  <2>1. v = d + p
    BY <1>2 DEF d
  <2> HIDE DEF p
  <2> QED BY <1>1, <1>2, <1>3, <1>4, <2>1
<1> HIDE DEF e, p, nq
<1>6. (M * nq + e) % M = e
  BY <1>1, <1>4, <1>5, Residue
<1>7. ((p - r) + h) % M = e
  BY <1>4, <1>5, <1>6
<1>8. MakeRelative(p, r, M) = (r + e) - h
  <2>1. MakeRelative(p, r, M) = r + ((((p - r) + h) % M) - h)
    BY Zenon DEF MakeRelative, h
  <2>2. r + (e - h) = (r + e) - h
    BY <1>3, <1>5
  <2> QED BY <1>7, <2>1, <2>2
<1>9. (r + e) - h = v
  BY <1>3 DEF e
<1> QED BY <1>8, <1>9 DEF p

\* A bunch of a packet that the sender was not told of.
InFlight(s, wire) ==
  /\ wire \in Bunch /\ Sound(wire)
  /\ wire.bReliable => \E n \in Released(s) + 1 .. Count(s) : wire = Numbered(s, n)

\* What the client does with it.
Dispatched(s, c, wire, y) == \E n \in Nat :
  /\ Dealt(s, c, y, n) /\ (y.bSkipAck \/ ProcessedBy(y, wire))
  /\ IF wire.bReliable THEN n \in 1 .. Count(s) /\ wire = Numbered(s, n) ELSE n = 0

\* A number the client has is processed.
LEMMA NumberProcessed ==
  ASSUME NEW y \in ReceiverState, NEW n \in Nat, Has(y, n), NEW wire, wire.bReliable,
         wire.ChSequence = InitReliable + n
  PROVE  ProcessedBy(y, wire)
<1>1. y.InReliable \in Nat /\ InitReliable \in Nat
  BY ReceiverFields, Constants
<1>2. CASE n <= InNumber(y)
  <2>1. wire.ChSequence <= y.InReliable
    BY <1>1, <1>2 DEF InNumber
  <2> QED BY <2>1 DEF ProcessedBy
<1>3. CASE \E i \in DOMAIN y.InRec : y.InRec[i].ChSequence = InitReliable + n
  BY <1>3 DEF ProcessedBy
<1> QED BY <1>2, <1>3 DEF Has

\* A reliable bunch is found by its number.
LEMMA ReliableWire ==
  ASSUME NEW s \in SenderState, NumbersRight(s), Room(s), NEW c, ClientRight(c, s, 1),
         NEW wire, InFlight(s, wire), wire.bReliable, NEW id
  PROVE  DispatchBunch(c, wire, id) =
           IF wire.ChSequence <= c.InReliable THEN c ELSE ReceivedRawBunch(Created(c), wire)
<1> DEFINE y == DispatchBunch(c, wire, id)
           k == InNumber(c)
<1>1. /\ c \in ReceiverState /\ Count(s) \in Nat /\ Released(s) \in 0 .. Count(s)
      /\ k \in 0 .. Count(s) /\ Released(s) <= k /\ c.InReliable = InitReliable + k
      /\ InitReliable \in Nat
  <2> DEFINE gap == 1
  <2>1. gap \in {0, 1} /\ ClientRight(c, s, gap)
    OBVIOUS
  <2> HIDE DEF gap
  <2> QED BY <2>1, ClientCounts, Constants
<1>2. PICK n \in Released(s) + 1 .. Count(s) : wire = Numbered(s, n)
  BY DEF InFlight
<1>3. n \in 1 .. Count(s) /\ n \in Nat
  BY <1>1
<1>4. wire.ChSequence = InitReliable + n /\ wire \in Bunch
  <2>1. NumberRight(s, n)
    BY <1>3 DEF NumbersRight
  <2> QED BY <1>2, <2>1 DEF NumberRight, InFlight
<1>5. MakeRelative(wire.ChSequence % MAX_CHSEQUENCE, c.InReliable, MAX_CHSEQUENCE)
        = wire.ChSequence
  <2> DEFINE v == wire.ChSequence
             r == c.InReliable
             M == MAX_CHSEQUENCE
             B == RELIABLE_BUFFER
  <2>1. M \in Nat /\ B \in Nat /\ B >= 1 /\ M >= 2 * B
    BY Constants
  <2>2. Len(s.OutRec) \in Nat /\ Count(s) - Released(s) = Len(s.OutRec) /\ Len(s.OutRec) < B
    BY <1>1, SenderLengths DEF Released, Room
  <2>3. v \in Nat /\ r \in Nat /\ v < r + B /\ r < v + B
    <3> HIDE DEF k, B
    <3> QED BY <1>1, <1>2, <1>4, <2>1, <2>2
  <2> HIDE DEF v, r, M, B
  <2>4. MakeRelative(v % M, r, M) = v
    BY <2>1, <2>3, RelativeSame
  <2> QED BY <2>4 DEF v, r, M
<1>6. y = IF wire.ChSequence <= c.InReliable THEN c ELSE ReceivedRawBunch(Created(c), wire)
  <2> DEFINE bunch == [wire EXCEPT !.ChSequence =
                  IF wire.bReliable THEN MakeRelative(@ % MAX_CHSEQUENCE, c.InReliable, MAX_CHSEQUENCE)
                  ELSE IF wire.bPartial THEN id ELSE 0]
  <2>1. bunch = wire
    <3> DEFINE v == wire.ChSequence
               w == [wire EXCEPT !.ChSequence = v]
    <3>1. bunch = w
      BY <1>5
    <3>2. w = wire
      BY <1>4 DEF Bunch
    <3> QED BY <3>1, <3>2
  <2>2. y = IF IsOutdated(c, bunch) THEN c
            ELSE IF ~c.exists /\ ~(bunch.bReliable \/ (bunch.bOpen /\ (bunch.bClose \/ bunch.bPartial)))
                 THEN SkipAck(c)
            ELSE ReceivedRawBunch([c EXCEPT !.exists = TRUE], bunch)
    BY DEF DispatchBunch
  <2> HIDE DEF bunch, y
  <2>3. IsOutdated(c, wire) <=> wire.ChSequence <= c.InReliable
    BY DEF IsOutdated
  <2> QED BY <2>1, <2>2, <2>3 DEF Created
<1> QED BY <1>6

\* DispatchPacket, for one reliable bunch.
LEMMA ReliableDispatch ==
  ASSUME NEW s \in SenderState, NumbersRight(s), Room(s), NEW c, ClientRight(c, s, 1),
         NEW wire, InFlight(s, wire), wire.bReliable, NEW id
  PROVE  Dispatched(s, c, wire, DispatchBunch(c, wire, id))
<1> DEFINE y == DispatchBunch(c, wire, id)
           k == InNumber(c)
<1>1. /\ c \in ReceiverState /\ Count(s) \in Nat /\ Released(s) \in 0 .. Count(s)
      /\ k \in 0 .. Count(s) /\ Released(s) <= k /\ c.InReliable = InitReliable + k
      /\ InitReliable \in Nat
  <2> DEFINE gap == 1
  <2>1. gap \in {0, 1} /\ ClientRight(c, s, gap)
    OBVIOUS
  <2> HIDE DEF gap
  <2> QED BY <2>1, ClientCounts, Constants
<1>2. PICK n \in Released(s) + 1 .. Count(s) : wire = Numbered(s, n)
  BY DEF InFlight
<1>3. n \in 1 .. Count(s) /\ n \in Nat
  BY <1>1
<1>4. wire.ChSequence = InitReliable + n /\ wire \in Bunch
  <2>1. NumberRight(s, n)
    BY <1>3 DEF NumbersRight
  <2> QED BY <1>2, <2>1 DEF NumberRight, InFlight
<1>5. y = IF wire.ChSequence <= c.InReliable THEN c ELSE ReceivedRawBunch(Created(c), wire)
  BY ReliableWire
<1> HIDE DEF y
<1>6. CASE n <= k
  <2>1. y = c
    <3>1. wire.ChSequence <= c.InReliable
      <4> HIDE DEF k
      <4> QED BY <1>1, <1>3, <1>4, <1>6
    <3> QED BY <1>5, <3>1
  <2>2. Has(c, n)
    BY <1>6 DEF Has
  <2>3. Dealt(s, c, c, n)
    <3>1. Grows(c, c) /\ Learns(c, c, n)
      BY <1>1, GrowsItself DEF Learns
    <3> QED BY <3>1 DEF Dealt
  <2>4. ProcessedBy(c, wire)
    BY <1>1, <1>3, <1>4, <2>2, NumberProcessed
  <2> QED BY <1>2, <1>3, <2>1, <2>3, <2>4 DEF Dispatched, y
<1>7. CASE ~(n <= k)
  <2>1. y = ReceivedRawBunch(Created(c), wire)
    <3>1. ~(wire.ChSequence <= c.InReliable)
      <4> HIDE DEF k
      <4> QED BY <1>1, <1>3, <1>4, <1>7
    <3> QED BY <1>5, <3>1
  <2>2. Ahead(c, s, n)
    <3>1. n \in k + 1 .. Count(s)
      BY <1>1, <1>3, <1>7
    <3> QED BY <3>1 DEF Ahead
  <2>3. Dealt(s, c, y, n) /\ Has(y, n)
    BY <1>2, <1>3, <2>1, <2>2, ReliableRight
  <2>4. ProcessedBy(y, wire)
    BY <1>3, <1>4, <2>3, NumberProcessed DEF Dealt, ClientRight
  <2> QED BY <1>2, <1>3, <2>3, <2>4 DEF Dispatched, y
<1> QED BY <1>6, <1>7

\* So is the packet of an unreliable one.
Stamped(wire, id) == [wire EXCEPT !.ChSequence = IF wire.bPartial THEN id ELSE 0]

\* What DispatchBunch does with an unreliable bunch.
LEMMA UnreliableWire ==
  ASSUME NEW c \in ReceiverState, NEW wire \in Bunch, Sound(wire), ~wire.bReliable,
         NEW id \in Nat
  PROVE  /\ DispatchBunch(c, wire, id) =
              IF ~c.exists THEN SkipAck(c) ELSE ReceivedRawBunch(Created(c), Stamped(wire, id))
         /\ LET bunch == Stamped(wire, id)
            IN  /\ bunch \in Bunch /\ ~bunch.bReliable /\ bunch.bOpen = wire.bOpen
                /\ bunch.bClose = wire.bClose /\ bunch.bPartial = wire.bPartial
                /\ bunch.bPartialInitial = wire.bPartialInitial
                /\ bunch.bPartialFinal = wire.bPartialFinal /\ bunch.Data = wire.Data
                /\ bunch.ChSequence = IF wire.bPartial THEN id ELSE 0
                /\ Sound(bunch)
<1> DEFINE y == DispatchBunch(c, wire, id)
           v == IF wire.bPartial THEN id ELSE 0
           bunch == [wire EXCEPT !.ChSequence = v]
<1>1. v \in Nat
  OBVIOUS
<1>2. y = IF ~c.exists THEN SkipAck(c) ELSE ReceivedRawBunch(Created(c), bunch)
  <2> DEFINE b == [wire EXCEPT !.ChSequence =
                  IF wire.bReliable THEN MakeRelative(@ % MAX_CHSEQUENCE, c.InReliable, MAX_CHSEQUENCE)
                  ELSE IF wire.bPartial THEN id ELSE 0]
  <2>1. b = bunch
    OBVIOUS
  <2>2. y = IF IsOutdated(c, b) THEN c
            ELSE IF ~c.exists /\ ~(b.bReliable \/ (b.bOpen /\ (b.bClose \/ b.bPartial)))
                 THEN SkipAck(c)
            ELSE ReceivedRawBunch([c EXCEPT !.exists = TRUE], b)
    BY DEF DispatchBunch
  <2> HIDE DEF b, y, v
  <2>3. ~bunch.bReliable /\ ~bunch.bOpen
    BY <1>1 DEF Bunch, Sound
  <2> HIDE DEF bunch
  <2> QED BY <2>1, <2>2, <2>3 DEF Created, IsOutdated
<1> HIDE DEF y
<1>3. v = IF wire.bPartial THEN id ELSE 0
  OBVIOUS
<1>4. Stamped(wire, id) = bunch
  BY DEF Stamped
<1> HIDE DEF v
<1>5. /\ bunch \in Bunch /\ ~bunch.bReliable /\ bunch.bOpen = wire.bOpen
      /\ bunch.bClose = wire.bClose /\ bunch.bPartial = wire.bPartial
      /\ bunch.bPartialInitial = wire.bPartialInitial
      /\ bunch.bPartialFinal = wire.bPartialFinal /\ bunch.Data = wire.Data
      /\ bunch.ChSequence = v
  BY <1>1 DEF Bunch
<1> HIDE DEF bunch
<1>6. Sound(bunch)
  BY <1>1, <1>5 DEF Sound, GoesOn
<1> QED BY <1>2, <1>5, <1>6, <1>3, <1>4 DEF y

\* DispatchPacket, for one unreliable bunch.
LEMMA UnreliableDispatch ==
  ASSUME NEW s \in SenderState, NumbersRight(s), NEW c, ClientRight(c, s, 1),
         NEW wire, InFlight(s, wire), ~wire.bReliable, NEW id \in Nat
  PROVE  Dispatched(s, c, wire, DispatchBunch(c, wire, id))
<1> DEFINE y == DispatchBunch(c, wire, id)
           bunch == Stamped(wire, id)
<1>1. c \in ReceiverState /\ wire \in Bunch /\ Sound(wire)
  BY DEF ClientRight, InFlight
<1>2. /\ y = IF ~c.exists THEN SkipAck(c) ELSE ReceivedRawBunch(Created(c), bunch)
      /\ bunch \in Bunch /\ ~bunch.bReliable /\ bunch.bPartial = wire.bPartial
      /\ bunch.bPartialFinal = wire.bPartialFinal /\ bunch.Data = wire.Data
      /\ Sound(bunch)
  BY <1>1, UnreliableWire
<1> HIDE DEF y, bunch
<1>3. Dealt(s, c, y, 0) /\ (y.bSkipAck \/ ProcessedBy(y, wire))
  <2>1. CASE ~c.exists
    <3>1. y = SkipAck(c)
      BY <1>2, <2>1
    <3>2. Side(c, y) /\ y.bSkipAck /\ Replaces(c, y)
      BY <1>1, <3>1, SkipAckSide DEF Replaces
    <3> QED BY <3>2, SideRight
  <2>2. CASE c.exists
    <3>1. y = ReceivedRawBunch(c, bunch)
      BY <1>2, <2>2, CreatedRight
    <3>2. Dealt(s, c, y, 0) /\ (y.bSkipAck \/ ProcessedBy(y, bunch))
      BY <1>2, <2>2, <3>1, UnreliableRight
    <3> QED BY <1>1, <1>2, <3>2 DEF ProcessedBy
  <2> QED BY <2>1, <2>2
<1> DEFINE none == 0
<1>4. none \in Nat /\ none = 0 /\ Dealt(s, c, y, none)
  BY <1>3
<1> HIDE DEF none
<1> QED BY <1>3, <1>4 DEF Dispatched, y

\* DispatchPacket, for one bunch that is under way.
LEMMA BunchRight ==
  ASSUME NEW s \in SenderState, NumbersRight(s), Room(s), NEW c, ClientRight(c, s, 1),
         NEW wire, InFlight(s, wire), NEW id \in Nat
  PROVE  Dispatched(s, c, wire, DispatchBunch(c, wire, id))
<1>1. CASE wire.bReliable
  BY <1>1, ReliableDispatch
<1>2. CASE ~wire.bReliable
  BY <1>2, UnreliableDispatch
<1> QED BY <1>1, <1>2

\* After i bunches of a packet: x is what the client c became.
Heard(s, c, packet, i, x) ==
  /\ ClientRight(x, s, 1) /\ Grows(c, x)
  /\ \A j \in 1 .. i : x.bSkipAck \/ ProcessedBy(x, packet[j])
  /\ \A n \in Nat : Has(x, n) =>
       Has(c, n) \/ \E j \in 1 .. i : packet[j].bReliable /\ packet[j] = Numbered(s, n)

\* An iteration of DispatchPacket's loop.
LEMMA HeardStep ==
  ASSUME NEW s \in SenderState, NumbersRight(s), Room(s), NEW c \in ReceiverState,
         NEW packet \in Seq(Bunch), NEW i \in 1 .. Len(packet), NEW id \in Nat,
         \A j \in DOMAIN packet : InFlight(s, packet[j]),
         NEW x, Heard(s, c, packet, i - 1, x)
  PROVE  Heard(s, c, packet, i, DispatchBunch(x, packet[i], id))
<1> DEFINE y == DispatchBunch(x, packet[i], id)
           wire == packet[i]
<1>1. /\ ClientRight(x, s, 1) /\ Grows(c, x)
      /\ \A j \in 1 .. i - 1 : x.bSkipAck \/ ProcessedBy(x, packet[j])
      /\ \A n \in Nat : Has(x, n) =>
           Has(c, n) \/ \E j \in 1 .. i - 1 : packet[j].bReliable /\ packet[j] = Numbered(s, n)
  BY DEF Heard
<1>2. x \in ReceiverState /\ wire \in Bunch /\ Len(packet) \in Nat /\ i \in DOMAIN packet
  BY <1>1 DEF ClientRight
<1>3. \A j \in 1 .. i : (j \in 1 .. i - 1 \/ j = i) /\ j \in DOMAIN packet
  BY <1>2
<1>4. Dispatched(s, x, wire, y)
  BY <1>1, <1>2, BunchRight
<1> HIDE DEF y
<1>5. PICK n \in Nat : /\ Dealt(s, x, y, n) /\ (y.bSkipAck \/ ProcessedBy(y, wire))
                       /\ IF wire.bReliable THEN n \in 1 .. Count(s) /\ wire = Numbered(s, n)
                                            ELSE n = 0
  BY <1>4 DEF Dispatched
<1>6. ClientRight(y, s, 1) /\ Grows(x, y) /\ Learns(x, y, n) /\ y \in ReceiverState
  BY <1>5 DEF Dealt, ClientRight
<1>7. Grows(c, y)
  BY <1>1, <1>2, <1>6, GrowsTransitive
<1>8. ASSUME NEW j \in 1 .. i PROVE y.bSkipAck \/ ProcessedBy(y, packet[j])
  <2>1. CASE j = i
    BY <1>5, <2>1
  <2>2. CASE j \in 1 .. i - 1
    <3>1. packet[j] \in Bunch
      BY <1>3
    <3>2. CASE x.bSkipAck
      BY <1>6, <3>2 DEF Grows
    <3>3. CASE ProcessedBy(x, packet[j])
      BY <1>2, <1>6, <3>1, <3>3, ProcessedGrows
    <3> QED BY <1>1, <2>2, <3>2, <3>3
  <2> QED BY <1>3, <2>1, <2>2
<1>9. ASSUME NEW m \in Nat, Has(y, m)
      PROVE  Has(c, m) \/ \E j \in 1 .. i : packet[j].bReliable /\ packet[j] = Numbered(s, m)
  <2>1. i \in 1 .. i /\ \A j \in 1 .. i - 1 : j \in 1 .. i
    BY <1>2
  <2>2. CASE Has(x, m)
    BY <1>1, <2>1, <2>2
  <2>3. CASE ~Has(x, m)
    <3>1. m = n
      BY <1>6, <1>9, <2>3 DEF Learns
    <3>2. n # 0
      <4> SUFFICES ASSUME n = 0 PROVE Has(x, m)
        BY <2>3
      <4> DEFINE gap == 1
      <4>1. gap \in {0, 1} /\ ClientRight(x, s, gap)
        BY <1>1
      <4> HIDE DEF gap
      <4>2. InNumber(x) \in 0 .. Count(s) /\ Count(s) \in Nat
        BY <4>1, ClientCounts
      <4>3. m <= InNumber(x)
        BY <3>1, <4>2
      <4> QED BY <4>3 DEF Has
    <3>3. wire.bReliable /\ wire = Numbered(s, n)
      BY <1>5, <3>2
    <3> QED BY <2>1, <3>1, <3>3
  <2> QED BY <2>2, <2>3
<1>10. Heard(s, c, packet, i, y)
  BY <1>6, <1>7, <1>8, <1>9 DEF Heard
<1> QED BY <1>10 DEF y

\* Resetting bSkipAck changes nothing else.
LEMMA AckingFields ==
  ASSUME NEW s, NEW c, ClientRight(c, s, 1), NEW no, no = FALSE
  PROVE  LET x == [c EXCEPT !.bSkipAck = no]
         IN  /\ ClientRight(x, s, 1) /\ c \in ReceiverState /\ x \in ReceiverState
             /\ x.InReliable = c.InReliable /\ x.InRec = c.InRec /\ x.received = c.received
             /\ x.stream = c.stream
<1> DEFINE x == [c EXCEPT !.bSkipAck = no]
<1>1. c \in ReceiverState /\ no \in BOOLEAN
  BY DEF ClientRight
<1>2. /\ x \in ReceiverState /\ x.InRec = c.InRec /\ x.exists = c.exists
      /\ x.OpenAcked = c.OpenAcked /\ x.InPartialBunch = c.InPartialBunch
      /\ x.InReliable = c.InReliable /\ x.errors = c.errors
      /\ x.received = c.received /\ x.stream = c.stream
  BY <1>1 DEF ReceiverState
<1> HIDE DEF x
<1>3. InNumber(x) = InNumber(c)
  BY <1>2 DEF InNumber
<1>4. QueueRight(x, s, 1) /\ PartialRight(x, s)
  BY <1>2, <1>3 DEF ClientRight, QueueRight, PartialRight
<1>5. ClientRight(x, s, 1)
  BY <1>2, <1>3, <1>4 DEF ClientRight
<1> QED BY <1>1, <1>2, <1>5 DEF x

\* The client as it starts on a packet.
Acking(c) == [c EXCEPT !.bSkipAck = FALSE]

\* DispatchPacket handles every bunch of the packet.
LEMMA PacketHeard ==
  ASSUME NEW s \in SenderState, NumbersRight(s), Room(s), NEW c, ClientRight(c, s, 1),
         NEW packet \in Seq(Bunch), \A j \in DOMAIN packet : InFlight(s, packet[j]),
         NEW id \in Nat
  PROVE  Heard(s, Acking(c), packet, Len(packet), DispatchPacket(c, packet, id))
<1> DEFINE no == FALSE
           a == [c EXCEPT !.bSkipAck = no]
           L == Len(packet)
           Step(i, x) == DispatchBunch(x, packet[i], id)
           F == [p \in (1 .. L) \X ReceiverState |-> Step(p[1], p[2])]
           G == {p \in (0 .. L) \X ReceiverState : Heard(s, a, packet, p[1], p[2])}
           g == AfterBunches(c, packet, id)
<1>1. L \in Nat
  OBVIOUS
<1>2. ClientRight(a, s, 1) /\ a \in ReceiverState
  <2>1. no = FALSE
    OBVIOUS
  <2> HIDE DEF no
  <2> QED BY <2>1, AckingFields
<1>3. Acking(c) = a
  BY DEF Acking
<1>4. g = CHOOSE f : f = [i \in 0 .. L |-> IF i = 0 THEN a ELSE Step(i, f[i - 1])]
  BY DEF AfterBunches
<1> HIDE DEF a, g, Step
<1>5. Heard(s, a, packet, 0, a)
  <2>1. Grows(a, a)
    BY <1>2, GrowsItself
  <2>2. \A j \in 1 .. 0 : FALSE
    OBVIOUS
  <2> QED BY <1>2, <2>1, <2>2 DEF Heard
<1>6. ASSUME NEW i \in 1 .. L, NEW x \in ReceiverState, Heard(s, a, packet, i - 1, x)
      PROVE  Step(i, x) \in ReceiverState /\ Heard(s, a, packet, i, Step(i, x))
  <2>1. Heard(s, a, packet, i, Step(i, x))
    BY <1>2, <1>6, HeardStep DEF Step
  <2> QED BY <2>1 DEF Heard, ClientRight
<1> HIDE DEF L
<1>7. \A i \in 1 .. L : \A x \in ReceiverState : F[<<i, x>>] = Step(i, x)
  OBVIOUS
<1> HIDE DEF F
<1>8. Keeps(L, ReceiverState, F, a, G)
  <2>1. <<0, a>> \in G
    BY <1>1, <1>2, <1>5
  <2>2. ASSUME NEW i \in 1 .. L, NEW x \in ReceiverState, <<i - 1, x>> \in G
        PROVE  F[<<i, x>>] \in ReceiverState /\ <<i, F[<<i, x>>]>> \in G
    <3>1. Heard(s, a, packet, i - 1, x)
      BY <2>2
    <3>2. i \in 0 .. L
      BY <1>1
    <3> QED BY <1>6, <1>7, <3>1, <3>2
  <2> QED BY <1>2, <2>1, <2>2 DEF Keeps
<1> HIDE DEF G
<1>9. PICK f \in [0 .. L -> ReceiverState] :
        f[0] = a /\ \A i \in 1 .. L : f[i] = F[<<i, f[i - 1]>>]
  BY <1>1, <1>8, LoopExists
<1>10. f = [i \in 0 .. L |-> IF i = 0 THEN a ELSE Step(i, f[i - 1])]
  <2>1. ASSUME NEW i \in 0 .. L, i # 0 PROVE f[i] = Step(i, f[i - 1])
    <3>1. i - 1 \in 0 .. L /\ i \in 1 .. L
      BY <1>1, <2>1
    <3> QED BY <1>7, <1>9, <3>1
  <2> QED BY <1>9, <2>1
<1>11. g = [i \in 0 .. L |-> IF i = 0 THEN a ELSE Step(i, g[i - 1])]
  BY <1>4, <1>10
<1>12. Follows(L, ReceiverState, F, a, g)
  <2>1. 0 \in 0 .. L /\ \A i \in 1 .. L : i \in 0 .. L /\ i # 0
    BY <1>1
  <2> QED BY <1>7, <1>11, <2>1 DEF Follows
<1>13. \A i \in 0 .. L : g[i] \in ReceiverState /\ <<i, g[i]>> \in G
  BY <1>1, <1>8, <1>12, LoopKeeps
<1>14. L \in 0 .. L
  BY <1>1
<1>15. Heard(s, a, packet, L, g[L])
  BY <1>13, <1>14 DEF G
<1> QED BY <1>3, <1>15 DEF DispatchPacket, g, L

-----------------------------------------------------------------------------
(* The packet that arrives                                                 *)

\* Packets that the server was not told of have only bunches the client is ready for.
LEMMA PacketFlies ==
  ASSUME NEW s, NEW t \in Nat, SendingRight(s, t), NEW id \in DOMAIN s.network, t < id
  PROVE  /\ s.network[id] \in Seq(Bunch) /\ id \in Nat
         /\ \A j \in DOMAIN s.network[id] : InFlight(s, s.network[id][j])
<1>1. /\ s \in SenderState /\ PacketsRight(s) /\ NumbersRight(s) /\ Placed(s, t, Len(s.OutRec))
  BY DEF SendingRight
<1>2. s.network \in Seq(Seq(Bunch)) /\ DOMAIN s.network = 1 .. Len(s.network)
      /\ Len(s.network) \in Nat
  BY <1>1, SenderFields
<1>3. s.network[id] \in Seq(Bunch) /\ id \in Nat /\ id > t
  BY <1>2
<1>4. ASSUME NEW j \in DOMAIN s.network[id] PROVE InFlight(s, s.network[id][j])
  <2> DEFINE bunch == s.network[id][j]
  <2>1. bunch \in InPacket(s, id)
    BY DEF InPacket, ToSet
  <2>2. bunch \in Bunch
    BY <1>3
  <2> HIDE DEF bunch
  <2>3. Sound(bunch)
    BY <1>1, <1>3, <2>1 DEF PacketsRight
  <2>4. ASSUME bunch.bReliable
        PROVE  \E n \in Released(s) + 1 .. Count(s) : bunch = Numbered(s, n)
    <3>1. PICK i \in DOMAIN s.OutRec : s.OutRec[i].bunch = bunch
      BY <1>1, <1>3, <2>1, <2>4 DEF Placed
    <3>2. Released(s) + i \in Released(s) + 1 .. Count(s)
      BY <1>1, Counts DEF NumbersRight
    <3> QED BY <1>1, <3>1, <3>2 DEF NumbersRight
  <2> QED BY <2>2, <2>3, <2>4 DEF InFlight, bunch
<1> QED BY <1>3, <1>4

\* The last bunch is in one packet only, if it may be merged with.
LEMMA NotSentYet ==
  ASSUME NEW s, NEW t \in Nat, SendingRight(s, t), MergesRight(s), t <= Len(s.network),
         Mergeable(s), NEW id \in DOMAIN s.network, t < id, NEW j \in DOMAIN s.network[id],
         s.network[id][j].bReliable
  PROVE  s.network[id][j] # Numbered(s, Count(s))
<1> SUFFICES ASSUME s.network[id][j] = Numbered(s, Count(s)) PROVE FALSE
  OBVIOUS
<1>1. /\ s \in SenderState /\ NumbersRight(s) /\ Placed(s, t, Len(s.OutRec))
  BY DEF SendingRight
<1> DEFINE L == Len(s.OutRec)
<1>2. /\ L \in Nat \ {0} /\ L \in DOMAIN s.OutRec /\ Count(s) = Released(s) + L
      /\ s.OutRec[L].bunch = Numbered(s, Count(s))
      /\ s.OutRec[L].PacketId = Len(s.network) + 1
  BY LastWritten
<1>3. Len(s.network) \in Nat /\ id \in 1 .. Len(s.network) /\ id \in Nat /\ id > t
  BY <1>1, SenderLengths
<1>4. s.network[id][j] \in InPacket(s, id)
  BY DEF InPacket, ToSet
<1>5. PICK i \in DOMAIN s.OutRec :
        s.OutRec[i].bunch = s.network[id][j] /\ s.OutRec[i].PacketId = id
  BY <1>1, <1>3, <1>4 DEF Placed
<1>6. s.OutRec[i].bunch.ChSequence = s.OutRec[L].bunch.ChSequence
  BY <1>2, <1>5
<1>7. i = L
  <2>1. s.OutRec[i].bunch.ChSequence = InitReliable + Released(s) + i
    BY <1>1, BufferNumbers
  <2>2. s.OutRec[L].bunch.ChSequence = InitReliable + Released(s) + L
    BY <1>1, <1>2, BufferNumbers
  <2>3. InitReliable \in Nat /\ Released(s) \in 0 .. Count(s) /\ Count(s) \in Nat
        /\ DOMAIN s.OutRec = 1 .. L
    BY <1>1, Counts, Constants, SenderLengths DEF NumbersRight
  <2> QED BY <1>2, <1>6, <2>1, <2>2, <2>3
<1> QED BY <1>2, <1>3, <1>5, <1>7

\* What the client acknowledged after the packet.
Acked(acked, id, y) == IF y.bSkipAck THEN acked ELSE acked \cup {id}

\* The client goes on from what it had handled.
GoesOnFrom(c, y) == y \in ReceiverState /\ \E more \in Stream : y.stream = c.stream \o more

\* The client as it starts on a packet is right.
LEMMA AckingSame ==
  ASSUME NEW s, NEW c, ClientRight(c, s, 1)
  PROVE  /\ ClientRight(Acking(c), s, 1) /\ c \in ReceiverState /\ Acking(c) \in ReceiverState
         /\ Acking(c).InReliable = c.InReliable /\ Acking(c).InRec = c.InRec
         /\ Acking(c).received = c.received /\ Acking(c).stream = c.stream
<1> DEFINE no == FALSE
           a == [c EXCEPT !.bSkipAck = no]
<1>1. no = FALSE
  OBVIOUS
<1>2. Acking(c) = a
  BY DEF Acking
<1> HIDE DEF no
<1>3. /\ ClientRight(a, s, 1) /\ c \in ReceiverState /\ a \in ReceiverState
      /\ a.InReliable = c.InReliable /\ a.InRec = c.InRec
      /\ a.received = c.received /\ a.stream = c.stream
  BY <1>1, AckingFields
<1> HIDE DEF a
<1> QED BY <1>2, <1>3

\* A packet that arrives keeps the client right, and is acknowledged only if processed.
LEMMA ArrivedRight ==
  ASSUME NEW s, NEW t \in Nat, SenderRight(s, t), t <= Len(s.network), Room(s), NEW c, NEW acked,
         acked \subseteq DOMAIN s.network, ClientSide(c, s, acked),
         NEW id \in DOMAIN s.network, t < id, NEW packet, packet = s.network[id]
  PROVE  LET y == DispatchPacket(c, packet, id)
         IN  ClientSide(y, s, Acked(acked, id, y)) /\ GoesOnFrom(c, y)
<1> DEFINE y == DispatchPacket(c, packet, id)
           x == Acking(c)
<1>1. /\ SendingRight(s, t) /\ s \in SenderState /\ NumbersRight(s) /\ MergesRight(s)
  BY DEF SenderRight, SendingRight
<1>2. /\ ClientRight(c, s, 1) /\ MergeIsUnseen(c, s) /\ AcksRight(c, s)
      /\ AcceptedRight(c, s, acked)
  BY DEF ClientSide
<1>3. /\ packet \in Seq(Bunch) /\ id \in Nat
      /\ \A j \in DOMAIN packet : InFlight(s, packet[j])
  BY <1>1, PacketFlies
<1>4. Heard(s, Acking(c), packet, Len(packet), y)
  BY <1>1, <1>2, <1>3, PacketHeard
<1>5. Acking(c) = x
  OBVIOUS
<1> HIDE DEF y
<1>6. /\ ClientRight(x, s, 1) /\ c \in ReceiverState /\ x \in ReceiverState
      /\ x.InReliable = c.InReliable /\ x.InRec = c.InRec /\ x.received = c.received
      /\ x.stream = c.stream
  <2>1. ClientRight(c, s, 1)
    BY <1>2
  <2> QED BY <1>5, <2>1, AckingSame
<1> HIDE DEF x
<1>7. /\ ClientRight(y, s, 1) /\ Grows(x, y) /\ y \in ReceiverState
      /\ \A j \in 1 .. Len(packet) : y.bSkipAck \/ ProcessedBy(y, packet[j])
      /\ \A n \in Nat : Has(y, n) =>
           \/ Has(x, n)
           \/ \E j \in 1 .. Len(packet) : packet[j].bReliable /\ packet[j] = Numbered(s, n)
  BY <1>4, <1>5 DEF Heard, ClientRight
<1>8. \A n : Has(c, n) = Has(x, n)
  BY <1>6 DEF Has, InNumber
<1>9. MergeIsUnseen(y, s)
  <2> SUFFICES ASSUME Mergeable(s), Has(y, Count(s)) PROVE FALSE
    BY DEF MergeIsUnseen
  <2>1. ~Has(x, Count(s))
    BY <1>2, <1>8 DEF MergeIsUnseen
  <2>2. Count(s) \in Nat
    BY <1>1, Counts DEF NumbersRight
  <2>3. PICK j \in 1 .. Len(packet) :
          packet[j].bReliable /\ packet[j] = Numbered(s, Count(s))
    BY <1>7, <2>1, <2>2
  <2>4. j \in DOMAIN packet
    BY <1>3
  <2> QED BY <1>1, <2>3, <2>4, NotSentYet
<1>10. AcksRight(y, s)
  <2>1. ASSUME NEW i \in DOMAIN s.OutRec, s.OutRec[i].ReceivedAck
        PROVE  Has(y, Released(s) + i)
    <3> DEFINE n == Released(s) + i
    <3>1. n \in Nat
      <4>1. n \in 1 .. Count(s)
        BY <1>1, BufferNumbers
      <4> HIDE DEF n
      <4> QED BY <4>1
    <3>2. Has(x, n)
      BY <1>2, <1>8, <2>1 DEF AcksRight
    <3> HIDE DEF n
    <3>3. Has(y, n)
      BY <1>6, <1>7, <3>1, <3>2, HasGrows
    <3> QED BY <3>3 DEF n
  <2> QED BY <2>1 DEF AcksRight
<1>11. AcceptedRight(y, s, Acked(acked, id, y))
  <2>1. s.network \in Seq(Seq(Bunch))
    BY <1>1, SenderFields
  <2>2. ASSUME NEW n \in acked, NEW i \in DOMAIN s.network[n]
        PROVE  ProcessedBy(y, s.network[n][i])
    <3>1. ProcessedBy(c, s.network[n][i])
      BY <1>2 DEF AcceptedRight
    <3>2. ProcessedBy(x, s.network[n][i])
      BY <1>6, <3>1 DEF ProcessedBy
    <3>3. s.network[n] \in Seq(Bunch)
      BY <2>1
    <3>4. s.network[n][i] \in Bunch
      BY <3>3
    <3> QED BY <1>6, <1>7, <3>2, <3>4, ProcessedGrows
  <2>3. ASSUME ~y.bSkipAck, NEW i \in DOMAIN s.network[id]
        PROVE  ProcessedBy(y, s.network[id][i])
    <3>1. i \in 1 .. Len(packet)
      BY <1>3
    <3> QED BY <1>7, <2>3, <3>1
  <2> QED BY <2>2, <2>3 DEF AcceptedRight, Acked
<1>12. GoesOnFrom(c, y)
  BY <1>6, <1>7 DEF Grows, GoesOnFrom
<1> QED BY <1>7, <1>9, <1>10, <1>11, <1>12 DEF ClientSide, y

-----------------------------------------------------------------------------
(* The inductive invariant                                                 *)

\* The invariant by its sides.
LEMMA InvariantIs ==
  IInv <=> /\ TypeOK /\ settled <= Len(server.network)
           /\ SenderRight(server, told) /\ ClientSide(client, server, accepted)
BY DEF IInv, ClientSide

\* What IInv says apart from the types of the variables that only count.
Sides(s, c, t, settledTo, acked) ==
  /\ s \in SenderState /\ ~s.ChannelsToClose /\ c \in ReceiverState
  /\ settledTo \in Nat /\ t \in Nat /\ t <= settledTo /\ settledTo <= Len(s.network)
  /\ acked \in SUBSET (1 .. settledTo)
  /\ SenderRight(s, t) /\ ClientSide(c, s, acked)

Bounds == {openings, messages, lost} \subseteq Nat

\* The invariant, apart from what only counts, is about the two sides.
LEMMA InvariantParts == IInv <=> Sides(server, client, told, settled, accepted) /\ Bounds
BY InvariantIs DEF Sides, Bounds, TypeOK

\* The types and bounds of the two sides.
LEMMA SidesFacts ==
  ASSUME NEW s, NEW c, NEW t, NEW u, NEW acked, Sides(s, c, t, u, acked)
  PROVE  /\ s \in SenderState /\ t \in Nat /\ u \in Nat /\ Len(s.network) \in Nat
         /\ t <= u /\ u <= Len(s.network) /\ t <= Len(s.network)
         /\ acked \subseteq DOMAIN s.network /\ DOMAIN s.network = 1 .. Len(s.network)
<1>1. s \in SenderState /\ t \in Nat /\ u \in Nat /\ t <= u /\ u <= Len(s.network)
      /\ acked \in SUBSET (1 .. u)
  BY DEF Sides
<1>2. Len(s.network) \in Nat /\ DOMAIN s.network = 1 .. Len(s.network)
  BY <1>1, SenderLengths
<1> QED BY <1>1, <1>2

\* A server that did what ServerKept says.
LEMMA SidesKept ==
  ASSUME NEW s, NEW c, NEW t, NEW u, NEW acked, Sides(s, c, t, u, acked), NEW t2 \in Nat, t2 <= u,
         NEW y, ServerKept(s, t2, c, acked, y)
  PROVE  Sides(y, c, t2, u, acked)
<1>1. /\ s \in SenderState /\ u \in Nat /\ Len(s.network) \in Nat /\ u <= Len(s.network)
  BY SidesFacts
<1>2. y \in SenderState /\ Len(s.network) <= Len(y.network)
  BY DEF ServerKept, SentStays
<1>3. u <= Len(y.network)
  BY <1>1, <1>2, SenderLengths
<1> QED BY <1>1, <1>2, <1>3 DEF Sides, ServerKept

\* The data of a message.
LEMMA UnitsType ==
  ASSUME NEW n \in Nat, NEW size \in Nat, NEW update \in BOOLEAN
  PROVE  Units(n, size, update) \in Seq(Unit) /\ Len(Units(n, size, update)) = size
<1> DEFINE U == Units(n, size, update)
<1>1. U = [part \in 1 .. size |-> [message |-> n, part |-> part, of |-> size, update |-> update]]
  BY DEF Units
<1>2. \A part \in 1 .. size :
        [message |-> n, part |-> part, of |-> size, update |-> update] \in Unit
  BY DEF Unit
<1>3. U \in [1 .. size -> Unit]
  BY <1>1, <1>2
<1> HIDE DEF U
<1>4. U \in Seq(Unit) /\ Len(U) = size
  BY <1>3
<1> QED BY <1>4 DEF U

\* The invariant after a step, by its parts.
LEMMA InvariantPartsNext ==
  ASSUME Sides(server', client', told', settled', accepted'),
         openings' \in Nat, messages' \in Nat, lost' \in Nat
  PROVE  IInv'
BY DEF IInv, TypeOK, Sides, ClientSide

\* The two sides as they start.
LEMMA InitSides ==
  ASSUME Init
  PROVE  /\ server \in SenderState /\ client \in ReceiverState /\ SenderRight(server, 0)
         /\ ClientSide(client, server, {})
<1>1. /\ server.exists = FALSE /\ server.OpenPacketId = 0 /\ server.OpenAcked = FALSE
      /\ server.Closing = FALSE /\ server.OutRec = << >> /\ server.OutReliable = InitReliable
      /\ server.SendBuffer = << >> /\ server.ChannelsToClose = FALSE
      /\ server.network = << >> /\ server.sent = << >> /\ server.numbered = << >>
  BY DEF Init
<1>2. server \in SenderState
  <2>1. InitReliable \in Nat
    BY Constants
  <2>2. << >> \in Stream
    BY StreamFacts
  <2> QED BY <2>1, <2>2 DEF Init, SenderState
<1>3. /\ client.exists = FALSE /\ client.OpenAcked = FALSE /\ client.InRec = << >>
      /\ client.InPartialBunch = None /\ client.InReliable = InitReliable
      /\ client.errors = << >> /\ client.received = << >> /\ client.stream = << >>
  BY DEF Init
<1>4. client \in ReceiverState
  <2>1. InitReliable \in Nat
    BY Constants
  <2>2. << >> \in Stream
    BY StreamFacts
  <2> QED BY <2>1, <2>2 DEF Init, ReceiverState
<1>5. Count(server) = 0 /\ Released(server) = 0
  BY <1>1 DEF Count, Released
<1>6. \A id \in Nat : InPacket(server, id) = {}
  BY <1>1 DEF InPacket, ToSet
<1>7. PacketsRight(server) /\ Placed(server, 0, Len(server.OutRec))
  BY <1>1, <1>6 DEF PacketsRight, Placed
<1>8. NumbersRight(server)
  <2>1. Len(server.OutRec) = 0 /\ InitReliable \in Nat
    BY <1>1, Constants
  <2> QED BY <1>1, <1>5, <2>1 DEF NumbersRight
<1>9. ~Mergeable(server)
  BY <1>1 DEF Mergeable
<1>10. ChannelRight(server)
  BY <1>1, <1>5 DEF ChannelRight, Fresh
<1>11. ~InMessage(server, Count(server)) /\ Upto(server, Count(server)) = << >>
  BY <1>5 DEF InMessage, Upto
<1>12. SenderRight(server, 0)
  BY <1>1, <1>2, <1>7, <1>8, <1>9, <1>10, <1>11 DEF SenderRight, SendingRight, MergesRight
<1>13. InNumber(client) = 0
  BY <1>3, Constants DEF InNumber
<1>14. ClientRight(client, server, 1)
  <2>1. QueueRight(client, server, 1)
    BY <1>3 DEF QueueRight
  <2>2. PartialRight(client, server)
    BY <1>3, <1>13 DEF PartialRight, InMessage, Upto
  <2>3. ~Opened(server, 0)
    BY DEF Opened
  <2> QED BY <1>3, <1>4, <1>5, <1>13, <2>1, <2>2, <2>3 DEF ClientRight
<1>15. AcksRight(client, server) /\ AcceptedRight(client, server, {})
  BY <1>1 DEF AcksRight, AcceptedRight
<1> QED BY <1>2, <1>4, <1>9, <1>12, <1>14, <1>15 DEF ClientSide, MergeIsUnseen

\* The initial states satisfy the invariant.
THEOREM InitInvariant == Init => IInv
<1> SUFFICES ASSUME Init PROVE IInv
  OBVIOUS
<1>1. /\ server \in SenderState /\ client \in ReceiverState /\ SenderRight(server, 0)
      /\ ClientSide(client, server, {})
  BY InitSides
<1>2. /\ settled = 0 /\ accepted = {} /\ told = 0 /\ openings = 0 /\ messages = 0 /\ lost = 0
      /\ server.ChannelsToClose = FALSE /\ server.network = << >>
  BY DEF Init
<1>3. Sides(server, client, told, settled, accepted) /\ Bounds
  BY <1>1, <1>2 DEF Sides, Bounds
<1> QED BY <1>3, InvariantParts

\* The variables that only count.
LEMMA BoundsAre == Bounds <=> openings \in Nat /\ messages \in Nat /\ lost \in Nat
BY DEF Bounds

CreateRight(y) == y.sent = server.sent

\* CreateChannel keeps the invariant.
LEMMA CreateSides ==
  ASSUME IInv, CreateChannel
  PROVE  /\ Sides(server', client, told, settled, accepted) /\ server'.sent = server.sent
<1>1. Sides(server, client, told, settled, accepted)
  BY InvariantParts
<1>2. /\ SenderRight(server, told) /\ ClientSide(client, server, accepted)
      /\ ~server.ChannelsToClose /\ told \in Nat /\ told <= settled
  BY <1>1 DEF Sides
<1>3. accepted \subseteq DOMAIN server.network
  BY <1>1, SidesFacts
<1>4. ~server.exists /\ server' = NewChannel(server)
  BY DEF CreateChannel
<1>5. /\ ServerKept(server, told, client, accepted, NewChannel(server))
      /\ NewChannel(server).sent = server.sent
  BY <1>2, <1>3, <1>4, ChannelCreated
<1> QED BY <1>1, <1>2, <1>4, <1>5, SidesKept

\* Flush keeps the invariant.
LEMMA FlushSides ==
  ASSUME IInv, Flush
  PROVE  /\ Sides(server', client, told, settled, accepted) /\ server'.sent = server.sent
<1>1. Sides(server, client, told, settled, accepted)
  BY InvariantParts
<1>2. /\ SenderRight(server, told) /\ ClientSide(client, server, accepted)
      /\ ~server.ChannelsToClose /\ told \in Nat /\ told <= settled
  BY <1>1 DEF Sides
<1>3. accepted \subseteq DOMAIN server.network
  BY <1>1, SidesFacts
<1>4. server' = FlushNet(server)
  BY DEF Flush
<1>5. /\ ServerKept(server, told, client, accepted, FlushNet(server))
      /\ FlushNet(server).sent = server.sent
  BY <1>2, <1>3, Flushed
<1> QED BY <1>1, <1>2, <1>4, <1>5, SidesKept

\* What sending does to what was sent.
SentMore(s, y) == y.sent = s.sent \/ \E data \in Seq(Unit), bClose \in BOOLEAN :
                                       y.sent = s.sent \o Carried(data, bClose)

\* Sending a message keeps the invariant, and is added to what was sent.
LEMMA MessageSides ==
  ASSUME NEW s, NEW c, NEW t, NEW u, NEW acked, Sides(s, c, t, u, acked),
         s.exists, ~s.Closing, NEW message, Message(s, message), NEW merge \in BOOLEAN
  PROVE  LET y == SendBunch(s, message, merge)
         IN  Sides(y, c, t, u, acked) /\ SentMore(s, y)
<1> DEFINE y == SendBunch(s, message, merge)
<1>1. /\ SenderRight(s, t) /\ ClientSide(c, s, acked) /\ ~s.ChannelsToClose
      /\ t \in Nat /\ t <= u
  BY DEF Sides
<1>2. acked \subseteq DOMAIN s.network /\ t <= Len(s.network) /\ s \in SenderState
  BY SidesFacts
<1>3. MaySend(s, t)
  BY <1>1, <1>2 DEF MaySend
<1>4. /\ ServerKept(s, t, c, acked, y)
      /\ y.sent = s.sent \/ y.sent = s.sent \o Carried(message.Data, message.bClose)
  BY <1>1, <1>2, <1>3, SentKept
<1> HIDE DEF y
<1>5. Sides(y, c, t, u, acked)
  BY <1>1, <1>4, SidesKept
<1>6. message.Data \in Seq(Unit) /\ message.bClose \in BOOLEAN
  BY DEF Message
<1>7. SentMore(s, y)
  BY <1>4, <1>6 DEF SentMore
<1> QED BY <1>5, <1>7 DEF y

\* The data of the next message.
LEMMA MessageUnits ==
  ASSUME NEW m \in Nat, NEW size \in Nat
  PROVE  Units(m + 1, size, FALSE) \in Seq(Unit) /\ Units(m + 1, size, TRUE) \in Seq(Unit)
<1> DEFINE n == m + 1
<1>1. n \in Nat
  OBVIOUS
<1> HIDE DEF n
<1>2. \A update \in BOOLEAN : Units(n, size, update) \in Seq(Unit)
  BY <1>1, UnitsType
<1>3. Units(n, size, FALSE) \in Seq(Unit) /\ Units(n, size, TRUE) \in Seq(Unit)
  BY <1>2
<1> QED BY <1>3 DEF n

\* SendReliable and Close keep the invariant.
LEMMA SendSides ==
  ASSUME IInv, NEW bClose \in BOOLEAN, NEW size \in Nat, NEW merge \in BOOLEAN,
         Send(TRUE, bClose, size, merge)
  PROVE  /\ Sides(server', client, told, settled, accepted) /\ SentMore(server, server')
<1> DEFINE message == [bReliable |-> TRUE, bClose |-> bClose,
                       Data |-> Units(messages + 1, size, FALSE)]
<1>1. Sides(server, client, told, settled, accepted) /\ messages \in Nat
  BY InvariantParts, BoundsAre
<1>2. server.exists /\ ~server.Closing /\ server' = SendBunch(server, message, merge)
  BY DEF Send
<1>3. Units(messages + 1, size, FALSE) \in Seq(Unit)
  BY <1>1, MessageUnits
<1>4. Message(server, message)
  BY <1>3 DEF Message
<1> HIDE DEF message
<1> QED BY <1>1, <1>2, <1>4, MessageSides

Unpaused(s) == [s EXCEPT !.bPausedUntilReliableACK = FALSE]

\* What resuming after a large update changes.
LEMMA UnpausedFields ==
  ASSUME NEW s \in SenderState
  PROVE  LET y == Unpaused(s)
         IN  /\ y \in SenderState
             /\ y.SendBuffer = s.SendBuffer /\ y.network = s.network /\ y.OutRec = s.OutRec
             /\ y.OutReliable = s.OutReliable /\ y.numbered = s.numbered
             /\ y.AllowMerge = s.AllowMerge /\ y.exists = s.exists
             /\ y.OpenPacketId = s.OpenPacketId /\ y.OpenAcked = s.OpenAcked
             /\ y.Closing = s.Closing /\ y.ChannelsToClose = s.ChannelsToClose
             /\ y.sent = s.sent
BY DEF Unpaused, SenderState

\* Resuming after a large update keeps the invariant.
LEMMA UnpausedSides ==
  ASSUME NEW s, NEW c, NEW t, NEW u, NEW acked, Sides(s, c, t, u, acked)
  PROVE  Sides(Unpaused(s), c, t, u, acked)
<1> DEFINE y == Unpaused(s)
<1>1. s \in SenderState /\ acked \subseteq DOMAIN s.network /\ SenderRight(s, t)
      /\ ClientSide(c, s, acked)
  BY SidesFacts DEF Sides
<1>2. /\ y \in SenderState
      /\ y.SendBuffer = s.SendBuffer /\ y.network = s.network /\ y.OutRec = s.OutRec
      /\ y.OutReliable = s.OutReliable /\ y.numbered = s.numbered
      /\ y.AllowMerge = s.AllowMerge /\ y.exists = s.exists
      /\ y.OpenPacketId = s.OpenPacketId /\ y.OpenAcked = s.OpenAcked
      /\ y.Closing = s.Closing /\ y.ChannelsToClose = s.ChannelsToClose
      /\ y.sent = s.sent
  BY <1>1, UnpausedFields
<1> HIDE DEF y
<1>3. SenderRight(y, t)
  BY <1>1, <1>2, SenderSame
<1>4. NumbersRight(s) /\ NumbersRight(y)
  BY <1>1, <1>3 DEF SenderRight, SendingRight
<1>5. ClientSide(c, y, acked)
  BY <1>1, <1>2, <1>4, SideSame
<1> QED BY <1>2, <1>3, <1>5 DEF Sides, y

\* ReplicateActor keeps the invariant.
LEMMA ReplicateSides ==
  ASSUME IInv, NEW size \in Nat, ReplicateActor(size)
  PROVE  /\ Sides(server', client, told, settled, accepted) /\ SentMore(server, server')
<1> DEFINE message == [bReliable |-> FALSE, bClose |-> FALSE,
                       Data |-> Units(messages + 1, size, TRUE)]
           x == Unpaused(server)
           merge == TRUE
<1>1. Sides(server, client, told, settled, accepted) /\ messages \in Nat
  BY InvariantParts, BoundsAre
<1>2. /\ server.exists /\ ~server.Closing /\ server.OpenPacketId # 0
      /\ server' = SendBunch(x, message, merge)
  BY DEF ReplicateActor, Unpaused
<1>3. Units(messages + 1, size, TRUE) \in Seq(Unit)
  BY <1>1, MessageUnits
<1>4. /\ x.exists = server.exists /\ x.Closing = server.Closing /\ x.sent = server.sent
      /\ x.OpenPacketId = server.OpenPacketId
  BY <1>1, SidesFacts, UnpausedFields
<1>5. Sides(x, client, told, settled, accepted)
  BY <1>1, UnpausedSides
<1> HIDE DEF x
<1>6. Message(x, message)
  BY <1>2, <1>3, <1>4 DEF Message
<1> HIDE DEF message
<1>7. merge \in BOOLEAN
  OBVIOUS
<1> HIDE DEF merge
<1>8. Sides(server', client, told, settled, accepted) /\ SentMore(x, server')
  BY <1>2, <1>4, <1>5, <1>6, <1>7, MessageSides
<1> QED BY <1>4, <1>8 DEF SentMore

\* Arrive keeps the invariant.
LEMMA ArriveSides ==
  ASSUME IInv, HasRoom, Arrive
  PROVE  /\ Sides(server, client', told, settled', accepted') /\ GoesOnFrom(client, client')
<1> DEFINE id == settled + 1
           y == DispatchPacket(client, server.network[id], id)
           acked == Acked(accepted, id, y)
<1>1. Sides(server, client, told, settled, accepted)
  BY InvariantParts
<1>2. /\ settled < Len(server.network) /\ settled' = id /\ client' = y /\ accepted' = acked
  BY DEF Arrive, Acked
<1>3. /\ server \in SenderState /\ told \in Nat /\ settled \in Nat
      /\ Len(server.network) \in Nat /\ told <= settled /\ told <= Len(server.network)
      /\ accepted \subseteq DOMAIN server.network
      /\ DOMAIN server.network = 1 .. Len(server.network)
  BY <1>1, SidesFacts
<1>4. /\ SenderRight(server, told) /\ ClientSide(client, server, accepted)
      /\ ~server.ChannelsToClose /\ accepted \in SUBSET (1 .. settled)
  BY <1>1 DEF Sides
<1>5. Room(server)
  BY DEF HasRoom, Room
<1>6. /\ id \in Nat /\ told <= id /\ id <= Len(server.network) /\ told < id
      /\ id \in DOMAIN server.network /\ 1 .. settled \subseteq 1 .. id /\ id \in 1 .. id
  BY <1>2, <1>3
<1> HIDE DEF id
<1>7. ClientSide(y, server, acked) /\ GoesOnFrom(client, y)
  BY <1>3, <1>4, <1>5, <1>6, ArrivedRight
<1>8. acked \in SUBSET (1 .. id)
  BY <1>4, <1>6 DEF Acked
<1> HIDE DEF y, acked
<1>9. y \in ReceiverState
  BY <1>7 DEF GoesOnFrom
<1>10. Sides(server, y, told, id, acked)
  BY <1>3, <1>4, <1>6, <1>7, <1>8, <1>9 DEF Sides
<1> QED BY <1>2, <1>7, <1>10

\* LosePacket keeps the invariant.
LEMMA LoseSides ==
  ASSUME IInv, LosePacket
  PROVE  Sides(server, client, told, settled', accepted)
<1>1. Sides(server, client, told, settled, accepted)
  BY InvariantParts
<1>2. settled < Len(server.network) /\ settled' = settled + 1
  BY DEF LosePacket
<1>3. /\ told \in Nat /\ settled \in Nat /\ Len(server.network) \in Nat /\ told <= settled
  BY <1>1, SidesFacts
<1>4. accepted \in SUBSET (1 .. settled)
  BY <1>1 DEF Sides
<1>5. /\ settled' \in Nat /\ told <= settled' /\ settled' <= Len(server.network)
      /\ 1 .. settled \subseteq 1 .. settled'
  BY <1>2, <1>3
<1>6. accepted \in SUBSET (1 .. settled')
  BY <1>4, <1>5
<1> QED BY <1>1, <1>5, <1>6 DEF Sides

\* Notify keeps the invariant.
LEMMA NotifySides ==
  ASSUME IInv, NEW id \in told + 1 .. settled, NEW reached \in BOOLEAN, Notify(id, reached)
  PROVE  /\ Sides(server', client, told', settled, accepted) /\ told' = id
         /\ server'.sent = server.sent
<1> DEFINE x == AfterNotifications(server, told, id, accepted)[id - told]
           y == CloseChannels(x, reached)
<1>1. Sides(server, client, told, settled, accepted)
  BY InvariantParts
<1>2. server' = y /\ told' = id
  BY DEF Notify
<1>3. /\ server \in SenderState /\ told \in Nat /\ settled \in Nat
      /\ Len(server.network) \in Nat /\ settled <= Len(server.network)
      /\ accepted \subseteq DOMAIN server.network
  BY <1>1, SidesFacts
<1>4. SenderRight(server, told) /\ ClientSide(client, server, accepted)
  BY <1>1 DEF Sides
<1>5. id \in Nat /\ told <= id /\ id <= settled /\ id <= Len(server.network)
  BY <1>3
<1>6. Told(server, id, client, accepted, x)
  BY <1>3, <1>4, <1>5, NotificationsRight
<1> HIDE DEF x
<1>7. /\ SenderRight(x, id) /\ ClientSide(client, x, accepted) /\ SentStays(server, x)
      /\ x.sent = server.sent
  BY <1>6 DEF Told
<1>8. x \in SenderState
  BY <1>7 DEF SenderRight, SendingRight
<1>9. accepted \subseteq DOMAIN x.network
  BY <1>3, <1>7 DEF SentStays
<1>10. ServerKept(x, id, client, accepted, y) /\ y.sent = x.sent
  BY <1>7, <1>9, ChannelsClosed
<1> HIDE DEF y
<1>11. y \in SenderState /\ SentStays(x, y)
  BY <1>10 DEF ServerKept
<1>12. SentStays(server, y)
  BY <1>3, <1>7, <1>8, <1>11, SentStaysTransitive
<1>13. ServerKept(server, id, client, accepted, y)
  BY <1>10, <1>12 DEF ServerKept
<1>14. Sides(y, client, id, settled, accepted)
  BY <1>1, <1>5, <1>13, SidesKept
<1> QED BY <1>2, <1>7, <1>10, <1>14

-----------------------------------------------------------------------------

\* What a step does to what was sent and to what was handled.
StreamStep ==
  \/ client' = client /\ SentMore(server, server')
  \/ server' = server /\ GoesOnFrom(client, client')

NextSides ==
  /\ Sides(server', client', told', settled', accepted')
  /\ openings' \in Nat /\ messages' \in Nat /\ lost' \in Nat
  /\ StreamStep

\* Every step keeps the invariant.
LEMMA NextKeeps ==
  ASSUME IInv, HasRoom, Next
  PROVE  NextSides
<1>1. /\ Sides(server, client, told, settled, accepted)
      /\ openings \in Nat /\ messages \in Nat /\ lost \in Nat
  BY InvariantParts, BoundsAre
<1> DEFINE Same == /\ client' = client /\ settled' = settled /\ accepted' = accepted
                   /\ openings' \in Nat /\ messages' \in Nat /\ lost' \in Nat
<1>2. CASE CreateChannel
  <2>1. Same /\ told' = told
    BY <1>1, <1>2 DEF CreateChannel
  <2>2. Sides(server', client, told, settled, accepted) /\ server'.sent = server.sent
    BY <1>2, CreateSides
  <2> QED BY <2>1, <2>2 DEF NextSides, StreamStep, SentMore
<1>3. ASSUME NEW bClose \in BOOLEAN, NEW size \in Nat, NEW merge \in BOOLEAN,
             Send(TRUE, bClose, size, merge)
      PROVE  NextSides
  <2>1. Same /\ told' = told
    BY <1>1, <1>3 DEF Send
  <2>2. Sides(server', client, told, settled, accepted) /\ SentMore(server, server')
    BY <1>3, SendSides
  <2> QED BY <2>1, <2>2 DEF NextSides, StreamStep
<1>4. ASSUME NEW size \in ReliableSizes, SendReliable(size) PROVE NextSides
  <2>1. Send(TRUE, FALSE, size, TRUE)
    BY <1>4 DEF SendReliable
  <2>2. size \in Nat
    BY Constants
  <2> QED BY <1>3, <2>1, <2>2
<1>5. ASSUME NEW size \in PropertySizes, ReplicateActor(size) PROVE NextSides
  <2>1. Same /\ told' = told
    BY <1>1, <1>5 DEF ReplicateActor
  <2>2. size \in Nat
    BY Constants
  <2>3. Sides(server', client, told, settled, accepted) /\ SentMore(server, server')
    BY <1>5, <2>2, ReplicateSides
  <2> QED BY <2>1, <2>3 DEF NextSides, StreamStep
<1>6. ASSUME NEW size \in ClosingSizes, Close(size) PROVE NextSides
  <2>1. Send(TRUE, TRUE, size, size > 0)
    BY <1>6 DEF Close
  <2>2. size \in Nat
    BY Constants
  <2>3. (size > 0) \in BOOLEAN
    BY <2>2
  <2> QED BY <1>3, <2>1, <2>2, <2>3
<1>7. CASE Flush
  <2>1. Same /\ told' = told
    BY <1>1, <1>7 DEF Flush
  <2>2. Sides(server', client, told, settled, accepted) /\ server'.sent = server.sent
    BY <1>7, FlushSides
  <2> QED BY <2>1, <2>2 DEF NextSides, StreamStep, SentMore
<1>8. CASE Arrive
  <2>1. /\ server' = server /\ told' = told
        /\ openings' \in Nat /\ messages' \in Nat /\ lost' \in Nat
    BY <1>1, <1>8 DEF Arrive
  <2>2. Sides(server, client', told, settled', accepted') /\ GoesOnFrom(client, client')
    BY <1>8, ArriveSides
  <2> QED BY <2>1, <2>2 DEF NextSides, StreamStep
<1>9. CASE LosePacket
  <2>1. /\ server' = server /\ client' = client /\ told' = told /\ accepted' = accepted
        /\ openings' \in Nat /\ messages' \in Nat /\ lost' \in Nat
    BY <1>1, <1>9 DEF LosePacket
  <2>2. Sides(server, client, told, settled', accepted)
    BY <1>9, LoseSides
  <2> QED BY <2>1, <2>2 DEF NextSides, StreamStep, SentMore
<1>10. ASSUME NEW id \in told + 1 .. settled, NEW reached \in BOOLEAN, Notify(id, reached)
       PROVE  NextSides
  <2>1. Same
    BY <1>1, <1>10 DEF Notify
  <2>2. Sides(server', client, told', settled, accepted) /\ server'.sent = server.sent
    BY <1>10, NotifySides
  <2> QED BY <2>1, <2>2 DEF NextSides, StreamStep, SentMore
<1>11. CASE NotifyInWait
  BY <1>10, <1>11 DEF NotifyInWait
<1>12. ASSUME NEW id \in told + 1 .. settled, Notify(id, TRUE) PROVE NextSides
  BY <1>10, <1>12
<1> QED BY <1>2, <1>4, <1>5, <1>6, <1>7, <1>8, <1>9, <1>11, <1>12 DEF Next

\* The invariant about the reliable bunches, and how the numbers are ordered.
LEMMA SidesParts ==
  ASSUME NEW s, NEW c, NEW t, NEW u, NEW acked, Sides(s, c, t, u, acked)
  PROVE  /\ s \in SenderState /\ NumbersRight(s) /\ ChannelRight(s) /\ ClientRight(c, s, 1)
         /\ ~InMessage(s, Count(s)) /\ s.sent = Upto(s, Count(s)) /\ AcceptedRight(c, s, acked)
         /\ c \in ReceiverState /\ Count(s) \in Nat /\ Released(s) \in Nat
         /\ InNumber(c) \in Nat /\ InNumber(c) <= Count(s) /\ Released(s) <= InNumber(c)
         /\ Released(s) <= Count(s)
<1>1. /\ s \in SenderState /\ NumbersRight(s) /\ ChannelRight(s) /\ ClientRight(c, s, 1)
      /\ ~InMessage(s, Count(s)) /\ s.sent = Upto(s, Count(s)) /\ AcceptedRight(c, s, acked)
  BY DEF Sides, SenderRight, SendingRight, ClientSide
<1> DEFINE gap == 1
<1>2. gap \in {0, 1} /\ ClientRight(c, s, gap)
  BY <1>1
<1> HIDE DEF gap
<1>3. /\ c \in ReceiverState /\ Count(s) \in Nat /\ Released(s) \in 0 .. Count(s)
      /\ InNumber(c) \in 0 .. Count(s) /\ Released(s) <= InNumber(c)
  BY <1>1, <1>2, ClientCounts
<1> QED BY <1>1, <1>3

\* A channel that is given up was handled by the client to its end.
LEMMA GivenUp ==
  ASSUME NEW s, NEW c, NEW t, NEW u, NEW acked, Sides(s, c, t, u, acked), ~s.exists
  PROVE  c.stream = s.sent /\ ~c.exists
<1>1. /\ s \in SenderState /\ NumbersRight(s) /\ ChannelRight(s) /\ ClientRight(c, s, 1)
      /\ ~InMessage(s, Count(s)) /\ s.sent = Upto(s, Count(s))
      /\ c \in ReceiverState /\ Count(s) \in Nat /\ InNumber(c) \in Nat
      /\ InNumber(c) <= Count(s) /\ Released(s) <= InNumber(c)
  BY SidesParts
<1>2. s.OutRec = << >> /\ Fresh(s, Count(s))
  BY <1>1 DEF ChannelRight
<1>3. Released(s) = Count(s)
  <2>1. Len(s.OutRec) = 0
    BY <1>2
  <2> QED BY <1>1, <2>1 DEF Released
<1>4. InNumber(c) = Count(s)
  BY <1>1, <1>3
<1>5. c.stream = s.sent
  BY <1>1, <1>4 DEF ClientRight, PartialRight
<1>6. ~Opened(s, Count(s))
  BY <1>1, <1>2, OpenedStep
<1>7. ~c.OpenAcked
  BY <1>1, <1>4, <1>6 DEF ClientRight
<1>8. c.InRec = << >>
  <2>1. QueueRight(c, s, 1) /\ c.InRec \in Seq(Bunch)
    BY <1>1, ReceiverFields DEF ClientRight
  <2>2. \A k \in InNumber(c) + 1 + 1 .. Count(s) : FALSE
    BY <1>1, <1>4
  <2>3. \A i \in DOMAIN c.InRec : FALSE
    BY <2>1, <2>2 DEF QueueRight
  <2>4. c.InRec # << >> => 1 \in DOMAIN c.InRec
    <3> DEFINE q == c.InRec
    <3>1. q \in Seq(Bunch)
      BY <2>1
    <3> HIDE DEF q
    <3>2. q # << >> => 1 \in DOMAIN q
      BY <3>1
    <3> QED BY <3>2 DEF q
  <2> QED BY <2>3, <2>4
<1>9. ~c.exists
  BY <1>1, <1>4, <1>7, <1>8 DEF ClientRight
<1> QED BY <1>5, <1>9

\* A channel the server takes for open is open at the client, or was closed.
LEMMA OpenKnown ==
  ASSUME NEW s, NEW c, NEW t, NEW u, NEW acked, Sides(s, c, t, u, acked), s.OpenAcked
  PROVE  \/ c.exists /\ c.OpenAcked
         \/ c.received # << >> /\ Last(c.received).bClose
<1> DEFINE k == InNumber(c)
           C == Count(s)
           R == Released(s)
           Closes(m) == Numbered(s, m).bClose
<1>1. /\ s \in SenderState /\ NumbersRight(s) /\ ChannelRight(s) /\ ClientRight(c, s, 1)
      /\ C \in Nat /\ R \in Nat /\ k \in Nat /\ k <= C /\ R <= k
  BY SidesParts
<1>2. s.OpenPacketId # 0 /\ \A i \in DOMAIN s.OutRec : ~s.OutRec[i].bunch.bOpen
  BY <1>1 DEF ChannelRight
<1>3. PICK n \in 1 .. R : /\ ~GoesOn(Numbered(s, n))
                          /\ \A m \in n .. R : Closes(m) => m = C
  BY <1>1, <1>2 DEF ChannelRight
<1>4. \A m \in R + 1 .. C - 1 : ~Closes(m)
  BY <1>1 DEF NumbersRight
<1>5. CASE Closes(k)
  <2>1. k # 0
    BY <1>1, <1>3
  <2> QED BY <1>1, <1>5, <2>1 DEF ClientRight
<1>6. CASE ~Closes(k)
  <2>1. ASSUME NEW m \in n .. k PROVE ~Closes(m)
    <3> HIDE DEF k, C, R, Closes
    <3>1. CASE m <= R
      <4>1. Closes(m) => m = C
        BY <1>1, <1>3, <3>1
      <4>2. m = C => m = k
        BY <1>1, <2>1
      <4> QED BY <1>6, <4>1, <4>2
    <3>2. CASE m > R
      <4>1. m = C => m = k
        BY <1>1, <2>1
      <4>2. m # C => m \in R + 1 .. C - 1
        BY <1>1, <2>1, <3>2
      <4> QED BY <1>4, <1>6, <4>1, <4>2
    <3>3. m \in Int /\ R \in Int
      BY <1>1, <2>1
    <3> QED BY <3>1, <3>2, <3>3
  <2>2. n \in 1 .. k
    BY <1>1, <1>3
  <2>3. Opened(s, k)
    BY <1>3, <2>1, <2>2 DEF Opened
  <2> QED BY <1>1, <2>3 DEF ClientRight
<1> QED BY <1>5, <1>6

IsPart(a, b) == \E more \in Stream : b = a \o more

\* What was sent up to a number is the beginning of what was sent up to a later one.
LEMMA UptoBetween ==
  ASSUME NEW s \in SenderState, NumbersRight(s), Count(s) \in Nat,
         NEW last \in 0 .. Count(s), NEW k \in 0 .. last
  PROVE  IsPart(Upto(s, k), Upto(s, last))
<1> DEFINE n == last - k
           S == {j \in 0 .. n : IsPart(Upto(s, k), Upto(s, k + j))}
<1>1. n \in Nat /\ k + n = last /\ k + 0 = k
  OBVIOUS
<1>2. \A j \in 0 .. n : k + j \in 0 .. Count(s)
  OBVIOUS
<1>3. \A j \in 0 .. n : Upto(s, k + j) \in Stream
  BY <1>2, UptoType
<1>4. 0 \in S
  <2>1. Upto(s, k) \in Stream
    BY UptoType
  <2>2. Upto(s, k) = Upto(s, k) \o << >>
    BY <2>1 DEF Stream
  <2>3. IsPart(Upto(s, k), Upto(s, k))
    BY <2>2, StreamFacts DEF IsPart
  <2> QED BY <1>1, <2>3
<1>5. ASSUME NEW j \in 1 .. n, j - 1 \in S PROVE j \in S
  <2> DEFINE m == k + j
             bunch == Numbered(s, m)
  <2>1. m \in 1 .. Count(s) /\ m - 1 = k + (j - 1)
    OBVIOUS
  <2>2. PICK more \in Stream : Upto(s, m - 1) = Upto(s, k) \o more
    BY <1>5, <2>1 DEF IsPart
  <2> HIDE DEF m
  <2>3. NumberRight(s, m) /\ bunch \in Bunch /\ Upto(s, m) = s.numbered[m].upto
    BY <2>1, NumberedFields DEF NumbersRight
  <2>4. Upto(s, m) = Upto(s, m - 1) \o Carried(bunch.Data, bunch.bClose)
    BY <2>3 DEF NumberRight
  <2>5. Carried(bunch.Data, bunch.bClose) \in Stream
    BY <2>3, BunchFields, StreamFacts
  <2> DEFINE more2 == Carried(bunch.Data, bunch.bClose)
  <2>6. Upto(s, k) \in Stream
    BY UptoType
  <2>7. more2 \in Stream /\ Upto(s, m) = (Upto(s, k) \o more) \o more2
    BY <2>2, <2>4, <2>5
  <2> HIDE DEF more2
  <2>8. Upto(s, m) = Upto(s, k) \o (more \o more2) /\ more \o more2 \in Stream
    BY <2>2, <2>6, <2>7, StreamsJoin, StreamFacts
  <2>9. IsPart(Upto(s, k), Upto(s, m))
    BY <2>8 DEF IsPart
  <2> QED BY <2>9 DEF m
<1> HIDE DEF S
<1>6. \A i \in 0 .. n : i \in S
  <2> HIDE DEF n
  <2> QED BY <1>1, <1>4, <1>5, StepByStep
<1>7. n \in S
  BY <1>1, <1>6
<1> QED BY <1>1, <1>7 DEF S

\* What was sent up to a number is the beginning of what was sent.
LEMMA UptoGrows ==
  ASSUME NEW s \in SenderState, NumbersRight(s), Count(s) \in Nat,
         NEW k \in Nat, k <= Count(s)
  PROVE  IsPart(Upto(s, k), Upto(s, Count(s)))
<1>1. Count(s) \in 0 .. Count(s) /\ k \in 0 .. Count(s)
  OBVIOUS
<1> QED BY <1>1, UptoBetween

\* What the client has handled is the beginning of what was sent.
LEMMA HandledIsPart ==
  ASSUME NEW s, NEW c, NEW t, NEW u, NEW acked, Sides(s, c, t, u, acked)
  PROVE  IsPart(c.stream, s.sent)
<1> DEFINE k == InNumber(c)
<1>1. /\ s \in SenderState /\ NumbersRight(s) /\ ClientRight(c, s, 1)
      /\ s.sent = Upto(s, Count(s)) /\ c \in ReceiverState
      /\ Count(s) \in Nat /\ k \in Nat /\ k <= Count(s)
  BY SidesParts
<1>2. PICK more \in Stream : s.sent = Upto(s, k) \o more
  BY <1>1, UptoGrows DEF IsPart
<1>3. c.stream \in Stream /\ c.InPartialBunch \in Bunch \cup {None}
  BY <1>1, ReceiverFields
<1>4. CASE ~InMessage(s, k)
  <2>1. c.stream = Upto(s, k)
    BY <1>1, <1>4 DEF ClientRight, PartialRight
  <2> QED BY <1>2, <2>1 DEF IsPart
<1>5. CASE InMessage(s, k)
  <2> DEFINE data == c.InPartialBunch.Data
  <2>1. c.InPartialBunch # None /\ c.stream \o data = Upto(s, k)
    BY <1>1, <1>5 DEF ClientRight, PartialRight
  <2>2. data \in Stream
    BY <1>3, <2>1, BunchFields, StreamFacts
  <2> HIDE DEF data
  <2>3. (c.stream \o data) \o more = c.stream \o (data \o more)
    BY <1>2, <1>3, <2>2, StreamsJoin
  <2>4. data \o more \in Stream
    BY <1>2, <2>2, StreamFacts
  <2>5. s.sent = c.stream \o (data \o more)
    BY <1>2, <2>1, <2>3
  <2> QED BY <2>4, <2>5 DEF IsPart
<1> QED BY <1>4, <1>5

\* A beginning is a prefix.
LEMMA PartIsPrefix ==
  ASSUME NEW a \in Stream, NEW b \in Stream, IsPart(a, b)
  PROVE  IsPrefix(a, b)
<1>1. PICK more \in Stream : b = a \o more
  BY DEF IsPart
<1> DEFINE S == Unit \cup {CloseMark}
<1>2. a \in Seq(S) /\ b \in Seq(S) /\ more \in Seq(S)
  BY DEF Stream
<1> HIDE DEF S
<1>3. Len(a) \in Nat /\ Len(a) <= Len(b) /\ SubSeq(b, 1, Len(a)) = a /\ SubSeq(a, 1, Len(a)) = a
  BY <1>1, <1>2
<1> QED BY <1>3 DEF IsPrefix

\* The stream of reliable bunches, from one step to the next.
LEMMA StreamKept ==
  ASSUME Sides(server, client, told, settled, accepted), NextSides
  PROVE  \/ Promise!Send \/ Promise!Receive
         \/ server'.sent = server.sent /\ client'.stream = client.stream
<1>1. /\ server.sent \in Stream /\ client.stream \in Stream
      /\ server'.sent \in Stream /\ client'.stream \in Stream
  <2>1. server \in SenderState /\ client \in ReceiverState
    BY DEF Sides
  <2>2. server' \in SenderState /\ client' \in ReceiverState
    BY DEF NextSides, Sides
  <2> QED BY <2>1, <2>2, SenderFields, ReceiverFields
<1>2. CASE client' = client /\ SentMore(server, server')
  <2>1. IsPart(server.sent, server'.sent) \/ server'.sent = server.sent
    <3>1. ASSUME NEW data \in Seq(Unit), NEW bClose \in BOOLEAN,
                 server'.sent = server.sent \o Carried(data, bClose)
          PROVE  IsPart(server.sent, server'.sent)
      <4>1. Carried(data, bClose) \in Stream
        BY StreamFacts
      <4> QED BY <3>1, <4>1 DEF IsPart
    <3> QED BY <1>2, <3>1 DEF SentMore
  <2>2. CASE server'.sent = server.sent
    BY <1>2, <2>2
  <2>3. CASE server'.sent # server.sent
    <3>1. IsPrefix(server.sent, server'.sent)
      BY <1>1, <2>1, <2>3, PartIsPrefix
    <3>2. IsStrictPrefix(server.sent, server'.sent)
      BY <2>3, <3>1 DEF IsStrictPrefix
    <3> QED BY <1>2, <3>2 DEF Promise!Send, Promise!IsStrictPrefix, Promise!IsPrefix, IsStrictPrefix, IsPrefix
  <2> QED BY <2>2, <2>3
<1>3. CASE server' = server /\ GoesOnFrom(client, client')
  <2>1. IsPart(client.stream, client'.stream)
    BY <1>3 DEF GoesOnFrom, IsPart
  <2>2. IsPart(client'.stream, server.sent)
    <3>1. Sides(server', client', told', settled', accepted')
      BY DEF NextSides
    <3>2. IsPart(client'.stream, server'.sent)
      BY <3>1, HandledIsPart
    <3> QED BY <1>3, <3>2
  <2>3. IsPrefix(client.stream, client'.stream) /\ IsPrefix(client'.stream, server.sent)
    BY <1>1, <2>1, <2>2, PartIsPrefix
  <2>4. CASE client'.stream = client.stream
    BY <1>3, <2>4
  <2>5. CASE client'.stream # client.stream
    <3>1. IsStrictPrefix(client.stream, client'.stream)
      BY <2>3, <2>5 DEF IsStrictPrefix
    <3> QED BY <1>3, <2>3, <3>1 DEF Promise!Receive, Promise!IsStrictPrefix, Promise!IsPrefix, IsStrictPrefix, IsPrefix
  <2> QED BY <2>4, <2>5
<1> QED BY <1>2, <1>3 DEF NextSides, StreamStep

\* The invariant is inductive while the reliable buffer has room.
THEOREM NextInvariant == IInv /\ HasRoom /\ [Next]_vars => IInv'
<1> SUFFICES ASSUME IInv, HasRoom, [Next]_vars PROVE IInv'
  OBVIOUS
<1>1. CASE Next
  <2>1. NextSides
    BY <1>1, NextKeeps
  <2> QED BY <2>1, InvariantPartsNext DEF NextSides
<1>2. CASE UNCHANGED vars
  <2>1. /\ Sides(server, client, told, settled, accepted)
        /\ openings \in Nat /\ messages \in Nat /\ lost \in Nat
    BY InvariantParts, BoundsAre
  <2>2. Sides(server', client', told', settled', accepted')
        /\ openings' \in Nat /\ messages' \in Nat /\ lost' \in Nat
    BY <1>2, <2>1 DEF vars
  <2> QED BY <2>2, InvariantPartsNext
<1> QED BY <1>1, <1>2

\* The inductive invariant of a channel index holds in every state, as long as no
\* close took the last place of the reliable buffer.
THEOREM Invariant == Spec /\ []HasRoom => []IInv
<1>1. Init => IInv
  BY InitInvariant
<1>2. IInv /\ HasRoom /\ [Next]_vars => IInv'
  BY NextInvariant
<1> QED BY <1>1, <1>2, PTL DEF Spec

\* Every state has its types: no channel is left to be closed after a packet.
THEOREM AlwaysTyped == Spec /\ []HasRoom => []TypeOK
<1>1. IInv => TypeOK
  BY DEF IInv
<1> QED BY <1>1, Invariant, PTL

\* No bunch of a server that keeps to the code is an error to the client: there is no
\* "Close Anomaly", no reliable partial bunch destroyed, no bunch before the open one.
THEOREM NeverAnError == Spec /\ []HasRoom => []NoBunchErrors
<1>1. IInv => NoBunchErrors
  BY DEF IInv, ClientRight, NoBunchErrors
<1> QED BY <1>1, Invariant, PTL

\* A packet the client acknowledged was processed, or is kept until it can be.
THEOREM AckedIsProcessed == Spec /\ []HasRoom => []AckedMeansProcessed
<1>1. IInv => AckedMeansProcessed
  BY DEF IInv, AcceptedRight, ProcessedBy, Processed, AckedMeansProcessed
<1> QED BY <1>1, Invariant, PTL

\* A channel is given up only when the client has handled all of it, close included.
THEOREM GivenUpWhenDone == Spec /\ []HasRoom => []CleanedUpWhenDone
<1>1. IInv => CleanedUpWhenDone
  BY InvariantParts, GivenUp DEF CleanedUpWhenDone
<1> QED BY <1>1, Invariant, PTL

\* The server takes its channel for open only when the client's is, or was.
THEOREM OpenAckedMeansOpen == Spec /\ []HasRoom => []OpenAckedIsTrue
<1>1. IInv => OpenAckedIsTrue
  BY InvariantParts, OpenKnown DEF OpenAckedIsTrue
<1> QED BY <1>1, Invariant, PTL

\* The client handles what was sent reliably in order, once and complete, over all
\* the channels opened on the index.
THEOREM StreamIsReliable == Spec /\ []HasRoom => StreamSpec
<1>1. Init => Promise!Init
  BY DEF Init, Promise!Init
<1>2. IInv /\ HasRoom /\ [Next]_vars => [Promise!Next]_Promise!vars
  <2> SUFFICES ASSUME IInv, HasRoom, [Next]_vars PROVE [Promise!Next]_Promise!vars
    OBVIOUS
  <2>1. CASE Next
    <3>1. NextSides
      BY <2>1, NextKeeps
    <3>2. Sides(server, client, told, settled, accepted)
      BY InvariantParts
    <3>3. \/ Promise!Send \/ Promise!Receive
          \/ server'.sent = server.sent /\ client'.stream = client.stream
      BY <3>1, <3>2, StreamKept
    <3> QED BY <3>3 DEF Promise!Next, Promise!vars
  <2>2. CASE UNCHANGED vars
    BY <2>2 DEF vars, Promise!vars
  <2> QED BY <2>1, <2>2
<1> QED BY <1>1, <1>2, Invariant, PTL DEF Spec, StreamSpec, Promise!Spec
=============================================================================
