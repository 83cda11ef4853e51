--------------------------- MODULE HandshakeProofs ---------------------------
(***************************************************************************)
(* Theorems about Handshake: cookies live as long as a client relies on    *)
(* them, no two connections have one, whoever completes a handshake has    *)
(* its connection, and a client connects in time.                          *)
(***************************************************************************)
EXTENDS HandshakeInvariant, TLAPS

-----------------------------------------------------------------------------
(* What follows from the invariant at once                                 *)

LEMMA Typed ==
  ASSUME IInv
  PROVE  /\ now \in Nat /\ faults \in Nat /\ faultTime \in Nat
         /\ MaxFaults \in Nat /\ MaxDelay \in Nat /\ RestartDelay \in Nat /\ ClientIDCount \in Nat
         /\ network \subseteq Packets
         /\ client.State \in {"UnInitialized", "InitializedOnLocal", "Initialized"}
         /\ client.bRestartedHandshake \in BOOLEAN
         /\ client.CachedClientID \in ClientID /\ client.CachedClientID \in Nat
         /\ client.address \in Address /\ client.used \subseteq Address
         /\ client.LastClientSendTimestamp \in Nat
         /\ client.LastChallenge \in Challenge
         /\ client.AuthorisedCookie \in Cookie \cup {None}
         /\ server.ActiveSecret \in Secret
         /\ server.HandshakeSecret \in [Secret -> Nat]
         /\ server.LastSecretUpdateTimestamp \in Nat
         /\ server.connections \in [Address -> Connection \cup {None}]
         /\ None \notin Cookie /\ None \notin Connection
         /\ client.CachedClientID <= faults /\ faults <= MaxFaults
         /\ client.LastClientSendTimestamp <= now
         /\ server.LastSecretUpdateTimestamp <= now
<1>1. /\ MaxFaults \in Nat /\ MaxDelay \in Nat /\ RestartDelay \in Nat /\ ClientIDCount \in Nat
      /\ None \notin Cookie /\ None \notin Connection
  BY HandshakeAssumption, NoneAssumption
<1>2. TypeOK
  BY DEF IInv, Counters
<1>3. /\ now \in Nat /\ faults \in Nat /\ faultTime \in Nat /\ network \subseteq Packets
  BY <1>2 DEF TypeOK
<1>4. /\ client.State \in {"UnInitialized", "InitializedOnLocal", "Initialized"}
      /\ client.bRestartedHandshake \in BOOLEAN
      /\ client.CachedClientID \in ClientID
      /\ client.address \in Address /\ client.used \subseteq Address
      /\ client.LastClientSendTimestamp \in Nat
      /\ client.LastChallenge \in Challenge
      /\ client.AuthorisedCookie \in Cookie \cup {None}
  BY <1>2 DEF TypeOK, OptionalCookie
<1>5. client.CachedClientID \in Nat
  BY <1>1, <1>4 DEF ClientID
<1>6. /\ server.ActiveSecret \in Secret
      /\ server.HandshakeSecret \in [Secret -> Nat]
      /\ server.LastSecretUpdateTimestamp \in Nat
      /\ server.connections \in [Address -> Connection \cup {None}]
  BY <1>2 DEF TypeOK
<1> QED BY <1>1, <1>3, <1>4, <1>5, <1>6 DEF IInv, Counters

\* What a packet is, of which nothing but its lateness may differ.
Like(p, q) ==
  /\ p.to = q.to /\ p.type = q.type /\ p.address = q.address /\ p.ClientID = q.ClientID
  /\ p.challenge = q.challenge /\ p.OrigCookie = q.OrigCookie /\ p.sent = q.sent

Was(p) == \E q \in network : Like(p, q)

\* A packet that may come to those that are under way
MayCome(p) ==
  /\ PacketIsRight(p)
  /\ p.type # "RestartResponse"
  /\ Connecting(p) => \A cookie \in Cookie : Retired(cookie) => p.challenge.Cookie # cookie
  /\ p.type = "Ack" /\ Mine(p) /\ ~Authorised =>
       \A q \in network : q.type = "RestartResponse" /\ ~Mine(q) =>
                             p.challenge.Cookie # q.OrigCookie

LEMMA LikeIsRight ==
  ASSUME NEW p, NEW q, Like(p, q), PacketIsRight(q)
  PROVE  PacketIsRight(p)
<1>1. InTime(p)
  BY DEF Like, PacketIsRight, InTime
<1>2. Carries(p)
  BY DEF Like, PacketIsRight, Carries
<1>3. Mine(p) <=> Mine(q)
  BY DEF Like, Mine
<1>4. Belongs(p)
  BY <1>3 DEF Like, PacketIsRight, Belongs
<1>5. Acknowledges(p)
  BY <1>3 DEF Like, PacketIsRight, Acknowledges
<1> QED BY <1>1, <1>2, <1>4, <1>5 DEF PacketIsRight

\* A step that only changes the packets under way
LEMMA NetworkStep ==
  ASSUME IInv, UNCHANGED <<client, server, now>>,
         network' \subseteq Packets,
         \A p \in network' : Was(p) \/ MayCome(p),
         faults' \in Nat, faults <= faults', faults' <= MaxFaults, faultTime' \in Nat
  PROVE  IInv'
<1>1. \A challenge : Genuine(challenge) => Genuine(challenge)'
  BY DEF Genuine
<1>2. \A cookie : Known(cookie) => Known(cookie)'
  BY DEF Known
<1>3. /\ Authorised' <=> Authorised
      /\ \A p : Mine(p)' <=> Mine(p)
      /\ \A p : Connecting(p)' <=> Connecting(p)
      /\ \A address : MyConnection(address)' <=> MyConnection(address)
  BY DEF Authorised, Mine, Connecting, MyConnection
<1>4. ASSUME NEW cookie \in Cookie, Retired(cookie) PROVE Retired(cookie)'
  <2>1. ASSUME NEW p \in network', Connecting(p)' PROVE p.challenge.Cookie # cookie
    <3>1. CASE Was(p)
      <4>1. PICK q \in network : Like(p, q)
        BY <3>1 DEF Was
      <4>2. Connecting(q)
        BY <2>1, <4>1, <1>3 DEF Like, Connecting, Mine
      <4> QED BY <1>4, <4>1, <4>2 DEF Retired, Like
    <3>2. CASE MayCome(p)
      BY <1>3, <1>4, <2>1, <3>2 DEF MayCome
    <3> QED BY <3>1, <3>2
  <2> QED BY <1>3, <1>4, <2>1 DEF Retired
<1>5. Counters'
  BY Typed DEF IInv, Counters, TypeOK
<1>6. CookiesUnique'
  BY DEF IInv, CookiesUnique
<1>7. ClientIsRight'
  <2>1. Authorised => client.AuthorisedCookie \in Cookie
    BY DEF IInv, ClientIsRight, Known
  <2> DEFINE k == client.AuthorisedCookie
  <2>2. k' = k
    OBVIOUS
  <2>3. client.bRestartedHandshake => Retired(k)'
    <3> SUFFICES ASSUME client.bRestartedHandshake PROVE Retired(k)'
      OBVIOUS
    <3>1. k \in Cookie /\ Retired(k)
      BY <2>1 DEF IInv, ClientIsRight
    <3> QED BY <3>1, <1>4 DEF Retired, Connecting, Mine, Authorised
  <2>4. client.State = "InitializedOnLocal" => Genuine(client.LastChallenge)'
    BY <1>1 DEF IInv, ClientIsRight, Genuine
  <2>5. Authorised => Known(k)'
    BY DEF IInv, ClientIsRight, Known
  <2> QED BY <1>3, <2>3, <2>4, <2>5 DEF IInv, ClientIsRight
<1>8. ASSUME NEW p \in network' PROVE PacketIsRight(p)'
  <2>1. PacketIsRight(p)
    BY <1>8, LikeIsRight DEF Was, MayCome, IInv
  <2>2. InTime(p)'
    BY <2>1 DEF PacketIsRight, InTime
  <2>3. Carries(p)'
    <3>1. p.type = "RestartResponse" => Retired(p.OrigCookie)'
      BY <2>1, <1>4 DEF PacketIsRight, Carries, Known
    <3> QED BY <2>1, <3>1, <1>1, <1>2 DEF PacketIsRight, Carries
  <2>4. Belongs(p)'
    <3>1. ASSUME p.type = "RestartResponse", ~Mine(p), ~Authorised,
                 NEW ack \in network', ack.type = "Ack", Mine(ack)
          PROVE  ack.challenge.Cookie # p.OrigCookie
      <4>1. PICK q \in network : Like(p, q)
        BY <1>8, <3>1 DEF Was, MayCome
      <4>2. q.type = "RestartResponse" /\ ~Mine(q) /\ q.OrigCookie = p.OrigCookie
        BY <3>1, <4>1 DEF Like, Mine
      <4>3. CASE Was(ack)
        <5>1. PICK b \in network : Like(ack, b)
          BY <4>3 DEF Was
        <5>2. b.type = "Ack" /\ Mine(b) /\ b.challenge.Cookie = ack.challenge.Cookie
          BY <3>1, <5>1 DEF Like, Mine
        <5>3. Belongs(q)
          BY DEF IInv, PacketIsRight
        <5> QED BY <3>1, <4>2, <5>2, <5>3 DEF Belongs
      <4>4. CASE MayCome(ack)
        BY <3>1, <4>2, <4>4 DEF MayCome
      <4> QED BY <4>3, <4>4
    <3>2. Belongs(p)
      BY <2>1 DEF PacketIsRight
    <3> QED BY <3>1, <3>2, <1>3 DEF Belongs
  <2>5. Acknowledges(p)'
    BY <1>3, <2>1 DEF PacketIsRight, Acknowledges
  <2> QED BY <2>2, <2>3, <2>4, <2>5 DEF PacketIsRight
<1>9. ASSUME NEW a \in Address PROVE ConnectionIsRight(a)'
  <2>1. ConnectionIsRight(a)
    BY DEF IInv
  <2>2. server.connections[a] # None /\ server.connections[a].AuthorisedCookie.address # a =>
          Retired(server.connections[a].AuthorisedCookie)'
    <3> DEFINE k == server.connections[a].AuthorisedCookie
    <3> SUFFICES ASSUME server.connections[a] # None, k.address # a PROVE Retired(k)'
      OBVIOUS
    <3>1. k \in Cookie /\ Retired(k)
      BY <2>1 DEF ConnectionIsRight, RightAt, Known
    <3> QED BY <3>1, <1>4 DEF Retired, Connecting, Mine, Authorised
  <2>3. server.connections[a] # None => Known(server.connections[a].AuthorisedCookie)'
    BY <2>1 DEF ConnectionIsRight, RightAt, Known
  <2> QED BY <2>1, <2>2, <2>3 DEF ConnectionIsRight, RightAt
<1> QED BY <1>5, <1>6, <1>7, <1>8, <1>9 DEF IInv

-----------------------------------------------------------------------------
(* Packets                                                                 *)

LEMMA PacketIs ==
  ASSUME IInv, NEW to \in {"client", "server"}, NEW type \in PacketType,
         NEW address \in Address, NEW id \in ClientID, NEW challenge \in Challenge,
         NEW orig \in OptionalCookie,
         NEW p, p = Packet(to, type, address, id, challenge, orig)
  PROVE  /\ p \in Packets /\ p.to = to /\ p.type = type /\ p.address = address
         /\ p.ClientID = id /\ p.challenge = challenge /\ p.OrigCookie = orig /\ p.sent = now
BY Typed DEF Packet, Packets

LEMMA NoChallengeIs == NoChallenge \in Challenge
BY DEF NoChallenge, Challenge, OptionalCookie, Secret

LEMMA Delivered ==
  ASSUME IInv, NEW packet, NEW replies, Deliver(packet, replies)
  PROVE  /\ network' \subseteq network \cup replies
         /\ faults' \in Nat /\ faults <= faults' /\ faults' <= MaxFaults /\ faultTime' \in Nat
BY Typed DEF Deliver, Fault

LEMMA Faulty ==
  ASSUME IInv, Fault
  PROVE  /\ faults' \in Nat /\ faults' = faults + 1 /\ faults' <= MaxFaults /\ faultTime' \in Nat
BY Typed DEF Fault

LEMMA LikeItself == \A p \in network : Was(p)
BY DEF Was, Like

\* What the server answers a packet of a handshake with is in time.
LEMMA AnswerInTime ==
  ASSUME IInv, NEW packet \in network, packet.type \in FromClient,
         NEW answer, answer.sent = now, answer.type \in Answers
  PROVE  InTime(answer)
<1>1. packet \in Packets /\ PacketIsRight(packet)
  BY Typed DEF IInv
<1>2. packet.sent \in Nat /\ answer.sent \in Nat
  BY <1>1, Typed DEF Packets
<1>3. now <= client.LastClientSendTimestamp + MaxDelay
  BY <1>1, <1>2, Typed DEF PacketIsRight, InTime
<1>4. answer.type \notin FromClient
  BY DEF Answers, FromClient, Responses
<1> QED BY <1>3, <1>4, Typed DEF InTime

\* A step that answers a packet and changes nothing else
LEMMA AnswerStep ==
  ASSUME IInv, NEW packet \in network, NEW replies, Deliver(packet, replies),
         \A p \in replies : p \in Packets /\ MayCome(p), UNCHANGED <<client, server, now>>
  PROVE  IInv'
<1>1. \A p \in network' : p \in Packets /\ (Was(p) \/ MayCome(p))
  BY Delivered, LikeItself, Typed
<1> QED BY <1>1, Delivered, NetworkStep

LEMMA SendConnectChallengeStep ==
  ASSUME IInv, NEW packet \in network, packet.to = "server",
         SendConnectChallenge(packet), now' = now
  PROVE  IInv'
<1> DEFINE cookie == GenerateCookie(server, packet.address, server.ActiveSecret, now)
           challenge == [SecretId |-> server.ActiveSecret, Timestamp |-> now, Cookie |-> cookie]
           answer == Packet("client", "Challenge", packet.address, packet.ClientID, challenge, None)
<1>1. /\ packet.type = "InitialPacket" /\ Deliver(packet, {answer}) /\ UNCHANGED <<client, server>>
      /\ packet \in Packets /\ PacketIsRight(packet)
  BY Typed DEF SendConnectChallenge, IInv
<1>2. /\ cookie \in Cookie /\ cookie.Timestamp = now /\ cookie.address = packet.address
      /\ cookie.secret = server.HandshakeSecret[server.ActiveSecret]
      /\ packet.address \in Address /\ packet.ClientID \in ClientID
  BY <1>1, Typed DEF GenerateCookie, Cookie, Packets
<1> HIDE DEF cookie
<1>3. /\ challenge \in Challenge /\ challenge.Cookie = cookie /\ challenge.Timestamp = now
      /\ challenge.SecretId = server.ActiveSecret
  BY <1>2, Typed DEF Challenge, OptionalCookie
<1> HIDE DEF challenge
<1>4. /\ answer \in Packets /\ answer.type = "Challenge" /\ answer.to = "client"
      /\ answer.ClientID = packet.ClientID /\ answer.challenge = challenge /\ answer.sent = now
  BY <1>2, <1>3, PacketIs DEF PacketType, OptionalCookie
<1> HIDE DEF answer
<1>5. Genuine(challenge)
  BY <1>2, <1>3, Typed DEF Genuine
<1>6. InTime(answer)
  BY <1>1, <1>4, AnswerInTime DEF FromClient, Answers
<1>7. Carries(answer)
  BY <1>4, <1>5 DEF Carries, Responses, FromClient
<1>8. Belongs(answer) /\ Acknowledges(answer)
  BY <1>1, <1>4 DEF PacketIsRight, Belongs, Acknowledges, FromClient, Responses
<1>9. \A k \in Cookie : Retired(k) => cookie # k
  <2> SUFFICES ASSUME NEW k \in Cookie, Retired(k) PROVE k.Timestamp < now
    BY <1>2, Typed
  <2> QED BY DEF Retired
<1>10. MayCome(answer)
  BY <1>3, <1>4, <1>6, <1>7, <1>8, <1>9 DEF MayCome, PacketIsRight
<1> QED BY <1>1, <1>4, <1>10, AnswerStep

LEMMA SendRestartHandshakeRequestStep ==
  ASSUME IInv, NEW packet \in network, packet.to = "server",
         SendRestartHandshakeRequest(packet), now' = now
  PROVE  IInv'
<1> DEFINE answer == Packet("client", "RestartHandshake", packet.address, packet.ClientID,
                            NoChallenge, None)
<1>1. /\ Deliver(packet, {answer}) /\ UNCHANGED <<client, server>>
      /\ packet \in Packets /\ PacketIsRight(packet)
  BY Typed DEF SendRestartHandshakeRequest, IInv
<1>2. packet.address \in Address /\ packet.ClientID \in ClientID
  BY <1>1 DEF Packets
<1>3. /\ answer \in Packets /\ answer.type = "RestartHandshake" /\ answer.to = "client"
      /\ answer.ClientID = packet.ClientID /\ answer.sent = now
  BY <1>2, PacketIs, NoChallengeIs DEF PacketType, OptionalCookie
<1> HIDE DEF answer
<1>4. PacketIsRight(answer)
  BY <1>1, <1>3, Typed
  DEF PacketIsRight, InTime, Carries, Belongs, Acknowledges, FromClient, Responses, Answers
<1>5. MayCome(answer)
  BY <1>3, <1>4 DEF MayCome, Connecting
<1> QED BY <1>1, <1>3, <1>5, AnswerStep

LEMMA ResendChallengeAckStep ==
  ASSUME IInv, NEW packet \in network, packet.to = "server",
         server.connections[packet.address] # None,
         ResendChallengeAck(server.connections[packet.address], packet), now' = now
  PROVE  IInv'
<1> DEFINE connection == server.connections[packet.address]
           address == connection.LastChallengeSuccessAddress
           cookie == connection.AuthorisedCookie
           challenge == [NoChallenge EXCEPT !.Cookie = cookie]
           answer == Packet("client", "Ack", address, connection.CachedClientID, challenge, None)
<1>1. /\ Deliver(packet, {answer}) /\ UNCHANGED <<client, server>>
      /\ packet \in Packets /\ PacketIsRight(packet) /\ packet.address \in Address
      /\ connection.CachedClientID = packet.ClientID
      /\ packet.type # "Game" /\ address # None
  BY Typed DEF ResendChallengeAck, ResendsAck, AcceptsClientID, ChallengeAck, IInv, Packets
<1>2. /\ connection \in Connection /\ address \in Address /\ packet.ClientID \in ClientID
      /\ ConnectionIsRight(packet.address) /\ Known(cookie)
  BY <1>1, Typed DEF IInv, Connection, ConnectionIsRight, RightAt
<1>3. packet.type \in FromClient
  BY <1>1 DEF PacketIsRight, Carries
<1>4. challenge \in Challenge /\ challenge.Cookie = cookie
  BY <1>2, NoChallengeIs DEF Challenge, OptionalCookie, Known
<1> HIDE DEF challenge
<1>5. /\ answer \in Packets /\ answer.type = "Ack" /\ answer.to = "client"
      /\ answer.ClientID = packet.ClientID /\ answer.challenge = challenge /\ answer.sent = now
  BY <1>1, <1>2, <1>4, PacketIs DEF PacketType, OptionalCookie
<1> HIDE DEF answer
<1>6. InTime(answer) /\ Carries(answer)
  BY <1>2, <1>3, <1>4, <1>5, AnswerInTime DEF Answers, Carries, Responses, FromClient
<1>7. Belongs(answer)
  BY <1>1, <1>5 DEF PacketIsRight, Belongs, FromClient, Responses
<1>8. Mine(answer) => MyConnection(packet.address) /\ packet.address \in client.used
  BY <1>1, <1>3, <1>5 DEF Mine, MyConnection, PacketIsRight, Belongs
<1>9. Acknowledges(answer)
  BY <1>4, <1>5, <1>8 DEF Acknowledges
<1>10. ASSUME Mine(answer), NEW q \in network, q.type = "RestartResponse", ~Mine(q)
       PROVE  cookie # q.OrigCookie
  BY <1>1, <1>8, <1>10 DEF IInv, PacketIsRight, Belongs
<1>11. MayCome(answer)
  BY <1>4, <1>5, <1>6, <1>7, <1>9, <1>10 DEF MayCome, PacketIsRight, Connecting
<1> QED BY <1>1, <1>5, <1>11, AnswerStep

LEMMA IgnoreStep ==
  ASSUME IInv, NEW packet \in network, Ignore(packet), now' = now
  PROVE  IInv'
BY AnswerStep DEF Ignore

LEMMA SendGamePacketStep ==
  ASSUME IInv, SendGamePacket
  PROVE  IInv'
<1> DEFINE p == GamePacket(client)
<1>1. /\ p \in Packets /\ p.type = "Game" /\ p.to = "server"
      /\ p.ClientID = client.CachedClientID /\ p.sent = now
  BY Typed, PacketIs, NoChallengeIs DEF GamePacket, PacketType, OptionalCookie
<1>2. network' = network \cup {p} /\ UNCHANGED <<client, server, now, faults, faultTime>>
  BY DEF SendGamePacket
<1> HIDE DEF p
<1>3. PacketIsRight(p)
  BY <1>1, Typed
  DEF PacketIsRight, InTime, Carries, Belongs, Acknowledges, FromClient, Responses, Answers
<1>4. MayCome(p)
  BY <1>1, <1>3 DEF MayCome, Connecting
<1>5. \A q \in network' : q \in Packets /\ (Was(q) \/ MayCome(q))
  BY <1>1, <1>2, <1>4, LikeItself, Typed
<1> QED BY <1>2, <1>5, Typed, NetworkStep

LEMMA LoseStep ==
  ASSUME IInv, NEW packet \in network, Lose(packet)
  PROVE  IInv'
<1>1. \A q \in network' : q \in Packets /\ Was(q)
  BY LikeItself, Typed DEF Lose
<1> QED BY <1>1, Typed, Faulty, NetworkStep DEF Lose

LEMMA DelayStep ==
  ASSUME IInv, NEW packet \in network, Delay(packet)
  PROVE  IInv'
<1> DEFINE p == [packet EXCEPT !.late = TRUE]
<1>1. packet \in Packets
  BY Typed
<1>2. p \in Packets /\ Like(p, packet)
  BY <1>1 DEF Packets, Like
<1>3. network' = (network \ {packet}) \cup {p} /\ UNCHANGED <<client, server, now>> /\ Fault
  BY DEF Delay
<1> HIDE DEF p
<1>4. Was(p)
  BY <1>2 DEF Was
<1>5. \A q \in network' : q \in Packets /\ Was(q)
  BY <1>2, <1>3, <1>4, LikeItself, Typed
<1> QED BY <1>3, <1>5, Typed, Faulty, NetworkStep

-----------------------------------------------------------------------------
(* Steps that change the server                                            *)

\* An ack that may come when the connections change
AckMayCome(p) ==
  /\ p.type = "Ack" /\ p \in Packets
  /\ InTime(p) /\ Carries(p) /\ p.ClientID <= client.CachedClientID
  /\ Mine(p) /\ ~Authorised =>
       \A q \in network : q.type = "RestartResponse" /\ ~Mine(q) =>
                             p.challenge.Cookie # q.OrigCookie

LEMMA ServerStep ==
  ASSUME IInv, UNCHANGED <<client, now>>, TypeOK',
         \A p \in network' : Was(p) \/ (AckMayCome(p) /\ Acknowledges(p)'),
         faults <= faults', faults' <= MaxFaults,
         server'.LastSecretUpdateTimestamp <= now,
         \A challenge \in Challenge : Genuine(challenge) => Genuine(challenge)',
         CookiesUnique',
         \A a \in Address, c \in Connection : server'.connections[a] = c => RightAt(c, a),
         \A p \in network : Acknowledges(p) => Acknowledges(p)',
         Authorised => \E a \in Address :
                         /\ MyConnection(a)'
                         /\ server'.connections[a].AuthorisedCookie = client.AuthorisedCookie,
         \A q \in network, a \in Address :
           q.type = "RestartResponse" /\ ~Mine(q) /\ MyConnection(a)' =>
             server'.connections[a].AuthorisedCookie # q.OrigCookie
  PROVE  IInv'
<1>1. \A cookie : Known(cookie) => Known(cookie)'
  BY DEF Known
<1>2. /\ Authorised' <=> Authorised
      /\ \A p : Mine(p)' <=> Mine(p)
      /\ \A p : Connecting(p)' <=> Connecting(p)
  BY DEF Authorised, Mine, Connecting
<1>3. ASSUME NEW cookie \in Cookie, Retired(cookie) PROVE Retired(cookie)'
  <2>1. ASSUME NEW p \in network', Connecting(p)' PROVE p.challenge.Cookie # cookie
    <3>1. PICK q \in network : Like(p, q)
      BY <2>1, <1>2 DEF Was, AckMayCome, Connecting
    <3>2. Connecting(q)
      BY <2>1, <3>1, <1>2 DEF Like, Connecting, Mine
    <3> QED BY <1>3, <3>1, <3>2 DEF Retired, Like
  <2> QED BY <1>2, <1>3, <2>1 DEF Retired
<1>4. Counters'
  <2>1. faults' \in Nat
    BY DEF TypeOK
  <2> QED BY <2>1, Typed DEF IInv, Counters
<1>5. ClientIsRight'
  <2>1. client.bRestartedHandshake => Retired(client.AuthorisedCookie)'
    <3> DEFINE k == client.AuthorisedCookie
    <3> SUFFICES ASSUME client.bRestartedHandshake PROVE Retired(k)'
      OBVIOUS
    <3>1. k \in Cookie /\ Retired(k)
      BY DEF IInv, ClientIsRight, Known
    <3> QED BY <3>1, <1>3 DEF Retired, Connecting, Mine, Authorised
  <2>2. client.State = "InitializedOnLocal" => Genuine(client.LastChallenge)'
    <3> DEFINE ch == client.LastChallenge
    <3> SUFFICES ASSUME client.State = "InitializedOnLocal" PROVE Genuine(ch)'
      OBVIOUS
    <3>1. ch \in Challenge /\ Genuine(ch)
      BY Typed DEF IInv, ClientIsRight
    <3> QED BY <3>1 DEF Genuine
  <2>3. Authorised => Known(client.AuthorisedCookie)'
    BY DEF IInv, ClientIsRight, Known
  <2> QED BY <1>2, <2>1, <2>2, <2>3 DEF IInv, ClientIsRight
<1>6. ASSUME NEW p \in network' PROVE PacketIsRight(p)'
  <2>1. InTime(p) /\ Carries(p) /\ p \in Packets
    BY <1>6, LikeIsRight DEF Was, AckMayCome, IInv, PacketIsRight, TypeOK
  <2>2. InTime(p)'
    BY <2>1 DEF InTime
  <2>3. Carries(p)'
    <3>1. p.type = "RestartResponse" => Retired(p.OrigCookie)'
      BY <2>1, <1>3 DEF Carries, Known
    <3>2. p.challenge \in Challenge
      BY <2>1 DEF Packets
    <3> QED BY <2>1, <3>1, <3>2, <1>1 DEF Carries
  <2>4. Belongs(p)'
    <3>1. CASE Was(p)
      <4>1. PICK q \in network : Like(p, q)
        BY <3>1 DEF Was
      <4>2. Belongs(q)
        BY DEF IInv, PacketIsRight
      <4>3. ASSUME p.type = "RestartResponse", ~Mine(p), ~Authorised,
                   NEW ack \in network', ack.type = "Ack", Mine(ack)
            PROVE  ack.challenge.Cookie # p.OrigCookie
        <5>1. q.type = "RestartResponse" /\ ~Mine(q) /\ q.OrigCookie = p.OrigCookie
          BY <4>1, <4>3 DEF Like, Mine
        <5>2. CASE Was(ack)
          <6>1. PICK b \in network : Like(ack, b)
            BY <5>2 DEF Was
          <6>2. b.type = "Ack" /\ Mine(b) /\ b.challenge.Cookie = ack.challenge.Cookie
            BY <4>3, <6>1 DEF Like, Mine
          <6> QED BY <4>2, <4>3, <5>1, <6>2 DEF Belongs
        <5>3. CASE AckMayCome(ack)
          BY <4>3, <5>1, <5>3 DEF AckMayCome
        <5> QED BY <5>2, <5>3
      <4>4. ASSUME p.type = "RestartResponse", ~Mine(p), NEW a \in Address, MyConnection(a)'
            PROVE  server'.connections[a].AuthorisedCookie # p.OrigCookie
        BY <4>1, <4>4 DEF Like, Mine
      <4> QED BY <1>2, <4>1, <4>2, <4>3, <4>4 DEF Belongs, Like, Mine
    <3>2. CASE AckMayCome(p)
      BY <3>2 DEF AckMayCome, Belongs, FromClient, Responses
    <3> QED BY <1>6, <3>1, <3>2
  <2>5. Acknowledges(p)'
    <3>1. CASE Was(p)
      <4>1. PICK q \in network : Like(p, q)
        BY <3>1 DEF Was
      <4>2. Acknowledges(q)'
        BY DEF IInv, PacketIsRight
      <4> QED BY <4>1, <4>2 DEF Acknowledges, Like, Mine
    <3> QED BY <1>6, <3>1
  <2> QED BY <2>2, <2>3, <2>4, <2>5 DEF PacketIsRight
<1>7. ASSUME NEW a \in Address PROVE ConnectionIsRight(a)'
  <2> SUFFICES ASSUME NEW c \in Connection, server'.connections[a] = c PROVE RightAt(c, a)'
    BY Typed DEF ConnectionIsRight, TypeOK
  <2>1. RightAt(c, a) /\ c.AuthorisedCookie \in Cookie
    BY DEF RightAt, Known
  <2>2. c.AuthorisedCookie.address # a => Retired(c.AuthorisedCookie)'
    BY <2>1, <1>3 DEF RightAt
  <2> QED BY <2>1, <2>2, <1>1 DEF RightAt
<1> QED BY <1>4, <1>5, <1>6, <1>7 DEF IInv

LEMMA TickSecretStep ==
  ASSUME IInv, TickSecret
  PROVE  IInv'
<1> DEFINE active == server.ActiveSecret
           new == server.HandshakeSecret[0] + server.HandshakeSecret[1]
<1>1. /\ now - server.LastSecretUpdateTimestamp > SECRET_UPDATE_TIME
      /\ UNCHANGED <<client, network, now, faults, faultTime>>
      /\ server' = [server EXCEPT !.ActiveSecret = 1 - @,
                                  !.HandshakeSecret[1 - active] = new,
                                  !.LastSecretUpdateTimestamp = now]
  BY DEF TickSecret, UpdateSecret
<1>2. active \in {0, 1} /\ 1 - active \in {0, 1} /\ new \in Nat /\ SECRET_UPDATE_TIME \in Nat
  BY Typed, HandshakeAssumption DEF Secret
<1>3. /\ server'.ActiveSecret = 1 - active /\ server'.LastSecretUpdateTimestamp = now
      /\ server'.HandshakeSecret = [server.HandshakeSecret EXCEPT ![1 - active] = new]
      /\ server'.connections = server.connections
  BY <1>1 DEF IInv, Counters, TypeOK
<1>4. server'.HandshakeSecret \in [Secret -> Nat] /\ server'.HandshakeSecret[active] = server.HandshakeSecret[active]
  BY <1>2, <1>3, Typed DEF Secret
<1>5. TypeOK'
  <2>1. server' \in [ActiveSecret : Secret, HandshakeSecret : [Secret -> Nat],
                     LastSecretUpdateTimestamp : Nat,
                     connections : [Address -> Connection \cup {None}],
                     recentlyDisconnected : SUBSET Address]
    <3>1. ASSUME NEW x \in Secret, NEW h \in [Secret -> Nat], NEW n \in Nat
          PROVE  [server EXCEPT !.ActiveSecret = x, !.HandshakeSecret = h,
                                !.LastSecretUpdateTimestamp = n]
                   \in [ActiveSecret : Secret, HandshakeSecret : [Secret -> Nat],
                        LastSecretUpdateTimestamp : Nat,
                        connections : [Address -> Connection \cup {None}],
                        recentlyDisconnected : SUBSET Address]
      BY DEF IInv, Counters, TypeOK
    <3>2. server' = [server EXCEPT !.ActiveSecret = 1 - active,
                       !.HandshakeSecret = [server.HandshakeSecret EXCEPT ![1 - active] = new],
                       !.LastSecretUpdateTimestamp = now]
      BY <1>1
    <3>3. 1 - active \in Secret
      BY <1>2 DEF Secret
    <3>4. [server.HandshakeSecret EXCEPT ![1 - active] = new] \in [Secret -> Nat]
      BY <1>2, Typed
    <3> QED BY <3>1, <3>2, <3>3, <3>4, Typed
  <2> QED BY <1>1, <2>1 DEF IInv, Counters, TypeOK
<1>6. ASSUME NEW ch \in Challenge, Genuine(ch) PROVE Genuine(ch)'
  <2>1. ch.Timestamp \in Nat /\ ch.SecretId \in {0, 1}
    BY DEF Challenge, Secret
  <2>2. CASE server.LastSecretUpdateTimestamp - ch.Timestamp > SECRET_UPDATE_TIME
    BY <1>1, <1>2, <1>3, <1>6, <2>1, <2>2, Typed DEF Genuine
  <2>3. CASE ch.SecretId = active /\ ch.Cookie.secret = server.HandshakeSecret[active]
    BY <1>1, <1>2, <1>3, <1>4, <1>6, <2>1, <2>3, Typed DEF Genuine
  <2>4. CASE ch.SecretId # active /\ ch.Timestamp <= server.LastSecretUpdateTimestamp
    BY <1>1, <1>2, <1>3, <1>6, <2>1, <2>4, Typed DEF Genuine
  <2> QED BY <1>6, <2>2, <2>3, <2>4 DEF Genuine
<1>7. \A a : MyConnection(a)' <=> MyConnection(a)
  BY <1>1, <1>3 DEF MyConnection
<1>8. /\ CookiesUnique'
      /\ \A p \in network : Acknowledges(p) => Acknowledges(p)'
  BY <1>1, <1>3, <1>7 DEF IInv, CookiesUnique, Acknowledges, Authorised, Mine
<1>9. \A a \in Address, c \in Connection : server'.connections[a] = c => RightAt(c, a)
  BY <1>3, Typed DEF IInv, ConnectionIsRight
<1>10. Authorised => \E a \in Address :
                       /\ MyConnection(a)'
                       /\ server'.connections[a].AuthorisedCookie = client.AuthorisedCookie
  BY <1>3, <1>7 DEF IInv, ClientIsRight
<1>11. \A q \in network, a \in Address :
         q.type = "RestartResponse" /\ ~Mine(q) /\ MyConnection(a)' =>
           server'.connections[a].AuthorisedCookie # q.OrigCookie
  BY <1>3, <1>7 DEF IInv, PacketIsRight, Belongs
<1>12. /\ UNCHANGED <<client, now>> /\ faults <= faults' /\ faults' <= MaxFaults
       /\ server'.LastSecretUpdateTimestamp <= now
       /\ \A p \in network' : Was(p) \/ (AckMayCome(p) /\ Acknowledges(p)')
  BY <1>1, <1>3, LikeItself, Typed
<1> HIDE DEF active, new
<1> QED BY <1>5, <1>6, <1>8, <1>9, <1>10, <1>11, <1>12, ServerStep

\* A step that changes the connections
LEMMA ConnectionsStep ==
  ASSUME IInv, UNCHANGED <<client, now>>,
         NEW connections \in [Address -> Connection \cup {None}],
         NEW disconnected \in SUBSET Address,
         server' = [server EXCEPT !.connections = connections,
                                  !.recentlyDisconnected = disconnected],
         network' \subseteq Packets,
         \A p \in network' : Was(p) \/ (AckMayCome(p) /\ Acknowledges(p)'),
         faults' \in Nat, faults <= faults', faults' <= MaxFaults, faultTime' \in Nat,
         \A a, b \in Address : connections[a] # None /\ connections[b] # None /\ a # b =>
           connections[a].AuthorisedCookie # connections[b].AuthorisedCookie,
         \A a \in Address : connections[a] # None => RightAt(connections[a], a),
         \A p \in network : Acknowledges(p) => Acknowledges(p)',
         Authorised => \E a \in Address :
                         /\ connections[a] # None
                         /\ connections[a].CachedClientID = client.CachedClientID
                         /\ connections[a].AuthorisedCookie = client.AuthorisedCookie,
         \A q \in network, a \in Address :
           /\ q.type = "RestartResponse" /\ ~Mine(q)
           /\ connections[a] # None /\ connections[a].CachedClientID = client.CachedClientID
           => connections[a].AuthorisedCookie # q.OrigCookie
  PROVE  IInv'
<1>1. /\ server'.ActiveSecret = server.ActiveSecret
      /\ server'.HandshakeSecret = server.HandshakeSecret
      /\ server'.LastSecretUpdateTimestamp = server.LastSecretUpdateTimestamp
      /\ server'.connections = connections
  BY DEF IInv, Counters, TypeOK
<1>2. TypeOK'
  <2>1. server' \in [ActiveSecret : Secret, HandshakeSecret : [Secret -> Nat],
                     LastSecretUpdateTimestamp : Nat,
                     connections : [Address -> Connection \cup {None}],
                     recentlyDisconnected : SUBSET Address]
    BY DEF IInv, Counters, TypeOK
  <2> QED BY <2>1 DEF IInv, Counters, TypeOK
<1>3. \A challenge \in Challenge : Genuine(challenge) => Genuine(challenge)'
  BY <1>1 DEF Genuine
<1>4. \A a : MyConnection(a)' <=>
               /\ connections[a] # None
               /\ connections[a].CachedClientID = client.CachedClientID
  BY <1>1 DEF MyConnection
<1>5. CookiesUnique'
  BY <1>1 DEF CookiesUnique
<1>6. \A a \in Address, c \in Connection : server'.connections[a] = c => RightAt(c, a)
  BY <1>1, Typed
<1>7. server'.LastSecretUpdateTimestamp <= now
  BY <1>1, Typed
<1>8. Authorised => \E a \in Address :
                      /\ MyConnection(a)'
                      /\ server'.connections[a].AuthorisedCookie = client.AuthorisedCookie
  BY <1>1, <1>4
<1>9. \A q \in network, a \in Address :
        q.type = "RestartResponse" /\ ~Mine(q) /\ MyConnection(a)' =>
          server'.connections[a].AuthorisedCookie # q.OrigCookie
  BY <1>1, <1>4
<1> QED BY <1>2, <1>3, <1>5, <1>6, <1>7, <1>8, <1>9, ServerStep

LEMMA CloseConnectionStep ==
  ASSUME IInv, NEW address \in Address, CloseConnection(address)
  PROVE  IInv'
<1> DEFINE closed == [server.connections EXCEPT ![address] = None]
           disconnected == server.recentlyDisconnected \cup {address}
<1>1. /\ UNCHANGED <<client, network, now, faults, faultTime>>
      /\ server.connections[address].CachedClientID # client.CachedClientID
      /\ server' = [server EXCEPT !.connections = closed, !.recentlyDisconnected = disconnected]
  BY DEF CloseConnection
<1>2. /\ closed \in [Address -> Connection \cup {None}]
      /\ closed[address] = None
      /\ \A a \in Address : a # address => closed[a] = server.connections[a]
      /\ disconnected \in SUBSET Address
  BY Typed DEF IInv, Counters, TypeOK
<1> HIDE DEF closed, disconnected
<1>3. \A a \in Address : MyConnection(a) => closed[a] = server.connections[a]
  BY <1>1, <1>2 DEF MyConnection
<1>4. \A a \in Address : closed[a] # None => closed[a] = server.connections[a]
  BY <1>2
<1>5. \A a, b \in Address : closed[a] # None /\ closed[b] # None /\ a # b =>
        closed[a].AuthorisedCookie # closed[b].AuthorisedCookie
  BY <1>4 DEF IInv, CookiesUnique
<1>6. \A a \in Address : closed[a] # None => RightAt(closed[a], a)
  BY <1>4 DEF IInv, ConnectionIsRight
<1>7. server'.connections = closed
  BY <1>1 DEF IInv, Counters, TypeOK
<1>8. \A a \in Address : MyConnection(a) => /\ MyConnection(a)'
                                            /\ server'.connections[a] = server.connections[a]
  BY <1>1, <1>3, <1>7 DEF MyConnection
<1>9. \A p \in network : Acknowledges(p) => Acknowledges(p)'
  BY <1>1, <1>8, Typed DEF Acknowledges, Authorised, Mine
<1>10. Authorised => \E a \in Address :
                       /\ closed[a] # None
                       /\ closed[a].CachedClientID = client.CachedClientID
                       /\ closed[a].AuthorisedCookie = client.AuthorisedCookie
  BY <1>3 DEF IInv, ClientIsRight, MyConnection
<1>11. \A q \in network, a \in Address :
         /\ q.type = "RestartResponse" /\ ~Mine(q)
         /\ closed[a] # None /\ closed[a].CachedClientID = client.CachedClientID
         => closed[a].AuthorisedCookie # q.OrigCookie
  BY <1>4 DEF IInv, PacketIsRight, Belongs, MyConnection
<1>12. /\ network' \subseteq Packets /\ \A p \in network' : Was(p)
       /\ faults' \in Nat /\ faults <= faults' /\ faults' <= MaxFaults /\ faultTime' \in Nat
  BY <1>1, LikeItself, Typed
<1> QED BY <1>1, <1>2, <1>5, <1>6, <1>9, <1>10, <1>11, <1>12, ConnectionsStep

LEMMA EndAckResendsStep ==
  ASSUME IInv, NEW packet \in network, packet.to = "server",
         server.connections[packet.address] # None,
         EndAckResends(server.connections[packet.address], packet), now' = now
  PROVE  IInv'
<1> DEFINE address == packet.address
           ended == [server.connections[address] EXCEPT !.LastChallengeSuccessAddress = None]
           connections == [server.connections EXCEPT ![address] = ended]
<1>1. address \in Address /\ server.connections[address] \in Connection
  BY Typed DEF Packets
<1>2. /\ UNCHANGED client /\ Deliver(packet, {})
      /\ server' = [server EXCEPT !.connections = connections]
  BY <1>1 DEF EndAckResends
<1>3. /\ ended \in Connection
      /\ ended.AuthorisedCookie = server.connections[address].AuthorisedCookie
      /\ ended.sequences = server.connections[address].sequences
      /\ ended.CachedClientID = server.connections[address].CachedClientID
  BY <1>1 DEF Connection
<1> HIDE DEF ended
<1>4. /\ connections \in [Address -> Connection \cup {None}]
      /\ \A a \in Address : connections[a] = IF a = address THEN ended ELSE server.connections[a]
  BY <1>1, <1>3, Typed
<1> HIDE DEF connections
<1>5. \A a \in Address :
        /\ connections[a] # None <=> server.connections[a] # None
        /\ connections[a] # None =>
             /\ connections[a].AuthorisedCookie = server.connections[a].AuthorisedCookie
             /\ connections[a].sequences = server.connections[a].sequences
             /\ connections[a].CachedClientID = server.connections[a].CachedClientID
  BY <1>1, <1>3, <1>4, Typed
<1> HIDE DEF address
<1>6. /\ server' = [server EXCEPT !.connections = connections,
                                  !.recentlyDisconnected = server.recentlyDisconnected]
      /\ server'.connections = connections
      /\ server.recentlyDisconnected \in SUBSET Address
  BY <1>2 DEF IInv, Counters, TypeOK
<1>7. \A a, b \in Address : connections[a] # None /\ connections[b] # None /\ a # b =>
        connections[a].AuthorisedCookie # connections[b].AuthorisedCookie
  BY <1>5 DEF IInv, CookiesUnique
<1>8. \A a \in Address : connections[a] # None => RightAt(connections[a], a)
  BY <1>5 DEF IInv, ConnectionIsRight, RightAt
<1>9. \A a \in Address :
        MyConnection(a) =>
          /\ MyConnection(a)'
          /\ server'.connections[a].AuthorisedCookie = server.connections[a].AuthorisedCookie
  BY <1>2, <1>5, <1>6 DEF MyConnection
<1>10. \A p \in network : Acknowledges(p) => Acknowledges(p)'
  BY <1>2, <1>9, Typed DEF Acknowledges, Authorised, Mine
<1>11. Authorised => \E a \in Address :
                       /\ connections[a] # None
                       /\ connections[a].CachedClientID = client.CachedClientID
                       /\ connections[a].AuthorisedCookie = client.AuthorisedCookie
  BY <1>5 DEF IInv, ClientIsRight, MyConnection
<1>12. \A q \in network, a \in Address :
         /\ q.type = "RestartResponse" /\ ~Mine(q)
         /\ connections[a] # None /\ connections[a].CachedClientID = client.CachedClientID
         => connections[a].AuthorisedCookie # q.OrigCookie
  BY <1>5 DEF IInv, PacketIsRight, Belongs, MyConnection
<1>13. /\ network' \subseteq Packets /\ \A p \in network' : Was(p)
       /\ faults' \in Nat /\ faults <= faults' /\ faults' <= MaxFaults /\ faultTime' \in Nat
  BY <1>2, Delivered, LikeItself, Typed
<1> QED BY <1>2, <1>4, <1>6, <1>7, <1>8, <1>10, <1>11, <1>12, <1>13, ConnectionsStep

\* The ack of a response, with the cookie of the connection
LEMMA AckIs ==
  ASSUME IInv, NEW packet \in network, packet.to = "server", packet.type \in Responses,
         NEW cookie \in Cookie, Known(cookie),
         NEW ack, ack = ChallengeAck(packet.address, packet.ClientID, cookie)
  PROVE  /\ ack \in Packets /\ ack.type = "Ack" /\ ack.ClientID = packet.ClientID
         /\ ack.challenge.Cookie = cookie
         /\ InTime(ack) /\ Carries(ack) /\ Belongs(ack) /\ ack.ClientID <= client.CachedClientID
         /\ Mine(ack) <=> Mine(packet)
<1> DEFINE challenge == [NoChallenge EXCEPT !.Cookie = cookie]
<1>1. /\ packet \in Packets /\ PacketIsRight(packet) /\ packet.address \in Address
      /\ packet.ClientID \in ClientID
  BY Typed DEF IInv, Packets
<1>2. challenge \in Challenge /\ challenge.Cookie = cookie
  BY NoChallengeIs DEF Challenge, OptionalCookie
<1>3. ack = Packet("client", "Ack", packet.address, packet.ClientID, challenge, None)
  BY DEF ChallengeAck
<1> HIDE DEF challenge
<1>4. /\ ack \in Packets /\ ack.type = "Ack" /\ ack.to = "client"
      /\ ack.ClientID = packet.ClientID /\ ack.challenge = challenge /\ ack.sent = now
  BY <1>1, <1>2, <1>3, PacketIs DEF PacketType, OptionalCookie
<1>5. InTime(ack)
  BY <1>4, AnswerInTime DEF FromClient, Answers
<1>6. Carries(ack)
  BY <1>2, <1>4 DEF Carries, Responses, FromClient
<1>7. Belongs(ack) /\ ack.ClientID <= client.CachedClientID
  BY <1>1, <1>4 DEF PacketIsRight, Belongs, FromClient, Responses
<1> QED BY <1>2, <1>4, <1>5, <1>6, <1>7 DEF Mine

LEMMA SequencesAre ==
  ASSUME NEW cookie \in Cookie
  PROVE  /\ Sequences(cookie, "server") \in Numbers
         /\ Sequences(cookie, "client") \in Numbers
BY DEF Sequences, Numbers

LEMMA ConnectionIs ==
  ASSUME IInv, NEW packet \in Packets, NEW cookie \in Cookie, NEW c,
         c = InitFromConnectionless(cookie, Sequences(cookie, "server"), packet)
  PROVE  /\ c \in Connection /\ c.AuthorisedCookie = cookie
         /\ c.sequences = Sequences(cookie, "server") /\ c.CachedClientID = packet.ClientID
BY Typed, SequencesAre DEF InitFromConnectionless, Connection, Packets

LEMMA AddConnectionStep ==
  ASSUME IInv, NEW packet \in network, packet.to = "server",
         server.connections[packet.address] = None,
         packet.type = "Response", AcceptResponse(packet), now' = now
  PROVE  IInv'
<1> DEFINE address == packet.address
           cookie == packet.challenge.Cookie
           new == InitFromConnectionless(cookie, Sequences(cookie, "server"), packet)
           connections == [server.connections EXCEPT ![address] = new]
<1>1. /\ packet \in Packets /\ PacketIsRight(packet) /\ address \in Address
      /\ Known(cookie) /\ cookie \in Cookie
  BY Typed DEF IInv, Packets, PacketIsRight, Carries, Responses, Known
<1>2. cookie.address = address
  BY DEF AcceptResponse, ChallengeSuccess, GenerateCookie
<1>0. PICK ack : ack = ChallengeAck(address, packet.ClientID, cookie)
  OBVIOUS
<1>3. /\ Deliver(packet, {ack}) /\ client' = client
      /\ server' = [server EXCEPT !.connections = connections]
  BY <1>0 DEF AcceptResponse, AddConnection
<1>4. /\ new \in Connection /\ new.AuthorisedCookie = cookie
      /\ new.sequences = Sequences(cookie, "server") /\ new.CachedClientID = packet.ClientID
  BY <1>1, ConnectionIs
<1> HIDE DEF new
<1>5. /\ connections \in [Address -> Connection \cup {None}]
      /\ \A a \in Address : connections[a] = IF a = address THEN new ELSE server.connections[a]
  BY <1>1, <1>4, Typed
<1> HIDE DEF connections
<1>6. /\ ack \in Packets /\ ack.type = "Ack" /\ ack.ClientID = packet.ClientID
      /\ ack.challenge.Cookie = cookie
      /\ InTime(ack) /\ Carries(ack) /\ ack.ClientID <= client.CachedClientID
      /\ Mine(ack) <=> Mine(packet)
  BY <1>0, <1>1, AckIs DEF Responses
<1>7. \A k \in Cookie : Retired(k) => cookie # k
  BY DEF Retired, Connecting
<1> HIDE DEF cookie
<1>8. \A q \in network : q.type = "RestartResponse" => cookie # q.OrigCookie
  BY <1>7 DEF IInv, PacketIsRight, Carries, Known
<1>9. \A a \in Address : MyConnection(a) => a # address /\ connections[a] = server.connections[a]
  BY <1>5 DEF MyConnection
<1>10. /\ server' = [server EXCEPT !.connections = connections,
                                   !.recentlyDisconnected = server.recentlyDisconnected]
       /\ server'.connections = connections
       /\ server.recentlyDisconnected \in SUBSET Address
  BY <1>3 DEF IInv, Counters, TypeOK
<1>11. \A a \in Address : a # address /\ connections[a] # None =>
                            connections[a].AuthorisedCookie # cookie
  <2> SUFFICES ASSUME NEW a \in Address, a # address, server.connections[a] # None
               PROVE  server.connections[a].AuthorisedCookie # cookie
    BY <1>5
  <2>1. RightAt(server.connections[a], a)
    BY DEF IInv, ConnectionIsRight
  <2> QED BY <2>1, <1>1, <1>2, <1>7 DEF RightAt
<1>12. \A a, b \in Address : connections[a] # None /\ connections[b] # None /\ a # b =>
         connections[a].AuthorisedCookie # connections[b].AuthorisedCookie
  <2> SUFFICES ASSUME NEW a \in Address, NEW b \in Address, a # b,
                      connections[a] # None, connections[b] # None
               PROVE  connections[a].AuthorisedCookie # connections[b].AuthorisedCookie
    OBVIOUS
  <2>1. CASE a = address
    BY <2>1, <1>4, <1>5, <1>11
  <2>2. CASE b = address
    BY <2>2, <1>4, <1>5, <1>11
  <2>3. CASE a # address /\ b # address
    BY <2>3, <1>5 DEF IInv, CookiesUnique
  <2> QED BY <2>1, <2>2, <2>3
<1>13. RightAt(new, address)
  BY <1>1, <1>2, <1>4 DEF RightAt, PacketIsRight, Belongs
<1>14. \A a \in Address : connections[a] # None => RightAt(connections[a], a)
  BY <1>5, <1>13 DEF IInv, ConnectionIsRight
<1>15. \A a \in Address : MyConnection(a) =>
         /\ MyConnection(a)' /\ server'.connections[a] = server.connections[a]
  BY <1>3, <1>9, <1>10 DEF MyConnection
<1>16. \A p \in network : Acknowledges(p) => Acknowledges(p)'
  BY <1>3, <1>15, Typed DEF Acknowledges, Authorised, Mine
<1>17. Authorised => \E a \in Address :
                       /\ connections[a] # None
                       /\ connections[a].CachedClientID = client.CachedClientID
                       /\ connections[a].AuthorisedCookie = client.AuthorisedCookie
  BY <1>9 DEF IInv, ClientIsRight, MyConnection
<1>18. \A q \in network, a \in Address :
         /\ q.type = "RestartResponse" /\ ~Mine(q)
         /\ connections[a] # None /\ connections[a].CachedClientID = client.CachedClientID
         => connections[a].AuthorisedCookie # q.OrigCookie
  BY <1>4, <1>5, <1>8 DEF IInv, PacketIsRight, Belongs, MyConnection
<1>19. Acknowledges(ack)'
  <2> SUFFICES ASSUME Mine(packet)
               PROVE  /\ address \in client.used /\ MyConnection(address)'
                      /\ server'.connections[address].AuthorisedCookie = cookie
    BY <1>3, <1>6 DEF Acknowledges, Mine
  <2>1. address \in client.used
    BY <1>1 DEF PacketIsRight, Belongs, FromClient, Responses
  <2>2. new # None
    BY <1>4, Typed
  <2> QED BY <2>1, <2>2, <1>1, <1>3, <1>4, <1>5, <1>10 DEF MyConnection, Mine
<1>20. AckMayCome(ack)
  BY <1>6, <1>8 DEF AckMayCome
<1>21. network' \subseteq Packets /\ \A p \in network' : Was(p) \/ (AckMayCome(p) /\ Acknowledges(p)')
  BY <1>3, <1>6, <1>19, <1>20, Delivered, LikeItself, Typed
<1>22. faults' \in Nat /\ faults <= faults' /\ faults' <= MaxFaults /\ faultTime' \in Nat
  BY <1>3, Delivered
<1> QED BY <1>3, <1>5, <1>10, <1>12, <1>14, <1>16, <1>17, <1>18, <1>21, <1>22, ConnectionsStep

LEMMA MoveConnectionStep ==
  ASSUME IInv, NEW packet \in network, packet.to = "server",
         server.connections[packet.address] = None, Matches(server, packet) # {},
         packet.type = "RestartResponse", AcceptResponse(packet), now' = now
  PROVE  IInv'
<1> DEFINE address == packet.address
           cookie == packet.OrigCookie
           old == CHOOSE a \in Matches(server, packet) : TRUE
           moved == InitFromConnectionless(cookie, server.connections[old].sequences, packet)
           connections == [[server.connections EXCEPT ![old] = None] EXCEPT ![address] = moved]
<1>1. /\ packet \in Packets /\ PacketIsRight(packet) /\ address \in Address
      /\ Known(cookie) /\ cookie \in Cookie /\ Retired(cookie)
  BY Typed DEF IInv, Packets, PacketIsRight, Carries, Responses, Known
<1>2. old \in Matches(server, packet)
  OBVIOUS
<1>0. PICK ack : ack = ChallengeAck(address, packet.ClientID, cookie)
  OBVIOUS
<1>3. /\ Deliver(packet, {ack}) /\ client' = client
      /\ server' = [server EXCEPT !.connections = connections]
  <2>1. connections = [server.connections EXCEPT ![old] = None, ![address] = moved]
    OBVIOUS
  <2> QED BY <1>0, <2>1 DEF AcceptResponse, MoveConnection
<1> HIDE DEF old
<1>4. /\ old \in Address /\ server.connections[old] # None
      /\ server.connections[old].AuthorisedCookie = cookie /\ old # address
  BY <1>2 DEF Matches
<1>5. server.connections[old].sequences = Sequences(cookie, "server")
  BY <1>4 DEF IInv, ConnectionIsRight, RightAt
<1>6. /\ moved \in Connection /\ moved.AuthorisedCookie = cookie
      /\ moved.sequences = Sequences(cookie, "server") /\ moved.CachedClientID = packet.ClientID
      /\ moved # None
  BY <1>1, <1>5, ConnectionIs, Typed
<1> HIDE DEF moved
<1>7. /\ connections \in [Address -> Connection \cup {None}]
      /\ connections[address] = moved /\ connections[old] = None
      /\ \A a \in Address : a # address /\ a # old => connections[a] = server.connections[a]
  BY <1>1, <1>4, <1>6, Typed
<1> HIDE DEF connections
<1>8. /\ ack \in Packets /\ ack.type = "Ack" /\ ack.ClientID = packet.ClientID
      /\ ack.challenge.Cookie = cookie
      /\ InTime(ack) /\ Carries(ack) /\ ack.ClientID <= client.CachedClientID
      /\ Mine(ack) <=> Mine(packet)
  BY <1>0, <1>1, AckIs DEF Responses
<1> HIDE DEF cookie
<1>9. Mine(packet) => client.AuthorisedCookie = cookie /\ Authorised /\ address \in client.used
  BY <1>1, Typed DEF cookie, PacketIsRight, Belongs, Authorised, FromClient, Responses
<1>10. ~Mine(packet) => client.AuthorisedCookie # cookie /\ ~MyConnection(old)
  BY <1>1, <1>4 DEF cookie, PacketIsRight, Belongs
<1>11. /\ server' = [server EXCEPT !.connections = connections,
                                   !.recentlyDisconnected = server.recentlyDisconnected]
       /\ server'.connections = connections
       /\ server.recentlyDisconnected \in SUBSET Address
  BY <1>3 DEF IInv, Counters, TypeOK
<1>12. \A a \in Address : a # address /\ connections[a] # None =>
         /\ connections[a] = server.connections[a]
         /\ connections[a].AuthorisedCookie # cookie
  BY <1>4, <1>7 DEF IInv, CookiesUnique
<1>13. \A a, b \in Address : connections[a] # None /\ connections[b] # None /\ a # b =>
         connections[a].AuthorisedCookie # connections[b].AuthorisedCookie
  <2> SUFFICES ASSUME NEW a \in Address, NEW b \in Address, a # b,
                      connections[a] # None, connections[b] # None
               PROVE  connections[a].AuthorisedCookie # connections[b].AuthorisedCookie
    OBVIOUS
  <2>1. CASE a = address
    BY <2>1, <1>6, <1>7, <1>12
  <2>2. CASE b = address
    BY <2>2, <1>6, <1>7, <1>12
  <2>3. CASE a # address /\ b # address
    BY <2>3, <1>12 DEF IInv, CookiesUnique
  <2> QED BY <2>1, <2>2, <2>3
<1>14. RightAt(moved, address)
  BY <1>1, <1>6 DEF RightAt, PacketIsRight, Belongs
<1>15. \A a \in Address : connections[a] # None => RightAt(connections[a], a)
  BY <1>7, <1>12, <1>14 DEF IInv, ConnectionIsRight
<1>16. \A a \in Address : MyConnection(a) /\ a # old =>
         /\ MyConnection(a)' /\ server'.connections[a] = server.connections[a]
  BY <1>3, <1>7, <1>11 DEF MyConnection
<1>17. Mine(packet) => MyConnection(address)'
  BY <1>3, <1>6, <1>7, <1>11 DEF MyConnection, Mine
<1>18. ASSUME NEW p \in network, Acknowledges(p) PROVE Acknowledges(p)'
  <2> SUFFICES ASSUME client.State # "Initialized", p.type = "Ack", Mine(p)
               PROVE  \E a \in client.used :
                        /\ MyConnection(a)'
                        /\ ~Authorised =>
                             server'.connections[a].AuthorisedCookie = p.challenge.Cookie
    BY <1>3 DEF Acknowledges, Authorised, Mine
  <2>1. PICK a \in client.used :
          /\ MyConnection(a)
          /\ ~Authorised => server.connections[a].AuthorisedCookie = p.challenge.Cookie
    BY <1>18 DEF Acknowledges
  <2>2. CASE a # old
    BY <2>1, <2>2, <1>16, Typed
  <2>3. CASE a = old
    BY <2>1, <2>3, <1>9, <1>10, <1>17
  <2> QED BY <2>2, <2>3
<1>19. Authorised => \E a \in Address :
                       /\ connections[a] # None
                       /\ connections[a].CachedClientID = client.CachedClientID
                       /\ connections[a].AuthorisedCookie = client.AuthorisedCookie
  <2> SUFFICES ASSUME Authorised
               PROVE  \E a \in Address :
                       /\ connections[a] # None
                       /\ connections[a].CachedClientID = client.CachedClientID
                       /\ connections[a].AuthorisedCookie = client.AuthorisedCookie
    OBVIOUS
  <2>1. PICK a \in Address :
          /\ MyConnection(a)
          /\ server.connections[a].AuthorisedCookie = client.AuthorisedCookie
    BY DEF IInv, ClientIsRight
  <2>2. CASE a # old
    <3>1. connections[a] = server.connections[a]
      BY <2>1, <2>2, <1>7 DEF MyConnection
    <3> QED BY <2>1, <3>1 DEF MyConnection
  <2>3. CASE a = old
    <3>1. Mine(packet)
      BY <2>1, <2>3, <1>10
    <3> QED BY <3>1, <1>1, <1>6, <1>7, <1>9 DEF Mine
  <2> QED BY <2>2, <2>3
<1>20. \A q \in network, a \in Address :
         /\ q.type = "RestartResponse" /\ ~Mine(q)
         /\ connections[a] # None /\ connections[a].CachedClientID = client.CachedClientID
         => connections[a].AuthorisedCookie # q.OrigCookie
  <2> SUFFICES ASSUME NEW q \in network, NEW a \in Address, q.type = "RestartResponse", ~Mine(q),
                      connections[a] # None, connections[a].CachedClientID = client.CachedClientID
               PROVE  connections[a].AuthorisedCookie # q.OrigCookie
    OBVIOUS
  <2>1. Belongs(q)
    BY DEF IInv, PacketIsRight
  <2>2. CASE a = address
    <3>1. Mine(packet)
      BY <2>2, <1>6, <1>7 DEF Mine
    <3> QED BY <2>1, <2>2, <3>1, <1>6, <1>7, <1>9 DEF Belongs
  <2>3. CASE a # address
    BY <2>1, <2>3, <1>12 DEF Belongs, MyConnection
  <2> QED BY <2>2, <2>3
<1>21. Acknowledges(ack)'
  BY <1>3, <1>8, <1>9, <1>17 DEF Acknowledges, Mine, Authorised
<1>22. AckMayCome(ack)
  BY <1>8, <1>9 DEF AckMayCome
<1>23. network' \subseteq Packets /\ \A p \in network' : Was(p) \/ (AckMayCome(p) /\ Acknowledges(p)')
  BY <1>3, <1>8, <1>21, <1>22, Delivered, LikeItself, Typed
<1>24. faults' \in Nat /\ faults <= faults' /\ faults' <= MaxFaults /\ faultTime' \in Nat
  BY <1>3, Delivered
<1> QED BY <1>3, <1>7, <1>11, <1>13, <1>15, <1>18, <1>19, <1>20, <1>23, <1>24, ConnectionsStep

\* A response that names no connection is not the client's, which has one.
LEMMA NoConnectionStep ==
  ASSUME IInv, NEW packet \in network, packet.to = "server",
         Matches(server, packet) = {},
         packet.type = "RestartResponse", AcceptResponse(packet), now' = now
  PROVE  IInv'
<1> DEFINE cookie == packet.OrigCookie
           ack == ChallengeAck(packet.address, packet.ClientID, cookie)
<1>1. /\ packet \in Packets /\ PacketIsRight(packet) /\ Known(cookie) /\ cookie \in Cookie
  BY Typed DEF IInv, PacketIsRight, Carries, Known
<1>2. Deliver(packet, {ack}) /\ UNCHANGED <<client, server>>
  BY DEF AcceptResponse
<1>3. /\ ack \in Packets /\ ack.type = "Ack" /\ InTime(ack) /\ Carries(ack) /\ Belongs(ack)
      /\ Mine(ack) <=> Mine(packet)
  BY <1>1, AckIs DEF Responses
<1> HIDE DEF ack
<1>4. ~Mine(packet)
  <2> SUFFICES ASSUME Mine(packet) PROVE FALSE
    OBVIOUS
  <2>1. client.AuthorisedCookie = cookie /\ Authorised
    BY <1>1, Typed DEF PacketIsRight, Belongs, Authorised
  <2>2. PICK a \in Address :
          /\ MyConnection(a)
          /\ server.connections[a].AuthorisedCookie = client.AuthorisedCookie
    BY <2>1 DEF IInv, ClientIsRight
  <2> QED BY <2>1, <2>2 DEF Matches, MyConnection
<1>5. MayCome(ack)
  BY <1>3, <1>4 DEF MayCome, PacketIsRight, Acknowledges, Connecting
<1> QED BY <1>2, <1>3, <1>5, AnswerStep

LEMMA AcceptResponseStep ==
  ASSUME IInv, NEW packet \in network, packet.to = "server",
         server.connections[packet.address] = None, AcceptResponse(packet), now' = now
  PROVE  IInv'
<1>1. packet.type \in Responses
  BY DEF AcceptResponse, ChallengeSuccess, Responses
<1>2. CASE packet.type = "Response"
  BY <1>2, AddConnectionStep
<1>3. CASE packet.type = "RestartResponse" /\ Matches(server, packet) # {}
  BY <1>3, MoveConnectionStep
<1>4. CASE packet.type = "RestartResponse" /\ Matches(server, packet) = {}
  BY <1>4, NoConnectionStep
<1> QED BY <1>1, <1>2, <1>3, <1>4 DEF Responses

LEMMA ServerReceivesStep ==
  ASSUME IInv, NEW packet \in network, ServerReceives(packet), now' = now
  PROVE  IInv'
<1> DEFINE connection == server.connections[packet.address]
<1>1. /\ packet.to = "server"
      /\ \/ connection = None /\ SendConnectChallenge(packet)
         \/ connection = None /\ AcceptResponse(packet)
         \/ connection = None /\ SendRestartHandshakeRequest(packet)
         \/ connection # None /\ ResendChallengeAck(connection, packet)
         \/ connection # None /\ EndAckResends(connection, packet)
  BY DEF ServerReceives
<1>2. CASE SendConnectChallenge(packet)
  BY <1>1, <1>2, SendConnectChallengeStep
<1>3. CASE connection = None /\ AcceptResponse(packet)
  BY <1>1, <1>3, AcceptResponseStep
<1>4. CASE SendRestartHandshakeRequest(packet)
  BY <1>1, <1>4, SendRestartHandshakeRequestStep
<1>5. CASE connection # None /\ ResendChallengeAck(connection, packet)
  BY <1>1, <1>5, ResendChallengeAckStep
<1>6. CASE connection # None /\ EndAckResends(connection, packet)
  BY <1>1, <1>6, EndAckResendsStep
<1> QED BY <1>1, <1>2, <1>3, <1>4, <1>5, <1>6

-----------------------------------------------------------------------------
(* Steps that change the client, and time                                  *)

LEMMA TimePassesStep ==
  ASSUME IInv, TimePasses
  PROVE  IInv'
<1>1. /\ now' = now + 1 /\ UNCHANGED <<client, server, network, faults, faultTime>>
      /\ \A p \in network : p.late /\ now - p.sent < MaxDelay
  BY DEF TimePasses
<1>2. \A challenge \in Challenge : Genuine(challenge) => Genuine(challenge)'
  BY <1>1, Typed DEF Genuine, Challenge
<1>3. \A cookie : Known(cookie) => Known(cookie)'
  BY <1>1 DEF Known
<1>4. /\ Authorised' <=> Authorised
      /\ \A p : Mine(p)' <=> Mine(p)
      /\ \A p : Connecting(p)' <=> Connecting(p)
      /\ \A a : MyConnection(a)' <=> MyConnection(a)
  BY <1>1 DEF Authorised, Mine, Connecting, MyConnection
<1>5. ASSUME NEW cookie \in Cookie, Retired(cookie) PROVE Retired(cookie)'
  BY <1>1, <1>4, <1>5, Typed DEF Retired, Cookie
<1>6. Counters'
  <2>1. TypeOK'
    BY <1>1, Typed DEF IInv, Counters, TypeOK
  <2> QED BY <1>1, <2>1, Typed DEF IInv, Counters
<1>7. CookiesUnique'
  BY <1>1 DEF IInv, CookiesUnique
<1>8. ClientIsRight'
  <2>1. client.bRestartedHandshake => Retired(client.AuthorisedCookie)'
    <3> DEFINE k == client.AuthorisedCookie
    <3> SUFFICES ASSUME client.bRestartedHandshake PROVE Retired(k)'
      OBVIOUS
    <3>1. k \in Cookie /\ Retired(k) /\ k' = k
      BY <1>1 DEF IInv, ClientIsRight, Known
    <3> HIDE DEF k
    <3> QED BY <3>1, <1>5 DEF Retired
  <2>2. client.State = "InitializedOnLocal" => Genuine(client.LastChallenge)'
    <3> DEFINE ch == client.LastChallenge
    <3> SUFFICES ASSUME client.State = "InitializedOnLocal" PROVE Genuine(ch)'
      OBVIOUS
    <3>1. ch \in Challenge /\ Genuine(ch) /\ ch' = ch
      BY <1>1, Typed DEF IInv, ClientIsRight
    <3> HIDE DEF ch
    <3> QED BY <3>1, <1>2 DEF Genuine
  <2> QED BY <1>1, <1>3, <1>4, <2>1, <2>2 DEF IInv, ClientIsRight, Known
<1>9. ASSUME NEW p \in network PROVE PacketIsRight(p)'
  <2>1. PacketIsRight(p) /\ p \in Packets
    BY Typed DEF IInv
  <2>2. InTime(p)'
    BY <1>1, <2>1, Typed DEF PacketIsRight, InTime, Packets
  <2>3. Carries(p)'
    BY <1>2, <1>3, <1>5, <2>1 DEF PacketIsRight, Carries, Packets, Known
  <2>4. Belongs(p)' /\ Acknowledges(p)'
    BY <1>1, <1>4, <2>1 DEF PacketIsRight, Belongs, Acknowledges
  <2> QED BY <2>2, <2>3, <2>4 DEF PacketIsRight
<1>10. ASSUME NEW a \in Address PROVE ConnectionIsRight(a)'
  <2> SUFFICES ASSUME NEW c \in Connection, server.connections[a] = c PROVE RightAt(c, a)'
    BY <1>1, Typed DEF ConnectionIsRight
  <2>1. RightAt(c, a) /\ c.AuthorisedCookie \in Cookie
    BY Typed DEF IInv, ConnectionIsRight, RightAt, Known
  <2> QED BY <1>1, <1>3, <1>5, <2>1 DEF RightAt
<1> QED BY <1>1, <1>6, <1>7, <1>8, <1>9, <1>10 DEF IInv

\* A step that changes the client, and the packets under way
LEMMA ClientStep ==
  ASSUME IInv, UNCHANGED <<server, now>>, TypeOK',
         client.LastClientSendTimestamp <= client'.LastClientSendTimestamp,
         client'.LastClientSendTimestamp <= now,
         client.CachedClientID <= client'.CachedClientID,
         client'.CachedClientID <= faults', faults' <= MaxFaults,
         \A cookie \in Cookie : Retired(cookie) => Retired(cookie)',
         ClientIsRight',
         \A p \in network' : PacketIsRight(p)'
  PROVE  IInv'
<1>1. \A cookie \in Cookie : Known(cookie) => Known(cookie)'
  BY Typed DEF Known, Cookie, TypeOK
<1>2. Counters'
  BY Typed DEF Counters
<1>3. CookiesUnique'
  BY DEF IInv, CookiesUnique
<1>4. ASSUME NEW a \in Address PROVE ConnectionIsRight(a)'
  <2> SUFFICES ASSUME NEW c \in Connection, server.connections[a] = c PROVE RightAt(c, a)'
    BY Typed DEF ConnectionIsRight
  <2>1. RightAt(c, a) /\ c.AuthorisedCookie \in Cookie
    BY Typed DEF IInv, ConnectionIsRight, RightAt, Known
  <2>2. c.CachedClientID \in Nat /\ client'.CachedClientID \in Nat
    BY Typed DEF Connection, ClientID, TypeOK
  <2> QED BY <1>1, <2>1, <2>2, Typed DEF RightAt
<1> QED BY <1>2, <1>3, <1>4 DEF IInv

\* A step by which the client stays who it is leaves the packets right that are
\* under way.
LEMMA StaysRight ==
  ASSUME IInv, UNCHANGED <<server, now>>,
         client'.CachedClientID = client.CachedClientID,
         client'.AuthorisedCookie = client.AuthorisedCookie,
         client'.State # "Initialized" => client.State # "Initialized",
         client.used \subseteq client'.used,
         client'.LastClientSendTimestamp \in Nat,
         client.LastClientSendTimestamp <= client'.LastClientSendTimestamp,
         \A cookie \in Cookie : Retired(cookie) => Retired(cookie)',
         \A p \in network' : p \in network \/ p.type # "Ack",
         NEW p \in network
  PROVE  PacketIsRight(p)'
<1>1. PacketIsRight(p) /\ p \in Packets
  BY Typed DEF IInv
<1>2. /\ Authorised' <=> Authorised
      /\ \A q : Mine(q)' <=> Mine(q)
      /\ \A a : MyConnection(a)' <=> MyConnection(a)
  BY DEF Authorised, Mine, MyConnection
<1>3. InTime(p)'
  BY <1>1, Typed DEF PacketIsRight, InTime, Packets
<1>4. Carries(p)'
  <2>1. \A cookie \in Cookie : Known(cookie) => Known(cookie)'
    BY Typed DEF Known, Cookie
  <2>2. \A challenge : Genuine(challenge) => Genuine(challenge)'
    BY DEF Genuine
  <2> QED BY <1>1, <2>1, <2>2 DEF PacketIsRight, Carries, Known
<1>5. Belongs(p)'
  BY <1>1, <1>2 DEF PacketIsRight, Belongs
<1>6. Acknowledges(p)'
  BY <1>1, <1>2 DEF PacketIsRight, Acknowledges
<1> QED BY <1>3, <1>4, <1>5, <1>6 DEF PacketIsRight

LEMMA InitialPacketIs ==
  ASSUME IInv, NEW p, p = InitialPacket(client)
  PROVE  /\ p \in Packets /\ p.to = "server" /\ p.type = "InitialPacket"
         /\ p.address = client.address /\ p.ClientID = client.CachedClientID /\ p.sent = now
BY Typed, PacketIs, NoChallengeIs DEF InitialPacket, PacketType, OptionalCookie

LEMMA ChallengeResponseIs ==
  ASSUME IInv, NEW challenge \in Challenge, NEW p, p = ChallengeResponse(client, challenge)
  PROVE  /\ p \in Packets /\ p.to = "server" /\ p.challenge = challenge
         /\ p.address = client.address /\ p.ClientID = client.CachedClientID /\ p.sent = now
         /\ IF client.bRestartedHandshake
            THEN p.type = "RestartResponse" /\ p.OrigCookie = client.AuthorisedCookie
            ELSE p.type = "Response"
<1>1. CASE client.bRestartedHandshake
  <2>1. client.AuthorisedCookie \in OptionalCookie
    BY Typed DEF OptionalCookie
  <2>2. p = Packet("server", "RestartResponse", client.address, client.CachedClientID,
                   challenge, client.AuthorisedCookie)
    BY <1>1 DEF ChallengeResponse
  <2> QED BY <1>1, <2>1, <2>2, Typed, PacketIs DEF PacketType
<1>2. CASE ~client.bRestartedHandshake
  <2>1. p = Packet("server", "Response", client.address, client.CachedClientID, challenge, None)
    BY <1>2 DEF ChallengeResponse
  <2> QED BY <1>2, <2>1, Typed, PacketIs DEF PacketType, OptionalCookie
<1> QED BY <1>1, <1>2

\* The client sends a packet of the handshake: the initial one, or the response
\* to its last challenge.
LEMMA ClientSendsStep ==
  ASSUME IInv, UNCHANGED <<server, now>>, TypeOK', faults <= faults', faults' <= MaxFaults,
         client.State # "Initialized",
         client'.State \in {"UnInitialized", "InitializedOnLocal"},
         client'.LastClientSendTimestamp = now,
         client'.CachedClientID = client.CachedClientID,
         client'.AuthorisedCookie = client.AuthorisedCookie,
         client'.bRestartedHandshake = client.bRestartedHandshake,
         client'.sequences = client.sequences,
         client'.address = client.address, client'.used = client.used,
         NEW challenge \in Challenge,
         client'.State = "InitializedOnLocal" =>
           /\ client'.LastChallenge = challenge /\ Genuine(challenge)
           /\ ~Authorised =>
                \A cookie \in Cookie : Retired(cookie) => challenge.Cookie # cookie,
         NEW sent, network' \subseteq network \cup {sent},
         \/ sent = InitialPacket(client)
         \/ sent = ChallengeResponse(client, challenge) /\ client'.State = "InitializedOnLocal"
  PROVE  IInv'
<1>1. /\ Authorised' <=> Authorised
      /\ \A q : Mine(q)' <=> Mine(q)
      /\ \A q : Connecting(q)' <=> Connecting(q)
      /\ \A a : MyConnection(a)' <=> MyConnection(a)
  BY DEF Authorised, Mine, MyConnection, Connecting
<1>2. ~Authorised <=> ~client.bRestartedHandshake
  BY DEF IInv, ClientIsRight
<1>3. /\ sent.to = "server" /\ sent.address = client.address
      /\ sent.ClientID = client.CachedClientID /\ sent.sent = now
      /\ \/ sent.type = "InitialPacket"
         \/ /\ client'.State = "InitializedOnLocal" /\ sent.challenge = challenge
            /\ IF Authorised
               THEN sent.type = "RestartResponse" /\ sent.OrigCookie = client.AuthorisedCookie
               ELSE sent.type = "Response"
  BY <1>2, InitialPacketIs, ChallengeResponseIs
<1>4. Mine(sent) /\ sent.type \in FromClient /\ sent.type # "Ack"
  BY <1>3 DEF Mine, FromClient, Responses
<1>5. ASSUME NEW cookie \in Cookie, Retired(cookie) PROVE Retired(cookie)'
  <2>1. Connecting(sent) => sent.challenge.Cookie # cookie
    BY <1>3, <1>5 DEF Connecting
  <2>2. client'.State = "InitializedOnLocal" /\ ~Authorised => client'.LastChallenge.Cookie # cookie
    BY <1>5
  <2> QED BY <1>1, <1>5, <2>1, <2>2 DEF Retired
<1>6. \A cookie \in Cookie : Known(cookie) => Known(cookie)'
  BY Typed DEF Known, Cookie
<1>7. client.bRestartedHandshake => Retired(client.AuthorisedCookie)'
  <2> DEFINE k == client.AuthorisedCookie
  <2> SUFFICES ASSUME client.bRestartedHandshake PROVE Retired(k)'
    OBVIOUS
  <2>1. k \in Cookie /\ Retired(k) /\ k' = k
    BY DEF IInv, ClientIsRight, Known
  <2> HIDE DEF k
  <2> QED BY <2>1, <1>5 DEF Retired
<1>8. client'.State = "InitializedOnLocal" => Genuine(client.LastChallenge)'
  <2> SUFFICES ASSUME client'.State = "InitializedOnLocal" PROVE Genuine(client.LastChallenge)'
    OBVIOUS
  <2>1. Genuine(challenge)'
    BY DEF Genuine
  <2> QED BY <2>1 DEF Genuine
<1>9. ClientIsRight'
  <2>1. Authorised => Known(client.AuthorisedCookie)'
    BY Typed DEF IInv, ClientIsRight, Known, Cookie
  <2> QED BY <1>1, <1>7, <1>8, <2>1 DEF IInv, ClientIsRight
<1>10. PacketIsRight(sent)'
  <2>1. InTime(sent)'
    BY <1>3, <1>4, Typed DEF InTime, Answers, FromClient, Responses
  <2>2. Carries(sent)'
    <3>1. CASE sent.type = "InitialPacket"
      BY <1>3, <3>1 DEF Carries, Responses, FromClient
    <3>2. CASE sent.type # "InitialPacket"
      <4>1. Genuine(challenge)' /\ Known(challenge.Cookie)'
        BY <1>3, <3>2, Typed DEF Genuine, Known
      <4>2. sent.type = "RestartResponse" => Known(sent.OrigCookie)' /\ Retired(sent.OrigCookie)'
        <5> SUFFICES ASSUME sent.type = "RestartResponse"
                     PROVE  Known(sent.OrigCookie)' /\ Retired(sent.OrigCookie)'
          OBVIOUS
        <5>1. /\ client.bRestartedHandshake /\ Authorised
              /\ sent.OrigCookie = client.AuthorisedCookie
          BY <1>2, <1>3, <3>2
        <5>2. sent.OrigCookie \in Cookie /\ Known(sent.OrigCookie) /\ Retired(sent.OrigCookie)
          BY <5>1 DEF IInv, ClientIsRight, Known
        <5> QED BY <5>2, <1>5, <1>6
      <4> QED BY <1>3, <3>2, <4>1, <4>2 DEF Carries, Responses, FromClient
    <3> QED BY <3>1, <3>2
  <2>3. Belongs(sent)'
    BY <1>1, <1>3, <1>4, Typed DEF Belongs, IInv, ClientIsRight
  <2>4. Acknowledges(sent)'
    BY <1>4 DEF Acknowledges
  <2> QED BY <2>1, <2>2, <2>3, <2>4 DEF PacketIsRight
<1>11. \A p \in network : PacketIsRight(p)'
  BY <1>4, <1>5, Typed, StaysRight
<1>12. \A p \in network' : PacketIsRight(p)'
  BY <1>10, <1>11
<1>13. client'.CachedClientID <= faults'
  <2>1. faults' \in Nat
    BY DEF TypeOK
  <2> QED BY <2>1, Typed
<1> QED BY <1>5, <1>9, <1>12, <1>13, Typed, ClientStep

LEMMA ClientTyped ==
  ASSUME IInv
  PROVE  client \in [State : {"UnInitialized", "InitializedOnLocal", "Initialized"},
                     bRestartedHandshake : BOOLEAN, CachedClientID : ClientID,
                     address : Address, LastClientSendTimestamp : Nat,
                     LastChallengeTimestamp : Nat, LastRestartPacketTimestamp : Nat,
                     LastChallenge : Challenge, AuthorisedCookie : OptionalCookie,
                     sequences : Numbers \cup {None}, used : SUBSET Address]
BY DEF IInv, Counters, TypeOK

\* What a step leaves as it is, of its type
LEMMA TypedStep ==
  ASSUME IInv, UNCHANGED <<server, now>>, network' \subseteq Packets, faults' \in Nat,
         faultTime' \in Nat,
         client' \in [State : {"UnInitialized", "InitializedOnLocal", "Initialized"},
                      bRestartedHandshake : BOOLEAN, CachedClientID : ClientID,
                      address : Address, LastClientSendTimestamp : Nat,
                      LastChallengeTimestamp : Nat, LastRestartPacketTimestamp : Nat,
                      LastChallenge : Challenge, AuthorisedCookie : OptionalCookie,
                      sequences : Numbers \cup {None}, used : SUBSET Address]
  PROVE  TypeOK'
BY DEF IInv, Counters, TypeOK

LEMMA TickStep ==
  ASSUME IInv, Tick
  PROVE  IInv'
<1> DEFINE old == now - client.LastChallengeTimestamp > MIN_COOKIE_LIFETIME
           state == IF old THEN "UnInitialized" ELSE client.State
           challenge == client.LastChallenge
<1>1. PICK resent : resent = IF state = "UnInitialized" THEN InitialPacket(client)
                             ELSE ChallengeResponse(client, challenge)
  OBVIOUS
<1>2. /\ client.State # "Initialized"
      /\ client' = [client EXCEPT !.State = state, !.LastClientSendTimestamp = now]
      /\ network' = network \cup {resent}
      /\ UNCHANGED <<server, now, faults, faultTime>>
  BY <1>1 DEF Tick, ResendDue
<1>3. /\ state \in {"UnInitialized", "InitializedOnLocal"}
      /\ state = "InitializedOnLocal" => client.State = "InitializedOnLocal"
  BY <1>2, Typed
<1> HIDE DEF state
<1>4. /\ client'.State = state /\ client'.LastClientSendTimestamp = now
      /\ client'.CachedClientID = client.CachedClientID
      /\ client'.AuthorisedCookie = client.AuthorisedCookie
      /\ client'.bRestartedHandshake = client.bRestartedHandshake
      /\ client'.sequences = client.sequences
      /\ client'.address = client.address /\ client'.used = client.used
      /\ client'.LastChallenge = client.LastChallenge
  BY <1>2, ClientTyped
<1>5. resent \in Packets
  BY <1>1, Typed, InitialPacketIs, ChallengeResponseIs
<1>6. TypeOK'
  <2>1. client' \in [State : {"UnInitialized", "InitializedOnLocal", "Initialized"},
                     bRestartedHandshake : BOOLEAN, CachedClientID : ClientID,
                     address : Address, LastClientSendTimestamp : Nat,
                     LastChallengeTimestamp : Nat, LastRestartPacketTimestamp : Nat,
                     LastChallenge : Challenge, AuthorisedCookie : OptionalCookie,
                     sequences : Numbers \cup {None}, used : SUBSET Address]
    BY <1>2, <1>3, ClientTyped, Typed
  <2> QED BY <1>2, <1>5, <2>1, Typed, TypedStep
<1>7. ASSUME client.State = "InitializedOnLocal"
      PROVE  /\ Genuine(challenge)
             /\ ~Authorised =>
                  \A cookie \in Cookie : Retired(cookie) => challenge.Cookie # cookie
  BY <1>7 DEF IInv, ClientIsRight, Retired
<1>8. /\ faults <= faults' /\ faults' <= MaxFaults /\ challenge \in Challenge
      /\ network' \subseteq network \cup {resent}
  BY <1>2, Typed
<1>9. \/ resent = InitialPacket(client)
      \/ resent = ChallengeResponse(client, challenge) /\ client'.State = "InitializedOnLocal"
  BY <1>1, <1>3, <1>4
<1>10. client'.State = "InitializedOnLocal" => client'.LastChallenge = challenge
  BY <1>4
<1> HIDE DEF challenge
<1> QED BY <1>2, <1>3, <1>4, <1>6, <1>7, <1>8, <1>9, <1>10, ClientSendsStep

LEMMA ReceiveChallengeStep ==
  ASSUME IInv, NEW packet \in network, packet.to = "client",
         ReceiveChallenge(packet), now' = now
  PROVE  IInv'
<1> DEFINE challenge == packet.challenge
<1>1. PICK sent : sent = ChallengeResponse(client, challenge)
  OBVIOUS
<1>2. /\ packet.ClientID = client.CachedClientID /\ packet.type = "Challenge"
      /\ client.State # "Initialized"
      /\ client' = [client EXCEPT !.State = "InitializedOnLocal",
                                  !.LastChallengeTimestamp = now,
                                  !.LastChallenge = challenge,
                                  !.LastClientSendTimestamp = now]
      /\ Deliver(packet, {sent}) /\ UNCHANGED server
  BY <1>1 DEF ReceiveChallenge, IsChallenge, AcceptsClientID
<1>3. /\ packet \in Packets /\ challenge \in Challenge /\ Genuine(challenge)
      /\ ~Authorised => Connecting(packet)
  BY <1>2, Typed DEF IInv, Packets, PacketIsRight, Carries, Connecting, Mine
<1>4. /\ client'.State = "InitializedOnLocal" /\ client'.LastClientSendTimestamp = now
      /\ client'.CachedClientID = client.CachedClientID
      /\ client'.AuthorisedCookie = client.AuthorisedCookie
      /\ client'.bRestartedHandshake = client.bRestartedHandshake
      /\ client'.sequences = client.sequences
      /\ client'.address = client.address /\ client'.used = client.used
      /\ client'.LastChallenge = challenge
  BY <1>2, ClientTyped
<1>5. ~Authorised => \A cookie \in Cookie : Retired(cookie) => challenge.Cookie # cookie
  BY <1>3 DEF Retired
<1> HIDE DEF challenge
<1>6. sent \in Packets
  BY <1>1, <1>3, Typed, ChallengeResponseIs
<1>7. /\ network' \subseteq network \cup {sent}
      /\ faults' \in Nat /\ faults <= faults' /\ faults' <= MaxFaults /\ faultTime' \in Nat
  BY <1>2, Delivered
<1>8. TypeOK'
  <2>1. client' \in [State : {"UnInitialized", "InitializedOnLocal", "Initialized"},
                     bRestartedHandshake : BOOLEAN, CachedClientID : ClientID,
                     address : Address, LastClientSendTimestamp : Nat,
                     LastChallengeTimestamp : Nat, LastRestartPacketTimestamp : Nat,
                     LastChallenge : Challenge, AuthorisedCookie : OptionalCookie,
                     sequences : Numbers \cup {None}, used : SUBSET Address]
    BY <1>2, <1>3, ClientTyped, Typed
  <2> QED BY <1>2, <1>6, <1>7, <2>1, Typed, TypedStep
<1> QED BY <1>1, <1>2, <1>3, <1>4, <1>5, <1>7, <1>8, ClientSendsStep

LEMMA ReceiveAckStep ==
  ASSUME IInv, NEW packet \in network, packet.to = "client", ReceiveAck(packet), now' = now
  PROVE  IInv'
<1> DEFINE cookie == packet.challenge.Cookie
           kept == IF client.bRestartedHandshake THEN client.AuthorisedCookie ELSE cookie
           numbers == IF client.bRestartedHandshake THEN client.sequences
                      ELSE Sequences(cookie, "client")
<1>1. /\ packet.ClientID = client.CachedClientID /\ packet.type = "Ack"
      /\ client.State # "Initialized"
      /\ client' = [client EXCEPT !.State = "Initialized", !.bRestartedHandshake = FALSE,
                                  !.AuthorisedCookie = kept, !.sequences = numbers]
      /\ Deliver(packet, {}) /\ UNCHANGED server
  BY DEF ReceiveAck, IsAck, AcceptsClientID
<1>2. packet \in Packets /\ PacketIsRight(packet) /\ Mine(packet)
  BY <1>1, Typed DEF IInv, Mine
<1>3. Known(cookie) /\ cookie \in Cookie
  BY <1>1, <1>2 DEF PacketIsRight, Carries, Known
<1>4. client.bRestartedHandshake <=> Authorised
  BY <1>1 DEF IInv, ClientIsRight
<1>5. /\ Known(kept) /\ kept \in Cookie /\ numbers = Sequences(kept, "client")
      /\ numbers \in Numbers
  <2>1. Authorised => /\ Known(client.AuthorisedCookie)
                      /\ client.sequences = Sequences(client.AuthorisedCookie, "client")
    BY DEF IInv, ClientIsRight
  <2>2. Known(kept) /\ numbers = Sequences(kept, "client")
    BY <1>3, <1>4, <2>1
  <2> QED BY <2>2, SequencesAre DEF Known
<1>6. \E a \in Address : /\ MyConnection(a)
                         /\ server.connections[a].AuthorisedCookie = kept
  <2>1. CASE Authorised
    BY <1>4, <2>1 DEF IInv, ClientIsRight
  <2>2. CASE ~Authorised
    BY <1>1, <1>2, <1>4, <2>2, Typed DEF PacketIsRight, Acknowledges
  <2> QED BY <2>1, <2>2
<1>7. ASSUME NEW q \in network, q.type = "RestartResponse"
      PROVE  IF Mine(q) THEN q.OrigCookie = kept
             ELSE /\ q.OrigCookie # kept
                  /\ \A a \in Address :
                       MyConnection(a) => server.connections[a].AuthorisedCookie # q.OrigCookie
  <2>1. Belongs(q) /\ q.OrigCookie \in Cookie
    BY <1>7 DEF IInv, PacketIsRight, Carries, Known
  <2>2. Mine(q) => Authorised
    BY <1>7, <2>1, Typed DEF Belongs, Authorised
  <2>3. ~Mine(q) /\ ~Authorised => q.OrigCookie # cookie
    BY <1>1, <1>2, <1>7, <2>1 DEF Belongs
  <2> QED BY <1>4, <1>7, <2>1, <2>2, <2>3 DEF Belongs
<1> HIDE DEF kept, numbers, cookie
<1>8. /\ client'.State = "Initialized" /\ client'.bRestartedHandshake = FALSE
      /\ client'.AuthorisedCookie = kept /\ client'.sequences = numbers
      /\ client'.CachedClientID = client.CachedClientID
      /\ client'.LastClientSendTimestamp = client.LastClientSendTimestamp
      /\ client'.address = client.address /\ client'.used = client.used
  BY <1>1, ClientTyped
<1>9. Authorised' /\ kept # None
  BY <1>5, <1>8, Typed DEF Authorised
<1>10. /\ network' \subseteq network
       /\ faults' \in Nat /\ faults <= faults' /\ faults' <= MaxFaults /\ faultTime' \in Nat
  BY <1>1, Delivered
<1>11. TypeOK'
  <2>1. client' \in [State : {"UnInitialized", "InitializedOnLocal", "Initialized"},
                     bRestartedHandshake : BOOLEAN, CachedClientID : ClientID,
                     address : Address, LastClientSendTimestamp : Nat,
                     LastChallengeTimestamp : Nat, LastRestartPacketTimestamp : Nat,
                     LastChallenge : Challenge, AuthorisedCookie : OptionalCookie,
                     sequences : Numbers \cup {None}, used : SUBSET Address]
    BY <1>1, <1>5, ClientTyped DEF OptionalCookie
  <2> QED BY <1>1, <1>10, <2>1, Typed, TypedStep
<1>12. /\ \A q : Mine(q)' <=> Mine(q)
       /\ \A a : MyConnection(a)' <=> MyConnection(a)
  BY <1>1, <1>8 DEF Mine, MyConnection
<1>13. ASSUME NEW k \in Cookie, Retired(k) PROVE Retired(k)'
  <2>1. \A q \in network' : Connecting(q)' => q \in network /\ Connecting(q)
    BY <1>9, <1>10 DEF Connecting
  <2> QED BY <1>8, <1>13, <2>1 DEF Retired
<1>14. \A k : Known(k) => Known(k)'
  BY <1>8 DEF Known
<1>15. ClientIsRight'
  <2>1. \E a \in Address : /\ MyConnection(a)'
                           /\ server'.connections[a].AuthorisedCookie = client'.AuthorisedCookie
    BY <1>1, <1>6, <1>8, <1>12
  <2>2. Known(client.AuthorisedCookie)'
    BY <1>5, <1>8 DEF Known
  <2> QED BY <1>5, <1>8, <1>9, <2>1, <2>2 DEF IInv, ClientIsRight
<1>16. ASSUME NEW p \in network' PROVE PacketIsRight(p)'
  <2>1. PacketIsRight(p) /\ p \in network
    BY <1>10 DEF IInv
  <2>2. InTime(p)'
    BY <1>8, <2>1 DEF PacketIsRight, InTime
  <2>3. Carries(p)'
    <3>1. \A challenge : Genuine(challenge) => Genuine(challenge)'
      BY <1>1 DEF Genuine
    <3> QED BY <1>13, <1>14, <2>1, <3>1 DEF PacketIsRight, Carries, Known
  <2>4. Belongs(p)'
    BY <1>1, <1>7, <1>8, <1>9, <1>12, <2>1 DEF PacketIsRight, Belongs
  <2>5. Acknowledges(p)'
    BY <1>8 DEF Acknowledges
  <2> QED BY <2>2, <2>3, <2>4, <2>5 DEF PacketIsRight
<1>17. client'.CachedClientID <= faults'
  BY <1>8, <1>10, Typed
<1> QED BY <1>1, <1>8, <1>10, <1>11, <1>13, <1>15, <1>16, <1>17, Typed, ClientStep

\* The client is asked to restart its handshake, but not yet.
LEMMA NoRestartStep ==
  ASSUME IInv, NEW packet \in network, Deliver(packet, {}), UNCHANGED <<server, now>>,
         client' = [client EXCEPT !.LastRestartPacketTimestamp = now]
  PROVE  IInv'
<1>1. /\ client'.State = client.State
      /\ client'.bRestartedHandshake = client.bRestartedHandshake
      /\ client'.AuthorisedCookie = client.AuthorisedCookie
      /\ client'.sequences = client.sequences
      /\ client'.CachedClientID = client.CachedClientID
      /\ client'.LastClientSendTimestamp = client.LastClientSendTimestamp
      /\ client'.LastChallenge = client.LastChallenge
      /\ client'.address = client.address /\ client'.used = client.used
  BY ClientTyped
<1>2. /\ network' \subseteq network
      /\ faults' \in Nat /\ faults <= faults' /\ faults' <= MaxFaults /\ faultTime' \in Nat
  BY Delivered
<1>3. TypeOK'
  <2>1. client' \in [State : {"UnInitialized", "InitializedOnLocal", "Initialized"},
                     bRestartedHandshake : BOOLEAN, CachedClientID : ClientID,
                     address : Address, LastClientSendTimestamp : Nat,
                     LastChallengeTimestamp : Nat, LastRestartPacketTimestamp : Nat,
                     LastChallenge : Challenge, AuthorisedCookie : OptionalCookie,
                     sequences : Numbers \cup {None}, used : SUBSET Address]
    BY ClientTyped, Typed
  <2> QED BY <1>2, <2>1, Typed, TypedStep
<1>4. /\ Authorised' <=> Authorised
      /\ \A q : Connecting(q)' <=> Connecting(q)
      /\ \A a : MyConnection(a)' <=> MyConnection(a)
  BY <1>1 DEF Authorised, Mine, MyConnection, Connecting
<1>5. \A cookie \in Cookie : Retired(cookie) => Retired(cookie)'
  BY <1>1, <1>2, <1>4 DEF Retired
<1>6. ClientIsRight'
  BY <1>1, <1>2, <1>4 DEF IInv, ClientIsRight, Known, Retired, Genuine
<1>7. \A p \in network : PacketIsRight(p)'
  BY <1>1, <1>2, <1>5, Typed, StaysRight
<1>8. /\ \A p \in network' : PacketIsRight(p)'
      /\ client'.CachedClientID <= faults'
  BY <1>1, <1>2, <1>7, Typed
<1> QED BY <1>1, <1>2, <1>3, <1>5, <1>6, <1>8, Typed, ClientStep

LEMMA MoveStep ==
  ASSUME IInv, NEW address \in Address, Move(address)
  PROVE  IInv'
<1>0. /\ client' = [client EXCEPT !.address = address, !.used = client.used \cup {address}]
      /\ Fault /\ UNCHANGED <<server, network, now>>
  BY DEF Move
<1>1. /\ client'.State = client.State
      /\ client'.bRestartedHandshake = client.bRestartedHandshake
      /\ client'.AuthorisedCookie = client.AuthorisedCookie
      /\ client'.sequences = client.sequences
      /\ client'.CachedClientID = client.CachedClientID
      /\ client'.LastClientSendTimestamp = client.LastClientSendTimestamp
      /\ client'.LastChallenge = client.LastChallenge
      /\ client'.address = address /\ client'.used = client.used \cup {address}
  BY <1>0, ClientTyped
<1>2. faults' \in Nat /\ faults <= faults' /\ faults' <= MaxFaults /\ faultTime' \in Nat
  BY <1>0, Faulty, Typed
<1>3. TypeOK'
  <2>1. client' \in [State : {"UnInitialized", "InitializedOnLocal", "Initialized"},
                     bRestartedHandshake : BOOLEAN, CachedClientID : ClientID,
                     address : Address, LastClientSendTimestamp : Nat,
                     LastChallengeTimestamp : Nat, LastRestartPacketTimestamp : Nat,
                     LastChallenge : Challenge, AuthorisedCookie : OptionalCookie,
                     sequences : Numbers \cup {None}, used : SUBSET Address]
    BY <1>0, ClientTyped, Typed
  <2> QED BY <1>0, <1>2, <2>1, Typed, TypedStep
<1>4. /\ Authorised' <=> Authorised
      /\ \A q : Connecting(q)' <=> Connecting(q)
      /\ \A a : MyConnection(a)' <=> MyConnection(a)
  BY <1>0, <1>1 DEF Authorised, Mine, MyConnection, Connecting
<1>5. \A cookie \in Cookie : Retired(cookie) => Retired(cookie)'
  BY <1>0, <1>1, <1>4 DEF Retired
<1>6. ClientIsRight'
  BY <1>0, <1>1, <1>4 DEF IInv, ClientIsRight, Known, Retired, Genuine
<1>7. \A p \in network : PacketIsRight(p)'
  BY <1>0, <1>1, <1>5, Typed, StaysRight
<1>8. /\ \A p \in network' : PacketIsRight(p)'
      /\ client'.CachedClientID <= faults'
  BY <1>0, <1>1, <1>2, <1>7, Typed
<1> QED BY <1>0, <1>1, <1>2, <1>3, <1>5, <1>6, <1>8, Typed, ClientStep

\* When a handshake restarts, nothing of the last one is under way any more.
LEMMA RestartStep ==
  ASSUME IInv, NEW packet \in network, UNCHANGED <<server, now>>,
         client.State = "Initialized", PassedDelayCheck(client),
         client' = [client EXCEPT !.State = "UnInitialized", !.bRestartedHandshake = TRUE,
                                  !.LastClientSendTimestamp = now, !.used = {client.address},
                                  !.LastRestartPacketTimestamp = now],
         Deliver(packet, {InitialPacket(client)})
  PROVE  IInv'
<1>1. /\ client'.State = "UnInitialized" /\ client'.bRestartedHandshake = TRUE
      /\ client'.AuthorisedCookie = client.AuthorisedCookie
      /\ client'.sequences = client.sequences
      /\ client'.CachedClientID = client.CachedClientID
      /\ client'.LastClientSendTimestamp = now
      /\ client'.address = client.address /\ client'.used = {client.address}
  BY ClientTyped
<1>2. PICK sent : sent = InitialPacket(client)
  OBVIOUS
<1>3. /\ sent \in Packets /\ sent.to = "server" /\ sent.type = "InitialPacket"
      /\ sent.address = client.address /\ sent.ClientID = client.CachedClientID
      /\ sent.sent = now
  BY <1>2, InitialPacketIs
<1>4. /\ network' \subseteq network \cup {sent}
      /\ faults' \in Nat /\ faults <= faults' /\ faults' <= MaxFaults /\ faultTime' \in Nat
  BY <1>2, Delivered
<1>5. TypeOK'
  <2>1. client' \in [State : {"UnInitialized", "InitializedOnLocal", "Initialized"},
                     bRestartedHandshake : BOOLEAN, CachedClientID : ClientID,
                     address : Address, LastClientSendTimestamp : Nat,
                     LastChallengeTimestamp : Nat, LastRestartPacketTimestamp : Nat,
                     LastChallenge : Challenge, AuthorisedCookie : OptionalCookie,
                     sequences : Numbers \cup {None}, used : SUBSET Address]
    BY ClientTyped, Typed
  <2> QED BY <1>3, <1>4, <2>1, Typed, TypedStep
<1>6. Authorised /\ client.AuthorisedCookie \in Cookie /\ Known(client.AuthorisedCookie)
  BY DEF IInv, ClientIsRight, Known
<1>7. now > client.LastClientSendTimestamp + 2 * MaxDelay
  BY HandshakeAssumption, Typed DEF PassedDelayCheck
<1>8. \A p \in network : p.type \notin FromClient /\ p.type # "Ack"
  <2> SUFFICES ASSUME NEW p \in network, p.type \in FromClient \/ p.type = "Ack" PROVE FALSE
    OBVIOUS
  <2>1. InTime(p) /\ p.sent \in Nat
    BY Typed DEF IInv, PacketIsRight, Packets
  <2> QED BY <1>7, <2>1, Typed DEF InTime, Answers
<1>9. /\ Authorised' <=> Authorised
      /\ \A q : Mine(q)' <=> Mine(q)
      /\ \A q : Connecting(q)' <=> Connecting(q)
      /\ \A a : MyConnection(a)' <=> MyConnection(a)
  BY <1>1 DEF Authorised, Mine, MyConnection, Connecting
<1>10. \A p \in network' : ~Connecting(p)'
  BY <1>3, <1>4, <1>6, <1>8, <1>9 DEF Connecting, FromClient, Responses
<1>11. \A cookie \in Cookie : cookie.Timestamp < now => Retired(cookie)'
  BY <1>1, <1>10 DEF Retired
<1>12. \A cookie \in Cookie : Retired(cookie) => Retired(cookie)'
  BY <1>11 DEF Retired
<1>13. ClientIsRight'
  <2>1. Retired(client.AuthorisedCookie)'
    <3> DEFINE k == client.AuthorisedCookie
    <3>1. k \in Cookie /\ k.Timestamp < now /\ k' = k
      BY <1>1, <1>6, <1>7, Typed DEF Known, Cookie
    <3> HIDE DEF k
    <3>2. Retired(k)'
      BY <3>1, <1>11 DEF Retired
    <3> QED BY <3>2 DEF k
  <2>2. Known(client.AuthorisedCookie)'
    BY <1>1, <1>6, Typed DEF Known, Cookie
  <2> QED BY <1>1, <1>6, <1>9, <2>1, <2>2 DEF IInv, ClientIsRight
<1>14. ASSUME NEW p \in network PROVE PacketIsRight(p)'
  <2>1. PacketIsRight(p) /\ p \in Packets /\ p.type \notin FromClient /\ p.type # "Ack"
    BY <1>8, Typed DEF IInv
  <2>2. InTime(p)'
    BY <1>1, <2>1, Typed DEF PacketIsRight, InTime, Packets
  <2>3. Carries(p)'
    <3>1. \A challenge : Genuine(challenge) => Genuine(challenge)'
      BY DEF Genuine
    <3> QED BY <2>1, <3>1 DEF PacketIsRight, Carries, FromClient, Responses
  <2>4. Belongs(p)' /\ Acknowledges(p)'
    BY <1>1, <2>1 DEF PacketIsRight, Belongs, Acknowledges, FromClient, Responses
  <2> QED BY <2>2, <2>3, <2>4 DEF PacketIsRight
<1>15. PacketIsRight(sent)'
  <2>1. Mine(sent)' /\ sent.ClientID <= client'.CachedClientID
    BY <1>1, <1>3, Typed DEF Mine
  <2> QED BY <1>1, <1>3, <2>1, Typed
          DEF PacketIsRight, InTime, Carries, Belongs, Acknowledges, FromClient, Responses, Answers
<1>16. \A p \in network' : PacketIsRight(p)'
  BY <1>4, <1>14, <1>15
<1>17. client'.CachedClientID <= faults'
  BY <1>1, <1>4, Typed
<1> QED BY <1>1, <1>4, <1>5, <1>12, <1>13, <1>16, <1>17, Typed, ClientStep

LEMMA ReceiveRestartRequestStep ==
  ASSUME IInv, NEW packet \in network, NEW quiet \in BOOLEAN, packet.to = "client",
         ReceiveRestartRequest(packet, quiet), now' = now
  PROVE  IInv'
<1> DEFINE begins == PassedDelayCheck(client) /\ PassedDualIPCheck(client, quiet)
<1>1. CASE begins
  <2>1. client' = [client EXCEPT !.State = "UnInitialized", !.bRestartedHandshake = TRUE,
                                 !.LastClientSendTimestamp = now, !.used = {client.address},
                                 !.LastRestartPacketTimestamp = now]
    BY <1>1, ClientTyped DEF ReceiveRestartRequest
  <2> QED BY <1>1, <2>1, RestartStep DEF ReceiveRestartRequest, IsRestartRequest
<1>2. CASE ~begins
  BY <1>2, NoRestartStep DEF ReceiveRestartRequest
<1> QED BY <1>1, <1>2

\* A client that starts again is another one: nothing under way is its own.
LEMMA CrashStep ==
  ASSUME IInv, Crash
  PROVE  IInv'
<1>1. faults' \in Nat /\ faults' = faults + 1 /\ faults' <= MaxFaults /\ faultTime' \in Nat
  BY Faulty DEF Crash
<1> DEFINE id == client.CachedClientID + 1
<1>2. id \in ClientID /\ id \in Nat /\ id <= faults' /\ id = (client.CachedClientID + 1) % ClientIDCount
  BY <1>1, Typed, HandshakeAssumption DEF ClientID
<1>3. PICK restarted : restarted = NewClient(id, client.address)
  OBVIOUS
<1>4. PICK sent : sent = InitialPacket(restarted)
  OBVIOUS
<1>5. client' = restarted /\ network' = network \cup {sent} /\ UNCHANGED <<server, now>>
  BY <1>2, <1>3, <1>4 DEF Crash
<1>6. /\ client'.State = "UnInitialized" /\ client'.bRestartedHandshake = FALSE
      /\ client'.AuthorisedCookie = None /\ client'.CachedClientID = id
      /\ client'.LastClientSendTimestamp = now
      /\ client'.address = client.address /\ client'.used = {client.address}
  BY <1>3, <1>5 DEF NewClient
<1>7. /\ sent \in Packets /\ sent.to = "server" /\ sent.type = "InitialPacket"
      /\ sent.address = client.address /\ sent.ClientID = id /\ sent.sent = now
  <2>1. sent = Packet("server", "InitialPacket", client.address, id, NoChallenge, None)
    BY <1>4, <1>5, <1>6 DEF InitialPacket
  <2> QED BY <1>2, <2>1, Typed, PacketIs, NoChallengeIs DEF PacketType, OptionalCookie
<1>8. TypeOK'
  <2>1. client' \in [State : {"UnInitialized", "InitializedOnLocal", "Initialized"},
                     bRestartedHandshake : BOOLEAN, CachedClientID : ClientID,
                     address : Address, LastClientSendTimestamp : Nat,
                     LastChallengeTimestamp : Nat, LastRestartPacketTimestamp : Nat,
                     LastChallenge : Challenge, AuthorisedCookie : OptionalCookie,
                     sequences : Numbers \cup {None}, used : SUBSET Address]
    BY <1>2, <1>3, <1>5, Typed, NoChallengeIs DEF NewClient, OptionalCookie
  <2> QED BY <1>1, <1>5, <1>7, <2>1, Typed, TypedStep
<1> HIDE DEF id
<1>9. id > client.CachedClientID
  BY <1>2, Typed DEF id
<1>10. \A p \in network : ~Mine(p)'
  <2> SUFFICES ASSUME NEW p \in network PROVE p.ClientID # id
    BY <1>6 DEF Mine
  <2>1. p.ClientID <= client.CachedClientID /\ p.ClientID \in Nat
    BY Typed DEF IInv, PacketIsRight, Belongs, Packets, ClientID
  <2> QED BY <2>1, <1>9, Typed
<1>11. \A a \in Address : ~MyConnection(a)'
  <2> SUFFICES ASSUME NEW a \in Address, server.connections[a] # None
               PROVE  server.connections[a].CachedClientID # id
    BY <1>5, <1>6 DEF MyConnection
  <2>1. RightAt(server.connections[a], a) /\ server.connections[a].CachedClientID \in Nat
    BY Typed DEF IInv, ConnectionIsRight, Connection, ClientID
  <2> QED BY <2>1, <1>2, <1>9, Typed DEF RightAt
<1>12. ~Authorised' /\ Mine(sent)'
  BY <1>6, <1>7 DEF Authorised, Mine
<1>13. ASSUME NEW k \in Cookie, Retired(k) PROVE Retired(k)'
  <2>1. \A q \in network' : Connecting(q)' => q \in network /\ Connecting(q)
    BY <1>5, <1>7, <1>10 DEF Connecting
  <2> QED BY <1>5, <1>6, <1>13, <2>1 DEF Retired
<1>14. ClientIsRight'
  BY <1>6, <1>12 DEF ClientIsRight
<1>15. ASSUME NEW p \in network PROVE PacketIsRight(p)'
  <2>1. PacketIsRight(p) /\ p \in Packets /\ ~Mine(p)'
    BY <1>10, Typed DEF IInv
  <2>2. InTime(p)'
    BY <1>5, <1>6, <2>1, Typed DEF PacketIsRight, InTime, Packets
  <2>3. Carries(p)'
    <3>1. \A challenge : Genuine(challenge) => Genuine(challenge)'
      BY <1>5 DEF Genuine
    <3>2. \A k \in Cookie : Known(k) => Known(k)'
      BY <1>6, Typed DEF Known, Cookie
    <3> QED BY <1>13, <2>1, <3>1, <3>2 DEF PacketIsRight, Carries, Known
  <2>4. Belongs(p)'
    <3>1. p.ClientID <= client'.CachedClientID
      BY <1>2, <1>6, <1>9, <2>1, Typed DEF PacketIsRight, Belongs, Packets, ClientID
    <3>2. p.type = "RestartResponse" => p.OrigCookie # client'.AuthorisedCookie
      BY <1>6, <2>1, Typed DEF PacketIsRight, Carries, Known
    <3>3. \A ack \in network' : ack.type = "Ack" => ~Mine(ack)'
      BY <1>5, <1>7, <1>10
    <3> QED BY <1>11, <2>1, <3>1, <3>2, <3>3 DEF Belongs
  <2>5. Acknowledges(p)'
    BY <2>1 DEF Acknowledges
  <2> QED BY <2>2, <2>3, <2>4, <2>5 DEF PacketIsRight
<1>16. PacketIsRight(sent)'
  <2>1. sent.ClientID <= client'.CachedClientID
    BY <1>2, <1>6, <1>7
  <2> QED BY <1>5, <1>6, <1>7, <2>1, Typed
          DEF PacketIsRight, InTime, Carries, Belongs, Acknowledges, FromClient, Responses, Answers
<1>17. \A p \in network' : PacketIsRight(p)'
  BY <1>5, <1>15, <1>16
<1>18. client.CachedClientID <= client'.CachedClientID /\ client'.CachedClientID <= faults'
  BY <1>2, <1>6, <1>9, Typed
<1> QED BY <1>1, <1>5, <1>6, <1>8, <1>13, <1>14, <1>17, <1>18, Typed, ClientStep

-----------------------------------------------------------------------------
(* Theorems                                                                *)

LEMMA InitInvariant == Init => IInv
<1> SUFFICES ASSUME Init PROVE IInv
  OBVIOUS
<1>1. /\ now = StartTime /\ now \in Nat /\ faults = 0 /\ faultTime = now /\ MaxFaults \in Nat
      /\ client = NewClient(0, FirstAddress) /\ FirstAddress \in Address
      /\ network = {InitialPacket(client)} /\ MaxDelay \in Nat
  BY HandshakeAssumption DEF Init
<1>2. 0 \in ClientID
  BY HandshakeAssumption DEF ClientID
<1>3. /\ client.State = "UnInitialized" /\ client.bRestartedHandshake = FALSE
      /\ client.AuthorisedCookie = None /\ client.CachedClientID = 0
      /\ client.LastClientSendTimestamp = now
      /\ client.address = FirstAddress /\ client.used = {FirstAddress}
  BY <1>1 DEF NewClient
<1>4. PICK sent : sent = InitialPacket(client)
  OBVIOUS
<1>5. /\ sent.to = "server" /\ sent.type = "InitialPacket" /\ sent.address = FirstAddress
      /\ sent.ClientID = 0 /\ sent.sent = now /\ sent.late = FALSE
      /\ sent.challenge = NoChallenge /\ sent.OrigCookie = None /\ sent \in Packets
  BY <1>1, <1>2, <1>3, <1>4, NoChallengeIs DEF InitialPacket, Packet, Packets, PacketType, OptionalCookie
<1>6. /\ server.connections = [a \in Address |-> None]
      /\ server.LastSecretUpdateTimestamp <= now
      /\ server \in [ActiveSecret : Secret, HandshakeSecret : [Secret -> Nat],
                     LastSecretUpdateTimestamp : Nat,
                     connections : [Address -> Connection \cup {None}],
                     recentlyDisconnected : SUBSET Address]
  <2>1. server.LastSecretUpdateTimestamp \in Nat /\ server.LastSecretUpdateTimestamp <= now
    BY <1>1, HandshakeAssumption DEF Init
  <2>2. /\ server = [ActiveSecret |-> server.ActiveSecret,
                     HandshakeSecret |-> server.HandshakeSecret,
                     LastSecretUpdateTimestamp |-> server.LastSecretUpdateTimestamp,
                     connections |-> server.connections,
                     recentlyDisconnected |-> server.recentlyDisconnected]
        /\ server.ActiveSecret = 0 /\ server.recentlyDisconnected = {}
        /\ server.HandshakeSecret = [i \in Secret |-> i + 1]
        /\ server.connections \in [Address -> {None}]
    BY DEF Init
  <2>3. server.HandshakeSecret \in [Secret -> Nat] /\ server.ActiveSecret \in Secret
    BY <2>2 DEF Secret
  <2>4. /\ server.connections = [a \in Address |-> None]
        /\ server.connections \in [Address -> Connection \cup {None}]
    BY <2>2
  <2> QED BY <2>1, <2>2, <2>3, <2>4
<1>7. TypeOK
  <2>1. client \in [State : {"UnInitialized", "InitializedOnLocal", "Initialized"},
                    bRestartedHandshake : BOOLEAN, CachedClientID : ClientID,
                    address : Address, LastClientSendTimestamp : Nat,
                    LastChallengeTimestamp : Nat, LastRestartPacketTimestamp : Nat,
                    LastChallenge : Challenge, AuthorisedCookie : OptionalCookie,
                    sequences : Numbers \cup {None}, used : SUBSET Address]
    BY <1>1, <1>2, NoChallengeIs DEF NewClient, OptionalCookie
  <2> QED BY <1>1, <1>4, <1>5, <1>6, <2>1 DEF TypeOK
<1>8. Counters
  BY <1>1, <1>3, <1>6, <1>7 DEF Counters
<1>9. CookiesUnique /\ \A a \in Address : ConnectionIsRight(a)
  BY <1>6 DEF CookiesUnique, ConnectionIsRight
<1>10. ClientIsRight
  BY <1>3 DEF ClientIsRight, Authorised
<1>11. PacketIsRight(sent)
  BY <1>1, <1>3, <1>5
  DEF PacketIsRight, InTime, Carries, Belongs, Acknowledges, FromClient, Responses, Answers
<1> QED BY <1>1, <1>4, <1>8, <1>9, <1>10, <1>11 DEF IInv

LEMMA ReceiveStep ==
  ASSUME IInv, Receive
  PROVE  IInv'
<1>1. PICK packet \in network :
        /\ ClientReceives(packet) \/ ServerReceives(packet) \/ Ignore(packet)
        /\ UNCHANGED now
  BY DEF Receive
<1>2. CASE ClientReceives(packet)
  <2>1. CASE packet.to = "client" /\ ReceiveChallenge(packet)
    BY <1>1, <2>1, ReceiveChallengeStep
  <2>2. CASE packet.to = "client" /\ ReceiveAck(packet)
    BY <1>1, <2>2, ReceiveAckStep
  <2>3. CASE packet.to = "client" /\ \E quiet \in BOOLEAN : ReceiveRestartRequest(packet, quiet)
    BY <1>1, <2>3, ReceiveRestartRequestStep
  <2> QED BY <1>2, <2>1, <2>2, <2>3 DEF ClientReceives
<1>3. CASE ServerReceives(packet)
  BY <1>1, <1>3, ServerReceivesStep
<1>4. CASE Ignore(packet)
  BY <1>1, <1>4, IgnoreStep
<1> QED BY <1>1, <1>2, <1>3, <1>4

LEMMA InvariantStep == IInv /\ [Next]_vars => IInv'
<1> SUFFICES ASSUME IInv, [Next]_vars PROVE IInv'
  OBVIOUS
<1>1. CASE Receive
  BY <1>1, ReceiveStep
<1>2. CASE Tick
  BY <1>2, TickStep
<1>3. CASE SendGamePacket
  BY <1>3, SendGamePacketStep
<1>4. CASE TickSecret
  BY <1>4, TickSecretStep
<1>5. CASE \E address \in Address : CloseConnection(address)
  BY <1>5, CloseConnectionStep
<1>6. CASE \E address \in Address : Move(address)
  BY <1>6, MoveStep
<1>7. CASE \E packet \in network : Lose(packet)
  BY <1>7, LoseStep
<1>8. CASE \E packet \in network : Delay(packet)
  BY <1>8, DelayStep
<1>9. CASE Crash
  BY <1>9, CrashStep
<1>10. CASE TimePasses
  BY <1>10, TimePassesStep
<1>11. CASE UNCHANGED vars
  <2>1. UNCHANGED <<client, server, network, now, faults, faultTime>>
    BY <1>11 DEF vars
  <2> QED BY <2>1, LikeItself, Typed, NetworkStep
<1> QED BY <1>1, <1>2, <1>3, <1>4, <1>5, <1>6, <1>7, <1>8, <1>9, <1>10, <1>11 DEF Next

\* For any number of addresses, faults and any lengths of time: every packet
\* under way is one that the client's and the server's state explain.
THEOREM Invariant == Spec => []IInv
BY InitInvariant, InvariantStep, PTL DEF Spec

\* The types, and no two connections of the server have one cookie: a restarted
\* handshake finds the connection its client had (DoesRestartedHandshakeMatch).
THEOREM ConnectionsAlwaysAgree == Spec => []ConnectionsAgree
<1>1. IInv => ConnectionsAgree
  BY DEF IInv, Counters, ConnectionsAgree
<1> QED BY <1>1, Invariant, PTL

LEMMA CookiesOutlive ==
  ASSUME IInv
  PROVE  CookieOutlivesChallenge
<1> SUFFICES ASSUME NEW packet \in network,
                    packet.type \in {"Response", "RestartResponse"},
                    packet.challenge.Cookie.address = packet.address,
                    now - packet.challenge.Timestamp <= MIN_COOKIE_LIFETIME
             PROVE  ChallengeSuccess(server, packet)
  BY DEF CookieOutlivesChallenge
<1> DEFINE challenge == packet.challenge
<1>1. /\ Genuine(challenge) /\ challenge \in Challenge /\ challenge.Timestamp \in Nat
      /\ challenge.Cookie \in Cookie
  BY Typed DEF IInv, PacketIsRight, Carries, Responses, Packets, Challenge, Genuine
<1>2. /\ SECRET_UPDATE_TIME \in Nat /\ SECRET_UPDATE_TIME_VARIANCE \in Nat
      /\ SECRET_UPDATE_TIME > 0
  BY HandshakeAssumption
<1>3. now - challenge.Timestamp >= 0 /\ now - challenge.Timestamp < MAX_COOKIE_LIFETIME
  BY <1>1, <1>2, Typed DEF Genuine, MIN_COOKIE_LIFETIME, MAX_COOKIE_LIFETIME
<1>4. /\ challenge.Cookie.secret = server.HandshakeSecret[challenge.SecretId]
      /\ IF challenge.SecretId = server.ActiveSecret
         THEN challenge.Timestamp >= server.LastSecretUpdateTimestamp
         ELSE challenge.Timestamp <= server.LastSecretUpdateTimestamp
  BY <1>1, <1>2, Typed DEF Genuine, MIN_COOKIE_LIFETIME
<1>5. ValidLifetime(server, challenge)
  BY <1>1, <1>3, <1>4, Typed DEF ValidLifetime
<1>6. challenge.Cookie = GenerateCookie(server, packet.address, challenge.SecretId,
                                        challenge.Timestamp)
  BY <1>1, <1>4 DEF GenerateCookie, Genuine, Cookie
<1> QED BY <1>5, <1>6 DEF ChallengeSuccess

\* No response is rejected for its cookie within MIN_COOKIE_LIFETIME, whenever
\* the secrets change and however long packets are under way (IncomingConnectionless).
THEOREM CookieAlwaysOutlives == Spec => []CookieOutlivesChallenge
BY CookiesOutlive, Invariant, PTL

LEMMA CompletingStep ==
  ASSUME IInv, Next, Completes
  PROVE  \E address \in Address :
           /\ Connects(address)
           /\ ~client.bRestartedHandshake \/ NoStaleConnection => address \in client.used
<1>1. PICK packet \in network : ReceiveAck(packet)
  <2>1. client' # client
    BY DEF Completes
  <2>2. ~Tick
    BY ClientTyped DEF Tick, Completes
  <2>3. \A packet \in network : ~ReceiveChallenge(packet)
    BY ClientTyped DEF ReceiveChallenge, Completes
  <2>4. \A packet \in network, quiet \in BOOLEAN : ~ReceiveRestartRequest(packet, quiet)
    BY DEF ReceiveRestartRequest, IsRestartRequest, Completes
  <2>5. ~Crash /\ \A address \in Address : ~Move(address)
    <3>1. ~Crash
      BY DEF Crash, NewClient, Completes
    <3>2. \A address \in Address : ~Move(address)
      BY ClientTyped DEF Move, Completes
    <3> QED BY <3>1, <3>2
  <2>6. Receive
    BY <2>1, <2>2, <2>5
    DEF Next, SendGamePacket, TickSecret, CloseConnection, Lose, Delay, TimePasses
  <2>7. PICK packet \in network : ClientReceives(packet) \/ ServerReceives(packet) \/ Ignore(packet)
    BY <2>6 DEF Receive
  <2>8. ~ServerReceives(packet) /\ ~Ignore(packet)
    BY <2>1 DEF ServerReceives, Ignore, SendConnectChallenge, AcceptResponse,
                SendRestartHandshakeRequest, ResendChallengeAck, EndAckResends
  <2> QED BY <2>3, <2>4, <2>7, <2>8 DEF ClientReceives
<1>2. IInv'
  BY InvariantStep
<1>3. /\ client'.State = "Initialized" /\ UNCHANGED server
      /\ client'.CachedClientID = client.CachedClientID
  BY <1>1, ClientTyped DEF ReceiveAck
<1>4. PICK address \in Address :
        MyConnection(address)' /\ server'.connections[address].AuthorisedCookie = client'.AuthorisedCookie
  BY <1>2, <1>3 DEF IInv, ClientIsRight
<1>5. Connects(address)
  <2>1. client'.sequences = Sequences(client'.AuthorisedCookie, "client")
    BY <1>2, <1>3 DEF IInv, ClientIsRight
  <2>2. server'.connections[address].sequences = Sequences(client'.AuthorisedCookie, "server")
    BY <1>2, <1>4 DEF IInv, ConnectionIsRight, RightAt, MyConnection
  <2> QED BY <1>4, <2>1, <2>2 DEF Connects, MyConnection, Sequences
<1>6. PICK a \in client.used :
        /\ MyConnection(a)
        /\ ~Authorised => server.connections[a].AuthorisedCookie = packet.challenge.Cookie
  <2>1. Acknowledges(packet) /\ packet.type = "Ack" /\ Mine(packet)
    BY <1>1 DEF IInv, PacketIsRight, ReceiveAck, IsAck, AcceptsClientID, Mine
  <2> QED BY <2>1 DEF Acknowledges, Completes
<1>7. a \in Address /\ MyConnection(address)
  BY <1>3, <1>4, <1>6, Typed DEF MyConnection
<1>8. CASE client.bRestartedHandshake
  <2>1. NoStaleConnection => address = a
    BY <1>6, <1>7 DEF NoStaleConnection
  <2> QED BY <1>5, <1>6, <1>8, <2>1
<1>9. CASE ~client.bRestartedHandshake
  <2>1. ~Authorised
    BY <1>9 DEF IInv, ClientIsRight, Completes
  <2>2. client'.AuthorisedCookie = packet.challenge.Cookie
    BY <1>1, <1>9, ClientTyped DEF ReceiveAck
  <2>3. address = a
    BY <1>3, <1>4, <1>6, <1>7, <2>1, <2>2 DEF IInv, CookiesUnique, MyConnection
  <2> QED BY <1>5, <1>6, <2>3
<1> QED BY <1>8, <1>9

\* Whoever completes a handshake has a connection at the server that was made
\* for it, with the same numbers, after any faults (Incoming, receiving an ack).
THEOREM AlwaysCompletesConnected == Spec => CompletesConnected
<1>1. IInv /\ [Next]_vars =>
        [Completes => \E address \in Address :
            /\ Connects(address)
            /\ ~client.bRestartedHandshake \/ NoStaleConnection => address \in client.used]_vars
  BY CompletingStep DEF vars
<1> QED BY <1>1, Invariant, PTL DEF Spec, CompletesConnected

-----------------------------------------------------------------------------
(* A client connects in time                                               *)

\* At a first handshake everything under way is the client's, or for it, and
\* nothing restores a connection.
LEMMA ConnectingIs ==
  ASSUME IInv, AtFirstHandshake
  PROVE  /\ client.State \in {"UnInitialized", "InitializedOnLocal"}
         /\ ~client.bRestartedHandshake
         /\ \A packet \in network :
              packet.ClientID = 0 /\ Mine(packet) /\ packet.type # "RestartResponse"
         /\ \A address \in Address :
              server.connections[address] # None =>
                server.connections[address].CachedClientID = 0
<1>1. client.State # "Initialized" /\ ~client.bRestartedHandshake
  BY DEF AtFirstHandshake, IInv, ClientIsRight
<1>2. ASSUME NEW packet \in network
      PROVE  packet.ClientID = 0 /\ Mine(packet) /\ packet.type # "RestartResponse"
  <2>1. /\ packet \in Packets /\ packet.ClientID \in ClientID
        /\ Belongs(packet) /\ Carries(packet)
    BY Typed DEF IInv, PacketIsRight, Packets
  <2>2. packet.ClientID \in Nat /\ packet.ClientID <= 0
    BY <2>1, Typed DEF Belongs, AtFirstHandshake, ClientID
  <2>3. Mine(packet)
    BY <2>2 DEF Mine, AtFirstHandshake
  <2>4. packet.type # "RestartResponse"
    BY <2>1, <2>3, Typed DEF Belongs, Carries, Known, AtFirstHandshake, Authorised
  <2> QED BY <2>2, <2>3, <2>4
<1>3. ASSUME NEW address \in Address, server.connections[address] # None
      PROVE  server.connections[address].CachedClientID = 0
  <2>1. server.connections[address] \in Connection
    BY <1>3, Typed
  <2>2. /\ server.connections[address].CachedClientID \in ClientID
        /\ server.connections[address].CachedClientID <= 0
    BY <1>3, <2>1 DEF Connection, IInv, ConnectionIsRight, RightAt, AtFirstHandshake
  <2> QED BY <2>2, Typed DEF ClientID
<1> QED BY <1>1, <1>2, <1>3, Typed

\* Who was not at a first handshake is not at one again.
LEMMA StillConnects ==
  ASSUME IInv, [Next]_vars, AtFirstHandshake'
  PROVE  AtFirstHandshake
<1>1. CASE Crash
  <2>1. client'.CachedClientID = (client.CachedClientID + 1) % ClientIDCount
    BY <1>1 DEF Crash, NewClient
  <2>2. client.CachedClientID + 1 < ClientIDCount /\ client.CachedClientID + 1 > 0
    BY <1>1, HandshakeAssumption, Typed DEF Crash, Fault
  <2>3. client'.CachedClientID = client.CachedClientID + 1
    BY <2>1, <2>2, Typed
  <2> QED BY <2>3, Typed DEF AtFirstHandshake
<1>2. ASSUME NEW packet \in network, ReceiveAck(packet)
      PROVE  FALSE
  <2>1. packet.challenge.Cookie \in Cookie
    BY <1>2 DEF IInv, PacketIsRight, Carries, Known, ReceiveAck, IsAck
  <2>2. client.bRestartedHandshake => Authorised
    BY DEF IInv, ClientIsRight
  <2>3. client'.AuthorisedCookie = IF client.bRestartedHandshake THEN client.AuthorisedCookie
                                                           ELSE packet.challenge.Cookie
    BY <1>2, ClientTyped DEF ReceiveAck
  <2> QED BY <2>1, <2>2, <2>3, Typed DEF AtFirstHandshake, Authorised
<1>3. CASE client'.CachedClientID = client.CachedClientID
           /\ client'.AuthorisedCookie = client.AuthorisedCookie
  BY <1>3 DEF AtFirstHandshake, Authorised
<1>4. ASSUME NEW packet \in network, ReceiveChallenge(packet)
      PROVE  AtFirstHandshake
  BY <1>3, <1>4, ClientTyped DEF ReceiveChallenge
<1>5. ASSUME NEW packet \in network, NEW quiet \in BOOLEAN, ReceiveRestartRequest(packet, quiet)
      PROVE  AtFirstHandshake
  BY <1>3, <1>5, ClientTyped DEF ReceiveRestartRequest
<1>6. CASE Receive
  <2>1. PICK packet \in network :
          ClientReceives(packet) \/ ServerReceives(packet) \/ Ignore(packet)
    BY <1>6 DEF Receive
  <2>2. CASE ClientReceives(packet)
    BY <1>2, <1>4, <1>5, <2>2 DEF ClientReceives
  <2>3. CASE ServerReceives(packet) \/ Ignore(packet)
    <3>1. client' = client
      BY <2>3 DEF ServerReceives, Ignore, SendConnectChallenge, AcceptResponse,
                  SendRestartHandshakeRequest, ResendChallengeAck, EndAckResends
    <3> QED BY <1>3, <3>1
  <2> QED BY <2>1, <2>2, <2>3
<1>7. CASE Tick
  BY <1>3, <1>7, ClientTyped DEF Tick
<1>8. CASE \E address \in Address : Move(address)
  BY <1>3, <1>8, ClientTyped DEF Move
<1>9. CASE \/ SendGamePacket \/ TickSecret \/ TimePasses \/ UNCHANGED vars
           \/ \E address \in Address : CloseConnection(address)
           \/ \E packet \in network : Lose(packet) \/ Delay(packet)
  <2>1. client' = client
    BY <1>9 DEF SendGamePacket, TickSecret, TimePasses, CloseConnection, Lose, Delay, vars
  <2> QED BY <1>3, <2>1
<1> QED BY <1>1, <1>6, <1>7, <1>8, <1>9 DEF Next

\* A packet that has just been sent
New(packet) == packet.sent = now /\ ~packet.late

LEMMA IsNew ==
  ASSUME NEW to, NEW type, NEW address, NEW id, NEW challenge, NEW orig
  PROVE  New(Packet(to, type, address, id, challenge, orig))
BY DEF New, Packet

\* A step after which all packets are as they were or new
LEMMA PaceKept ==
  ASSUME IInv, Pace, now' = now, faultTime' \in {faultTime, now},
         \A packet \in network' : packet \in network \/ New(packet),
         client'.LastChallengeTimestamp <= now,
         client'.State = "InitializedOnLocal" =>
           client'.LastClientSendTimestamp <= client'.LastChallengeTimestamp + MIN_COOKIE_LIFETIME
  PROVE  Pace'
<1>1. faultTime <= now /\ faultTime' <= now
  BY Typed DEF Pace
<1>2. ASSUME NEW packet \in network'
      PROVE  Prompt(packet)'
  <2>1. CASE packet \in network
    <3>1. packet \in Packets /\ packet.sent \in Nat /\ Prompt(packet)
      BY <2>1, Typed DEF Pace, Packets
    <3> QED BY <1>1, <3>1, Typed DEF Prompt
  <2>2. CASE New(packet)
    BY <2>2 DEF Prompt, New
  <2> QED BY <1>2, <2>1, <2>2
<1> QED BY <1>1, <1>2 DEF Pace

\* A packet of a side that receives one: it may arrive again.
LEMMA DeliveredNew ==
  ASSUME NEW packet, NEW replies, Deliver(packet, replies), \A p \in replies : New(p)
  PROVE  /\ faultTime' \in {faultTime, now}
         /\ \A p \in network' : p \in network \/ New(p)
BY DEF Deliver, Fault

LEMMA SentIsNew ==
  /\ \A c : New(InitialPacket(c)) /\ New(GamePacket(c))
  /\ \A c, challenge : New(ChallengeResponse(c, challenge))
  /\ \A address, id, cookie : New(ChallengeAck(address, id, cookie))
BY IsNew DEF InitialPacket, GamePacket, ChallengeResponse, ChallengeAck

LEMMA PaceReceive ==
  ASSUME IInv, Pace, Receive
  PROVE  Pace'
<1>1. PICK packet \in network :
        /\ ClientReceives(packet) \/ ServerReceives(packet) \/ Ignore(packet)
        /\ UNCHANGED now
  BY DEF Receive
<1>2. /\ client.LastChallengeTimestamp <= now
      /\ client.State = "InitializedOnLocal" =>
           client.LastClientSendTimestamp <= client.LastChallengeTimestamp + MIN_COOKIE_LIFETIME
  BY DEF Pace
<1>3. CASE ReceiveChallenge(packet)
  <2>1. /\ client'.State = "InitializedOnLocal" /\ client'.LastChallengeTimestamp = now
        /\ client'.LastClientSendTimestamp = now
    BY <1>3, ClientTyped DEF ReceiveChallenge
  <2>2. now <= now + MIN_COOKIE_LIFETIME
    BY HandshakeAssumption, Typed DEF MIN_COOKIE_LIFETIME
  <2>3. /\ faultTime' \in {faultTime, now}
        /\ \A p \in network' : p \in network \/ New(p)
    BY <1>3, DeliveredNew, SentIsNew DEF ReceiveChallenge
  <2>4. client'.LastChallengeTimestamp <= now
    BY <2>1, Typed
  <2> QED BY <1>1, <2>1, <2>2, <2>3, <2>4, PaceKept
<1>4. CASE ReceiveAck(packet)
  <2>1. /\ client'.State = "Initialized"
        /\ client'.LastChallengeTimestamp = client.LastChallengeTimestamp
    BY <1>4, ClientTyped DEF ReceiveAck
  <2>2. /\ faultTime' \in {faultTime, now}
        /\ \A p \in network' : p \in network \/ New(p)
    BY <1>4, DeliveredNew DEF ReceiveAck
  <2> QED BY <1>1, <1>2, <2>1, <2>2, PaceKept
<1>5. ASSUME NEW quiet \in BOOLEAN, ReceiveRestartRequest(packet, quiet)
      PROVE  Pace'
  <2>1. /\ client'.State \in {"UnInitialized", "Initialized"}
        /\ client'.LastChallengeTimestamp = client.LastChallengeTimestamp
    BY <1>5, ClientTyped DEF ReceiveRestartRequest, IsRestartRequest
  <2>2. /\ faultTime' \in {faultTime, now}
        /\ \A p \in network' : p \in network \/ New(p)
    BY <1>5, DeliveredNew, SentIsNew DEF ReceiveRestartRequest
  <2>3. client'.State # "InitializedOnLocal"
    BY <2>1
  <2> QED BY <1>1, <1>2, <2>1, <2>2, <2>3, PaceKept
<1>6. CASE ServerReceives(packet) \/ Ignore(packet)
  <2>1. client' = client
    BY <1>6 DEF ServerReceives, Ignore, SendConnectChallenge, AcceptResponse,
                SendRestartHandshakeRequest, ResendChallengeAck, EndAckResends
  <2>2. PICK replies : Deliver(packet, replies) /\ \A p \in replies : New(p)
    <3>1. CASE SendConnectChallenge(packet)
      BY <3>1, IsNew DEF SendConnectChallenge
    <3>2. CASE AcceptResponse(packet)
      BY <3>2, SentIsNew DEF AcceptResponse
    <3>3. CASE SendRestartHandshakeRequest(packet)
      BY <3>3, IsNew DEF SendRestartHandshakeRequest
    <3>4. CASE \E connection : ResendChallengeAck(connection, packet)
      BY <3>4, SentIsNew DEF ResendChallengeAck
    <3>5. CASE \E connection : EndAckResends(connection, packet)
      BY <3>5 DEF EndAckResends
    <3>6. CASE Ignore(packet)
      BY <3>6 DEF Ignore
    <3> QED BY <1>6, <3>1, <3>2, <3>3, <3>4, <3>5, <3>6 DEF ServerReceives
  <2>3. /\ faultTime' \in {faultTime, now}
        /\ \A p \in network' : p \in network \/ New(p)
    BY <2>2, DeliveredNew
  <2> QED BY <1>1, <1>2, <2>1, <2>3, PaceKept
<1> QED BY <1>1, <1>3, <1>4, <1>5, <1>6 DEF ClientReceives

LEMMA PaceStep ==
  ASSUME IInv, Pace, [Next]_vars
  PROVE  Pace'
<1>1. /\ client.LastChallengeTimestamp <= now
      /\ client.State = "InitializedOnLocal" =>
           client.LastClientSendTimestamp <= client.LastChallengeTimestamp + MIN_COOKIE_LIFETIME
  BY DEF Pace
<1>2. CASE Tick
  <2>1. /\ client'.LastChallengeTimestamp = client.LastChallengeTimestamp
        /\ client'.LastClientSendTimestamp = now
        /\ client'.State = "InitializedOnLocal" =>
             ~(now - client.LastChallengeTimestamp > MIN_COOKIE_LIFETIME)
    BY <1>2, ClientTyped DEF Tick
  <2>2. client'.State = "InitializedOnLocal" =>
          client'.LastClientSendTimestamp <= client'.LastChallengeTimestamp + MIN_COOKIE_LIFETIME
    BY <2>1, HandshakeAssumption, Typed, ClientTyped DEF MIN_COOKIE_LIFETIME
  <2>3. /\ now' = now /\ faultTime' = faultTime
        /\ \A p \in network' : p \in network \/ New(p)
    BY <1>2, SentIsNew DEF Tick
  <2> QED BY <1>1, <2>1, <2>2, <2>3, PaceKept
<1>3. CASE SendGamePacket
  BY <1>1, <1>3, SentIsNew, PaceKept DEF SendGamePacket
<1>4. CASE \/ TickSecret \/ UNCHANGED vars
           \/ \E address \in Address : CloseConnection(address)
  BY <1>1, <1>4, PaceKept DEF TickSecret, CloseConnection, vars
<1>5. CASE \E address \in Address : Move(address)
  <2>1. /\ client'.State = client.State
        /\ client'.LastChallengeTimestamp = client.LastChallengeTimestamp
        /\ client'.LastClientSendTimestamp = client.LastClientSendTimestamp
        /\ UNCHANGED <<network, now>> /\ faultTime' = now
    BY <1>5, ClientTyped DEF Move, Fault
  <2> QED BY <1>1, <2>1, PaceKept
<1>6. CASE \E packet \in network : Lose(packet)
  BY <1>1, <1>6, PaceKept DEF Lose, Fault
<1>7. CASE \E packet \in network : Delay(packet)
  <2>1. PICK packet \in network : Delay(packet)
    BY <1>7
  <2>2. PICK late : late = [packet EXCEPT !.late = TRUE]
    OBVIOUS
  <2>3. /\ network' = (network \ {packet}) \cup {late} /\ UNCHANGED <<client, now>>
        /\ faultTime' = now
    BY <2>1, <2>2 DEF Delay, Fault
  <2>4. packet \in Packets /\ packet.sent <= now
    BY Typed DEF IInv, PacketIsRight, InTime
  <2>5. late.late /\ late.sent <= now
    BY <2>2, <2>4 DEF Packets
  <2>6. ASSUME NEW p \in network'
        PROVE  Prompt(p)'
    <3>1. CASE p = late
      BY <2>3, <2>5, <3>1 DEF Prompt
    <3>2. CASE p \in network
      <4>1. p \in Packets /\ p.sent <= now /\ Prompt(p)
        BY <3>2, Typed DEF IInv, PacketIsRight, InTime, Pace
      <4> QED BY <2>3, <4>1 DEF Prompt
    <3> QED BY <2>3, <2>6, <3>1, <3>2
  <2>7. faultTime' <= now'
    BY <2>3, Typed
  <2> QED BY <1>1, <2>3, <2>6, <2>7 DEF Pace
<1>8. CASE Crash
  <2>1. /\ client'.State = "UnInitialized" /\ client'.LastChallengeTimestamp = 0
        /\ now' = now /\ faultTime' = now
        /\ \A p \in network' : p \in network \/ New(p)
    BY <1>8, SentIsNew DEF Crash, NewClient, Fault
  <2> QED BY <2>1, Typed, PaceKept
<1>9. CASE TimePasses
  <2>1. /\ now' = now + 1 /\ UNCHANGED <<client, network, faultTime>>
        /\ \A p \in network : p.late
    BY <1>9 DEF TimePasses
  <2>2. faultTime' <= now' /\ client'.LastChallengeTimestamp <= now'
    BY <1>1, <2>1, Typed, ClientTyped DEF Pace
  <2>3. \A p \in network' : Prompt(p)'
    BY <2>1 DEF Pace, Prompt
  <2> QED BY <1>1, <2>1, <2>2, <2>3 DEF Pace
<1> QED BY <1>2, <1>3, <1>4, <1>5, <1>6, <1>7, <1>8, <1>9, PaceReceive DEF Next

\* What holds of the packets, whatever becomes of one of them.
LEMMA PaceIs ==
  ASSUME IInv, Pace, NEW packet \in network
  PROVE  /\ packet \in Packets /\ packet.sent \in Nat /\ packet.sent <= now
         /\ ~packet.late => packet.sent = now
         /\ packet.late => packet.sent <= faultTime /\ now <= faultTime + MaxDelay
<1>1. packet \in Packets /\ InTime(packet) /\ Prompt(packet)
  BY Typed DEF IInv, PacketIsRight, Pace
<1>2. packet.sent \in Nat
  BY <1>1 DEF Packets
<1> QED BY <1>1, <1>2, Typed DEF InTime, Prompt

\* Time has not passed since something went wrong: there is time to recover.
LEMMA FaultRecovers ==
  ASSUME IInv', Pace', faultTime' = now'
  PROVE  Recovery'
<1>1. /\ now' \in Nat /\ faultTime' \in Nat /\ MaxDelay \in Nat /\ SECRET_UPDATE_TIME \in Nat
      /\ HandshakeResendInterval \in Nat /\ network' \subseteq Packets
      /\ client'.LastClientSendTimestamp <= now' /\ client'.LastChallengeTimestamp <= now'
      /\ client'.LastChallengeTimestamp \in Nat
  BY HandshakeAssumption DEF IInv, Counters, TypeOK, Pace
<1>2. (now - faultTime <= ConnectTime)'
  <2>1. now' - faultTime' = 0
    <3>1. \A m, n \in Nat : m = n => m - n = 0
      OBVIOUS
    <3> QED BY <1>1, <3>1
  <2>2. 0 <= ConnectTime
    BY <1>1 DEF ConnectTime, MIN_COOKIE_LIFETIME
  <2> QED BY <2>1, <2>2
<1>3. ASSUME NEW packet \in network'
      PROVE  Follows(packet)'
  <2>1. packet.sent \in Nat /\ packet.sent <= now'
    BY <1>1 DEF Packets, IInv, PacketIsRight, InTime
  <2> QED BY <1>1, <2>1 DEF Follows
<1>4. Waits'
  BY <1>1 DEF Waits
<1> QED BY <1>2, <1>3, <1>4 DEF Recovery

\* A step in which no time passes and nothing goes wrong: if it takes away a
\* packet that has the client connect, or ends the wait, it sends one.
LEMMA Recovering ==
  ASSUME Recovery, AtFirstHandshake, UNCHANGED <<now, faultTime>>, client'.address = client.address,
         NEW gone, NEW fresh, network' = (network \ gone) \cup fresh,
         \A p \in fresh : Follows(p)',
         \A p \in network \cap gone : Recovers(p) => \E q \in fresh : Recovers(q)',
         (\E q \in fresh : Recovers(q)') \/ (Waits => Waits')
  PROVE  Recovery'
<1>1. (now - faultTime <= ConnectTime)'
  BY DEF Recovery
<1>2. ASSUME NEW p \in network'
      PROVE  Follows(p)'
  <2>1. CASE p \in network
    BY <2>1 DEF Recovery, Follows
  <2> QED BY <2>1
<1>3. (\E p \in network' : Recovers(p)') \/ Waits'
  <2>1. CASE \E q \in fresh : Recovers(q)'
    BY <2>1
  <2>2. CASE ~ \E q \in fresh : Recovers(q)'
    <3>1. CASE Waits
      BY <2>2, <3>1
    <3>2. CASE ~Waits
      <4>1. PICK p \in network : Recovers(p)
        BY <3>2 DEF Recovery
      <4>2. p \notin gone /\ p \in network'
        BY <2>2, <4>1
      <4>3. Recovers(p)'
        BY <4>1 DEF Recovers
      <4> QED BY <4>2, <4>3
    <3> QED BY <3>1, <3>2
  <2> QED BY <2>1, <2>2
<1> QED BY <1>1, <1>2, <1>3 DEF Recovery

\* A packet that is delivered, and the answers: not twice, or something goes wrong.
LEMMA DeliverRecovers ==
  ASSUME IInv', Pace', Recovery, AtFirstHandshake, now' = now, client'.address = client.address,
         NEW packet \in network, NEW replies, Deliver(packet, replies),
         faultTime' = faultTime => \A p \in replies : Follows(p)',
         faultTime' = faultTime /\ Recovers(packet) => \E q \in replies : Recovers(q)',
         faultTime' = faultTime => (\E q \in replies : Recovers(q)') \/ (Waits => Waits')
  PROVE  Recovery'
<1>1. CASE Fault
  BY <1>1, FaultRecovers DEF Fault
<1>2. CASE network' = (network \ {packet}) \cup replies /\ UNCHANGED <<faults, faultTime>>
  <2>1. /\ \A p \in replies : Follows(p)'
        /\ \A p \in network \cap {packet} : Recovers(p) => \E q \in replies : Recovers(q)'
        /\ (\E q \in replies : Recovers(q)') \/ (Waits => Waits')
    BY <1>2
  <2>2. UNCHANGED <<now, faultTime>>
    BY <1>2
  <2> QED BY <1>2, <2>1, <2>2, Recovering
<1> QED BY <1>1, <1>2 DEF Deliver

LEMMA ChallengeRecovers ==
  ASSUME IInv, IInv', RInv, Pace', AtFirstHandshake, NEW packet \in network, now' = now,
         ReceiveChallenge(packet)
  PROVE  Recovery'
<1>1. PICK sent : sent = ChallengeResponse(client, packet.challenge)
  OBVIOUS
<1>2. /\ packet.type = "Challenge" /\ Deliver(packet, {sent})
      /\ packet \in Packets /\ packet.challenge \in Challenge
  BY <1>1, Typed DEF ReceiveChallenge, IsChallenge, Packets
<1>3. /\ client'.State = "InitializedOnLocal" /\ client'.LastChallengeTimestamp = now
      /\ client'.address = client.address
  BY ClientTyped DEF ReceiveChallenge
<1>4. /\ sent.type = "Response" /\ sent.address = client.address
      /\ sent.challenge = packet.challenge /\ ~sent.late
  <2>1. ~client.bRestartedHandshake
    BY ConnectingIs
  <2> QED BY <1>1, <1>2, <2>1, ChallengeResponseIs, SentIsNew DEF New
<1>5. Follows(sent)'
  BY <1>3, <1>4 DEF Follows
<1>6. Recovers(packet) => Recovers(sent)'
  BY <1>2, <1>3, <1>4 DEF Recovers
<1>7. ASSUME faultTime' = faultTime
      PROVE  Recovers(sent)' \/ (Waits => Waits')
  <2>1. CASE now <= faultTime + MaxDelay
    BY <1>3, <1>7, <2>1 DEF Waits
  <2>2. CASE now > faultTime + MaxDelay
    <3>1. ~packet.late /\ packet.sent = now
      BY <2>2, PaceIs, Typed DEF RInv
    <3>2. Follows(packet)
      BY DEF RInv, Recovery
    <3>3. Recovers(packet)
      BY <1>2, <2>2, <3>1, <3>2 DEF Follows, Recovers
    <3> QED BY <1>6, <3>3
  <2> QED BY <2>1, <2>2, Typed
<1> QED BY <1>2, <1>3, <1>5, <1>6, <1>7, DeliverRecovers DEF RInv

\* An InitialPacket is answered for the address it came from.
LEMMA ConnectChallengeRecovers ==
  ASSUME IInv, IInv', RInv, Pace', AtFirstHandshake, NEW packet \in network, now' = now,
         SendConnectChallenge(packet)
  PROVE  Recovery'
<1> DEFINE cookie == GenerateCookie(server, packet.address, server.ActiveSecret, now)
           challenge == [SecretId |-> server.ActiveSecret, Timestamp |-> now, Cookie |-> cookie]
<1>1. PICK answer : answer = Packet("client", "Challenge", packet.address, packet.ClientID,
                                    challenge, None)
  OBVIOUS
<1>2. /\ packet.type = "InitialPacket" /\ Deliver(packet, {answer})
      /\ UNCHANGED <<client, server>>
  BY <1>1 DEF SendConnectChallenge
<1>3. /\ answer.type = "Challenge" /\ answer.challenge = challenge
      /\ answer.sent = now /\ ~answer.late
  BY <1>1 DEF Packet
<1>4. challenge.Cookie.address = packet.address /\ challenge.Timestamp = now
  BY DEF GenerateCookie
<1> HIDE DEF challenge
<1>5. ASSUME faultTime' = faultTime
      PROVE  Follows(answer)'
  <2>1. CASE now > faultTime + MaxDelay
    <3>1. packet.sent = now /\ packet.sent > faultTime
      BY <2>1, PaceIs, Typed DEF RInv
    <3>2. packet.address = client.address
      BY <1>2, <3>1 DEF RInv, Recovery, Follows
    <3> QED BY <1>2, <1>3, <1>4, <3>2 DEF Follows
  <2>2. CASE ~(now > faultTime + MaxDelay)
    BY <1>3, <1>5, <2>2 DEF Follows
  <2> QED BY <2>1, <2>2
<1>6. Recovers(packet) => Recovers(answer)'
  BY <1>2, <1>3, <1>4 DEF Recovers
<1>7. Waits => Waits' \/ faultTime' # faultTime
  BY <1>2 DEF Waits
<1> QED BY <1>2, <1>5, <1>6, <1>7, DeliverRecovers DEF RInv

\* An ack has the client connect.
LEMMA AckRecovers ==
  ASSUME IInv, IInv', RInv, Pace', AtFirstHandshake, NEW packet \in network, now' = now,
         UNCHANGED client, NEW address, NEW id, NEW cookie,
         Deliver(packet, {ChallengeAck(address, id, cookie)})
  PROVE  Recovery'
<1>1. PICK ack : ack = ChallengeAck(address, id, cookie)
  OBVIOUS
<1>2. ack.type = "Ack" /\ ~ack.late
  BY <1>1 DEF ChallengeAck, Packet
<1>3. Follows(ack)' /\ Recovers(ack)'
  BY <1>2 DEF Follows, Recovers
<1> QED BY <1>1, <1>3, DeliverRecovers DEF RInv

\* No side ignores a packet that has the client connect: the server accepts the
\* response to a new challenge, or has a connection and sends its ack again.
LEMMA NotIgnored ==
  ASSUME IInv, RInv, AtFirstHandshake, NEW packet \in network, Recovers(packet)
  PROVE  /\ packet.to = "client" => ~IgnoredByClient(packet)
         /\ packet.to # "client" => ~IgnoredByServer(packet)
<1>1. /\ packet \in Packets /\ Carries(packet)
      /\ packet.address \in Address /\ packet.ClientID = 0
  BY Typed, ConnectingIs DEF IInv, PacketIsRight, Packets
<1>2. ASSUME packet.to = "client"
      PROVE  ~IgnoredByClient(packet)
  <2>1. packet.type \in {"Ack", "Challenge"}
    BY <1>1, <1>2 DEF Recovers, Carries, FromClient, Responses
  <2>2. AcceptsClientID(client.CachedClientID, packet) /\ client.State # "Initialized"
    BY <1>1, ConnectingIs DEF AcceptsClientID, AtFirstHandshake
  <2> QED BY <2>1, <2>2 DEF IgnoredByClient, IsChallenge, IsAck
<1>3. ASSUME packet.to # "client"
      PROVE  ~IgnoredByServer(packet)
  <2>1. packet.type \in {"InitialPacket", "Response"}
    BY <1>1, <1>3 DEF Recovers, Carries, FromClient, Responses, Packets
  <2> DEFINE connection == server.connections[packet.address]
  <2>2. CASE connection = None
    <3>1. CASE packet.type = "Response"
      <4>1. /\ packet.challenge.Cookie.address = packet.address
            /\ packet.challenge.Timestamp = now
        BY <3>1 DEF Recovers
      <4>2. now - packet.challenge.Timestamp <= MIN_COOKIE_LIFETIME
        BY <4>1, HandshakeAssumption, Typed DEF MIN_COOKIE_LIFETIME
      <4>3. ChallengeSuccess(server, packet)
        BY <3>1, <4>1, <4>2, CookiesOutlive DEF CookieOutlivesChallenge
      <4> QED BY <2>2, <4>3 DEF IgnoredByServer
    <3> QED BY <2>1, <2>2, <3>1 DEF IgnoredByServer
  <2>3. CASE connection # None
    <3>1. connection.CachedClientID = 0 /\ connection.LastChallengeSuccessAddress # None
      BY <1>1, <2>3, ConnectingIs DEF RInv, Answered
    <3>2. ResendsAck(connection, packet)
      BY <1>1, <2>1, <3>1 DEF ResendsAck, AcceptsClientID
    <3> QED BY <2>3, <3>2 DEF IgnoredByServer
  <2> QED BY <2>2, <2>3
<1> QED BY <1>2, <1>3

LEMMA ReceiveRecovers ==
  ASSUME IInv, IInv', RInv, Pace', AtFirstHandshake, AtFirstHandshake', Receive
  PROVE  Recovery'
<1>1. PICK packet \in network :
        /\ ClientReceives(packet) \/ ServerReceives(packet) \/ Ignore(packet)
        /\ UNCHANGED now
  BY DEF Receive
<1>2. packet.type # "Game"
  BY DEF RInv, Answered
<1>3. CASE ReceiveChallenge(packet)
  BY <1>1, <1>3, ChallengeRecovers
<1>4. CASE ReceiveAck(packet)
  <2>1. client'.State = "Initialized"
    BY <1>4, ClientTyped DEF ReceiveAck
  <2> QED BY <2>1 DEF IInv, ClientIsRight, AtFirstHandshake
<1>5. CASE \E quiet \in BOOLEAN : ReceiveRestartRequest(packet, quiet)
  BY <1>5, ConnectingIs DEF ReceiveRestartRequest, IsRestartRequest
<1>6. CASE SendConnectChallenge(packet)
  BY <1>1, <1>6, ConnectChallengeRecovers
<1>7. CASE AcceptResponse(packet)
  BY <1>1, <1>7, AckRecovers DEF AcceptResponse
<1>8. CASE SendRestartHandshakeRequest(packet)
  BY <1>2, <1>8 DEF SendRestartHandshakeRequest
<1>9. CASE \E connection : ResendChallengeAck(connection, packet)
  BY <1>1, <1>9, AckRecovers DEF ResendChallengeAck
<1>10. CASE \E connection : EndAckResends(connection, packet)
  BY <1>2, <1>10 DEF EndAckResends, EndsAckResends
<1>11. CASE Ignore(packet)
  <2>1. ~Recovers(packet) /\ Deliver(packet, {}) /\ UNCHANGED client
    BY <1>11, NotIgnored DEF Ignore
  <2>2. faultTime' = faultTime => (Waits => Waits')
    BY <2>1 DEF Waits
  <2> QED BY <1>1, <2>1, <2>2, DeliverRecovers DEF RInv
<1> QED BY <1>1, <1>3, <1>4, <1>5, <1>6, <1>7, <1>8, <1>9, <1>10, <1>11
        DEF ClientReceives, ServerReceives

\* The client sends an InitialPacket, or its last challenge is not too old yet.
LEMMA TickRecovers ==
  ASSUME IInv, IInv', RInv, Pace', AtFirstHandshake, Tick
  PROVE  Recovery'
<1> DEFINE old == now - client.LastChallengeTimestamp > MIN_COOKIE_LIFETIME
           state == IF old THEN "UnInitialized" ELSE client.State
<1>1. PICK resent : resent = IF state = "UnInitialized" THEN InitialPacket(client)
                             ELSE ChallengeResponse(client, client.LastChallenge)
  OBVIOUS
<1>2. /\ network' = network \cup {resent} /\ UNCHANGED <<now, faultTime>>
      /\ client'.State = state /\ client'.address = client.address
      /\ client'.LastChallengeTimestamp = client.LastChallengeTimestamp
  BY <1>1, ClientTyped DEF Tick
<1>3. state \in {"UnInitialized", "InitializedOnLocal"} /\ (state # "UnInitialized" => state = client.State)
  BY ConnectingIs
<1>4. network' = (network \ {}) \cup {resent}
  BY <1>2
<1>5. CASE state = "UnInitialized"
  <2>1. resent.type = "InitialPacket" /\ resent.address = client.address /\ ~resent.late
    BY <1>1, <1>5, InitialPacketIs, SentIsNew DEF New
  <2>2. Follows(resent)' /\ Recovers(resent)'
    BY <1>2, <2>1 DEF Follows, Recovers
  <2>3. /\ \A p \in {resent} : Follows(p)'
        /\ \A p \in network \cap {} : Recovers(p) => \E q \in {resent} : Recovers(q)'
        /\ \E q \in {resent} : Recovers(q)'
    BY <2>2
  <2> QED BY <1>2, <1>4, <2>3, Recovering DEF RInv
<1>6. CASE state = "InitializedOnLocal"
  <2>1. resent.type = "Response" /\ resent.address = client.address
    BY <1>1, <1>6, Typed, ConnectingIs, ChallengeResponseIs
  <2>2. Follows(resent)'
    BY <1>2, <2>1 DEF Follows
  <2>3. Waits => Waits'
    BY <1>2, <1>3, <1>6 DEF Waits
  <2>4. /\ \A p \in {resent} : Follows(p)'
        /\ \A p \in network \cap {} : Recovers(p) => \E q \in {resent} : Recovers(q)'
        /\ (\E q \in {resent} : Recovers(q)') \/ (Waits => Waits')
    BY <2>2, <2>3
  <2> QED BY <1>2, <1>4, <2>4, Recovering DEF RInv
<1> QED BY <1>3, <1>5, <1>6

\* Time passes when all packets are late and the client has just sent one: it
\* has not waited for long.
LEMMA TimePassesRecovers ==
  ASSUME IInv, IInv', RInv, AtFirstHandshake, TimePasses
  PROVE  Recovery'
<1>1. /\ now' = now + 1 /\ UNCHANGED <<client, network, faultTime>>
      /\ \A packet \in network : packet.late
      /\ ~ResendDue(client)
  BY DEF TimePasses
<1>2. Waits /\ Waits'
  <2>1. Waits
    BY <1>1 DEF RInv, Recovery, Recovers
  <2> QED BY <1>1, <2>1 DEF Waits
<1>3. \A packet \in network' : Follows(packet)'
  BY <1>1 DEF RInv, Recovery, Follows
<1>4. /\ SECRET_UPDATE_TIME \in Nat /\ HandshakeResendInterval \in Nat
      /\ client.LastChallengeTimestamp \in Nat
  BY HandshakeAssumption, ClientTyped
<1>5. now - client.LastClientSendTimestamp <= HandshakeResendInterval
  BY <1>1, <1>4, ConnectingIs, Typed DEF ResendDue
<1>6. client.LastClientSendTimestamp <= faultTime + MaxDelay + SECRET_UPDATE_TIME
  <2>1. CASE client.State = "UnInitialized"
    BY <1>2, <1>4, <2>1, Typed DEF Waits
  <2>2. CASE client.State = "InitializedOnLocal"
    BY <1>2, <1>4, <2>2, Typed DEF Waits, RInv, Pace, MIN_COOKIE_LIFETIME
  <2> QED BY <2>1, <2>2, ConnectingIs
<1>7. (now - faultTime <= ConnectTime)'
  BY <1>1, <1>4, <1>5, <1>6, Typed DEF ConnectTime, MIN_COOKIE_LIFETIME
<1> QED BY <1>2, <1>3, <1>7 DEF Recovery

LEMMA RecoveryStep ==
  ASSUME IInv, IInv', RInv, Pace', [Next]_vars
  PROVE  Recovery'
<1> SUFFICES ASSUME AtFirstHandshake' PROVE Recovery'
  BY DEF Recovery
<1>1. AtFirstHandshake
  BY StillConnects
<1>2. CASE Receive
  BY <1>1, <1>2, ReceiveRecovers
<1>3. CASE Tick
  BY <1>1, <1>3, TickRecovers
<1>4. CASE SendGamePacket
  BY <1>1, <1>4 DEF SendGamePacket, AtFirstHandshake, Authorised
<1>5. CASE \/ TickSecret \/ UNCHANGED vars
           \/ \E address \in Address : CloseConnection(address)
  BY <1>5 DEF TickSecret, CloseConnection, vars, RInv, Recovery, Follows, Recovers, Waits,
              AtFirstHandshake, Authorised
<1>6. CASE \/ Crash
           \/ \E address \in Address : Move(address)
           \/ \E packet \in network : Lose(packet) \/ Delay(packet)
  <2>1. faultTime' = now'
    BY <1>6 DEF Crash, Move, Lose, Delay, Fault
  <2> QED BY <2>1, FaultRecovers
<1>7. CASE TimePasses
  BY <1>1, <1>7, TimePassesRecovers
<1> QED BY <1>2, <1>3, <1>4, <1>5, <1>6, <1>7 DEF Next

\* A step that sends no game packet and makes no connection that does not answer
LEMMA AnsweredKept ==
  ASSUME Answered, AtFirstHandshake,
         \A p \in network' : p \in network \/ p.type # "Game",
         \A address \in Address :
           \/ server'.connections[address] \in {None, server.connections[address]}
           \/ server'.connections[address].LastChallengeSuccessAddress # None
  PROVE  Answered'
BY DEF Answered

LEMMA AnsweredReceive ==
  ASSUME IInv, RInv, AtFirstHandshake, Receive
  PROVE  Answered'
<1>1. PICK packet \in network :
        ClientReceives(packet) \/ ServerReceives(packet) \/ Ignore(packet)
  BY DEF Receive
<1>2. /\ packet.type # "Game" /\ packet.type # "RestartResponse"
      /\ packet \in Packets /\ packet.address \in Address /\ packet.address # None
  BY ConnectingIs, Typed, HandshakeAssumption DEF RInv, Answered, Packets
<1>3. PICK replies : Deliver(packet, replies) /\ \A p \in replies : p.type # "Game"
  <2>1. CASE ReceiveChallenge(packet)
    <3>1. ChallengeResponse(client, packet.challenge).type # "Game"
      BY DEF ChallengeResponse, Packet
    <3> QED BY <2>1, <3>1 DEF ReceiveChallenge
  <2>2. CASE ReceiveAck(packet)
    BY <2>2 DEF ReceiveAck
  <2>3. CASE \E quiet \in BOOLEAN : ReceiveRestartRequest(packet, quiet)
    BY <2>3, ConnectingIs DEF ReceiveRestartRequest, IsRestartRequest
  <2>4. CASE SendConnectChallenge(packet)
    BY <2>4 DEF SendConnectChallenge, Packet
  <2>5. CASE AcceptResponse(packet)
    BY <2>5 DEF AcceptResponse, ChallengeAck, Packet
  <2>6. CASE SendRestartHandshakeRequest(packet)
    BY <1>2, <2>6 DEF SendRestartHandshakeRequest
  <2>7. CASE \E connection : ResendChallengeAck(connection, packet)
    BY <2>7 DEF ResendChallengeAck, ChallengeAck, Packet
  <2>8. CASE \E connection : EndAckResends(connection, packet)
    BY <1>2, <2>8 DEF EndAckResends, EndsAckResends
  <2>9. CASE Ignore(packet)
    BY <2>9 DEF Ignore
  <2> QED BY <1>1, <2>1, <2>2, <2>3, <2>4, <2>5, <2>6, <2>7, <2>8, <2>9
          DEF ClientReceives, ServerReceives
<1>4. ASSUME NEW address \in Address
      PROVE  \/ server'.connections[address] \in {None, server.connections[address]}
             \/ server'.connections[address].LastChallengeSuccessAddress # None
  <2>1. CASE AcceptResponse(packet)
    <3>1. server' = AddConnection(server, packet)
      BY <1>2, <2>1 DEF AcceptResponse, ChallengeSuccess
    <3>2. server.connections \in [Address -> Connection \cup {None}]
      BY Typed
    <3>3. server'.connections =
            [server.connections EXCEPT ![packet.address] =
               InitFromConnectionless(packet.challenge.Cookie,
                 Sequences(packet.challenge.Cookie, "server"), packet)]
      BY <3>1 DEF AddConnection, IInv, Counters, TypeOK
    <3>4. CASE address = packet.address
      <4>1. server'.connections[address] =
              InitFromConnectionless(packet.challenge.Cookie,
                 Sequences(packet.challenge.Cookie, "server"), packet)
        BY <3>2, <3>3, <3>4
      <4> QED BY <1>2, <4>1 DEF InitFromConnectionless
    <3>5. CASE address # packet.address
      BY <3>2, <3>3, <3>5
    <3> QED BY <3>4, <3>5
  <2>2. CASE ~AcceptResponse(packet)
    <3>1. UNCHANGED server
      BY <1>1, <1>2, <2>2
      DEF ClientReceives, ServerReceives, Ignore, ReceiveChallenge, ReceiveAck,
          ReceiveRestartRequest, SendConnectChallenge, SendRestartHandshakeRequest,
          ResendChallengeAck, EndAckResends, EndsAckResends
    <3> QED BY <3>1
  <2> QED BY <2>1, <2>2
<1>5. \A p \in network' : p \in network \/ p.type # "Game"
  BY <1>3 DEF Deliver
<1> QED BY <1>4, <1>5, AnsweredKept DEF RInv

LEMMA AnsweredStep ==
  ASSUME IInv, RInv, [Next]_vars
  PROVE  Answered'
<1> SUFFICES ASSUME AtFirstHandshake' PROVE Answered'
  BY DEF Answered
<1>1. AtFirstHandshake /\ Answered
  BY StillConnects DEF RInv
<1>2. CASE Tick
  <2>1. /\ InitialPacket(client).type # "Game"
        /\ ChallengeResponse(client, client.LastChallenge).type # "Game"
    BY DEF InitialPacket, ChallengeResponse, Packet
  <2> QED BY <1>1, <1>2, <2>1, AnsweredKept DEF Tick
<1>3. CASE SendGamePacket
  BY <1>1, <1>3 DEF SendGamePacket, AtFirstHandshake, Authorised
<1>4. CASE TickSecret
  <2>1. server'.connections = server.connections
    BY <1>4 DEF TickSecret, UpdateSecret, IInv, Counters, TypeOK
  <2> QED BY <1>1, <1>4, <2>1, AnsweredKept DEF TickSecret
<1>5. CASE \E address \in Address : CloseConnection(address)
  <2>1. PICK address \in Address : CloseConnection(address)
    BY <1>5
  <2>2. server'.connections = [server.connections EXCEPT ![address] = None]
    BY <2>1 DEF CloseConnection, IInv, Counters, TypeOK
  <2>3. \A a \in Address : server'.connections[a] \in {None, server.connections[a]}
    BY <2>2, Typed
  <2> QED BY <1>1, <2>1, <2>3, AnsweredKept DEF CloseConnection
<1>6. CASE \/ \E address \in Address : Move(address)
           \/ \E packet \in network : Lose(packet)
           \/ TimePasses \/ UNCHANGED vars
  BY <1>1, <1>6, AnsweredKept DEF Move, Lose, TimePasses, vars
<1>7. CASE \E packet \in network : Delay(packet)
  <2>1. PICK packet \in network : Delay(packet)
    BY <1>7
  <2>2. packet \in Packets /\ packet.type # "Game"
    BY <1>1, Typed DEF Answered
  <2>3. [packet EXCEPT !.late = TRUE].type # "Game"
    BY <2>2 DEF Packets
  <2> QED BY <1>1, <2>1, <2>3, AnsweredKept DEF Delay
<1>8. CASE Crash
  <2>1. InitialPacket(client').type # "Game"
    BY DEF InitialPacket, Packet
  <2>2. network' = network \cup {InitialPacket(client')} /\ UNCHANGED server
    BY <1>8 DEF Crash
  <2> QED BY <1>1, <2>1, <2>2, AnsweredKept
<1> QED BY <1>1, <1>2, <1>3, <1>4, <1>5, <1>6, <1>7, <1>8, AnsweredReceive DEF Next

LEMMA InitRecovers == Init => RInv
<1> SUFFICES ASSUME Init PROVE RInv
  OBVIOUS
<1>1. /\ StartTime \in Nat /\ MaxDelay \in Nat /\ SECRET_UPDATE_TIME \in Nat
      /\ HandshakeResendInterval \in Nat
  BY HandshakeAssumption
<1>2. PICK p : p = InitialPacket(client)
  OBVIOUS
<1>3. network = {p} /\ now = StartTime /\ faultTime = StartTime
  BY <1>2 DEF Init
<1>4. /\ client.State = "UnInitialized" /\ client.LastChallengeTimestamp = 0
      /\ client.address = FirstAddress
  BY DEF Init, NewClient
<1>5. p.type = "InitialPacket" /\ p.address = client.address /\ p.sent = now /\ ~p.late
  BY <1>2 DEF InitialPacket, Packet
<1>6. Pace
  BY <1>1, <1>3, <1>4, <1>5 DEF Pace, Prompt
<1>7. Answered
  <2>1. \A a \in Address : server.connections[a] = None
    BY DEF Init
  <2> QED BY <1>3, <1>5, <2>1 DEF Answered
<1>8. Recovery
  <2>1. now - faultTime <= ConnectTime
    BY <1>1, <1>3 DEF ConnectTime, MIN_COOKIE_LIFETIME
  <2>2. Follows(p) /\ Recovers(p)
    BY <1>5 DEF Follows, Recovers
  <2> QED BY <1>3, <2>1, <2>2 DEF Recovery
<1> QED BY <1>6, <1>7, <1>8 DEF RInv

\* A client that has not crashed connects within ConnectTime of the last packet
\* that was lost, late or duplicated and the last change of its address, whatever
\* the lifetimes, delays and intervals are (Tick, SendConnectChallenge, Incoming
\* and its resending of the ack).
THEOREM AlwaysConnectsInTime == Spec => []ConnectsInTime
<1>1. IInv /\ IInv' /\ RInv /\ [Next]_vars => RInv'
  <2> SUFFICES ASSUME IInv, IInv', RInv, [Next]_vars PROVE RInv'
    OBVIOUS
  <2>1. Pace'
    BY PaceStep DEF RInv
  <2> QED BY <2>1, AnsweredStep, RecoveryStep DEF RInv
<1>2. IInv /\ RInv => ConnectsInTime
  <2> SUFFICES ASSUME IInv, RInv, AtFirstHandshake, now - faultTime > ConnectTime PROVE FALSE
    BY DEF ConnectsInTime, AtFirstHandshake, Authorised
  <2>1. ConnectTime \in Nat
    BY HandshakeAssumption DEF ConnectTime, MIN_COOKIE_LIFETIME
  <2>2. now - faultTime <= ConnectTime
    BY DEF RInv, Recovery
  <2> QED BY <2>1, <2>2, Typed
<1> QED BY <1>1, <1>2, InitRecovers, Invariant, PTL DEF Spec

=============================================================================
