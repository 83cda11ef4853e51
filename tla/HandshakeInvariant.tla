------------------------- MODULE HandshakeInvariant -------------------------
(***************************************************************************)
(* The inductive invariant of Handshake: which cookies are under way and   *)
(* how old they may be, for whom, and when the cookie of a connection      *)
(* cannot make another one any more.                                       *)
(***************************************************************************)
EXTENDS Handshake

Responses == {"Response", "RestartResponse"}
FromClient == {"InitialPacket"} \cup Responses
Answers == {"Challenge", "Ack"}

Authorised == client.AuthorisedCookie # None

\* The client has not crashed since it sent, or was sent, a packet.
Mine(packet) == packet.ClientID = client.CachedClientID

-----------------------------------------------------------------------------
(* Time                                                                    *)

Counters ==
  /\ TypeOK
  /\ client.CachedClientID <= faults /\ faults <= MaxFaults
  /\ client.LastClientSendTimestamp <= now
  /\ server.LastSecretUpdateTimestamp <= now

\* No packet is under way for longer than MaxDelay; what the client sends for
\* the handshake is no later than LastClientSendTimestamp, and what that is
\* answered with no later than it may take to arrive.
InTime(packet) ==
  /\ packet.sent <= now /\ now <= packet.sent + MaxDelay
  /\ packet.type \in FromClient => packet.sent <= client.LastClientSendTimestamp
  /\ packet.type \in Answers => packet.sent <= client.LastClientSendTimestamp + MaxDelay

\* A cookie that the client has sent was made before that.
Known(cookie) == cookie \in Cookie /\ cookie.Timestamp <= client.LastClientSendTimestamp

\* A challenge was made with the active secret, or before that with the other
\* one, or is older than the least lifetime of a secret.
Genuine(challenge) ==
  LET changed == server.LastSecretUpdateTimestamp
      secret == server.HandshakeSecret[challenge.SecretId]
  IN  /\ challenge.Cookie \in Cookie
      /\ challenge.Cookie.Timestamp = challenge.Timestamp
      /\ challenge.Timestamp <= now
      /\ \/ /\ challenge.Cookie.secret = secret
            /\ IF challenge.SecretId = server.ActiveSecret THEN challenge.Timestamp >= changed
                                                           ELSE challenge.Timestamp <= changed
         \/ changed - challenge.Timestamp > SECRET_UPDATE_TIME

-----------------------------------------------------------------------------
(* Cookies                                                                 *)

\* A packet the client or the server makes a connection of: a response of a
\* first handshake, or a challenge the client answers with one.
Connecting(packet) ==
  \/ packet.type = "Response"
  \/ packet.type = "Challenge" /\ Mine(packet) /\ ~Authorised

\* No connection can be made with a cookie any more: it is not new, no packet
\* carries it that would, and the client has no challenge with it to answer.
Retired(cookie) ==
  /\ cookie.Timestamp < now
  /\ \A packet \in network : Connecting(packet) => packet.challenge.Cookie # cookie
  /\ client.State = "InitializedOnLocal" /\ ~Authorised => client.LastChallenge.Cookie # cookie

\* What a packet of each type carries
Carries(packet) ==
  /\ packet.to = "server" <=> packet.type \in FromClient \cup {"Game"}
  /\ packet.type \in Responses \cup {"Challenge"} => Genuine(packet.challenge)
  /\ packet.type \in Responses \cup {"Ack"} => Known(packet.challenge.Cookie)
  /\ packet.type = "RestartResponse" => Known(packet.OrigCookie) /\ Retired(packet.OrigCookie)

\* Packets of the client come from the addresses it has had in this handshake,
\* and name its own connection. Those of a client that crashed name another.
Belongs(packet) ==
  /\ packet.ClientID <= client.CachedClientID
  /\ Mine(packet) /\ packet.type \in FromClient => packet.address \in client.used
  /\ packet.type = "RestartResponse" =>
       IF Mine(packet) THEN packet.OrigCookie = client.AuthorisedCookie
       ELSE /\ packet.OrigCookie # client.AuthorisedCookie
            /\ \A address \in Address :
                 MyConnection(address) =>
                   server.connections[address].AuthorisedCookie # packet.OrigCookie
            /\ ~Authorised =>
                 \A ack \in network :
                   ack.type = "Ack" /\ Mine(ack) => ack.challenge.Cookie # packet.OrigCookie

\* While the client waits for an ack, one that is under way to it was sent for a
\* connection at an address it has had, and in a first handshake for the one
\* with that cookie.
Acknowledges(packet) ==
  client.State # "Initialized" /\ packet.type = "Ack" /\ Mine(packet) =>
    \E address \in client.used :
      /\ MyConnection(address)
      /\ ~Authorised =>
           server.connections[address].AuthorisedCookie = packet.challenge.Cookie

PacketIsRight(packet) ==
  InTime(packet) /\ Carries(packet) /\ Belongs(packet) /\ Acknowledges(packet)

\* A connection keeps its cookie; if that is not one of its address it was
\* moved there.
RightAt(connection, address) ==
  /\ Known(connection.AuthorisedCookie)
  /\ connection.sequences = Sequences(connection.AuthorisedCookie, "server")
  /\ connection.CachedClientID <= client.CachedClientID
  /\ connection.AuthorisedCookie.address # address => Retired(connection.AuthorisedCookie)

ConnectionIsRight(address) ==
  server.connections[address] # None => RightAt(server.connections[address], address)

\* The client, once it is authorised, has its connection at the server.
ClientIsRight ==
  /\ client.address \in client.used
  /\ client.State = "Initialized" <=> Authorised /\ ~client.bRestartedHandshake
  /\ client.State = "InitializedOnLocal" => Genuine(client.LastChallenge)
  /\ client.bRestartedHandshake => Authorised /\ Retired(client.AuthorisedCookie)
  /\ Authorised =>
       /\ Known(client.AuthorisedCookie)
       /\ client.sequences = Sequences(client.AuthorisedCookie, "client")
       /\ \E address \in Address :
            /\ MyConnection(address)
            /\ server.connections[address].AuthorisedCookie = client.AuthorisedCookie

IInv ==
  /\ Counters /\ CookiesUnique /\ ClientIsRight
  /\ \A packet \in network : PacketIsRight(packet)
  /\ \A address \in Address : ConnectionIsRight(address)

-----------------------------------------------------------------------------
(* Recovery                                                                *)

\* A packet is late, and then was sent before the last thing that went wrong, or
\* arrives at once.
Prompt(packet) == IF packet.late THEN packet.sent <= faultTime ELSE packet.sent = now

\* A response is not sent again when its challenge is too old.
Pace ==
  /\ faultTime <= now
  /\ client.LastChallengeTimestamp <= now
  /\ client.State = "InitializedOnLocal" =>
       client.LastClientSendTimestamp <= client.LastChallengeTimestamp + MIN_COOKIE_LIFETIME
  /\ \A packet \in network : Prompt(packet)

\* The client is at its first handshake, and has not crashed.
AtFirstHandshake == client.CachedClientID = 0 /\ ~Authorised

\* Until that is over the ack is sent again.
Answered == AtFirstHandshake =>
  /\ \A packet \in network : packet.type # "Game"
  /\ \A address \in Address :
       server.connections[address] # None =>
         server.connections[address].LastChallengeSuccessAddress # None

\* What was sent since the last thing went wrong is from the client's address,
\* and a challenge that answers such a packet is for that address, and new.
Follows(packet) ==
  /\ packet.type \in {"InitialPacket", "Response"} /\ packet.sent > faultTime =>
       packet.address = client.address
  /\ packet.type = "Challenge" /\ packet.sent > faultTime + MaxDelay =>
       /\ packet.challenge.Cookie.address = client.address
       /\ packet.challenge.Timestamp = packet.sent

\* A packet that has the client connect before any time passes.
Recovers(packet) ==
  /\ ~packet.late
  /\ \/ packet.type = "Ack"
     \/ packet.type = "InitialPacket" /\ packet.address = client.address
     \/ /\ packet.type \in {"Challenge", "Response"}
        /\ packet.type = "Response" => packet.address = client.address
        /\ packet.challenge.Cookie.address = client.address
        /\ packet.challenge.Timestamp = now

\* The client has not sent an InitialPacket, and has had no challenge but one
\* that was asked for before the last thing went wrong.
Waits ==
  /\ client.State = "UnInitialized" => client.LastClientSendTimestamp <= faultTime
  /\ client.State = "InitializedOnLocal" =>
       client.LastChallengeTimestamp <= faultTime + MaxDelay

Recovery == AtFirstHandshake =>
  /\ now - faultTime <= ConnectTime
  /\ \A packet \in network : Follows(packet)
  /\ (\E packet \in network : Recovers(packet)) \/ Waits

RInv == Pace /\ Answered /\ Recovery
=============================================================================
