----------------------------- MODULE Handshake -----------------------------
(***************************************************************************)
(* StatelessConnectHandlerComponent: how a client and a server agree on a  *)
(* connection, and restore it when the client's address changes, over a    *)
(* network that loses, duplicates, delays and reorders packets.            *)
(*                                                                         *)
(* The server keeps nothing of a handshake until it is complete: a cookie, *)
(* made of one of its two secrets, the time and the client's address, goes *)
(* to the client and comes back.  The initial sequence numbers of the      *)
(* connection are read off the cookie.  The secrets change with time.      *)
(*                                                                         *)
(* One client that moves between addresses, and that may crash and start   *)
(* again; versions, session and magic numbers agree.  Time is discrete.    *)
(***************************************************************************)
EXTENDS Integers

CONSTANTS
  None,                            \* no cookie, connection, address
  Address,                         \* the addresses the client may have
  FirstAddress,                    \* the one it has first
  ClientIDCount,                   \* client ids (8)
  SECRET_UPDATE_TIME,              \* (15 s), also MIN_COOKIE_LIFETIME
  SECRET_UPDATE_TIME_VARIANCE,     \* (5 s)
  HandshakeResendInterval,         \* (1 s)
  RestartDelay,                    \* between restarts of a handshake (10 s)
  DualIPWindow,                    \* of the check for dual addresses (1 s)
  RestartHandshakeAckResendWindow, \* (10 s)
  MaxDelay,                        \* how long a late packet may be under way
  StartTime,                       \* when the client starts
  MaxTime,                         \* bound: the time the model stops
  MaxFaults                        \* bound: packets that are lost, are late or
                                   \* arrive twice, moves, crashes, in all

MIN_COOKIE_LIFETIME == SECRET_UPDATE_TIME
MAX_COOKIE_LIFETIME == 2 * (SECRET_UPDATE_TIME + SECRET_UPDATE_TIME_VARIANCE)

\* A client id is not used again while a connection of its last use is there,
\* and a packet is not under way for longer than half the delay of a restart.
ASSUME HandshakeAssumption ==
  /\ FirstAddress \in Address /\ None \notin Address
  /\ {SECRET_UPDATE_TIME, SECRET_UPDATE_TIME_VARIANCE, HandshakeResendInterval,
      RestartDelay, DualIPWindow, RestartHandshakeAckResendWindow, MaxDelay,
      MaxTime, MaxFaults} \subseteq Nat
  /\ SECRET_UPDATE_TIME > 0
  /\ ClientIDCount \in Nat /\ ClientIDCount > MaxFaults
  /\ 2 * MaxDelay <= RestartDelay
  /\ StartTime \in Nat
  /\ StartTime > SECRET_UPDATE_TIME + SECRET_UPDATE_TIME_VARIANCE

VARIABLES
  client,       \* the client's component and its connection
  server,       \* the server's connectionless component and its connections
  network,      \* packets under way
  now,
  faults,       \* how many things went wrong so far
  faultTime     \* when the last of them happened

vars == <<client, server, network, now, faults, faultTime>>

Secret == 0 .. 1

-----------------------------------------------------------------------------
(* Packets.                                                                *)

NoChallenge == [SecretId |-> 0, Timestamp |-> 0, Cookie |-> None]

Packet(to, type, address, id, challenge, orig) ==
  [to |-> to, type |-> type, address |-> address, ClientID |-> id,
   challenge |-> challenge, OrigCookie |-> orig, sent |-> now, late |-> FALSE]

InitialPacket(c) ==
  Packet("server", "InitialPacket", c.address, c.CachedClientID, NoChallenge, None)

ChallengeResponse(c, challenge) ==
  IF c.bRestartedHandshake
  THEN Packet("server", "RestartResponse", c.address, c.CachedClientID, challenge,
              c.AuthorisedCookie)
  ELSE Packet("server", "Response", c.address, c.CachedClientID, challenge, None)

GamePacket(c) ==
  Packet("server", "Game", c.address, c.CachedClientID, NoChallenge, None)

ChallengeAck(address, id, cookie) ==
  Packet("client", "Ack", address, id, [NoChallenge EXCEPT !.Cookie = cookie], None)

\* Something goes wrong that the bound of the model still allows.
Fault == faults < MaxFaults /\ faults' = faults + 1 /\ faultTime' = now

\* A packet arrives, and is answered; it may arrive again.
Deliver(packet, replies) ==
  \/ /\ network' = (network \ {packet}) \cup replies
     /\ UNCHANGED <<faults, faultTime>>
  \/ /\ Fault
     /\ network' = network \cup replies

\* InitSequence: the numbers one side receives first, and sends first.
Sequences(cookie, side) ==
  [incoming |-> <<cookie, IF side = "client" THEN "server" ELSE "client">>,
   outgoing |-> <<cookie, side>>]

-----------------------------------------------------------------------------
(* The client.                                                             *)

NewClient(id, address) ==
  [State |-> "UnInitialized", bRestartedHandshake |-> FALSE, CachedClientID |-> id,
   address |-> address, LastClientSendTimestamp |-> now,
   LastChallengeTimestamp |-> 0, LastRestartPacketTimestamp |-> 0,
   LastChallenge |-> NoChallenge,
   AuthorisedCookie |-> None, sequences |-> None, used |-> {address}]

\* Mutant of AcceptsClientID: a packet for any client is taken.
AcceptsClientIDMutantAny(id, packet) == TRUE

AcceptsClientID(id, packet) == packet.ClientID = id

\* The three kinds of packets Incoming does not ignore at a client.
IsChallenge(c, packet) ==
  /\ AcceptsClientID(c.CachedClientID, packet)
  /\ packet.type = "Challenge" /\ c.State # "Initialized"

IsAck(c, packet) ==
  /\ AcceptsClientID(c.CachedClientID, packet)
  /\ packet.type = "Ack" /\ c.State # "Initialized"

IsRestartRequest(c, packet) ==
  /\ AcceptsClientID(c.CachedClientID, packet)
  /\ packet.type = "RestartHandshake" /\ c.State = "Initialized"

\* Receiving a challenge, and SendChallengeResponse.
ReceiveChallenge(packet) ==
  /\ IsChallenge(client, packet)
  /\ client' = [client EXCEPT !.State = "InitializedOnLocal",
                              !.LastChallengeTimestamp = now,
                              !.LastChallenge = packet.challenge,
                              !.LastClientSendTimestamp = now]
  /\ Deliver(packet, {ChallengeResponse(client, packet.challenge)})
  /\ UNCHANGED server

\* Receiving the ack: of a first handshake it carries the cookie to keep.
ReceiveAck(packet) ==
  LET cookie == packet.challenge.Cookie
  IN  /\ IsAck(client, packet)
      /\ client' = [client EXCEPT
           !.State = "Initialized", !.bRestartedHandshake = FALSE,
           !.AuthorisedCookie = IF client.bRestartedHandshake THEN @ ELSE cookie,
           !.sequences = IF client.bRestartedHandshake THEN @
                         ELSE Sequences(cookie, "client")]
      /\ Deliver(packet, {})
      /\ UNCHANGED server

PassedDelayCheck(c) == now - c.LastClientSendTimestamp > RestartDelay

\* quiet: no packet of the connection has arrived for some time.
PassedDualIPCheck(c, quiet) ==
  \/ c.LastRestartPacketTimestamp = 0
  \/ now - c.LastRestartPacketTimestamp > DualIPWindow
  \/ quiet

\* The server asks for a restart of the handshake.
ReceiveRestartRequest(packet, quiet) ==
  LET begins == PassedDelayCheck(client) /\ PassedDualIPCheck(client, quiet)
      restarted == [client EXCEPT !.State = "UnInitialized",
                                  !.bRestartedHandshake = TRUE,
                                  !.LastClientSendTimestamp = now,
                                  !.used = {client.address}]
  IN  /\ IsRestartRequest(client, packet)
      /\ client' = [IF begins THEN restarted ELSE client EXCEPT
                      !.LastRestartPacketTimestamp = now]
      /\ Deliver(packet, IF begins THEN {InitialPacket(client)} ELSE {})
      /\ UNCHANGED server

ResendDue(c) ==
  /\ c.State # "Initialized"
  /\ now - c.LastClientSendTimestamp > HandshakeResendInterval

\* Tick: a packet is sent again; a challenge that is too old is given up.
Tick ==
  LET old == now - client.LastChallengeTimestamp > MIN_COOKIE_LIFETIME
      state == IF old THEN "UnInitialized" ELSE client.State
      resent == IF state = "UnInitialized" THEN InitialPacket(client)
                ELSE ChallengeResponse(client, client.LastChallenge)
  IN  /\ ResendDue(client)
      /\ client' = [client EXCEPT !.State = state, !.LastClientSendTimestamp = now]
      /\ network' = network \cup {resent}
      /\ UNCHANGED <<server, now, faults, faultTime>>

\* A packet of the connection, also while a handshake is restarted.  One at a
\* time is enough.
SendGamePacket ==
  /\ client.AuthorisedCookie # None
  /\ \A packet \in network : packet.type # "Game"
  /\ network' = network \cup {GamePacket(client)}
  /\ UNCHANGED <<client, server, now, faults, faultTime>>

-----------------------------------------------------------------------------
(* The server.                                                             *)

\* GenerateCookie: a keyed hash of the address and the time.
GenerateCookie(s, address, id, timestamp) ==
  [address |-> address, Timestamp |-> timestamp, secret |-> s.HandshakeSecret[id]]

\* Mutant of UpdateSecret: the secret in use is replaced.
UpdateSecretMutantActive(s) ==
  [s EXCEPT !.HandshakeSecret[s.ActiveSecret] = s.HandshakeSecret[0] + s.HandshakeSecret[1],
            !.LastSecretUpdateTimestamp = now]

\* UpdateSecret: the other secret becomes active, with a new random value.
UpdateSecret(s) ==
  [s EXCEPT !.ActiveSecret = 1 - @,
            !.HandshakeSecret[1 - s.ActiveSecret] =
               s.HandshakeSecret[0] + s.HandshakeSecret[1],
            !.LastSecretUpdateTimestamp = now]

\* Tick at the server, after a random part of the variance.
TickSecret ==
  /\ now - server.LastSecretUpdateTimestamp > SECRET_UPDATE_TIME
  /\ server' = UpdateSecret(server)
  /\ UNCHANGED <<client, network, now, faults, faultTime>>

\* IncomingConnectionless: a response is valid if its cookie is neither too
\* old nor of a secret that was replaced, and is the one of this address.
ValidLifetime(s, challenge) ==
  LET CookieDelta == now - challenge.Timestamp
      SecretDelta == challenge.Timestamp - s.LastSecretUpdateTimestamp
  IN  /\ CookieDelta >= 0 /\ CookieDelta < MAX_COOKIE_LIFETIME
      /\ IF challenge.SecretId = s.ActiveSecret THEN SecretDelta >= 0
                                                ELSE SecretDelta <= 0

ChallengeSuccess(s, packet) ==
  /\ packet.type \in {"Response", "RestartResponse"}
  /\ ValidLifetime(s, packet.challenge)
  /\ packet.challenge.Cookie = GenerateCookie(s, packet.address, packet.challenge.SecretId,
                                              packet.challenge.Timestamp)

\* InitFromConnectionless: what a connection keeps of its handshake.
InitFromConnectionless(cookie, sequences, packet) ==
  [AuthorisedCookie |-> cookie, sequences |-> sequences,
   CachedClientID |-> packet.ClientID, LastChallengeSuccessAddress |-> packet.address,
   LastInitTimestamp |-> now]

\* The driver, once a challenge is passed: a new connection, or the one a
\* restarted handshake names, at the new address.
Matches(s, packet) ==
  {a \in Address : /\ s.connections[a] # None
                   /\ s.connections[a].AuthorisedCookie = packet.OrigCookie}

AddConnection(s, packet) ==
  LET cookie == packet.challenge.Cookie
  IN  [s EXCEPT !.connections[packet.address] =
          InitFromConnectionless(cookie, Sequences(cookie, "server"), packet)]

\* Mutant of MoveConnection: the connection stays at its old address as well.
MoveConnectionMutantKeeps(s, packet) ==
  LET old == s.connections[CHOOSE a \in Matches(s, packet) : TRUE]
  IN  [s EXCEPT !.connections[packet.address] =
          InitFromConnectionless(packet.OrigCookie, old.sequences, packet)]

MoveConnection(s, packet) ==
  LET old == CHOOSE a \in Matches(s, packet) : TRUE
      moved == InitFromConnectionless(packet.OrigCookie, s.connections[old].sequences,
                                      packet)
  IN  [s EXCEPT !.connections = [@ EXCEPT ![old] = None, ![packet.address] = moved]]

\* Packets from an address without a connection.
SendConnectChallenge(packet) ==
  LET challenge == [SecretId |-> server.ActiveSecret, Timestamp |-> now,
                    Cookie |-> GenerateCookie(server, packet.address,
                                              server.ActiveSecret, now)]
  IN  /\ packet.type = "InitialPacket"
      /\ Deliver(packet, {Packet("client", "Challenge", packet.address,
                                 packet.ClientID, challenge, None)})
      /\ UNCHANGED <<client, server>>

AcceptResponse(packet) ==
  /\ ChallengeSuccess(server, packet)
  /\ server' = IF packet.type = "Response" THEN AddConnection(server, packet)
               ELSE IF Matches(server, packet) # {} THEN MoveConnection(server, packet)
               ELSE server
  /\ Deliver(packet, {ChallengeAck(packet.address, packet.ClientID,
                        IF packet.type = "Response" THEN packet.challenge.Cookie
                                                    ELSE packet.OrigCookie)})
  /\ UNCHANGED client

\* Not from a client that was disconnected recently.
SendRestartHandshakeRequest(packet) ==
  /\ packet.type = "Game" /\ packet.address \notin server.recentlyDisconnected
  /\ Deliver(packet, {Packet("client", "RestartHandshake", packet.address,
                             packet.ClientID, NoChallenge, None)})
  /\ UNCHANGED <<client, server>>

\* Mutant of ResendsAck: an ack that was lost is not sent again.
ResendsAckMutantNever(connection, packet) == FALSE

\* Incoming at a connection: a handshake packet has the ack sent again, until
\* some time after the first packet of the connection.
ResendsAck(connection, packet) ==
  /\ AcceptsClientID(connection.CachedClientID, packet)
  /\ packet.type # "Game"
  /\ connection.LastChallengeSuccessAddress # None

ResendChallengeAck(connection, packet) ==
  /\ ResendsAck(connection, packet)
  /\ Deliver(packet, {ChallengeAck(connection.LastChallengeSuccessAddress,
                                   connection.CachedClientID,
                                   connection.AuthorisedCookie)})
  /\ UNCHANGED <<client, server>>

EndsAckResends(connection, packet) ==
  /\ AcceptsClientID(connection.CachedClientID, packet)
  /\ packet.type = "Game"
  /\ connection.LastChallengeSuccessAddress # None
  /\ now - connection.LastInitTimestamp >= RestartHandshakeAckResendWindow

EndAckResends(connection, packet) ==
  /\ EndsAckResends(connection, packet)
  /\ server' = [server EXCEPT
                  !.connections[packet.address].LastChallengeSuccessAddress = None]
  /\ Deliver(packet, {})
  /\ UNCHANGED client

\* What neither side answers.
IgnoredByClient(packet) ==
  /\ ~IsChallenge(client, packet) /\ ~IsAck(client, packet)
  /\ ~IsRestartRequest(client, packet)

IgnoredByServer(packet) ==
  LET connection == server.connections[packet.address]
  IN  IF connection = None
      THEN /\ packet.type # "InitialPacket"
           /\ ~ChallengeSuccess(server, packet)
           /\ packet.type = "Game" => packet.address \in server.recentlyDisconnected
      ELSE ~ResendsAck(connection, packet) /\ ~EndsAckResends(connection, packet)

Ignore(packet) ==
  /\ IF packet.to = "client" THEN IgnoredByClient(packet) ELSE IgnoredByServer(packet)
  /\ Deliver(packet, {})
  /\ UNCHANGED <<client, server>>

\* The server gives up the connection of a client that is gone.
CloseConnection(address) ==
  LET connection == server.connections[address]
  IN  /\ connection # None
      /\ connection.CachedClientID # client.CachedClientID
      /\ server' = [server EXCEPT !.connections[address] = None,
                                  !.recentlyDisconnected = @ \cup {address}]
      /\ UNCHANGED <<client, network, now, faults, faultTime>>

-----------------------------------------------------------------------------
(* The environment.                                                        *)

Crash ==
  LET restarted == NewClient((client.CachedClientID + 1) % ClientIDCount, client.address)
  IN  /\ Fault
      /\ client' = restarted
      /\ network' = network \cup {InitialPacket(restarted)}
      /\ UNCHANGED <<server, now>>

Move(address) ==
  /\ Fault
  /\ address # client.address
  /\ client' = [client EXCEPT !.address = address, !.used = @ \cup {address}]
  /\ UNCHANGED <<server, network, now>>

Lose(packet) ==
  /\ Fault
  /\ network' = network \ {packet}
  /\ UNCHANGED <<client, server, now>>

Delay(packet) ==
  /\ Fault
  /\ ~packet.late
  /\ network' = (network \ {packet}) \cup {[packet EXCEPT !.late = TRUE]}
  /\ UNCHANGED <<client, server, now>>

\* Packets that are not late arrive at once, and both sides tick at least as
\* often as time passes.
TimePasses ==
  /\ now < MaxTime
  /\ \A packet \in network : packet.late /\ now - packet.sent < MaxDelay
  /\ ~ResendDue(client)
  /\ now - server.LastSecretUpdateTimestamp
       <= SECRET_UPDATE_TIME + SECRET_UPDATE_TIME_VARIANCE
  /\ now' = now + 1
  /\ UNCHANGED <<client, server, network, faults, faultTime>>

Init ==
  /\ now = StartTime
  /\ client = NewClient(0, FirstAddress)
  /\ server \in [ActiveSecret : {0}, HandshakeSecret : {[i \in Secret |-> i + 1]},
                 LastSecretUpdateTimestamp :
                   StartTime - SECRET_UPDATE_TIME - SECRET_UPDATE_TIME_VARIANCE .. StartTime,
                 connections : [Address -> {None}], recentlyDisconnected : {{}}]
  /\ network = {InitialPacket(client)}
  /\ faults = 0 /\ faultTime = StartTime

ClientReceives(packet) ==
  /\ packet.to = "client"
  /\ \/ ReceiveChallenge(packet)
     \/ ReceiveAck(packet)
     \/ \E quiet \in BOOLEAN : ReceiveRestartRequest(packet, quiet)

ServerReceives(packet) ==
  LET connection == server.connections[packet.address]
  IN  /\ packet.to = "server"
      /\ \/ connection = None /\ \/ SendConnectChallenge(packet)
                                 \/ AcceptResponse(packet)
                                 \/ SendRestartHandshakeRequest(packet)
         \/ connection # None /\ \/ ResendChallengeAck(connection, packet)
                                 \/ EndAckResends(connection, packet)

Receive == \E packet \in network :
  /\ ClientReceives(packet) \/ ServerReceives(packet) \/ Ignore(packet)
  /\ UNCHANGED now

Next ==
  \/ Receive
  \/ Tick
  \/ SendGamePacket
  \/ TickSecret
  \/ \E address \in Address : CloseConnection(address) \/ Move(address)
  \/ \E packet \in network : Lose(packet) \/ Delay(packet)
  \/ Crash
  \/ TimePasses

Spec == Init /\ [][Next]_vars

-----------------------------------------------------------------------------
(* Properties.                                                             *)

Cookie == [address : Address, Timestamp : Nat, secret : Nat]
OptionalCookie == Cookie \cup {None}
Numbers == [incoming : Cookie \X {"client", "server"},
            outgoing : Cookie \X {"client", "server"}]
ClientID == 0 .. ClientIDCount - 1
Challenge == [SecretId : Secret, Timestamp : Nat, Cookie : OptionalCookie]
PacketType == {"InitialPacket", "Challenge", "Response", "Ack", "RestartHandshake",
               "RestartResponse", "Game"}
Packets == [to : {"client", "server"}, type : PacketType, address : Address,
            ClientID : ClientID, challenge : Challenge, OrigCookie : OptionalCookie,
            sent : Nat, late : BOOLEAN]
Connection == [AuthorisedCookie : Cookie, sequences : Numbers, CachedClientID : ClientID,
               LastChallengeSuccessAddress : Address \cup {None}, LastInitTimestamp : Nat]

ASSUME NoneAssumption == None \notin Cookie \cup Connection

TypeOK ==
  /\ client \in [State : {"UnInitialized", "InitializedOnLocal", "Initialized"},
                 bRestartedHandshake : BOOLEAN, CachedClientID : ClientID,
                 address : Address, LastClientSendTimestamp : Nat,
                 LastChallengeTimestamp : Nat, LastRestartPacketTimestamp : Nat,
                 LastChallenge : Challenge, AuthorisedCookie : OptionalCookie,
                 sequences : Numbers \cup {None}, used : SUBSET Address]
  /\ server \in [ActiveSecret : Secret, HandshakeSecret : [Secret -> Nat],
                 LastSecretUpdateTimestamp : Nat,
                 connections : [Address -> Connection \cup {None}],
                 recentlyDisconnected : SUBSET Address]
  /\ network \subseteq Packets
  /\ {now, faults, faultTime} \subseteq Nat

\* A response that comes back from the right address within
\* MIN_COOKIE_LIFETIME ("the minimum amount of possible time a cookie may
\* exist"), whenever the secrets change in between, is not rejected.
CookieOutlivesChallenge == \A packet \in network :
  /\ packet.type \in {"Response", "RestartResponse"}
  /\ packet.challenge.Cookie.address = packet.address
  /\ now - packet.challenge.Timestamp <= MIN_COOKIE_LIFETIME
  => ChallengeSuccess(server, packet)

\* The connections the server has for this client, and not for what ran before
\* it crashed.
MyConnection(address) ==
  /\ server.connections[address] # None
  /\ server.connections[address].CachedClientID = client.CachedClientID

\* The client has one connection at most: no other is left of a handshake whose
\* ack it never had.
NoStaleConnection == \A a, b \in Address : MyConnection(a) /\ MyConnection(b) => a = b

Completes == client.State # "Initialized" /\ client'.State = "Initialized"

Connects(address) ==
  LET connection == server'.connections[address]
  IN  /\ connection # None
      /\ connection.AuthorisedCookie = client'.AuthorisedCookie
      /\ connection.CachedClientID = client'.CachedClientID
      /\ connection.sequences.incoming = client'.sequences.outgoing
      /\ connection.sequences.outgoing = client'.sequences.incoming

\* A client that completes a handshake, first or restarted, has a connection
\* at the server, made for it and not for what ran before it crashed, with
\* sequence numbers that match its own; at an address it has had since the
\* handshake began, unless the handshake was restarted and another connection
\* of the client is left ("Handshake Complete").
CompletesConnected == [][
  Completes =>
    \E address \in Address :
      /\ Connects(address)
      /\ ~client.bRestartedHandshake \/ NoStaleConnection => address \in client.used]_vars

\* "Handshake Complete.  Connection restored.": a client that completes a
\* restarted handshake has its connection moved to an address of its own.  Not
\* so: the client does not compare the cookie of the ack.
RestoresConnection == [][
  Completes /\ client.bRestartedHandshake =>
    \E address \in client.used : Connects(address)]_vars

\* Types, and no cookie names two connections: a restarted handshake finds the
\* one its client had (DoesRestartedHandshakeMatch).
CookiesUnique == \A a, b \in Address :
  /\ server.connections[a] # None /\ server.connections[b] # None
  /\ server.connections[a].AuthorisedCookie = server.connections[b].AuthorisedCookie
  => a = b

\* The types, and what the addresses' connections are told apart by.
ConnectionsAgree == TypeOK /\ CookiesUnique

\* The time in which a connection is to be made: a late challenge that is of no
\* use may arrive first, is given up after MIN_COOKIE_LIFETIME, and then the
\* client begins again.
ConnectTime == MaxDelay + MIN_COOKIE_LIFETIME + HandshakeResendInterval + 1

\* "Every such connection attempt should eventually succeed/recover
\* automatically": a client connects within ConnectTime of the last thing that
\* went wrong, unless it crashed and its old connection is in the way.
ConnectsInTime ==
  client.CachedClientID = 0 /\ now - faultTime > ConnectTime =>
    client.AuthorisedCookie # None

=============================================================================
