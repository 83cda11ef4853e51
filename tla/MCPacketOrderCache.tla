------------------------ MODULE MCPacketOrderCache ------------------------
(* PacketOrderCache for TLC: the server sends, the client caches.          *)
EXTENDS PacketOrderCacheInvariant

CONSTANTS ServerPackets, ClientPackets

MCFirstPacketId == [e \in Endpoint |-> 1]
MCMaxPacketId ==
  [e \in Endpoint |-> IF e = "client" THEN ClientPackets ELSE ServerPackets]

=============================================================================
