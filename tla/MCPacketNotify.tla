--------------------------- MODULE MCPacketNotify ---------------------------
(* Small instances of PacketNotify: how many packets each side sends.      *)
EXTENDS PacketNotifyInvariant

MCFirstPacketId == [client |-> 6, server |-> 7]

\* Both send; modulo 8, the numbers of both wrap around.
Wrap == [client |-> 10, server |-> 9]

\* Three packets from each let both wait for a flush; the client has one more.
Even == [client |-> 9, server |-> 9]
=============================================================================
