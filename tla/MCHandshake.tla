---------------------------- MODULE MCHandshake ----------------------------
(* Small instances of Handshake: two addresses, and three. *)
EXTENDS Handshake

CONSTANTS home, away, abroad

Two == {home, away}
Three == {home, away, abroad}
=============================================================================
