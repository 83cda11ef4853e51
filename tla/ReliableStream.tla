--------------------------- MODULE ReliableStream ---------------------------
(***************************************************************************)
(* What a channel promises about its reliable bunches: what the other side *)
(* has handled is a prefix of what was sent, so nothing is missing, handled *)
(* twice, or handled out of order.                                         *)
(***************************************************************************)
EXTENDS Sequences, SequencesExt

VARIABLES sent, received

vars == <<sent, received>>

Init == sent = << >> /\ received = << >>

Send == IsStrictPrefix(sent, sent') /\ UNCHANGED received

Receive ==
  /\ IsStrictPrefix(received, received')
  /\ IsPrefix(received', sent)
  /\ UNCHANGED sent

Next == Send \/ Receive

Spec == Init /\ [][Next]_vars

=============================================================================
