--------------------------- MODULE PacketDelivery ---------------------------
(***************************************************************************)
(* What the packet layer of a connection promises to the layers above it,  *)
(* whatever the network does.  Every packet sent gets one fate at the      *)
(* receiver: it is accepted, or it is lost for good because the receiver   *)
(* has gone past it.  The sender is told the fate of every packet once, in *)
(* the order of sending, and is told the truth: an acknowledgement for a   *)
(* packet the receiver accepted, a negative one for every other packet.    *)
(***************************************************************************)
EXTENDS Integers

CONSTANT FirstPacketId    \* FirstPacketId[e]: the first packet id e sends

Endpoint == {"client", "server"}
Peer(e) == IF e = "client" THEN "server" ELSE "client"

VARIABLES
  nextId,    \* nextId[e]: the id of the next packet e sends
  settled,   \* settled[e]: packets of e up to this id have their fate
  accepted,  \* accepted[e]: packets of e that the other side accepted
  told,      \* told[e]: e was told the fate of its packets up to this id
  acks,      \* acks[e]: packets e was told are accepted
  naks       \* naks[e]: packets e was told are lost

vars == <<nextId, settled, accepted, told, acks, naks>>

Init ==
  /\ nextId = FirstPacketId
  /\ settled = [e \in Endpoint |-> FirstPacketId[e] - 1]
  /\ accepted = [e \in Endpoint |-> {}]
  /\ told = [e \in Endpoint |-> FirstPacketId[e] - 1]
  /\ acks = [e \in Endpoint |-> {}]
  /\ naks = [e \in Endpoint |-> {}]

Send(e) ==
  /\ nextId' = [nextId EXCEPT ![e] = @ + 1]
  /\ UNCHANGED <<settled, accepted, told, acks, naks>>

\* The receiver of e's packets passes over those up to id: they are lost.
Lose(e, id) ==
  /\ id \in settled[e] .. nextId[e] - 1
  /\ settled' = [settled EXCEPT ![e] = id]
  /\ UNCHANGED accepted

\* The receiver of e's packets accepts id; those before it are lost.
Accept(e, id) ==
  /\ id \in settled[e] + 1 .. nextId[e] - 1
  /\ settled' = [settled EXCEPT ![e] = id]
  /\ accepted' = [accepted EXCEPT ![e] = @ \cup {id}]
  /\ UNCHANGED <<nextId, told, acks, naks>>

\* e learns the fate of its packets up to id.
Notify(e, id) ==
  /\ id \in told[e] .. settled[e]
  /\ told' = [told EXCEPT ![e] = id]
  /\ LET news == told[e] + 1 .. id IN
       /\ acks' = [acks EXCEPT ![e] = @ \cup (news \cap accepted[e])]
       /\ naks' = [naks EXCEPT ![e] = @ \cup (news \ accepted[e])]

\* A packet arriving at e tells e the fate of its own packets, and may make
\* e pass over packets of its peer.
Learn(e) ==
  /\ \E id \in told[e] .. settled[e] : Notify(e, id)
  /\ \E id \in settled[Peer(e)] .. nextId[Peer(e)] - 1 : Lose(Peer(e), id)
  /\ UNCHANGED nextId

\* The receiver gives up on packets of e without accepting one (NakSeq).
Reject(e) ==
  /\ \E id \in settled[e] .. nextId[e] - 1 : Lose(e, id)
  /\ UNCHANGED <<nextId, told, acks, naks>>

Next == \E e \in Endpoint :
  \/ Send(e)
  \/ \E id \in settled[e] + 1 .. nextId[e] - 1 : Accept(e, id)
  \/ Learn(e)
  \/ Reject(e)

Spec == Init /\ [][Next]_vars

=============================================================================
