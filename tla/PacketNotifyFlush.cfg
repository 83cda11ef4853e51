SPECIFICATION Spec
CONSTANTS
  SeqNumberCount = 32
  MaxSequenceHistoryLength = 2
  BitsPerWord = 1
  FirstPacketId <- MCFirstPacketId
  MaxPacketId <- Even
  MaxInFlight = 5
  MaxPacketAge = 3
INVARIANTS
  FlushCanEnd
\* The packet numbers of the model are bounded: it stops when they are used up.
CHECK_DEADLOCK FALSE
