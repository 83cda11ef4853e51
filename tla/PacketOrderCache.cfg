SPECIFICATION CacheSpec
CONSTANTS
  SeqNumberCount = 32
  MaxSequenceHistoryLength = 4
  BitsPerWord = 4
  FirstPacketId <- MCFirstPacketId
  MaxPacketId <- MCMaxPacketId
  MaxInFlight = 8
  MaxPacketAge = 16
  ServerPackets = 7
  ClientPackets = 0
  Capacity = 4
  PacketOrderMaxMissingPackets = 2
  EnableThreshold = 1
INVARIANTS
  CacheAgrees
  NothingDropped
PROPERTIES
  FlushEnds
\* The packet numbers of the model are bounded: it stops when they are used up.
CHECK_DEADLOCK FALSE
