SPECIFICATION FairSpec
CONSTANTS
  RELIABLE_BUFFER = 4
  MAX_CHSEQUENCE = 8
  PartialBunchReliableThreshold = 3
  InitReliable = 6
  MaxSingleBunchSize = 1
  PacketCapacity = 2
  ReliableSizes <- Sizes12
  PropertySizes <- Sizes23
  ClosingSizes <- NoSizes
  FlushWaits = TRUE
  MaxOpenings = 1
  MaxMessages = 4
  MaxLost = 2
INVARIANTS
  ClientAgrees
  UpdatesInOrder
  AckedMeansProcessed
PROPERTIES
  EventuallyReceived
\* The messages and the openings of the model are bounded: it stops when they are used up.
CHECK_DEADLOCK FALSE
