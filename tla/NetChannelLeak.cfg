SPECIFICATION FairSpec
CONSTANTS
  RELIABLE_BUFFER = 8
  MAX_CHSEQUENCE = 16
  PartialBunchReliableThreshold = 3
  InitReliable = 14
  MaxSingleBunchSize = 1
  PacketCapacity = 2
  ReliableSizes <- Sizes1
  PropertySizes <- NoSizes
  ClosingSizes <- Sizes0
  FlushWaits = TRUE
  MaxOpenings = 1
  MaxMessages = 1
  MaxLost = 0
PROPERTIES
  CloseCompletes
\* The messages and the openings of the model are bounded: it stops when they are used up.
CHECK_DEADLOCK FALSE
