SPECIFICATION Spec
CONSTANTS
  RELIABLE_BUFFER = 4
  MAX_CHSEQUENCE = 8
  PartialBunchReliableThreshold = 5
  InitReliable = 6
  MaxSingleBunchSize = 1
  PacketCapacity = 1
  ReliableSizes <- Sizes1
  PropertySizes <- NoSizes
  ClosingSizes <- Sizes0
  FlushWaits = FALSE
  MaxOpenings = 1
  MaxMessages = 3
  MaxLost = 4
INVARIANTS
  CleanedUpWhenDone
\* The messages and the openings of the model are bounded: it stops when they are used up.
CHECK_DEADLOCK FALSE
