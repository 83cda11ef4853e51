SPECIFICATION FairSpec
CONSTANTS
  RELIABLE_BUFFER = 16
  MAX_CHSEQUENCE = 32
  PartialBunchReliableThreshold = 3
  InitReliable = 30
  MaxSingleBunchSize = 2
  PacketCapacity = 3
  ReliableSizes <- Sizes14
  PropertySizes <- Sizes1
  ClosingSizes <- Sizes02
  FlushWaits = FALSE
  MaxOpenings = 2
  MaxMessages = 4
  MaxLost = 1
INVARIANTS
  OpenAckedIsTrue
  CleanedUpWhenDone
PROPERTIES
  StreamSpec
  CloseCompletes
\* The messages and the openings of the model are bounded: it stops when they are used up.
CHECK_DEADLOCK FALSE
