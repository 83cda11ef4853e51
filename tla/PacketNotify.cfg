SPECIFICATION Spec
CONSTANTS
  SeqNumberCount = 8
  MaxSequenceHistoryLength = 2
  BitsPerWord = 1
  FirstPacketId <- MCFirstPacketId
  MaxPacketId <- Wrap
  MaxInFlight = 2
  MaxPacketAge = 4
INVARIANTS
  CountersAgree
  AckRecordInFlight
  AcksStayInHistory
  IInv
  NotificationsAreTrue
PROPERTIES
  DeliverySpec
\* The packet numbers of the model are bounded: it stops when they are used up.
CHECK_DEADLOCK FALSE
