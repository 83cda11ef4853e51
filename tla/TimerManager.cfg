SPECIFICATION FairSpec
CONSTANTS
  Index <- MCIndex
  MaxSerial = 2
  MaxTime = 4
  DeltaTimes = {1, 2}
  Object = {o1}
  Holder = {v1, v2}
  TimerKinds <- MCKinds
INVARIANTS
  ManagerAgrees
  TimesAreRight
PROPERTIES
  CalledWhenDue
  NotCalledAgain
  HeapStaysOrdered
  TickIsFinite
\* The model's time and timers are bounded: it stops when they are used up.
CHECK_DEADLOCK FALSE
