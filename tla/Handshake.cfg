SPECIFICATION Spec
CONSTANTS
  None = None
  home = home
  away = away
  abroad = abroad
  Address <- Two
  FirstAddress = home
  ClientIDCount = 4
  SECRET_UPDATE_TIME = 3
  SECRET_UPDATE_TIME_VARIANCE = 1
  HandshakeResendInterval = 0
  RestartDelay = 2
  DualIPWindow = 0
  RestartHandshakeAckResendWindow = 2
  MaxDelay = 1
  StartTime = 6
  MaxTime = 12
  MaxFaults = 3
INVARIANTS
  CookieOutlivesChallenge
  ConnectionsAgree
  ConnectsInTime
PROPERTIES
  CompletesConnected
\* The time of the model is bounded: it stops when that is over.
CHECK_DEADLOCK FALSE
