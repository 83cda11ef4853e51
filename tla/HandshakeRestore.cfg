SPECIFICATION Spec
CONSTANTS
  None = None
  home = home
  away = away
  abroad = abroad
  Address <- Three
  FirstAddress = home
  ClientIDCount = 5
  SECRET_UPDATE_TIME = 1
  SECRET_UPDATE_TIME_VARIANCE = 0
  HandshakeResendInterval = 0
  RestartDelay = 0
  DualIPWindow = 0
  RestartHandshakeAckResendWindow = 3
  MaxDelay = 0
  StartTime = 2
  MaxTime = 5
  MaxFaults = 4
PROPERTIES
  RestoresConnection
CHECK_DEADLOCK FALSE
