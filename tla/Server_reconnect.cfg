SPECIFICATION FairSpec
CONSTANTS
  UserCalls = {"connect", "reconnect"}
  Late = FALSE
  MaxCalls = 2
  MaxFaults = 1
PROPERTIES
  ReconnectsInTheEnd
CHECK_DEADLOCK FALSE
