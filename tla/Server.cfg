SPECIFICATION FairSpec
CONSTANTS
  UserCalls = {"connect", "disconnect", "forceReconnect", "reconnect"}
  Late = FALSE
  MaxCalls = 3
  MaxFaults = 2
INVARIANTS
  TypeOK
  ActivityWatched
  OnlineMeansOpen
  NotStranded
  StaysDown
PROPERTIES
  OnlineInTheEnd
CHECK_DEADLOCK FALSE
