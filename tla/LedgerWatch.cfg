SPECIFICATION FairSpec
CONSTANTS
  Servers = {s1}
  Txs = {t1}
  MaxLedger = 12
  MaxSkips = 1
  MaxDrops = 2
  MaxFlaps = 2
  MaxSends = 2
INVARIANTS
  TypeOK
  WatchRestored
  ToldOnce
  LostIsTold
PROPERTIES
  LostInTheEnd
CHECK_DEADLOCK FALSE
