SPECIFICATION FairSpec
CONSTANTS
  NumOffers = 3
  FirstOffers = {1, 3}
  Kinds = {"book", "account"}
  MaxListens = 3
  MaxTxs = 2
  MaxFaults = 1
INVARIANTS
  BookIsTop
  SubscriptionsAgree
PROPERTIES
  BookSyncs
CHECK_DEADLOCK FALSE
