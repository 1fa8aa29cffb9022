SPECIFICATION RestartSpec
CONSTANTS
  Txs = {t1,g1}
  FillTxs = {g1}
  NoTx = NoTx
  Fees = {f1}
  TooHigh = TooHigh
  ExplicitSeqs = {2}
  Codes = {"terRETRY"}
  NumServers = 1
  MaxAttempts = 1
  HistoryLimit = 1
  MaxLedger = 2
  MaxLoads = 1
  MaxDrops = 0
  MaxRestarts = 1
INVARIANTS
  SuccessIsApplied
