SPECIFICATION RestartSpec
CONSTANTS
  Txs = {t1}
  FillTxs = {}
  NoTx = NoTx
  Fees = {f1}
  TooHigh = TooHigh
  ExplicitSeqs = {}
  Codes = {"tefPAST_SEQ"}
  NumServers = 1
  MaxAttempts = 1
  HistoryLimit = 1
  MaxLedger = 2
  MaxLoads = 4
  MaxRestarts = 1
  MaxDrops = 0
INVARIANTS
  AtMostOnce
