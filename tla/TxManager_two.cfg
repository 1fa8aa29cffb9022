SPECIFICATION Spec
CONSTANTS
  Txs = {t1, t2}
  FillTxs = {}
  NoTx = NoTx
  Fees = {f1}
  TooHigh = TooHigh
  ExplicitSeqs = {}
  Codes = {"tefPAST_SEQ", "rejected", "tooBusy", "error"}
  NumServers = 1
  MaxAttempts = 1
  HistoryLimit = 1
  MaxLedger = 2
  MaxLoads = 4
  MaxDrops = 0
INVARIANTS
  AtMostOnce
  HeardIsFinal
SYMMETRY UserSymmetry
