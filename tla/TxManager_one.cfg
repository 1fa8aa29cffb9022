SPECIFICATION FairSpec
CONSTANTS
  Txs = {t1}
  FillTxs = {}
  NoTx = NoTx
  Fees = {f1, f2}
  TooHigh = TooHigh
  ExplicitSeqs = {}
  Codes = {"tes", "failed", "tefPAST_SEQ", "telINSUF_FEE_P"}
  NumServers = 1
  MaxAttempts = 1
  HistoryLimit = 1
  MaxLedger = 2
  MaxLoads = 1
  MaxDrops = 1
INVARIANTS
  TypeOK
  SuccessIsApplied
  ReportedOnce
  QueueIsLive
  SingleStream
  IdsTracked
PROPERTIES
  FinalIsQuiet
  Resolves
  ImplementsLifecycle
