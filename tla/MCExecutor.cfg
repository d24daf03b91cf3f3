CONSTANTS
  Workers = {w1, w2}
  TxnPerThread = 2
  Mix <- MCMix
  MaxAborted = 1
SPECIFICATION ExecFairSpec
INVARIANTS
  ExecTypeOK
  ReportAddsUp
  QuotaMet
PROPERTIES
  JoinedIsFinal
  InterruptStops
