CONSTANTS
  Workers = {w1}
  TxnPerThread = 1
  Mix <- MCTypes
  MaxAborted = 1
  OlCnt = 2
  Districts = 3
  Faults <- MCFaults
  MaxFaults = 3
  MaxLate = 2
SPECIFICATION Spec
INVARIANTS
  TypeOK
  CountedIsDurable
  AttemptIsAtomic
  FailedLeavesNothing
  NothingLeftOpen
