CONSTANTS
  Workers = {w1}
  TxnPerThread = 1
  Mix <- MCTypes
  MaxAborted = 1
  OlCnt = 1
  Districts = 2
  Faults <- MCFaults
  MaxFaults = 2
  MaxLate = 1
SPECIFICATION Spec
PROPERTIES
  OneOutstanding
