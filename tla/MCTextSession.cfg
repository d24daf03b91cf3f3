CONSTANTS
  Buffer = 2
  MaxPieces = 3
  MaxCalls = 3
SPECIFICATION Spec
INVARIANTS
  TypeOK
  AnswerIsWhole
PROPERTIES
  PingLeavesNothing
  ImplementsSession
