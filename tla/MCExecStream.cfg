CONSTANTS
  Responses <- MCResponses
  MaxCalls = 3
SPECIFICATION Spec
INVARIANTS
  TypeOK
  AnswersOwnCall
  AnswerIsOneResponse
PROPERTIES
  SendsAlone
  ImplementsSession
