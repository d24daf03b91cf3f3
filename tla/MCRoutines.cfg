CONSTANTS
  Grain = 12
  Weights = {0, 1, 3}
  MaxSamples = 250
  Scales = {1, 2, 3}
  Chars <- MCChars
  Sqls <- MCSqls
  Params <- MCParams
  MaxParams = 3
  MaxRows = 2
SPECIFICATION Spec
INVARIANTS
  MixIsAsAsked
  PercentilesAreClose
  LoadIsConsistent
  RemoteIsElsewhere
  ParametersArrive
  RowsAreRows
