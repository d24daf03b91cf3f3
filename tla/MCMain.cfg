CONSTANTS
  Districts <- MCDistricts
  Customers = {1}
  Baskets <- MCBaskets
  Amounts = {5}
  Loaded <- MCLoaded
  Undelivered <- MCUndelivered
  MaxTxns = 2
  MaxFaults = 2
  MaxRuns = 2
  Requests <- MCRequests
SPECIFICATION Spec
INVARIANTS
  TypeOK
  DoneMeansLoaded
  PassMeansPristine
  AlarmsMean
PROPERTIES
  BenchmarkBeginsPristine
