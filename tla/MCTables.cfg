CONSTANTS
  Workers = {w1, w2}
  NumDistricts = 2
  Customers = {1}
  Items = {1}
  Baskets <- MCBaskets
  Amounts = {5}
  Loaded <- MCLoaded
  Undelivered <- MCUndelivered
  InitStock = 15
  MaxAttempts = 2
SPECIFICATION Spec
INVARIANTS
  TypeOK
  OrderIdsDense
  OrdersAreWhole
  OldestDelivered
  BalancesAddUp
  IncomeAddsUp
  StockAddsUp
PROPERTIES
  ImplementsOrderBook
SYMMETRY Symmetry
