SPECIFICATION ExecutorSpec
CONSTANTS
  MaxOrders = 9
  NSymbols = 1
  RateNum = 1
  RateDen = 2
  MinCommission = 2
  InitCash = 28
  InitQty = 2
  InitCost = 24
  MaxSingleOrderValue = 30
  MaxDailyLoss = 20
  MaxDailyOrders = 9
  UseRatio = TRUE
  RatioNum = 9
  RatioDen = 10
  DevNum = 1
  DevDen = 2
  Jobs = 3
  Workers = 2
  Proposals <- AllProposals
CHECK_DEADLOCK FALSE
INVARIANTS
  CommittedBooks
PROPERTIES
  ExecutionsEnd
