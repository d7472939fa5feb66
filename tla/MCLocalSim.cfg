SPECIFICATION Spec
CONSTANTS
  MaxOrders = 3
  NSymbols = 1
  RateNum = 1
  RateDen = 2
  MinCommission = 2
  InitCash = 28
  InitQty = 2
  InitCost = 24
  MaxSingleOrderValue = 30
  MaxDailyLoss = 20
  MaxDailyOrders = 2
  UseRatio = TRUE
  RatioNum = 9
  RatioDen = 10
  DevNum = 1
  DevDen = 2
  Intents <- MCIntents
  Quotes <- MCQuotes
CHECK_DEADLOCK FALSE
INVARIANTS
  TypeOK FrozenBacksOpenBuys NoOverdraft BooksBalance RiskRulesHold
PROPERTY LifecycleSpec
