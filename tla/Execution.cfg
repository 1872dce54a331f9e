CONSTANTS
  SYMBOLS <- MCSymbols
  STRATEGY = "orb"
  Bars <- AllBars
  Emas = {200}
  Entry = 100
  Stops = {84, 86, 96}
  Target = 117
  Slip = 1
  Commission = 1
  MaxRisk = 14
  LossLimit = 20
  MaxDrawdown = 100
  ProfitTarget = 30
  MaxConcurrent = 3
  Deposit = 1000
  MaxBars = 1
  MaxOrders = 2
  MaxDay = 0
  MaxFaults = 1
SPECIFICATION FairSpec
INVARIANTS
  BooksBalance
  DayLossBounded
PROPERTIES
  ImplementsTradeBook
  ExitsBooked
