SPECIFICATION Spec
CONSTANTS
  Accounts = {a1}
  Deployments = {d1}
  OrderIds = {o1, o2, o3}
  Keys = {k1, k2, k3}
  TradedSides <- BuySell
  OrderTerms <- EveryType
  Quantities = {1}
  Prices <- TwoPrices
  InitialCash = 100000
  MaxNotional = 60000
  MaxGrossPercent = 100
  MaxPending = 2
  ShortAllowed = {d1}
  LiquidityCap = 1000
  CostBps = 5
  FeeDivisor = 2000
  BrokerEnabled = FALSE
  BrokerPrice = 100
  BrokerFee = 1
SYMMETRY IdKeySymmetry
INVARIANTS
  PendingOrdersBounded
  BooksAreFills
  CostBasisBalances
CHECK_DEADLOCK FALSE
