SPECIFICATION Spec
CONSTANTS
  Accounts = {a1}
  Deployments = {d1}
  OrderIds = {o1, o2, o3}
  Keys = {k1, k2}
  TradedSides <- BuySell
  OrderTerms <- MarketAndLimit
  Quantities = {2}
  Prices <- TwoPrices
  InitialCash = 100000
  MaxNotional = 30000
  MaxGrossPercent = 100
  MaxPending = 2
  ShortAllowed = {}
  LiquidityCap = 1
  CostBps = 5
  FeeDivisor = 2000
  BrokerEnabled = TRUE
  BrokerPrice = 100
  BrokerFee = 1
SYMMETRY IdKeySymmetry
INVARIANTS
  TypeOK
  AtMostOneExecution
  OrdersMatchFills
  OneLiveOrderPerKey
  AccountFollowsLedger
PROPERTIES
  TerminalIsFinal
  RefinesLifecycle
CHECK_DEADLOCK FALSE
