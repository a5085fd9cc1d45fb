SPECIFICATION Spec
CONSTANTS
  x = x
  MaxOrders = 2
  Symbols = {x}
  Kinds <- Ordered
  Prices = {0, 1, 2}
  Slip = 10
  Fee = 10
  Capital = 3
  QueueSize = 2
  MaxTicks = 3
  MaxFailures = 1
  MaxRestarts = 1
INVARIANTS
  TypeOK
  BooksBalance
  DecidedOnce
  ReachedIsHandled
PROPERTIES
  ReachedIsDecided
CHECK_DEADLOCK FALSE
