SPECIFICATION Spec
CONSTANTS
  eurusd = eurusd
  gbpusd = gbpusd
  MaxEntries = 3
  Symbols = {eurusd, gbpusd}
  SymbolOf <- Pairs
  Size = 2
  DailyCap = 2
  MaxTrades = 3
  MaxPerSymbol = 1
  MaxPositions = 1
  MaxOrders = 2
  MaxRestarts = 1
  MaxDays = 1
INVARIANTS
  EntriesPerDay
  
  UncoveredIsExplained
  ExposureBounded
PROPERTIES
  DisabledPlacesNothing
  CyclesEnd
