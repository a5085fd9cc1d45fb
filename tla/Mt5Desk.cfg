SPECIFICATION DeskSpec
CONSTANTS
  Callers = {p1, p2}
  Entries = {p1, p2}
  EntryKeys = {e1, e2}
  ManagementKeys = {}
  Keys = {e1, e2}
  KeysOf <- OwnKeys
  NoKey = NoKey
  MaxOpen = 1
  MaxLost = 1
  NoOwner = NoOwner
  Gone = Gone
  Common = Common
  LeaseCandles = 1
  MaxCandles = 3
  OverlapCandles = {2}
  SwitchCandles = {2}
SYMMETRY Symmetries
INVARIANTS
  OneScheduler
  OneEntryPerCandle
  PositionsBounded
PROPERTIES
  StopHolds
  StopIsKept
CHECK_DEADLOCK FALSE
