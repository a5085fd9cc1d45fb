SPECIFICATION Spec
CONSTANTS
  Callers = {scheduler, manager}
  Entries = {scheduler}
  EntryKeys = {e1, e2, e3}
  ManagementKeys = {m1}
  Keys = {e1, e2, e3, m1}
  KeysOf <- OwnKeys
  NoKey = NoKey
  MaxOpen = 1
  MaxLost = 2
SYMMETRY KeySymmetry
INVARIANTS
  SentAtMostOnce
  JournalIsHonest
PROPERTIES
  RefinesRequests
CHECK_DEADLOCK FALSE
