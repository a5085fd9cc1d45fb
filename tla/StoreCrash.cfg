SPECIFICATION Spec
CONSTANTS
  Threads = {t1}
  OrderIds = {o1, o2}
  Keys = {k1, k2}
  Kinds = {"submit", "simulate", "cancel", "broker"}
  MaxRequests = 7
  MaxCrashes = 2
SYMMETRY IdSymmetry
INVARIANTS
  EntriesInOrder
  StatusBeforeFill
  NoDoubleFill
  UnsettledAreCrashes
CHECK_DEADLOCK FALSE
