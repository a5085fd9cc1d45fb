SPECIFICATION Spec
CONSTANTS
  Threads = {t1, t2}
  OrderIds = {o1, o2}
  Keys = {k1, k2}
  Kinds = {"submit", "simulate"}
  MaxRequests = 4
  MaxCrashes = 0
PROPERTY LedgerAppendOnly
CHECK_DEADLOCK FALSE
