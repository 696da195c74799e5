CONSTANTS
  Caller = {c1, c2}
  NoCaller = NoCaller
  Mode = "managed"
  RowCount = 1
  Capacity = 1
  LateFault = FALSE
  MaxFaults = 1
SPECIFICATION Spec
INVARIANT ManagedRequestPrefetches
CHECK_DEADLOCK FALSE
