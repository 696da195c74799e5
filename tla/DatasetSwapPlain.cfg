SPECIFICATION Spec
CONSTANTS
  Preparers = {p1, p2}
  Replacing = {}
  NTables = 1
  Failing = {"make", "write", "rename"}
  MaxFailures = 2
  None = None
CHECK_DEADLOCK FALSE
PROPERTIES NonDestructive
