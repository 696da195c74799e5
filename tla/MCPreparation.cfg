SPECIFICATION MCSpec
CONSTANTS
  p1 = p1
  p2 = p2
  Preparers = {p1, p2}
  Replacing = {p1, p2}
  NTables = 2
  Failing = {"make", "write", "rename"}
  MaxFailures = 3
  None = None
CHECK_DEADLOCK FALSE
INVARIANTS OutputIsWhole
PROPERTIES DatasetSurvives SuccessStands FinishedStagesStay
