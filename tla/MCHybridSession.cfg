CONSTANTS
  Nation = {0, 1}
  None = 99
  NameOf <- MCNameOf
  MaxI64 = 3
  Caller = {1, 2}
  Tables <- MCTables
  Options <- MCOptions
  Calibrations <- MCCalibrations
  ScanTables <- MCScanTables
  ScanThreads = {1, 3}
SPECIFICATION PartsSpec
INVARIANTS SplitDoesNotShow NoTaskOutlivesExecute AutomaticSessionAnswers ScanIsExact NoWorkerOutlivesScan
PROPERTIES ExecuteReturns
CHECK_DEADLOCK FALSE
