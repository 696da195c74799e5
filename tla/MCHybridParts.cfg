CONSTANTS
  Caller = {c1, c2}
  NoCaller = NoCaller
  Mode = "copy"
  RowCount = 2
  Capacity = 2
  LateFault = TRUE
  MaxFaults = 2
  None = 99
  PlanLengths <- MCPlanLengths
  PlanRatios <- MCPlanRatios
  PlanCalibrations <- MCPlanCalibrations
  Databases <- MCDatabases
  Region = "ASIA"
  Start = 1
  End = 2
  MaxDirectKey = 1
  MaxI64 = 3
SPECIFICATION PartsSpec
INVARIANTS ResultIsExact SlicesTileTheTable PredictionIsOptimal PlanIsTheQuery EnginesAgree
PROPERTY ImplementsEndpoint
CHECK_DEADLOCK FALSE
