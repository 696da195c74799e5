CONSTANTS
  None = None
  r1 = r1
  r2 = r2
  Runners = {r1}
  Profiles = {"sf1-copy", "sf1-hybrid-auto"}
  Plan <- MCPlan
  Engine <- MCEngine
  AutoSetup <- MCAutoSetup
  Observable = {1}
  One = 3
  FixedRatio = 2
  MaxFaults = 0
  MaxRebuilds = 0
  MaxUpgrades = 0
  Results <- MCResults
  Matrices <- MCMatrices
  Manifests <- MCManifests
  Oracles <- MCOracles
  Reports <- MCReports
  Formal <- MCFormal
  Torn = Torn
  Plans <- MCPlans
  Setting <- MCSetting
  MaxEdits = 0
  MaxCrashes = 0
SPECIFICATION BundlesSpec
INVARIANT SuccessAudits
CHECK_DEADLOCK FALSE
