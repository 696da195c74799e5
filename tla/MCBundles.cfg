CONSTANTS
  None = None
  r1 = r1
  r2 = r2
  Runners = {r1, r2}
  Profiles = {"sf1-copy", "sf1-hybrid-auto"}
  Plan <- MCPlan
  Engine <- MCEngine
  AutoSetup <- MCAutoSetup
  Observable = {0, 1, 2}
  One = 3
  FixedRatio = 2
  MaxFaults = 1
  MaxRebuilds = 1
  MaxUpgrades = 1
  Results <- MCResults
  Matrices <- MCMatrices
  Manifests <- MCManifests
  Oracles <- MCOracles
  Reports <- MCReports
  Formal <- MCFormal
  Torn = Torn
  Plans <- MCPlans
  Setting <- MCSetting
  MaxEdits = 2
  MaxCrashes = 1
SPECIFICATION BundlesSpec
INVARIANTS FrozenIsGenuine CompletedIsCollected FinalizedStands SessionsDiffer
PROPERTIES CollectedIsFrozen LeftoversDoNotMatter
SYMMETRY Symmetry
CHECK_DEADLOCK FALSE
