SPECIFICATION ResultsSpec
CONSTANTS
  Matrix <- MCCppRunner
  Warmup = 1
  Repeat = 1
  Hashes = {h1, h2}
  ExpectedHash = h1
  NoHash = none
  None = None
  One <- MCOne
  MatrixFile <- MCMatrixFile
  HybridRuns <- MCHybridRuns
CHECK_DEADLOCK FALSE
INVARIANTS OkMeansGenuine
