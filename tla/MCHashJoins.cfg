SPECIFICATION JoinsSpec
CONSTANTS
  R <- MCR
  S <- MCS
  BucketSize = 2
  Timing = TRUE
  Inputs <- MCInputs
  FanOut = 2
  NThreads = 3
  NNodes = 2
  MemoryNodes = {0, 1}
  SkewLimit = 1
  LargeLimit = 1
  None = None
  Relations <- MCRelations
  LineRelations <- MCLineRelations
  Shift = 1
  Bits = 2
  Padding = 2
  LineTuples = 2
CHECK_DEADLOCK FALSE
INVARIANTS NoProbeOfFreed JoinIsExact RadixIsExact MatchesAreKept PassIsExact LinesAreExact
PROPERTIES JoinsReturn
