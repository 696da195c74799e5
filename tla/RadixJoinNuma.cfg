SPECIFICATION JoinsSpec
CONSTANTS
  R <- MCR
  S <- MCS
  BucketSize = 2
  Timing = TRUE
  Inputs <- MCDefaultInputs
  FanOut = 2
  NThreads = 2
  NNodes = 4
  MemoryNodes = {0, 1, 2, 3}
  SkewLimit = 2
  LargeLimit = 1
  None = None
  Relations <- MCRelations
  LineRelations <- MCLineRelations
  Shift = 1
  Bits = 2
  Padding = 2
  LineTuples = 2
CHECK_DEADLOCK FALSE
INVARIANTS RadixIsExact
