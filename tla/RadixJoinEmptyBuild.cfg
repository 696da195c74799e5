SPECIFICATION JoinsSpec
CONSTANTS
  R <- MCR
  S <- MCS
  BucketSize = 2
  Timing = TRUE
  Inputs <- MCEmptyInputs
  FanOut = 2
  NThreads = 2
  NNodes = 1
  MemoryNodes = {0}
  SkewLimit = 1
  LargeLimit = 1
  None = None
  Relations <- MCRelations
  LineRelations <- MCLineRelations
  Shift = 1
  Bits = 2
  Padding = 2
  LineTuples = 2
CHECK_DEADLOCK FALSE
INVARIANTS RadixIsExact
