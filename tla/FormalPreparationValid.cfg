SPECIFICATION Spec
CONSTANTS
  NTables = 2
  None = None
INVARIANTS DoneMeansValid
