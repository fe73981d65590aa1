SPECIFICATION FairSpec
CHECK_DEADLOCK FALSE
CONSTANTS
  Inputs <- MCInputs
  Sample <- MCSample
  BatchSize = 2
  NWorkers = 2
  BufferSizes = {0, 1}
INVARIANTS
  AddressIsCurrent
  ExportIsWhole
  IngestedOnce
  IngestCause
PROPERTY
  V1Ends
