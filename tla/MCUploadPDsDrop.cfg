SPECIFICATION RunSpec
CONSTANTS
  BatchSize = 2
  Inputs <- MCInputs
  MaxID = 9
  PDFiles <- MCPDFiles
  FirstIDs <- MCFirstIDs
INVARIANTS
  FailureDropsTable
