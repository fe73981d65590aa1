SPECIFICATION StdinRunSpec
CONSTANTS
  BatchSize = 2
  Inputs <- MCInputs
  MaxID = 9
  PDFiles <- MCPDFiles
  FirstIDs <- MCFirstIDs
PROPERTIES
  InterruptEnds
