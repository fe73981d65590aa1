SPECIFICATION FileSpec
CONSTANTS
  Runs = {1, 2}
  Total <- MCTotal
  Nobody = 0
  Other = 9
INVARIANTS
  FileInv
  OutputIsWhole
  TmpIsCleaned
PROPERTIES
  SuccessIsOwn
  KnownOutputIsKept
