SPECIFICATION MergeSpec
CONSTANTS
  TicksPerSecond = 2
  PDs = {1, 2}
  Dirs <- MCDirs
  Filters <- MCFilters
  Offsets = {0, 1, 2, 3, 4}
  Limits <- MCLimits
  Fie <- MCFie
  MaxFaults = 2
INVARIANTS
  SelectionIsExact
  LayoutIsExact
  MergeAgreesWithUpload
  VerifyIsExact
