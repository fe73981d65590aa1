SPECIFICATION FairShownSpec
CONSTANTS
  Files <- MCFiles
INVARIANTS
  ScreenIsClean
  FrameIsOfTask
  TearsGoForward
  FinalIsExact
PROPERTIES
  DisplayEnds
