SPECIFICATION FairSpec
CONSTANTS
  BatchSize = 2
  Plans <- MCPlans
INVARIANTS
  IInv
  TableIsPrefix
  CauseIsReported
  SuccessIsComplete
  FailureIsClean
PROPERTIES
  ImplementsSequential
  Termination
