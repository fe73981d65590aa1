SPECIFICATION Spec
CONSTANTS
  FIEs <- MCFIEs
  PDs <- MCPDs
  PDOf <- MCPDOf
  Inputs <- MCInputs
  MaxGrowth = 2
  MaxCopies = 2
INVARIANTS
  SuccessIsExact
  StrayQueryWasMissed
PROPERTIES
  DropAwaitsKill
