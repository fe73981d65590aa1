SPECIFICATION TableSpec
CONSTANTS
  Runs = {r1, r2, r3}
  Nobody = Nobody
  Earlier = Earlier
SYMMETRY RunSymmetry
INVARIANTS
  TableInv
  AppendedOnlyIfAsked
PROPERTIES
  KeptOnceSettled
