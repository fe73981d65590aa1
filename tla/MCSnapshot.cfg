SPECIFICATION FairSpec
CONSTANTS
  Agents = {a1, a2, a3}
  SSHParallel = 2
INVARIANTS
  SnapInv
  SnapshotIsWhole
  StatusIsComplete
PROPERTIES
  Termination
