SPECIFICATION OrphanSpec
CONSTANTS
  Agents = {a1, a2, a3}
  SSHParallel = 2
PROPERTIES
  LookupsEnd
