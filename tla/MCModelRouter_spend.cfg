SPECIFICATION FairSpec
CONSTANTS
  d1 = d1
  fast = fast
  general = general
  embeddings = embeddings
  frontier = frontier
  speed = speed
  None = None
  Daemons <- OneDaemon
  Local <- LocalTiers
  Cloud <- CloudTiers
  Fallback <- Chain
  Substituted <- WithModel
  Cap = 4
  MaxCost = 2
  MaxCalls = 3
  MaxRuns = 4
  MaxOutside = 2
INVARIANTS
  TypeOK
  RunningTotal
  CapHolds
PROPERTIES
  CallEnds
