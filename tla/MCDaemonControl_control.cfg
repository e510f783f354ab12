SPECIFICATION FairSpec
CONSTANTS
  p1 = p1
  p2 = p2
  c1 = c1
  c2 = c2
  None = None
  Procs <- TwoProcs
  Clients <- TwoClients
INVARIANTS
  TypeOK
  OneWorker
  PidNamesDaemon
  StopKept
PROPERTIES
  StopEnds
  LeaseKept
