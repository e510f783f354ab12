SPECIFICATION Spec
CONSTANTS
  g1 = g1
  g2 = g2
  Subgoals <- OneSubgoal
  Kinds <- ResearchAndCritique
  MaxTasks = 2
  MaxAttempts = 2
  HeuristicEvery = 2
  CritiqueMultiple = 1
  Scopes <- OneScope
  LowProductive = 0
  MaxPlans = 2
  TimeCapped = FALSE
  MaxTemplate = 1
  MaxFollowUps = 1
  MaxRows = 3
  MaxRuns = 2
  MaxDrops = 0
INVARIANTS
  TypeOK
  OneInHand
  DoneCountsEnded
  StopHeeded
PROPERTIES
  QueueKept
