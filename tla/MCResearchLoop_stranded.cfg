SPECIFICATION Spec
CONSTANTS
  g1 = g1
  g2 = g2
  Subgoals <- OneSubgoal
  Kinds <- ResearchOnly
  MaxTasks = 2
  MaxAttempts = 1
  HeuristicEvery = 1
  CritiqueMultiple = 2
  Scopes <- OneScope
  LowProductive = 0
  MaxPlans = 2
  TimeCapped = FALSE
  MaxTemplate = 1
  MaxFollowUps = 1
  MaxRows = 2
  MaxRuns = 2
  MaxDrops = 0
INVARIANTS
  NoneStranded
