SPECIFICATION FairSpec
CONSTANTS
  g1 = g1
  g2 = g2
  Subgoals <- OneSubgoal
  Kinds <- AllKinds
  MaxTasks = 2
  MaxAttempts = 1
  HeuristicEvery = 1
  CritiqueMultiple = 2
  Scopes <- TwoScopes
  LowProductive = 0
  MaxPlans = 3
  TimeCapped = TRUE
  MaxTemplate = 1
  MaxFollowUps = 1
  MaxRows = 2
  MaxRuns = 1
  MaxDrops = 1
INVARIANTS
  DrainsBounded
PROPERTIES
  OutcomeHonest
  RunEnds
