SPECIFICATION FairSpec
CONSTANTS
  Configs <- Kubernetes
  FailureThreshold = 2
  SuccessThreshold = 2
  StallLimit = 1
  MaxRuns = 2
  MaxTurns = 1
INVARIANTS ReadyEarned HealthyTruthful
PROPERTIES StuckIsEnded FoundHealthy
CHECK_DEADLOCK FALSE
