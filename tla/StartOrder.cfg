SPECIFICATION FairSpec
CONSTANTS
  N = 3
  MaxRuns = 2
  Layouts <- SomeLayouts
  Hands = {3}
INVARIANTS DependenciesMet NoLostWakeup NoneLeftBehind
PROPERTIES DependentsGoneFirst ShutdownExits
\* stormd exits
CHECK_DEADLOCK FALSE
