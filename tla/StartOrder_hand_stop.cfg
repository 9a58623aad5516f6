SPECIFICATION Spec
CONSTANTS
  N = 3
  MaxRuns = 2
  Layouts <- SomeLayouts
  Hands = {1}
PROPERTY HandStopNeverSatisfies
\* stormd exits
CHECK_DEADLOCK FALSE
