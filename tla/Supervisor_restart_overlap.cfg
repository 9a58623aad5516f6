SPECIFICATION Spec
CONSTANTS
  Callers = {c1}
  Boot = boot
  MaxRuns = 3
  Ops = {"restart"}
  Configs <- SomeConfigs
INVARIANT OldRunGoneFirst
\* stormd exits
CHECK_DEADLOCK FALSE
