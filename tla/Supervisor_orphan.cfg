SPECIFICATION Spec
CONSTANTS
  Callers = {c1}
  Boot = boot
  MaxRuns = 3
  Ops = {}
  Configs <- SomeConfigs
INVARIANT ChildrenGoneFirst
\* stormd exits
CHECK_DEADLOCK FALSE
