SPECIFICATION Spec
CONSTANTS
  Callers = {c1}
  Boot = boot
  MaxRuns = 3
  Ops = {"stop"}
  Configs <- SomeConfigs
PROPERTY RequestedStopStays
\* stormd exits
CHECK_DEADLOCK FALSE
