SPECIFICATION FairSpec
CONSTANTS
  Callers = {c1}
  Boot = boot
  MaxRuns = 3
  Ops = {"start", "stop", "restart"}
  Configs <- SomeConfigs
PROPERTIES ShutdownExits FailureExits RestartResolves
\* stormd exits
CHECK_DEADLOCK FALSE
