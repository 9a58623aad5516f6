SPECIFICATION Spec
CONSTANTS
  Callers = {c1, c2}
  Boot = boot
  MaxRuns = 3
  Ops = {"start", "stop", "restart"}
  Configs <- SomeConfigs
SYMMETRY CallerSymmetry
INVARIANTS OneChild StatusTruthful BackOffHasHandler RestartBudget
PROPERTY DownStaysDown
\* stormd exits
CHECK_DEADLOCK FALSE
