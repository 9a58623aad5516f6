SPECIFICATION LocksFairSpec
CONSTANTS
  Callers = {"x", "y"}
  Procs <- OneProc
  Queue = 1
  Room = 1
PROPERTY StopLands
\* a deaf child and the calls that wait for it
CHECK_DEADLOCK FALSE
