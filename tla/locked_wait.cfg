\* A process that has waited operates without the lock file.
SPECIFICATION LockSpec
CONSTANTS
  Procs = {"p1", "p2", "p3"}
  Kinds <- MCKinds
  MaxRetries = 0
  MaxOps = 1
  NoProc = NoProc
INVARIANT ReadsWhole
CHECK_DEADLOCK FALSE
