\* One file, is an upstream change ever reverted?
SPECIFICATION Spec
CONSTANTS
  f = f  g = g
  Paths = {f}
  Hunks = {1, 2}
  Last = 1
  Tree <- Upstream
  Lines <- AllLines
  Ours = "ours"
  Marker = "marker"
  Pinnable = {0, 1}
  MaxEdits = 2
  Absent = Absent
INVARIANT NoRevert
CHECK_DEADLOCK FALSE
