\* One file, is a file without a row ever published?
SPECIFICATION Spec
CONSTANTS
  f = f  g = g
  Paths = {f}
  Hunks = {1, 2}
  Last = 1
  Tree <- Upstream
  Lines <- AllLines
  Ours = "ours"
  Marker = "marker"
  Pinnable = {0, 1}
  MaxEdits = 2
  Absent = Absent
INVARIANT EveryFileListed
CHECK_DEADLOCK FALSE
