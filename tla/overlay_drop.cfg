\* One file, deleted from overlay/ before refresh.sh runs again.
SPECIFICATION Spec
CONSTANTS
  f = f  g = g
  Paths = {f}
  Hunks = {1, 2}
  Last = 1
  Tree <- Upstream
  Lines <- AllLines
  Ours = "ours"
  Marker = "marker"
  Pinnable = {0, 1}
  MaxEdits = 2
  Absent = Absent
PROPERTY DropsOut
CHECK_DEADLOCK FALSE
