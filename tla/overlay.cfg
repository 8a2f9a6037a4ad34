\* Two files, a first pin that is not pinnable, and up to two changes by people.
SPECIFICATION Spec
CONSTANTS
  f = f  g = g
  Paths = {f, g}
  Hunks = {1, 2}
  Last = 2
  Tree <- Upstream
  Lines <- AllLines
  Ours = "ours"
  Marker = "marker"
  Pinnable = {1, 2}
  MaxEdits = 2
  Absent = Absent
INVARIANTS SyncedTree RefreshRoundTrip BumpIsMerge PublishedApplies
CHECK_DEADLOCK FALSE
