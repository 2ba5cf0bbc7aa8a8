CONSTANTS
  t1 = t1
  t2 = t2
  Tasks <- MCTasks
  Sections <- MCSections
  ZoneOf <- MCZoneOf
  NrPage <- MCNrPage
  Boot <- MCBoot
  Flags = {0, 3}
  Counts = {1, 2}
  Aligned <- MCAligned
  Underrun = 1

SPECIFICATION PageSpec
VIEW MCView
SYMMETRY MCSymmetry
INVARIANTS PageTypeOK BlocksDisjoint BitmapExact ZoneCountExact SearchRight
CHECK_DEADLOCK FALSE
