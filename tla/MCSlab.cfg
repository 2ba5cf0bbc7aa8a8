CONSTANTS
  t1 = t1
  t2 = t2
  Tasks <- MCTasks
  Sections <- MCSections
  ZoneOf <- MCZoneOf
  NrPage <- MCNrPage
  Boot <- MCBoot
  Flags = {0}
  Counts = {1}
  Aligned <- MCAligned
  Underrun = 1
  PageUnits = 8
  PoolNr = 2
  SlabCachePages = 1
  KmallocSizes = {1, 6}

SPECIFICATION SlabSpec
CONSTRAINT MCBound
SYMMETRY MCSymmetry
INVARIANTS SlabsDisjoint PoolsExclusive CachesOwned SlabFits
CHECK_DEADLOCK FALSE
