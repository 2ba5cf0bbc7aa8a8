CONSTANTS
  t1 = t1
  t2 = t2
  idle = idle
  Tasks <- MCTasks
  Idle = idle
  PageNr = 16
  DirNr = 4
  Slots <- MCSlots
  SlotAfter <- MCSlotAfter
  PteNr = 3
  Chunk = 3
  StackPages = 1
  Images = {1, 2}
  MmapAt <- MCMmapAt
  MmapCounts = {1, 2}
  ElfEntry = 2

SPECIFICATION UserMemSpec
CONSTRAINT MCBound
SYMMETRY MCSymmetry
INVARIANTS UserMemTypeOK PagesOwnedOnce PagesAccounted MapsOwnPages DirsOwnedOnce
CHECK_DEADLOCK FALSE
