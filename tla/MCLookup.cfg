CONSTANTS
  Tasks = {t1, t2}
  InameNr = 2
  Tree <- MCTree
  RootOf <- MCRootOf
  FsOf <- MCFsOf
  RootMount <- MCRootMount
  Mountable <- MCMountable
  Paths <- MCPaths
  CallNr = 3

SPECIFICATION LookupSpec
INVARIANTS InameExclusive InameAccounted WalkInDirectory LookupRight MountChosen
PROPERTIES LookupEnds
CHECK_DEADLOCK FALSE
