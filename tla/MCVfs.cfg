CONSTANTS
  LvlNr = 6
  PoolNr = 2
  NoBlock = 99
  Table <- MCTable
  BytesPerSec = 4
  SecPerClus = 2
  ResSecCnt = 1
  FatSectors = 4
  RootSectors = 1
  RootTop = 20
  FdNr = 2
  LmfsFiles <- MCLmfsFiles
  FatFiles <- MCFatFiles
  Size <- MCSize
  LmfsBlocks = 5
  Pool <- MCPool
  PoolTop = 0
  Counts = {4, 8, 20}
  Offsets = {0, 16, 20}
  WriteNr = 1

SPECIFICATION VfsSpec
INVARIANTS VfsTypeOK ReadsRight ReadKeepsSync SeekKeepsSync WritesRight
