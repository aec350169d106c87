CONSTANTS
  PAGE_SIZE = 4
  WordSize = 2
  VmPageSize = 3
  HighMem = 6
  MaxZones = 3
  CodeStart = 6
  End = 11
  Infos <- MCInfos
SPECIFICATION Spec
INVARIANTS
  TypeOK
  ZonesApart
  FramesBeginInMemory
  AllMemoryFound
  ArraysApart
PROPERTY BootEnds
CHECK_DEADLOCK FALSE
