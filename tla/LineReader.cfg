\* Every property that holds.  The handler thread may end, so the monitor may stop.
SPECIFICATION FairSpec
CHECK_DEADLOCK FALSE
CONSTANTS
  Files <- SomeFiles
  ChunkSize = 4
  MaxThrows = 1
INVARIANTS
  GarbledOnlyIfCut
  LinesInOrder
  NothingSkipped
PROPERTY
  EverythingPrinted
