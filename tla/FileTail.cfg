\* Every property that holds.
SPECIFICATION FairSpec
CONSTANTS
  None = None
  MaxFiles = 2
  MaxLines = 2
  MaxOps = 3
  MaxClock = 2
  Folder <- Folders
  FirstFile <- ExistingFile
  Base <- Bases
  Short <- ShortForm
  Matching <- Filter
  Habits <- AllHabits
INVARIANTS
  TypeOK
  PrintedInOrder
  FileIdsConsistent
PROPERTIES
  EveryLinePrinted
