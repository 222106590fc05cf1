\* Renaming a subdirectory, against the test of it.
SPECIFICATION FairSpec
CONSTANTS
  None = None
  MaxFiles = 2
  MaxLines = 2
  MaxOps = 3
  MaxClock = 2
  Folder <- Folders
  FirstFile <- ExistingFile
  Base <- Bases
  Short <- ShortForm
  Matching <- Filter
  Habits <- PlainHabits
PROPERTY
  FolderRenameKeepsListening
