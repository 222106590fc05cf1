\* Every property that holds.
SPECIFICATION FairSpec
CONSTANTS
  Symbols = {"text", "eol", "zero", "empty"}
  Controls = {"C", "break", "close"}
  BufSize = 3
  PipeSize = 3
  Habits = {"output", "controls"}
  MaxOutput <- LittleWithControls
  MaxCtrl = 2
INVARIANTS
  LinesInOrder
PROPERTIES
  LinesArePrinted
  FullPipeIsRead
  CtrlEndsWait
CHECK_DEADLOCK FALSE
