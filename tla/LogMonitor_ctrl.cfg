\* A control event that is handled before the wait.
SPECIFICATION FairSpec
CONSTANTS
  Symbols = {"text", "eol"}
  Controls = {"C", "break", "close"}
  BufSize = 1
  PipeSize = 1
  Habits = {"controls"}
  MaxOutput <- LittleWithControls
  MaxCtrl = 2
PROPERTY
  CtrlTerminates
CHECK_DEADLOCK FALSE
