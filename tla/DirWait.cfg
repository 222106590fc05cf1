\* Every property that holds.
SPECIFICATION FairWaitSpec
CONSTANTS
  Waits <- SomeWaits
  Forever = Forever
  Interval = 3
  MaxTime = 7
  MaxDirChanges = 4
INVARIANTS
  WaitTypeOK
  WaitIsBounded
  CreationWakesWait
PROPERTIES
  StopAnswered
  EventuallyOpened
CHECK_DEADLOCK FALSE
