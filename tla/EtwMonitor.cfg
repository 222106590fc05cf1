\* Every property that holds.
SPECIFICATION FairSpec
CONSTANTS
  None = None
  Processes = {1, 2}
  Requested <- TwoConfigurations
  Registered <- OneName
  Lower <- FoldCase
  Habits <- SomeHabits
  MaxEvents <- FewEvents
  MaxStalls = 1
INVARIANTS
  PrintedInOrder
  SessionFollowsConfig
  NoSessionLeft
PROPERTIES
  JoinedNotKilled
  SignalEndsProcess
  EventsPrinted
CHECK_DEADLOCK FALSE
