\* Every property that holds, with failures of system calls.
SPECIFICATION FairSpec
CONSTANTS
  MaxChanges = 4
  Matching <- SomeMatching
  KernelCapacity = 2
  MaxFiles = 1
  ApiMayFail = TRUE
INVARIANTS
  TypeOK
  NoLostWakeup
  MapsHaveOneUser
  NothingLostOrReordered
PROPERTIES
  ImplementsChannel
  StopEndsThreads
  EveryChangeHandled
\* The monitor ends when it is told to stop, or when its threads fail.
CHECK_DEADLOCK FALSE
