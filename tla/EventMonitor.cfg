\* Every property that holds.
SPECIFICATION FairSpec
CONSTANTS
  NumChannels = 2
  Tries = 2
  ArraySize = 2
  Events <- SomeEvents
  MaxEvents = 3
  MaxOutages = 1
INVARIANTS
  TypeOK
  PrintedInOrder
  MessagesMatch
PROPERTIES
  StopEndsThread
  ArrivedIsTaken
CHECK_DEADLOCK FALSE
