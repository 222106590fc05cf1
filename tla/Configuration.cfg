\* Every property that holds.
SPECIFICATION FairSpec
CONSTANTS
  None = None
  NoObject = NoObject
  Documents <- SomeDocuments
  Entry <- SomeEntry
INVARIANTS
  TypeOK
  StartedAsConfigured
  
PROPERTIES
  LoopAdvances
  FormattingEnds
CHECK_DEADLOCK FALSE
