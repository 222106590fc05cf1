\* Well-formed sources, against the comment on invalid entries and the documentation of waits.
SPECIFICATION FairSpec
CONSTANTS
  None = None
  NoObject = NoObject
  Documents <- SomeDocuments
  Entry <- SomeEntry
INVARIANT StartedAsDocumented
CHECK_DEADLOCK FALSE
