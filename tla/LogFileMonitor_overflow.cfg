\* An overflow against the comment on what follows it; no files, so that ReInit is the
\* only synthetic event.
SPECIFICATION FairSpec
CONSTANTS
  MaxChanges = 3
  Matching <- AllMatching
  KernelCapacity = 1
  MaxFiles = 0
  ApiMayFail = FALSE
PROPERTY
  OverflowIsRescanned
CHECK_DEADLOCK FALSE
