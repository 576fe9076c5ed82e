SPECIFICATION FairSpec
CONSTANTS
  NoData = NoData
  None = None
  Waiting = Waiting
  Failed = Failed
  MaxClicks = 3
  MaxFailures = 1
  MaxOthers = 1
INVARIANTS
  ShownIsTrue
  EmptyIsEarned
PROPERTIES
  BusyEnds
CHECK_DEADLOCK FALSE
