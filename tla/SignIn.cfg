SPECIFICATION FairSpec
CONSTANTS
  RequestLimit = 1
  CodeLimit = 1
  PasswordLimit = 2
  MaxFaults = 1
  Asked <- MCAsked
INVARIANTS
  GuessesWithinLimit
  CodeScreenHasCode
PROPERTIES
  LockoutEnds
  LandsWhereAsked
CHECK_DEADLOCK FALSE
