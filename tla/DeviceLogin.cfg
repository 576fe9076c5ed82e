SPECIFICATION FairSpec
CONSTANTS
  Codes = {c1}
  KindOf <- MCKindOf
  Users = {u1, u2}
  NoUser = NoUser
  NoCode = NoCode
  MaxLost = 1
INVARIANTS
  OneKeyPerApproval
  KeyBelongsToApprover
  OneUserTold
  NothingBurned
PROPERTIES
  LoginCompletes
CHECK_DEADLOCK FALSE
