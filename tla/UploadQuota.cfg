SPECIFICATION Spec
CONSTANTS
  Uploads = {u1, u2}
  u1 = u1
  u2 = u2
  NoUpload = NoUpload
  Limit = 1
  MaxFlips = 2
  MaxTimeouts = 1
  MaxFailures = 1
  MaxDeletes = 1
SYMMETRY MCSymmetry
INVARIANTS
  TypeOK
  UploadsWithinAllowances
  FailoverKeepsThePlan
  AnsweredIsComplete
  CachedHasFindings
CHECK_DEADLOCK FALSE
