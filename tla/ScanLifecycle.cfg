SPECIFICATION Spec
CONSTANTS
  Scans = {s1, s2}
  Targets = {t1}
  TargetOf <- MCTargetOf
  NoScan = NoScan
  Results = {"clean"}
  Asked = {"cancel", "delete"}
  MaxLostWrites = 1
  MaxRestarts = 1
SYMMETRY MCSymmetry
INVARIANTS
  TypeOK
  GradeMeansCompleted
  CacheBacked
  AckedMeansClosed
PROPERTIES
  VerdictPublishedOnce
CHECK_DEADLOCK FALSE
