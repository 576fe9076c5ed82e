SPECIFICATION FairSpec
CONSTANTS
  Scans = {s1, s2}
  Mine = {s1, s2}
  Started = {s1}
  NoScan = NoScan
  MaxFailures = 1
  Loads = {l1}
  Presses = {d1, d2}
  NoView = NoView
INVARIANTS
  StopsWithFindings
  OneScanPerVisit
PROPERTIES
  HiddenIsDeleted
  ExplanationKept
  PageSettles
CHECK_DEADLOCK FALSE
