SPECIFICATION FairSpec
CONSTANTS
  Scans = {s1, s2}
  Targets = {t1}
  TargetOf <- MCTargetOf
  NoScan = NoScan
  Results = {"clean"}
  Asked = {"clear"}
  MaxLostWrites = 2
  MaxRestarts = 1
PROPERTIES
  EveryScanCloses
  WaitingScansStart
CHECK_DEADLOCK FALSE
