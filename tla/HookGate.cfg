SPECIFICATION HookSpec
CONSTANTS
  Scans = {s1, s2}
  Targets = {t1}
  TargetOf <- MCTargetOf
  NoScan = NoScan
  Results = {"clean", "serious", "incomplete"}
  Asked = {"delete"}
  MaxLostWrites = 0
  MaxRestarts = 0
  Checks = {c1}
  FirstScans = {s1}
  HookLimit = 1
INVARIANTS
  AnswersAreFair
PROPERTIES
  PromiseKept
CHECK_DEADLOCK FALSE
