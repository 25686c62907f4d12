SPECIFICATION RunSpec
CONSTANTS
  Codes = {"BUNDLE", "MSD_BREACH"}
  MaxFindings = 3
INVARIANTS
  VerdictIsOrderFree
  ExitCodeAccountsForEveryFinding
  ReasonIsFirstFailure
CHECK_DEADLOCK FALSE
