\* A table of two rows at most, out of up to four.
SPECIFICATION Spec
CONSTANTS
  Tables = {"revenue", "salaries"}
  Requests = {r1, r2}
  Configs <- MCConfigs
  Calls <- MCCalls
  Threads = 1
  Connections = 1
  Many = 4
  Limit = 2
INVARIANTS
  TypeOK
  OnlyWhoMayRuns
  BlamesTheRightSide
  RowsAreTold
  HeldInUseOnly
PROPERTY
  EveryRequestAnswered
CHECK_DEADLOCK FALSE
