CONSTANTS
  t1 = t1
  t2 = t2
  t3 = t3
  t4 = t4
  j1 = j1
  j2 = j2
  Never = Never
  Tasks = {t1, t2, t3}
  Type <- MCType
  Period <- MCPeriod
  JidOf <- MCJidOf
  Horizon = 3
  MaxFaults = 1
  MaxRestarts = 1
SPECIFICATION FairSpec
INVARIANTS
  SingleFlight
  JobsAreFresh
PROPERTIES
  DueTasksRun
CHECK_DEADLOCK FALSE
