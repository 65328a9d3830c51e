CONSTANTS
  t1 = t1
  t2 = t2
  t3 = t3
  t4 = t4
  j1 = j1
  j2 = j2
  Never = Never
  Tasks = {t3}
  Type <- MCType
  Period <- MCPeriod
  JidOf <- MCJidOf
  Horizon = 3
  MaxFaults = 0
  MaxRestarts = 0
SPECIFICATION FairSpec
PROPERTIES
  ScheduledTasksRun
CHECK_DEADLOCK FALSE
