CONSTANTS
  t1 = t1
  t2 = t2
  m1 = m1
  m2 = m2
  j1 = j1
  j2 = j2
  f1 = f1
  f2 = f2
  f3 = f3
  Never = Never
  None = None
  Tasks = {t1, t2}
  Messages = {m1, m2}
  Jids = {j1, j2}
  Folders = {f1, f2, f3}
  Groups = {f1, f2}
  Type <- MCType
  Period <- MCPeriod
  JidOf <- MCJidOf
  TaskFolder <- MCTaskFolder
  GroupJid <- MCGroupJid
  Endless = {j2}
  Horizon = 2
  MaxFaults = 1
  MaxRestarts = 1
  MaxMoves = 1
SPECIFICATION FairSpec
INVARIANTS
  OneRunPerFolder
PROPERTIES
  ImplementsScheduler
  TasksAreServed
  MessagesBegin
CHECK_DEADLOCK FALSE
