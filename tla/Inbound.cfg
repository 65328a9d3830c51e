CONSTANTS
  j1 = j1
  m1 = m1
  m2 = m2
  none = none
  None = None
  Inputs = {1, 2, 3, 4, 5}
  Web = {2}
  Kind <- MCKind
  IdOf <- MCIdOf
  JidOf <- MCJidOf
  TimeOf <- MCTimeOf
  Permitted = {1, 2, 3}
  Triggering = {1, 2, 3}
  Jids = {j1}
  Registered = {j1}
  Times = {1, 2}
  Limit = 2
  MaxFaults = 1
  MaxRestarts = 1
SPECIFICATION FairSpec
INVARIANTS
  TypeOK
  NoFileIsLost
  OneRunPerUnlink
PROPERTIES
  RunSeesItsMessage
  AcceptedWorkIsDone
CHECK_DEADLOCK FALSE
