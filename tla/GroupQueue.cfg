CONSTANTS
  g1 = g1
  g2 = g2
  e1 = e1
  e2 = e2
  e3 = e3
  e4 = e4
  None = None
  Groups <- MCGroups
  Entries <- MCEntries
  GroupOf <- MCGroupOf
  Recovered = {e4}
SPECIFICATION FairSpec
INVARIANTS
  OneDrainPerGroup
  NoLostWakeup
  OneQueuedAgentPerGroup
  ProcessIsTracked
PROPERTIES
  ShutdownSignalsAttached
  ImplementsSerialQueue
  EveryEntryFinishes
CHECK_DEADLOCK FALSE
