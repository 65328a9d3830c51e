CONSTANTS
  r1 = r1
  r2 = r2
  r3 = r3
  f1 = f1
  j1 = j1
  Torn = Torn
  Runs = {r1, r2, r3}
  Folders = {f1}
  Jids = {j1}
  FolderOf <- OneFolder
  JidOf <- OneJid
  Isolated = {r3}
  Window = 4
  MaxTurns = 2
  MaxCalls = 1
  MaxLapses = 0
  MaxRestarts = 0
SPECIFICATION Spec
INVARIANTS
  PairsArePreserved
CHECK_DEADLOCK FALSE
