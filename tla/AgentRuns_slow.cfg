CONSTANTS
  r1 = r1
  r2 = r2
  r3 = r3
  j1 = j1
  f1 = f1
  None = None
  Runs = {r1, r2, r3}
  Jids = {j1}
  Folders = {f1}
  JidOf <- OneGroupJid
  FolderOf <- OneGroupFolder
  Messages = {r1, r2, r3}
  Direct = {}
  HasChannel = {j1}
  Slow = {r1}
  MayFail = {}
  MaxFollowUps = 0
  MaxRestarts = 0
SPECIFICATION Spec
INVARIANTS
  AllBlocksRead
CHECK_DEADLOCK FALSE
