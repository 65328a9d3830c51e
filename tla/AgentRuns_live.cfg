CONSTANTS
  r1 = r1
  r2 = r2
  r3 = r3
  j1 = j1
  f1 = f1
  None = None
  Runs = {r1, r2}
  Jids = {j1}
  Folders = {f1}
  JidOf <- OneGroupJid
  FolderOf <- OneGroupFolder
  Messages = {r1}
  Direct = {}
  HasChannel = {j1}
  Slow = {}
  MayFail = {r1, r2}
  MaxFollowUps = 1
  MaxRestarts = 0
SPECIFICATION FairSpec
PROPERTIES
  RunsEnd
CHECK_DEADLOCK FALSE
