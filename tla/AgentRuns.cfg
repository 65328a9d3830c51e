CONSTANTS
  r1 = r1
  r2 = r2
  r3 = r3
  j1 = j1
  f1 = f1
  None = None
  Runs = {r1, r2, r3}
  Jids = {j1}
  Folders = {f1}
  JidOf <- OneGroupJid
  FolderOf <- OneGroupFolder
  Messages = {r1, r2}
  Direct = {r2}
  HasChannel = {j1}
  Slow = {r3}
  MayFail = {r1, r2}
  MaxFollowUps = 1
  MaxRestarts = 1
SPECIFICATION Spec
INVARIANTS
  TypeOK
  OneAgentPerFolder
  AgentEndsWithRun
  SuccessLosesNoAnswer
  RepliesDoNotInterleave
  TypingMeansWorking
CHECK_DEADLOCK FALSE
