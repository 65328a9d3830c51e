CONSTANTS
  main = main
  team = team
  web = web
  chat = chat
  q1 = q1
  q2 = q2
  q3 = q3
  q4 = q4
  NoRow = NoRow
  None = None
  Folders = {main, team}
  Jids = {web, chat}
  Main = main
  WebJid = web
  Requests = {q1, q2, q3, q4}
  Source <- MCSource
  Folder <- MCFolder
  Jid <- MCJid
  Acceptable = {q1, q2, q3, q4}
  MaxFaults = 1
  MaxCrashes = 2
SPECIFICATION FairSpec
INVARIANTS
  JidIdentifiesGroup
  AuthorityDoesNotSpread
  BootNeverFails
  GroupsHaveDirs
  GroupsHaveChats
PROPERTIES
  RequestsAreAnswered
CHECK_DEADLOCK FALSE
