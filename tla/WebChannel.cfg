CONSTANTS
  h1 = h1
  a = a
  r = r
  p1 = p1
  p2 = p2
  Posts = {a}
  Replies = {r}
  History <- MCHistory
  HistoryLimit = 2
  Polls = {p1, p2}
  MaxRestarts = 1
SPECIFICATION FairSpec
INVARIANTS
  TypeOK
  PageMissesNothing
  PageShowsEachOnce
  HistoryIsWhole
PROPERTIES
  PageCatchesUp
CHECK_DEADLOCK FALSE
