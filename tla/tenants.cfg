SPECIFICATION FairSpec
CONSTANTS
  i1 = i1
  i2 = i2
  n1 = n1
  n2 = n2
  Repos = {r1}
  Installations = {i1, i2}
  Names = {n1, n2}
  NameOf <- MCNameOf
  First <- MCFirst
  Threads = {t1, t2}
  Slots = {1, 2, 3}
  MoreEvents = FALSE
  MayFail = TRUE
  MaxChanges = 1
  None = None
CHECK_DEADLOCK FALSE
INVARIANTS
  OneStore
  ReleasedIsClosed
PROPERTIES
  PostsInOrder
  RequestsEnd
  StopEnds
