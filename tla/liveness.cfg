SPECIFICATION FairSpec
CONSTANTS
  quiet = quiet
  risky = risky
  retitled = retitled
  pushed = pushed
  h1 = h1
  h2 = h2
  b1 = b1
  Snapshots = {risky}
  Heads = {h1, h2}
  Bases = {b1}
  HeadSha <- MCHeadSha
  BaseSha <- MCBaseSha
  Triggered <- MCTriggered
  QuestionSets = {q1}
  NoQuestions = NoQuestions
  None = None
  Unmeasured = Unmeasured
  Jobs = {j1, j2}
  MaxActiveJobs = 2
  MaxDispatch = 2
  EditTo <- AnyEdit
  MayReopen = TRUE
  MayLose = FALSE
  MaxEdits = 0
  MaxFaults = 2
CHECK_DEADLOCK FALSE
PROPERTIES
  DispatchSettles
  OutboxDrains
  JobsFinish
