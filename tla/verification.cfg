SPECIFICATION VerificationSpec
CONSTANTS
  risky = risky
  quiet = quiet
  h1 = h1
  b1 = b1
  Snapshots = {risky, quiet}
  Heads = {h1}
  Bases = {b1}
  HeadSha <- MCHeadSha
  BaseSha <- MCBaseSha
  Triggered = {risky}
  QuestionSets = {q1}
  NoQuestions = NoQuestions
  None = None
  Unmeasured = Unmeasured
  Jobs = {j1}
  MaxActiveJobs = 1
  MaxDispatch = 1
  EditTo <- AnyEdit
  MayReopen = FALSE
  MayLose = FALSE
  MaxEdits = 2
  MaxFaults = 1
  AnyOrder = TRUE
  MaxResubmits = 1
  MaxEvents = 2
CHECK_DEADLOCK FALSE
INVARIANT GreenRanEveryCommand
PROPERTIES GreenShowsSuccess ImplementsBotService
