SPECIFICATION Spec
CONSTANTS
  quiet = quiet
  risky = risky
  retitled = retitled
  pushed = pushed
  h1 = h1
  h2 = h2
  b1 = b1
  Snapshots = {quiet, risky}
  Heads = {h1, h2}
  Bases = {b1}
  HeadSha <- MCHeadSha
  BaseSha <- MCBaseSha
  Triggered <- MCTriggered
  QuestionSets = {q1, q2}
  NoQuestions = NoQuestions
  None = None
  Unmeasured = Unmeasured
  Jobs = {j1}
  MaxActiveJobs = 1
  MaxDispatch = 2
  EditTo <- AnyEdit
  MayReopen = TRUE
  MayLose = TRUE
  MaxEdits = 2
  MaxFaults = 1
SYMMETRY Symmetry
CHECK_DEADLOCK FALSE
INVARIANTS
  SuccessJustified
  VerifiedQuestionsKept
  DispatchBudget
PROPERTIES
  NoDowngrade
  ImplementsGate
