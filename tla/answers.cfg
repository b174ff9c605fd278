SPECIFICATION FairSpec
CONSTANTS
  plain = plain
  labelled = labelled
  pushed = pushed
  h1 = h1
  h2 = h2
  Contents = {plain, labelled}
  Heads = {h1, h2}
  HeadOf <- MCHeadOf
  EditTo <- Forward
  Runs = {r1, r2}
  MaxJobs = 1
  MaxPosts = 1
  MaxResubmits = 1
  MayReopen = FALSE
  MaxManual = 0
  MaxFaults = 2
  None = None
CHECK_DEADLOCK FALSE
INVARIANTS
  PollersOwnTheirJob
  PassedRunsAreSeen
PROPERTIES
  RunsEnd
  JobsEnd
