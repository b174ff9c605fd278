SPECIFICATION Spec
CONSTANTS
  plain = plain
  labelled = labelled
  pushed = pushed
  h1 = h1
  h2 = h2
  Contents = {plain}
  Heads = {h1, h2}
  HeadOf <- MCHeadOf
  EditTo <- AnyEdit
  Runs = {r1, r2, r3}
  MaxJobs = 2
  MaxPosts = 2
  MaxResubmits = 0
  MayReopen = TRUE
  MaxManual = 1
  MaxFaults = 1
  None = None
CHECK_DEADLOCK FALSE
SYMMETRY Symmetry
PROPERTY ActiveJobsKept
