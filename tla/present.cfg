SPECIFICATION Spec
CONSTANTS
    Snapshots = {s1, s2, s3}
    Commits = {c1, c2}
    CommitOf <- MCCommitOf
    Triggered <- MCTriggered
    s1 = s1  s2 = s2  s3 = s3  c1 = c1  c2 = c2
    None = None
    Channels = {"card", "check"}
    MaxAttempts = 2
    MayReturn = TRUE
    MaxEvents = 3
CHECK_DEADLOCK FALSE
INVARIANTS TypeOK Settles NoDuplicates
PROPERTIES SuccessPreserved
