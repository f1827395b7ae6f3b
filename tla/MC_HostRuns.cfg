\* A message and its retry, a failing disk, a restart.
SPECIFICATION FairSpec
CONSTANTS
    s1 = s1
    s2 = s2
    r1 = r1
    r2 = r2
    m1 = m1
    NoSend = NoSend
    Sends <- TwoSends
    RunOf <- OneRun
    MessageOf <- OneMessage
    Supplied <- TwoSends
    DiskFaults = TRUE
    MaxRestarts = 1
INVARIANTS LateRetryNeverRuns OneRunAtATime ReleasedHasEnd AnsweredIsSaved DeletedStaysDeleted
PROPERTIES EveryCallEnds
CHECK_DEADLOCK FALSE
