SPECIFICATION ViewFairSpec
CONSTANTS
  a = a
  b = b
  Tasks <- MCTasks
  Script <- MCScript
  FirstEvents <- MCFirstEvents
  None = None
  PageSize = 1
  CatchUpRounds = 1
  MaxOpens = 2
  MaxRequests = 2
  MaxLosses = 1
INVARIANTS ShowsAPrefix
PROPERTIES ViewAgrees
CHECK_DEADLOCK FALSE
