SPECIFICATION FairSpec
CONSTANTS
  Monitors = {m1, m2}
  Evaluated = {m2}
  Sources = {s1, s2}
  FirstSource = s1
  None = None
  BatchSize = 1
  MaxEvents = 2
  MaxEdits = 1
  MaxFaults = 1
INVARIANTS NothingSkipped ToldOnce
PROPERTIES EachChangeArrives
CHECK_DEADLOCK FALSE
