SPECIFICATION StateFairSpec
CONSTANTS
  Tasks = {a}
  Results = {r}
  None = None
  MaxVersion = 2
  MaxOps = 3
  MaxFaults = 1
INVARIANTS AnsweredIsOnDisk DescribedIsTrue ReadIsCurrent
PROPERTIES ToldOnce AllAnswered
CHECK_DEADLOCK FALSE
