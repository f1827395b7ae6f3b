\* Two requests overlap while the first block of numbers is being reserved.
SPECIFICATION Spec
CONSTANTS
    Requests = {q1, q2}
    Lists = {}
    NoList = NoList
    Block = 2
    MaxCopies = 1
    MaxWatches = 0
    MaxFaults = 0
INVARIANTS SpentNeverReused
CHECK_DEADLOCK FALSE
