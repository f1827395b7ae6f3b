SPECIFICATION FairSpec
CONSTANTS
    MaxAppends = 3
    MaxRemoves = 1
    MaxCrashes = 1
    WriteFaults = TRUE
    TornWrites = TRUE
    ReadFaults = TRUE
INVARIANTS LogInCallOrder
PROPERTIES CallsSettle LogContract
CHECK_DEADLOCK FALSE
