\* Writes that fail and a service that dies, while a client takes a snapshot and polls.
SPECIFICATION ReaderFairSpec
CONSTANTS
    MaxAppends = 3
    MaxRemoves = 0
    MaxCrashes = 1
    WriteFaults = TRUE
    TornWrites = TRUE
    ReadFaults = TRUE
    PageSize = 1
    TailLimit = 2
INVARIANTS CursorSound SnapshotComplete
PROPERTIES ClientIsServed
CHECK_DEADLOCK FALSE
