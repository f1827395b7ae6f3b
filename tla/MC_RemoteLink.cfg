\* A request and a watch list, and any two of: a frame lost, a frame delivered again, a
\* socket closed, a machine restarted.
SPECIFICATION FairSpec
CONSTANTS
    Requests = {q1}
    Lists = {l1}
    NoList = NoList
    Block = 2
    MaxCopies = 1
    MaxWatches = 1
    MaxFaults = 2
INVARIANTS AnswersAreNew NothingDoneTwice
PROPERTIES KeptUntilSettled
CHECK_DEADLOCK FALSE
