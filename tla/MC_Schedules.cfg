\* A recurring or one-shot schedule, an edit, a restart, a failing write, a stop.
SPECIFICATION FairSpec
CONSTANTS
    a = a
    None = None
    User = User
    Schedules = {a}
    Plans <- EitherPlan
    MaxTime = 2
    MaxEdits = 1
    MaxRestarts = 1
    MaxFaults = 1
    MaxStops = 1
INVARIANTS NoPileUp
PROPERTIES RunsOnce SavedBeforeDelivery DueIsSettled
CHECK_DEADLOCK FALSE
