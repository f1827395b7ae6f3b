\* Two starts that compete in one session, two restarts, two failing saves.
SPECIFICATION FairSpec
CONSTANTS
    t1 = t1
    t2 = t2
    t3 = t3
    s1 = s1
    s2 = s2
    Tasks = {t1, t2}
    SessionOf <- TwoSessions
    MaxPerSession = 1
    MaxGlobal = 2
    MaxRestarts = 2
    MaxFaults = 2
    None = None
INVARIANTS LiveIsSupervised DiskIsTrue
PROPERTIES StartsWithinLimits EndIsFinal StopEnds
CHECK_DEADLOCK FALSE
