SPECIFICATION FairSpec
CONSTANTS
    Messages = {m1, m2}
    Scheduled = scheduled
    None = None
    MaxExtras = 1
CHECK_DEADLOCK FALSE
INVARIANTS MessageKept WorksAlone
PROPERTIES WindowAgrees QueueDrains
