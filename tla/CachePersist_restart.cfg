CONSTANTS
    N = 2
    Threads = {t1}
    SaveSlots = 1
    Limit = 1
    MaxRetries = 1
    MaxStarts = 2
    MaxEvents = 2
    None = None
SPECIFICATION FairSpec
INVARIANTS TypeOK FileFollows
PROPERTIES ImplementsStore Recovers
CHECK_DEADLOCK FALSE
