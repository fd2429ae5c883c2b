CONSTANTS
    None = None
    Threads = {t1, t2}
    Custom = {d}
    MaxChanges = 2
SPECIFICATION FairSpec
INVARIANTS TypeOK FlagKept CustomBeforeRclone
PROPERTIES Listed
\* Once nothing is changed and listed any more there is nothing left to do.
CHECK_DEADLOCK FALSE
