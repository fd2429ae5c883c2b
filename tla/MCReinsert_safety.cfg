CONSTANTS
    None = None
    Threads = {t1, t2, t3}
    Requests = {r1, r2, r3}
    MaxId = 3
    Errors = TRUE
SPECIFICATION Spec
SYMMETRY ThreadSymmetry
INVARIANTS TypeOK ContentKept InFlightIsRunning
    WaitersServed
PROPERTIES WaiterGetsReplacement
\* At MaxId no call is let in any more.
CHECK_DEADLOCK FALSE
