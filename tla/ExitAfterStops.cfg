\* The application is closed while STOP is at work.
SPECIFICATION Spec
CONSTANTS
    MaxInstances = 3
    MaxSaves = 1
    Closers = {c1, c2}
CHECK_DEADLOCK FALSE
INVARIANT ExitAfterStops
