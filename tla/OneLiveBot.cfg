\* A stop that gives up waiting frees the START button of a live bot.
SPECIFICATION Spec
CONSTANTS
    MaxInstances = 3
    MaxSaves = 1
    Closers = {c1, c2}
CHECK_DEADLOCK FALSE
INVARIANT OneLiveBot
