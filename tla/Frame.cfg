\* Four strategy instances: two saved reloads or stops around a start, and a
\* restart. A second close request while the first is waiting. The process ends
\* when the application is closed.
SPECIFICATION Spec
CONSTANTS
    MaxInstances = 4
    MaxSaves = 1
    Closers = {c1, c2}
CHECK_DEADLOCK FALSE
INVARIANTS TypeOK RunningIsStoppable OutlivesByTimeout
PROPERTIES StopFinishes CloseExits
