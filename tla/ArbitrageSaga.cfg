\* Two pairs: their trades run in one gather, or one after
\* the other. The disk fails one of them.
SPECIFICATION Spec
CONSTANTS
    Trades = {t1, t2}
    BadDisk = {t1}
    MaxSends = 2
INVARIANTS TypeOK RecordTruth NoBlindSpot SecondLegOnce PauseHolds
PROPERTIES ExecutionEnds KeepsPromise
