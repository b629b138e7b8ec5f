\* Rates on both sides of 1.0 (the unit is a quarter). A pair of them moves by less
\* than the target spread or by more.
SPECIFICATION Spec
CONSTANTS
    Rates = {2, 3, 4, 6}
    One = 4
    Target = 40
    MaxFailures = 2
    DiskFails = TRUE
INVARIANTS TypeOK LedgerTruth Alternates SpreadHeld
PROPERTY OfferTaken
