\* PingPong over a market that stays, rises past the tolerance, or falls back.
\* The two prices differ by more than the tolerance, so every branch of the check
\* (in range, drifted, locked) is taken on both sides.
SPECIFICATION Spec
CONSTANTS
    Strategy = "pingpong"
    Quotes <- MCTwoPrices
    Precision = 1
    SellOffset = 5
    Spread = 10
    Tolerance = 20
    Floor = 0
    OrderIds = {o1, o2}
    NoId = NoId
    NoVirtual = NoVirtual
    NoPrice = NoPrice
INVARIANTS TypeOK OpenOrdersTracked
PROPERTIES KeepsBooks SightLostInRace GuaranteedSpread
SYMMETRY IdSymmetry
