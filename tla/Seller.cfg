\* BasicSeller with its floor between two USD prices of the maker, while the price of
\* the taker moves too, by half or by less than the tolerance. No offset hides what
\* the tolerance costs. No symmetry: the liveness property is checked on the full
\* state graph.
SPECIFICATION Spec
CONSTANTS
    Strategy = "basic_seller"
    Quotes <- MCFloorQuotes
    Precision = 10000
    SellOffset = 0
    Spread = 10
    Tolerance = 1
    Floor = 120
    OrderIds = {o1, o2}
    NoId = NoId
    NoVirtual = NoVirtual
    NoPrice = NoPrice
PROPERTIES RespectsFloor DisabledIsFinal StopTerminates
