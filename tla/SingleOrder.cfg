\* The documented single active order of a PingPong pair, on one price drift.
SPECIFICATION Spec
CONSTANTS
    Strategy = "pingpong"
    Quotes <- MCTwoPrices
    Precision = 1
    SellOffset = 5
    Spread = 10
    Tolerance = 20
    Floor = 0
    OrderIds = {o1, o2}
    NoId = NoId
    NoVirtual = NoVirtual
    NoPrice = NoPrice
INVARIANT SingleActiveOrder
