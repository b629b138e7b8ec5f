\* The documented cancellation of the own orders at a stop.
SPECIFICATION Spec
CONSTANTS
    Strategy = "pingpong"
    Quotes <- MCOnePrice
    Precision = 1
    SellOffset = 5
    Spread = 10
    Tolerance = 20
    Floor = 0
    OrderIds = {o1, o2}
    NoId = NoId
    NoVirtual = NoVirtual
    NoPrice = NoPrice
INVARIANT StopCancelsOwnOrders
