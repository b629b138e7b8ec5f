CONSTANTS
    btc = btc
    block = block
    maker = maker
    seller = seller
    Symbols <- MCSymbols
    TypeOf <- MCTypeOf
    Clients <- MCClients
    Wanted <- MCWanted
    Periodic = Periodic
    Nobody = Nobody
    Attempts = 2
    MaxVersion = 1
SPECIFICATION Spec
INVARIANTS
    TypeOK
PROPERTIES
    PricesMoveForward
    AnswersComplete
    RequestsEnd
