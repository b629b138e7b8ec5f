CONSTANTS
    a = a
    b = b
    aMain = aMain
    aPair = aPair
    bMain = bMain
    Bots <- MCBots
    Callers <- MCCallers
    Mains <- MCMains
    BotOf <- MCBotOf
    Permits = 2
    MaxAttempts = 2
    MaxRetries = 1
SPECIFICATION Spec
INVARIANTS
    TypeOK
    CounterIsPending
    PermitsAccounted
PROPERTIES
    WaitIsHonest
    CallsGetThrough
    StopsAlone
CHECK_DEADLOCK FALSE
