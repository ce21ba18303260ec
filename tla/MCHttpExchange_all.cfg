CONSTANTS
    Clients = {k1}
    Holders = {a1, a2}
    Wrapped = wrapped
    Requests <- SomeRequests
    Registrations <- SomeRegistrations
    MaxCalls = 2
    MaxExchanges = 2
CHECK_DEADLOCK FALSE
SPECIFICATION FairExchangeSpec
INVARIANTS
    AnsweredOnce
    FailureIsNotOk
    OneHop
    RequestArrives
PROPERTIES
    PerformReturns
