SPECIFICATION ReleasingSpec
CONSTANTS
    Nobody = Nobody
    Caller = {c1, c2, c3}
    Ctx = {daemon}
    CtxOf <- MCSharedCtxOf
    Size <- MCSize
INVARIANTS
    CountIsExact
    FreeSlotsHaveTakers
PROPERTIES
    ImplementsPool
    EveryCallReturns
CHECK_DEADLOCK FALSE
