SPECIFICATION ReleasingSpec
CONSTANTS
    Nobody = Nobody
    Caller = {c1, c2, c3}
    Ctx = {c1, c2, c3}
    CtxOf <- MCOwnCtxOf
    Size <- MCSize
PROPERTIES
    EveryCallReturns
CHECK_DEADLOCK FALSE
