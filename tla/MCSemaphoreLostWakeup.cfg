SPECIFICATION Spec
CONSTANTS
    Nobody = Nobody
    Caller = {c1, c2}
    Ctx = {daemon}
    CtxOf <- MCSharedCtxOf
    Size <- MCSize
PROPERTIES
    CancelledCallReturns
CHECK_DEADLOCK FALSE
