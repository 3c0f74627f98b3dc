SPECIFICATION LiveSpec
CONSTANTS
    None = None
    Handler = Handler
    x1 = x1
    x2 = x2
    u1 = u1
    u2 = u2
    Transfer = {x1, x2}
    User = {u1, u2}
    HasTimeout = {x1}
    Racing = FALSE
    MaxSubmits = 2
INVARIANTS RefsBalance NoUseAfterFree
PROPERTIES ImplementsAsyncTransfer TransfersEnd
CHECK_DEADLOCK FALSE
