SPECIFICATION LiveSpec
CONSTANTS
    g1 = g1
    g2 = g2
    d1 = d1
    d2 = d2
    None = None
    Routine = {g1, g2}
    Dev = {d1}
    PortOf <- OnePort
    Interface = {0, 1}
    Timeouts = {TRUE, FALSE}
    Careless = FALSE
    MaxContexts = 2
INVARIANTS DeviceAlive ClaimKept DriverComesBack
PROPERTY CloseReturns
CHECK_DEADLOCK FALSE
