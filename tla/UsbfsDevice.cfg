SPECIFICATION Spec
CONSTANTS
    Thread = {t1, t2}
    Handle = {h1, h2}
    LastInterface = 1
    Drivers = {0}
    Interfaces <- TwoConfigurations
    Systems <- NewAndOld
    Faults = {}
INVARIANTS ClaimedIsOwned ConfigurationsFound
PROPERTY ClaimsKept
SYMMETRY Symmetry
CHECK_DEADLOCK FALSE
