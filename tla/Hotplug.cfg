SPECIFICATION LiveSpec
CONSTANTS
    Cb = {c1, c2}
    MatchAny = MatchAny
    Device = {1}
    Descriptor <- Descriptors
    Filter <- Filters
    MaxRegs = 2
    MaxDeregs = 2
    MaxHandle = 3
    DoneEarly = FALSE
INVARIANTS NoUseAfterFree
PROPERTIES OnceInOrder HandlerFinishes
CHECK_DEADLOCK FALSE
