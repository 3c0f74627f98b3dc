SPECIFICATION UrbsLiveSpec
CONSTANTS
    MaxUrbs = 3
    Block = 2
    MaxSubmits = 2
    Kinds = {"bulk", "interrupt", "iso", "control"}
    Errors = {"EPROTO", "EOVERFLOW"}
    UnplugAnytime = FALSE
INVARIANT NoDataLost
PROPERTY ImplementsBackend
CHECK_DEADLOCK FALSE
