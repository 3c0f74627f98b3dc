SPECIFICATION LiveSpec
CONSTANTS
    c = c
    b = b
    None = None
    Handle = {h1}
    Transfer = {c, b}
    Kind <- OneOfEach
    Iso = {b}
    LastInterface = 1
    MaxFds = 2
    Backends = {"winusb", "composite", "usbdk"}
    Faults = {}
INVARIANTS ClaimsBalance DescriptorsFound OthersGoOn
PROPERTIES ImplementsBackend CancelEnds
CHECK_DEADLOCK FALSE
