SPECIFICATION LiveSpec
CONSTANTS
    c = c
    b = b
    None = None
    Handle = {h1, h2}
    Transfer = {c, b}
    Kind <- OneOfEach
    LastInterface = 1
    Has <- Configurations
    Alternates = {1}
    LastFd = 2
    Backends = {"darwin", "openbsd", "netbsd"}
    Faults = {}
INVARIANTS RequestsGoRight HandlesSound
PROPERTIES ImplementsBackend CancelEnds
CHECK_DEADLOCK FALSE
