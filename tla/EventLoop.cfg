SPECIFICATION LiveSpec
CONSTANTS
    t1 = t1
    t2 = t2
    t3 = t3
    Thread <- Threads
    h1 = h1
    h2 = h2
    Handle <- Handles
    Pipe = Pipe
    None = None
    Applications <- AllApplications
INVARIANTS OneHandler PipeIsExact PollSetCurrent WaitersHaveAWaker
PROPERTIES ImplementsSyncService CallsReturn
CHECK_DEADLOCK FALSE
