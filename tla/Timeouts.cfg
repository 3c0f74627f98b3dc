SPECIFICATION TimeoutsLiveSpec
CONSTANTS
    Thread = {h1, h2}
    UsbTransfer = {t1, t2}
    NoThread = NoThread
    Duration = {0, 1}
    UserWait = 1
    Platform = {"timerfd", "none", "os"}
    OsTimed = {t2}
    Never = 2
INVARIANTS TimerCovers
PROPERTIES TimeoutsHandled
CHECK_DEADLOCK FALSE
