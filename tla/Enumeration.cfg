SPECIFICATION EnumSpec
CONSTANTS
    Thread = {t1, t2}
    Systems = {"winusb", "usbdk", "openbsd", "netbsd"}
    Node <- OneDevice
    Above <- Tree
    Kind <- Kinds
    MaxChanges = 2
    MaxLists = 3
    MaxSlots = 4
    Room = 2
    HashSize = 2
    Faults = {"alloc", "init"}
INVARIANTS MemorySafe ListMatchesBus
SYMMETRY Threads
CHECK_DEADLOCK FALSE
