SPECIFICATION Spec
CONSTANTS
    Ctx = {c1, c2}
    Hub = "hub"
    Port = {"p"}
    MaxEvents = 4
    MaxSlots = 5
    DuringInit = FALSE
INVARIANTS RefsBalance ListMatchesBus KeptWhileUsed
SYMMETRY Contexts
CHECK_DEADLOCK FALSE
