SPECIFICATION Spec
CONSTANTS
    Parsers = {"config", "bos", "companion", "next"}
    Sizes = {8, 18, 20, 25, 34, 43}
    Headers <- ParserHeaders
    MaxDescs = 5
    MayFail = TRUE
INVARIANTS ParsedRight OnlyTheCutLeaks
CHECK_DEADLOCK FALSE
