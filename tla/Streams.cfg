CONSTANTS
    a = a
    b = b
    Clients = {c1, c2}
    Keys = {a, b}
    Reads <- OneOrTwoKeys
    MaxMs = 1
    MaxSeq = 1
    MaxEntries = 2
    MaxBlocks = 2
    MaxReplies = 1
SPECIFICATION Spec
INVARIANTS
    IdsIncrease
    NoEntryMissed
    UnflushedOnlyIfEclipsed
CHECK_DEADLOCK FALSE
