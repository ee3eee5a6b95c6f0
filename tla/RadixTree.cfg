CONSTANTS
    Digits = {0, 1, 2}
    Width = 3
    MaxEntries = 3
SPECIFICATION Spec
INVARIANTS
    RangeExact
    TreeCompact
CHECK_DEADLOCK FALSE
