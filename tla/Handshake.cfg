CONSTANT MaxCommands = 4
SPECIFICATION Spec
INVARIANTS
    ExecutesPrefix
    SyncedUnlessBadCut
CHECK_DEADLOCK FALSE
