CONSTANTS
    Clients = {c1, c2}
    Keys = {k1}
    Timeouts = {0, 1}
    Lifetimes = {1}
    PushSizes = {1, 2}
    PopCounts = {2}
    MaxTime = 2
    MaxValue = 3
    MaxBlocks = 2
    MaxReplies = 1
SPECIFICATION FairSpec
INVARIANTS
    TypeOK
    ExactlyOnce
    OnlyStringsExpire
    RepliesArmed
    StrandedOnlyIfOverfed
    OversleepsOnlyShadowed
PROPERTIES
    TimeoutAnswered
CHECK_DEADLOCK FALSE
