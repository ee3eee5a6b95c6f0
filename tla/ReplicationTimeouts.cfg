CONSTANTS
    Clients = {c1, c2}
    Replicas = {r1}
    Writes <- SetAndZadd
    GetackBytes = 37
    Needs = {1}
    Timeouts = {0, 1}
    MaxTime = 1
    MaxWrites = 2
    MaxWaits = 2
    MaxReplies = 1
SPECIFICATION FairSpec
INVARIANTS
    TypeOK
    AcksOrdered
    CountedUnlessAhead
    WaitNotForgotten
    WaitWakesInTime
    UnflushedOnlyIfEclipsed
PROPERTIES
    WaitTimeoutAnswered
CHECK_DEADLOCK FALSE
