CONSTANTS
    Clients = {c1}
    Replicas = {r1, r2}
    Writes <- SetOnly
    GetackBytes = 37
    Needs = {1, 2}
    Timeouts = {0}
    MaxTime = 0
    MaxWrites = 2
    MaxWaits = 2
    MaxReplies = 1
SPECIFICATION Spec
SYMMETRY ReplicaSymmetry
INVARIANTS
    WaitNotForgotten
CHECK_DEADLOCK FALSE
