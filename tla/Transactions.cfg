CONSTANTS
    Clients = {c1, c2}
    Late = {}
    Users = {"default"}
    Passwords = {}
    Channels = {ch1}
    Issued = {"RPUSH", "LPOP", "BLPOP", "SUBSCRIBE", "MULTI"}
    Queueable = {"RPUSH", "LPOP", "BLPOP"}
    MaxValue = 2
    MaxQueued = 2
    MaxSubs = 1
    MaxBlocked = 2
    MaxStream = 2
SPECIFICATION Spec
SYMMETRY ClientSymmetry
INVARIANTS
    TypeOK
    ReplicaAgrees
    UnflushedOnlyByExec
CHECK_DEADLOCK FALSE
