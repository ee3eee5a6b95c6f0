CONSTANTS
    Clients = {c1, c2}
    Late = {c2}
    Users = {"default", "u"}
    Passwords = {"p"}
    Channels = {ch1, ch2}
    Issued = {"SUBSCRIBE", "UNSUBSCRIBE", "PUBLISH", "PING", "MULTI", "WHOAMI", "AUTH", "SETUSER"}
    Queueable = {"SUBSCRIBE", "PING"}
    MaxValue = 0
    MaxQueued = 1
    MaxSubs = 2
    MaxBlocked = 0
    MaxStream = 1
SPECIFICATION Spec
INVARIANTS
    SubscriptionsCounted
    QueuesBelongToTransactions
    LoginsNeedPasswords
CHECK_DEADLOCK FALSE
