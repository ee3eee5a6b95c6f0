SPECIFICATION Spec
CONSTANTS
    Numbers <- MCNumbers
    Opens <- MCOpens
    Binary <- MCBinary
    Proper <- MCProper
    Refused <- MCRefused
    Spoiling <- MCSpoiling
    Followers <- MCFollowers
    MaxRequests = 2
INVARIANTS ExecutesWhatWasSent
PROPERTIES NeverRecovers EveryRequestAnswered
CHECK_DEADLOCK FALSE
