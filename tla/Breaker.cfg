SPECIFICATION FairSpec
CONSTANTS
    Callers = {c1, c2, c3}
    MaxRequests = 2
    Interval = 2
    Timeout = 2
    MinRequests = 3
    MaxCount = 4
INVARIANTS TypeOK WindowAccount
PROPERTIES KeepsPromise TrialEnds Recovers
