SPECIFICATION Spec
CONSTANTS
    Users = {u1}
    Requests = {r1, r2}
    Limit = 2
    Minute = 6
    KeyTTL = 7
    Deadline = 4
    Retries = 1
    MaxTime = 9
    MaxArrived = 4
    None = None
SYMMETRY Symmetry
INVARIANTS
    TypeOK
    LimitPerLife
    RefusedForCause
