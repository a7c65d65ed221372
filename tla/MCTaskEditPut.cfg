SPECIFICATION Spec
CONSTANTS
    u1 = u1
    u2 = u2
    Users = {u1}
    Tasks = {t1}
    Requests = {r1}
    NewRows <- FreeRows
    Updates <- ReadmeBodies
    Refused = {"update", "select_history", "insert_comment", "select_comments"}
    Faults = {}
    MaxOpenConns = 2
    MaxHistory = 2
    MaxComments = 1
    Null = Null
    None = None
INVARIANTS
    PutIsApplied
