SPECIFICATION FairSpec
CONSTANTS
    u1 = u1
    u2 = u2
    Users = {u1}
    Tasks = {t1}
    Requests = {r1, r2, r3}
    NewRows <- FreeRows
    Updates <- LiveBodies
    Refused = {"update", "select_history", "insert_comment", "select_comments"}
    Faults = {"statement", "crash"}
    MaxOpenConns = 2
    MaxHistory = 2
    MaxComments = 1
    Null = Null
    None = None
PROPERTIES
    LocksReleased
    RequestsAnswered
