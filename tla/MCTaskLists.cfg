SPECIFICATION Spec
CONSTANTS
    Users = {u1}
    Teams = {t1}
    TaskIds <- Ids1
    Requests = {r1, r2}
    Statuses = {"done"}
    Assignees = {u1, stranger}
    Pages <- OnePage
    Faults = {"redis", "crash"}
    TTL = 1
    Deadline = 1
    RedisDelay = 1
    MaxTime = 3
    None = None
SYMMETRY Symmetry
INVARIANTS
    TypeOK
    BoundedStaleness
    RedisNeverFailsAList
    ServedRowsMatch
    ServedToMembers
    TasksOfMembers
PROPERTY ImplementsBoard
