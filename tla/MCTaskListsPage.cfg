SPECIFICATION Spec
CONSTANTS
    Users = {u1}
    Teams = {t1}
    TaskIds <- Ids2
    Requests = {r1, r2}
    Statuses = {"", "done"}
    Assignees = {None}
    Pages <- TwoPages
    Faults = {}
    TTL = 1
    Deadline = 1
    RedisDelay = 0
    MaxTime = 1
    None = None
INVARIANT PageIsServed
