SPECIFICATION Spec
CONSTANTS
    u1 = u1
    u2 = u2
    Users = {u1, u2}
    Tasks = {t1}
    Requests = {r1, r2}
    NewRows <- AssignedRows
    Updates <- FewBodies
    Refused = {}
    Faults = {"statement", "commit", "crash"}
    MaxOpenConns = 2
    MaxHistory = 1
    MaxComments = 1
    Null = Null
    None = None
SYMMETRY Symmetry
INVARIANTS
    TypeOK
    MembersOnly
PROPERTIES
    ChangesAreRecorded
    EditorsEntitled
    ImplementsAudit
