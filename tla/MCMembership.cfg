SPECIFICATION Spec
CONSTANTS
    Users = {u1, u2, u3}
    Teams = {t1}
    Requests = {r1, r2}
    AskedRoles = {"", "admin", "owner"}
    None = None
SYMMETRY Symmetry
INVARIANTS
    TypeOK
    SoleOwner
    MailedOnce
    MailedAreMembers
    HonestReply
PROPERTY
    UnmailedForGood
    ImplementsDirectory
