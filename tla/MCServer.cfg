SPECIFICATION FairSpec
CONSTANTS
    e1 = e1 e2 = e2 short = short good = good other = other
    None = None
    Emails <- MCEmails
    Collation <- MCCollation
    Passwords = {short, good, other}
    Fit = {good, other}
    Bodies <- MCBodies
    UserIds = {1}
    Requests = {r1, r2}
    TTL = 1
    Faults = {"mysql"}
    RequestTimeout = 2
    WriteTimeout = 1
    NewGrace = 1
    DrainTimeout = 2
INVARIANTS TypeOK WelcomedOwnTheAccount TokensOfOwners OwnerGetsIn PoolsOutliveRequests
PROPERTIES AuthSpec Exits
