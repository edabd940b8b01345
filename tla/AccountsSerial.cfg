SPECIFICATION FairSpec
CONSTANTS
    a1 = a1
    a2 = a2
    d1 = d1
    d2 = d2
    s1 = s1
    s2 = s2
    s3 = s3
    None = None
    Accounts = {a1, a2}
    Devices = {d1, d2}
    Attempts = {s1, s2}
    Older = {a1}
    Patient = {}
    Refusing = {d2}
    Restarting = {d2}
    Talking = {a1}
    Serial = TRUE
INVARIANT InsertedIsListed
PROPERTY ImplementsDirectory
PROPERTY InsertionEnds
PROPERTY GrantOpensApp
\* the attempts run out
CHECK_DEADLOCK FALSE
