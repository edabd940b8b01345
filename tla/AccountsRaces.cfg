SPECIFICATION Spec
CONSTANTS
    a1 = a1
    a2 = a2
    d1 = d1
    d2 = d2
    s1 = s1
    s2 = s2
    s3 = s3
    None = None
    Accounts = {a1, a2}
    Devices = {d1, d2}
    Attempts = {s1, s2, s3}
    Older = {}
    Patient = {d1}
    Refusing = {d2}
    Restarting = {}
    Talking = {}
    Serial = FALSE
SYMMETRY Symmetry
INVARIANT TypeOK
INVARIANT NodeBeforeEntry
INVARIANT EntriesOnce
INVARIANT SessionMatches
INVARIANT EmailCatched
\* the attempts run out
CHECK_DEADLOCK FALSE
