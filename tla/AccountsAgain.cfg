SPECIFICATION Spec
CONSTANTS
    a1 = a1
    a2 = a2
    d1 = d1
    d2 = d2
    s1 = s1
    s2 = s2
    s3 = s3
    None = None
    Accounts = {a1, a2}
    Devices = {d1}
    Attempts = {s1, s2}
    Older = {}
    Patient = {d1}
    Refusing = {}
    Restarting = {}
    Talking = {a1, a2}
    Serial = TRUE
PROPERTY NodeKept
\* the attempts run out
CHECK_DEADLOCK FALSE
