SPECIFICATION Spec
CONSTANTS
    u1 = u1
    u2 = u2
    u3 = u3
    u4 = u4
    o1 = o1
    o2 = o2
    o3 = o3
    Users = {u1, u2}
    Ops = {o1, o2, o3}
    Seconds = {1, 2}
    Registered = {u1, u2}
    Named = {u1, u2}
    DottedLocale = {u2}
    Faulty = {u1, u2}
    Serial = TRUE
    Prompt = TRUE
    DistinctSeconds = TRUE
SYMMETRY OpSymmetry
INVARIANT SentMessageStored
INVARIANT PreviewFollowsLast
PROPERTY ImplementsLogs
\* the calls run out
CHECK_DEADLOCK FALSE
