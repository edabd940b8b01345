SPECIFICATION FairSpec
CONSTANTS
    u1 = u1
    u2 = u2
    u3 = u3
    u4 = u4
    o1 = o1
    o2 = o2
    o3 = o3
    Users = {u1, u2, u3, u4}
    Ops = {o1, o2}
    Seconds = {1}
    Registered = {u1, u2}
    Named = {u1, u2, u3}
    DottedLocale = {}
    Faulty = {u2}
    Serial = FALSE
    Prompt = FALSE
    DistinctSeconds = TRUE
INVARIANT RowsReadableWhenQuiet
PROPERTY CallsAnswered
PROPERTY Settles
PROPERTY CreationSucceeds
\* the calls run out
CHECK_DEADLOCK FALSE
