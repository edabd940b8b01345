SPECIFICATION Spec
CONSTANTS
    u1 = u1
    u2 = u2
    u3 = u3
    u4 = u4
    o1 = o1
    o2 = o2
    o3 = o3
    Users = {u1, u2}
    Ops = {o1, o2, o3}
    Seconds = {1}
    Registered = {u1, u2}
    Named = {u1, u2}
    DottedLocale = {}
    Faulty = {}
    Serial = FALSE
    Prompt = FALSE
    DistinctSeconds = TRUE
PROPERTY RecipientListStaysList
\* the calls run out
CHECK_DEADLOCK FALSE
