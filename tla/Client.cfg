SPECIFICATION FairSpec
CONSTANTS
    names = names
    list = list
    log = log
    own = own
    other = other
    None = None
    Paths = {{names, list}, {list}, {log}}
    Queries = {own, other}
    Permanent = {own}
    Denied = {other}
    MaxPuts = 2
    MaxListens = 1
    MaxFaults = 2
INVARIANT TypeOK
INVARIANT NeverStranded
INVARIANT CountMatches
INVARIANT PutsInOrder
INVARIANT BlocksInOrder
INVARIANT VisibleIsLayered
PROPERTY ImplementsQueue
PROPERTY BlocksRun
\* the puts, listens and faults run out
CHECK_DEADLOCK FALSE
