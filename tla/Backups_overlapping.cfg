SPECIFICATION Spec
CONSTANTS
    NumTenants = 2
    Broken = {1}
    Clerks = {c1}
    Timer = Timer
    c1 = c1
    h1 = h1
    h2 = h2
    Hosts = {h1}
    Operator = Operator
    NoHost = NoHost
    Retention = 1
    Interval = 1
    Day = 1
    MaxTime = 1
    MaxSnapshots = 3
    MaxFailures = 1
    MaxMoves = 1
INVARIANTS ListedIsThere NothingLeaks
PROPERTIES PruneKeepsNewest SweepServesAll
CHECK_DEADLOCK FALSE
