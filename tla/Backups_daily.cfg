SPECIFICATION Spec
CONSTANTS
    NumTenants = 2
    Broken = {}
    Clerks = {}
    Timer = Timer
    c1 = c1
    h1 = h1
    h2 = h2
    Hosts = {h1}
    Operator = Operator
    NoHost = NoHost
    Retention = 1
    Interval = 1
    Day = 2
    MaxTime = 4
    MaxSnapshots = 4
    MaxFailures = 0
    MaxMoves = 0
PROPERTY DailyMeansDaily
CHECK_DEADLOCK FALSE
