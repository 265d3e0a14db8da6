CONSTANTS
    Hosts = {h1}
    Panels = {p1, p2}
    AuditMaxEntries = 3
    MaxWrites = 4
    MaxCrashes = 1
    Nobody = Nobody
SPECIFICATION FairSpec
CHECK_DEADLOCK FALSE
INVARIANTS
    TypeOK
    EntriesRecorded
    NoneSkipped
    TrimKeepsNewest
    TrailChainIntact
    CopiedOncePerKill
PROPERTY
    OperatorSeesAll
