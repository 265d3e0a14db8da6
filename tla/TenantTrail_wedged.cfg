CONSTANTS
    Hosts = {}
    Panels = {p1}
    AuditMaxEntries = 2
    MaxWrites = 3
    MaxCrashes = 0
    Nobody = Nobody
SPECIFICATION Spec
CHECK_DEADLOCK FALSE
INVARIANTS
    IdleMirrorIsDone
