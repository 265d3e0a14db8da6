SPECIFICATION Spec
CONSTANTS
    Rows = {r1, r2}
    Owners = {o1}
    KeyFiles = {k1}
    MaxKeys = 2
    MaxSets = 1
    MaxCalls = 1
    Absent = Absent
    Plain = Plain
    Doubled = Doubled
INVARIANT KeyFilesStayReadable
CHECK_DEADLOCK FALSE
