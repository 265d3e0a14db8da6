SPECIFICATION Spec
CONSTANTS
    Rows = {r1, r2}
    Owners = {o1, o2}
    KeyFiles = {k1}
    MaxKeys = 3
    MaxSets = 1
    MaxCalls = 1
    Absent = Absent
    Plain = Plain
    Doubled = Doubled
SYMMETRY Interchangeable
INVARIANTS NewKeyOpensBothStores ReadableUnlessInterrupted ShowsWhatWasSet
PROPERTY NeverBackToPlaintext
CHECK_DEADLOCK FALSE
