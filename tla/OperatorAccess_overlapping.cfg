SPECIFICATION Spec
CONSTANTS
    Hosts = {h1}
    Workers = {w1, w2}
    Operators = {alice, bob}
    MaxGrants = 2
    NoFile = NoFile
    Empty = Empty
    Garbled = Garbled
INVARIANTS AuthorityIsGranted CleanRevokeIsFinal TokenOpensOneSession NewestGrantRules
CHECK_DEADLOCK FALSE
