SPECIFICATION Spec
CONSTANTS
    NumTenants = 1
    Clicks = {c1, c2}
    Forms <- MCForms
    h1 = h1
    NoHost = NoHost
    NoClick = NoClick
    Absent = Absent
    Unreadable = Unreadable
    Retention = 1
    MaxBackups = 2
    MaxUpsets = 1
INVARIANTS TypeOK RestoredAsAsked KeyShownOnce EncryptionHasKey
PROPERTY TakesEffect
