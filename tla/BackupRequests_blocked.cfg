SPECIFICATION Spec
CONSTANTS
    NumTenants = 2
    Clicks = {c1, c2}
    Forms <- TwoForms
    h1 = h1
    NoHost = NoHost
    NoClick = NoClick
    Absent = Absent
    Unreadable = Unreadable
    Retention = 1
    MaxBackups = 0
    MaxUpsets = 0
PROPERTY OneFailureStaysThere
