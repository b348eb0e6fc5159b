SPECIFICATION FairSpec
CONSTANTS
    a1 = a1
    a2 = a2
    e1 = e1
    r1 = r1
    r2 = r2
    l1 = l1
    l2 = l2
    x = x
    y = y
    None = None
    Restored = Restored
    Accounts <- OneAccountSet
    Emails <- OneEmail
    LegacyRecords <- KnownRecord
    Requests <- TwoRequests
    Logins <- NoLogins
    Admins <- OneAdmin
    N = 2
    MaxToken = 1
PROPERTIES
    RequestEnds
