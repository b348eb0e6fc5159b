SPECIFICATION Spec
CONSTANTS
    a1 = a1
    a2 = a2
    e1 = e1
    r1 = r1
    r2 = r2
    l1 = l1
    l2 = l2
    x = x
    y = y
    None = None
    Restored = Restored
    Accounts <- OneAccountSet
    Emails <- OneEmail
    LegacyRecords <- KnownRecord
    Requests <- OneRequest
    Logins <- OneLogin
    Admins <- OneAdmin
    N = 1
    MaxToken = 1
INVARIANTS
    CancelledReplyIsTruthful
