SPECIFICATION ConsoleFairSpec
CONSTANTS
    None = None
    MaxLogins = 2
    MaxGeneration = 4
CHECK_DEADLOCK FALSE
INVARIANTS
    BusyIsOwned
    AccountNotAheadOfLogin
PROPERTIES
    EndReachesScreen
