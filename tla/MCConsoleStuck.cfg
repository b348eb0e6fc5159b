SPECIFICATION ConsoleSpec
CONSTANTS
    None = None
    MaxLogins = 1
    MaxGeneration = 2
CHECK_DEADLOCK FALSE
INVARIANT
    ActiveLoginIsFollowed
