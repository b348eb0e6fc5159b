SPECIFICATION FairSpec
CONSTANTS
    cliTool = cliTool
    tool = tool
    unknown = unknown
    None = None
    Parts <- MCParts
    Empty = empty
    ObjectTexts <- MCObjectTexts
    ToolMap <- MCToolMap
    OtherTools <- MCOtherTools
    MaxIndex = 0
    Events <- MCEvents
    MaxEvents = 6
    MaxReplies = 1
    Capacity = 2
CHECK_DEADLOCK FALSE
INVARIANTS
    RpcTypeOK
    TurnProtocol
    CompletionPersisted
    SecondCheckAgrees
PROPERTIES
    DeliversMessage
    CancelFreesSlot
    ClientAnswered
