SPECIFICATION StreamSpec
CONSTANTS
    open = open
    close = close
    cliTool = cliTool
    tool = tool
    None = None
    Parts <- MCParts
    Empty = empty
    ObjectTexts <- MCObjectTexts
    ToolMap <- MCToolMap
    OtherTools = {}
    MaxIndex = 1
    Events <- MCEvents
    MaxEvents = 8
CHECK_DEADLOCK FALSE
INVARIANTS
    StreamTypeOK
    JudgesExactly
    ContentIsReassembled
