SPECIFICATION RequestSpec
CONSTANTS
    Ids = {i1, i2}
    None = None
    Blocks <- MCBlocks
    MaxBlocks = 6
    Headers <- MCHeaders
    MaxTokens = 7
SYMMETRY IdSymmetry
CHECK_DEADLOCK FALSE
INVARIANTS
    ValidatesExactly
    ValidatedIsCanonical
    ConversationReachesCli
    TranscriptPairsCalls
    PromptKeepsBody
