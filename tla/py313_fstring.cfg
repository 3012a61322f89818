SPECIFICATION FairSpec
CONSTANTS
    MaxRaw = 6
    Quotes = {"SQ1", "DQ3R"}
    RawTypes = {"NEWLINE", "LPAR", "RPAR", "LBRACE", "RBRACE", "COLON", "COLONEQUAL", "ERRORTOKEN"}
    WsTexts <- None
    MidTexts <- Middles
INVARIANT ModeStackOK
INVARIANT LookaheadInMode
INVARIANT OnlyKnownFaults
PROPERTY StreamOK
INVARIANT RawTokensInOrder
PROPERTY EofReached
