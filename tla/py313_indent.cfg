SPECIFICATION Spec
CONSTANTS
    MaxRaw = 7
    Quotes <- None
    RawTypes = {"NEWLINE", "COMMENT", "EXPLICIT_LINE_JOINING", "NAME", "LPAR"}
    WsTexts <- Indents
    MidTexts <- None
INVARIANT TypeOK
INVARIANT IndentStackOK
PROPERTY StreamOK
INVARIANT RawTokensInOrder
