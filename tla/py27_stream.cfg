SPECIFICATION FairSpec
CONSTANTS
    MaxRaw = 7
    RawTypes = {"NEWLINE", "COMMENT", "NAME", "LPAR", "RBRACE", "ERRORTOKEN"}
    WsTexts <- Indents
INVARIANT TypeOK
INVARIANT IndentStackOK
INVARIANT PopFindsToken
INVARIANT RawTokensInOrder
PROPERTY StreamOK
PROPERTY EofReached
