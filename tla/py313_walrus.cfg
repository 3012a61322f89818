SPECIFICATION Spec
CONSTANTS
    MaxRaw = 6
    Quotes = {"SQ1"}
    RawTypes = {"NAME", "LBRACE", "RBRACE", "COLON", "COLONEQUAL"}
    WsTexts <- None
    MidTexts <- Middles
INVARIANT WalrusTokenized
