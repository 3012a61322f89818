SPECIFICATION Spec
CONSTANTS
    None = None
    MaxRaw = 5
    BufferSize = 2
    RawTypes = {"NAME", "NEWLINE", "SKIPPED"}
    WsTexts <- Indents
    SkippedLast = TRUE
INVARIANT ClosedAtEof
CHECK_DEADLOCK FALSE
