SPECIFICATION ResetSpec
CONSTANTS
    None = None
    MaxRaw = 5
    BufferSize = 2
    RawTypes = {"NAME", "NEWLINE", "SKIPPED"}
    WsTexts <- Indents
    SkippedLast = TRUE
INVARIANT WholeInputHeard
CHECK_DEADLOCK FALSE
