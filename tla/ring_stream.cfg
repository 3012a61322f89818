SPECIFICATION FairSpec
CONSTANTS
    None = None
    MaxRaw = 7
    BufferSize = 2
    RawTypes = {"NAME", "OPEN", "CLOSE", "NEWLINE", "COMMENT", "SKIPPED", "STRAY"}
    WsTexts <- Indents
    SkippedLast = FALSE
INVARIANT TypeOK
INVARIANT IndentsOK
INVARIANT RawTokensInOrder
INVARIANT OnlyKnownFaults
INVARIANT WholeInputHeard
PROPERTY RingIsQueue
PROPERTY StreamOK
PROPERTY EofReached
CHECK_DEADLOCK FALSE
