SPECIFICATION FairSpec
CONSTANTS
    MaxRaw = 6
    RawTypes = {"NEWLINE", "FORMFEED", "SPACES", "COMMENT", "JOIN", "NAME", "OPEN", "CLOSE"}
    Widths = {0, 1, 2}
INVARIANT BlocksOK
INVARIANT EofLast
INVARIANT TokensInOrder
PROPERTY StreamOK
PROPERTY EofReached
