SPECIFICATION Spec
CONSTANTS
    Lexers = {"php"}
    Listed = {}
    MaxItems <- ItemsOf
    MaxListed = 0
INVARIANT SemicolonOnce
