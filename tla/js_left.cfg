SPECIFICATION Spec
CONSTANTS
    Lexers = {"js"}
    Listed = {}
    MaxItems <- ItemsOf
    MaxListed = 0
INVARIANT LeftMode
