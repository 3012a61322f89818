SPECIFICATION Spec
CONSTANTS
    Lexers = {"mysql"}
    Listed = {}
    MaxItems <- ItemsOf
    MaxListed = 0
INVARIANT VersionMatches
