SPECIFICATION Spec
CONSTANTS
    Lexers = {"js", "php", "antlr", "mysql", "pg", "lua"}
    Listed = {"js", "antlr", "mysql", "pg", "lua"}
    MaxItems <- ItemsOf
    MaxListed = 3
INVARIANT SamePasses
INVARIANT TemplateBracesOK
INVARIANT ScopesOK
INVARIANT EndsOfLines
INVARIANT PhpPathOK
INVARIANT PhpFlagsOK
INVARIANT RuleTypeOK
INVARIANT ArgumentsOK
INVARIANT TokensTile
INVARIANT TagsOK
INVARIANT CommentEnds
