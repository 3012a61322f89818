------------------------------ MODULE PhpLexer ------------------------------
(***************************************************************************)
(* PhpLexerBase: the stack of lexer modes of HTML pages with PHP in them,   *)
(* the flags that decide which mode comes next, and nextToken(), which      *)
(* looks at the token the generated lexer returns, with the mode it has     *)
(* switched to.  One step is one match of the generated lexer; after        *)
(* `again` # "no" nextToken() has asked it for a second token.              *)
(***************************************************************************)
EXTENDS Integers, Sequences, SequencesExt

(* What the input goes on with.  "text" is any token without an effect,     *)
(* "php" an opening tag, "language" and "name" names in an HTML tag,        *)
(* "'php'" the text php in double quotes, "quote" and "dquote" quotation    *)
(* marks, "END" and "END_SemiColon" a line that closes the heredoc.         *)
PhpItems == {"text", "php", "?>", "<?xml", "<script", "<style", "<", ">", "/>", "quote",
             "dquote", "language", "name", "'php'", "</script>", "</style>", "//", "newline",
             "OpenCurlyBracket", "CloseCurlyBracket", "SemiColon", "Colon", "{$", "<<<",
             "END", "END_SemiColon", "EOF"}

PhpModes == {"DEFAULT", "XML", "INSIDE", "QUOTE", "DQUOTE", "SCRIPT", "STYLE", "PHP",
             "INTERPOLATION", "COMMENT", "HEREDOC"}

PhpTokens == PhpItems \union {"none", "added_SemiColon", "PHPEnd", "HtmlScriptClose"}

VARIABLES
    php,     \* the fields of the lexer, its mode path and the token just returned
    phpSeen  \* history: the last PHP token, and whether the flags came apart

phpVars == <<php, phpSeen>>

PhpInit ==
    /\ php = [modes |-> <<"DEFAULT">>, scriptTag |-> FALSE, styleTag |-> FALSE,
              heredoc |-> FALSE, prev |-> "none", language |-> FALSE, phpScript |-> FALSE,
              inside |-> FALSE, again |-> "no", out |-> "none"]
    /\ phpSeen = [last |-> "none", odd |-> FALSE]

PhpMode == Last(php.modes)

---------------------------------------------------------------------------
(* The rules of the grammar: the modes each item pushes or pops.            *)
PhpTagModes == {"DEFAULT", "INSIDE", "QUOTE", "DQUOTE", "SCRIPT"}

Pushes ==
    {<<"DEFAULT", "<?xml", "XML">>, <<"INSIDE", "quote", "QUOTE">>, <<"INSIDE", "dquote", "DQUOTE">>,
     <<"PHP", "//", "COMMENT">>, <<"PHP", "dquote", "INTERPOLATION">>, <<"PHP", "<<<", "HEREDOC">>,
     <<"INTERPOLATION", "{$", "PHP">>}
    \union ({"DEFAULT"} \X {"<", "<script", "<style"} \X {"INSIDE"})
    \union (PhpTagModes \X {"php"} \X {"PHP"})

Pops ==
    {<<"XML", "?>">>, <<"INSIDE", "/>">>, <<"QUOTE", "quote">>, <<"DQUOTE", "dquote">>,
     <<"SCRIPT", "</script>">>, <<"STYLE", "</style>">>, <<"INTERPOLATION", "dquote">>,
     <<"COMMENT", "newline">>}

NoEffect ==
    (PhpModes \ {"STYLE"}) \X {"text"}
    \union PhpModes \X {"EOF"}
    \union {"INSIDE"} \X {">", "language", "name"}
    \union {"DQUOTE"} \X {"'php'"}
    \union {"PHP"} \X {"?>", "OpenCurlyBracket", "CloseCurlyBracket", "SemiColon", "Colon"}
    \union {<<"COMMENT", "?>">>}
    \union {"HEREDOC"} \X {"END", "END_SemiColon"}

(* PushModeOnHtmlClose                                                      *)
AfterHtmlClose ==
    CASE php.scriptTag -> Append(Front(php.modes), IF php.phpScript THEN "PHP" ELSE "SCRIPT")
      [] php.styleTag /\ ~php.scriptTag -> Append(Front(php.modes), "STYLE")
      [] OTHER -> Front(php.modes)

(* PopModeOnCurlyBracketClose                                               *)
LeavesInterpolation(c) == PhpMode = "PHP" /\ c = "CloseCurlyBracket" /\ php.inside

InsideAfter_Kept(c) == php.inside \/ c = "{$"
InsideAfter(c) == (php.inside /\ ~LeavesInterpolation(c)) \/ c = "{$"

MatchedModes(c) ==
    IF PhpMode = "INSIDE" /\ c = ">" THEN AfterHtmlClose
    ELSE IF LeavesInterpolation(c) \/ <<PhpMode, c>> \in Pops THEN Front(php.modes)
    ELSE IF \E m \in PhpModes : <<PhpMode, c, m>> \in Pushes
         THEN Append(php.modes, CHOOSE m \in PhpModes : <<PhpMode, c, m>> \in Pushes)
         ELSE php.modes

Matches(c) ==
    \/ <<PhpMode, c>> \in NoEffect \union Pops
    \/ \E m \in PhpModes : <<PhpMode, c, m>> \in Pushes
    \/ PhpMode = "PHP" /\ c = "</script>" /\ php.phpScript

(* The generated lexer matches `c`; the actions of the rules set the flags. *)
Matched(c) ==
    [php EXCEPT
        !.modes     = MatchedModes(c),
        !.scriptTag = IF PhpMode = "INSIDE" /\ c = ">" THEN FALSE ELSE @ \/ c = "<script",
        !.styleTag  = IF PhpMode = "INSIDE" /\ c = ">" /\ ~php.scriptTag THEN FALSE
                      ELSE @ \/ c = "<style",
        !.inside    = InsideAfter(c),
        !.again     = "no",
        !.out       = c]

(* No token of mode PHP is on the channel HIDDEN.                           *)
OnHiddenChannel(c) == PhpMode \in {"DEFAULT", "INSIDE"} /\ c = "text"

---------------------------------------------------------------------------
(* nextToken                                                                *)
IsPhpEnd(c) == PhpMode \in {"PHP", "COMMENT"} /\ c \in {"?>", "</script>"}

EndsStatement == {"SemiColon", "Colon", "OpenCurlyBracket", "CloseCurlyBracket"}

AfterPhpEnd_OnePop(modes) == Front(modes)
AfterPhpEnd(modes) == IF Last(modes) = "COMMENT" THEN Front(Front(modes)) ELSE Front(modes)

PhpEnd(c) ==
    /\ php.again = "no" /\ IsPhpEnd(c)
    /\ LET left == [Matched(c) EXCEPT !.modes = AfterPhpEnd(@)]
       IN  php' = CASE c = "</script>" ->
                         [left EXCEPT !.phpScript = FALSE, !.out = "HtmlScriptClose"]
                    [] c = "?>" /\ php.prev \in EndsStatement ->
                         [left EXCEPT !.again = "end", !.out = "none"]
                    [] OTHER -> [left EXCEPT !.out = "added_SemiColon"]

HtmlName(c) ==
    /\ php.again = "no" /\ PhpMode = "INSIDE" /\ c \in {"language", "name"}
    /\ php' = [Matched(c) EXCEPT !.language = (c = "language")]

HtmlDoubleQuoteString(c) ==
    /\ php.again = "no" /\ PhpMode = "DQUOTE" /\ c = "'php'"
    /\ php' = [Matched(c) EXCEPT !.phpScript = @ \/ php.language]

(* `heredoc` says that _heredocIdentifier is the one of the open heredoc.   *)
StartHereDoc(c) ==
    /\ php.again = "no" /\ PhpMode = "PHP" /\ c = "<<<"
    /\ php' = [Matched(c) EXCEPT !.heredoc = TRUE]

EndHereDoc(c) ==
    /\ php.again = "no" /\ PhpMode = "HEREDOC" /\ c \in {"END", "END_SemiColon"} /\ php.heredoc
    /\ LET left == [Matched(c) EXCEPT !.modes = Front(@)]
       IN  php' = IF c = "END_SemiColon" THEN [left EXCEPT !.out = "SemiColon"]
                  ELSE [left EXCEPT !.again = "heredoc", !.out = "none"]

OtherPhpToken(c) ==
    /\ php.again = "no" /\ ~IsPhpEnd(c)
    /\ ~(PhpMode = "INSIDE" /\ c \in {"language", "name"})
    /\ ~(PhpMode = "DQUOTE" /\ c = "'php'")
    /\ ~(PhpMode = "PHP" /\ c = "<<<")
    /\ ~(PhpMode = "HEREDOC" /\ c \in {"END", "END_SemiColon"} /\ php.heredoc)
    /\ php' = [Matched(c) EXCEPT
                 !.prev = IF Last(MatchedModes(c)) = "PHP" /\ OnHiddenChannel(c) THEN c ELSE @]

(* The second super().nextToken() of a call: its token is not looked at.    *)
SecondToken(c) ==
    /\ php.again # "no"
    /\ php' = [Matched(c) EXCEPT !.heredoc = @ /\ c # "<<<",
                                 !.out = IF IsPhpEnd(c) THEN "PHPEnd" ELSE c]

(* The cases in which a flag and the modes come apart.                      *)
InnermostPhp(modes) == IF Last(modes) = "COMMENT" THEN Len(modes) - 1 ELSE Len(modes)

ComesApart(c) ==
    \/ c = "{$" /\ php.inside                                  \* an expression in an expression
    \/ /\ IsPhpEnd(c) /\ php.again = "no"                      \* PHP ends inside an expression
       /\ php.modes[InnermostPhp(php.modes) - 1] = "INTERPOLATION"
    \/ c = "/>" /\ (php.scriptTag \/ php.styleTag)             \* a script element without content
    \/ c = "<<<" /\ php.again # "no"                           \* a heredoc behind a heredoc

PhpStep(c) ==
    /\ php.out # "EOF" /\ Matches(c)
    /\ \/ PhpEnd(c) \/ HtmlName(c) \/ HtmlDoubleQuoteString(c)
       \/ StartHereDoc(c) \/ EndHereDoc(c) \/ OtherPhpToken(c) \/ SecondToken(c)
    /\ phpSeen' = [last |-> IF PhpMode = "PHP" /\ c \notin {"//", "?>"} THEN c ELSE phpSeen.last,
                   odd  |-> phpSeen.odd \/ ComesApart(c)]

(* reset() of the runtime: the class keeps its flags.                       *)
PhpReset ==
    /\ php' = [php EXCEPT !.modes = <<"DEFAULT">>, !.again = "no", !.out = "none"]
    /\ phpSeen' = [last |-> "none", odd |-> TRUE]

PhpNext == PhpReset \/ \E c \in PhpItems : PhpStep(c)

PhpSpec == PhpInit /\ [][PhpNext]_phpVars
---------------------------------------------------------------------------
(* Properties.                                                              *)

(* What the grammar means to be below a mode.                               *)
Below(m) ==
    CASE m = "PHP" -> PhpTagModes \union {"INTERPOLATION"}
      [] m \in {"INTERPOLATION", "COMMENT", "HEREDOC"} -> {"PHP"}
      [] m \in {"QUOTE", "DQUOTE"} -> {"INSIDE"}
      [] OTHER -> {"DEFAULT"}

(* Every field keeps its range.                                             *)
PhpTypeOK ==
    /\ php \in [modes : Seq(PhpModes), scriptTag : BOOLEAN, styleTag : BOOLEAN,
                heredoc : BOOLEAN, prev : PhpItems \union {"none"}, language : BOOLEAN,
                phpScript : BOOLEAN, inside : BOOLEAN, again : {"no", "end", "heredoc"},
                out : PhpTokens]
    /\ phpSeen \in [last : PhpItems \union {"none"}, odd : BOOLEAN]

(* nextToken and the rules push and pop modes on their own accounts: the    *)
(* path stays one that the grammar means, so that what pops two modes has   *)
(* them below it, and the token made for ?> is returned with PHP, and a     *)
(* comment in it, left.                                                     *)
PhpPathOK ==
    /\ PhpTypeOK
    /\ php.modes # <<>> /\ php.modes[1] = "DEFAULT"
    /\ \A i \in 2..Len(php.modes) :
          php.modes[i] # "DEFAULT" /\ php.modes[i - 1] \in Below(php.modes[i])
    /\ php.out = "added_SemiColon" => PhpMode \notin {"PHP", "COMMENT"}

(* The flags agree with the modes, in every page that has none of the four  *)
(* constructs of ComesApart and is not lexed again after reset(): an        *)
(* expression in a string is open where _insideString says so, the tag      *)
(* flags stand for an open tag, and a heredoc is looked for by its own name.*)
PhpFlagsOK ==
    ~phpSeen.odd =>
        /\ php.inside <=>
             \E i \in 2..Len(php.modes) : php.modes[i] = "PHP" /\ php.modes[i - 1] = "INTERPOLATION"
        /\ php.scriptTag \/ php.styleTag => "INSIDE" \in ToSet(php.modes)
        /\ ~(php.scriptTag /\ php.styleTag)
        /\ PhpMode = "HEREDOC" => php.heredoc

---------------------------------------------------------------------------
(* What a comment says, and the code does not do.                           *)

(* "Add semicolon to the end of statement if it is absent."                 *)
SemicolonOnce == php.out = "added_SemiColon" => phpSeen.last \notin EndsStatement
=============================================================================
