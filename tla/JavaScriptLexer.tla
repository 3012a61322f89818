--------------------------- MODULE JavaScriptLexer ---------------------------
(***************************************************************************)
(* JavaScriptLexerBase: the strict mode of nested scopes, the braces of     *)
(* template expressions, and the look-behind that tells a regular           *)
(* expression from a division.  One step is one nextToken(): `c` is what    *)
(* the input goes on with, and a rule whose text begins with `c` matches.   *)
(***************************************************************************)
EXTENDS Subsequences, SequencesExt

(* "$brace" begins a template expression and "tick" ends or begins a        *)
(* template; "id" is any token after which no regular expression is         *)
(* possible, "op" any other, "use" the string 'use strict', "str" another.  *)
(* The hidden ones are blanks, a line end, a comment up to the end of the   *)
(* line, and the other kind, on one line or on several.                     *)
JsHidden == {"blanks", "newline", "//", "inline", "multiline"}
JsItems ==
    {"brace", "endbrace", "$brace", "tick", "use", "str", "id", "op", "/", "let", "EOF"}
      \union JsHidden

JsTokens == {"none", "OpenBrace", "CloseBrace", "TemplateCloseBrace", "BackTick",
             "TemplateStringStart", "TemplateStringAtom", "StringLiteral", "Identifier",
             "Punctuator", "RegularExpression", "Divide", "StrictLet", "NonStrictLet",
             "Hidden", "EOF"}

VARIABLES
    js,     \* the fields of the lexer, its mode path and the token just returned
    jsRun,  \* the hidden tokens behind the last one of the default channel
    jsSeen  \* history: how the input nests, and which scopes are strict

jsVars == <<js, jsRun, jsSeen>>

NewJs ==
    [strict |-> FALSE, default |-> FALSE, scopes |-> <<>>, depth |-> 0,
     templates |-> <<>>, modes |-> <<"DEFAULT">>, last |-> "none", out |-> "none"]
NoJsSeen ==
    [open |-> <<>>, file |-> FALSE, directive |-> FALSE, truth |-> <<>>, extra |-> 0, left |-> FALSE]

JsInit == js = NewJs /\ jsRun = <<>> /\ jsSeen = NoJsSeen

JsInDefault == Last(js.modes) = "DEFAULT"

IsInTemplateString_Unclosed == js.templates # <<>>
IsInTemplateString == js.templates # <<>> /\ Last(js.templates) = js.depth

IsRegexPossible ==
    js.last \notin {"Identifier", "StringLiteral"}

(* nextToken records the tokens of the default channel.                     *)
JsReturn(s, token) ==
    [s EXCEPT !.out = token, !.last = IF token = "Hidden" THEN @ ELSE token]

(* Whether the innermost scope is strict.                                   *)
JsTruth == IF jsSeen.truth = <<>> THEN jsSeen.file ELSE Last(jsSeen.truth)

---------------------------------------------------------------------------
(* ProcessOpenBrace.                                                        *)
ScopeMode_Current == js.strict
ScopeMode == js.scopes # <<>> /\ (Last(js.scopes) \/ js.default)

JsOpenBrace(c) ==
    /\ c = "brace" /\ JsInDefault
    /\ js' = JsReturn([js EXCEPT !.depth = @ + 1, !.strict = ScopeMode,
                                 !.scopes = Append(@, ScopeMode)], "OpenBrace")
    /\ jsSeen' = [jsSeen EXCEPT !.open = Append(@, "brace"), !.truth = Append(@, JsTruth),
                                !.left = FALSE]

(* ProcessCloseBrace: the current mode becomes that of the scope left.      *)
JsCloseBrace(c) ==
    /\ c = "endbrace" /\ JsInDefault /\ ~IsInTemplateString
    /\ js' = JsReturn([js EXCEPT !.depth = @ - 1, !.strict = ScopeMode,
                                 !.scopes = IF @ = <<>> THEN @ ELSE Front(@)], "CloseBrace")
    /\ jsSeen' = IF jsSeen.open = <<>> THEN [jsSeen EXCEPT !.extra = @ + 1, !.left = TRUE]
                 ELSE [jsSeen EXCEPT !.open = Front(@), !.truth = Front(@), !.left = TRUE]

JsTemplateCloseBrace(c) ==
    /\ c = "endbrace" /\ JsInDefault /\ IsInTemplateString
    /\ js' = JsReturn([js EXCEPT !.depth = @ - 1, !.templates = Front(@), !.modes = Front(@)],
                      "TemplateCloseBrace")
    /\ jsSeen' = [jsSeen EXCEPT !.open = Front(@)]

JsTemplateOpenBrace(c) ==
    /\ c = "$brace" /\ ~JsInDefault
    /\ js' = JsReturn([js EXCEPT !.depth = @ + 1, !.templates = Append(@, js.depth + 1),
                                 !.modes = Append(@, "DEFAULT")], "TemplateStringStart")
    /\ jsSeen' = [jsSeen EXCEPT !.open = Append(@, "$brace")]

JsBackTick(c) ==
    /\ c = "tick"
    /\ js' = JsReturn([js EXCEPT !.modes = IF JsInDefault THEN Append(@, "TEMPLATE") ELSE Front(@)],
                      "BackTick")
    /\ jsSeen' = [jsSeen EXCEPT !.open = IF JsInDefault THEN Append(@, "tick") ELSE Front(@)]

(* ProcessStringLiteral: the directive stands first in the file or in a     *)
(* scope, and replaces the mode of the scope on top of the stack.           *)
IsDirective(c) == c = "use" /\ js.last \in {"none", "OpenBrace"}

JsStringLiteral(c) ==
    /\ c \in {"use", "str"} /\ JsInDefault
    /\ \/ /\ IsDirective(c)
          /\ js' = JsReturn([js EXCEPT !.strict = TRUE,
                    !.scopes = Append(IF @ = <<>> THEN @ ELSE Front(@), TRUE)], "StringLiteral")
          /\ jsSeen' = IF jsSeen.truth = <<>>
                       THEN [jsSeen EXCEPT !.file = TRUE, !.directive = TRUE, !.left = FALSE]
                       ELSE [jsSeen EXCEPT !.truth = Append(Front(@), TRUE), !.left = FALSE]
       \/ /\ ~IsDirective(c)
          /\ js' = JsReturn(js, "StringLiteral")
          /\ UNCHANGED jsSeen

(* Every other rule, with the predicates of the grammar.                    *)
JsTokenOf(c) ==
    IF ~JsInDefault THEN "TemplateStringAtom"
    ELSE CASE
         c = "id"     -> "Identifier"
      [] c = "op"     -> "Punctuator"
      [] c = "/"      -> IF IsRegexPossible THEN "RegularExpression" ELSE "Divide"
      [] c = "let"    -> IF js.strict THEN "StrictLet" ELSE "NonStrictLet"
      [] c \in JsHidden -> "Hidden"
      [] OTHER        -> "EOF"

JsOther(c) ==
    /\ c \in IF JsInDefault THEN JsHidden \union {"id", "op", "/", "let", "EOF"}
             ELSE {"brace", "id", "EOF"}
    /\ js' = JsReturn(js, IF c = "EOF" THEN c ELSE JsTokenOf(c))
    /\ UNCHANGED jsSeen

(* Blanks are one token, and a comment of one line ends with it.            *)
JsMayFollow(c) ==
    /\ jsRun # <<>> /\ Last(jsRun) = "blanks" => c # "blanks"
    /\ jsRun # <<>> /\ Last(jsRun) = "//" => c \in {"newline", "EOF"}

JsStep(c) ==
    /\ js.out # "EOF" /\ JsMayFollow(c)
    /\ \/ JsOpenBrace(c) \/ JsCloseBrace(c)
       \/ JsTemplateOpenBrace(c) \/ JsTemplateCloseBrace(c) \/ JsBackTick(c)
       \/ JsStringLiteral(c) \/ JsOther(c)
    /\ jsRun' = IF c \in JsHidden THEN Append(jsRun, c) ELSE <<>>

(* reset(), the default mode included.                                      *)
JsReset_KeepsToken == js' = [NewJs EXCEPT !.last = js.last] /\ jsRun' = <<>> /\ jsSeen' = NoJsSeen
JsReset == js' = NewJs /\ jsRun' = <<>> /\ jsSeen' = NoJsSeen

(* setUseStrictDefault, before the first token.                             *)
SetUseStrictDefault ==
    /\ js.out = "none"
    /\ js' = [js EXCEPT !.default = TRUE, !.strict = TRUE]
    /\ jsSeen' = [jsSeen EXCEPT !.file = TRUE]
    /\ UNCHANGED jsRun

JsNext == JsReset \/ SetUseStrictDefault \/ \E c \in JsItems : JsStep(c)

JsSpec == JsInit /\ [][JsNext]_jsVars
---------------------------------------------------------------------------
(* Properties.                                                              *)

(* Every field keeps its range.                                             *)
JsTypeOK ==
    /\ js \in [strict : BOOLEAN, default : BOOLEAN, scopes : Seq(BOOLEAN), depth : Int,
               templates : Seq(Int), modes : Seq({"DEFAULT", "TEMPLATE"}),
               last : JsTokens, out : JsTokens]
    /\ jsSeen \in [open : Seq({"brace", "$brace", "tick"}), file : BOOLEAN, directive : BOOLEAN,
                   truth : Seq(BOOLEAN), extra : Nat, left : BOOLEAN]
    /\ jsRun \in Seq(JsHidden)

(* The predicate of TemplateCloseBrace compares two depths that braces of   *)
(* all kinds count.  However the input nests, and however many braces were  *)
(* closed that nothing opened, it holds where "$brace" is the innermost     *)
(* opening, each "$brace" remembers the depth it has in the nesting, and    *)
(* pushMode and popMode follow the nesting of templates: the mode stack is  *)
(* never popped empty.                                                      *)
Count(s, x) == Len(OnlyIn(s, {x}))
Braces(s) == Count(s, "brace") + Count(s, "$brace")

TemplateBracesOK ==
    /\ JsTypeOK
    /\ JsInDefault => (IsInTemplateString <=> jsSeen.open # <<>> /\ Last(jsSeen.open) = "$brace")
    /\ js.depth = Braces(jsSeen.open) - jsSeen.extra
    /\ Len(js.templates) = Count(jsSeen.open, "$brace")
    /\ LET literal == OnlyIn(jsSeen.open, {"$brace", "tick"})
       IN  js.modes = <<"DEFAULT">> \o [i \in 1..Len(literal) |->
                         IF literal[i] = "tick" THEN "TEMPLATE" ELSE "DEFAULT"]

(* scopeStrictModes holds the mode of every open scope, with the file's     *)
(* below when a directive made it strict: a scope is strict when it or a    *)
(* scope around it has the directive.  The current mode is right in a scope *)
(* until an inner one is left.                                              *)
ScopesOK ==
    jsSeen.extra = 0 /\ ~js.default =>
        /\ js.scopes = (IF jsSeen.directive THEN <<TRUE>> ELSE <<>>) \o jsSeen.truth
        /\ jsSeen.left \/ js.strict = JsTruth

---------------------------------------------------------------------------
(* What a comment says, and the code does not do.                           *)

(* "Current value of strict mode": without a strict default, the current    *)
(* mode is that of the innermost scope also when an inner one was just left *)
(* (ProcessCloseBrace).                                                     *)
LeftMode == jsSeen.left /\ jsSeen.extra = 0 /\ ~js.default => js.strict = JsTruth
=============================================================================
