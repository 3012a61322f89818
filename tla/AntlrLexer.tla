----------------------------- MODULE AntlrLexer -----------------------------
(***************************************************************************)
(* LexerAdaptor of the ANTLR 4 grammar.  emit() keeps the type of the rule  *)
(* the input is in; at `[` that type decides whether a character set (lexer *)
(* rules) or an argument (everywhere else) begins.  One step is one match   *)
(* of the generated lexer.                                                  *)
(***************************************************************************)
EXTENDS Integers, Sequences, SequencesExt

(* "Id" and "id" are identifiers that begin with a capital and a small      *)
(* letter, "OPTIONS" and "TOKENS" the keywords with their brace, "keyword"  *)
(* grammar, import or mode, "catch" what follows a rule, "text" any other   *)
(* token.                                                                   *)
AdItems == {"Id", "id", "OPTIONS", "TOKENS", "RBRACE", "SEMI", "@", "ACTION", "[", "]",
            "keyword", "catch", "text", "EOF"}

AdTokens == AdItems \union {"none", "BEGIN_ARGUMENT", "END_ARGUMENT", "ARGUMENT_CONTENT",
                            "LEXER_CHAR_SET"}

(* _currentRuleType: none is INVALID_TYPE, lexer TOKEN_REF, parser RULE_REF,*)
(* action AT.                                                               *)
RuleTypes == {"none", "prequel", "options", "action", "lexer", "parser"}

(* Where in a grammar file the input is; in "options" and "option" of the   *)
(* prequel, before and within an option.                                    *)
Places == {"top", "header", "options", "option", "tokens", "action", "lexer", "parser"}

AdModes == {"DEFAULT", "ARGUMENT", "CHARSET"}

VARIABLES
    ad,     \* the rule type, the mode path and the token just returned
    adSeen  \* history: the place, whether in the options of a rule, `[` open

adVars == <<ad, adSeen>>

NewAd == [rule |-> "none", modes |-> <<"DEFAULT">>, out |-> "none"]
NoAdSeen == [place |-> "top", inner |-> FALSE, open |-> 0, ended |-> FALSE]

AdInit == ad = NewAd /\ adSeen = NoAdSeen

AdMode == Last(ad.modes)

---------------------------------------------------------------------------
(* The input is a grammar, or the beginning of one: what may come at each   *)
(* place, and where it leads.                                               *)
InGrammar(c) ==
    c = "EOF" \/
    IF AdMode # "DEFAULT" THEN c \in {"[", "]", "text"}
    ELSE IF adSeen.inner  THEN c \in {"Id", "id", "text", "SEMI", "RBRACE"}
    ELSE CASE
         adSeen.place = "top"       -> c \in {"keyword", "OPTIONS", "TOKENS", "@", "Id", "id",
                                              "catch", "[", "ACTION"}
      [] adSeen.place = "header"    -> c \in {"Id", "id", "SEMI"}
      [] adSeen.place = "options"   -> c \in {"Id", "id", "RBRACE"}
      [] adSeen.place = "option"    -> c \in {"Id", "id", "text", "SEMI"}
      [] adSeen.place = "tokens"    -> c \in {"Id", "id", "RBRACE"}
      [] adSeen.place = "action"    -> c \in {"Id", "id", "text", "ACTION"}
      [] adSeen.place = "lexer"     -> c \in {"Id", "id", "text", "[", "OPTIONS", "SEMI", "ACTION"}
      [] OTHER                      -> c \in {"Id", "id", "text", "[", "OPTIONS", "SEMI", "ACTION", "@"}

PlaceAfter(c) ==
    IF AdMode # "DEFAULT" \/ adSeen.inner THEN adSeen.place
    ELSE CASE
         adSeen.place = "top" ->
            CASE c = "keyword" -> "header" [] c = "OPTIONS" -> "options" [] c = "TOKENS" -> "tokens"
              [] c = "@" -> "action" [] c = "Id" -> "lexer" [] c = "id" -> "parser"
              [] OTHER -> "top"
      [] adSeen.place = "options" -> IF c = "RBRACE" THEN "top" ELSE "option"
      [] adSeen.place = "option"  -> IF c = "SEMI" THEN "options" ELSE "option"
      [] adSeen.place = "tokens"  -> IF c = "RBRACE" THEN "top" ELSE "tokens"
      [] adSeen.place = "action"  -> IF c = "ACTION" THEN "top" ELSE "action"
      [] OTHER                    -> IF c = "SEMI" THEN "top" ELSE adSeen.place

See(c) ==
    adSeen' = [place |-> PlaceAfter(c),
               inner |-> IF AdMode # "DEFAULT" THEN adSeen.inner
                         ELSE (adSeen.place \in {"lexer", "parser"} /\ c = "OPTIONS")
                              \/ (adSeen.inner /\ c # "RBRACE"),
               open  |-> IF AdMode = "CHARSET" THEN 0
                         ELSE CASE c = "[" -> adSeen.open + 1 [] c = "]" -> adSeen.open - 1
                                [] OTHER -> adSeen.open,
               ended |-> IF AdMode # "DEFAULT" THEN adSeen.ended
                         ELSE (adSeen.inner /\ adSeen.place = "parser" /\ c = "SEMI")
                              \/ (adSeen.ended /\ (adSeen.inner \/ c # "SEMI"))]

---------------------------------------------------------------------------
(* emit: the rule type after a token of the default mode.                   *)
RuleAfter_EndsInOptions(c) ==
    CASE c \in {"OPTIONS", "TOKENS"} /\ ad.rule = "none" -> "prequel"
      [] c = "OPTIONS" /\ ad.rule = "lexer"    -> "options"
      [] c = "RBRACE" /\ ad.rule = "prequel"        -> "none"
      [] c = "RBRACE" /\ ad.rule = "options"        -> "lexer"
      [] c = "@" /\ ad.rule = "none"           -> "action"
      [] c = "ACTION" /\ ad.rule = "action"    -> "none"
      [] c = "Id" /\ ad.rule = "none"          -> "lexer"
      [] c = "id" /\ ad.rule = "none"          -> "parser"
      [] c = "SEMI"                               -> "none"
      [] OTHER                                 -> ad.rule

RuleAfter(c) ==
    CASE c \in {"OPTIONS", "TOKENS"} /\ ad.rule = "none" -> "prequel"
      [] c = "OPTIONS" /\ ad.rule = "lexer"    -> "options"
      [] c = "RBRACE" /\ ad.rule = "prequel"        -> "none"
      [] c = "RBRACE" /\ ad.rule = "options"        -> "lexer"
      [] c = "@" /\ ad.rule = "none"           -> "action"
      [] c = "ACTION" /\ ad.rule = "action"    -> "none"
      [] c = "Id" /\ ad.rule = "none"          -> "lexer"
      [] c = "id" /\ ad.rule = "none"          -> "parser"
      [] c = "SEMI" /\ ad.rule # "options"        -> "none"
      [] OTHER                                 -> ad.rule

AdEmit(c) ==
    /\ AdMode = "DEFAULT" /\ c # "["
    /\ ad' = [ad EXCEPT !.rule = RuleAfter(c), !.out = c]

(* handleBeginArgument: a character set is one token with its brackets.     *)
HandleBeginArgument(c) ==
    /\ AdMode = "DEFAULT" /\ c = "["
    /\ ad' = IF ad.rule = "lexer"
             THEN [ad EXCEPT !.modes = Append(@, "CHARSET"), !.out = "none"]
             ELSE [ad EXCEPT !.modes = Append(@, "ARGUMENT"), !.out = "BEGIN_ARGUMENT"]

NestedArgument(c) ==
    /\ AdMode = "ARGUMENT" /\ c = "["
    /\ ad' = [ad EXCEPT !.modes = Append(@, "ARGUMENT"), !.out = "ARGUMENT_CONTENT"]

(* handleEndArgument: the end of a nested argument is content.              *)
EndType_BeforePop(modes) == IF Len(modes) > 1 THEN "ARGUMENT_CONTENT" ELSE "END_ARGUMENT"
EndType(modes) == IF Len(modes) > 2 THEN "ARGUMENT_CONTENT" ELSE "END_ARGUMENT"

HandleEndArgument(c) ==
    /\ AdMode = "ARGUMENT" /\ c = "]"
    /\ ad' = [ad EXCEPT !.modes = Front(@), !.out = EndType(ad.modes)]

EndCharSet(c) ==
    /\ AdMode = "CHARSET" /\ c = "]"
    /\ ad' = [ad EXCEPT !.modes = Front(@), !.out = "LEXER_CHAR_SET"]

(* The rule of a character set that the end of the input cuts off pops the  *)
(* mode.  That of an argument is never tried: the runtime returns EOF.      *)
Content(c) ==
    /\ AdMode # "DEFAULT" /\ c \in {"text", "EOF"} \union (IF AdMode = "CHARSET" THEN {"["} ELSE {})
    /\ ad' = IF c = "EOF"
             THEN [ad EXCEPT !.modes = IF AdMode = "CHARSET" THEN Front(@) ELSE @, !.out = "EOF"]
             ELSE [ad EXCEPT !.out = IF AdMode = "CHARSET" THEN "none" ELSE "ARGUMENT_CONTENT"]

AdStep(c) ==
    /\ ad.out # "EOF" /\ InGrammar(c)
    /\ \/ AdEmit(c) \/ HandleBeginArgument(c) \/ NestedArgument(c) \/ HandleEndArgument(c)
       \/ EndCharSet(c) \/ Content(c)
    /\ See(c)

AdReset == ad' = NewAd /\ adSeen' = NoAdSeen

AdNext == AdReset \/ \E c \in AdItems : AdStep(c)

AdSpec == AdInit /\ [][AdNext]_adVars
---------------------------------------------------------------------------
(* Properties.                                                              *)

(* Every field keeps its range.                                             *)
AdTypeOK ==
    /\ ad \in [rule : RuleTypes, modes : Seq(AdModes), out : AdTokens]
    /\ adSeen \in [place : Places, inner : BOOLEAN, open : Nat, ended : BOOLEAN]

(* emit and handleBeginArgument: where `[` may come, the lexer takes itself *)
(* to be in a lexer rule exactly when it is in one, whatever options,       *)
(* actions, headers and exception handlers came before.  The exception is a *)
(* parser rule with an option in it, up to the end of the rule.             *)
RuleTypeOK ==
    ~adSeen.ended => CASE adSeen.place = "top"    -> ad.rule = "none"
                       [] adSeen.place = "lexer"  -> ad.rule = IF adSeen.inner THEN "options" ELSE "lexer"
                       [] adSeen.place = "parser" -> ad.rule = "parser"
                       [] OTHER                   -> TRUE

(* handleBeginArgument and handleEndArgument: arguments nest as deep as     *)
(* brackets are open, a character set does not nest; and END_ARGUMENT is    *)
(* returned for the bracket that closes the argument, and for no other.     *)
ArgumentsOK ==
    /\ AdTypeOK
    /\ \/ ad.modes = <<"DEFAULT">> \o [i \in 1..adSeen.open |-> "ARGUMENT"]
       \/ ad.modes = <<"DEFAULT", "CHARSET">>
    /\ ad.out \in {"END_ARGUMENT", "ARGUMENT_CONTENT"} =>
          (ad.out = "END_ARGUMENT" <=> AdMode = "DEFAULT" /\ adSeen.open = 0)
=============================================================================
