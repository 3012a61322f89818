----------------------------- MODULE TestDriver -----------------------------
(***************************************************************************)
(* DoParse of the generated test driver with the lexers of six grammars.    *)
(* With -tokens it calls nextToken() up to EOF, resets the lexer, and lets  *)
(* the parser lex the input again; without, the parser alone lexes it.      *)
(***************************************************************************)
EXTENDS JavaScriptParser, PhpLexer, AntlrLexer, MySQLLexer, PostgreSQLLexer, LuaLexer

CONSTANTS
    Lexers,    \* the grammars of the run, of those named in Fields
    Listed,    \* those whose input is listed first
    MaxItems,  \* bound: items of an input that is only parsed, for each lexer
    MaxListed  \* bound: items of an input that is listed and parsed

VARIABLES
    lexer,       \* the grammar
    showTokens,  \* option -tokens
    pass,        \* "list", "parse", "crashed" or "done"
    n,           \* items lexed in this pass
    input,       \* history: the items of the listed input
    listed,      \* history: the tokens of the first pass
    parsed       \* history: the tokens of the second pass

driver == <<lexer, showTokens, pass, n, input, listed, parsed>>
lexerVars == <<jsVars, phpVars, adVars, myVars, pgVars, luaVars>>

AllItems == JsItems \union PhpItems \union AdItems \union MyItems \union MyTypes
              \union PgItems \union LuaItems

ASSUME LexersAssumption ==
    /\ Lexers \subseteq {"js", "php", "antlr", "mysql", "pg", "lua"} /\ Listed \subseteq Lexers
    /\ MaxItems \in [Lexers -> Nat] /\ MaxListed \in Nat

Init ==
    /\ lexer \in Lexers /\ showTokens \in {b \in BOOLEAN : b => lexer \in Listed}
    /\ pass = IF showTokens THEN "list" ELSE "parse"
    /\ n = 0 /\ input = <<>> /\ listed = <<>> /\ parsed = <<>>
    /\ JsInit /\ PhpInit /\ AdInit /\ MyInit /\ PgInit /\ LuaInit

---------------------------------------------------------------------------
(* The lexer of the grammar takes a step, the others do not exist.          *)
JsMoves   == lexer = "js"    /\ UNCHANGED <<phpVars, adVars, myVars, pgVars, luaVars>>
PhpMoves  == lexer = "php"   /\ UNCHANGED <<jsVars, adVars, myVars, pgVars, luaVars>>
AdMoves   == lexer = "antlr" /\ UNCHANGED <<jsVars, phpVars, myVars, pgVars, luaVars>>
MyMoves   == lexer = "mysql" /\ UNCHANGED <<jsVars, phpVars, adVars, pgVars, luaVars>>
PgMoves   == lexer = "pg"    /\ UNCHANGED <<jsVars, phpVars, adVars, myVars, luaVars>>
LuaMoves  == lexer = "lua"   /\ UNCHANGED <<jsVars, phpVars, adVars, myVars, pgVars>>

Lex(c) ==
    \/ JsMoves /\ c \in JsItems /\ JsStep(c)
    \/ PhpMoves /\ c \in PhpItems /\ PhpStep(c)
    \/ AdMoves /\ c \in AdItems /\ AdStep(c)
    \/ MyMoves /\ MyStep(c)
    \/ PgMoves /\ PgStep(c)
    \/ LuaMoves /\ LuaStep(c)

LexerReset ==
    \/ JsMoves /\ JsReset
    \/ PhpMoves /\ PhpReset
    \/ AdMoves /\ AdReset
    \/ MyMoves /\ MyReset
    \/ PgMoves /\ PgReset
    \/ LuaMoves /\ LuaReset

Out ==
    CASE lexer = "js" -> js.out [] lexer = "php" -> php.out [] lexer = "antlr" -> ad.out
      [] lexer = "mysql" -> my.out.type [] lexer = "pg" -> pg.out [] OTHER -> lua.out

Raised == my.fault # "none" \/ pg.fault # "none"

PassAfter(ended) == IF Raised' THEN "crashed" ELSE IF Out' = "EOF" THEN ended ELSE pass

---------------------------------------------------------------------------
(* Beyond the bound an input only ends.                                     *)
MayExceed(c) == c = "EOF" \/ my.pending # <<>>

(* The loop of -tokens.                                                     *)
ListToken(c) ==
    /\ pass = "list" /\ Out # "EOF" /\ (n < MaxListed \/ MayExceed(c))
    /\ UNCHANGED <<lexer, showTokens, parsed>>
    /\ Lex(c)
    /\ n' = n + 1 /\ input' = Append(input, c) /\ listed' = Append(listed, Out')
    /\ pass' = PassAfter("list")

ResetLexer ==
    /\ pass = "list" /\ Out = "EOF"
    /\ LexerReset
    /\ pass' = "parse" /\ n' = 0
    /\ UNCHANGED <<lexer, showTokens, input, listed, parsed>>

(* parser.<start_symbol>(): the parser calls nextToken().                   *)
ParseToken(c) ==
    /\ pass = "parse" /\ (showTokens \/ n < MaxItems[lexer] \/ MayExceed(c))
    /\ showTokens => c = input[n + 1]
    /\ UNCHANGED <<lexer, showTokens, input, listed>>
    /\ Lex(c)
    /\ n' = n + 1 /\ parsed' = IF showTokens THEN Append(parsed, Out') ELSE parsed
    /\ pass' = PassAfter("done")

(* Another caller than the driver may change a setting of a new lexer.      *)
Configure ==
    /\ ~showTokens /\ n = 0
    /\ (JsMoves /\ SetUseStrictDefault) \/ (MyMoves /\ SetIgnoreSpace)
    /\ UNCHANGED driver

Finished == pass \in {"crashed", "done"} /\ UNCHANGED <<driver, lexerVars>>

Next ==
    \/ ResetLexer \/ Configure \/ Finished
    \/ \E c \in AllItems : ListToken(c) \/ ParseToken(c)

Spec == Init /\ [][Next]_<<driver, lexerVars>>
---------------------------------------------------------------------------
(* Properties.                                                              *)

(* lexer.reset() between the passes: the parser gets the tokens that were   *)
(* listed, all of them; what raises an exception, raises it in the first.   *)
SamePasses ==
    showTokens =>
        /\ IsPrefix(parsed, listed)
        /\ pass = "done" => parsed = listed
        /\ pass = "crashed" => parsed = <<>>
=============================================================================
