----------------------------- MODULE MySQLLexer -----------------------------
(***************************************************************************)
(* MySQLLexerBase: `.name` is one match that makes two tokens, the second   *)
(* of which waits in a queue; a function name is one only in front of a     *)
(* parenthesis; a flag remembers an open version comment.  One step is one  *)
(* nextToken().                                                             *)
(***************************************************************************)
EXTENDS Integers, Sequences, SequencesExt

(* What the input goes on with.  "call" is the name of a function before a  *)
(* parenthesis, "call_" with blanks between, "fn" before another character, *)
(* "fn_" with blanks between, "fn$" before the end of the input; "num" is a *)
(* number; "/*!8" and "/*!9" are comments up to their end for the version   *)
(* of the server and a later one; "text" is any other token.                *)
MyItems == {".id", "call", "call_", "fn", "fn_", "fn$", "num", "/*!", "/*!8", "/*!9", "*/",
            "text", "EOF"}

(* An item is two characters wide, so that a dot may be the first of them.  *)
MyWidth == 2

MyTypes == {"none", "DOT_SYMBOL", "IDENTIFIER", "FUNCTION", "INT_NUMBER", "MYSQL_COMMENT_START",
            "VERSION_COMMENT_START", "VERSION_COMMENT_END", "MULT_OPERATOR", "TEXT", "EOF"}

(* A token: its type, its first and last character, whether it is hidden.   *)
MyToken == [type : MyTypes, start : Nat, stop : Int, hidden : BOOLEAN]
NoToken == [type |-> "none", start |-> 0, stop |-> -1, hidden |-> FALSE]

VARIABLES
    my,     \* the fields of the lexer and the token just returned
    mySeen  \* history: characters and last item matched, end of the token before

myVars == <<my, mySeen>>

NoMySeen == [at |-> 0, item |-> "none", before |-> -1]

MyInit ==
    /\ my = [pending |-> <<>>, dot |-> FALSE, comment |-> FALSE, space |-> FALSE,
             fault |-> "none", out |-> NoToken]
    /\ mySeen = NoMySeen

---------------------------------------------------------------------------
(* determineFunction: in the mode IgnoreSpace blanks are consumed, and hide *)
(* the token.  chr(-1) raises ValueError at the end of the input.           *)
DetermineFunction(c) ==
    IF c = "call" \/ (c = "call_" /\ my.space) THEN "FUNCTION" ELSE "IDENTIFIER"
HiddenByBlanks(c) == my.space /\ c \in {"call_", "fn_"}

(* checkMySQLVersion and determineNumericType are given self._text, which   *)
(* is None while the generated lexer has not made the token.                *)
TokenText == "None"
CheckMySQLVersion(text, c) == text # "None" /\ c = "/*!8"
DetermineNumericType(text) == IF text = "None" THEN "INT_NUMBER" ELSE "by_its_digits"

(* The type the rule of `c` gives its token.                                *)
MyTypeOf(c) ==
    CASE c = ".id"                                -> "IDENTIFIER"
      [] c \in {"call", "call_", "fn", "fn_"}     -> DetermineFunction(c)
      [] c = "num"                                -> DetermineNumericType(TokenText)
      [] c = "/*!"                                -> "MYSQL_COMMENT_START"
      [] c \in {"/*!8", "/*!9"}                   -> "VERSION_COMMENT_START"
      [] c = "*/" /\ my.comment                   -> "VERSION_COMMENT_END"
      [] c = "*/" /\ ~my.comment                  -> "MULT_OPERATOR"
      [] c = "text"                               -> "TEXT"
      [] OTHER                                    -> "EOF"

(* The actions of the rules.                                                *)
InVersionComment(c) ==
    CASE c = "/*!"                -> TRUE
      [] c \in {"/*!8", "/*!9"}   -> my.comment \/ CheckMySQLVersion(TokenText, c)
      [] c = "*/"                 -> FALSE
      [] OTHER                    -> my.comment

(* emitDot: the token of the dot, before the match is made a token.         *)
EmitDot(c) ==
    IF c # ".id" THEN my.pending
    ELSE Append(my.pending, [type |-> "DOT_SYMBOL", start |-> mySeen.at,
                             stop |-> mySeen.at, hidden |-> FALSE])

(* emit: the identifier behind a dot begins one character later.            *)
MyEmit(c) ==
    LET trim == my.dot \/ c = ".id"   \* justEmitedDot
    IN  [type   |-> MyTypeOf(c),
         start  |-> IF trim THEN mySeen.at + 1 ELSE mySeen.at,
         stop   |-> IF c = "EOF" THEN mySeen.at - 1 ELSE mySeen.at + MyWidth - 1,
         hidden |-> HiddenByBlanks(c) \/ c \in {"/*!", "/*!8", "/*!9"} \/ (c = "*/" /\ my.comment)]

JustEmittedDot_Kept(c) == my.dot \/ c = ".id"
JustEmittedDot(c) == FALSE

(* nextToken, when a token is pending.                                      *)
Pending(c) ==
    /\ my.pending # <<>> /\ c = Head(my.pending).type
    /\ my' = [my EXCEPT !.pending = Tail(@), !.out = Head(my.pending)]
    /\ mySeen' = [mySeen EXCEPT !.before = my.out.stop]

(* nextToken, otherwise: a token that the match left pending comes first.   *)
Queued(queue, t) == Append(queue, t)

NothingPending == my.pending = <<>>

MyMatch(c) ==
    /\ NothingPending /\ c # "fn$"
    /\ LET queue == Queued(EmitDot(c), MyEmit(c))
       IN  my' = [my EXCEPT !.pending = Tail(queue), !.out = Head(queue), !.dot = JustEmittedDot(c),
                            !.comment = InVersionComment(c)]
    /\ mySeen' = [at |-> mySeen.at + (IF c = "EOF" THEN 0 ELSE MyWidth),
                  item |-> c, before |-> my.out.stop]

NameAtTheEnd(c) ==
    /\ NothingPending /\ c = "fn$"
    /\ my' = [my EXCEPT !.fault = "ValueError"]
    /\ mySeen' = [mySeen EXCEPT !.item = c]

MyStep(c) ==
    /\ my.fault = "none" /\ my.out.type # "EOF"
    /\ Pending(c) \/ (c \in MyItems /\ (MyMatch(c) \/ NameAtTheEnd(c)))

(* reset().                                                                 *)
MyReset == my' = [my EXCEPT !.comment = FALSE, !.out = NoToken] /\ mySeen' = NoMySeen

(* The caller sets sqlModes before the first token.                         *)
SetIgnoreSpace ==
    /\ mySeen.item = "none" /\ my.out = NoToken
    /\ my' = [my EXCEPT !.space = TRUE]
    /\ UNCHANGED mySeen

---------------------------------------------------------------------------
(* Properties.                                                              *)

(* Every field keeps its range.                                             *)
MyTypeOK ==
    /\ my.pending \in Seq(MyToken) /\ my.out \in MyToken
    /\ my.dot \in BOOLEAN /\ my.comment \in BOOLEAN /\ my.space \in BOOLEAN
    /\ my.fault \in {"none", "ValueError"}

(* emitDot, emit and nextToken: the tokens returned, and the one that       *)
(* waits, are laid end to end: no character of the input is in two tokens   *)
(* or in none, and a dot comes before its name.  At most one token waits,   *)
(* and none once EOF has been returned, when reset() leaves the queue as it *)
(* is.                                                                      *)
TokensTile ==
    /\ MyTypeOK
    /\ Len(my.pending) <= 1 /\ (my.out.type = "EOF" => my.pending = <<>>)
    /\ my.fault = "none" /\ mySeen.item # "none" =>
        /\ my.out.start = mySeen.before + 1
        /\ my.pending # <<>> => Head(my.pending).start = my.out.stop + 1
        /\ mySeen.at = (IF my.pending = <<>> THEN my.out.stop ELSE Last(my.pending).stop) + 1

---------------------------------------------------------------------------
(* What a comment says, and the code does not do.                           *)

(* "Will set this.inVersionComment if the number matches."                  *)
VersionMatches == mySeen.item = "/*!8" => my.comment
=============================================================================
