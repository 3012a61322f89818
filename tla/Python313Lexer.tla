--------------------------- MODULE Python313Lexer ---------------------------
(***************************************************************************)
(* PythonLexerBase of the Python 3.13 grammar: the class between the ANTLR  *)
(* lexer and the parser.  Each call of nextToken() reads raw tokens from    *)
(* the generated lexer (super().nextToken()), queues them with the ENCODING,*)
(* INDENT, DEDENT, NEWLINE and FSTRING_MIDDLE tokens it makes up, switches  *)
(* the lexer mode while it walks through f-strings, and pops one token.     *)
(*                                                                          *)
(* A call runs through the values of pc: "idle" (between two calls),        *)
(* "leading" (the loop over the tokens before the first statement),         *)
(* "dispatch" (cur_token is set, its case is next), "finish" (the check for *)
(* a missing format specification and the pop).  "fresh" is a lexer just    *)
(* constructed or reset, "failed" one whose call ended in an exception.     *)
(*                                                                          *)
(* The generated lexer is external: in each mode it returns any token of    *)
(* that mode's rules.  It reads its mode when the raw token is read.        *)
(***************************************************************************)
EXTENDS PyTokenQueue

CONSTANTS
    MaxRaw,     \* bound: raw tokens before EOF in one input
    Quotes,     \* f-string openings: the 8 pairs of lexer modes, or some of them
    RawTypes,   \* default-mode token types of the run's inputs
    WsTexts,    \* texts of the WS tokens
    MidTexts    \* texts of the FSTRING_MIDDLE tokens, up to their last characters

ASSUME BoundAssumption == MaxRaw \in Nat
ASSUME QuoteAssumption == Quotes \subseteq AllQuotes
ASSUME RawTypesAssumption ==
    RawTypes \subseteq (Types \ {"none", "INDENT", "DEDENT", "ENCODING", "EOF", "WS",
                                 "FSTRING_START", "FSTRING_MIDDLE", "FSTRING_END"})
ASSUME TextAssumption ==
    /\ WsTexts \subseteq Seq(Blanks) \ {<<>>}
    /\ MidTexts \subseteq Seq(Chars) \ {<<>>}

VARIABLES
    pc,        \* where the current call of nextToken() stands
    read,      \* raw tokens read from the generated lexer so far
    cur,       \* cur_token
    ffg,       \* ffg_token, the token one ahead
    fs,        \* lexer mode, mode stack, brackets opened per f-string expression
    opened,    \* brackets of any kind opened and not closed
    ind,       \* indentation stack and flags
    out,       \* the pending queue
    heard,     \* history: what the caller of nextToken() has received
    reported,  \* whether the error listeners were called
    fault      \* the exception that ended the last call, or "none"

vars == <<pc, read, cur, ffg, fs, opened, ind, out, heard, reported, fault>>

---------------------------------------------------------------------------
(* Lexer modes.  mode_map turns the text of FSTRING_START into the mode of  *)
(* its quotes; each has a format-specification mode of its own.             *)

DEFAULT_MODE == <<"default", "">>
FSTRING_MODE(q) == <<"fstring", q>>
SPEC_MODE(q) == <<"spec", q>>

NoFString == [mode |-> DEFAULT_MODE, modes |-> <<>>, parens |-> <<>>]

InFString == fs.modes # <<>>

PushMode(f, m) == [f EXCEPT !.mode = m, !.modes = Append(@, f.mode)]
PopMode(f) == [f EXCEPT !.mode = Last(f.modes), !.modes = Front(f.modes)]
AddParens_Stacked(f, n) == [f EXCEPT !.parens = IF n = 1 THEN Append(@, 0) ELSE Front(@)]
AddParens(f, n) == [f EXCEPT !.parens[Len(f.parens)] = @ + n]

LastTwoChars(text) ==
    IF Len(text) >= 2 THEN SubSeq(text, Len(text) - 1, Len(text)) ELSE text

EndsInDouble(t) == LastTwoChars(t.text) \in {<<"{", "{">>, <<"}", "}">>}
EndsInLbrace(t) == LastTwoChars(t.text) \in {<<"'", "{">>, <<"\"", "{">>, <<"\\", "{">>}

(* A FSTRING_MIDDLE whose quote or backslash swallowed the opening brace of *)
(* an expression is cut in two: the shortened token, and the brace.         *)
CutsLbrace(t) == t.type = "FSTRING_MIDDLE" /\ EndsInLbrace(t)

Trimmed(t) == [t EXCEPT !.text = Front(@)]
CutOff(t, type, ch) == [t EXCEPT !.type = type, !.text = <<Last(t.text)>>, !.ch = ch]

(* set_lexer_mode_by_COLON_or_COLONEQUAL: only a colon outside brackets,    *)
(* directly inside an f-string brace, starts a format specification.        *)
AfterColon(f) ==
    IF Last(f.parens) = 0 /\ Last(f.modes)[1] \in {"fstring", "spec"}
    THEN PushMode(f, SPEC_MODE(Last(f.modes)[2]))
    ELSE f

(* set_lexer_mode_after_RBRACE and pop_by_RBRACE: out of the expression,    *)
(* and first out of its format specification when there is one.             *)
AfterRbrace_KeepsSpec(f) ==
    IF f.mode[1] = "fstring" THEN f ELSE [PopMode(f) EXCEPT !.parens = Front(@)]

AfterRbrace(f) ==
    LET g == IF f.mode[1] = "spec" THEN PopMode(PopMode(f)) ELSE PopMode(f)
    IN  IF f.mode[1] = "fstring" THEN f ELSE [g EXCEPT !.parens = Front(@)]

(* check_cur_token: the mode and bracket stacks once `t` is the current     *)
(* token.                                                                   *)
ModesAfter(f, t) ==
    CASE t.type = "FSTRING_START"                         -> PushMode(f, FSTRING_MODE(t.text[1]))
      [] t.type = "FSTRING_END"                           -> PopMode(f)
      [] f.modes # <<>> /\ t.type = "LBRACE" ->
            PushMode([f EXCEPT !.parens = Append(@, 0)], DEFAULT_MODE)
      [] f.modes # <<>> /\ t.type = "LPAR"                -> AddParens(f, 1)
      [] f.modes # <<>> /\ t.type = "RPAR"                -> AddParens(f, -1)
      [] f.modes # <<>> /\ t.type \in {"COLON", "COLONEQUAL"} -> AfterColon(f)
      [] f.modes # <<>> /\ t.type = "RBRACE"              -> AfterRbrace(f)
      [] OTHER                                            -> f

(* Where check_cur_token would raise IndexError: a pop of an empty mode     *)
(* stack, and an access to the expression or bracket stack (the code pushes *)
(* and pops the two together) when no f-string brace is open.               *)
ModeUnderflow(f, t) ==
    \/ t.type = "FSTRING_END" /\ f.modes = <<>>
    \/ t.type = "RBRACE" /\ f.mode[1] = "spec" /\ Len(f.modes) < 2

NoOpenBrace(f, t) ==
    /\ f.modes # <<>> /\ f.parens = <<>>
    /\ t.type \notin {"FSTRING_START", "FSTRING_MIDDLE", "FSTRING_END", "LBRACE"}
    /\ ~(t.type = "RBRACE" /\ f.mode[1] = "fstring")
---------------------------------------------------------------------------
(* The generated lexer.                                                     *)

EofToken(n) == RawToken("EOF", <<>>, n)

DefaultTokens(n) ==
    {RawToken(type, <<>>, n) : type \in RawTypes}
      \union {RawToken("WS", text, n) : text \in WsTexts}
      \union {RawToken("FSTRING_START", <<q>>, n) : q \in Quotes}

FStringTokens(n) ==
    {RawToken("FSTRING_MIDDLE", text, n) : text \in MidTexts}
      \union {RawToken("LBRACE", <<>>, n), RawToken("FSTRING_END", <<>>, n)}

(* A format specification is made of plain characters and braces.           *)
SpecTokens(n) ==
    {RawToken("FSTRING_MIDDLE", <<"x">>, n), RawToken("LBRACE", <<>>, n), RawToken("RBRACE", <<>>, n)}

(* What may be read after `t`, with n raw tokens read so far.               *)
Raw(mode, t, n) ==
    LET more == CASE mode[1] = "default" -> DefaultTokens(n + 1)
                  [] mode[1] = "fstring" -> FStringTokens(n + 1)
                  [] mode[1] = "spec"    -> SpecTokens(n + 1)
    IN  {EofToken(n + 1)} \union (IF n < MaxRaw THEN {r \in more : MayFollow(t, r)} ELSE {})

---------------------------------------------------------------------------
(* What the caller has received before the first token.                     *)
NothingHeard == [line |-> "first", phase |-> "fresh", got |-> 0]

---------------------------------------------------------------------------
ProgramCounters == {"fresh", "leading", "dispatch", "finish", "idle", "failed"}
Faults == {"none", "empty mode stack", "no open brace", "empty queue", "no such method"}
Modes == {DEFAULT_MODE} \union ({"fstring", "spec"} \X Quotes)
FStringState == [mode : Modes, modes : Seq(Modes), parens : Seq(Int)]

TypeOK ==
    /\ pc \in ProgramCounters /\ read \in Nat
    /\ cur \in Token /\ ffg \in Token
    /\ fs \in FStringState /\ opened \in Int
    /\ ind \in Indentation
    /\ out \in Queue
    /\ heard \in Heard
    /\ reported \in BOOLEAN /\ fault \in Faults

Init ==
    /\ pc = "fresh" /\ read = 0
    /\ cur = NoToken /\ ffg = NoToken
    /\ fs = NoFString /\ opened = 0
    /\ ind = NoIndentation
    /\ out = EmptyQueue
    /\ heard = NothingHeard
    /\ reported = FALSE /\ fault = "none"

(* An exception leaves nextToken(); what it had assigned stays assigned.    *)
Fail(exception) == pc' = "failed" /\ fault' = exception

Goto(label) == pc' = label /\ UNCHANGED fault

(* check_cur_token on `t`: the token that is current after it.              *)
Checked_ShowsNewline(t) == IF CutsLbrace(t) THEN CutOff(t, "LBRACE", "default") ELSE t

Checked(t) ==
    IF CutsLbrace(t) THEN CutOff(t, "LBRACE", "default")
    ELSE IF t.type = "NEWLINE" /\ InFString THEN [t EXCEPT !.ch = "hidden"]
    ELSE t

(* The token after the current token c, read in the mode that c leaves.     *)
Following_InOldMode(c, t, n) ==
    IF c.type = "EOF" THEN {c} ELSE Raw(fs.mode, t, n)

Following(c, t, n) ==
    IF c.type = "EOF" THEN {c} ELSE Raw(ModesAfter(fs, c).mode, t, n)

(* set_current_and_following_tokens: `t` becomes the current token and is   *)
(* checked, which may queue the first half of a cut token behind q, before  *)
(* the token after it is read.                                              *)
SetCurrentAndFollowing(t, n, q, next) ==
    LET c == Checked(t)
        failure == IF ModeUnderflow(fs, c) THEN "empty mode stack"
                   ELSE IF NoOpenBrace(fs, c) THEN "no open brace" ELSE "none"
    IN  /\ cur' = c
        /\ out' = IF CutsLbrace(t) THEN AddPending(q, Trimmed(t)) ELSE q
        /\ \/ /\ failure # "none"
              /\ Fail(failure)
              /\ read' = n
              /\ UNCHANGED <<fs, ffg>>
           \/ /\ failure = "none"
              /\ fs' = ModesAfter(fs, c)
              /\ ffg' \in Following(c, t, n)
              /\ read' = ffg'.pos
              /\ Goto(next)

(* pending_tokens.popleft()                                                 *)
Pop(q) ==
    IF q.pending = <<>>
    THEN /\ Fail("empty queue")
         /\ out' = q
         /\ UNCHANGED heard
    ELSE /\ Goto("idle")
         /\ out' = [q EXCEPT !.pending = Tail(@)]
         /\ heard' = HeardAfter(heard, Head(q.pending))

---------------------------------------------------------------------------
(* The start of the input.                                                  *)

ENCODING_TOKEN == [MadeToken("ENCODING", <<>>) EXCEPT !.ch = "hidden"]

Begin ==
    /\ pc = "fresh"
    /\ \E t \in Raw(DEFAULT_MODE, NoToken, 0) :
          SetCurrentAndFollowing(t, 1, AddPending(out, ENCODING_TOKEN), "leading")
    /\ ind' = [ind EXCEPT !.stack = <<0>>]
    /\ UNCHANGED <<opened, heard, reported>>

(* Before the first statement every NEWLINE is hidden.                      *)
BeforeStatement == cur.type # "EOF" /\ (cur.ch = "hidden" \/ cur.type = "NEWLINE")

SkipLeading ==
    /\ pc = "leading" /\ BeforeStatement
    /\ SetCurrentAndFollowing(ffg, read, HideAndAdd(out, cur), "leading")
    /\ UNCHANGED <<opened, ind, heard, reported>>

(* insert_leading_indent_token: the INDENT is queued, the stack stays.      *)
EndLeading ==
    /\ pc = "leading" /\ ~BeforeStatement
    /\ LET afterWs == cur.type # "EOF" /\ out.prev = "WS"
           text == Last(out.pending).text
           indented == afterWs /\ IndentLength(ind, text) # 0
       IN  /\ ind' = IF afterWs THEN Measured(ind, text) ELSE ind
           /\ out' = IF indented THEN AddPending(out, LEADING_INDENT) ELSE out
           /\ reported' = (reported \/ indented)
    /\ Goto("dispatch")
    /\ UNCHANGED <<read, cur, ffg, fs, opened, heard>>

(* The first half of a later call.                                          *)
Fetch ==
    /\ pc = "idle" /\ out.prev # "EOF"
    /\ SetCurrentAndFollowing(ffg, read, out, "dispatch")
    /\ UNCHANGED <<opened, ind, heard, reported>>

---------------------------------------------------------------------------
(* The cases of check_next_token.                                           *)

At(types) == pc = "dispatch" /\ cur.type \in types

AddCurrent == out' = AddPending(out, cur) /\ Goto("finish")

NewlineInFString ==
    /\ At({"NEWLINE"}) /\ InFString
    /\ AddCurrent
    /\ UNCHANGED <<read, cur, ffg, fs, opened, ind, heard, reported>>

(* Implicit line joining.                                                   *)
NewlineInBrackets ==
    /\ At({"NEWLINE"}) /\ ~InFString /\ opened > 0
    /\ out' = HideAndAdd(out, cur)
    /\ Goto("finish")
    /\ UNCHANGED <<read, cur, ffg, fs, opened, ind, heard, reported>>

EndsLine == At({"NEWLINE"}) /\ ~InFString /\ opened <= 0

(* A blank line or a comment follows: the NEWLINE is ignored.               *)
BeforeBlank_NoComment(t) == t.type = "NEWLINE"
BeforeBlank(t) == t.type \in {"NEWLINE", "COMMENT"}

(* insert_INDENT_or_DEDENT_token, with the tokens behind queue q.           *)
InsertLevels(q, i, len) ==
    /\ out' = AddAll(q, LevelTokens(i.stack, len))
    /\ ind' = Levelled(i, len)
    /\ reported' = (reported \/ BadDedent(i.stack, len))

NewlineNoWs ==
    /\ EndsLine /\ ffg.type # "WS"
    /\ \/ /\ BeforeBlank(ffg)
          /\ out' = HideAndAdd(out, cur)
          /\ UNCHANGED <<ind, reported>>
       \/ /\ ~BeforeBlank(ffg)
          /\ InsertLevels(AddPending(out, cur), ind, 0)
    /\ Goto("finish")
    /\ UNCHANGED <<read, cur, ffg, fs, opened, heard>>

(* A WS token follows: the lexer moves on to it, and looks at the token     *)
(* after it.  A WS token that mixes tabs and spaces for the first time is   *)
(* replaced by an error token.                                              *)
NewlineThenWs ==
    /\ EndsLine /\ ffg.type = "WS"
    /\ \E r \in Raw(fs.mode, ffg, read) :
          /\ ffg' = r /\ read' = r.pos
          /\ \/ /\ BeforeBlank(r)
                /\ out' = AddPending(HideAndAdd(out, cur), ffg)
                /\ UNCHANGED <<ind, reported>>
             \/ /\ r.type = "EOF"
                /\ InsertLevels(AddPending(AddPending(out, cur), ffg), ind, 0)
             \/ /\ ~BeforeBlank(r) /\ r.type # "EOF" /\ ~FirstMix(ind, ffg.text)
                /\ InsertLevels(AddPending(AddPending(out, cur), ffg),
                                Measured(ind, ffg.text), IndentLength(ind, ffg.text))
             \/ /\ ~BeforeBlank(r) /\ r.type # "EOF" /\ FirstMix(ind, ffg.text)
                /\ ind' = Measured(ind, ffg.text)
                /\ out' = AddPending(AddPending(out, cur), BAD_TABS)
                /\ reported' = TRUE
    /\ cur' = ffg
    /\ Goto("finish")
    /\ UNCHANGED <<fs, opened, heard>>

OpenBracket ==
    /\ At({"LPAR", "LBRACE"})
    /\ opened' = opened + 1
    /\ AddCurrent
    /\ UNCHANGED <<read, cur, ffg, fs, ind, heard, reported>>

CloseBracket ==
    /\ At({"RPAR", "RBRACE"})
    /\ opened' = opened - 1
    /\ AddCurrent
    /\ UNCHANGED <<read, cur, ffg, fs, ind, heard, reported>>

(* A trailing double brace becomes a single one and a hidden brace token.   *)
FStringMiddle_Twice ==
    /\ At({"FSTRING_MIDDLE"})
    /\ out' = IF EndsInDouble(cur) THEN AddPending(AddPending(out, Trimmed(cur)), cur)
              ELSE AddPending(out, cur)
    /\ Goto("finish")
    /\ UNCHANGED <<read, cur, ffg, fs, opened, ind, heard, reported>>

FStringMiddle ==
    /\ At({"FSTRING_MIDDLE"})
    /\ cur' = IF ~EndsInDouble(cur) THEN cur
              ELSE CutOff(cur, IF Last(cur.text) = "{" THEN "LBRACE" ELSE "RBRACE", "hidden")
    /\ out' = IF cur' = cur THEN AddPending(out, cur)
              ELSE AddPending(AddPending(out, Trimmed(cur)), cur')
    /\ Goto("finish")
    /\ UNCHANGED <<read, ffg, fs, opened, ind, heard, reported>>

(* Outside brackets `:=` is a colon, and the `=` belongs to the format      *)
(* specification: it is put in front of the FSTRING_MIDDLE that follows.    *)
(* When none follows the code calls create_new_current_token, which the     *)
(* class does not have.                                                     *)
WalrusInSpec == At({"COLONEQUAL"}) /\ InFString /\ Last(fs.parens) = 0

ColonEqualInSpec ==
    /\ WalrusInSpec
    /\ cur' = [cur EXCEPT !.type = "COLON"]
    /\ out' = AddPending(out, cur')
    /\ \/ /\ ffg.type = "FSTRING_MIDDLE"
          /\ ffg' = [ffg EXCEPT !.text = <<"=">> \o @]
          /\ Goto("finish")
       \/ /\ ffg.type # "FSTRING_MIDDLE"
          /\ Fail("no such method")
          /\ UNCHANGED ffg
    /\ UNCHANGED <<read, fs, opened, ind, heard, reported>>

ErrorToken ==
    /\ At({"ERRORTOKEN"})
    /\ reported' = TRUE
    /\ AddCurrent
    /\ UNCHANGED <<read, cur, ffg, fs, opened, ind, heard>>

(* The end of the input: after a statement, the trailing NEWLINE when the   *)
(* last line has none, and the DEDENTs of the levels still open.            *)
EndOfFile ==
    /\ At({"EOF"})
    /\ \/ /\ out.last = "none"
          /\ out' = AddPending(out, cur)
          /\ UNCHANGED <<ind, reported>>
       \/ /\ out.last # "none"
          /\ LET q == IF out.last \in {"NEWLINE", "DEDENT"} THEN out
                      ELSE AddPending(out, TRAILING_NEWLINE)
             IN  out' = AddPending(AddAll(q, LevelTokens(ind.stack, 0)), cur)
          /\ ind' = Levelled(ind, 0)
          /\ reported' = (reported \/ BadDedent(ind.stack, 0))
    /\ Goto("finish")
    /\ UNCHANGED <<read, cur, ffg, fs, opened, heard>>

OtherToken ==
    /\ \/ At(Types \ {"NEWLINE", "LPAR", "LBRACE", "RPAR", "RBRACE", "FSTRING_MIDDLE",
                      "COLONEQUAL", "ERRORTOKEN", "EOF"})
       \/ At({"COLONEQUAL"}) /\ ~WalrusInSpec
    /\ AddCurrent
    /\ UNCHANGED <<read, cur, ffg, fs, opened, ind, heard, reported>>

Dispatch ==
    \/ NewlineInFString \/ NewlineInBrackets \/ NewlineNoWs \/ NewlineThenWs
    \/ OpenBracket \/ CloseBracket
    \/ FStringMiddle \/ ColonEqualInSpec
    \/ ErrorToken \/ EndOfFile \/ OtherToken

---------------------------------------------------------------------------
(* handle_FORMAT_SPECIFICATION_MODE: before a closing brace, after a colon  *)
(* or another closing brace, an empty FSTRING_MIDDLE stands for the missing *)
(* specification, unless the text of the expression just closed parses as a *)
(* comprehension: which it does is not modelled, both happen.               *)
MayFill == InFString /\ ffg.type = "RBRACE" /\ cur.type \in {"COLON", "RBRACE"}
MayNotFill == ~MayFill \/ cur.type = "RBRACE"

Finish ==
    /\ pc = "finish"
    /\ \/ MayFill /\ Pop(AddPending(out, EMPTY_MIDDLE))
       \/ MayNotFill /\ Pop(out)
    /\ UNCHANGED <<read, cur, ffg, fs, opened, ind, reported>>

(* A call after EOF was queued only pops.                                   *)
Drain_ReturnsEarly ==
    /\ pc = "idle" /\ out.prev = "EOF" /\ heard.phase # "ended"
    /\ UNCHANGED vars

Drain ==
    /\ pc = "idle" /\ out.prev = "EOF" /\ heard.phase # "ended"
    /\ Pop(out)
    /\ UNCHANGED <<read, cur, ffg, fs, opened, ind, reported>>

(* reset(), between two calls: the input starts over.                       *)
Reset ==
    /\ pc \in {"idle", "failed"}
    /\ pc' = "fresh" /\ read' = 0
    /\ cur' = NoToken /\ ffg' = NoToken
    /\ fs' = NoFString /\ opened' = 0
    /\ ind' = NoIndentation
    /\ out' = EmptyQueue
    /\ heard' = NothingHeard
    /\ reported' = FALSE /\ fault' = "none"

NextToken == Begin \/ SkipLeading \/ EndLeading \/ Fetch \/ Dispatch \/ Finish \/ Drain

Next == NextToken \/ Reset

Spec == Init /\ [][Next]_vars

(* Once called, nextToken() runs on, and its caller calls again until EOF.  *)
FairSpec == Spec /\ WF_vars(NextToken)
---------------------------------------------------------------------------
(* Properties.                                                              *)

(* Indentation (insert_INDENT_or_DEDENT, handle_start_of_input): the bottom *)
(* 0 is "never popped off", and every level is deeper than the one below,   *)
(* so that one INDENT answers to one DEDENT.                                *)
IndentStackOK == pc = "fresh" \/ SoundStack(ind.stack)

(* The modes entered and not left, outermost first.                         *)
ModePath(f) == Append(f.modes, f.mode)

(* Mode b may be entered in mode a when `under` is the mode below a.        *)
MayEnter(under, a, b) ==
    \/ a[1] \in {"fstring", "spec"} /\ b = DEFAULT_MODE
    \/ a = DEFAULT_MODE /\ b[1] = "fstring"
    \/ a = DEFAULT_MODE /\ under # <<>> /\ b = DEFAULT_MODE
    \/ a = DEFAULT_MODE /\ under # <<>> /\ b[1] = "spec"
         /\ under[1] \in {"fstring", "spec"} /\ under[2] = b[2]

Below(path, i) == IF i = 1 THEN <<>> ELSE path[i - 1]

SoundPath(path) ==
    /\ path[1] = DEFAULT_MODE
    /\ \A i \in 1..(Len(path) - 1) : MayEnter(Below(path, i), path[i], path[i + 1])

(* The braces open in f-strings: the default modes above the first.         *)
Expressions(path) == {i \in 2..Len(path) : path[i] = DEFAULT_MODE}

(* f-strings (push, pop, set_lexer_mode_...): whatever is nested in what,   *)
(* literal, expression and specification alternate, a specification is of   *)
(* the same quotes as its literal, and the bracket counts are those of the  *)
(* open expressions, one each.                                              *)
ModeStackOK ==
    /\ SoundPath(ModePath(fs))
    /\ Len(fs.parens) = Cardinality(Expressions(ModePath(fs)))

(* The look-ahead token was read in the mode the lexer is in now, although  *)
(* modes are switched when a token becomes current, one token later.        *)
ModeTypes(mode) ==
    CASE mode[1] = "fstring" -> {"FSTRING_MIDDLE", "LBRACE", "FSTRING_END", "EOF"}
      [] mode[1] = "spec"    -> {"FSTRING_MIDDLE", "LBRACE", "RBRACE", "EOF"}
      [] OTHER               -> Types \ {"FSTRING_MIDDLE", "FSTRING_END"}

LookaheadInMode == pc \notin {"fresh", "failed"} => ffg.type \in ModeTypes(fs.mode)

(* nextToken() raises an exception in two cases only: at the end of the     *)
(* input inside an f-string literal, and at a walrus operator outside       *)
(* brackets whose format specification does not begin with text.  No mode   *)
(* stack, bracket stack or queue is ever popped empty.                      *)
OnlyKnownFaults ==
    pc = "failed" =>
        \/ fault = "no open brace" /\ cur.type = "EOF" /\ fs.mode[1] = "fstring"
        \/ fault = "no such method" /\ cur.type = "COLON" /\ InFString

(* The raw tokens from the last one heard to the look-ahead.                *)
InHand == IF pc \in {"leading", "dispatch"} THEN <<cur>> ELSE <<>>
Ahead == IF pc \in {"fresh", "failed"} \/ ffg.type = "EOF" THEN <<>> ELSE <<ffg>>
OnTheWay == OnlyIn(out.pending, ReadTokens) \o InHand \o Ahead

(* Every raw token is returned, once and in the order it was read, whatever *)
(* is inserted, looked ahead or cut in two.  The WS token that is the first *)
(* to mix tabs and spaces is dropped: once they have been mixed, neighbours *)
(* may be two apart, there and later; never more, nor out of order.         *)
RawTokensInOrder ==
    \A i \in DOMAIN OnTheWay :
        LET t == OnTheWay[i]
            before == IF i = 1 THEN heard.got ELSE OnTheWay[i - 1].pos
        IN  \/ t.pos = before + 1
            \/ t.pos = before /\ t.type \in {"LBRACE", "RBRACE"}
            \/ t.pos = before + 2 /\ ind.mixed

---------------------------------------------------------------------------
(* The stream the caller receives implements PyTokenStream.  What the lexer *)
(* has counted and the caller not yet received is taken off again.          *)

Owed == out.pending \o InHand
OwedTokens(types, ch) ==
    Cardinality({i \in DOMAIN Owed : Owed[i].type \in types /\ Owed[i].ch = ch})
Pending(types, ch) ==
    Cardinality({i \in DOMAIN out.pending : out.pending[i].type \in types /\ out.pending[i].ch = ch})
PendingAs(tokens) == Cardinality({i \in DOMAIN out.pending : out.pending[i] \in tokens})

Levels == IF ind.stack = <<>> THEN 0 ELSE Len(ind.stack) - 1
OpenStrings == Cardinality({i \in DOMAIN ModePath(fs) : ModePath(fs)[i][1] = "fstring"})

TokenStream == INSTANCE PyTokenStream WITH
    depth    <- Levels - PendingAs({INDENT}) + PendingAs({DEDENT, BAD_DEDENT}),
    brackets <- opened - Pending({"LPAR", "LBRACE"}, "default")
                       + Pending({"RPAR", "RBRACE"}, "default"),
    strings  <- OpenStrings - OwedTokens({"FSTRING_START"}, "default")
                            + OwedTokens({"FSTRING_END"}, "default"),
    line     <- heard.line,
    phase    <- heard.phase

(* INDENTs and DEDENTs match and stand at the start of lines, NEWLINEs end  *)
(* lines that have tokens, never inside brackets or f-strings, and EOF      *)
(* comes last with every level closed: across look-ahead, queueing and      *)
(* reset.                                                                   *)
StreamOK == TokenStream!Stream

(* The caller of nextToken() gets EOF in the end, unless it resets the      *)
(* lexer over and over or one of the two known faults stops it.             *)
EofReached ==
    \/ []<><<Reset>>_vars
    \/ <>(heard.phase = "ended" \/ fault \in {"no open brace", "no such method"})

---------------------------------------------------------------------------
(* What the README says, and the code does not do.                          *)

(* "now correctly tokenizes [...] walrus operator" in f-strings.            *)
WalrusTokenized == fault # "no such method"
=============================================================================
