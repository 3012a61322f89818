--------------------------- MODULE PythonRingLexer ---------------------------
(***************************************************************************)
(* PythonLexerBase of the python/python grammar (Python 2 and 3).  Actions  *)
(* of the lexer rules NEWLINE, WS and of the brackets call back into it; it *)
(* emits LINE_BREAK, INDENT and DEDENT tokens besides the token of the rule *)
(* and keeps all of them in a circular buffer.  Each nextToken() runs the   *)
(* generated lexer once and takes one token from the buffer, so that what   *)
(* is emitted in excess stays behind until the end of the input.            *)
(*                                                                          *)
(* pc is "idle" between calls, "closing" in the loop of DEDENTs before EOF, *)
(* "lexing" in super().nextToken(), "dedenting" in the loop of              *)
(* process_new_line, "take" when the buffer is read, "failed" after an      *)
(* exception.                                                               *)
(***************************************************************************)
EXTENDS TokenRing, Subsequences, FiniteSets

CONSTANTS
    MaxRaw,      \* bound: raw tokens before EOF in one input
    BufferSize,  \* slots of a new buffer, 32 in the code
    RawTypes,    \* types of the run's raw tokens, WS aside
    WsTexts,     \* texts of the WS tokens
    SkippedLast  \* whether the input may end with characters no rule matches

(* Characters that no rule matches are reported and skipped by the runtime: *)
(* SKIPPED is a form feed or a lone carriage return, STRAY any other, such  *)
(* as $ or ?.  NAME is any token but those named.                           *)
Unmatched == {"SKIPPED", "STRAY"}
AllRawTypes == {"NAME", "OPEN", "CLOSE", "NEWLINE", "COMMENT", "LINE_JOIN"} \union Unmatched
HiddenTypes == {"NEWLINE", "WS", "COMMENT", "LINE_JOIN"}
Types == AllRawTypes \union {"WS", "EOF", "LINE_BREAK", "INDENT", "DEDENT"}

ASSUME BoundAssumption == MaxRaw \in Nat /\ BufferSize \in Nat \ {0}
ASSUME RawTypesAssumption == RawTypes \subseteq AllRawTypes
ASSUME SkippedAssumption == SkippedLast \in BOOLEAN
ASSUME TextAssumption == WsTexts \subseteq Seq({" ", "\t"}) \ {<<>>}

(* A token, the ordinal of the raw token it is, 0 for one made up, and      *)
(* whether the input has stray characters right before it.                  *)
Token == [type : Types, text : WsTexts \union {<<>>}, pos : Nat, gap : BOOLEAN]
MadeToken(type) == [type |-> type, text |-> <<>>, pos |-> 0, gap |-> FALSE]

ASSUME NoneAssumption == None \notin Token

(* tab_size                                                                 *)
TabSize == 4

(* The column `text` reaches, with a tab stop every `tab` columns.          *)
Column(text, tab) ==
    LET col[i \in 0..Len(text)] ==
          IF i = 0 THEN 0
          ELSE IF text[i] = "\t" THEN col[i-1] + tab - (col[i-1] % tab)
          ELSE col[i-1] + 1
    IN  col[Len(text)]

VARIABLES
    pc,      \* where the current call of nextToken() stands
    read,    \* raw tokens and skipped characters read so far
    ahead,   \* the raw token the input goes on with: LA(1) is its first character
    cur,     \* the raw token whose rule is being handled
    opened,  \* brackets opened and not closed
    indents, \* indentation of the open blocks
    indent,  \* the argument of process_new_line
    ring,    \* the circular buffer
    last,    \* type of last_token, "none" for None
    heard,   \* history: what the caller of nextToken() has received
    fault    \* the exception that ended the last call, or "none"

vars == <<pc, read, ahead, cur, opened, indents, indent, ring, last, heard, fault>>

---------------------------------------------------------------------------
(* The input: what it goes on with after `t`, with n items read.  Unmatched *)
(* characters are not counted as tokens.                                    *)
MayFollow(t, r) ==
    /\ t.type = "WS" => r.type # "WS"
    /\ t.type = "COMMENT" => r.type \in {"NEWLINE", "SKIPPED"}

Behind(t, type, text) ==
    [type |-> type, text |-> text,
     pos  |-> IF t.type \in Unmatched THEN t.pos ELSE t.pos + 1,
     gap  |-> type # "EOF" /\ (t.type = "STRAY" \/ (t.type = "SKIPPED" /\ t.gap))]

Raw(t, n) ==
    LET mayEnd == t.type \in Unmatched => SkippedLast
        more == {Behind(t, type, <<>>) : type \in RawTypes}
                  \union {Behind(t, "WS", text) : text \in WsTexts}
        Fits(r) == n < (IF r.type \in Unmatched /\ ~SkippedLast THEN MaxRaw - 1 ELSE MaxRaw)
    IN  {r \in more : MayFollow(t, r) /\ Fits(r)}
          \union (IF mayEnd THEN {Behind(t, "EOF", <<>>)} ELSE {})

(* What the caller has heard, token by token.  Stray characters are the     *)
(* text of a line though no token: the token behind them tells of them.     *)
NothingHeard == [depth |-> 0, brackets |-> 0, line |-> "first", over |-> FALSE, got |-> 0]

LineAfter(h, t) ==
    CASE t.type = "LINE_BREAK" -> IF h.brackets = 0 THEN "ended" ELSE "closing"
      [] t.type = "INDENT"     -> "indented"
      [] t.type \in {"NAME", "OPEN", "CLOSE"} \/ (t.type \in HiddenTypes /\ t.gap) -> "open"
      [] t.type = "LINE_JOIN" /\ ~t.gap ->
            IF h.line = "ended" THEN "joined"
            ELSE IF h.line = "indented" THEN "open" ELSE h.line
      [] OTHER                 -> h.line

HeardAfter(h, t) ==
    [depth    |-> CASE t.type = "INDENT" -> h.depth + 1 [] t.type = "DEDENT" -> h.depth - 1
                    [] OTHER -> h.depth,
     brackets |-> CASE t.type = "OPEN" -> h.brackets + 1
                    [] t.type = "CLOSE" /\ h.brackets > 0 -> h.brackets - 1
                    [] OTHER -> h.brackets,
     line     |-> LineAfter(h, t),
     over     |-> h.over \/ t.type = "EOF",
     got      |-> IF t.pos = 0 \/ t.type = "EOF" THEN h.got ELSE t.pos]

---------------------------------------------------------------------------
Init ==
    /\ pc = "idle" /\ read = 0
    /\ ahead \in Raw(MadeToken("EOF"), 0)
    /\ cur = MadeToken("EOF")
    /\ opened = 0 /\ indents = <<>> /\ indent = 0
    /\ ring = NewRing(BufferSize) /\ last = "none"
    /\ heard = NothingHeard /\ fault = "none"

Fail(exception) == pc' = "failed" /\ fault' = exception
Goto(label) == pc' = label /\ UNCHANGED fault

(* emitToken                                                                *)
EmitOne(t) == ring' = Emit(ring, t) /\ last' = t.type
EmitTwo(t, u) == ring' = Emit(Emit(ring, t), u) /\ last' = u.type

LINE_BREAK == MadeToken("LINE_BREAK")
INDENT == MadeToken("INDENT")
DEDENT == MadeToken("DEDENT")

(* nextToken: before EOF, the levels still open are closed.  The test of    *)
(* the code reads the type of the last slot only when the slot holds None.  *)
ClosingDue == pc = "idle" /\ ahead.type = "EOF" /\ indents # <<>> /\ ~heard.over

CloseAtEof ==
    /\ ClosingDue
    /\ \/ /\ ring.slots[ring.last] # None
          /\ EmitOne(LINE_BREAK) /\ Goto("closing")
       \/ /\ ring.slots[ring.last] = None
          /\ Fail("AttributeError")
          /\ UNCHANGED <<ring, last>>
    /\ UNCHANGED <<read, ahead, cur, opened, indents, indent, heard>>

CloseLevel ==
    /\ pc = "closing"
    /\ EmitOne(DEDENT)
    /\ indents' = SubSeq(indents, 1, Len(indents) - 1)
    /\ Goto(IF Len(indents) = 1 THEN "lexing" ELSE "closing")
    /\ UNCHANGED <<read, ahead, cur, opened, indent, heard>>

---------------------------------------------------------------------------
(* super().nextToken(): one raw token, and the callback of its rule.        *)

Lexes(type) ==
    /\ pc = "lexing" \/ (pc = "idle" /\ ~ClosingDue /\ ~heard.over)
    /\ ahead.type = type

Consume ==
    /\ cur' = ahead
    /\ read' = read + 1
    /\ ahead' \in Raw(ahead, read + 1)

(* is_not_new_line_or_comment on the first character of `t`                 *)
StartsLine_InBrackets(t) == t.type \notin {"NEWLINE", "SKIPPED", "COMMENT"}
StartsLine(t) == opened = 0 /\ t.type \notin {"NEWLINE", "SKIPPED", "COMMENT"}

LexText ==
    /\ \E type \in {"NAME", "COMMENT", "LINE_JOIN"} : Lexes(type)
    /\ Consume
    /\ EmitOne(ahead) /\ Goto("take")
    /\ UNCHANGED <<opened, indents, indent, heard>>

IncIndentLevel ==
    /\ Lexes("OPEN") /\ Consume
    /\ EmitOne(ahead) /\ Goto("take")
    /\ opened' = opened + 1
    /\ UNCHANGED <<indents, indent, heard>>

DecIndentLevel_BelowZero ==
    /\ Lexes("CLOSE") /\ Consume
    /\ EmitOne(ahead) /\ Goto("take")
    /\ opened' = opened - 1
    /\ UNCHANGED <<indents, indent, heard>>

DecIndentLevel ==
    /\ Lexes("CLOSE") /\ Consume
    /\ EmitOne(ahead) /\ Goto("take")
    /\ opened' = IF opened # 0 THEN opened - 1 ELSE opened
    /\ UNCHANGED <<indents, indent, heard>>

(* A statement in column 0 follows: process_new_line(0).                    *)
HandleNewLine_NoEofTest ==
    /\ Lexes("NEWLINE") /\ Consume
    /\ LET statement == StartsLine(ahead') /\ ahead'.type # "WS"
       IN  \/ /\ ahead'.type = "EOF"
              /\ EmitOne(ahead) /\ Fail("ValueError")
              /\ UNCHANGED indent
           \/ /\ ahead'.type # "EOF" /\ statement
              /\ EmitTwo(ahead, LINE_BREAK)
              /\ indent' = 0 /\ Goto("dedenting")
           \/ /\ ahead'.type # "EOF" /\ ~statement
              /\ EmitOne(ahead) /\ Goto("take")
              /\ UNCHANGED indent
    /\ UNCHANGED <<opened, indents, heard>>

HandleNewLine ==
    /\ Lexes("NEWLINE") /\ Consume
    /\ LET statement == StartsLine(ahead') /\ ahead'.type \notin {"WS", "EOF"}
       IN  \/ /\ statement
              /\ EmitTwo(ahead, LINE_BREAK)
              /\ indent' = 0 /\ Goto("dedenting")
           \/ /\ ~statement
              /\ EmitOne(ahead) /\ Goto("take")
              /\ UNCHANGED indent
    /\ UNCHANGED <<opened, indents, heard>>

(* Whitespace at the start of a line.  chr(-1) raises ValueError when the   *)
(* input ends with it.                                                      *)
Previous == IF indents = <<>> THEN 0 ELSE indents[Len(indents)]

Deeper_OrEqual(column) == column >= Previous
Deeper(column) == column > Previous

AtLineStart == last \in {"none", "NEWLINE"}

HandleSpaces ==
    /\ Lexes("WS") /\ Consume
    /\ LET column == Column(ahead.text, TabSize)
           statement == AtLineStart /\ StartsLine(ahead')
       IN  \/ /\ ahead'.type = "EOF"
              /\ Fail("ValueError")
              /\ UNCHANGED <<ring, last, indent, indents>>
           \/ /\ ahead'.type # "EOF" /\ statement /\ Deeper(column)
              /\ ring' = Emit(Emit(Emit(ring, LINE_BREAK), INDENT), ahead)
              /\ last' = "WS"
              /\ indents' = Append(indents, column)
              /\ indent' = column /\ Goto("take")
           \/ /\ ahead'.type # "EOF" /\ statement /\ ~Deeper(column)
              /\ EmitOne(LINE_BREAK)
              /\ indent' = column /\ Goto("dedenting")
              /\ UNCHANGED indents
           \/ /\ ahead'.type # "EOF" /\ ~statement
              /\ EmitOne(ahead) /\ Goto("take")
              /\ UNCHANGED <<indents, indent>>
    /\ UNCHANGED <<opened, heard>>

(* The loop of process_new_line, and the WS token behind it.                *)
Dedent ==
    /\ pc = "dedenting" /\ Previous > indent
    /\ EmitOne(DEDENT)
    /\ indents' = SubSeq(indents, 1, Len(indents) - 1)
    /\ UNCHANGED <<pc, fault, read, ahead, cur, opened, indent, heard>>

Dedented_NoWs ==
    /\ pc = "dedenting" /\ Previous <= indent
    /\ Goto("take")
    /\ UNCHANGED <<ring, last, read, ahead, cur, opened, indents, indent, heard>>

Dedented ==
    /\ pc = "dedenting" /\ Previous <= indent
    /\ \/ cur.type = "WS" /\ EmitOne(cur)
       \/ cur.type # "WS" /\ UNCHANGED <<ring, last>>
    /\ Goto("take")
    /\ UNCHANGED <<read, ahead, cur, opened, indents, indent, heard>>

SkipChar ==
    /\ \E type \in Unmatched : Lexes(type)
    /\ Consume
    /\ Goto("lexing")
    /\ UNCHANGED <<opened, indents, indent, ring, last, heard>>

(* The runtime emits EOF again and again.                                   *)
LexEof ==
    /\ Lexes("EOF")
    /\ EmitOne(ahead) /\ Goto("take")
    /\ cur' = ahead
    /\ UNCHANGED <<read, ahead, opened, indents, indent, heard>>

(* The first token of the buffer is returned, or the token just lexed if    *)
(* the buffer were empty.                                                   *)
TakeToken ==
    /\ pc = "take"
    /\ ring' = Take(ring)
    /\ heard' = HeardAfter(heard, IF IsEmpty(ring) THEN cur ELSE First(ring))
    /\ Goto("idle")
    /\ UNCHANGED <<read, ahead, cur, opened, indents, indent, last>>

NextToken ==
    \/ CloseAtEof \/ CloseLevel
    \/ LexText \/ IncIndentLevel \/ DecIndentLevel \/ HandleNewLine \/ HandleSpaces
    \/ Dedent \/ Dedented \/ SkipChar \/ LexEof \/ TakeToken

Next == NextToken

Spec == Init /\ [][Next]_vars

(* Once called, nextToken() runs on, and its caller calls again until EOF.  *)
FairSpec == Spec /\ WF_vars(NextToken)

(* reset() of the runtime starts the input over; the class does not         *)
(* override it and keeps all of its own state.                              *)
Reset ==
    /\ pc = "idle" /\ heard.over
    /\ read' = 0 /\ ahead' \in Raw(MadeToken("EOF"), 0)
    /\ heard' = NothingHeard
    /\ UNCHANGED <<pc, cur, opened, indents, indent, ring, last, fault>>

ResetSpec == Init /\ [][NextToken \/ Reset]_vars
---------------------------------------------------------------------------
(* Properties.                                                              *)

(* Every field keeps its range; the buffer is sound: the occupied slots are *)
(* those from the first index to the last, also across the wrap and after   *)
(* the buffer was enlarged (emitToken, nextToken).                          *)
TypeOK ==
    /\ pc \in {"idle", "closing", "lexing", "dedenting", "take", "failed"}
    /\ read \in Nat /\ ahead \in Token /\ cur \in Token
    /\ opened \in Nat /\ indent \in Nat /\ indents \in Seq(Nat)
    /\ SoundRing(ring, Token) /\ last \in Types \union {"none"}
    /\ heard \in [depth : Int, brackets : Nat, over : BOOLEAN, got : Nat,
                   line : {"first", "open", "ended", "indented", "joined", "closing"}]
    /\ fault \in {"none", "AttributeError", "ValueError"}

(* process_new_line: the indentations of the open blocks increase from      *)
(* above 0, so that one INDENT answers to one DEDENT.                       *)
IndentsOK ==
    /\ \A i \in DOMAIN indents : indents[i] > 0
    /\ \A i, j \in DOMAIN indents : i < j => indents[i] < indents[j]

(* emitToken and nextToken use the circular buffer as a queue, however it   *)
(* wraps and grows.                                                         *)
Fifo == INSTANCE TokenFifo WITH queue <- Contents(ring)
RingIsQueue == Fifo!Spec

(* From the last raw token heard through the buffer to the one ahead: every *)
(* raw token is returned, once and in the order it was read.                *)
RawTokens == {t \in Token : t.pos # 0 /\ t.type # "EOF"}
InHand == IF pc = "dedenting" /\ cur.type = "WS" THEN <<cur>> ELSE <<>>
OnTheWay == OnlyIn(Contents(ring), RawTokens) \o InHand \o <<ahead>>

RawTokensInOrder ==
    pc # "failed" => \A i \in DOMAIN OnTheWay :
        OnTheWay[i].pos = (IF i = 1 THEN heard.got ELSE OnTheWay[i - 1].pos) + 1

(* nextToken() raises an exception in one case only: the input ends with    *)
(* whitespace.  The test before EOF never meets an empty buffer, because a  *)
(* block cannot be open without tokens in excess.                           *)
OnlyKnownFaults ==
    pc = "failed" => fault = "ValueError" /\ cur.type = "WS" /\ ahead.type = "EOF"

(* The tokens the caller receives are a stream of lines and blocks.         *)
Lines == INSTANCE PyLineStream WITH
    EmptyLines <- FALSE,
    depth <- heard.depth, brackets <- heard.brackets, line <- heard.line, over <- heard.over
StreamOK == Lines!Stream

(* The caller of nextToken() gets EOF in the end, unless the input ends     *)
(* with whitespace.                                                         *)
EofReached == <>(heard.over \/ (fault = "ValueError" /\ cur.type = "WS"))

(* EOF comes after the last token of the input (nextToken, and lexer.reset()*)
(* of the test driver, which parses again what it has just listed).         *)
WholeInputHeard == heard.over => ahead.type = "EOF" /\ heard.got = ahead.pos - 1

---------------------------------------------------------------------------
(* What comments say, and the code does not do.                             *)

(* "Now emit as much DEDENT tokens as needed" before EOF: at EOF every      *)
(* INDENT the caller has received is closed.                                *)
ClosedAtEof == heard.over => heard.depth = 0
=============================================================================
