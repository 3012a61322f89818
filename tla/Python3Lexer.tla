---------------------------- MODULE Python3Lexer ----------------------------
(***************************************************************************)
(* Python3LexerBase.  The NEWLINE rule matches a line end with the blanks   *)
(* behind it and calls onNewLine(), which emits NEWLINE, INDENT and DEDENT  *)
(* tokens or skips the match.  emitToken() appends to a list; nextToken()   *)
(* runs the generated lexer and takes the first token of the list.          *)
(*                                                                          *)
(* pc is "idle" between calls, "lexing" inside super().nextToken(), which   *)
(* goes on after a skipped match, "take" when the list is read.             *)
(***************************************************************************)
EXTENDS Subsequences, SequencesExt

CONSTANTS
    MaxRaw,    \* bound: matches before EOF in one input
    RawTypes,  \* kinds of match in the run's inputs
    Widths     \* indentation counts of the line ends

(* FORMFEED is a line end that begins with a form feed, SPACES blanks at    *)
(* the start of the input (the NEWLINE rule) or inside a line (skipped);    *)
(* NAME is any token but those named.                                       *)
LineEnds == {"NEWLINE", "FORMFEED"}
AllRawTypes == LineEnds \union {"SPACES", "COMMENT", "JOIN", "NAME", "OPEN", "CLOSE"}
Types == AllRawTypes \union {"INDENT", "DEDENT", "EOF"}

ASSUME BoundAssumption == MaxRaw \in Nat
ASSUME RawTypesAssumption == RawTypes \subseteq AllRawTypes
ASSUME WidthsAssumption == Widths \subseteq Nat

(* A match: its indentation, whether it is one character long with the end  *)
(* of the input behind it, and the NAMEs and brackets up to it.             *)
Texts == {"NAME", "OPEN", "CLOSE"}
Token == [type : Types, width : Widths \union {0}, lone : BOOLEAN, pos : Nat]
MadeToken(type) == [type |-> type, width |-> 0, lone |-> FALSE, pos |-> 0]

TextTokens == {t \in Token : t.type \in Texts}
NotEof == {t \in Token : t.type # "EOF"}

VARIABLES
    pc,      \* where the current call of nextToken() stands
    read,    \* matches so far
    ahead,   \* the match the input goes on with: LA(1) is its first character
    opened,  \* openBrace() calls less closeBrace() calls
    indents, \* indentation of the open blocks
    tokens,  \* emitted and not yet returned
    heard    \* history: what the caller of nextToken() has received

vars == <<pc, read, ahead, opened, indents, tokens, heard>>

---------------------------------------------------------------------------
(* The input: what may come after match `t`, the n-th.                      *)
MayFollow(t, r, n) ==
    /\ ~t.lone
    /\ t.type \in LineEnds \union {"SPACES"} => r.type # "SPACES"
    /\ t.type = "COMMENT" => r.type \in LineEnds
    /\ r.width > 0 => r.type \in LineEnds \/ (r.type = "SPACES" /\ n = 0)
    /\ r.lone => r.type \in {"NEWLINE", "COMMENT"} /\ r.width = 0

Raw(t, n) ==
    LET Match(type, width, lone) ==
          [type |-> type, width |-> width, lone |-> lone,
           pos |-> IF type \in Texts THEN t.pos + 1 ELSE t.pos]
        more == {Match(type, width, lone) :
                   type \in RawTypes, width \in Widths \union {0}, lone \in BOOLEAN}
    IN  {Match("EOF", 0, FALSE)} \union {r \in more : n < MaxRaw /\ MayFollow(t, r, n)}

NothingHeard == [depth |-> 0, brackets |-> 0, line |-> "first", over |-> FALSE, got |-> 0]

HeardAfter(h, t) ==
    [depth    |-> CASE t.type = "INDENT" -> h.depth + 1 [] t.type = "DEDENT" -> h.depth - 1
                    [] OTHER -> h.depth,
     brackets |-> CASE t.type = "OPEN" -> h.brackets + 1 [] t.type = "CLOSE" -> h.brackets - 1
                    [] OTHER -> h.brackets,
     line     |-> CASE t.type = "NEWLINE" -> IF h.brackets > 0 THEN "closing" ELSE "ended"
                    [] t.type = "INDENT"  -> "indented"
                    [] t.type \in {"NAME", "OPEN", "CLOSE"} -> "open"
                    [] OTHER -> h.line,
     over     |-> h.over \/ t.type = "EOF",
     got      |-> IF t.type \in Texts THEN t.pos ELSE h.got]

---------------------------------------------------------------------------
Init ==
    /\ pc = "idle" /\ read = 0 /\ ahead \in Raw(MadeToken("NAME"), 0)
    /\ opened = 0 /\ indents = <<>> /\ tokens = <<>>
    /\ heard = NothingHeard

NEWLINE == MadeToken("NEWLINE")
INDENT == MadeToken("INDENT")
Dedents(n) == [i \in 1..n |-> MadeToken("DEDENT")]

(* nextToken: at EOF the levels still open are closed.  EOF tokens that are *)
(* in the list already are taken out and one is put behind the DEDENTs.     *)
ClosingDue_Always == pc = "idle" /\ ahead.type = "EOF"
ClosingDue == pc = "idle" /\ ahead.type = "EOF" /\ indents # <<>>

WithoutEof_KeepsThem(ts) == ts
WithoutEof_NorOthers(ts) == <<>>
WithoutEof(ts) == OnlyIn(ts, NotEof)

CloseAtEof ==
    /\ ClosingDue /\ ~heard.over
    /\ tokens' = WithoutEof(tokens) \o <<NEWLINE>> \o Dedents(Len(indents)) \o <<ahead>>
    /\ indents' = <<>>
    /\ pc' = "lexing"
    /\ UNCHANGED <<read, ahead, opened, heard>>

(* super().nextToken() matches a rule.                                      *)
Matches(types) ==
    /\ pc = "lexing" \/ (pc = "idle" /\ ~ClosingDue /\ ~heard.over)
    /\ ahead.type \in types
    /\ read' = read + 1
    /\ ahead' \in Raw(ahead, read + 1)
    /\ UNCHANGED heard

AtStartOfInput == ahead.type = "SPACES" /\ read = 0

LexToken ==
    /\ Matches({"NAME"})
    /\ tokens' = Append(tokens, ahead) /\ pc' = "take"
    /\ UNCHANGED <<opened, indents>>

OpenBrace ==
    /\ Matches({"OPEN"})
    /\ tokens' = Append(tokens, ahead) /\ pc' = "take"
    /\ opened' = opened + 1
    /\ UNCHANGED indents

CloseBrace ==
    /\ Matches({"CLOSE"})
    /\ tokens' = Append(tokens, ahead) /\ pc' = "take"
    /\ opened' = opened - 1
    /\ UNCHANGED indents

SkipMatch ==
    /\ Matches({"SPACES", "COMMENT", "JOIN"}) /\ ~AtStartOfInput
    /\ pc' = "lexing"
    /\ UNCHANGED <<opened, indents, tokens>>

(* onNewLine: inside brackets, or before a blank line or a comment that is  *)
(* not the last character of the input, the match is skipped.               *)
Ignored_Brackets(next) == next.type \in {"NEWLINE", "COMMENT"} /\ ~next.lone
Ignored(next) == opened > 0 \/ (next.type \in {"NEWLINE", "COMMENT"} /\ ~next.lone)

Previous_First == IF indents = <<>> THEN 0 ELSE Head(indents)
Previous == IF indents = <<>> THEN 0 ELSE Last(indents)

(* The loop pops the levels deeper than the new line.                       *)
Kept(width, n) ==
    /\ n > 0 => indents[n] <= width
    /\ \A i \in (n + 1)..Len(indents) : indents[i] > width

OnNewLine ==
    /\ Matches(LineEnds \union {"SPACES"}) /\ (ahead.type = "SPACES" => AtStartOfInput)
    /\ \/ /\ Ignored(ahead')
          /\ pc' = "lexing"
          /\ UNCHANGED <<tokens, indents>>
       \/ /\ ~Ignored(ahead') /\ ahead.width = Previous
          /\ tokens' = Append(tokens, NEWLINE)
          /\ pc' = "lexing"
          /\ UNCHANGED indents
       \/ /\ ~Ignored(ahead') /\ ahead.width > Previous
          /\ tokens' = tokens \o <<NEWLINE, INDENT>>
          /\ indents' = Append(indents, ahead.width)
          /\ pc' = "take"
       \/ /\ ~Ignored(ahead') /\ ahead.width < Previous
          /\ \E n \in 0..Len(indents) :
                /\ Kept(ahead.width, n)
                /\ indents' = SubSeq(indents, 1, n)
                /\ tokens' = tokens \o <<NEWLINE>> \o Dedents(Len(indents) - n)
          /\ pc' = "take"
    /\ UNCHANGED opened

(* The runtime emits EOF, on every call.                                    *)
LexEof ==
    /\ pc = "lexing" \/ (pc = "idle" /\ ~ClosingDue /\ ~heard.over)
    /\ ahead.type = "EOF"
    /\ tokens' = Append(tokens, ahead) /\ pc' = "take"
    /\ UNCHANGED <<read, ahead, opened, indents, heard>>

TakeToken ==
    /\ pc = "take" /\ pc' = "idle"
    /\ tokens' = Tail(tokens)
    /\ heard' = HeardAfter(heard, Head(tokens))
    /\ UNCHANGED <<read, ahead, opened, indents>>

Restarted ==
    /\ pc = "idle" /\ pc' = "idle" /\ heard' = NothingHeard
    /\ read' = 0 /\ ahead' \in Raw(MadeToken("NAME"), 0)

Reset ==
    /\ Restarted
    /\ opened' = 0 /\ indents' = <<>> /\ tokens' = <<>>

NextToken ==
    \/ CloseAtEof
    \/ LexToken \/ OpenBrace \/ CloseBrace \/ SkipMatch \/ OnNewLine \/ LexEof
    \/ TakeToken

Next == NextToken \/ Reset

Spec == Init /\ [][Next]_vars

(* Once called, nextToken() runs on, and its caller calls again until EOF.  *)
FairSpec == Spec /\ WF_vars(NextToken)
---------------------------------------------------------------------------
(* Properties.                                                              *)

(* Every field keeps its range.                                             *)
TypeOK ==
    /\ pc \in {"idle", "lexing", "take"}
    /\ read \in Nat /\ ahead \in Token /\ opened \in Int
    /\ indents \in Seq(Nat) /\ tokens \in Seq(Token)
    /\ heard \in [depth : Int, brackets : Int, over : BOOLEAN, got : Nat,
                   line : {"first", "open", "ended", "indented", "closing"}]

(* onNewLine: the indentations of the open blocks increase from above 0,    *)
(* and while a block is open a token is left over by every call.  An EOF    *)
(* lexed in a call that found none ahead is therefore still in the list     *)
(* when the next call closes the blocks, and is never returned before.  The *)
(* list is never empty when nextToken() takes a token from it.              *)
BlocksOK ==
    /\ TypeOK
    /\ pc = "take" => tokens # <<>>
    /\ \A i \in DOMAIN indents : indents[i] > 0
    /\ \A i, j \in DOMAIN indents : i < j => indents[i] < indents[j]
    /\ indents # <<>> /\ pc = "idle" => tokens # <<>>
    /\ indents # <<>> /\ pc = "take" => Head(tokens).type # "EOF"

(* nextToken takes EOF tokens out of the list and puts one back: nothing    *)
(* but EOF is left when the caller has heard EOF.                           *)
EofLast == heard.over => indents = <<>> /\ WithoutEof(tokens) = <<>>

(* No NAME or bracket is lost, doubled or overtaken, from the last one      *)
(* heard through the list to the match ahead.                               *)
OnTheWay == OnlyIn(Append(tokens, ahead), TextTokens)

TokensInOrder ==
    /\ \A i \in DOMAIN OnTheWay : OnTheWay[i].pos = heard.got + i
    /\ ahead.pos = heard.got + Len(OnTheWay)

(* The tokens the caller receives are a stream of lines and blocks; the     *)
(* breaks between lines may be several.                                     *)
Lines == INSTANCE PyLineStream WITH
    EmptyLines <- TRUE,
    depth <- heard.depth, brackets <- heard.brackets, line <- heard.line, over <- heard.over
StreamOK == Lines!Stream

(* The caller gets EOF in the end, unless it resets the lexer for ever.     *)
EofReached == []<><<Reset>>_vars \/ <>(heard.over)
=============================================================================
