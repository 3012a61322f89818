---------------------------- MODULE PyTokenQueue ----------------------------
(***************************************************************************)
(* What the Python 3.13 and 2.7 lexers share: the tokens, the queue of      *)
(* pending tokens that nextToken() pops from the left, the indentation      *)
(* length of a whitespace token, and the INDENT and DEDENT tokens a new     *)
(* logical line gives rise to.                                              *)
(*                                                                          *)
(* A token is its type, its channel, the characters of its text as far as   *)
(* the code looks at them, and the ordinal `pos` of the raw token it comes  *)
(* from; a token the lexer makes up has pos = 0.  LPAR stands for LPAR and  *)
(* LSQB, RPAR for RPAR and RSQB (the code never tells them apart), and NAME *)
(* for every type that no branch of the code names.                         *)
(***************************************************************************)
EXTENDS Integers, Sequences, FiniteSets, SequencesExt, Subsequences

Types == {"none", "NEWLINE", "WS", "COMMENT", "EXPLICIT_LINE_JOINING",
          "LPAR", "RPAR", "LBRACE", "RBRACE", "COLON", "COLONEQUAL", "NAME",
          "FSTRING_START", "FSTRING_MIDDLE", "FSTRING_END",
          "INDENT", "DEDENT", "ENCODING", "ERRORTOKEN", "EOF"}

Channels == {"default", "hidden"}

(* What texts are made of: the characters the code looks at, "x" for any    *)
(* other, and, as one unit each, the opening of an f-string (named by its   *)
(* lexer mode) and the lexer's own texts.                                   *)
Blanks == {" ", "\t", "\f"}
AllQuotes == {"SQ1", "SQ1R", "DQ1", "DQ1R", "SQ3", "SQ3R", "DQ3", "DQ3R"}
Messages == {"trailing", "first statement indented", "inconsistent dedent",
             "inconsistent use of tabs and spaces"}
Chars == Blanks \union {"x", "'", "\"", "\\", "{", "}", "="} \union AllQuotes \union Messages

Token == [type : Types, ch : Channels, text : Seq(Chars), pos : Nat]

(* Those that were read, and not made up.                                   *)
ReadTokens == {t \in Token : t.pos # 0}

NoToken == [type |-> "none", ch |-> "hidden", text |-> <<>>, pos |-> 0]

(* The types whose lexer rule sends the token to the hidden channel.        *)
HiddenTypes == {"WS", "COMMENT", "EXPLICIT_LINE_JOINING"}

RawToken(type, text, pos) ==
    [type |-> type, text |-> text, pos |-> pos,
     ch |-> IF type \in HiddenTypes THEN "hidden" ELSE "default"]

(* A token of the lexer's own making: create_and_add_pending_token.         *)
MadeToken(type, text) == [type |-> type, ch |-> "default", text |-> text, pos |-> 0]

INDENT == MadeToken("INDENT", <<>>)
DEDENT == MadeToken("DEDENT", <<>>)
EMPTY_MIDDLE == MadeToken("FSTRING_MIDDLE", <<>>)
TRAILING_NEWLINE == MadeToken("NEWLINE", <<"trailing">>)
LEADING_INDENT == MadeToken("INDENT", <<"first statement indented">>)
BAD_DEDENT == MadeToken("ERRORTOKEN", <<"inconsistent dedent">>)
BAD_TABS == MadeToken("ERRORTOKEN", <<"inconsistent use of tabs and spaces">>)

(* WS and COMMENT take all they can: no WS follows a WS, and a comment runs *)
(* to the end of its line.                                                  *)
MayFollow(t, r) ==
    /\ t.type = "WS" => r.type # "WS"
    /\ t.type = "COMMENT" => r.type \in {"NEWLINE", "ERRORTOKEN"}

---------------------------------------------------------------------------
(* The pending queue, with the type of the token added last and of the      *)
(* token added last on the default channel ("none" for the code's 0).       *)

Queue == [pending : Seq(Token), prev : Types, last : Types]

EmptyQueue == [pending |-> <<>>, prev |-> "none", last |-> "none"]

AddPending_SavesChannel(q, t) ==
    [pending |-> Append(q.pending, t), prev |-> t.ch,
     last    |-> IF t.ch = "default" THEN t.type ELSE q.last]

AddPending(q, t) ==
    [pending |-> Append(q.pending, t),
     prev    |-> t.type,
     last    |-> IF t.ch = "default" THEN t.type ELSE q.last]

HideAndAdd_Drops(q, t) == q
HideAndAdd(q, t) == AddPending(q, [t EXCEPT !.ch = "hidden"])

(* Several default-channel tokens, added one after the other.               *)
AddAll(q, ts) ==
    IF ts = <<>> THEN q
    ELSE [pending |-> q.pending \o ts, prev |-> Last(ts).type, last |-> Last(ts).type]

---------------------------------------------------------------------------
(* Indentation.  `ind` holds the stack of indentation lengths and the three *)
(* flags that detect the first inconsistent mix of tabs and spaces.         *)

TabLength == 8
INVALID_LENGTH == -1

Indentation == [stack : Seq(Nat), space : BOOLEAN, tab : BOOLEAN, mixed : BOOLEAN]

NoIndentation == [stack |-> <<>>, space |-> FALSE, tab |-> FALSE, mixed |-> FALSE]

(* The column the whitespace characters of `text` reach.                    *)
IndentWidth(text) ==
    LET width[i \in 0..Len(text)] ==
          IF i = 0 THEN 0
          ELSE CASE text[i] = " "  -> width[i-1] + 1
                 [] text[i] = "\t" -> width[i-1] + TabLength - (width[i-1] % TabLength)
                 [] text[i] = "\f" -> 0
                 [] OTHER          -> width[i-1]
    IN  width[Len(text)]

SeenSpace(ind, text) == ind.space \/ " " \in ToSet(text)
SeenTab(ind, text) == ind.tab \/ "\t" \in ToSet(text)

(* The mix of tabs and spaces is an error once, the first time it is seen.  *)
FirstMix(ind, text) == SeenSpace(ind, text) /\ SeenTab(ind, text) /\ ~ind.mixed

IndentLength(ind, text) ==
    IF FirstMix(ind, text) THEN INVALID_LENGTH ELSE IndentWidth(text)

(* What measuring `text` leaves in the three flags.                         *)
Measured(ind, text) ==
    [stack |-> ind.stack,
     space |-> SeenSpace(ind, text),
     tab   |-> SeenTab(ind, text),
     mixed |-> ind.mixed \/ FirstMix(ind, text)]

(* The loop of insert_INDENT_or_DEDENT pops while the top exceeds `len`: it *)
(* stops at the highest index whose length does not.                        *)
StopsAt(stack, len, m) ==
    m \in DOMAIN stack /\ stack[m] <= len /\ \A i \in DOMAIN stack : i > m => stack[i] > len

Kept(stack, len) == CHOOSE m \in DOMAIN stack : StopsAt(stack, len, m)

StackAfter_PushesSame(stack, len) ==
    IF len >= Last(stack) THEN Append(stack, len)
    ELSE SubSeq(stack, 1, Kept(stack, len))

StackAfter(stack, len) ==
    IF len > Last(stack) THEN Append(stack, len)
    ELSE SubSeq(stack, 1, Kept(stack, len))

LevelTokens_OneLevel(stack, len) ==
    IF len > Last(stack) THEN <<INDENT>>
    ELSE IF Kept(stack, len) = Len(stack) THEN <<>> ELSE <<DEDENT>>

(* One token per level: a DEDENT, or the error token when the new line is   *)
(* indented deeper than the level the pop uncovers.                         *)
LevelTokens(stack, len) ==
    IF len > Last(stack) THEN <<INDENT>>
    ELSE [i \in 1..(Len(stack) - Kept(stack, len)) |->
            IF len <= stack[Len(stack) - i] THEN DEDENT ELSE BAD_DEDENT]

(* What makes a stack of indentation lengths sound: the bottom 0 is there,  *)
(* and every level is deeper than the one below.                            *)
SoundStack(stack) ==
    /\ stack # <<>> /\ stack[1] = 0
    /\ \A i, j \in DOMAIN stack : i < j => stack[i] < stack[j]

Levelled(ind, len) == [ind EXCEPT !.stack = StackAfter(@, len)]

(* Whether the loop reported "inconsistent dedent".                         *)
BadDedent(stack, len) == BAD_DEDENT \in ToSet(LevelTokens(stack, len))

---------------------------------------------------------------------------
(* What the caller of nextToken() has received: the state of the current    *)
(* line, how far the stream has come, and the raw token heard last.         *)

Heard == [line  : {"first", "open", "ended", "indented", "joined"},
          phase : {"fresh", "body", "closing", "ended"},
          got   : Nat]

LineAfter(line, t) ==
    IF t.type = "EXPLICIT_LINE_JOINING"
    THEN IF line = "ended" THEN "joined" ELSE IF line = "indented" THEN "open" ELSE line
    ELSE IF t.ch = "hidden" \/ t.type = "EOF" THEN line
    ELSE CASE t.type \in {"NEWLINE", "DEDENT"} -> "ended"
           [] t.type = "INDENT"                -> "indented"
           [] OTHER                            -> "open"

PhaseAfter(phase, t) ==
    CASE t.type = "EOF"           -> "ended"
      [] t.type = "ENCODING"      -> "body"
      [] t = TRAILING_NEWLINE     -> "closing"
      [] OTHER                    -> phase

HeardAfter(h, t) ==
    [line  |-> LineAfter(h.line, t),
     phase |-> PhaseAfter(h.phase, t),
     got   |-> IF t.pos = 0 THEN h.got ELSE t.pos]
=============================================================================
