---------------------------- MODULE Python27Lexer ----------------------------
(***************************************************************************)
(* PythonLexerBase of the Python 2.7 grammar.  It looks one raw token ahead *)
(* and queues NEWLINE, INDENT and DEDENT tokens as the 3.13 lexer does, but *)
(* has one lexer mode, no ENCODING token and no f-strings, and every brace  *)
(* is a bracket.                                                            *)
(*                                                                          *)
(* A call of nextToken() runs through the values of pc: "idle", "leading"   *)
(* (the loop over the tokens before the first statement), "dispatch" (the   *)
(* case of cur_token is next), "pop".  "fresh" is a lexer just constructed  *)
(* or reset.                                                                *)
(***************************************************************************)
EXTENDS PyTokenQueue

CONSTANTS
    MaxRaw,     \* bound: raw tokens before EOF in one input
    RawTypes,   \* token types of the run's inputs
    WsTexts     \* texts of the WS tokens

ASSUME BoundAssumption == MaxRaw \in Nat
ASSUME RawTypesAssumption ==
    RawTypes \subseteq (Types \ {"none", "INDENT", "DEDENT", "ENCODING", "EOF", "WS", "COLONEQUAL",
                                 "FSTRING_START", "FSTRING_MIDDLE", "FSTRING_END"})
ASSUME TextAssumption == WsTexts \subseteq Seq(Blanks) \ {<<>>}

VARIABLES
    pc,        \* where the current call of nextToken() stands
    read,      \* raw tokens read from the generated lexer so far
    cur,       \* cur_token
    ffg,       \* ffg_token, the token one ahead
    opened,    \* brackets of any kind opened and not closed
    ind,       \* indentation stack and flags
    out,       \* the pending queue
    heard,     \* history: what the caller of nextToken() has received
    reported   \* whether the error listeners were called

vars == <<pc, read, cur, ffg, opened, ind, out, heard, reported>>

NothingHeard == [line |-> "first", phase |-> "body", got |-> 0]

(* What the generated lexer may return after `t`, with n raw tokens read.   *)
Raw(t, n) ==
    LET more == {RawToken(type, <<>>, n + 1) : type \in RawTypes}
                  \union {RawToken("WS", text, n + 1) : text \in WsTexts}
    IN  {RawToken("EOF", <<>>, n + 1)}
          \union (IF n < MaxRaw THEN {r \in more : MayFollow(t, r)} ELSE {})

TypeOK ==
    /\ pc \in {"fresh", "leading", "dispatch", "pop", "idle"} /\ read \in Nat
    /\ cur \in Token /\ ffg \in Token
    /\ opened \in Int
    /\ ind \in Indentation
    /\ out \in Queue
    /\ heard \in Heard
    /\ reported \in BOOLEAN

Init ==
    /\ pc = "fresh" /\ read = 0
    /\ cur = NoToken /\ ffg = NoToken
    /\ opened = 0
    /\ ind = NoIndentation
    /\ out = EmptyQueue
    /\ heard = NothingHeard
    /\ reported = FALSE

(* set_current_and_following_tokens, with `t` the token that is next.       *)
Following(t, n) == IF t.type = "EOF" THEN {t} ELSE Raw(t, n)

SetCurrentAndFollowing(t, n) ==
    /\ cur' = t
    /\ ffg' \in Following(t, n)
    /\ read' = ffg'.pos

Begin ==
    /\ pc = "fresh" /\ pc' = "leading"
    /\ \E t \in Raw(NoToken, 0) : SetCurrentAndFollowing(t, 1)
    /\ ind' = [ind EXCEPT !.stack = <<0>>]
    /\ UNCHANGED <<opened, out, heard, reported>>

(* Before the first statement every NEWLINE is hidden.                      *)
BeforeStatement == cur.type # "EOF" /\ (cur.ch = "hidden" \/ cur.type = "NEWLINE")

SkipLeading ==
    /\ pc = "leading" /\ BeforeStatement
    /\ out' = HideAndAdd(out, cur)
    /\ SetCurrentAndFollowing(ffg, read)
    /\ UNCHANGED <<pc, opened, ind, heard, reported>>

(* insert_leading_indent_token: the INDENT is queued, the stack stays.      *)
EndLeading ==
    /\ pc = "leading" /\ ~BeforeStatement /\ pc' = "dispatch"
    /\ LET afterWs == cur.type # "EOF" /\ out.prev = "WS"
           text == Last(out.pending).text
           indented == afterWs /\ IndentLength(ind, text) # 0
       IN  /\ ind' = IF afterWs THEN Measured(ind, text) ELSE ind
           /\ out' = IF indented THEN AddPending(out, LEADING_INDENT) ELSE out
           /\ reported' = (reported \/ indented)
    /\ UNCHANGED <<read, cur, ffg, opened, heard>>

Fetch ==
    /\ pc = "idle" /\ out.prev # "EOF" /\ pc' = "dispatch"
    /\ SetCurrentAndFollowing(ffg, read)
    /\ UNCHANGED <<opened, ind, out, heard, reported>>

---------------------------------------------------------------------------
(* The cases of check_next_token.                                           *)

At(types) == pc = "dispatch" /\ cur.type \in types /\ pc' = "pop"

AddCurrent == out' = AddPending(out, cur) /\ UNCHANGED <<read, cur, ffg, ind, heard>>

OpenBracket ==
    /\ At({"LPAR", "LBRACE"}) /\ AddCurrent
    /\ opened' = opened + 1
    /\ UNCHANGED reported

CloseBracket ==
    /\ At({"RPAR", "RBRACE"}) /\ AddCurrent
    /\ opened' = opened - 1
    /\ UNCHANGED reported

(* Implicit line joining.                                                   *)
NewlineInBrackets ==
    /\ At({"NEWLINE"}) /\ opened > 0
    /\ out' = HideAndAdd(out, cur)
    /\ UNCHANGED <<read, cur, ffg, opened, ind, heard, reported>>

EndsLine == At({"NEWLINE"}) /\ opened <= 0

(* A blank line or a comment follows: the NEWLINE is ignored.               *)
BeforeBlank(t) == t.type \in {"NEWLINE", "COMMENT"}

(* insert_indent_or_dedent_token, with the tokens behind queue q.           *)
InsertLevels(q, i, len) ==
    /\ out' = AddAll(q, LevelTokens(i.stack, len))
    /\ ind' = Levelled(i, len)
    /\ reported' = (reported \/ BadDedent(i.stack, len))

NewlineNoWs ==
    /\ EndsLine /\ ffg.type # "WS"
    /\ \/ /\ BeforeBlank(ffg)
          /\ out' = HideAndAdd(out, cur)
          /\ UNCHANGED <<ind, reported>>
       \/ /\ ~BeforeBlank(ffg)
          /\ InsertLevels(AddPending(out, cur), ind, 0)
    /\ UNCHANGED <<read, cur, ffg, opened, heard>>

(* A WS token follows: the lexer moves on to it and to the token after it.  *)
NewlineThenWs ==
    /\ EndsLine /\ ffg.type = "WS"
    /\ SetCurrentAndFollowing(ffg, read)
    /\ \/ /\ BeforeBlank(ffg')
          /\ out' = AddPending(HideAndAdd(out, cur), ffg)
          /\ UNCHANGED <<ind, reported>>
       \/ /\ ffg'.type = "EOF"
          /\ InsertLevels(AddPending(AddPending(out, cur), ffg), ind, 0)
       \/ /\ ~BeforeBlank(ffg') /\ ffg'.type # "EOF" /\ ~FirstMix(ind, ffg.text)
          /\ InsertLevels(AddPending(AddPending(out, cur), ffg),
                          Measured(ind, ffg.text), IndentLength(ind, ffg.text))
       \/ /\ ~BeforeBlank(ffg') /\ ffg'.type # "EOF" /\ FirstMix(ind, ffg.text)
          /\ ind' = Measured(ind, ffg.text)
          /\ out' = AddPending(AddPending(out, cur), BAD_TABS)
          /\ reported' = TRUE
    /\ UNCHANGED <<opened, heard>>

ErrorToken ==
    /\ At({"ERRORTOKEN"}) /\ AddCurrent
    /\ reported' = TRUE
    /\ UNCHANGED opened

(* The trailing NEWLINE, when the last line has none, the DEDENTs of the    *)
(* levels still open, and EOF; EOF alone when there was no statement.       *)
Trailing(q) == IF q.last \in {"NEWLINE", "DEDENT"} THEN q ELSE AddPending(q, TRAILING_NEWLINE)

EndOfFile_NotAlone ==
    /\ At({"EOF"})
    /\ out' = IF out.last = "none" THEN out
              ELSE AddPending(AddAll(Trailing(out), LevelTokens(ind.stack, 0)), cur)
    /\ ind' = Levelled(ind, 0)
    /\ UNCHANGED <<read, cur, ffg, opened, heard, reported>>

EndOfFile ==
    /\ At({"EOF"})
    /\ \/ /\ out.last = "none"
          /\ out' = AddPending(out, cur)
          /\ UNCHANGED <<ind, reported>>
       \/ /\ out.last # "none"
          /\ out' = AddPending(AddAll(Trailing(out), LevelTokens(ind.stack, 0)), cur)
          /\ ind' = Levelled(ind, 0)
          /\ reported' = (reported \/ BadDedent(ind.stack, 0))
    /\ UNCHANGED <<read, cur, ffg, opened, heard>>

OtherToken ==
    /\ At(Types \ {"NEWLINE", "LPAR", "LBRACE", "RPAR", "RBRACE", "ERRORTOKEN", "EOF"})
    /\ AddCurrent
    /\ UNCHANGED <<opened, reported>>

Dispatch ==
    \/ NewlineInBrackets \/ NewlineNoWs \/ NewlineThenWs
    \/ OpenBracket \/ CloseBracket
    \/ ErrorToken \/ EndOfFile \/ OtherToken

---------------------------------------------------------------------------
(* pending_tokens.pop(0).  A call after EOF was queued does nothing else.   *)
Pop_NotAfterEof ==
    /\ pc = "pop" /\ pc' = "idle"
    /\ out' = [out EXCEPT !.pending = Tail(@)]
    /\ heard' = HeardAfter(heard, Head(out.pending))
    /\ UNCHANGED <<read, cur, ffg, opened, ind, reported>>

Pop ==
    /\ pc = "pop" \/ (pc = "idle" /\ out.prev = "EOF" /\ heard.phase # "ended")
    /\ pc' = "idle"
    /\ out' = [out EXCEPT !.pending = Tail(@)]
    /\ heard' = HeardAfter(heard, Head(out.pending))
    /\ UNCHANGED <<read, cur, ffg, opened, ind, reported>>

(* reset(), between two calls: the input starts over.                       *)
Reset ==
    /\ pc = "idle"
    /\ pc' = "fresh" /\ read' = 0
    /\ cur' = NoToken /\ ffg' = NoToken
    /\ opened' = 0
    /\ ind' = NoIndentation
    /\ out' = EmptyQueue
    /\ heard' = NothingHeard
    /\ reported' = FALSE

NextToken == Begin \/ SkipLeading \/ EndLeading \/ Fetch \/ Dispatch \/ Pop

Next == NextToken \/ Reset

Spec == Init /\ [][Next]_vars

(* Once called, nextToken() runs on, and its caller calls again until EOF.  *)
FairSpec == Spec /\ WF_vars(NextToken)
---------------------------------------------------------------------------
(* Properties.                                                              *)

(* The bottom 0 is "never popped off", and every level is deeper than the   *)
(* one below, so that one INDENT answers to one DEDENT.                     *)
IndentStackOK == pc = "fresh" \/ SoundStack(ind.stack)

(* nextToken() pops right after check_next_token: whatever path that took,  *)
(* early return included, a token is waiting.                               *)
PopFindsToken ==
    pc = "pop" \/ (pc = "idle" /\ out.prev = "EOF" /\ heard.phase # "ended")
        => out.pending # <<>>

(* The raw tokens from the last one heard to the look-ahead.                *)
InHand == IF pc \in {"leading", "dispatch"} THEN <<cur>> ELSE <<>>
Ahead == IF pc = "fresh" \/ ffg.type = "EOF" THEN <<>> ELSE <<ffg>>
OnTheWay == OnlyIn(out.pending, ReadTokens) \o InHand \o Ahead

(* Every raw token is returned, once and in the order it was read, until    *)
(* tabs and spaces are mixed and the WS token that mixes them is dropped:   *)
(* from then on neighbours may be two apart, never more nor out of order.   *)
RawTokensInOrder ==
    \A i \in DOMAIN OnTheWay :
        LET before == IF i = 1 THEN heard.got ELSE OnTheWay[i - 1].pos
        IN  OnTheWay[i].pos \in {before + 1} \union (IF ind.mixed THEN {before + 2} ELSE {})

(* The stream the caller receives implements PyTokenStream.  What the lexer *)
(* has counted and the caller not yet received is taken off again.          *)
Pending(types) == Cardinality({i \in DOMAIN out.pending : out.pending[i].type \in types})
PendingAs(tokens) == Cardinality({i \in DOMAIN out.pending : out.pending[i] \in tokens})
Levels == IF ind.stack = <<>> THEN 0 ELSE Len(ind.stack) - 1

TokenStream == INSTANCE PyTokenStream WITH
    depth    <- Levels - PendingAs({INDENT}) + PendingAs({DEDENT, BAD_DEDENT}),
    brackets <- opened - Pending({"LPAR", "LBRACE"}) + Pending({"RPAR", "RBRACE"}),
    strings  <- 0,
    line     <- heard.line,
    phase    <- heard.phase

(* INDENTs and DEDENTs match and stand at the start of lines, NEWLINEs end  *)
(* lines that have tokens, never inside brackets, and EOF comes last with   *)
(* every level closed.                                                      *)
StreamOK == TokenStream!Stream

(* The caller gets EOF in the end, unless it resets the lexer for ever.     *)
EofReached == []<><<Reset>>_vars \/ <>(heard.phase = "ended")
=============================================================================
