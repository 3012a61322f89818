------------------------ MODULE Python27LexerProofs ------------------------
(***************************************************************************)
(* Theorems about Python27Lexer, for inputs of any length and alphabet.     *)
(***************************************************************************)
EXTENDS Python27Lexer, PyTokenQueueProofs

(* What is read from the generated lexer.                                   *)
ReadOK(t) == t \in Token /\ (t.type = "WS" => t.text \in WsTexts)

(* When pop is called, the queue holds a token: EOF, if nothing else.       *)
QueueInv ==
    /\ QueueOK(out)
    /\ pc = "pop" => out.pending # <<>>
    /\ (pc = "idle" /\ out.prev = "EOF" /\ out.pending = <<>>) => heard.phase = "ended"

IInv ==
    /\ TypeOK
    /\ IndentStackOK
    /\ pc # "fresh" => ReadOK(ffg)
    /\ QueueInv

LEMMA RawFacts ==
    ASSUME NEW t, NEW n \in Nat, NEW r \in Raw(t, n)
    PROVE  ReadOK(r) /\ r.pos = n + 1
<1>1. n + 1 \in Nat /\ <<>> \in Seq(Chars)
  BY EmptySeq
<1>2. \A text \in WsTexts : text \in Seq(Chars)
  <2>1. Blanks \subseteq Chars
    BY DEF Chars
  <2>2. QED
    BY <2>1, TextAssumption, SeqMonotonic
<1>3. PICK type \in Types, text \in Seq(Chars) :
          r = RawToken(type, text, n + 1) /\ (type = "WS" => text \in WsTexts)
  <2>1. CASE r = RawToken("EOF", <<>>, n + 1)
    BY <1>1, <2>1 DEF Types
  <2>2. CASE \E type \in RawTypes : r = RawToken(type, <<>>, n + 1)
    BY <1>1, <2>2, RawTypesAssumption
  <2>3. CASE \E text \in WsTexts : r = RawToken("WS", text, n + 1)
    BY <1>2, <2>3 DEF Types
  <2>4. QED
    BY <2>1, <2>2, <2>3 DEF Raw
<1>4. r \in Token /\ r.type = type /\ r.text = text /\ r.pos = n + 1
  BY <1>1, <1>3, TokenType
<1>5. QED
  BY <1>3, <1>4 DEF ReadOK, Token

LEMMA InitIInv == Init => IInv
<1> SUFFICES ASSUME Init PROVE IInv
  OBVIOUS
<1> USE DEF Init
<1>1. \A S : <<>> \in Seq(S)
  BY EmptySeq
<1>2. out \in Queue /\ out.pending = <<>> /\ pc = "fresh"
  BY <1>1 DEF EmptyQueue, Queue, Types
<1>3. ind \in Indentation
  BY <1>1 DEF NoIndentation, Indentation
<1>4. heard \in Heard
  BY DEF NothingHeard, Heard
<1>5. cur \in Token /\ ffg \in Token
  BY MadeTokens
<1>6. read \in Nat /\ opened \in Int
  OBVIOUS
<1>7. reported \in BOOLEAN
  OBVIOUS
<1>8. TypeOK
  BY <1>2, <1>3, <1>4, <1>5, <1>6, <1>7 DEF TypeOK
<1>9. QED
  BY <1>2, <1>8 DEF IInv, IndentStackOK, QueueInv, QueueOK

(* One step of set_current_and_following_tokens.                            *)
LEMMA AdvanceType ==
    ASSUME NEW t, ReadOK(t), NEW n \in Nat, SetCurrentAndFollowing(t, n)
    PROVE  cur' = t /\ cur' \in Token /\ ReadOK(ffg') /\ read' \in Nat
<1>1. ReadOK(ffg') /\ ffg'.pos \in Nat
  <2>1. CASE t.type = "EOF"
    BY <2>1 DEF SetCurrentAndFollowing, Following, ReadOK, Token
  <2>2. CASE t.type # "EOF"
    BY <2>2, RawFacts DEF SetCurrentAndFollowing, Following
  <2>3. QED
    BY <2>1, <2>2
<1>2. QED
  BY <1>1 DEF SetCurrentAndFollowing, ReadOK

(* What a step between two pops leaves to show.                             *)
LEMMA StepIInv ==
    ASSUME IInv, pc' \in {"leading", "dispatch", "pop"},
           cur' \in Token, ReadOK(ffg'), read' \in Nat, opened' \in Int,
           ind' \in Indentation, SoundStack(ind'.stack), reported' \in BOOLEAN,
           QueueOK(out'), pc' = "pop" => out'.pending # <<>>, heard' = heard
    PROVE  IInv'
<1>1. TypeOK'
  BY DEF IInv, TypeOK, ReadOK, QueueOK
<1>2. QueueInv' /\ IndentStackOK'
  BY DEF QueueInv, IndentStackOK
<1>3. QED
  BY <1>1, <1>2 DEF IInv

LEMMA Facts ==
    ASSUME IInv
    PROVE  /\ cur \in Token /\ ffg \in Token /\ read \in Nat /\ opened \in Int
           /\ ind \in Indentation /\ reported \in BOOLEAN /\ QueueOK(out) /\ heard \in Heard
           /\ pc # "fresh" => SoundStack(ind.stack) /\ ReadOK(ffg)
BY DEF IInv, TypeOK, QueueInv, IndentStackOK

LEMMA BeginStep == IInv /\ Begin => IInv'
<1> SUFFICES ASSUME IInv, Begin PROVE IInv'
  OBVIOUS
<1>1. PICK t \in Raw(NoToken, 0) : SetCurrentAndFollowing(t, 1)
  BY DEF Begin
<1>2. cur' \in Token /\ ReadOK(ffg') /\ read' \in Nat
  BY <1>1, RawFacts, AdvanceType, 0 \in Nat, 1 \in Nat
<1>3. ind' \in Indentation /\ SoundStack(ind'.stack)
  <2>1. <<0>> \in Seq(Nat) /\ Len(<<0>>) = 1 /\ <<0>>[1] = 0 /\ <<0>> # <<>>
    BY Singleton, 0 \in Nat
  <2>2. SoundStack(<<0>>)
    BY <2>1 DEF SoundStack
  <2>3. ind \in Indentation /\ ind' = [ind EXCEPT !.stack = <<0>>]
    BY Facts DEF Begin
  <2>4. ind' \in Indentation /\ ind'.stack = <<0>>
    BY <2>1, <2>3 DEF Indentation
  <2>5. QED
    BY <2>2, <2>4
<1>4. pc' = "leading" /\ UNCHANGED <<opened, out, heard, reported>>
  BY DEF Begin
<1>5. QED
  BY <1>2, <1>3, <1>4, Facts, StepIInv

LEMMA SkipLeadingStep == IInv /\ SkipLeading => IInv'
<1> SUFFICES ASSUME IInv, SkipLeading PROVE IInv'
  OBVIOUS
<1>1. /\ pc = "leading" /\ pc' = pc /\ out' = HideAndAdd(out, cur)
      /\ SetCurrentAndFollowing(ffg, read)
      /\ UNCHANGED <<opened, ind, heard, reported>>
  BY DEF SkipLeading
<1>2. cur' \in Token /\ ReadOK(ffg') /\ read' \in Nat
  BY <1>1, Facts, AdvanceType
<1>3. QueueOK(out')
  BY <1>1, Facts, HideAndAddOK
<1>4. QED
  BY <1>1, <1>2, <1>3, Facts, StepIInv

LEMMA EndLeadingStep == IInv /\ EndLeading => IInv'
<1> SUFFICES ASSUME IInv, EndLeading PROVE IInv'
  OBVIOUS
<1>1. /\ pc = "leading" /\ pc' = "dispatch"
      /\ UNCHANGED <<read, cur, ffg, opened, heard>>
      /\ ind' = ind \/ \E text : ind' = Measured(ind, text)
      /\ out' = out \/ out' = AddPending(out, LEADING_INDENT)
      /\ reported' \in BOOLEAN
  BY Facts DEF EndLeading
<1>2. QueueOK(out')
  BY <1>1, Facts, MadeTokens, AddPendingOK
<1>3. ind' \in Indentation /\ ind'.stack = ind.stack
  BY <1>1, Facts, MeasuredType
<1>4. QED
  BY <1>1, <1>2, <1>3, Facts, StepIInv

LEMMA FetchStep == IInv /\ Fetch => IInv'
<1> SUFFICES ASSUME IInv, Fetch PROVE IInv'
  OBVIOUS
<1>1. /\ pc = "idle" /\ pc' = "dispatch" /\ SetCurrentAndFollowing(ffg, read)
      /\ UNCHANGED <<opened, ind, out, heard, reported>>
  BY DEF Fetch
<1>2. cur' \in Token /\ ReadOK(ffg') /\ read' \in Nat
  BY <1>1, Facts, AdvanceType
<1>3. QED
  BY <1>1, <1>2, Facts, StepIInv

LEMMA InsertLevelsSound ==
    ASSUME NEW q, QueueOK(q), q.pending # <<>>,
           NEW i \in Indentation, SoundStack(i.stack), NEW len \in Nat,
           InsertLevels(q, i, len), reported \in BOOLEAN
    PROVE  /\ QueueOK(out') /\ out'.pending # <<>>
           /\ ind' \in Indentation /\ SoundStack(ind'.stack)
           /\ reported' \in BOOLEAN
<1>1. i.stack \in Seq(Nat)
  BY DEF Indentation
<1>2. QueueOK(out') /\ out'.pending # <<>>
  BY <1>1, LevelTokensType, AddAllOK DEF InsertLevels
<1>3. /\ StackAfter(i.stack, len) \in Seq(Nat) /\ SoundStack(StackAfter(i.stack, len))
  BY <1>1, StackAfterSound
<1>4. Levelled(i, len) \in Indentation /\ Levelled(i, len).stack = StackAfter(i.stack, len)
  BY <1>3 DEF Levelled, Indentation
<1>5. ind' \in Indentation /\ SoundStack(ind'.stack) /\ reported' \in BOOLEAN
  BY <1>3, <1>4 DEF InsertLevels, BadDedent
<1>6. QED
  BY <1>2, <1>5

(* The cases that only queue the current token.                             *)
LEMMA AddCurrentStep ==
    IInv /\ (OpenBracket \/ CloseBracket \/ ErrorToken \/ OtherToken) => IInv'
<1> SUFFICES ASSUME IInv, OpenBracket \/ CloseBracket \/ ErrorToken \/ OtherToken
             PROVE  IInv'
  OBVIOUS
<1>1. /\ pc = "dispatch" /\ pc' = "pop" /\ AddCurrent
      /\ opened' \in {opened, opened + 1, opened - 1}
      /\ reported' = reported \/ reported' = TRUE
  BY DEF OpenBracket, CloseBracket, ErrorToken, OtherToken, At
<1>2. /\ QueueOK(out') /\ out'.pending # <<>>
      /\ UNCHANGED <<read, cur, ffg, ind, heard>>
  BY <1>1, Facts, AddPendingOK DEF AddCurrent
<1>3. opened' \in Int /\ reported' \in BOOLEAN
  <2>1. opened \in Int /\ reported \in BOOLEAN
    BY Facts
  <2>2. opened' \in Int
    BY <1>1, <2>1
  <2>3. QED
    BY <1>1, <2>1, <2>2
<1>4. QED
  BY <1>1, <1>2, <1>3, Facts, StepIInv

LEMMA NewlineInBracketsStep == IInv /\ NewlineInBrackets => IInv'
<1> SUFFICES ASSUME IInv, NewlineInBrackets PROVE IInv'
  OBVIOUS
<1>1. /\ pc = "dispatch" /\ pc' = "pop" /\ out' = HideAndAdd(out, cur)
      /\ UNCHANGED <<read, cur, ffg, opened, ind, heard, reported>>
  BY DEF NewlineInBrackets, At
<1>2. QueueOK(out') /\ out'.pending # <<>>
  BY <1>1, Facts, HideAndAddOK
<1>3. QED
  BY <1>1, <1>2, Facts, StepIInv

LEMMA NewlineNoWsStep == IInv /\ NewlineNoWs => IInv'
<1> SUFFICES ASSUME IInv, NewlineNoWs PROVE IInv'
  OBVIOUS
<1>1. /\ pc = "dispatch" /\ pc' = "pop"
      /\ UNCHANGED <<read, cur, ffg, opened, heard>>
  BY DEF NewlineNoWs, EndsLine, At
<1>2. CASE out' = HideAndAdd(out, cur) /\ UNCHANGED <<ind, reported>>
  <2>1. QueueOK(out') /\ out'.pending # <<>>
    BY <1>1, <1>2, Facts, HideAndAddOK
  <2>2. QED
    BY <1>1, <1>2, <2>1, Facts, StepIInv
<1>3. CASE InsertLevels(AddPending(out, cur), ind, 0)
  <2>1. /\ QueueOK(out') /\ out'.pending # <<>> /\ ind' \in Indentation
        /\ SoundStack(ind'.stack) /\ reported' \in BOOLEAN
    BY <1>1, <1>3, Facts, AddPendingOK, InsertLevelsSound, 0 \in Nat
  <2>2. QED
    BY <1>1, <2>1, Facts, StepIInv
<1>4. QED
  BY <1>2, <1>3 DEF NewlineNoWs

(* Every WS token has an indentation length.                                *)
LEMMA Widths == \A text \in WsTexts : IndentWidth(text) \in Nat
  BY TextAssumption, WidthOfText

LEMMA NewlineThenWsStep == IInv /\ NewlineThenWs => IInv'
<1> SUFFICES ASSUME IInv, NewlineThenWs PROVE IInv'
  OBVIOUS
<1> DEFINE q == AddPending(AddPending(out, cur), ffg)
<1>1. /\ pc = "dispatch" /\ pc' = "pop" /\ ffg.type = "WS"
      /\ SetCurrentAndFollowing(ffg, read) /\ UNCHANGED <<opened, heard>>
  BY DEF NewlineThenWs, EndsLine, At
<1>2. cur' \in Token /\ ReadOK(ffg') /\ read' \in Nat
  BY <1>1, Facts, AdvanceType
<1>3. SUFFICES /\ QueueOK(out') /\ out'.pending # <<>> /\ ind' \in Indentation
               /\ SoundStack(ind'.stack) /\ reported' \in BOOLEAN
  BY <1>1, <1>2, Facts, StepIInv
<1>4. QueueOK(q) /\ q.pending # <<>>
  BY Facts, AddPendingOK
<1>5. CASE /\ out' = AddPending(HideAndAdd(out, cur), ffg)
           /\ UNCHANGED <<ind, reported>>
  BY <1>1, <1>5, Facts, HideAndAddOK, AddPendingOK
<1>6. CASE InsertLevels(q, ind, 0)
  BY <1>1, <1>4, <1>6, Facts, InsertLevelsSound, 0 \in Nat
<1>7. CASE /\ ~FirstMix(ind, ffg.text)
           /\ InsertLevels(q, Measured(ind, ffg.text), IndentLength(ind, ffg.text))
  <2>1. ffg.text \in WsTexts
    BY <1>1, Facts DEF ReadOK
  <2>2. IndentLength(ind, ffg.text) \in Nat
    BY <1>7, <2>1, Widths DEF IndentLength
  <2>3. /\ Measured(ind, ffg.text) \in Indentation
        /\ SoundStack(Measured(ind, ffg.text).stack)
    BY <1>1, Facts, MeasuredType
  <2> HIDE DEF q
  <2>4. QED
    BY <1>4, <1>7, <2>2, <2>3, Facts, InsertLevelsSound
<1>8. CASE /\ ind' = Measured(ind, ffg.text)
           /\ out' = AddPending(AddPending(out, cur), BAD_TABS)
           /\ reported' = TRUE
  BY <1>1, <1>8, Facts, MeasuredType, MadeTokens, AddPendingOK
<1>9. QED
  BY <1>5, <1>6, <1>7, <1>8 DEF NewlineThenWs

LEMMA EndOfFileStep == IInv /\ EndOfFile => IInv'
<1> SUFFICES ASSUME IInv, EndOfFile PROVE IInv'
  OBVIOUS
<1>1. /\ pc = "dispatch" /\ pc' = "pop"
      /\ UNCHANGED <<read, cur, ffg, opened, heard>>
  BY DEF EndOfFile, At
<1>2. CASE out' = AddPending(out, cur) /\ UNCHANGED <<ind, reported>>
  <2>1. QueueOK(out') /\ out'.pending # <<>>
    BY <1>1, <1>2, Facts, AddPendingOK
  <2>2. QED
    BY <1>1, <1>2, <2>1, Facts, StepIInv
<1>3. CASE /\ out' = AddPending(AddAll(Trailing(out), LevelTokens(ind.stack, 0)), cur)
           /\ ind' = Levelled(ind, 0)
           /\ reported' = (reported \/ BadDedent(ind.stack, 0))
  <2>1. QueueOK(Trailing(out))
    BY Facts, MadeTokens, AddPendingOK DEF Trailing
  <2>2. ind.stack \in Seq(Nat) /\ SoundStack(ind.stack)
    BY <1>1, Facts DEF Indentation
  <2>3. LevelTokens(ind.stack, 0) \in Seq(Token)
    BY <2>2, LevelTokensType, 0 \in Nat
  <2>4. QueueOK(AddAll(Trailing(out), LevelTokens(ind.stack, 0)))
    BY <2>1, <2>3, AddAllOK
  <2>5. QueueOK(out') /\ out'.pending # <<>>
    BY <1>3, <2>4, Facts, AddPendingOK
  <2>6. /\ StackAfter(ind.stack, 0) \in Seq(Nat) /\ SoundStack(StackAfter(ind.stack, 0))
    BY <2>2, StackAfterSound, 0 \in Nat
  <2>7. ind' \in Indentation /\ ind'.stack = StackAfter(ind.stack, 0)
    BY <1>3, <2>6, Facts DEF Levelled, Indentation
  <2>8. reported' \in BOOLEAN
    BY <1>3 DEF BadDedent
  <2>9. QED
    BY <1>1, <2>5, <2>6, <2>7, <2>8, Facts, StepIInv
<1>4. QED
  BY <1>2, <1>3 DEF EndOfFile

LEMMA PopStep == IInv /\ Pop => IInv'
<1> SUFFICES ASSUME IInv, Pop PROVE IInv'
  OBVIOUS
<1>1. /\ pc # "fresh" /\ pc' = "idle" /\ out.pending # <<>>
      /\ UNCHANGED <<read, cur, ffg, opened, ind, reported>>
  BY DEF Pop, IInv, QueueInv
<1> DEFINE s == out.pending
<1>2. QueueOK(out) /\ s \in Seq(Token)
  BY Facts DEF QueueOK, Queue
<1>3. /\ Head(s) \in Token /\ Head(s) = s[1] /\ Tail(s) \in Seq(Token)
      /\ Len(Tail(s)) = Len(s) - 1 /\ Len(s) \in Nat \ {0}
      /\ \A i \in 1..Len(Tail(s)) : Tail(s)[i] = s[i + 1]
  BY <1>1, <1>2, HeadTailProperties, EmptySeq
<1>4. out' \in Queue /\ out'.pending = Tail(s) /\ out'.prev = out.prev
  BY <1>2, <1>3 DEF Pop, QueueOK, Queue
<1>5. heard' \in Heard /\ (Head(s).type = "EOF" => heard'.phase = "ended")
  BY <1>3, Facts, HeardType DEF Pop
<1>6. TypeOK' /\ IndentStackOK' /\ ReadOK(ffg')
  BY <1>1, <1>4, <1>5 DEF IInv, TypeOK, IndentStackOK
<1>7. Last(s) = s[Len(s)] /\ Last(s).type = out.prev
  BY <1>1, <1>2 DEF Last, QueueOK
<1> HIDE DEF s
<1>8. CASE Tail(s) = <<>>
  <2>1. Len(s) = 1
    <3>1. Len(Tail(s)) = 0
      BY <1>3, <1>8, EmptySeq
    <3>2. QED
      BY <1>3, <3>1, SMTT(60)
  <2>2. QED
    BY <1>1, <1>3, <1>4, <1>5, <1>6, <1>7, <1>8, <2>1 DEF IInv, QueueInv, QueueOK
<1>9. CASE Tail(s) # <<>>
  <2>1. Len(Tail(s)) \in 1..Len(Tail(s))
    BY <1>3, <1>9, EmptySeq
  <2>2. Tail(s)[Len(Tail(s))] = s[Len(s)]
    BY <1>3, <2>1
  <2>3. QED
    BY <1>1, <1>4, <1>6, <1>7, <1>9, <2>2 DEF IInv, QueueInv, QueueOK, Last
<1>10. QED
  BY <1>8, <1>9

(* Reset leaves what Init starts with.                                      *)
LEMMA ResetStep == IInv /\ Reset => IInv'
<1> SUFFICES ASSUME Reset PROVE IInv'
  OBVIOUS
<1>1. Init'
  BY DEF Reset, Init
<1>2. QED
  BY <1>1, InitIInv, PTL

LEMMA NextIInv == IInv /\ [Next]_vars => IInv'
<1>1. IInv /\ UNCHANGED vars => IInv'
  BY DEF vars, IInv, TypeOK, IndentStackOK, QueueInv
<1>2. IInv /\ Dispatch => IInv'
  BY AddCurrentStep, NewlineInBracketsStep, NewlineNoWsStep, NewlineThenWsStep,
     EndOfFileStep DEF Dispatch
<1>3. QED
  BY <1>1, <1>2, BeginStep, SkipLeadingStep, EndLeadingStep, FetchStep, PopStep, ResetStep
  DEF Next, NextToken

(* The inductive invariant holds of every lexer, whatever the input.        *)
THEOREM Invariance == Spec => []IInv
BY InitIInv, NextIInv, PTL DEF Spec

(* nextToken() and its handlers keep every field of the class in its range. *)
THEOREM Typing == Spec => []TypeOK
BY Invariance, PTL DEF IInv

(* insert_indent_or_dedent: 0 stays at the bottom of the indentation stack, *)
(* and the levels above it increase.                                        *)
THEOREM IndentStack == Spec => []IndentStackOK
BY Invariance, PTL DEF IInv

(* nextToken(): pending_tokens.pop(0) never meets an empty list.            *)
THEOREM PopSafe == Spec => []PopFindsToken
<1>1. IInv => PopFindsToken
  BY DEF IInv, QueueInv, PopFindsToken
<1>2. QED
  BY <1>1, Invariance, PTL
---------------------------------------------------------------------------
(* The order of the raw tokens.  The current token comes after those that   *)
(* wait in the queue, the last of which is raw token e, and the look-ahead  *)
(* token after the current one.                                             *)
InOrderTo(e) ==
    /\ Ordered({}, ind.mixed, heard.got, out, e)
    /\ pc = "fresh" => e = 0
    /\ pc \in {"leading", "dispatch"} =>
          /\ Follows({}, ind.mixed, e, cur) /\ cur.pos # 0
          /\ IF cur.type = "EOF" THEN ffg.type = "EOF" ELSE ffg.pos = cur.pos + 1
    /\ pc \in {"pop", "idle"} =>
          (out.prev = "EOF" /\ ffg.type = "EOF") \/ Follows({}, ind.mixed, e, ffg)

OrderOK ==
    /\ pc = "fresh" => out.pending = <<>> /\ heard.got = 0
    /\ pc # "fresh" => read = ffg.pos /\ ffg.pos # 0
    /\ \E e \in Nat : InOrderTo(e)

LEMMA InitOrder == Init => OrderOK
<1> SUFFICES ASSUME Init PROVE OrderOK
  OBVIOUS
<1>1. out.pending = <<>> /\ heard.got = 0 /\ pc = "fresh"
  BY DEF Init, EmptyQueue, NothingHeard
<1>2. Ordered({}, ind.mixed, heard.got, out, 0)
  BY <1>1, EmptyOrdered
<1>3. InOrderTo(0)
  BY <1>1, <1>2 DEF InOrderTo
<1>4. QED
  BY <1>1, <1>3, 0 \in Nat DEF OrderOK

(* The next raw token bears the next number.                                *)
LEMMA AdvancePos ==
    ASSUME NEW t, ReadOK(t), t.pos # 0, SetCurrentAndFollowing(t, t.pos)
    PROVE  /\ cur' = t /\ read' = ffg'.pos /\ ffg'.pos # 0
           /\ IF t.type = "EOF" THEN ffg'.type = "EOF" ELSE ffg'.pos = t.pos + 1
<1>1. t.pos \in Nat
  BY DEF ReadOK, Token
<1>2. CASE t.type = "EOF"
  BY <1>2 DEF SetCurrentAndFollowing, Following
<1>3. CASE t.type # "EOF"
  <2>1. ffg' \in Raw(t, t.pos) /\ cur' = t /\ read' = ffg'.pos
    BY <1>3 DEF SetCurrentAndFollowing, Following
  <2>2. ffg'.pos = t.pos + 1
    BY <1>1, <2>1, RawFacts
  <2>3. QED
    BY <1>1, <1>3, <2>1, <2>2
<1>4. QED
  BY <1>2, <1>3

LEMMA OrderFacts ==
    ASSUME IInv, OrderOK, pc # "fresh"
    PROVE  /\ cur \in Token /\ ffg \in Token /\ ReadOK(ffg) /\ out \in Queue /\ heard \in Heard
           /\ read = ffg.pos /\ ffg.pos # 0 /\ cur.pos \in Nat /\ ffg.pos \in Nat
           /\ ind \in Indentation /\ ind.stack \in Seq(Nat) /\ SoundStack(ind.stack)
BY Facts DEF OrderOK, QueueOK, Token, Indentation

(* What is left to show of a step of nextToken().                           *)
LEMMA OrderStep ==
    ASSUME pc' # "fresh", read' = ffg'.pos, ffg'.pos # 0, NEW e \in Nat,
           Ordered({}, ind'.mixed, heard'.got, out', e),
           pc' \in {"leading", "dispatch"} =>
              /\ Follows({}, ind'.mixed, e, cur') /\ cur'.pos # 0
              /\ IF cur'.type = "EOF" THEN ffg'.type = "EOF" ELSE ffg'.pos = cur'.pos + 1,
           pc' \in {"pop", "idle"} =>
              (out'.prev = "EOF" /\ ffg'.type = "EOF") \/ Follows({}, ind'.mixed, e, ffg')
    PROVE  OrderOK'
<1>1. InOrderTo(e)'
  BY DEF InOrderTo
<1>2. QED
  BY <1>1 DEF OrderOK

LEMMA BeginOrder == IInv /\ OrderOK /\ Begin => OrderOK'
<1> SUFFICES ASSUME IInv, OrderOK, Begin PROVE OrderOK'
  OBVIOUS
<1>1. /\ pc = "fresh" /\ pc' = "leading" /\ ind' = [ind EXCEPT !.stack = <<0>>]
      /\ UNCHANGED <<opened, out, heard, reported>>
  BY DEF Begin
<1>2. PICK t \in Raw(NoToken, 0) : SetCurrentAndFollowing(t, 1)
  BY DEF Begin
<1>3. ReadOK(t) /\ t.pos = 1
  BY RawFacts, 0 \in Nat
<1>4. /\ cur' = t /\ read' = ffg'.pos /\ ffg'.pos # 0
      /\ IF t.type = "EOF" THEN ffg'.type = "EOF" ELSE ffg'.pos = t.pos + 1
  BY <1>2, <1>3, AdvancePos
<1>5. out.pending = <<>> /\ heard.got = 0
  BY <1>1 DEF OrderOK
<1>6. Ordered({}, ind'.mixed, heard'.got, out', 0)
  BY <1>1, <1>5, EmptyOrdered
<1>7. Follows({}, ind'.mixed, 0, cur')
  BY <1>3, <1>4 DEF Follows
<1>8. QED
  BY <1>1, <1>3, <1>4, <1>6, <1>7, 0 \in Nat, OrderStep

LEMMA SkipLeadingOrder == IInv /\ OrderOK /\ SkipLeading => OrderOK'
<1> SUFFICES ASSUME IInv, OrderOK, SkipLeading PROVE OrderOK'
  OBVIOUS
<1>1. /\ pc = "leading" /\ pc' = pc /\ cur.type # "EOF" /\ out' = HideAndAdd(out, cur)
      /\ SetCurrentAndFollowing(ffg, read) /\ ind' = ind /\ heard' = heard
  BY DEF SkipLeading, BeforeStatement
<1>2. PICK e \in Nat : InOrderTo(e)
  BY DEF OrderOK
<1>3. /\ Ordered({}, ind.mixed, heard.got, out, e) /\ Follows({}, ind.mixed, e, cur)
      /\ cur.pos # 0 /\ ffg.pos = cur.pos + 1
  BY <1>1, <1>2 DEF InOrderTo
<1>4. /\ cur' = ffg /\ read' = ffg'.pos /\ ffg'.pos # 0
      /\ IF ffg.type = "EOF" THEN ffg'.type = "EOF" ELSE ffg'.pos = ffg.pos + 1
  BY <1>1, OrderFacts, AdvancePos
<1>5. Ordered({}, ind'.mixed, heard'.got, out', cur.pos)
  BY <1>1, <1>3, OrderFacts, PutHidden
<1>6. Follows({}, ind'.mixed, cur.pos, cur')
  BY <1>3, <1>4 DEF Follows
<1>7. QED
  BY <1>1, <1>4, <1>5, <1>6, OrderFacts, OrderStep

LEMMA EndLeadingOrder == IInv /\ OrderOK /\ EndLeading => OrderOK'
<1> SUFFICES ASSUME IInv, OrderOK, EndLeading PROVE OrderOK'
  OBVIOUS
<1>1. /\ pc = "leading" /\ pc' = "dispatch"
      /\ UNCHANGED <<read, cur, ffg, opened, heard>>
      /\ ind' = ind \/ \E text : ind' = Measured(ind, text)
      /\ out' = out \/ out' = AddPending(out, LEADING_INDENT)
  BY DEF EndLeading
<1>2. PICK e \in Nat : InOrderTo(e)
  BY DEF OrderOK
<1>3. /\ Ordered({}, ind.mixed, heard.got, out, e) /\ Follows({}, ind.mixed, e, cur)
      /\ cur.pos # 0 /\ IF cur.type = "EOF" THEN ffg.type = "EOF" ELSE ffg.pos = cur.pos + 1
  BY <1>1, <1>2 DEF InOrderTo
<1>4. ind.mixed => ind'.mixed
  <2>1. \A text : ind.mixed => Measured(ind, text).mixed
    BY DEF Measured
  <2>2. QED
    BY <1>1, <2>1
<1>5. LEADING_INDENT \in Token /\ LEADING_INDENT.pos = 0
  BY MadeTokens DEF LEADING_INDENT, MadeToken
<1>6. Ordered({}, ind.mixed, heard.got, out', e)
  BY <1>1, <1>3, <1>5, OrderFacts, PutMade
<1>7. Ordered({}, ind'.mixed, heard'.got, out', e)
  BY <1>1, <1>4, <1>6, OrderedMixed
<1>8. Follows({}, ind'.mixed, e, cur')
  BY <1>1, <1>3, <1>4 DEF Follows
<1>9. QED
  BY <1>1, <1>3, <1>7, <1>8, OrderFacts, OrderStep

LEMMA FetchOrder == IInv /\ OrderOK /\ Fetch => OrderOK'
<1> SUFFICES ASSUME IInv, OrderOK, Fetch PROVE OrderOK'
  OBVIOUS
<1>1. /\ pc = "idle" /\ out.prev # "EOF" /\ pc' = "dispatch" /\ SetCurrentAndFollowing(ffg, read)
      /\ UNCHANGED <<opened, ind, out, heard, reported>>
  BY DEF Fetch
<1>2. PICK e \in Nat : InOrderTo(e)
  BY DEF OrderOK
<1>3. Ordered({}, ind.mixed, heard.got, out, e) /\ Follows({}, ind.mixed, e, ffg)
  BY <1>1, <1>2 DEF InOrderTo
<1>4. /\ cur' = ffg /\ read' = ffg'.pos /\ ffg'.pos # 0
      /\ IF ffg.type = "EOF" THEN ffg'.type = "EOF" ELSE ffg'.pos = ffg.pos + 1
  BY <1>1, OrderFacts, AdvancePos
<1>5. QED
  BY <1>1, <1>3, <1>4, OrderFacts, OrderStep

(* A case of check_next_token that leaves the look-ahead token alone: the   *)
(* current token is queued, and no other raw token.                         *)
LEMMA QueuedOrder ==
    ASSUME IInv, OrderOK, pc = "dispatch", pc' = "pop",
           UNCHANGED <<read, cur, ffg, heard>>, ind'.mixed = ind.mixed,
           cur.type = "EOF" => out'.prev = "EOF",
           \A e \in Nat : Ordered({}, ind.mixed, heard.got, out, e) /\ Follows({}, ind.mixed, e, cur)
              => Ordered({}, ind.mixed, heard.got, out', cur.pos)
    PROVE  OrderOK'
<1>1. PICK e \in Nat : InOrderTo(e)
  BY DEF OrderOK
<1>2. /\ Ordered({}, ind.mixed, heard.got, out, e) /\ Follows({}, ind.mixed, e, cur)
      /\ cur.pos # 0 /\ IF cur.type = "EOF" THEN ffg.type = "EOF" ELSE ffg.pos = cur.pos + 1
  BY <1>1 DEF InOrderTo
<1>3. Ordered({}, ind'.mixed, heard'.got, out', cur.pos)
  BY <1>2
<1>4. cur.type # "EOF" => Follows({}, ind'.mixed, cur.pos, ffg')
  BY <1>2 DEF Follows
<1>5. QED
  BY <1>2, <1>3, <1>4, OrderFacts, OrderStep

LEMMA AddCurrentOrder ==
    IInv /\ OrderOK /\ (OpenBracket \/ CloseBracket \/ ErrorToken \/ OtherToken) => OrderOK'
<1> SUFFICES ASSUME IInv, OrderOK, OpenBracket \/ CloseBracket \/ ErrorToken \/ OtherToken
             PROVE  OrderOK'
  OBVIOUS
<1>1. /\ pc = "dispatch" /\ pc' = "pop" /\ out' = AddPending(out, cur) /\ cur.type # "EOF"
      /\ UNCHANGED <<read, cur, ffg, ind, heard>>
  BY DEF OpenBracket, CloseBracket, ErrorToken, OtherToken, At, AddCurrent
<1>2. cur.pos # 0
  BY <1>1 DEF OrderOK, InOrderTo
<1>3. \A e \in Nat : Ordered({}, ind.mixed, heard.got, out, e) /\ Follows({}, ind.mixed, e, cur)
        => Ordered({}, ind.mixed, heard.got, out', cur.pos)
  BY <1>1, <1>2, OrderFacts, PutRead
<1>4. QED
  BY <1>1, <1>3, QueuedOrder

LEMMA NewlineInBracketsOrder == IInv /\ OrderOK /\ NewlineInBrackets => OrderOK'
<1> SUFFICES ASSUME IInv, OrderOK, NewlineInBrackets PROVE OrderOK'
  OBVIOUS
<1>1. /\ pc = "dispatch" /\ pc' = "pop" /\ out' = HideAndAdd(out, cur) /\ cur.type # "EOF"
      /\ UNCHANGED <<read, cur, ffg, opened, ind, heard, reported>>
  BY DEF NewlineInBrackets, At
<1>2. cur.pos # 0
  BY <1>1 DEF OrderOK, InOrderTo
<1>3. \A e \in Nat : Ordered({}, ind.mixed, heard.got, out, e) /\ Follows({}, ind.mixed, e, cur)
        => Ordered({}, ind.mixed, heard.got, out', cur.pos)
  BY <1>1, <1>2, OrderFacts, PutHidden
<1>4. QED
  BY <1>1, <1>3, QueuedOrder

LEMMA NewlineNoWsOrder == IInv /\ OrderOK /\ NewlineNoWs => OrderOK'
<1> SUFFICES ASSUME IInv, OrderOK, NewlineNoWs PROVE OrderOK'
  OBVIOUS
<1>1. /\ pc = "dispatch" /\ pc' = "pop" /\ cur.type # "EOF"
      /\ UNCHANGED <<read, cur, ffg, opened, heard>>
  BY DEF NewlineNoWs, EndsLine, At
<1>2. cur.pos # 0
  BY <1>1 DEF OrderOK, InOrderTo
<1>3. CASE out' = HideAndAdd(out, cur) /\ ind' = ind
  <2>1. \A e \in Nat : Ordered({}, ind.mixed, heard.got, out, e) /\ Follows({}, ind.mixed, e, cur)
          => Ordered({}, ind.mixed, heard.got, out', cur.pos)
    BY <1>1, <1>2, <1>3, OrderFacts, PutHidden
  <2>2. QED
    BY <1>1, <1>3, <2>1, QueuedOrder
<1>4. CASE InsertLevels(AddPending(out, cur), ind, 0)
  <2>1. /\ out' = AddAll(AddPending(out, cur), LevelTokens(ind.stack, 0))
        /\ ind'.mixed = ind.mixed
    BY <1>1, <1>4, OrderFacts DEF InsertLevels, Levelled, Indentation
  <2>2. PICK q \in Queue : q = AddPending(out, cur)
    BY <1>1, OrderFacts, AddPendingType
  <2>3. \A e \in Nat : Ordered({}, ind.mixed, heard.got, out, e) /\ Follows({}, ind.mixed, e, cur)
          => Ordered({}, ind.mixed, heard.got, out', cur.pos)
    <3> SUFFICES ASSUME NEW e \in Nat, Ordered({}, ind.mixed, heard.got, out, e),
                        Follows({}, ind.mixed, e, cur)
                 PROVE  Ordered({}, ind.mixed, heard.got, out', cur.pos)
      OBVIOUS
    <3>1. Ordered({}, ind.mixed, heard.got, q, cur.pos)
      BY <1>1, <1>2, <2>2, OrderFacts, PutRead
    <3>2. QED
      BY <1>1, <2>1, <2>2, <3>1, OrderFacts, 0 \in Nat, PutLevels
  <2>4. QED
    BY <1>1, <2>1, <2>3, QueuedOrder
<1>5. QED
  BY <1>3, <1>4 DEF NewlineNoWs

(* The WS token is queued behind the NEWLINE, or dropped with its number.   *)
LEMMA NewlineThenWsOrder == IInv /\ OrderOK /\ NewlineThenWs => OrderOK'
<1> SUFFICES ASSUME IInv, OrderOK, NewlineThenWs PROVE OrderOK'
  OBVIOUS
<1>1. /\ pc = "dispatch" /\ pc' = "pop" /\ cur.type # "EOF" /\ ffg.type = "WS"
      /\ SetCurrentAndFollowing(ffg, read) /\ UNCHANGED <<opened, heard>>
  BY DEF NewlineThenWs, EndsLine, At
<1>2. PICK e \in Nat : InOrderTo(e)
  BY DEF OrderOK
<1>3. /\ Ordered({}, ind.mixed, heard.got, out, e) /\ Follows({}, ind.mixed, e, cur)
      /\ cur.pos # 0 /\ ffg.pos = cur.pos + 1
  BY <1>1, <1>2 DEF InOrderTo
<1>4. /\ out \in Queue /\ cur \in Token /\ ffg \in Token /\ ffg.pos # 0 /\ ffg.pos \in Nat
      /\ cur.pos \in Nat
      /\ ind.stack \in Seq(Nat) /\ SoundStack(ind.stack) /\ ind \in Indentation
  BY <1>1, OrderFacts
<1>5. read' = ffg'.pos /\ ffg'.pos # 0 /\ ffg'.pos = ffg.pos + 1
  BY <1>1, OrderFacts, AdvancePos
<1>6. PICK q1 \in Queue : q1 = AddPending(out, cur)
  BY <1>4, AddPendingType
<1>7. PICK q2 \in Queue : q2 = AddPending(q1, ffg)
  BY <1>4, AddPendingType
<1>8. Follows({}, ind.mixed, cur.pos, ffg)
  BY <1>3 DEF Follows
<1>9. Ordered({}, ind.mixed, heard.got, q1, cur.pos)
  BY <1>3, <1>4, <1>6, PutRead
<1>10. Ordered({}, ind.mixed, heard.got, q2, ffg.pos)
  BY <1>4, <1>7, <1>8, <1>9, PutRead
<1>11. CASE /\ out' = AddPending(HideAndAdd(out, cur), ffg)
            /\ ind' = ind
  <2>1. PICK h \in Queue : h = HideAndAdd(out, cur)
    <3>1. [cur EXCEPT !.ch = "hidden"] \in Token
      BY <1>4 DEF Token, Channels
    <3>2. QED
      BY <1>4, <3>1, AddPendingType DEF HideAndAdd
  <2>2. Ordered({}, ind.mixed, heard.got, h, cur.pos)
    BY <1>3, <1>4, <2>1, PutHidden
  <2>3. Ordered({}, ind.mixed, heard.got, out', ffg.pos)
    BY <1>4, <1>8, <1>11, <2>1, <2>2, PutRead
  <2>4. Follows({}, ind'.mixed, ffg.pos, ffg')
    BY <1>5 DEF Follows
  <2>5. QED
    BY <1>1, <1>4, <1>5, <1>11, <2>3, <2>4, OrderStep
<1>12. CASE \E i \in Indentation, len \in Nat :
              /\ i.stack = ind.stack /\ (ind.mixed => i.mixed)
              /\ InsertLevels(q2, i, len)
  <2>1. PICK i \in Indentation, len \in Nat :
              /\ i.stack = ind.stack /\ (ind.mixed => i.mixed)
              /\ InsertLevels(q2, i, len)
    BY <1>12
  <2>2. out' = AddAll(q2, LevelTokens(ind.stack, len)) /\ ind'.mixed = i.mixed
    BY <2>1 DEF InsertLevels, Levelled, Indentation
  <2>3. Ordered({}, ind.mixed, heard.got, out', ffg.pos)
    BY <1>4, <1>10, <2>1, <2>2, PutLevels
  <2>4. Ordered({}, ind'.mixed, heard.got, out', ffg.pos)
    BY <2>1, <2>2, <2>3, OrderedMixed
  <2>5. Follows({}, ind'.mixed, ffg.pos, ffg')
    BY <1>5 DEF Follows
  <2>6. QED
    BY <1>1, <1>4, <1>5, <2>4, <2>5, OrderStep
<1>13. CASE /\ FirstMix(ind, ffg.text)
            /\ ind' = Measured(ind, ffg.text)
            /\ out' = AddPending(AddPending(out, cur), BAD_TABS)
  <2>1. ind'.mixed
    BY <1>13 DEF Measured
  <2>2. BAD_TABS \in Token /\ BAD_TABS.pos = 0
    BY MadeTokens DEF BAD_TABS, MadeToken
  <2>3. Ordered({}, ind.mixed, heard.got, out', cur.pos)
    BY <1>6, <1>9, <1>13, <2>2, PutMade
  <2>4. Ordered({}, ind'.mixed, heard.got, out', cur.pos)
    BY <2>1, <2>3, OrderedMixed
  <2>5. Follows({}, ind'.mixed, cur.pos, ffg')
    BY <1>3, <1>4, <1>5, <2>1 DEF Follows
  <2>6. QED
    BY <1>1, <1>4, <1>5, <2>4, <2>5, OrderStep
<1>14. InsertLevels(AddPending(AddPending(out, cur), ffg), ind, 0) =>
         \E i \in Indentation, len \in Nat :
              /\ i.stack = ind.stack /\ (ind.mixed => i.mixed)
              /\ InsertLevels(q2, i, len)
  BY <1>4, <1>6, <1>7, 0 \in Nat
<1>15. ~FirstMix(ind, ffg.text)
         /\ InsertLevels(AddPending(AddPending(out, cur), ffg),
                         Measured(ind, ffg.text), IndentLength(ind, ffg.text)) =>
         \E i \in Indentation, len \in Nat :
              /\ i.stack = ind.stack /\ (ind.mixed => i.mixed)
              /\ InsertLevels(q2, i, len)
  <2> SUFFICES ASSUME ~FirstMix(ind, ffg.text),
                      InsertLevels(q2, Measured(ind, ffg.text), IndentLength(ind, ffg.text))
               PROVE  \E i \in Indentation, len \in Nat :
                         /\ i.stack = ind.stack /\ (ind.mixed => i.mixed)
                         /\ InsertLevels(q2, i, len)
    BY <1>6, <1>7
  <2>1. ffg.text \in WsTexts
    BY <1>1, OrderFacts DEF ReadOK
  <2>2. IndentLength(ind, ffg.text) \in Nat
    BY <2>1, Widths DEF IndentLength
  <2>3. /\ Measured(ind, ffg.text) \in Indentation
        /\ Measured(ind, ffg.text).stack = ind.stack
    BY <1>4, MeasuredType
  <2>4. ind.mixed => Measured(ind, ffg.text).mixed
    BY DEF Measured
  <2>5. QED
    BY <2>2, <2>3, <2>4
<1>16. QED
  BY <1>11, <1>12, <1>13, <1>14, <1>15 DEF NewlineThenWs

LEMMA EndOfFileOrder == IInv /\ OrderOK /\ EndOfFile => OrderOK'
<1> SUFFICES ASSUME IInv, OrderOK, EndOfFile PROVE OrderOK'
  OBVIOUS
<1>1. /\ pc = "dispatch" /\ pc' = "pop" /\ cur.type = "EOF"
      /\ UNCHANGED <<read, cur, ffg, opened, heard>>
  BY DEF EndOfFile, At
<1>2. cur.pos # 0
  BY <1>1 DEF OrderOK, InOrderTo
<1>3. CASE out' = AddPending(out, cur) /\ ind' = ind
  <2>1. \A e \in Nat : Ordered({}, ind.mixed, heard.got, out, e) /\ Follows({}, ind.mixed, e, cur)
          => Ordered({}, ind.mixed, heard.got, out', cur.pos)
    BY <1>1, <1>2, <1>3, OrderFacts, PutRead
  <2>2. out'.prev = "EOF"
    BY <1>1, <1>3 DEF AddPending
  <2>3. QED
    BY <1>1, <1>3, <2>1, <2>2, QueuedOrder
<1>4. CASE /\ out' = AddPending(AddAll(Trailing(out), LevelTokens(ind.stack, 0)), cur)
           /\ ind' = Levelled(ind, 0)
  <2>1. TRAILING_NEWLINE \in Token /\ TRAILING_NEWLINE.pos = 0
    BY MadeTokens DEF TRAILING_NEWLINE, MadeToken
  <2>2. PICK q \in Queue : q = Trailing(out) /\ q \in {out, AddPending(out, TRAILING_NEWLINE)}
    BY <1>1, <2>1, OrderFacts, AddPendingType DEF Trailing
  <2>3. ind.stack \in Seq(Nat) /\ SoundStack(ind.stack) /\ ind'.mixed = ind.mixed
    BY <1>1, <1>4, OrderFacts DEF Levelled, Indentation
  <2>4. PICK r \in Queue : r = AddAll(q, LevelTokens(ind.stack, 0))
    <3>1. LevelTokens(ind.stack, 0) \in Seq(Token)
      BY <2>3, LevelTokensType, 0 \in Nat
    <3>2. QED
      BY <3>1, AddAllType
  <2>5. out' = AddPending(r, cur) /\ out'.prev = "EOF"
    BY <1>1, <1>4, <2>2, <2>4 DEF AddPending
  <2>6. \A e \in Nat : Ordered({}, ind.mixed, heard.got, out, e) /\ Follows({}, ind.mixed, e, cur)
          => Ordered({}, ind.mixed, heard.got, out', cur.pos)
    <3> SUFFICES ASSUME NEW e \in Nat, Ordered({}, ind.mixed, heard.got, out, e),
                        Follows({}, ind.mixed, e, cur)
                 PROVE  Ordered({}, ind.mixed, heard.got, out', cur.pos)
      OBVIOUS
    <3>1. Ordered({}, ind.mixed, heard.got, q, e)
      BY <1>1, <2>1, <2>2, OrderFacts, PutMade
    <3>2. Ordered({}, ind.mixed, heard.got, r, e)
      BY <2>3, <2>4, <3>1, 0 \in Nat, PutLevels
    <3>3. QED
      BY <1>1, <1>2, <2>5, <3>2, OrderFacts, PutRead
  <2>7. QED
    BY <1>1, <2>3, <2>5, <2>6, QueuedOrder
<1>5. QED
  BY <1>3, <1>4 DEF EndOfFile

LEMMA PopOrder == IInv /\ OrderOK /\ Pop => OrderOK'
<1> SUFFICES ASSUME IInv, OrderOK, Pop PROVE OrderOK'
  OBVIOUS
<1>1. /\ pc \in {"pop", "idle"} /\ pc' = "idle" /\ out' = [out EXCEPT !.pending = Tail(@)]
      /\ heard' = HeardAfter(heard, Head(out.pending))
      /\ UNCHANGED <<read, cur, ffg, opened, ind, reported>>
  BY DEF Pop
<1>2. PICK e \in Nat : InOrderTo(e)
  BY DEF OrderOK
<1>3. out \in Queue /\ out.pending # <<>> /\ heard \in Heard
  BY <1>1, OrderFacts DEF Pop, IInv, QueueInv
<1>4. Ordered({}, ind.mixed, heard.got, out, e)
  BY <1>2 DEF InOrderTo
<1>5. Ordered({}, ind'.mixed, heard'.got, out', e)
  BY <1>1, <1>3, <1>4, TakeHead
<1>6. (out'.prev = "EOF" /\ ffg'.type = "EOF") \/ Follows({}, ind'.mixed, e, ffg')
  <2>1. out'.prev = out.prev
    BY <1>1, <1>3 DEF Queue
  <2>2. QED
    BY <1>1, <1>2, <2>1 DEF InOrderTo
<1>7. QED
  BY <1>1, <1>5, <1>6, OrderFacts, OrderStep

LEMMA ResetOrder == Reset => OrderOK'
<1> SUFFICES ASSUME Reset PROVE OrderOK'
  OBVIOUS
<1>1. Init'
  BY DEF Reset, Init
<1>2. QED
  BY <1>1, InitOrder, PTL

LEMMA NextOrder == IInv /\ OrderOK /\ [Next]_vars => OrderOK'
<1>1. OrderOK /\ UNCHANGED vars => OrderOK'
  BY DEF vars, OrderOK, InOrderTo
<1>2. IInv /\ OrderOK /\ Dispatch => OrderOK'
  BY AddCurrentOrder, NewlineInBracketsOrder, NewlineNoWsOrder, NewlineThenWsOrder,
     EndOfFileOrder DEF Dispatch
<1>3. QED
  BY <1>1, <1>2, BeginOrder, SkipLeadingOrder, EndLeadingOrder, FetchOrder, PopOrder, ResetOrder
  DEF Next, NextToken

LEMMA OrderedTokens == IInv /\ OrderOK => RawTokensInOrder
<1> SUFFICES ASSUME IInv, OrderOK PROVE RawTokensInOrder
  OBVIOUS
<1>1. PICK e \in Nat : InOrderTo(e)
  BY DEF OrderOK
<1>2. Ordered({}, ind.mixed, heard.got, out, e)
  BY <1>1 DEF InOrderTo
<1>3. cur \in Token /\ ffg \in Token /\ out \in Queue
  BY Facts DEF QueueOK
<1>4. InHand = <<>> \/ \E t \in Token : InHand = <<t>> /\ Follows({}, ind.mixed, e, t)
  BY <1>1, <1>3 DEF InHand, InOrderTo
<1>5. Ahead = <<>> \/ \E t \in Token : /\ Ahead = <<t>>
          /\ Follows({}, ind.mixed, IF InHand = <<>> THEN e ELSE InHand[1].pos, t)
  <2>1. CASE pc = "fresh" \/ ffg.type = "EOF"
    BY <2>1 DEF Ahead
  <2>2. CASE pc \in {"leading", "dispatch"} /\ ffg.type # "EOF"
    <3>1. Ahead = <<ffg>> /\ InHand = <<cur>> /\ InHand # <<>> /\ InHand[1] = cur
      BY <2>2 DEF Ahead, InHand
    <3>2. Follows({}, ind.mixed, cur.pos, ffg)
      BY <1>1, <2>2 DEF InOrderTo, Follows
    <3>3. QED
      BY <1>3, <3>1, <3>2
  <2>3. CASE pc \in {"pop", "idle"} /\ ffg.type # "EOF"
    <3>1. Ahead = <<ffg>> /\ InHand = <<>>
      BY <2>3 DEF Ahead, InHand
    <3>2. Follows({}, ind.mixed, e, ffg)
      BY <1>1, <2>3 DEF InOrderTo
    <3>3. QED
      BY <1>3, <3>1, <3>2
  <2>4. QED
    BY <2>1, <2>2, <2>3 DEF IInv, TypeOK
<1>6. InOrder({}, ind.mixed, heard.got, Waiting(out) \o InHand \o Ahead)
  BY <1>2, <1>3, <1>4, <1>5, OrderOfTwo
<1>7. PICK s \in Seq(Token) : s = OnTheWay /\ InOrder({}, ind.mixed, heard.got, s)
  <2>1. PICK w \in Seq(Token), h \in Seq(Token), a \in Seq(Token) :
          w = Waiting(out) /\ h = InHand /\ a = Ahead
    <3>1. InHand \in Seq(Token) /\ Ahead \in Seq(Token)
      BY <1>3, Singleton, EmptySeq DEF InHand, Ahead
    <3>2. QED
      BY <1>3, <3>1, WaitingType
  <2>2. w \o h \o a \in Seq(Token)
    BY ConcatProperties
  <2>3. QED
    BY <1>6, <2>1, <2>2 DEF OnTheWay, Waiting
<1>8. \A i \in DOMAIN s : i \in 1..Len(s)
  BY LenProperties
<1>9. QED
  BY <1>7, <1>8 DEF RawTokensInOrder, InOrder, Follows

(* nextToken() and its handlers: every raw token is returned once, in the   *)
(* order it was read, whatever is hidden, inserted or looked ahead at; one  *)
(* WS token is lost, the first to mix tabs and spaces.                      *)
THEOREM Order == Spec => []RawTokensInOrder
<1>1. Spec => []OrderOK
  BY InitOrder, NextOrder, Invariance, PTL DEF Spec
<1>2. QED
  BY <1>1, OrderedTokens, Invariance, PTL
---------------------------------------------------------------------------
(* The stream of tokens.  The tokens in the queue lead the caller to a      *)
(* state e of the stream that agrees with the lexer's own counts.           *)
Kinds == [open  |-> {t \in Token : t.type \in {"LPAR", "LBRACE"}},
          close |-> {t \in Token : t.type \in {"RPAR", "RBRACE"}},
          begin |-> {}, end |-> {}]

(* A token of the generated lexer, still as it was read.                    *)
RawOK(t) ==
    /\ ReadOK(t) /\ t.type \notin {"none", "INDENT", "DEDENT", "ENCODING"}
    /\ t.ch = IF t.type \in HiddenTypes THEN "hidden" ELSE "default"

(* The raw token that will be queued next.                                  *)
NextUp == IF pc \in {"leading", "dispatch"} THEN cur ELSE ffg

(* What the lexer knows of the line it has queued.                          *)
Placed(line) ==
    /\ line = "first" => Levels = 0
    /\ pc \in {"leading", "dispatch"} => out.prev # "EOF"
    /\ pc = "leading" => line = "first"
    /\ pc = "dispatch" /\ line = "first" => cur.ch = "default" /\ cur.type # "NEWLINE"
    /\ pc \in {"pop", "idle"} /\ line = "first" => out.prev = "EOF"
    /\ pc # "fresh" /\ out.prev # "EOF" /\ line \in {"ended", "indented"} =>
          NextUp.type \notin {"WS", "COMMENT", "NEWLINE"}
    /\ pc # "fresh" /\ line = "indented" => NextUp.type # "EOF"

Reached(e) ==
    /\ Tells(Kinds, heard, out, e)
    /\ e.depth = Levels /\ e.brackets = opened /\ e.strings = 0
    /\ e.phase = IF out.prev = "EOF" THEN "ended" ELSE "body"
    /\ Placed(e.line)

StreamInv ==
    /\ pc = "fresh" => /\ opened = 0 /\ heard = NothingHeard /\ out = EmptyQueue
                       /\ ind = NoIndentation
    /\ pc # "fresh" => RawOK(cur) /\ RawOK(ffg)
    /\ \E e : Reached(e)

(* Where the caller stands in the stream.                                   *)
Now == [depth    |-> Levels - PendingAs({INDENT}) + PendingAs({DEDENT, BAD_DEDENT}),
        brackets |-> opened - Pending({"LPAR", "LBRACE"}) + Pending({"RPAR", "RBRACE"}),
        strings  |-> 0, line |-> heard.line, phase |-> heard.phase]

LEMMA KindsFacts ==
    /\ GoodKinds(Kinds) /\ Kinds.begin = {} /\ Kinds.end = {}
    /\ \A t \in Token : /\ t \in Kinds.open <=> t.type \in {"LPAR", "LBRACE"}
                        /\ t \in Kinds.close <=> t.type \in {"RPAR", "RBRACE"}
                        /\ t \in Counted(Kinds) <=> t.type \in {"LPAR", "LBRACE", "RPAR", "RBRACE"}
<1>1. /\ Kinds.open = {t \in Token : t.type \in {"LPAR", "LBRACE"}}
      /\ Kinds.close = {t \in Token : t.type \in {"RPAR", "RBRACE"}}
      /\ Kinds.begin = {} /\ Kinds.end = {}
  BY DEF Kinds
<1>2. GoodKinds(Kinds)
  BY <1>1 DEF GoodKinds
<1>3. QED
  BY <1>1, <1>2 DEF Counted

LEMMA RawIsRaw ==
    ASSUME NEW t, NEW n \in Nat, NEW r \in Raw(t, n)
    PROVE  RawOK(r) /\ (t.type = "WS" => r.type # "WS")
<1>1. ReadOK(r)
  BY RawFacts
<1>2. \A type, text, pos : /\ RawToken(type, text, pos).type = type
                           /\ RawToken(type, text, pos).ch
                                = IF type \in HiddenTypes THEN "hidden" ELSE "default"
  BY DEF RawToken
<1>3. CASE r = RawToken("EOF", <<>>, n + 1)
  BY <1>1, <1>2, <1>3 DEF RawOK
<1>4. CASE r # RawToken("EOF", <<>>, n + 1)
  <2>1. /\ MayFollow(t, r)
        /\ \/ \E type \in RawTypes : r = RawToken(type, <<>>, n + 1)
           \/ \E text \in WsTexts : r = RawToken("WS", text, n + 1)
    BY <1>4 DEF Raw
  <2>2. PICK type, text : /\ r = RawToken(type, text, n + 1)
                          /\ type \notin {"none", "INDENT", "DEDENT", "ENCODING"}
    BY <2>1, RawTypesAssumption
  <2>3. QED
    BY <1>1, <1>2, <2>1, <2>2 DEF RawOK, MayFollow
<1>5. QED
  BY <1>3, <1>4

LEMMA AdvanceRaw ==
    ASSUME NEW t, RawOK(t), NEW n \in Nat, SetCurrentAndFollowing(t, n)
    PROVE  /\ cur' = t /\ RawOK(ffg') /\ (t.type = "WS" => ffg'.type # "WS")
<1>1. CASE t.type = "EOF"
  BY <1>1 DEF SetCurrentAndFollowing, Following
<1>2. CASE t.type # "EOF"
  BY <1>2, RawIsRaw DEF SetCurrentAndFollowing, Following
<1>3. QED
  BY <1>1, <1>2 DEF SetCurrentAndFollowing

Standing(q, h, l, o) ==
    [depth    |-> l - Cardinality({i \in DOMAIN q.pending : q.pending[i] \in {INDENT}})
                    + Cardinality({i \in DOMAIN q.pending : q.pending[i] \in {DEDENT, BAD_DEDENT}}),
     brackets |-> o - Cardinality({i \in DOMAIN q.pending : q.pending[i].type \in {"LPAR", "LBRACE"}})
                    + Cardinality({i \in DOMAIN q.pending : q.pending[i].type \in {"RPAR", "RBRACE"}}),
     strings  |-> 0, line |-> h.line, phase |-> h.phase]

(* The mapping of TokenStream, seen from the state the queue leads to.      *)
LEMMA NowIs ==
    ASSUME NEW q \in Queue, NEW h, NEW l, NEW o, NEW e,
           e.depth = l, e.brackets = o, e.strings = 0
    PROVE  Standing(q, h, l, o) = Before(Kinds, e, q.pending, h)
<1>1. PICK s \in Seq(Token) : s = q.pending
  BY DEF Queue
<1>2. \A i \in DOMAIN s : s[i] \in Token
  BY LenProperties, ElementOfSeq
<1>3. /\ {i \in DOMAIN s : s[i].type \in {"LPAR", "LBRACE"}} = {i \in DOMAIN s : s[i] \in Kinds.open}
      /\ {i \in DOMAIN s : s[i].type \in {"RPAR", "RBRACE"}} = {i \in DOMAIN s : s[i] \in Kinds.close}
  BY <1>2, KindsFacts
<1>4. \A S : Cardinality({i \in DOMAIN s : s[i] \in S}) = Number(s, S)
  BY DEF Number
<1>5. Number(s, Kinds.begin) = 0 /\ Number(s, Kinds.end) = 0
  BY KindsFacts, NumberType
<1>6. e.strings - Number(s, Kinds.begin) + Number(s, Kinds.end) = 0
  BY <1>5
<1>7. QED
  BY <1>1, <1>3, <1>4, <1>6 DEF Before, Standing

LEMMA StreamFacts ==
    ASSUME IInv, OrderOK, StreamInv, pc # "fresh"
    PROVE  /\ out \in Queue /\ heard \in Heard /\ ind.stack \in Seq(Nat) /\ SoundStack(ind.stack)
           /\ ind \in Indentation /\ opened \in Int /\ Levels = Len(ind.stack) - 1
           /\ Len(ind.stack) \in Nat
           /\ RawOK(cur) /\ RawOK(ffg) /\ cur \in Token /\ ffg \in Token /\ read \in Nat
           /\ ffg.pos # 0 /\ (pc \in {"leading", "dispatch"} => cur.pos # 0)
<1>1. /\ out \in Queue /\ heard \in Heard /\ ind.stack \in Seq(Nat) /\ SoundStack(ind.stack)
      /\ ind \in Indentation /\ cur \in Token /\ ffg \in Token
      /\ ffg.pos # 0
  BY OrderFacts
<1>2. opened \in Int /\ read \in Nat
  BY Facts
<1>3. Levels = Len(ind.stack) - 1 /\ Len(ind.stack) \in Nat
  BY <1>1, LenProperties DEF Levels, SoundStack
<1>4. pc \in {"leading", "dispatch"} => cur.pos # 0
  BY DEF OrderOK, InOrderTo
<1>5. QED
  BY <1>1, <1>2, <1>3, <1>4 DEF StreamInv

(* A step that tells the caller nothing.                                    *)
LEMMA Unheard ==
    ASSUME NEW e, Reached(e), NEW f, out \in Queue, heard' = heard,
           Continues(Kinds, heard, out, e, out', f),
           f.depth = Levels', f.brackets = opened', f.strings = 0,
           f.phase = IF out'.prev = "EOF" THEN "ended" ELSE "body",
           Placed(f.line)', pc' # "fresh", RawOK(cur'), RawOK(ffg')
    PROVE  StreamInv' /\ Now' = Now
<1>1. Reached(f)'
  BY DEF Reached, Continues
<1>2. StreamInv'
  BY <1>1 DEF StreamInv
<1>3. e.depth = Levels /\ e.brackets = opened /\ e.strings = 0
  BY DEF Reached
<1>4. Now = Before(Kinds, e, out.pending, heard)
  <2>1. Now = Standing(out, heard, Levels, opened)
    BY DEF Now, Standing, Pending, PendingAs
  <2>2. QED
    BY <1>3, <2>1, NowIs
<1>5. out' \in Queue
  BY DEF Continues
<1>6. Now' = Before(Kinds, f, out'.pending, heard')
  <2>1. Now' = Standing(out', heard', Levels', opened')
    BY DEF Now, Standing, Pending, PendingAs
  <2>2. QED
    BY <1>5, <2>1, NowIs
<1>7. QED
  BY <1>2, <1>4, <1>6 DEF Continues

LEMMA Fresh ==
    ASSUME out = EmptyQueue, heard = NothingHeard, opened = 0, Levels = 0
    PROVE  \E e : /\ Tells(Kinds, heard, out, e) /\ Now = Before(Kinds, e, out.pending, heard)
                  /\ e.depth = 0 /\ e.brackets = 0 /\ e.strings = 0
                  /\ e.phase = "body" /\ e.line = "first"
<1>1. PICK e : e = [depth |-> 0, brackets |-> 0, strings |-> 0, line |-> "first", phase |-> "body"]
  OBVIOUS
<1>2. out.pending = <<>> /\ out.last = "none" /\ out.prev = "none" /\ out \in Queue
  BY EmptySeq DEF EmptyQueue, Queue, Types
<1>3. heard.line = "first" /\ heard.phase = "body"
  BY DEF NothingHeard
<1>4. Before(Kinds, e, <<>>, heard) = e
  <2>1. \A S : Number(<<>>, S) = 0
    BY NumberEmpty
  <2>2. QED
    BY <1>1, <1>3, <2>1 DEF Before
<1>5. e \in Reader
  BY <1>1 DEF Reader
<1>6. Leads(Steps(Kinds), e, <<>>, e)
  BY LeadsEmpty
<1>7. Told(Kinds, heard, out.pending, e)
  BY <1>2, <1>4, <1>5, <1>6 DEF Told
<1>8. Tells(Kinds, heard, out, e)
  BY <1>1, <1>2, <1>7 DEF Tells
<1>9. Now = Before(Kinds, e, out.pending, heard)
  <2>1. Now = Standing(out, heard, Levels, opened)
    BY DEF Now, Standing, Pending, PendingAs
  <2>2. e.depth = Levels /\ e.brackets = opened /\ e.strings = 0
    BY <1>1
  <2>3. QED
    BY <1>2, <2>1, <2>2, NowIs
<1>10. QED
  BY <1>1, <1>8, <1>9

LEMMA BeginStream == IInv /\ OrderOK /\ StreamInv /\ Begin => StreamInv' /\ Now' = Now
<1> SUFFICES ASSUME IInv, OrderOK, StreamInv, Begin PROVE StreamInv' /\ Now' = Now
  OBVIOUS
<1>1. /\ pc = "fresh" /\ pc' = "leading" /\ ind' = [ind EXCEPT !.stack = <<0>>]
      /\ UNCHANGED <<opened, out, heard, reported>>
  BY DEF Begin
<1>2. PICK t \in Raw(NoToken, 0) : SetCurrentAndFollowing(t, 1)
  BY DEF Begin
<1>3. RawOK(cur') /\ RawOK(ffg')
  <2>1. RawOK(t)
    BY RawIsRaw, 0 \in Nat
  <2>2. cur' = t /\ RawOK(ffg')
    BY <1>2, <2>1, AdvanceRaw, 1 \in Nat
  <2>3. QED
    BY <2>1, <2>2
<1>4. opened = 0 /\ heard = NothingHeard /\ out = EmptyQueue /\ ind = NoIndentation
  BY <1>1 DEF StreamInv
<1>5. Levels = 0 /\ Levels' = 0
  <2>1. ind.stack = <<>> /\ ind'.stack = <<0>> /\ Len(<<0>>) = 1
    BY <1>1, <1>4 DEF NoIndentation
  <2>2. QED
    BY <2>1 DEF Levels
<1>6. PICK e : /\ Tells(Kinds, heard, out, e) /\ Now = Before(Kinds, e, out.pending, heard)
               /\ e.depth = 0 /\ e.brackets = 0 /\ e.strings = 0
               /\ e.phase = "body" /\ e.line = "first"
  BY <1>4, <1>5, Fresh
<1>7. out.prev = "none"
  BY <1>4 DEF EmptyQueue
<1>8. Reached(e)'
  BY <1>1, <1>4, <1>5, <1>6, <1>7 DEF Reached, Placed
<1>9. Now' = Now
  BY <1>1, <1>5 DEF Now, Pending, PendingAs
<1>10. QED
  BY <1>1, <1>3, <1>8, <1>9 DEF StreamInv

LEMMA SkipLeadingStream ==
    IInv /\ OrderOK /\ StreamInv /\ SkipLeading => StreamInv' /\ Now' = Now
<1> SUFFICES ASSUME IInv, OrderOK, StreamInv, SkipLeading PROVE StreamInv' /\ Now' = Now
  OBVIOUS
<1>1. /\ pc = "leading" /\ pc' = pc /\ cur.type # "EOF" /\ out' = HideAndAdd(out, cur)
      /\ cur.ch = "hidden" \/ cur.type = "NEWLINE"
      /\ SetCurrentAndFollowing(ffg, read)
      /\ UNCHANGED <<opened, ind, heard, reported>>
  BY DEF SkipLeading, BeforeStatement
<1>2. PICK e : Reached(e)
  BY DEF StreamInv
<1>3. /\ Tells(Kinds, heard, out, e) /\ e.line = "first" /\ e.phase = "body"
      /\ e.depth = Levels /\ e.brackets = opened /\ e.strings = 0 /\ Levels = 0
  BY <1>1, <1>2 DEF Reached, Placed
<1>4. PICK f : /\ Continues(Kinds, heard, out, e, out', f) /\ out'.prev = cur.type
               /\ f.depth = e.depth /\ f.brackets = e.brackets /\ f.strings = e.strings
               /\ f.phase = "body" /\ f.line = "first"
  <2>1. /\ cur \in Token /\ cur.pos # 0 /\ cur.type \in HiddenTypes \union {"NEWLINE"}
        /\ out \in Queue /\ heard \in Heard
    BY <1>1, StreamFacts DEF RawOK
  <2>2. QED
    BY <1>1, <1>3, <2>1, KindsFacts, TellHidden
<1>5. cur' = ffg /\ RawOK(ffg') /\ RawOK(cur')
  BY <1>1, StreamFacts, AdvanceRaw
<1>6. Levels' = Levels
  BY <1>1 DEF Levels
<1>7. Placed(f.line)'
  BY <1>1, <1>3, <1>4, <1>6 DEF Placed
<1>8. QED
  BY <1>1, <1>2, <1>3, <1>4, <1>5, <1>6, <1>7, StreamFacts, Unheard

LEMMA EndLeadingStream ==
    IInv /\ OrderOK /\ StreamInv /\ EndLeading => StreamInv' /\ Now' = Now
<1> SUFFICES ASSUME IInv, OrderOK, StreamInv, EndLeading PROVE StreamInv' /\ Now' = Now
  OBVIOUS
<1>1. /\ pc = "leading" /\ pc' = "dispatch" /\ ~BeforeStatement
      /\ UNCHANGED <<read, cur, ffg, opened, heard>>
      /\ ind' = ind \/ \E text : ind' = Measured(ind, text)
      /\ out' = out \/ (out' = AddPending(out, LEADING_INDENT) /\ cur.type # "EOF")
  BY DEF EndLeading
<1>2. PICK e : Reached(e)
  BY DEF StreamInv
<1>3. /\ Tells(Kinds, heard, out, e) /\ e.line = "first" /\ e.phase = "body"
      /\ e.depth = Levels /\ e.brackets = opened /\ e.strings = 0 /\ Levels = 0
      /\ out.prev # "EOF" /\ e \in Reader
  BY <1>1, <1>2 DEF Reached, Placed, Tells, Told
<1>4. RawOK(cur) /\ RawOK(ffg) /\ out \in Queue /\ heard \in Heard
  BY <1>1, StreamFacts
<1>5. cur.ch = "default" /\ cur.type # "NEWLINE" /\ cur.type \notin HiddenTypes
  <2>1. cur.type = "EOF" \/ (cur.ch # "hidden" /\ cur.type # "NEWLINE")
    BY <1>1 DEF BeforeStatement
  <2>2. QED
    BY <1>4, <2>1 DEF RawOK, HiddenTypes
<1>6. Levels' = Levels
  <2>1. \A text : Measured(ind, text).stack = ind.stack
    BY DEF Measured
  <2>2. ind'.stack = ind.stack
    BY <1>1, <2>1
  <2>3. QED
    BY <2>2 DEF Levels
<1>7. CASE out' = out
  <2>1. Placed(e.line)'
    BY <1>1, <1>3, <1>5, <1>6, <1>7 DEF Placed
  <2>2. Continues(Kinds, heard, out, e, out', e)
    BY <1>3, <1>4, <1>7 DEF Continues
  <2>3. QED
    BY <1>1, <1>2, <1>3, <1>4, <1>6, <1>7, <2>1, <2>2, Unheard
<1>8. CASE out' = AddPending(out, LEADING_INDENT) /\ cur.type # "EOF"
  <2>1. PICK f : /\ Continues(Kinds, heard, out, e, out', f) /\ out'.prev = "INDENT"
                 /\ f.depth = e.depth /\ f.brackets = e.brackets /\ f.strings = 0
                 /\ f.phase = "body" /\ f.line = "indented"
    BY <1>3, <1>4, <1>8, KindsFacts, TellLeadingIndent
  <2>2. Placed(f.line)'
    BY <1>1, <1>3, <1>5, <1>6, <1>8, <2>1 DEF Placed, NextUp, HiddenTypes
  <2>3. QED
    BY <1>1, <1>2, <1>3, <1>4, <1>6, <2>1, <2>2, Unheard
<1>9. QED
  BY <1>1, <1>7, <1>8

LEMMA FetchStream == IInv /\ OrderOK /\ StreamInv /\ Fetch => StreamInv' /\ Now' = Now
<1> SUFFICES ASSUME IInv, OrderOK, StreamInv, Fetch PROVE StreamInv' /\ Now' = Now
  OBVIOUS
<1>1. /\ pc = "idle" /\ out.prev # "EOF" /\ pc' = "dispatch" /\ SetCurrentAndFollowing(ffg, read)
      /\ UNCHANGED <<opened, ind, out, heard, reported>>
  BY DEF Fetch
<1>2. PICK e : Reached(e)
  BY DEF StreamInv
<1>3. /\ Tells(Kinds, heard, out, e) /\ e.phase = "body"
      /\ e.depth = Levels /\ e.brackets = opened /\ e.strings = 0
      /\ e.line # "first"
      /\ e.line \in {"ended", "indented"} => ffg.type \notin {"WS", "COMMENT", "NEWLINE"}
      /\ e.line = "indented" => ffg.type # "EOF"
  BY <1>1, <1>2 DEF Reached, Placed, NextUp
<1>4. cur' = ffg /\ RawOK(ffg') /\ RawOK(cur')
  BY <1>1, StreamFacts, AdvanceRaw
<1>5. Levels' = Levels
  BY <1>1 DEF Levels
<1>6. Placed(e.line)'
  BY <1>1, <1>3, <1>4 DEF Placed, NextUp
<1>7. Continues(Kinds, heard, out, e, out', e)
  BY <1>1, <1>3, StreamFacts DEF Continues
<1>8. QED
  BY <1>1, <1>2, <1>3, <1>4, <1>5, <1>6, <1>7, StreamFacts, Unheard

(* What is known in check_next_token.                                       *)
LEMMA Dispatching ==
    ASSUME IInv, OrderOK, StreamInv, pc = "dispatch"
    PROVE  \E e : /\ Reached(e) /\ Tells(Kinds, heard, out, e) /\ e.phase = "body" /\ e \in Reader
                  /\ e.depth = Levels /\ e.brackets = opened /\ e.strings = 0
                  /\ out.prev # "EOF"
                  /\ e.line = "first" => cur.ch = "default" /\ cur.type # "NEWLINE" /\ Levels = 0
                  /\ e.line \in {"ended", "indented"} => cur.type \notin {"WS", "COMMENT", "NEWLINE"}
                  /\ e.line = "indented" => cur.type # "EOF"
                  /\ e.line \in {"first", "open", "ended", "indented", "joined"}
<1>1. PICK e : Reached(e)
  BY DEF StreamInv
<1>2. e \in Reader
  BY <1>1 DEF Reached, Tells, Told
<1>3. e.line \in {"first", "open", "ended", "indented", "joined"}
  BY <1>2 DEF Reader
<1>4. QED
  BY <1>1, <1>2, <1>3 DEF Reached, Placed, NextUp

LEMMA AddCurrentStream ==
    IInv /\ OrderOK /\ StreamInv /\ (OpenBracket \/ CloseBracket \/ ErrorToken \/ OtherToken)
       => StreamInv' /\ Now' = Now
<1> SUFFICES ASSUME IInv, OrderOK, StreamInv, OpenBracket \/ CloseBracket \/ ErrorToken \/ OtherToken
             PROVE  StreamInv' /\ Now' = Now
  OBVIOUS
<1>1. /\ pc = "dispatch" /\ pc' = "pop" /\ out' = AddPending(out, cur)
      /\ cur.type \notin {"EOF", "NEWLINE"}
      /\ UNCHANGED <<read, cur, ffg, ind, heard>>
  BY DEF OpenBracket, CloseBracket, ErrorToken, OtherToken, At, AddCurrent
<1>2. opened' = IF cur.type \in {"LPAR", "LBRACE"} THEN opened + 1
                ELSE IF cur.type \in {"RPAR", "RBRACE"} THEN opened - 1 ELSE opened
  BY DEF OpenBracket, CloseBracket, ErrorToken, OtherToken, At
<1>3. /\ RawOK(cur) /\ RawOK(ffg) /\ out \in Queue /\ heard \in Heard /\ cur \in Token /\ cur.pos # 0
  BY <1>1, StreamFacts
<1>4. PICK e : /\ Reached(e) /\ Tells(Kinds, heard, out, e) /\ e.phase = "body" /\ e \in Reader
               /\ e.depth = Levels /\ e.brackets = opened /\ e.strings = 0
               /\ out.prev # "EOF"
               /\ e.line = "first" => cur.ch = "default" /\ cur.type # "NEWLINE" /\ Levels = 0
               /\ e.line \in {"ended", "indented"} => cur.type \notin {"WS", "COMMENT", "NEWLINE"}
               /\ e.line = "indented" => cur.type # "EOF"
               /\ e.line \in {"first", "open", "ended", "indented", "joined"}
  BY <1>1, Dispatching
<1>5. Readable(Kinds, e, cur)
  <2>1. cur \in Counted(Kinds) => cur.ch = "default"
    BY <1>3, KindsFacts DEF RawOK, HiddenTypes
  <2>2. cur \notin Kinds.end
    BY KindsFacts
  <2>3. QED
    BY <1>1, <1>3, <1>4, <2>1, <2>2 DEF Readable, RawOK, HiddenTypes
<1>6. PICK f : Continues(Kinds, heard, out, e, out', f) /\ ReadsOn(Kinds, e, cur, f)
  BY <1>1, <1>3, <1>4, <1>5, KindsFacts, TellRead
<1>7. /\ f.depth = Levels /\ f.brackets = opened' /\ f.strings = 0 /\ f.phase = "body"
  BY <1>1, <1>2, <1>3, <1>4, <1>6, KindsFacts DEF ReadsOn
<1>8. f.line \in {"open", "joined"}
  <2>1. f.line = IF cur.type = "EXPLICIT_LINE_JOINING"
                 THEN IF e.line = "ended" THEN "joined"
                      ELSE IF e.line = "indented" THEN "open" ELSE e.line
                 ELSE IF cur.ch = "hidden" THEN e.line ELSE "open"
    BY <1>1, <1>6 DEF ReadsOn
  <2>2. cur.type = "EXPLICIT_LINE_JOINING" => cur.ch = "hidden"
    BY <1>3 DEF RawOK, HiddenTypes
  <2>3. cur.ch = "hidden" => cur.type \in {"WS", "COMMENT", "EXPLICIT_LINE_JOINING"}
    BY <1>3 DEF RawOK, HiddenTypes
  <2>4. QED
    BY <1>4, <2>1, <2>2, <2>3
<1>9. out'.prev = cur.type
  BY <1>1 DEF AddPending
<1>10. Levels' = Levels
  BY <1>1 DEF Levels
<1>11. Placed(f.line)'
  BY <1>1, <1>8, <1>9 DEF Placed
<1>12. QED
  BY <1>1, <1>3, <1>4, <1>6, <1>7, <1>9, <1>10, <1>11, Unheard

(* A NEWLINE that is hidden in the middle of a line.                        *)
LEMMA HiddenNewline ==
    ASSUME IInv, OrderOK, StreamInv, pc = "dispatch", pc' = "pop", cur.type = "NEWLINE",
           out' = HideAndAdd(out, cur), UNCHANGED <<read, cur, ffg, opened, ind, heard>>
    PROVE  StreamInv' /\ Now' = Now
<1>1. RawOK(cur) /\ RawOK(ffg) /\ out \in Queue /\ heard \in Heard /\ cur \in Token /\ cur.pos # 0
  BY StreamFacts
<1>2. PICK e : /\ Reached(e) /\ Tells(Kinds, heard, out, e) /\ e.phase = "body" /\ e \in Reader
               /\ e.depth = Levels /\ e.brackets = opened /\ e.strings = 0
               /\ out.prev # "EOF"
               /\ e.line = "first" => cur.ch = "default" /\ cur.type # "NEWLINE" /\ Levels = 0
               /\ e.line \in {"ended", "indented"} => cur.type \notin {"WS", "COMMENT", "NEWLINE"}
               /\ e.line = "indented" => cur.type # "EOF"
               /\ e.line \in {"first", "open", "ended", "indented", "joined"}
  BY Dispatching
<1>3. e.line \in {"open", "joined"}
  BY <1>2
<1>4. PICK f : /\ Continues(Kinds, heard, out, e, out', f) /\ out'.prev = cur.type
               /\ f.depth = e.depth /\ f.brackets = e.brackets /\ f.strings = e.strings
               /\ f.phase = "body" /\ f.line = e.line
  BY <1>1, <1>2, KindsFacts, TellHidden
<1>5. Levels' = Levels
  BY DEF Levels
<1>6. Placed(f.line)'
  BY <1>3, <1>4 DEF Placed
<1>7. QED
  BY <1>1, <1>2, <1>4, <1>5, <1>6, Unheard

LEMMA NewlineInBracketsStream ==
    IInv /\ OrderOK /\ StreamInv /\ NewlineInBrackets => StreamInv' /\ Now' = Now
<1> SUFFICES ASSUME IInv, OrderOK, StreamInv, NewlineInBrackets PROVE StreamInv' /\ Now' = Now
  OBVIOUS
<1>1. /\ pc = "dispatch" /\ pc' = "pop" /\ out' = HideAndAdd(out, cur) /\ cur.type = "NEWLINE"
      /\ UNCHANGED <<read, cur, ffg, opened, ind, heard, reported>>
  BY DEF NewlineInBrackets, At
<1>2. QED
  BY <1>1, HiddenNewline

LEMMA InsertStream ==
    ASSUME NEW e, Reached(e), NEW q \in Queue, NEW f, out \in Queue, heard \in Heard,
           Continues(Kinds, heard, out, e, q, f), q.prev # "EOF",
           f.depth = Levels, f.brackets = opened, opened <= 0, f.strings = 0,
           f.phase = "body", f.line = "ended",
           NEW i \in Indentation, i.stack = ind.stack, NEW len \in Nat, InsertLevels(q, i, len),
           ind.stack \in Seq(Nat), SoundStack(ind.stack), Levels = Len(ind.stack) - 1,
           pc' = "pop", heard' = heard, opened' = opened, RawOK(cur'), RawOK(ffg'),
           ffg'.type \notin {"WS", "COMMENT", "NEWLINE"}, ffg'.type = "EOF" => len = 0
    PROVE  StreamInv' /\ Now' = Now
<1>1. PICK s \in Seq(Nat) : s = ind.stack /\ SoundStack(s)
  OBVIOUS
<1>2. out' = AddAll(q, LevelTokens(s, len)) /\ ind'.stack = StackAfter(s, len)
  BY <1>1 DEF InsertLevels, Levelled, Indentation
<1>3. Tells(Kinds, heard, q, f)
  BY DEF Continues
<1>4. PICK g : /\ Continues(Kinds, heard, q, f, AddAll(q, LevelTokens(s, len)), g)
               /\ g \in Reader /\ g.depth = Len(StackAfter(s, len)) - 1
               /\ g.brackets = f.brackets /\ g.strings = f.strings /\ g.phase = f.phase
               /\ g.line \in {"ended", "joined", "indented", "open"}
               /\ len = 0 => g.depth = 0 /\ g.line \in {"ended", "joined"}
  <2>1. f.depth = Len(s) - 1 /\ f.strings = 0 /\ f.line = "ended" /\ f.phase = "body" /\ f.brackets <= 0
    BY <1>1
  <2>2. /\ f.line = "ended" \/ (f.line = "joined" /\ len = 0)
        /\ f.phase = "body" \/ (f.phase = "closing" /\ len = 0)
        /\ f.brackets <= 0 \/ len = 0
    BY <2>1
  <2>3. QED
    <3>1. RoomForLevels(Kinds, f, s, len)
      BY <1>1, <2>1, <2>2, KindsFacts DEF RoomForLevels
    <3>2. PICK g : /\ Continues(Kinds, heard, q, f, AddAll(q, LevelTokens(s, len)), g)
                   /\ LevelsOn(f, s, len, g)
      BY <1>3, <3>1, TellLevels, Zenon
    <3>3. QED
      BY <3>2 DEF LevelsOn
<1>5. Continues(Kinds, heard, out, e, out', g)
  BY <1>2, <1>4, ContinuesOn
<1>6. Levels' = Len(StackAfter(s, len)) - 1
  <2>1. ind'.stack # <<>>
    BY <1>1, <1>2, StackAfterSound DEF SoundStack
  <2>2. QED
    BY <1>2, <2>1 DEF Levels
<1>7. out'.prev # "EOF"
  <2>1. PICK ts \in Seq(Token) : ts = LevelTokens(s, len)
    BY <1>1, LevelTokensType
  <2>2. CASE ts = <<>>
    BY <1>2, <2>1, <2>2 DEF AddAll
  <2>3. CASE ts # <<>>
    <3>1. Len(ts) \in 1..Len(ts)
      BY <2>3, EmptySeq, LenProperties
    <3>2. Last(ts) \in {INDENT, DEDENT, BAD_DEDENT}
      BY <1>1, <2>1, <3>1, LevelTokensType DEF Last
    <3>3. Last(ts).type # "EOF"
      BY <3>2, MadeFields
    <3>4. out'.prev = Last(ts).type
      BY <1>2, <2>1, <2>3 DEF AddAll
    <3>5. QED
      BY <3>3, <3>4
  <2>4. QED
    BY <2>2, <2>3
<1>8. Placed(g.line)'
  BY <1>4 DEF Placed, NextUp
<1>9. g.depth = Levels' /\ g.brackets = opened' /\ g.strings = 0
      /\ g.phase = IF out'.prev = "EOF" THEN "ended" ELSE "body"
  BY <1>4, <1>6, <1>7
<1>10. QED
  BY <1>5, <1>8, <1>9, Unheard

LEMMA NewlineNoWsStream ==
    IInv /\ OrderOK /\ StreamInv /\ NewlineNoWs => StreamInv' /\ Now' = Now
<1> SUFFICES ASSUME IInv, OrderOK, StreamInv, NewlineNoWs PROVE StreamInv' /\ Now' = Now
  OBVIOUS
<1>1. /\ pc = "dispatch" /\ pc' = "pop" /\ cur.type = "NEWLINE" /\ opened <= 0 /\ ffg.type # "WS"
      /\ UNCHANGED <<read, cur, ffg, opened, heard>>
  BY DEF NewlineNoWs, EndsLine, At
<1>2. CASE out' = HideAndAdd(out, cur) /\ ind' = ind
  BY <1>1, <1>2, HiddenNewline
<1>3. CASE ~BeforeBlank(ffg) /\ InsertLevels(AddPending(out, cur), ind, 0)
  <2>1. /\ RawOK(cur) /\ RawOK(ffg) /\ out \in Queue /\ heard \in Heard /\ cur \in Token /\ cur.pos # 0
        /\ ind \in Indentation /\ ind.stack \in Seq(Nat) /\ SoundStack(ind.stack)
        /\ Levels = Len(ind.stack) - 1
    BY <1>1, StreamFacts
  <2>2. PICK e : /\ Reached(e) /\ Tells(Kinds, heard, out, e) /\ e.phase = "body" /\ e \in Reader
                 /\ e.depth = Levels /\ e.brackets = opened /\ e.strings = 0
                 /\ out.prev # "EOF"
                 /\ e.line = "first" => cur.ch = "default" /\ cur.type # "NEWLINE" /\ Levels = 0
                 /\ e.line \in {"ended", "indented"} => cur.type \notin {"WS", "COMMENT", "NEWLINE"}
                 /\ e.line = "indented" => cur.type # "EOF"
                 /\ e.line \in {"first", "open", "ended", "indented", "joined"}
    BY <1>1, Dispatching
  <2>3. e.line \in {"open", "joined"} /\ e.brackets <= 0
    BY <1>1, <2>2
  <2>4. PICK f : /\ Continues(Kinds, heard, out, e, AddPending(out, cur), f)
                 /\ f.depth = e.depth /\ f.brackets = e.brackets /\ f.strings = e.strings
                 /\ f.phase = "body" /\ f.line = "ended"
    <3>1. cur.ch = "default"
      BY <1>1, <2>1 DEF RawOK, HiddenTypes
    <3>2. QED
      BY <1>1, <2>1, <2>2, <2>3, <3>1, KindsFacts, TellNewline
  <2>5. PICK q \in Queue : q = AddPending(out, cur) /\ q.prev = "NEWLINE"
    BY <1>1, <2>1, AddPendingType DEF AddPending
  <2>6. ffg'.type \notin {"WS", "COMMENT", "NEWLINE"} /\ RawOK(cur') /\ RawOK(ffg')
    BY <1>1, <1>3, <2>1 DEF BeforeBlank
  <2>7. /\ InsertLevels(q, ind, 0) /\ Continues(Kinds, heard, out, e, q, f) /\ q.prev # "EOF"
        /\ f.depth = Levels /\ f.brackets = opened /\ f.strings = 0 /\ f.phase = "body" /\ f.line = "ended"
    BY <1>3, <2>2, <2>4, <2>5
  <2>8. QED
    BY <1>1, <2>1, <2>2, <2>6, <2>7, 0 \in Nat, InsertStream
<1>4. QED
  BY <1>2, <1>3 DEF NewlineNoWs

LEMMA NewlineThenWsStream ==
    IInv /\ OrderOK /\ StreamInv /\ NewlineThenWs => StreamInv' /\ Now' = Now
<1> SUFFICES ASSUME IInv, OrderOK, StreamInv, NewlineThenWs PROVE StreamInv' /\ Now' = Now
  OBVIOUS
<1>1. /\ pc = "dispatch" /\ pc' = "pop" /\ cur.type = "NEWLINE" /\ opened <= 0 /\ ffg.type = "WS"
      /\ SetCurrentAndFollowing(ffg, read) /\ UNCHANGED <<opened, heard>>
  BY DEF NewlineThenWs, EndsLine, At
<1>2. /\ RawOK(cur) /\ RawOK(ffg) /\ out \in Queue /\ heard \in Heard /\ cur \in Token /\ cur.pos # 0
      /\ ffg \in Token /\ ffg.pos # 0 /\ read \in Nat
      /\ ind \in Indentation /\ ind.stack \in Seq(Nat) /\ SoundStack(ind.stack)
      /\ Levels = Len(ind.stack) - 1
  BY <1>1, StreamFacts
<1>3. PICK e : /\ Reached(e) /\ Tells(Kinds, heard, out, e) /\ e.phase = "body" /\ e \in Reader
               /\ e.depth = Levels /\ e.brackets = opened /\ e.strings = 0
               /\ out.prev # "EOF"
               /\ e.line = "first" => cur.ch = "default" /\ cur.type # "NEWLINE" /\ Levels = 0
               /\ e.line \in {"ended", "indented"} => cur.type \notin {"WS", "COMMENT", "NEWLINE"}
               /\ e.line = "indented" => cur.type # "EOF"
               /\ e.line \in {"first", "open", "ended", "indented", "joined"}
  BY <1>1, Dispatching
<1>4. e.line \in {"open", "joined"} /\ e.brackets <= 0
  BY <1>1, <1>3
<1>5. cur' = ffg /\ RawOK(ffg') /\ RawOK(cur') /\ ffg'.type # "WS"
  BY <1>1, <1>2, AdvanceRaw
<1>6. PICK q1, f1 :
          /\ q1 \in Queue /\ q1 = AddPending(out, cur) /\ q1.prev = "NEWLINE"
          /\ Continues(Kinds, heard, out, e, q1, f1)
          /\ f1.depth = e.depth /\ f1.brackets = e.brackets /\ f1.strings = e.strings
          /\ f1.phase = "body" /\ f1.line = "ended"
  <2>1. PICK f1 : /\ Continues(Kinds, heard, out, e, AddPending(out, cur), f1)
                  /\ f1.depth = e.depth /\ f1.brackets = e.brackets /\ f1.strings = e.strings
                  /\ f1.phase = "body" /\ f1.line = "ended"
    <3>1. cur.ch = "default"
      BY <1>1, <1>2 DEF RawOK, HiddenTypes
    <3>2. QED
      BY <1>1, <1>2, <1>3, <1>4, <3>1, KindsFacts, TellNewline
  <2>2. PICK q1 \in Queue : q1 = AddPending(out, cur) /\ q1.prev = "NEWLINE"
    BY <1>1, <1>2, AddPendingType DEF AddPending
  <2>3. QED
    BY <2>1, <2>2
<1>7. ASSUME NEW q \in Queue, NEW f, Tells(Kinds, heard, q, f), f.phase = "body"
      PROVE  \E g : /\ Continues(Kinds, heard, q, f, AddPending(q, ffg), g)
                    /\ AddPending(q, ffg).prev = "WS"
                    /\ g.depth = f.depth /\ g.brackets = f.brackets /\ g.strings = f.strings
                    /\ g.phase = "body" /\ g.line = f.line
  <2>1. ffg.ch = "hidden" /\ ffg.type \in HiddenTypes
    BY <1>1, <1>2 DEF RawOK, HiddenTypes
  <2>2. HideAndAdd(q, ffg) = AddPending(q, ffg)
    <3>1. [ffg EXCEPT !.ch = "hidden"] = ffg
      BY <1>2, <2>1 DEF Token
    <3>2. QED
      BY <3>1 DEF HideAndAdd
  <2>3. QED
    BY <1>1, <1>2, <1>7, <2>1, <2>2, KindsFacts, TellHidden
<1>8. PICK q2, f2 :
          /\ q2 \in Queue /\ q2 = AddPending(q1, ffg) /\ q2.prev = "WS"
          /\ Continues(Kinds, heard, out, e, q2, f2)
          /\ f2.depth = e.depth /\ f2.brackets = e.brackets /\ f2.strings = e.strings
          /\ f2.phase = "body" /\ f2.line = "ended"
  <2>1. Tells(Kinds, heard, q1, f1)
    BY <1>6 DEF Continues
  <2>2. PICK f2 : /\ Continues(Kinds, heard, q1, f1, AddPending(q1, ffg), f2)
                  /\ AddPending(q1, ffg).prev = "WS"
                  /\ f2.depth = f1.depth /\ f2.brackets = f1.brackets /\ f2.strings = f1.strings
                  /\ f2.phase = "body" /\ f2.line = f1.line
    <3>1. q1 \in Queue /\ f1.phase = "body"
      BY <1>6
    <3>2. QED
      BY <1>7, <2>1, <3>1, Zenon
  <2>3. PICK q2 \in Queue : q2 = AddPending(q1, ffg)
    BY <1>2, <1>6, AddPendingType
  <2>4. Continues(Kinds, heard, out, e, q2, f2)
    <3>1. Continues(Kinds, heard, out, e, q1, f1)
      BY <1>6
    <3>2. Continues(Kinds, heard, q1, f1, q2, f2)
      BY <2>2, <2>3
    <3>3. QED
      BY <3>1, <3>2, ContinuesOn
  <2>5. QED
    BY <1>6, <2>2, <2>3, <2>4
<1>9. CASE out' = AddPending(HideAndAdd(out, cur), ffg) /\ ind' = ind
  <2>1. PICK f : /\ Continues(Kinds, heard, out, e, HideAndAdd(out, cur), f)
                 /\ f.depth = e.depth /\ f.brackets = e.brackets /\ f.strings = e.strings
                 /\ f.phase = "body" /\ f.line = e.line
    BY <1>1, <1>2, <1>3, KindsFacts, TellHidden
  <2>2. PICK q \in Queue : q = HideAndAdd(out, cur) /\ Tells(Kinds, heard, q, f)
    BY <2>1 DEF Continues
  <2>3. PICK g : /\ Continues(Kinds, heard, q, f, out', g) /\ out'.prev = "WS"
                 /\ g.depth = f.depth /\ g.brackets = f.brackets /\ g.strings = f.strings
                 /\ g.phase = "body" /\ g.line = f.line
    BY <1>7, <1>9, <2>1, <2>2
  <2>4. Continues(Kinds, heard, out, e, out', g)
    BY <2>1, <2>2, <2>3, ContinuesOn
  <2>5. Levels' = Levels
    BY <1>9 DEF Levels
  <2>6. Placed(g.line)'
    BY <1>1, <1>4, <2>1, <2>3 DEF Placed
  <2>7. QED
    BY <1>1, <1>2, <1>3, <1>5, <2>1, <2>3, <2>4, <2>5, <2>6, Unheard
<1>10. ASSUME NEW i \in Indentation, NEW len \in Nat, i.stack = ind.stack, InsertLevels(q2, i, len),
              ~BeforeBlank(ffg'), ffg'.type = "EOF" => len = 0
       PROVE  StreamInv' /\ Now' = Now
  <2>1. ffg'.type \notin {"WS", "COMMENT", "NEWLINE"}
    BY <1>5, <1>10 DEF BeforeBlank
  <2>2. /\ f2.depth = Levels /\ f2.brackets = opened /\ f2.strings = 0 /\ q2.prev # "EOF"
    BY <1>3, <1>8
  <2>3. QED
    BY <1>1, <1>2, <1>3, <1>5, <1>8, <1>10, <2>1, <2>2, InsertStream
<1>11. CASE ffg'.type = "EOF" /\ InsertLevels(AddPending(AddPending(out, cur), ffg), ind, 0)
  <2>1. InsertLevels(q2, ind, 0) /\ ~BeforeBlank(ffg')
    BY <1>6, <1>8, <1>11 DEF BeforeBlank
  <2>2. QED
    BY <1>2, <1>10, <2>1, 0 \in Nat
<1>12. CASE /\ ~BeforeBlank(ffg') /\ ffg'.type # "EOF" /\ ~FirstMix(ind, ffg.text)
            /\ InsertLevels(AddPending(AddPending(out, cur), ffg),
                            Measured(ind, ffg.text), IndentLength(ind, ffg.text))
  <2>1. InsertLevels(q2, Measured(ind, ffg.text), IndentLength(ind, ffg.text))
    BY <1>6, <1>8, <1>12
  <2>2. ffg.text \in WsTexts
    BY <1>1, <1>2 DEF RawOK, ReadOK
  <2>3. IndentLength(ind, ffg.text) \in Nat
    BY <1>12, <2>2, Widths DEF IndentLength
  <2>4. /\ Measured(ind, ffg.text) \in Indentation
        /\ Measured(ind, ffg.text).stack = ind.stack
    BY <1>2, MeasuredType
  <2>5. QED
    BY <1>10, <1>12, <2>1, <2>3, <2>4
<1>13. CASE /\ ind' = Measured(ind, ffg.text)
            /\ out' = AddPending(AddPending(out, cur), BAD_TABS)
  <2>1. Tells(Kinds, heard, q1, f1)
    BY <1>6 DEF Continues
  <2>2. PICK g : /\ Continues(Kinds, heard, q1, f1, AddPending(q1, BAD_TABS), g)
                 /\ AddPending(q1, BAD_TABS).prev = "ERRORTOKEN"
                 /\ g.depth = f1.depth /\ g.brackets = f1.brackets /\ g.strings = f1.strings
                 /\ g.phase = "body" /\ g.line = "open"
    BY <1>2, <1>6, <2>1, KindsFacts, TellBadTabs
  <2>3. out' = AddPending(q1, BAD_TABS) /\ out'.prev = "ERRORTOKEN"
    BY <1>6, <1>13, <2>2
  <2>4. Continues(Kinds, heard, out, e, out', g)
    BY <1>6, <2>2, <2>3, ContinuesOn
  <2>5. Levels' = Levels
    <3>1. ind'.stack = ind.stack
      BY <1>13 DEF Measured
    <3>2. QED
      BY <3>1 DEF Levels
  <2>6. Placed(g.line)'
    BY <1>1, <2>2, <2>3 DEF Placed
  <2>7. QED
    BY <1>1, <1>2, <1>3, <1>5, <1>6, <2>2, <2>3, <2>4, <2>5, <2>6, Unheard
<1>14. QED
  BY <1>9, <1>11, <1>12, <1>13 DEF NewlineThenWs

LEMMA EndOfFileStream ==
    IInv /\ OrderOK /\ StreamInv /\ EndOfFile => StreamInv' /\ Now' = Now
<1> SUFFICES ASSUME IInv, OrderOK, StreamInv, EndOfFile PROVE StreamInv' /\ Now' = Now
  OBVIOUS
<1>1. /\ pc = "dispatch" /\ pc' = "pop" /\ cur.type = "EOF"
      /\ UNCHANGED <<read, cur, ffg, opened, heard>>
  BY DEF EndOfFile, At
<1>2. /\ RawOK(cur) /\ RawOK(ffg) /\ out \in Queue /\ heard \in Heard /\ cur \in Token /\ cur.pos # 0
      /\ ind \in Indentation /\ ind.stack \in Seq(Nat) /\ SoundStack(ind.stack)
      /\ Levels = Len(ind.stack) - 1
  BY <1>1, StreamFacts
<1>3. PICK e : /\ Reached(e) /\ Tells(Kinds, heard, out, e) /\ e.phase = "body" /\ e \in Reader
               /\ e.depth = Levels /\ e.brackets = opened /\ e.strings = 0
               /\ out.prev # "EOF"
               /\ e.line = "first" => cur.ch = "default" /\ cur.type # "NEWLINE" /\ Levels = 0
               /\ e.line \in {"ended", "indented"} => cur.type \notin {"WS", "COMMENT", "NEWLINE"}
               /\ e.line = "indented" => cur.type # "EOF"
               /\ e.line \in {"first", "open", "ended", "indented", "joined"}
  BY <1>1, Dispatching
<1>4. CASE out.last = "none" /\ out' = AddPending(out, cur) /\ ind' = ind
  <2>1. e.line = "first" /\ e.depth = 0
    BY <1>3, <1>4 DEF Tells
  <2>2. PICK f : /\ Continues(Kinds, heard, out, e, AddPending(out, cur), f)
                 /\ AddPending(out, cur).prev = "EOF"
                 /\ f.depth = 0 /\ f.brackets = e.brackets /\ f.strings = e.strings
                 /\ f.phase = "ended" /\ f.line = e.line
    BY <1>1, <1>2, <1>3, <2>1, KindsFacts, TellEof
  <2>3. Levels' = Levels
    BY <1>4 DEF Levels
  <2>4. Placed(f.line)'
    BY <1>1, <1>3, <1>4, <2>1, <2>2, <2>3 DEF Placed
  <2>5. QED
    BY <1>1, <1>2, <1>3, <1>4, <2>1, <2>2, <2>3, <2>4, Unheard
<1>5. CASE /\ out.last # "none"
           /\ out' = AddPending(AddAll(Trailing(out), LevelTokens(ind.stack, 0)), cur)
           /\ ind' = Levelled(ind, 0)
  <2>1. e.line # "indented"
    BY <1>1, <1>3
  <2>2. PICK f1 : /\ Continues(Kinds, heard, out, e, Trailing(out), f1)
                  /\ f1.depth = e.depth /\ f1.brackets = e.brackets /\ f1.strings = e.strings
                  /\ f1.phase \in {"body", "closing"} /\ f1.line \in {"ended", "joined"}
    <3>1. Trailing(out) = IF out.last \in {"NEWLINE", "DEDENT"} THEN out
                          ELSE AddPending(out, TRAILING_NEWLINE)
      BY DEF Trailing
    <3>2. QED
      BY <1>2, <1>3, <1>5, <2>1, <3>1, KindsFacts, TellTrailing
  <2>3. PICK q1 \in Queue : q1 = Trailing(out) /\ Tells(Kinds, heard, q1, f1)
    BY <2>2 DEF Continues
  <2>4. PICK s \in Seq(Nat) : s = ind.stack /\ SoundStack(s)
    BY <1>2
  <2>5. RoomForLevels(Kinds, f1, s, 0)
    <3>1. f1.depth = Len(s) - 1 /\ 0 \in Nat
      BY <1>2, <1>3, <2>2, <2>4
    <3>2. QED
      BY <1>3, <2>2, <2>4, <3>1, KindsFacts DEF RoomForLevels
  <2>6. PICK f2 : /\ Continues(Kinds, heard, q1, f1, AddAll(q1, LevelTokens(s, 0)), f2)
                  /\ LevelsOn(f1, s, 0, f2)
    BY <1>2, <2>3, <2>5, TellLevels, Zenon
  <2>7. PICK q2 \in Queue : q2 = AddAll(q1, LevelTokens(s, 0)) /\ Tells(Kinds, heard, q2, f2)
    BY <2>6 DEF Continues
  <2>8. /\ f2.depth = 0 /\ f2.depth = Len(StackAfter(s, 0)) - 1 /\ f2.brackets = opened
        /\ f2.strings = 0 /\ f2.phase \in {"body", "closing"} /\ f2.line \in {"ended", "joined"}
    BY <1>3, <2>2, <2>6 DEF LevelsOn
  <2>9. PICK f3 : /\ Continues(Kinds, heard, q2, f2, AddPending(q2, cur), f3)
                  /\ AddPending(q2, cur).prev = "EOF"
                  /\ f3.depth = 0 /\ f3.brackets = f2.brackets /\ f3.strings = f2.strings
                  /\ f3.phase = "ended" /\ f3.line = f2.line
    <3>1. /\ f2.depth = 0 /\ f2.phase \in {"body", "closing"}
          /\ f2.line \in {"first", "ended", "joined"}
      BY <2>8
    <3>2. GoodKinds(Kinds) /\ q2 \in Queue /\ Tells(Kinds, heard, q2, f2) /\ cur.type = "EOF"
      BY <1>1, <2>7, KindsFacts
    <3>3. QED
      BY <1>2, <3>1, <3>2, TellEof
  <2>10. out' = AddPending(q2, cur)
    BY <1>5, <2>3, <2>4, <2>7
  <2>11. Continues(Kinds, heard, out, e, out', f3)
    <3>1. Continues(Kinds, heard, out, e, q1, f1)
      BY <2>2, <2>3
    <3>2. Continues(Kinds, heard, q1, f1, q2, f2)
      BY <2>6, <2>7
    <3>3. Continues(Kinds, heard, out, e, q2, f2)
      BY <3>1, <3>2, ContinuesOn
    <3>4. Continues(Kinds, heard, q2, f2, out', f3)
      BY <2>9, <2>10
    <3>5. QED
      BY <3>3, <3>4, ContinuesOn
  <2>12. Levels' = 0
    <3>1. ind'.stack = StackAfter(s, 0)
      BY <1>2, <1>5, <2>4 DEF Levelled, Indentation
    <3>2. ind'.stack # <<>>
      BY <2>4, <3>1, StackAfterSound, 0 \in Nat DEF SoundStack
    <3>3. QED
      BY <2>8, <3>1, <3>2 DEF Levels
  <2>13. Placed(f3.line)'
    BY <1>1, <2>8, <2>9, <2>10 DEF Placed
  <2>14. QED
    BY <1>1, <1>2, <1>3, <2>8, <2>9, <2>10, <2>11, <2>12, <2>13, Unheard
<1>6. QED
  BY <1>4, <1>5 DEF EndOfFile

(* pending_tokens.pop(0): the caller hears the head of the queue.           *)
LEMMA PopStream == IInv /\ OrderOK /\ StreamInv /\ Pop => StreamInv' /\ Emits(Now, Now')
<1> SUFFICES ASSUME IInv, OrderOK, StreamInv, Pop PROVE StreamInv' /\ Emits(Now, Now')
  OBVIOUS
<1>1. /\ pc \in {"pop", "idle"} /\ pc' = "idle" /\ out' = [out EXCEPT !.pending = Tail(@)]
      /\ heard' = HeardAfter(heard, Head(out.pending))
      /\ UNCHANGED <<read, cur, ffg, opened, ind, reported>>
  BY DEF Pop
<1>2. out \in Queue /\ out.pending # <<>> /\ heard \in Heard /\ RawOK(cur) /\ RawOK(ffg)
  BY <1>1, StreamFacts DEF Pop, IInv, QueueInv
<1>3. PICK e : Reached(e)
  BY DEF StreamInv
<1>4. Tells(Kinds, heard, out, e) /\ e.depth = Levels /\ e.brackets = opened /\ e.strings = 0
  BY <1>3 DEF Reached
<1>5. /\ Tells(Kinds, heard', out', e)
      /\ Emits(Before(Kinds, e, out.pending, heard), Before(Kinds, e, out'.pending, heard'))
  BY <1>1, <1>2, <1>4, KindsFacts, TellHead
<1>6. out' \in Queue /\ out'.prev = out.prev /\ out'.last = out.last
  <2>1. out.pending \in Seq(Token)
    BY <1>2 DEF Queue
  <2>2. Tail(out.pending) \in Seq(Token)
    BY <1>2, <2>1, HeadTailProperties
  <2>3. QED
    BY <1>1, <1>2, <2>2 DEF Queue
<1>7. Levels' = Levels
  BY <1>1 DEF Levels
<1>8. Reached(e)'
  BY <1>1, <1>3, <1>5, <1>6, <1>7 DEF Reached, Placed, NextUp
<1>9. Now = Before(Kinds, e, out.pending, heard)
  <2>1. Now = Standing(out, heard, Levels, opened)
    BY DEF Now, Standing, Pending, PendingAs
  <2>2. QED
    BY <1>2, <1>4, <2>1, NowIs
<1>10. Now' = Before(Kinds, e, out'.pending, heard')
  <2>1. Now' = Standing(out', heard', Levels', opened')
    BY DEF Now, Standing, Pending, PendingAs
  <2>2. e.depth = Levels' /\ e.brackets = opened'
    BY <1>1, <1>4, <1>7
  <2>3. QED
    BY <1>4, <1>6, <2>1, <2>2, NowIs
<1>11. QED
  BY <1>1, <1>2, <1>5, <1>8, <1>9, <1>10 DEF StreamInv

(* A new lexer, and a reset one: nothing is told yet.                       *)
LEMMA InitStream == Init => /\ StreamInv
                            /\ Now = [depth |-> 0, brackets |-> 0, strings |-> 0,
                                      line |-> "first", phase |-> "body"]
<1> SUFFICES ASSUME Init PROVE StreamInv /\ Now = [depth |-> 0, brackets |-> 0, strings |-> 0,
                                                   line |-> "first", phase |-> "body"]
  OBVIOUS
<1>1. /\ pc = "fresh" /\ opened = 0 /\ heard = NothingHeard /\ out = EmptyQueue /\ ind = NoIndentation
  BY DEF Init
<1>2. Levels = 0 /\ out.pending = <<>> /\ out.prev = "none"
  BY <1>1 DEF Levels, NoIndentation, EmptyQueue
<1>3. PICK e : /\ Tells(Kinds, heard, out, e) /\ Now = Before(Kinds, e, out.pending, heard)
               /\ e.depth = 0 /\ e.brackets = 0 /\ e.strings = 0
               /\ e.phase = "body" /\ e.line = "first"
  BY <1>1, <1>2, Fresh
<1>4. Reached(e)
  BY <1>1, <1>2, <1>3 DEF Reached, Placed
<1>5. heard.line = "first" /\ heard.phase = "body"
  BY <1>1 DEF NothingHeard
<1>6. Before(Kinds, e, <<>>, heard) = [depth |-> 0, brackets |-> 0, strings |-> 0,
                                       line |-> "first", phase |-> "body"]
  <2>1. \A S : Number(<<>>, S) = 0
    BY NumberEmpty
  <2>2. QED
    BY <1>3, <1>5, <2>1 DEF Before
<1>7. QED
  BY <1>1, <1>2, <1>3, <1>4, <1>6 DEF StreamInv

(* What Now says of TokenStream.                                            *)
LEMMA Mapped ==
    /\ UNCHANGED Now => UNCHANGED TokenStream!stream
    /\ Emits(Now, Now') => TokenStream!Emit \/ UNCHANGED TokenStream!stream
<1>1. PICK r : r = Now
  OBVIOUS
<1>2. PICK c : c = Now'
  OBVIOUS
<1>3. /\ r.depth = Levels - PendingAs({INDENT}) + PendingAs({DEDENT, BAD_DEDENT})
      /\ r.brackets = opened - Pending({"LPAR", "LBRACE"}) + Pending({"RPAR", "RBRACE"})
      /\ r.strings = 0 /\ r.line = heard.line /\ r.phase = heard.phase
  BY <1>1 DEF Now
<1>4. /\ c.depth = (Levels - PendingAs({INDENT}) + PendingAs({DEDENT, BAD_DEDENT}))'
      /\ c.brackets = (opened - Pending({"LPAR", "LBRACE"}) + Pending({"RPAR", "RBRACE"}))'
      /\ c.strings = 0 /\ c.line = heard'.line /\ c.phase = heard'.phase
  BY <1>2 DEF Now
<1>5. UNCHANGED Now => UNCHANGED TokenStream!stream
  <2> SUFFICES ASSUME r = c PROVE UNCHANGED TokenStream!stream
    BY <1>1, <1>2
  <2>1. QED
    BY <1>3, <1>4 DEF TokenStream!stream
<1>6. ASSUME Emits(r, c) PROVE TokenStream!Emit \/ UNCHANGED TokenStream!stream
  <2>1. CASE c = r
    BY <1>1, <1>2, <1>5, <2>1
  <2>2. CASE /\ r.phase = "body" /\ r.strings = 0
             /\ \/ r.line = "ended" /\ r.brackets <= 0 /\ c.depth = r.depth + 1
                \/ r.line = "first" /\ c.depth = r.depth
             /\ c.line = "indented"
             /\ c.brackets = r.brackets /\ c.strings = r.strings /\ c.phase = r.phase
    BY <1>3, <1>4, <2>2 DEF TokenStream!Emit, TokenStream!Indent
  <2>3. CASE /\ r.phase \in {"body", "closing"}
             /\ r.line \in {"ended", "joined"} /\ r.depth > 0
             /\ r.phase = "body" => r.strings = 0
             /\ c.depth = r.depth - 1 /\ c.line = "ended"
             /\ c.brackets = r.brackets /\ c.strings = r.strings /\ c.phase = r.phase
    BY <1>3, <1>4, <2>3 DEF TokenStream!Emit, TokenStream!Dedent
  <2>4. CASE /\ r.phase = "body" /\ r.line \in {"open", "joined"}
             /\ r.brackets <= 0 /\ r.strings = 0
             /\ c.line = "ended" /\ c.depth = r.depth
             /\ c.brackets = r.brackets /\ c.strings = r.strings /\ c.phase = r.phase
    BY <1>3, <1>4, <2>4 DEF TokenStream!Emit, TokenStream!Newline
  <2>5. CASE /\ r.phase = "body" /\ r.line \in {"open", "indented"}
             /\ c.line = "ended" /\ c.phase = "closing" /\ c.depth = r.depth
             /\ c.brackets = r.brackets /\ c.strings = r.strings
    BY <1>3, <1>4, <2>5 DEF TokenStream!Emit, TokenStream!LastNewline
  <2>6. CASE /\ r.phase = "body" /\ r.line = "ended"
             /\ c.depth \in {r.depth, r.depth - 1} /\ c.depth >= 0 /\ c.line = "open"
             /\ c.brackets = r.brackets /\ c.strings = r.strings /\ c.phase = r.phase
    BY <1>3, <1>4, <2>6 DEF TokenStream!Emit, TokenStream!Error
  <2>7. CASE /\ r.phase = "body" /\ c.line = "open"
             /\ \/ c.brackets = r.brackets /\ c.strings = r.strings
                \/ c.brackets \in {r.brackets + 1, r.brackets - 1} /\ c.strings = r.strings
                \/ c.strings = r.strings + 1 /\ c.brackets = r.brackets
                \/ r.strings > 0 /\ c.strings = r.strings - 1 /\ c.brackets = r.brackets
             /\ c.depth = r.depth /\ c.phase = r.phase
    BY <1>3, <1>4, <2>7 DEF TokenStream!Emit, TokenStream!Text
  <2>8. CASE /\ r.phase = "body" /\ r.line \in {"ended", "indented"}
             /\ c.line = IF r.line = "ended" THEN "joined" ELSE "open"
             /\ c.depth = r.depth
             /\ c.brackets = r.brackets /\ c.strings = r.strings /\ c.phase = r.phase
    BY <1>3, <1>4, <2>8 DEF TokenStream!Emit, TokenStream!Joining
  <2>9. CASE /\ r.phase = "fresh" /\ c.phase = "body" /\ c.line = r.line
             /\ c.depth = r.depth /\ c.brackets = r.brackets /\ c.strings = r.strings
    BY <1>3, <1>4, <2>9 DEF TokenStream!Emit, TokenStream!Encoding
  <2>10. CASE /\ r.phase \in {"body", "closing"}
              /\ r.line \in {"first", "ended", "joined"} /\ r.depth = 0
              /\ c.phase = "ended" /\ c.line = r.line
              /\ c.depth = r.depth /\ c.brackets = r.brackets /\ c.strings = r.strings
    BY <1>3, <1>4, <2>10 DEF TokenStream!Emit, TokenStream!Eof
  <2>11. QED
    BY <1>6, <2>1, <2>2, <2>3, <2>4, <2>5, <2>6, <2>7, <2>8, <2>9, <2>10 DEF Emits
<1>7. QED
  BY <1>1, <1>2, <1>5, <1>6

LEMMA StreamStarts == Init => StreamInv /\ TokenStream!Start
<1> SUFFICES ASSUME Init PROVE StreamInv /\ TokenStream!Start
  OBVIOUS
<1>1. StreamInv /\ Now = [depth |-> 0, brackets |-> 0, strings |-> 0, line |-> "first", phase |-> "body"]
  BY InitStream
<1>2. /\ Levels - PendingAs({INDENT}) + PendingAs({DEDENT, BAD_DEDENT}) = 0
      /\ opened - Pending({"LPAR", "LBRACE"}) + Pending({"RPAR", "RBRACE"}) = 0
      /\ heard.line = "first" /\ heard.phase = "body"
  BY <1>1 DEF Now
<1>3. QED
  BY <1>1, <1>2 DEF TokenStream!Start

(* A reset lexer starts over, and so does the stream.                       *)
LEMMA ResetStream == Reset => StreamInv' /\ TokenStream!Restart
<1>1. Reset => Init'
  BY DEF Reset, Init
<1>2. Reset => (/\ StreamInv
                /\ Now = [depth |-> 0, brackets |-> 0, strings |-> 0,
                          line |-> "first", phase |-> "body"])'
  BY <1>1, InitStream, PTL
<1> SUFFICES ASSUME Reset PROVE TokenStream!Restart
  BY <1>2
<1>3. /\ (Levels - PendingAs({INDENT}) + PendingAs({DEDENT, BAD_DEDENT}))' = 0
      /\ (opened - Pending({"LPAR", "LBRACE"}) + Pending({"RPAR", "RBRACE"}))' = 0
      /\ heard'.line = "first" /\ heard'.phase = "body"
  BY <1>2 DEF Now
<1>4. QED
  BY <1>3 DEF TokenStream!Restart

LEMMA StreamStep ==
    IInv /\ OrderOK /\ StreamInv /\ [Next]_vars
       => StreamInv' /\ [TokenStream!Emit \/ TokenStream!Restart]_(TokenStream!stream)
<1> SUFFICES ASSUME IInv, OrderOK, StreamInv, [Next]_vars
             PROVE  StreamInv' /\ [TokenStream!Emit \/ TokenStream!Restart]_(TokenStream!stream)
  OBVIOUS
<1>1. CASE UNCHANGED vars
  <2>1. Now' = Now
    BY <1>1 DEF vars, Now, Levels, Pending, PendingAs
  <2>2. StreamInv'
    <3>1. PICK e : Reached(e)
      BY DEF StreamInv
    <3>2. Reached(e)'
      BY <1>1, <3>1 DEF vars, Reached, Placed, NextUp, Levels
    <3>3. QED
      BY <1>1, <3>2 DEF vars, StreamInv
  <2>3. QED
    BY <2>1, <2>2, Mapped
<1>2. CASE Begin \/ SkipLeading \/ EndLeading \/ Fetch \/ Dispatch
  <2>1. StreamInv' /\ Now' = Now
    BY <1>2, BeginStream, SkipLeadingStream, EndLeadingStream, FetchStream, AddCurrentStream,
       NewlineInBracketsStream, NewlineNoWsStream, NewlineThenWsStream, EndOfFileStream DEF Dispatch
  <2>2. QED
    BY <2>1, Mapped
<1>3. CASE Pop
  BY <1>3, PopStream, Mapped
<1>4. CASE Reset
  BY <1>4, ResetStream
<1>5. QED
  BY <1>1, <1>2, <1>3, <1>4 DEF Next, NextToken

(* nextToken() and its handlers: INDENTs and DEDENTs match and stand at the *)
(* start of lines, NEWLINEs end lines that have tokens and never stand      *)
(* inside brackets, and EOF comes last, with every level closed.            *)
THEOREM Stream == Spec => StreamOK
<1>1. Spec => []OrderOK
  BY InitOrder, NextOrder, Invariance, PTL DEF Spec
<1>2. QED
  BY <1>1, StreamStarts, StreamStep, Invariance, PTL DEF Spec, StreamOK, TokenStream!Stream
=============================================================================
