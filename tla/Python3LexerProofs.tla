------------------------- MODULE Python3LexerProofs -------------------------
(***************************************************************************)
(* The blocks of the python/python3 lexer, the order of its tokens, and the *)
(* stream its caller receives.                                              *)
(***************************************************************************)
EXTENDS Python3Lexer, SequenceLemmas

Heards == [depth : Int, brackets : Int, over : BOOLEAN, got : Nat,
           line : {"first", "open", "ended", "indented", "closing"}]

---------------------------------------------------------------------------
(* The inductive invariant.                                                 *)

Increasing ==
    /\ \A i \in 1..Len(indents) : indents[i] > 0
    /\ \A i, j \in 1..Len(indents) : i < j => indents[i] < indents[j]

(* An open block leaves a token over, two when one is about to be taken.    *)
Excess == indents # <<>> => Len(tokens) >= (IF pc = "take" THEN 2 ELSE 1)

(* EOF is in the list only when it is ahead, and nothing else is behind it. *)
(* With a block open there is one at most, which the next call takes out.   *)
EofsBehind ==
    \A i \in 1..Len(tokens) : tokens[i].type = "EOF" =>
        /\ ahead.type = "EOF"
        /\ \A j \in i..Len(tokens) : tokens[j].type = "EOF"
        /\ indents # <<>> => i = Len(tokens) /\ pc # "lexing"

OverOK ==
    heard.over => /\ pc = "idle" /\ indents = <<>> /\ ahead.type = "EOF"
                  /\ \A i \in 1..Len(tokens) : tokens[i].type = "EOF"

(* TokensInOrder, with the match ahead apart.                               *)
TextsInOrder ==
    LET texts == OnlyIn(tokens, TextTokens)
    IN  /\ \A i \in 1..Len(texts) : texts[i].pos = heard.got + i
        /\ ahead.pos = heard.got + Len(texts) + (IF ahead.type \in Texts THEN 1 ELSE 0)

(* What may come next in the stream of the caller.                          *)
Legal(h, t) ==
    /\ ~h.over
    /\ t.type \in Texts \union {"NEWLINE", "INDENT", "DEDENT", "EOF"}
    /\ t.type = "INDENT" => h.line = "ended"
    /\ t.type = "DEDENT" => h.line \in {"ended", "closing"} /\ h.depth > 0
    /\ t.type \in Texts => h.line # "closing"
    /\ t.type = "EOF" => h.depth = 0 /\ h.line # "indented"

Readings ==
    {s \in Heards \X Token \X Heards :
       Legal(s[1], s[2]) /\ s[3] = HeardAfter(s[1], s[2])}

(* The tokens in the list lead the caller from what it has heard to the     *)
(* levels, the brackets and the line where the lexer is.                    *)
Matched(e) ==
    /\ Leads(Readings, heard, WithoutEof(tokens), e)
    /\ e.depth = Len(indents) /\ e.brackets = opened /\ e.over = heard.over
    /\ e.line = "closing" => ahead.type = "EOF"
    /\ e.line = "indented" => indents # <<>>

StreamFollows == \E e \in Heards : Matched(e)

IInv ==
    /\ TypeOK
    /\ pc = "take" => tokens # <<>>
    /\ Increasing /\ Excess /\ EofsBehind /\ OverOK
    /\ TextsInOrder
    /\ StreamFollows

---------------------------------------------------------------------------
(* Tokens and what is heard of them.                                        *)

(* What is neither a name, a bracket nor EOF.                               *)
Plain == {t \in Token : t.type \notin Texts /\ t.type # "EOF"}

LEMMA MadeTokens ==
    /\ NEWLINE \in Plain /\ INDENT \in Plain /\ MadeToken("DEDENT") \in Plain
    /\ NEWLINE.type = "NEWLINE" /\ INDENT.type = "INDENT" /\ MadeToken("DEDENT").type = "DEDENT"
    /\ MadeToken("NAME") \in Token /\ MadeToken("NAME").pos = 0
BY 0 \in Nat DEF NEWLINE, INDENT, MadeToken, Plain, Token, Types, AllRawTypes, LineEnds, Texts

LEMMA RawFacts ==
    ASSUME NEW t \in Token, NEW n, NEW r \in Raw(t, n)
    PROVE  r \in Token /\ r.pos = IF r.type \in Texts THEN t.pos + 1 ELSE t.pos
<1>1. t.pos \in Nat
  BY DEF Token
<1> DEFINE Match(type, width, lone) ==
             [type |-> type, width |-> width, lone |-> lone,
              pos |-> IF type \in Texts THEN t.pos + 1 ELSE t.pos]
<1>2. RawTypes \union {"EOF"} \subseteq Types
  BY RawTypesAssumption DEF Types
<1>3. PICK type \in RawTypes \union {"EOF"}, width \in Widths \union {0}, lone \in BOOLEAN :
        r = Match(type, width, lone)
  <2>1. CASE r = Match("EOF", 0, FALSE)
    <3>1. "EOF" \in RawTypes \union {"EOF"} /\ 0 \in Widths \union {0} /\ FALSE \in BOOLEAN
      OBVIOUS
    <3>2. QED
      BY <2>1, <3>1
  <2>2. CASE r # Match("EOF", 0, FALSE)
    <3>1. r \in {Match(type, width, lone) :
                   type \in RawTypes, width \in Widths \union {0}, lone \in BOOLEAN}
      BY <2>2 DEF Raw
    <3>2. PICK type \in RawTypes, width \in Widths \union {0}, lone \in BOOLEAN :
            r = Match(type, width, lone)
      BY <3>1
    <3>3. QED
      BY <3>2
  <2>3. QED
    BY <2>1, <2>2
<1>4. /\ r.type = type /\ r.pos = (IF type \in Texts THEN t.pos + 1 ELSE t.pos)
      /\ r \in [type : Types, width : Widths \union {0}, lone : BOOLEAN, pos : Nat]
  BY <1>1, <1>2, <1>3
<1>5. QED
  BY <1>4 DEF Token

LEMMA HeardFields ==
    ASSUME NEW h \in Heards, NEW t \in Token
    PROVE  /\ HeardAfter(h, t) \in Heards
           /\ HeardAfter(h, t).got = IF t.type \in Texts THEN t.pos ELSE h.got
           /\ HeardAfter(h, t).over = (h.over \/ t.type = "EOF")
           /\ HeardAfter(h, t).depth = IF t.type = "INDENT" THEN h.depth + 1
                                       ELSE IF t.type = "DEDENT" THEN h.depth - 1 ELSE h.depth
           /\ HeardAfter(h, t).brackets = IF t.type = "OPEN" THEN h.brackets + 1
                                          ELSE IF t.type = "CLOSE" THEN h.brackets - 1
                                          ELSE h.brackets
           /\ HeardAfter(h, t).line = IF t.type = "NEWLINE"
                                      THEN IF h.brackets > 0 THEN "closing" ELSE "ended"
                                      ELSE IF t.type = "INDENT" THEN "indented"
                                      ELSE IF t.type \in Texts THEN "open" ELSE h.line
<1>1. /\ h.depth \in Int /\ h.brackets \in Int /\ h.over \in BOOLEAN /\ h.got \in Nat
      /\ h.line \in {"first", "open", "ended", "indented", "closing"}
      /\ t.pos \in Nat
  BY DEF Heards, Token
<1>2. QED
  BY <1>1 DEF HeardAfter, Heards, Texts

LEMMA Reading ==
    ASSUME NEW a, NEW t, NEW c
    PROVE  <<a, t, c>> \in Readings
             <=> /\ a \in Heards /\ t \in Token /\ Legal(a, t) /\ c = HeardAfter(a, t)
<1>1. a \in Heards /\ t \in Token => HeardAfter(a, t) \in Heards
  BY HeardFields
<1>2. QED
  BY <1>1 DEF Readings

(* One token more.                                                          *)
LEMMA Extended ==
    ASSUME NEW a, NEW s \in Seq(Token), NEW e \in Heards, NEW t \in Token,
           Leads(Readings, a, s, e), Legal(e, t)
    PROVE  Leads(Readings, a, Append(s, t), HeardAfter(e, t))
<1>1. <<e, t, HeardAfter(e, t)>> \in Readings
  BY Reading
<1>2. QED
  BY <1>1, LeadsAppend

LEMMA DedentsOne ==
    ASSUME NEW n \in Nat
    PROVE  /\ Dedents(n) \in Seq(Plain) /\ Len(Dedents(n)) = n
           /\ n > 0 => Dedents(n) = Append(Dedents(n - 1), MadeToken("DEDENT"))
<1>1. \A k \in Nat : /\ Dedents(k) \in Seq(Plain) /\ Len(Dedents(k)) = k
                     /\ \A i \in 1..k : Dedents(k)[i] = MadeToken("DEDENT")
  BY MadeTokens DEF Dedents
<1>2. ASSUME n > 0 PROVE Dedents(n) = Append(Dedents(n - 1), MadeToken("DEDENT"))
  <2> DEFINE d == Dedents(n - 1)
             x == MadeToken("DEDENT")
  <2>1. n - 1 \in Nat /\ x \in Plain
    BY <1>2, MadeTokens
  <2>2. d \in Seq(Plain) /\ Len(d) = n - 1 /\ \A i \in 1..(n - 1) : d[i] = x
    BY <1>1, <2>1
  <2> HIDE DEF d, x
  <2>3. /\ Append(d, x) \in Seq(Plain) /\ Len(Append(d, x)) = n
        /\ \A i \in 1..(n - 1) : Append(d, x)[i] = d[i]
        /\ Append(d, x)[n] = x
    BY <2>1, <2>2, AppendLast
  <2>4. \A i \in 1..n : Append(d, x)[i] = x
    <3> SUFFICES ASSUME NEW i \in 1..n PROVE Append(d, x)[i] = x
      OBVIOUS
    <3>1. i \in 1..(n - 1) \/ i = n
      OBVIOUS
    <3>2. QED
      BY <3>1, <2>2, <2>3
  <2>5. Dedents(n) = Append(d, x)
    BY <1>1, <2>3, <2>4, SeqEqual DEF x
  <2>6. QED
    BY <2>5 DEF d, x
<1>3. QED
  BY <1>1, <1>2

(* DEDENTs close as many levels.                                            *)
LEMMA DedentsLead ==
    ASSUME NEW a, NEW s \in Seq(Token), NEW e \in Heards, Leads(Readings, a, s, e),
           ~e.over, e.line \in {"ended", "closing"}
    PROVE  \A n \in Nat : n <= e.depth =>
             \E c \in Heards :
               /\ Leads(Readings, a, s \o Dedents(n), c)
               /\ c.depth = e.depth - n /\ c.brackets = e.brackets
               /\ c.line = e.line /\ c.over = e.over
<1> DEFINE Closed(n) == \E c \in Heards :
               /\ Leads(Readings, a, s \o Dedents(n), c)
               /\ c.depth = e.depth - n /\ c.brackets = e.brackets
               /\ c.line = e.line /\ c.over = e.over
           Bad == {n \in Nat : n <= e.depth /\ ~Closed(n)}
<1>0. e.depth \in Int
  BY DEF Heards
<1> SUFFICES ASSUME Bad # {} PROVE FALSE
  OBVIOUS
<1>1. PICK n \in Bad : \A i \in Bad : n <= i
  <2>1. Bad \in SUBSET Nat /\ Bad # {}
    OBVIOUS
  <2> HIDE DEF Bad
  <2>2. QED
    BY <2>1, SmallestOf
<1>2. n # 0
  <2>1. Dedents(0) = <<>>
    BY DEF Dedents
  <2>2. s \o Dedents(0) = s
    BY <2>1, ConcatEmptySeq
  <2>3. e.depth - 0 = e.depth
    BY <1>0
  <2>4. Closed(0)
    BY <2>2, <2>3
  <2>5. QED
    BY <2>4
<1>3. n - 1 \in Nat /\ n - 1 <= e.depth /\ n - 1 \notin Bad /\ n <= e.depth
  BY <1>0, <1>1, <1>2
<1>4. Closed(n - 1)
  BY <1>3
<1>5. PICK c \in Heards :
        /\ Leads(Readings, a, s \o Dedents(n - 1), c)
        /\ c.depth = e.depth - (n - 1) /\ c.brackets = e.brackets
        /\ c.line = e.line /\ c.over = e.over
  BY <1>4
<1> DEFINE x == MadeToken("DEDENT")
           u == s \o Dedents(n - 1)
<1>6. x \in Token /\ x.type = "DEDENT"
  BY MadeTokens DEF Plain
<1>7. Legal(c, x)
  BY <1>0, <1>3, <1>5, <1>6 DEF Legal, Texts
<1>8. Dedents(n - 1) \in Seq(Token) /\ Dedents(n) = Append(Dedents(n - 1), x)
  <2>1. Dedents(n - 1) \in Seq(Plain) /\ Plain \subseteq Token
    BY <1>3, DedentsOne DEF Plain
  <2>2. Dedents(n - 1) \in Seq(Token)
    BY <2>1, SeqMonotonic
  <2>3. n > 0 => Dedents(n) = Append(Dedents(n - 1), x)
    BY DedentsOne
  <2>4. QED
    BY <1>2, <2>2, <2>3
<1>9. u \in Seq(Token) /\ s \o Dedents(n) = Append(u, x)
  BY <1>6, <1>8, ConcatProperties, AppendConcat
<1> HIDE DEF x, u
<1>10. Leads(Readings, a, Append(u, x), HeardAfter(c, x))
  BY <1>5, <1>6, <1>7, <1>9, Extended DEF u
<1>11. /\ HeardAfter(c, x) \in Heards
       /\ HeardAfter(c, x).depth = e.depth - n /\ HeardAfter(c, x).brackets = e.brackets
       /\ HeardAfter(c, x).line = e.line /\ HeardAfter(c, x).over = e.over
  <2>1. /\ HeardAfter(c, x) \in Heards
        /\ HeardAfter(c, x).depth = c.depth - 1 /\ HeardAfter(c, x).brackets = c.brackets
        /\ HeardAfter(c, x).line = c.line /\ HeardAfter(c, x).over = (c.over \/ FALSE)
    BY <1>6, HeardFields DEF Texts
  <2>2. c.over \in BOOLEAN
    BY DEF Heards
  <2>3. QED
    BY <1>0, <1>5, <2>1, <2>2
<1>12. Closed(n)
  BY <1>9, <1>10, <1>11
<1>13. QED
  BY <1>12

---------------------------------------------------------------------------
(* The list.                                                                *)

LEMMA EofApart ==
    /\ \A ts \in Seq(NotEof) : WithoutEof(ts) = ts
    /\ \A ts \in Seq(Token) : WithoutEof(ts) \in Seq(NotEof) /\ WithoutEof(ts) \in Seq(Token)
    /\ \A ts \in Seq(Token), t \in Token :
          WithoutEof(Append(ts, t))
            = IF t.type = "EOF" THEN WithoutEof(ts) ELSE Append(WithoutEof(ts), t)
    /\ \A ts \in Seq(Token) :
          (\A i \in 1..Len(ts) : ts[i].type = "EOF") => WithoutEof(ts) = <<>>
<1>1. \A ts \in Seq(NotEof) : WithoutEof(ts) = ts
  BY OnlyInAll DEF WithoutEof
<1>2. ASSUME NEW ts \in Seq(Token)
      PROVE  WithoutEof(ts) \in Seq(NotEof) /\ WithoutEof(ts) \in Seq(Token)
  <2>1. Token \cap NotEof = NotEof /\ NotEof \subseteq Token
    BY DEF NotEof
  <2>2. WithoutEof(ts) \in Seq(NotEof)
    BY <2>1, OnlyInType DEF WithoutEof
  <2>3. QED
    BY <2>1, <2>2, SeqMonotonic
<1>3. ASSUME NEW ts \in Seq(Token), NEW t \in Token
      PROVE  WithoutEof(Append(ts, t))
               = IF t.type = "EOF" THEN WithoutEof(ts) ELSE Append(WithoutEof(ts), t)
  <2>1. OnlyIn(Append(ts, t), NotEof)
          = IF t \in NotEof THEN Append(OnlyIn(ts, NotEof), t) ELSE OnlyIn(ts, NotEof)
    BY OnlyInAppend
  <2>2. t \in NotEof <=> t.type # "EOF"
    BY DEF NotEof
  <2>3. QED
    BY <2>1, <2>2 DEF WithoutEof
<1>4. ASSUME NEW ts \in Seq(Token), \A i \in 1..Len(ts) : ts[i].type = "EOF"
      PROVE  WithoutEof(ts) = <<>>
  <2> DEFINE E == {t \in Token : t.type = "EOF"}
  <2>1. \A i \in 1..Len(ts) : ts[i] \in E
    BY <1>4, ElementOfSeq
  <2>2. E \cap NotEof = {}
    BY DEF NotEof
  <2> HIDE DEF E
  <2>3. ts \in Seq(E)
    BY <2>1, SeqOfAll
  <2>4. QED
    BY <2>2, <2>3, OnlyInNone DEF WithoutEof
<1>5. QED
  BY <1>1, <1>2, <1>3, <1>4

LEMMA TypeParts ==
    ASSUME TypeOK
    PROVE  /\ ahead \in Token /\ ahead.pos \in Nat /\ ahead.width \in Nat /\ read \in Nat
           /\ tokens \in Seq(Token) /\ indents \in Seq(Nat) /\ opened \in Int
           /\ heard \in Heards /\ heard.got \in Nat /\ heard.over \in BOOLEAN
           /\ Len(tokens) \in Nat /\ Len(indents) \in Nat
           /\ OnlyIn(tokens, TextTokens) \in Seq(TextTokens)
           /\ Len(OnlyIn(tokens, TextTokens)) \in Nat
<1>1. /\ ahead \in Token /\ read \in Nat /\ tokens \in Seq(Token) /\ indents \in Seq(Nat)
      /\ opened \in Int /\ heard \in Heards
  BY DEF TypeOK, Heards
<1>2. ahead.pos \in Nat /\ ahead.width \in Nat /\ heard.got \in Nat /\ heard.over \in BOOLEAN
  <2>1. Widths \union {0} \subseteq Nat
    BY WidthsAssumption
  <2>2. ahead.width \in Widths \union {0} /\ ahead.pos \in Nat
    BY <1>1 DEF Token
  <2>3. QED
    BY <1>1, <2>1, <2>2 DEF Heards
<1>3. Token \cap TextTokens = TextTokens
  BY DEF TextTokens
<1>4. OnlyIn(tokens, TextTokens) \in Seq(TextTokens)
  BY <1>1, <1>3, OnlyInType
<1>5. QED
  BY <1>1, <1>2, <1>4, LenProperties

(* What the match of a rule leaves.                                         *)
LEMMA RuleMatched ==
    ASSUME IInv, NEW types, Matches(types), "EOF" \notin types
    PROVE  /\ ahead.type \in types /\ ahead.type # "EOF"
           /\ ahead' \in Token /\ read' \in Nat /\ heard' = heard /\ ~heard.over
           /\ ahead'.pos = ahead.pos + (IF ahead'.type \in Texts THEN 1 ELSE 0)
           /\ tokens \in Seq(NotEof)
<1>1. TypeOK /\ EofsBehind /\ OverOK
  BY DEF IInv
<1>2. ahead \in Token /\ ahead.pos \in Nat /\ read \in Nat /\ tokens \in Seq(Token)
  BY <1>1, TypeParts
<1>3. ahead.type \in types /\ ahead.type # "EOF"
  BY DEF Matches
<1>4. heard' = heard /\ ~heard.over /\ read' \in Nat
  BY <1>1, <1>2, <1>3 DEF Matches, OverOK
<1>5. ahead' \in Raw(ahead, read + 1)
  BY DEF Matches
<1>6. ahead' \in Token /\ ahead'.pos = IF ahead'.type \in Texts THEN ahead.pos + 1 ELSE ahead.pos
  BY <1>2, <1>5, RawFacts
<1>7. \A i \in 1..Len(tokens) : tokens[i] \in NotEof
  BY <1>1, <1>2, <1>3, ElementOfSeq DEF EofsBehind, NotEof
<1>8. tokens \in Seq(NotEof)
  BY <1>2, <1>7, SeqOfAll
<1>9. QED
  BY <1>2, <1>3, <1>4, <1>6, <1>8

(* The list after the match of a rule, when tokens that are not EOF were    *)
(* emitted.                                                                 *)
LEMMA Grown ==
    ASSUME IInv, NEW types, Matches(types), "EOF" \notin types,
           NEW ts \in Seq(NotEof), tokens' = tokens \o ts
    PROVE  /\ tokens' \in Seq(NotEof) /\ tokens' \in Seq(Token)
           /\ Len(tokens') = Len(tokens) + Len(ts)
           /\ WithoutEof(tokens) = tokens /\ WithoutEof(tokens') = tokens'
           /\ EofsBehind' /\ OverOK'
<1>1. tokens \in Seq(NotEof) /\ heard' = heard /\ ~heard.over
  BY RuleMatched
<1>2. NotEof \subseteq Token
  BY DEF NotEof
<1>3. tokens' \in Seq(NotEof) /\ Len(tokens') = Len(tokens) + Len(ts)
  BY <1>1, ConcatProperties
<1>4. tokens' \in Seq(Token)
  BY <1>2, <1>3, SeqMonotonic
<1>5. \A i \in 1..Len(tokens') : tokens'[i].type # "EOF"
  BY <1>3, ElementOfSeq DEF NotEof
<1>6. EofsBehind' /\ OverOK'
  BY <1>1, <1>5 DEF EofsBehind, OverOK
<1>7. QED
  BY <1>1, <1>3, <1>4, <1>6, EofApart

LEMMA NoTextsAdded ==
    ASSUME IInv, NEW types, Matches(types), types \cap (Texts \union {"EOF"}) = {},
           OnlyIn(tokens', TextTokens) = OnlyIn(tokens, TextTokens)
    PROVE  TextsInOrder'
<1>1. /\ ahead.type \notin Texts /\ heard' = heard
      /\ ahead'.pos = ahead.pos + (IF ahead'.type \in Texts THEN 1 ELSE 0)
  BY RuleMatched
<1>2. heard.got \in Nat /\ Len(OnlyIn(tokens, TextTokens)) \in Nat /\ ahead.pos \in Nat
  BY TypeParts DEF IInv
<1>3. TextsInOrder
  BY DEF IInv
<1>4. QED
  BY <1>1, <1>2, <1>3 DEF TextsInOrder

---------------------------------------------------------------------------
(* The steps.                                                               *)

LEMMA LexTextStep ==
    ASSUME IInv, LexToken \/ OpenBrace \/ CloseBrace
    PROVE  IInv'
<1> DEFINE texts == OnlyIn(tokens, TextTokens)
<1>1. PICK types \in {{"NAME"}, {"OPEN"}, {"CLOSE"}} :
        /\ Matches(types) /\ tokens' = Append(tokens, ahead) /\ pc' = "take"
        /\ indents' = indents
        /\ opened' = opened + (IF types = {"OPEN"} THEN 1 ELSE IF types = {"CLOSE"} THEN -1 ELSE 0)
  <2>1. {"NAME"} # {"OPEN"} /\ {"NAME"} # {"CLOSE"} /\ {"OPEN"} # {"CLOSE"} /\ opened \in Int
    BY TypeParts DEF IInv
  <2>2. CASE LexToken
    <3>1. opened' = opened + 0
      BY <2>1, <2>2 DEF LexToken
    <3>2. QED
      BY <2>1, <2>2, <3>1 DEF LexToken
  <2>3. CASE OpenBrace
    BY <2>1, <2>3 DEF OpenBrace
  <2>4. CASE CloseBrace
    <3>1. opened' = opened + (-1)
      BY <2>1, <2>4 DEF CloseBrace
    <3>2. QED
      BY <2>1, <2>4, <3>1 DEF CloseBrace
  <2>5. QED
    BY <2>2, <2>3, <2>4
<1>2. /\ "EOF" \notin types /\ ahead.type \in types /\ ahead.type \in Texts /\ ahead.type # "EOF"
      /\ ahead' \in Token /\ read' \in Nat /\ heard' = heard /\ ~heard.over
      /\ ahead'.pos = ahead.pos + (IF ahead'.type \in Texts THEN 1 ELSE 0)
      /\ tokens \in Seq(NotEof)
  <2>1. "EOF" \notin types /\ types \subseteq Texts
    BY DEF Texts
  <2>2. QED
    BY <1>1, <2>1, RuleMatched
<1>3. /\ TypeOK /\ Increasing /\ Excess /\ TextsInOrder /\ StreamFollows
      /\ ahead \in Token /\ ahead.pos \in Nat /\ opened \in Int /\ indents \in Seq(Nat)
      /\ tokens \in Seq(Token) /\ Len(tokens) \in Nat /\ heard \in Heards /\ heard.got \in Nat
      /\ texts \in Seq(TextTokens) /\ Len(texts) \in Nat
  BY TypeParts DEF IInv
<1>4. ahead \in NotEof /\ ahead \in TextTokens
  BY <1>2, <1>3 DEF NotEof, TextTokens
<1>5. tokens' = tokens \o <<ahead>> /\ <<ahead>> \in Seq(NotEof) /\ Len(<<ahead>>) = 1
  BY <1>1, <1>3, <1>4, AppendIsConcat, Singleton
<1>6. /\ tokens' \in Seq(Token) /\ Len(tokens') = Len(tokens) + 1
      /\ WithoutEof(tokens) = tokens /\ WithoutEof(tokens') = tokens'
      /\ EofsBehind' /\ OverOK'
  BY <1>1, <1>2, <1>5, Grown
<1>7. tokens' # <<>>
  <2>1. Len(tokens') # 0
    BY <1>3, <1>6
  <2>2. QED
    BY <2>1, EmptySeq
<1>8. TypeOK'
  BY <1>1, <1>2, <1>3, <1>6 DEF TypeOK, Heards
<1>9. Increasing' /\ Excess'
  BY <1>1, <1>3, <1>6 DEF Increasing, Excess
<1>10. TextsInOrder'
  <2>1. OnlyIn(tokens', TextTokens) = Append(texts, ahead)
    BY <1>1, <1>3, <1>4, OnlyInAppend
  <2> HIDE DEF texts
  <2>2. /\ Len(Append(texts, ahead)) = Len(texts) + 1
        /\ \A i \in 1..Len(texts) : Append(texts, ahead)[i] = texts[i]
        /\ Append(texts, ahead)[Len(texts) + 1] = ahead
    BY <1>3, <1>4, AppendLast
  <2>3. /\ \A i \in 1..Len(texts) : texts[i].pos = heard.got + i
        /\ ahead.pos = heard.got + Len(texts) + 1
    BY <1>2, <1>3 DEF TextsInOrder, texts
  <2>4. \A i \in 1..(Len(texts) + 1) : Append(texts, ahead)[i].pos = heard.got + i
    <3> SUFFICES ASSUME NEW i \in 1..(Len(texts) + 1)
                 PROVE  Append(texts, ahead)[i].pos = heard.got + i
      OBVIOUS
    <3>1. CASE i \in 1..Len(texts)
      BY <3>1, <2>2, <2>3
    <3>2. CASE i = Len(texts) + 1
      <4>1. Append(texts, ahead)[i] = ahead
        BY <3>2, <2>2
      <4>2. heard.got + Len(texts) + 1 = heard.got + i
        <5>1. heard.got \in Nat /\ Len(texts) \in Nat
          BY <1>3
        <5>2. QED
          BY <3>2, <5>1
      <4>3. QED
        BY <4>1, <4>2, <2>3
    <3>3. QED
      BY <3>1, <3>2, <1>3
  <2>5. QED
    BY <1>2, <1>3, <2>1, <2>2, <2>3, <2>4 DEF TextsInOrder
<1>11. StreamFollows'
  <2>1. PICK e \in Heards : Matched(e)
    BY <1>3 DEF StreamFollows
  <2>2. /\ Leads(Readings, heard, tokens, e)
        /\ e.depth = Len(indents) /\ e.brackets = opened /\ ~e.over /\ e.line # "closing"
    BY <2>1, <1>2, <1>6 DEF Matched
  <2>3. Legal(e, ahead)
    BY <2>2, <1>2 DEF Legal, Texts
  <2>3a. PICK c : c = HeardAfter(e, ahead)
    OBVIOUS
  <2>4. Leads(Readings, heard, tokens', c)
    BY <1>1, <1>3, <2>2, <2>3, <2>3a, Extended
  <2>5. /\ c \in Heards /\ c.depth = e.depth /\ c.brackets = opened'
        /\ ~c.over /\ c.line = "open"
    <3>1. ahead.type = (CHOOSE x \in types : TRUE) /\ ahead.type \in {"NAME", "OPEN", "CLOSE"}
      BY <1>2
    <3>2. (ahead.type = "OPEN" <=> types = {"OPEN"}) /\ (ahead.type = "CLOSE" <=> types = {"CLOSE"})
      BY <1>2
    <3>3. opened + (-1) = opened - 1 /\ opened + 0 = opened
      BY <1>3
    <3>4. c.brackets = opened'
      BY <3>1, <3>2, <3>3, <1>1, <1>3, <2>2, <2>3a, HeardFields
    <3>5. QED
      BY <3>1, <3>4, <1>2, <1>3, <2>2, <2>3a, HeardFields DEF Texts
  <2>6. Matched(c)'
    <3>1. c.over \in BOOLEAN /\ heard.over \in BOOLEAN
      BY <1>3, <2>5 DEF Heards
    <3>2. c.over = heard'.over
      BY <1>2, <2>5, <3>1
    <3>3. QED
      BY <1>1, <1>6, <1>2, <2>2, <2>4, <2>5, <3>2 DEF Matched
  <2>7. QED
    BY <2>5, <2>6 DEF StreamFollows
<1>12. QED
  BY <1>7, <1>8, <1>9, <1>6, <1>10, <1>11 DEF IInv

(* A match that is skipped.                                                 *)
LEMMA SkippedStep ==
    ASSUME IInv, NEW types, Matches(types), types \cap (Texts \union {"EOF"}) = {},
           pc' = "lexing", UNCHANGED <<tokens, indents, opened>>
    PROVE  IInv'
<1>1. /\ ahead.type # "EOF" /\ ahead' \in Token /\ read' \in Nat /\ heard' = heard /\ ~heard.over
      /\ tokens \in Seq(NotEof)
  BY RuleMatched
<1>2. TypeOK /\ Increasing /\ Excess /\ StreamFollows /\ Len(tokens) \in Nat
  BY TypeParts DEF IInv
<1>3. TypeOK' /\ Increasing' /\ Excess'
  BY <1>1, <1>2 DEF TypeOK, Increasing, Excess
<1>4. EofsBehind' /\ OverOK'
  <2>1. \A i \in 1..Len(tokens) : tokens[i].type # "EOF"
    BY <1>1, ElementOfSeq DEF NotEof
  <2>2. QED
    BY <1>1, <2>1 DEF EofsBehind, OverOK
<1>5. TextsInOrder'
  BY NoTextsAdded
<1>6. StreamFollows'
  <2>1. PICK e \in Heards : Matched(e)
    BY <1>2 DEF StreamFollows
  <2>2. Matched(e)'
    BY <2>1, <1>1 DEF Matched
  <2>3. QED
    BY <2>2 DEF StreamFollows
<1>7. QED
  BY <1>3, <1>4, <1>5, <1>6 DEF IInv

LEMMA PlainTokens ==
    /\ Plain \subseteq NotEof /\ Plain \subseteq Token /\ NotEof \subseteq Token
    /\ \A ts \in Seq(Plain) :
         /\ ts \in Seq(NotEof) /\ ts \in Seq(Token)
         /\ OnlyIn(ts, TextTokens) = <<>>
<1>1. /\ Plain \subseteq NotEof /\ Plain \subseteq Token /\ NotEof \subseteq Token
      /\ Plain \cap TextTokens = {}
  BY DEF Plain, NotEof, TextTokens
<1>2. QED
  BY <1>1, SeqMonotonic, OnlyInNone

(* Plain tokens behind the others do not change the order of the texts.     *)
LEMMA PlainAdded ==
    ASSUME NEW s \in Seq(Token), NEW ts \in Seq(Plain)
    PROVE  OnlyIn(s \o ts, TextTokens) = OnlyIn(s, TextTokens)
<1>1. ts \in Seq(Token) /\ OnlyIn(ts, TextTokens) = <<>>
  BY PlainTokens
<1>2. OnlyIn(s \o ts, TextTokens) = OnlyIn(s, TextTokens) \o <<>>
  <2>1. \A t \in Seq(Token) :
          OnlyIn(s \o t, TextTokens) = OnlyIn(s, TextTokens) \o OnlyIn(t, TextTokens)
    BY OnlyInConcat
  <2>2. QED
    BY <1>1, <2>1
<1>3. OnlyIn(s, TextTokens) \in Seq(Token \cap TextTokens)
  BY OnlyInType
<1>4. QED
  BY <1>2, <1>3, ConcatEmptySeq

(* The end of a line: NEWLINE, and what is emitted behind it.               *)
LEMMA LineEndStep ==
    ASSUME IInv, NEW types, Matches(types), types \cap (Texts \union {"EOF"}) = {},
           NEW ts \in Seq(Plain), ts # <<>>, tokens' = tokens \o ts,
           pc' \in {"lexing", "take"}, opened' = opened,
           indents' \in Seq(Nat), Increasing', Excess',
           NEW c \in Heards, Leads(Readings, heard, tokens', c),
           c.depth = Len(indents'), c.brackets = opened, c.over = heard.over,
           c.line # "closing", c.line = "indented" => indents' # <<>>
    PROVE  IInv'
<1>1. /\ ahead.type # "EOF" /\ ahead' \in Token /\ read' \in Nat /\ heard' = heard /\ ~heard.over
      /\ tokens \in Seq(NotEof)
  BY RuleMatched
<1>2. TypeOK /\ tokens \in Seq(Token) /\ Len(tokens) \in Nat
  BY TypeParts DEF IInv
<1>3. ts \in Seq(NotEof) /\ ts \in Seq(Token) /\ Len(ts) \in Nat \ {0}
  BY PlainTokens, EmptySeq
<1>4. /\ tokens' \in Seq(Token) /\ Len(tokens') = Len(tokens) + Len(ts)
      /\ WithoutEof(tokens') = tokens' /\ EofsBehind' /\ OverOK'
  BY <1>3, Grown
<1>5. tokens' # <<>>
  <2>1. Len(tokens') # 0
    BY <1>2, <1>3, <1>4
  <2>2. QED
    BY <2>1, EmptySeq
<1>6. TypeOK'
  BY <1>1, <1>2, <1>4 DEF TypeOK
<1>7. OnlyIn(tokens', TextTokens) = OnlyIn(tokens, TextTokens)
  BY <1>2, PlainAdded
<1>8. TextsInOrder'
  BY <1>7, NoTextsAdded
<1>9. Matched(c)'
  BY <1>1, <1>4 DEF Matched
<1>10. StreamFollows'
  BY <1>9 DEF StreamFollows
<1>11. QED
  BY <1>4, <1>5, <1>6, <1>8, <1>10 DEF IInv

(* NEWLINE ends a line outside brackets.                                    *)
LEMMA NewlineEmitted ==
    ASSUME IInv, NEW types, Matches(types), types \cap (Texts \union {"EOF"}) = {},
           ~(opened > 0)
    PROVE  \E c \in Heards :
             /\ Leads(Readings, heard, Append(tokens, NEWLINE), c)
             /\ c.depth = Len(indents) /\ c.brackets = opened /\ c.line = "ended"
             /\ c.over = heard.over /\ ~c.over
<1>1. ahead.type # "EOF" /\ ~heard.over /\ tokens \in Seq(NotEof)
  BY RuleMatched
<1>2. tokens \in Seq(Token) /\ opened \in Int /\ WithoutEof(tokens) = tokens
  BY <1>1, TypeParts, EofApart DEF IInv
<1>3. PICK e \in Heards : Matched(e)
  BY DEF IInv, StreamFollows
<1>4. /\ Leads(Readings, heard, tokens, e)
      /\ e.depth = Len(indents) /\ e.brackets = opened /\ ~e.over /\ e.over = heard.over
  BY <1>1, <1>2, <1>3 DEF Matched
<1>5. NEWLINE \in Token /\ NEWLINE.type = "NEWLINE"
  BY MadeTokens DEF Plain
<1>6. Legal(e, NEWLINE)
  BY <1>4, <1>5 DEF Legal, Texts
<1>7. PICK c : c = HeardAfter(e, NEWLINE)
  OBVIOUS
<1>8. Leads(Readings, heard, Append(tokens, NEWLINE), c)
  BY <1>2, <1>4, <1>5, <1>6, <1>7, Extended
<1>9. /\ c \in Heards /\ c.depth = e.depth /\ c.brackets = e.brackets /\ c.over = e.over
      /\ c.line = IF e.brackets > 0 THEN "closing" ELSE "ended"
  <2>1. /\ c \in Heards /\ c.depth = e.depth /\ c.brackets = e.brackets
        /\ c.over = (e.over \/ FALSE)
        /\ c.line = IF e.brackets > 0 THEN "closing" ELSE "ended"
    BY <1>5, <1>7, HeardFields DEF Texts
  <2>2. e.over \in BOOLEAN
    BY DEF Heards
  <2>3. QED
    BY <2>1, <2>2
<1>10. QED
  BY <1>4, <1>8, <1>9

LEMMA NewLineTypes ==
    ASSUME IInv, OnNewLine
    PROVE  /\ Matches(LineEnds \union {"SPACES"})
           /\ (LineEnds \union {"SPACES"}) \cap (Texts \union {"EOF"}) = {}
           /\ opened' = opened
BY DEF OnNewLine, LineEnds, Texts

LEMMA SameIndentStep ==
    ASSUME IInv, OnNewLine, ~(opened > 0),
           tokens' = Append(tokens, NEWLINE), pc' = "lexing", indents' = indents
    PROVE  IInv'
<1>1. /\ Matches(LineEnds \union {"SPACES"}) /\ opened' = opened
      /\ (LineEnds \union {"SPACES"}) \cap (Texts \union {"EOF"}) = {}
  BY NewLineTypes
<1>2. /\ tokens \in Seq(Token) /\ Len(tokens) \in Nat /\ indents \in Seq(Nat) /\ Increasing
  BY TypeParts DEF IInv
<1>3. /\ tokens' = tokens \o <<NEWLINE>> /\ <<NEWLINE>> \in Seq(Plain) /\ <<NEWLINE>> # <<>>
      /\ Len(tokens') = Len(tokens) + 1
  BY <1>2, MadeTokens, PlainTokens, AppendIsConcat, AppendLast, Singleton
<1>4. Increasing' /\ Excess'
  BY <1>2, <1>3 DEF Increasing, Excess
<1>5. PICK c \in Heards :
             /\ Leads(Readings, heard, tokens', c)
             /\ c.depth = Len(indents) /\ c.brackets = opened /\ c.line = "ended"
             /\ c.over = heard.over /\ ~c.over
  BY <1>1, NewlineEmitted
<1>6. QED
  BY <1>1, <1>2, <1>3, <1>4, <1>5, LineEndStep

LEMMA IndentStep ==
    ASSUME IInv, OnNewLine, ~(opened > 0), ahead.width > Previous,
           tokens' = tokens \o <<NEWLINE, INDENT>>, pc' = "take",
           indents' = Append(indents, ahead.width)
    PROVE  IInv'
<1>1. /\ Matches(LineEnds \union {"SPACES"}) /\ opened' = opened
      /\ (LineEnds \union {"SPACES"}) \cap (Texts \union {"EOF"}) = {}
  BY NewLineTypes
<1>2. /\ tokens \in Seq(Token) /\ Len(tokens) \in Nat /\ indents \in Seq(Nat) /\ Increasing
      /\ Len(indents) \in Nat /\ ahead.width \in Nat
  BY TypeParts DEF IInv
<1>3. /\ NEWLINE \in Plain /\ INDENT \in Plain /\ INDENT.type = "INDENT"
      /\ NEWLINE \in Token /\ INDENT \in Token
  BY MadeTokens, PlainTokens
<1>4. /\ <<NEWLINE, INDENT>> \in Seq(Plain) /\ <<NEWLINE, INDENT>> # <<>>
      /\ Len(<<NEWLINE, INDENT>>) = 2
  BY <1>3
<1>5. tokens' = Append(Append(tokens, NEWLINE), INDENT)
  <2>1. <<NEWLINE, INDENT>> = Append(<<NEWLINE>>, INDENT) /\ <<NEWLINE>> \in Seq(Token)
    BY <1>3, Singleton
  <2>2. tokens \o Append(<<NEWLINE>>, INDENT) = Append(tokens \o <<NEWLINE>>, INDENT)
    BY <1>2, <1>3, <2>1, AppendConcat
  <2>3. tokens \o <<NEWLINE>> = Append(tokens, NEWLINE)
    BY <1>2, <1>3, AppendIsConcat
  <2>4. QED
    BY <2>1, <2>2, <2>3
<1>6. Append(tokens, NEWLINE) \in Seq(Token) /\ Len(tokens') = Len(tokens) + 2
  <2>1. Append(tokens, NEWLINE) \in Seq(Token) /\ Len(Append(tokens, NEWLINE)) = Len(tokens) + 1
    BY <1>2, <1>3, AppendLast
  <2>2. PICK s \in Seq(Token) : s = Append(tokens, NEWLINE)
    BY <2>1
  <2>3. Len(Append(s, INDENT)) = Len(s) + 1
    BY <1>3, AppendLast
  <2>4. QED
    BY <1>2, <1>5, <2>1, <2>2, <2>3
<1>7. /\ indents' \in Seq(Nat) /\ indents' # <<>> /\ Len(indents') = Len(indents) + 1
      /\ \A i \in 1..Len(indents) : indents'[i] = indents[i]
      /\ indents'[Len(indents) + 1] = ahead.width
  <2>0. PICK S : S = Nat
    OBVIOUS
  <2>1. \A s \in Seq(S), x \in S :
          /\ Append(s, x) \in Seq(S) /\ Append(s, x) # <<>> /\ Len(Append(s, x)) = Len(s) + 1
          /\ \A i \in 1..Len(s) : Append(s, x)[i] = s[i]
          /\ Append(s, x)[Len(s) + 1] = x
    BY AppendLast
  <2>2. QED
    BY <1>2, <2>0, <2>1
<1>8. \A i \in 1..Len(indents) : indents[i] < ahead.width
  <2> SUFFICES ASSUME NEW i \in 1..Len(indents) PROVE indents[i] < ahead.width
    OBVIOUS
  <2>1. indents # <<>>
    BY <1>2, EmptySeq
  <2>2. Previous = indents[Len(indents)]
    BY <1>2, <2>1, FrontLast DEF Previous
  <2>3. i < Len(indents) => indents[i] < indents[Len(indents)]
    BY <1>2 DEF Increasing
  <2>4. indents[i] \in Nat /\ indents[Len(indents)] \in Nat
    BY <1>2, ElementOfSeq
  <2>5. QED
    BY <1>2, <2>2, <2>3, <2>4
<1>9. ahead.width > 0
  <2>1. CASE indents = <<>>
    BY <2>1 DEF Previous
  <2>2. CASE indents # <<>>
    <3>1. 1 \in 1..Len(indents) /\ indents[1] > 0 /\ indents[1] \in Nat
      BY <2>2, <1>2, EmptySeq, ElementOfSeq DEF Increasing
    <3>2. QED
      BY <3>1, <1>2, <1>8
  <2>3. QED
    BY <2>1, <2>2
<1>10. Increasing'
  <2>1. \A i \in 1..(Len(indents) + 1) : i \in 1..Len(indents) \/ i = Len(indents) + 1
    BY <1>2
  <2>2. \A i \in 1..Len(indents') : indents'[i] > 0
    BY <1>2, <1>7, <1>9, <2>1 DEF Increasing
  <2>3. ASSUME NEW i \in 1..Len(indents'), NEW j \in 1..Len(indents'), i < j
        PROVE  indents'[i] < indents'[j]
    <3>1. i \in 1..Len(indents)
      BY <2>3, <1>2, <1>7
    <3>2. CASE j \in 1..Len(indents)
      BY <2>3, <3>1, <3>2, <1>2, <1>7 DEF Increasing
    <3>3. CASE j = Len(indents) + 1
      BY <3>1, <3>3, <1>7, <1>8
    <3>4. QED
      BY <2>1, <1>7, <3>2, <3>3
  <2>4. QED
    BY <2>2, <2>3 DEF Increasing
<1>11. Excess'
  BY <1>2, <1>6 DEF Excess
<1>12. PICK c \in Heards :
             /\ Leads(Readings, heard, Append(tokens, NEWLINE), c)
             /\ c.depth = Len(indents) /\ c.brackets = opened /\ c.line = "ended"
             /\ c.over = heard.over /\ ~c.over
  BY <1>1, NewlineEmitted
<1>13. PICK d : d = HeardAfter(c, INDENT)
  OBVIOUS
<1>14. Legal(c, INDENT)
  BY <1>3, <1>12 DEF Legal, Texts
<1>15. Leads(Readings, heard, tokens', d)
  BY <1>3, <1>5, <1>6, <1>12, <1>13, <1>14, Extended
<1>16. /\ d \in Heards /\ d.depth = Len(indents') /\ d.brackets = opened
       /\ d.line = "indented" /\ d.over = heard.over
  <2>1. /\ d \in Heards /\ d.depth = c.depth + 1 /\ d.brackets = c.brackets
        /\ d.over = (c.over \/ FALSE) /\ d.line = "indented"
    BY <1>3, <1>13, HeardFields DEF Texts
  <2>2. c.over \in BOOLEAN
    BY DEF Heards
  <2>3. QED
    BY <1>7, <1>12, <2>1, <2>2
<1>17. QED
  BY <1>1, <1>4, <1>7, <1>10, <1>11, <1>15, <1>16, LineEndStep

LEMMA Regrouped ==
    ASSUME NEW r \in Seq(Token), NEW s \in Seq(Token), NEW t \in Seq(Token)
    PROVE  (r \o s) \o t = r \o (s \o t)
BY ConcatAssociative

LEMMA DedentStep ==
    ASSUME IInv, OnNewLine, ~(opened > 0), NEW n \in 0..Len(indents), n < Len(indents),
           indents' = SubSeq(indents, 1, n),
           tokens' = tokens \o <<NEWLINE>> \o Dedents(Len(indents) - n), pc' = "take"
    PROVE  IInv'
<1>0. PICK m : m = Len(indents) - n
  OBVIOUS
<1>1. /\ Matches(LineEnds \union {"SPACES"}) /\ opened' = opened
      /\ (LineEnds \union {"SPACES"}) \cap (Texts \union {"EOF"}) = {}
  BY NewLineTypes
<1>2. /\ tokens \in Seq(Token) /\ Len(tokens) \in Nat /\ indents \in Seq(Nat) /\ Increasing
      /\ Len(indents) \in Nat /\ Excess
  BY TypeParts DEF IInv
<1>3. m \in Nat /\ m > 0 /\ m <= Len(indents) /\ Len(indents) - m = n
  BY <1>0, <1>2
<1>4. PICK d \in Seq(Plain), l \in Seq(Plain) :
        /\ d = Dedents(m) /\ Len(d) = m /\ d \in Seq(Token)
        /\ l = <<NEWLINE>> /\ Len(l) = 1 /\ l \in Seq(Token)
  BY <1>3, DedentsOne, MadeTokens, PlainTokens, Singleton
<1>5. NEWLINE \in Token
  BY MadeTokens, PlainTokens
<1>6. PICK ts : ts = l \o d
  OBVIOUS
<1>7. ts \in Seq(Plain) /\ Len(ts) = 1 + m /\ ts # <<>> /\ ts \in Seq(Token)
  <2>1. ts \in Seq(Plain) /\ Len(ts) = 1 + m /\ ts \in Seq(Token)
    BY <1>4, <1>6, ConcatProperties
  <2>2. Len(ts) # 0
    BY <1>3, <2>1
  <2>3. QED
    BY <2>1, <2>2, EmptySeq
<1>8. /\ tokens' = tokens \o ts
      /\ Append(tokens, NEWLINE) = tokens \o <<NEWLINE>> /\ Append(tokens, NEWLINE) \in Seq(Token)
      /\ tokens' = Append(tokens, NEWLINE) \o Dedents(m)
      /\ Len(tokens') = Len(tokens) + (1 + m)
  <2>1. tokens' = (tokens \o l) \o d
    BY <1>0, <1>4
  <2>2. (tokens \o l) \o d = tokens \o (l \o d)
    BY <1>2, <1>4, Regrouped
  <2>3. Append(tokens, NEWLINE) = tokens \o l /\ Append(tokens, NEWLINE) \in Seq(Token)
    BY <1>2, <1>4, <1>5, AppendIsConcat, AppendLast
  <2>4. Len(tokens \o ts) = Len(tokens) + Len(ts)
    BY <1>2, <1>7, ConcatProperties
  <2>5. QED
    BY <1>4, <1>6, <1>7, <2>1, <2>2, <2>3, <2>4
<1>9. /\ indents' \in Seq(Nat) /\ Len(indents') = n
      /\ \A i \in 1..n : indents'[i] = indents[i]
  <2>1. \A i \in 1..n : indents[i] \in Nat
    BY <1>2, ElementOfSeq
  <2>2. /\ indents' \in Seq(Nat) /\ Len(indents') = (IF 1 <= n THEN n - 1 + 1 ELSE 0)
        /\ \A i \in 1..(n - 1 + 1) : indents'[i] = indents[1 + i - 1]
    <3>1. n \in Int /\ 1 \in Int
      BY <1>2
    <3>2. PICK S : S = Nat
      OBVIOUS
    <3>3. \A i \in 1..n : indents[i] \in S
      BY <2>1, <3>2
    <3>4. /\ SubSeq(indents, 1, n) \in Seq(S)
          /\ Len(SubSeq(indents, 1, n)) = (IF 1 <= n THEN n - 1 + 1 ELSE 0)
          /\ \A i \in 1..(n - 1 + 1) : SubSeq(indents, 1, n)[i] = indents[1 + i - 1]
      BY <3>1, <3>3, SubSeqProperties
    <3>5. QED
      BY <3>2, <3>4
  <2>3. n - 1 + 1 = n /\ (IF 1 <= n THEN n - 1 + 1 ELSE 0) = n /\ \A i \in 1..n : 1 + i - 1 = i
    BY <1>2
  <2>4. QED
    BY <2>2, <2>3
<1>10. Increasing'
  <2>1. \A i \in 1..n : i \in 1..Len(indents)
    BY <1>2
  <2>2. QED
    BY <1>2, <1>9, <2>1 DEF Increasing
<1>11. Excess'
  <2>1. indents # <<>>
    BY <1>2, EmptySeq
  <2>2. Len(tokens') = Len(tokens) + (1 + m)
    BY <1>8
  <2>3. QED
    BY <1>2, <1>3, <2>2 DEF Excess
<1>12. PICK c \in Heards :
             /\ Leads(Readings, heard, Append(tokens, NEWLINE), c)
             /\ c.depth = Len(indents) /\ c.brackets = opened /\ c.line = "ended"
             /\ c.over = heard.over /\ ~c.over
  BY <1>1, NewlineEmitted
<1>13. PICK e \in Heards :
          /\ Leads(Readings, heard, tokens', e)
          /\ e.depth = c.depth - m /\ e.brackets = c.brackets
          /\ e.line = c.line /\ e.over = c.over
  <2>1. PICK s \in Seq(Token) : s = Append(tokens, NEWLINE)
    BY <1>8
  <2>2. Leads(Readings, heard, s, c) /\ c.line \in {"ended", "closing"} /\ ~c.over
    BY <1>12, <2>1
  <2>3. \A k \in Nat : k <= c.depth =>
             \E f \in Heards :
               /\ Leads(Readings, heard, s \o Dedents(k), f)
               /\ f.depth = c.depth - k /\ f.brackets = c.brackets
               /\ f.line = c.line /\ f.over = c.over
    BY <2>2, DedentsLead
  <2>4. QED
    BY <1>3, <1>8, <1>12, <2>1, <2>3
<1>14. e.depth = Len(indents')
  BY <1>3, <1>9, <1>12, <1>13
<1>15. QED
  BY <1>1, <1>7, <1>8, <1>9, <1>10, <1>11, <1>12, <1>13, <1>14, LineEndStep

LEMMA OnNewLineStep ==
    ASSUME IInv, OnNewLine
    PROVE  IInv'
<1>1. /\ Matches(LineEnds \union {"SPACES"}) /\ opened' = opened
      /\ (LineEnds \union {"SPACES"}) \cap (Texts \union {"EOF"}) = {}
  BY NewLineTypes
<1>2. indents \in Seq(Nat) /\ ahead.width \in Nat /\ opened \in Int
  BY TypeParts DEF IInv
<1>3. ~Ignored(ahead') => ~(opened > 0)
  BY DEF Ignored
<1>4. CASE Ignored(ahead') /\ pc' = "lexing" /\ UNCHANGED <<tokens, indents>>
  BY <1>1, <1>4, SkippedStep
<1>5. CASE /\ ~Ignored(ahead') /\ ahead.width = Previous
           /\ tokens' = Append(tokens, NEWLINE) /\ pc' = "lexing" /\ UNCHANGED indents
  BY <1>3, <1>5, SameIndentStep
<1>6. CASE /\ ~Ignored(ahead') /\ ahead.width > Previous
           /\ tokens' = tokens \o <<NEWLINE, INDENT>>
           /\ indents' = Append(indents, ahead.width) /\ pc' = "take"
  BY <1>3, <1>6, IndentStep
<1>7. CASE /\ ~Ignored(ahead') /\ ahead.width < Previous /\ pc' = "take"
           /\ \E n \in 0..Len(indents) :
                 /\ Kept(ahead.width, n)
                 /\ indents' = SubSeq(indents, 1, n)
                 /\ tokens' = tokens \o <<NEWLINE>> \o Dedents(Len(indents) - n)
  <2>1. PICK n \in 0..Len(indents) :
                 /\ Kept(ahead.width, n)
                 /\ indents' = SubSeq(indents, 1, n)
                 /\ tokens' = tokens \o <<NEWLINE>> \o Dedents(Len(indents) - n)
    BY <1>7
  <2>2. n < Len(indents)
    <3>1. indents # <<>>
      BY <1>2, <1>7 DEF Previous
    <3>2. Len(indents) \in Nat \ {0} /\ Previous = indents[Len(indents)]
          /\ indents[Len(indents)] \in Nat
      <4>1. PICK S : S = Nat
        OBVIOUS
      <4>2. \A s \in Seq(S) : s # <<>> =>
              Len(s) \in Nat \ {0} /\ Last(s) = s[Len(s)] /\ Last(s) \in S
        BY FrontLast
      <4>3. QED
        BY <1>2, <3>1, <4>1, <4>2 DEF Previous
    <3>3. n = Len(indents) => Previous <= ahead.width
      BY <2>1, <3>2 DEF Kept
    <3>4. QED
      BY <1>2, <1>7, <3>2, <3>3
  <2>3. QED
    BY <1>3, <1>7, <2>1, <2>2, DedentStep
<1>8. QED
  BY <1>4, <1>5, <1>6, <1>7 DEF OnNewLine

LEMMA SkipMatchStep ==
    ASSUME IInv, SkipMatch
    PROVE  IInv'
<1>1. Matches({"SPACES", "COMMENT", "JOIN"})
      /\ {"SPACES", "COMMENT", "JOIN"} \cap (Texts \union {"EOF"}) = {}
      /\ pc' = "lexing" /\ UNCHANGED <<tokens, indents, opened>>
  BY DEF SkipMatch, Texts
<1>2. QED
  BY <1>1, SkippedStep

LEMMA LexEofStep ==
    ASSUME IInv, LexEof
    PROVE  IInv' /\ heard' = heard
<1>1. /\ TypeOK /\ Increasing /\ Excess /\ EofsBehind /\ OverOK /\ TextsInOrder /\ StreamFollows
      /\ ahead \in Token /\ tokens \in Seq(Token) /\ Len(tokens) \in Nat /\ indents \in Seq(Nat)
  BY TypeParts DEF IInv
<1>2. /\ ahead.type = "EOF" /\ tokens' = Append(tokens, ahead) /\ pc' = "take"
      /\ UNCHANGED <<read, ahead, opened, indents, heard>>
      /\ pc \in {"idle", "lexing"} /\ (pc = "idle" => indents = <<>>) /\ ~heard.over
  BY <1>1 DEF LexEof, ClosingDue, OverOK
<1>3. /\ tokens' \in Seq(Token) /\ tokens' # <<>> /\ Len(tokens') = Len(tokens) + 1
      /\ \A i \in 1..Len(tokens) : tokens'[i] = tokens[i]
      /\ tokens'[Len(tokens) + 1] = ahead
  BY <1>1, <1>2, AppendLast
<1>4. TypeOK' /\ Increasing' /\ Excess' /\ OverOK'
  BY <1>1, <1>2, <1>3 DEF TypeOK, Increasing, Excess, OverOK
<1>5. EofsBehind'
  <2> SUFFICES ASSUME NEW i \in 1..(Len(tokens) + 1), tokens'[i].type = "EOF"
               PROVE  /\ \A j \in i..(Len(tokens) + 1) : tokens'[j].type = "EOF"
                      /\ indents # <<>> => i = Len(tokens) + 1
    BY <1>2, <1>3 DEF EofsBehind
  <2>1. ASSUME NEW j \in i..(Len(tokens) + 1) PROVE tokens'[j].type = "EOF"
    <3>1. CASE j = Len(tokens) + 1
      BY <3>1, <1>2, <1>3
    <3>2. CASE j # Len(tokens) + 1
      <4>1. j \in i..Len(tokens) /\ i \in 1..Len(tokens) /\ j \in 1..Len(tokens)
        BY <3>2, <1>1
      <4>2. tokens[i].type = "EOF"
        BY <4>1, <1>3
      <4>3. tokens[j].type = "EOF"
        BY <4>1, <4>2, <1>1 DEF EofsBehind
      <4>4. QED
        BY <4>1, <4>3, <1>3
    <3>3. QED
      BY <3>1, <3>2
  <2>2. ASSUME indents # <<>>, i # Len(tokens) + 1 PROVE FALSE
    <3>1. pc = "lexing" /\ i \in 1..Len(tokens)
      BY <2>2, <1>1, <1>2
    <3>2. QED
      BY <2>2, <3>1, <1>1, <1>3 DEF EofsBehind
  <2>3. QED
    BY <2>1, <2>2
<1>6. TextsInOrder'
  <2>1. ahead \notin TextTokens
    BY <1>2 DEF TextTokens, Texts
  <2>2. OnlyIn(tokens', TextTokens) = OnlyIn(tokens, TextTokens)
    BY <1>1, <1>2, <2>1, OnlyInAppend
  <2>3. QED
    BY <1>1, <1>2, <2>2 DEF TextsInOrder
<1>7. StreamFollows'
  <2>1. WithoutEof(tokens') = WithoutEof(tokens)
    BY <1>1, <1>2, EofApart
  <2>2. PICK e \in Heards : Matched(e)
    BY <1>1 DEF StreamFollows
  <2>3. Matched(e)'
    BY <1>2, <2>1, <2>2 DEF Matched
  <2>4. QED
    BY <2>3 DEF StreamFollows
<1>8. QED
  BY <1>2, <1>3, <1>4, <1>5, <1>6, <1>7 DEF IInv

LEMMA CloseAtEofStep ==
    ASSUME IInv, CloseAtEof
    PROVE  IInv' /\ heard' = heard
<1> DEFINE w == WithoutEof(tokens)
           n == Len(indents)
<1>1. /\ TypeOK /\ TextsInOrder /\ StreamFollows
      /\ ahead \in Token /\ tokens \in Seq(Token) /\ n \in Nat /\ heard \in Heards
  BY TypeParts DEF IInv
<1>2. /\ pc = "idle" /\ ahead.type = "EOF" /\ ~heard.over
      /\ tokens' = w \o <<NEWLINE>> \o Dedents(n) \o <<ahead>>
      /\ indents' = <<>> /\ pc' = "lexing"
      /\ UNCHANGED <<read, ahead, opened, heard>>
  BY DEF CloseAtEof, ClosingDue
<1>3. w \in Seq(NotEof) /\ w \in Seq(Token)
  BY <1>1, EofApart
<1>4. /\ Dedents(n) \in Seq(Plain) /\ <<NEWLINE>> \in Seq(Plain) /\ NEWLINE \in Token
      /\ NEWLINE.type = "NEWLINE"
      /\ Dedents(n) \in Seq(NotEof) /\ <<NEWLINE>> \in Seq(NotEof)
      /\ Dedents(n) \in Seq(Token) /\ <<NEWLINE>> \in Seq(Token)
  BY <1>1, DedentsOne, MadeTokens, PlainTokens, Singleton
<1>5. PICK a : a = w \o <<NEWLINE>> \o Dedents(n)
  OBVIOUS
<1>6. a \in Seq(NotEof) /\ a \in Seq(Token)
  <2>1. w \o <<NEWLINE>> \in Seq(NotEof)
    BY <1>3, <1>4, ConcatProperties
  <2>2. a \in Seq(NotEof)
    BY <1>4, <1>5, <2>1, ConcatProperties
  <2>3. QED
    BY <2>2, PlainTokens, SeqMonotonic
<1>7. tokens' = Append(a, ahead)
  BY <1>1, <1>2, <1>5, <1>6, AppendIsConcat
<1>8. /\ tokens' \in Seq(Token) /\ Len(tokens') = Len(a) + 1 /\ tokens' # <<>>
      /\ \A i \in 1..Len(a) : tokens'[i] = a[i]
      /\ tokens'[Len(a) + 1] = ahead
      /\ Len(a) \in Nat
  BY <1>1, <1>6, <1>7, AppendLast, LenProperties
<1>9. TypeOK' /\ Increasing' /\ Excess'
  <2>1. <<>> \in Seq(Nat) /\ Len(<<>>) = 0
    BY EmptySeq
  <2>2. QED
    BY <1>1, <1>2, <1>8, <2>1 DEF TypeOK, Increasing, Excess
<1>10. EofsBehind' /\ OverOK'
  <2>1. \A i \in 1..Len(tokens') : tokens'[i].type = "EOF" => i = Len(tokens')
    <3> SUFFICES ASSUME NEW i \in 1..(Len(a) + 1), i # Len(a) + 1 PROVE tokens'[i].type # "EOF"
      BY <1>8
    <3>1. i \in 1..Len(a)
      BY <1>8
    <3>2. a[i] \in NotEof
      BY <1>6, <3>1, ElementOfSeq
    <3>3. QED
      BY <1>8, <3>1, <3>2 DEF NotEof
  <2>2. \A i \in 1..Len(tokens') : i = Len(tokens') => \A j \in i..Len(tokens') : j = i
    BY <1>8
  <2>3. QED
    BY <1>2, <2>1, <2>2 DEF EofsBehind, OverOK
<1>11. TextsInOrder'
  <2>1. ahead \notin TextTokens
    BY <1>2 DEF TextTokens, Texts
  <2>2. OnlyIn(tokens', TextTokens) = OnlyIn(a, TextTokens)
    BY <1>1, <1>6, <1>7, <2>1, OnlyInAppend
  <2>3. PICK v \in Seq(Token) : v = w \o <<NEWLINE>>
    BY <1>3, <1>4, ConcatProperties
  <2>4. OnlyIn(a, TextTokens) = OnlyIn(v, TextTokens)
    BY <1>4, <1>5, <2>3, PlainAdded
  <2>5. OnlyIn(v, TextTokens) = OnlyIn(w, TextTokens)
    BY <1>3, <1>4, <2>3, PlainAdded
  <2>6. OnlyIn(w, TextTokens) = OnlyIn(tokens, TextTokens)
    <3>1. TextTokens \subseteq NotEof
      BY DEF TextTokens, NotEof, Texts
    <3>2. QED
      BY <1>1, <3>1, OnlyInOnlyIn DEF WithoutEof
  <2>7. QED
    BY <1>1, <1>2, <2>2, <2>4, <2>5, <2>6 DEF TextsInOrder
<1>12. StreamFollows'
  <2>1. WithoutEof(tokens') = a
    <3>1. WithoutEof(Append(a, ahead)) = WithoutEof(a) /\ WithoutEof(a) = a
      BY <1>1, <1>2, <1>6, EofApart
    <3>2. QED
      BY <1>7, <3>1
  <2>2. PICK e \in Heards : Matched(e)
    BY <1>1 DEF StreamFollows
  <2>3. /\ Leads(Readings, heard, w, e)
        /\ e.depth = n /\ e.brackets = opened /\ ~e.over /\ e.over = heard.over
    BY <1>2, <2>2 DEF Matched
  <2>4. Legal(e, NEWLINE)
    BY <1>4, <2>3 DEF Legal, Texts
  <2>5. PICK c : c = HeardAfter(e, NEWLINE)
    OBVIOUS
  <2>6. PICK v \in Seq(Token) : v = w \o <<NEWLINE>> /\ v = Append(w, NEWLINE)
    BY <1>3, <1>4, ConcatProperties, AppendIsConcat
  <2>7. Leads(Readings, heard, v, c)
    BY <1>3, <1>4, <2>3, <2>4, <2>5, <2>6, Extended
  <2>8. /\ c \in Heards /\ c.depth = n /\ c.brackets = opened
        /\ c.line \in {"ended", "closing"} /\ c.over = heard.over /\ ~c.over
    <3>1. /\ c \in Heards /\ c.depth = e.depth /\ c.brackets = e.brackets
          /\ c.over = (e.over \/ FALSE)
          /\ c.line = IF e.brackets > 0 THEN "closing" ELSE "ended"
      <4>1. PICK x \in Token : x = NEWLINE /\ x.type = "NEWLINE"
        BY <1>4
      <4>2. QED
        BY <2>5, <4>1, HeardFields DEF Texts
    <3>2. e.over \in BOOLEAN
      BY DEF Heards
    <3>3. QED
      BY <2>3, <3>1, <3>2
  <2>9. \A k \in Nat : k <= c.depth =>
             \E d \in Heards :
               /\ Leads(Readings, heard, v \o Dedents(k), d)
               /\ d.depth = c.depth - k /\ d.brackets = c.brackets
               /\ d.line = c.line /\ d.over = c.over
    BY <2>7, <2>8, DedentsLead
  <2>10. PICK d \in Heards :
               /\ Leads(Readings, heard, a, d)
               /\ d.depth = n - n /\ d.brackets = opened
               /\ d.line \in {"ended", "closing"} /\ d.over = heard.over
    <3>1. n \in Nat /\ n <= c.depth
      BY <1>1, <2>8
    <3>2. \E d \in Heards :
               /\ Leads(Readings, heard, v \o Dedents(n), d)
               /\ d.depth = c.depth - n /\ d.brackets = c.brackets
               /\ d.line = c.line /\ d.over = c.over
      BY <2>9, <3>1
    <3>3. v \o Dedents(n) = a
      BY <1>5, <2>6
    <3>4. QED
      BY <2>8, <3>2, <3>3
  <2>11. d.depth = Len(indents')
    BY <1>1, <1>2, <2>10
  <2>12. Matched(d)'
    BY <1>2, <2>1, <2>10, <2>11 DEF Matched
  <2>13. QED
    BY <2>12 DEF StreamFollows
<1>13. QED
  BY <1>2, <1>8, <1>9, <1>10, <1>11, <1>12 DEF IInv

(* nextToken returns the first token of the list, and the stream takes a    *)
(* step.                                                                    *)
LEMMA Heard ==
    ASSUME NEW h \in Heards, NEW t \in Token, heard = h, Legal(h, t), heard' = HeardAfter(h, t)
    PROVE  Lines!Emit
<1>1. /\ HeardAfter(h, t).over = (h.over \/ t.type = "EOF")
      /\ HeardAfter(h, t).depth = IF t.type = "INDENT" THEN h.depth + 1
                                  ELSE IF t.type = "DEDENT" THEN h.depth - 1 ELSE h.depth
      /\ HeardAfter(h, t).brackets = IF t.type = "OPEN" THEN h.brackets + 1
                                     ELSE IF t.type = "CLOSE" THEN h.brackets - 1
                                     ELSE h.brackets
      /\ HeardAfter(h, t).line = IF t.type = "NEWLINE"
                                 THEN IF h.brackets > 0 THEN "closing" ELSE "ended"
                                 ELSE IF t.type = "INDENT" THEN "indented"
                                 ELSE IF t.type \in Texts THEN "open" ELSE h.line
  BY HeardFields
<1>2. ~h.over /\ t.type \in {"NAME", "OPEN", "CLOSE", "NEWLINE", "INDENT", "DEDENT", "EOF"}
      /\ h.over = FALSE
  BY DEF Legal, Texts, Heards
<1>3. CASE t.type = "NEWLINE"
  <2>1. Lines!Break
    BY <1>1, <1>2, <1>3 DEF Lines!Break, Texts
  <2>2. QED
    BY <2>1 DEF Lines!Emit
<1>4. CASE t.type = "INDENT"
  <2>1. Lines!Indent
    BY <1>1, <1>2, <1>4 DEF Lines!Indent, Legal, Texts
  <2>2. QED
    BY <2>1 DEF Lines!Emit
<1>5. CASE t.type = "DEDENT"
  <2>1. Lines!Dedent
    BY <1>1, <1>2, <1>5 DEF Lines!Dedent, Legal, Texts
  <2>2. QED
    BY <2>1 DEF Lines!Emit
<1>6. CASE t.type \in {"NAME", "OPEN", "CLOSE"}
  <2>1. Lines!Text
    BY <1>1, <1>2, <1>6 DEF Lines!Text, Legal, Texts
  <2>2. QED
    BY <2>1 DEF Lines!Emit
<1>7. CASE t.type = "EOF"
  <2>1. Lines!Eof
    BY <1>1, <1>2, <1>7 DEF Lines!Eof, Legal, Texts
  <2>2. QED
    BY <2>1 DEF Lines!Emit
<1>8. QED
  BY <1>2, <1>3, <1>4, <1>5, <1>6, <1>7

LEMMA TakeTokenStep ==
    ASSUME IInv, TakeToken
    PROVE  IInv' /\ Lines!Emit
<1> DEFINE texts == OnlyIn(tokens, TextTokens)
           rest == OnlyIn(tokens', TextTokens)
<1>1. /\ TypeOK /\ tokens # <<>> /\ Increasing /\ Excess /\ EofsBehind /\ OverOK /\ TextsInOrder
      /\ StreamFollows
      /\ tokens \in Seq(Token) /\ indents \in Seq(Nat) /\ heard \in Heards /\ heard.got \in Nat
      /\ texts \in Seq(TextTokens) /\ Len(texts) \in Nat /\ ahead.pos \in Nat
  BY TypeParts DEF IInv, TakeToken
<1>2. /\ pc = "take" /\ pc' = "idle" /\ tokens' = Tail(tokens)
      /\ heard' = HeardAfter(heard, Head(tokens))
      /\ UNCHANGED <<read, ahead, opened, indents>>
  BY DEF TakeToken
<1>3. PICK t \in Token : t = Head(tokens) /\ t = tokens[1]
  BY <1>1, HeadTailProperties
<1>4. /\ tokens' \in Seq(Token) /\ Len(tokens') = Len(tokens) - 1
      /\ \A i \in 1..Len(tokens') : tokens'[i] = tokens[i + 1]
      /\ Len(tokens) \in Nat \ {0} /\ 1 \in 1..Len(tokens)
      /\ <<t>> \in Seq(Token)
  BY <1>1, <1>2, <1>3, HeadTailProperties, EmptySeq, Singleton
<1>5. /\ heard' \in Heards /\ heard'.got = (IF t.type \in Texts THEN t.pos ELSE heard.got)
      /\ heard'.over = (heard.over \/ t.type = "EOF") /\ ~heard.over /\ heard.over = FALSE
      /\ heard'.brackets = IF t.type = "OPEN" THEN heard.brackets + 1
                           ELSE IF t.type = "CLOSE" THEN heard.brackets - 1 ELSE heard.brackets
      /\ heard'.depth = IF t.type = "INDENT" THEN heard.depth + 1
                        ELSE IF t.type = "DEDENT" THEN heard.depth - 1 ELSE heard.depth
      /\ heard'.line = IF t.type = "NEWLINE"
                       THEN IF heard.brackets > 0 THEN "closing" ELSE "ended"
                       ELSE IF t.type = "INDENT" THEN "indented"
                       ELSE IF t.type \in Texts THEN "open" ELSE heard.line
  <2>1. ~heard.over /\ heard.over = FALSE
    BY <1>1, <1>2 DEF OverOK, Heards
  <2>2. QED
    BY <1>1, <1>2, <1>3, <2>1, HeardFields
<1>6. TypeOK' /\ Increasing' /\ Excess'
  BY <1>1, <1>2, <1>4, <1>5 DEF TypeOK, Increasing, Excess, Heards
<1>7. ASSUME t.type = "EOF"
      PROVE  /\ indents = <<>> /\ ahead.type = "EOF"
             /\ \A i \in 1..Len(tokens) : tokens[i].type = "EOF"
  <2>1. /\ ahead.type = "EOF"
        /\ \A j \in 1..Len(tokens) : tokens[j].type = "EOF"
        /\ indents # <<>> => 1 = Len(tokens)
    BY <1>1, <1>3, <1>4, <1>7 DEF EofsBehind
  <2>2. indents # <<>> => Len(tokens) >= 2
    <3>1. Excess /\ pc = "take"
      BY <1>1, <1>2
    <3>2. QED
      BY <3>1 DEF Excess
  <2>3. indents = <<>>
    BY <2>1, <2>2
  <2>4. QED
    BY <2>1, <2>3
<1>8. EofsBehind'
  <2> SUFFICES ASSUME NEW i \in 1..Len(tokens'), tokens'[i].type = "EOF"
               PROVE  /\ ahead.type = "EOF"
                      /\ \A j \in i..Len(tokens') : tokens'[j].type = "EOF"
                      /\ indents # <<>> => i = Len(tokens')
    BY <1>2 DEF EofsBehind
  <2>1. i + 1 \in 1..Len(tokens) /\ tokens[i + 1].type = "EOF"
    BY <1>4
  <2>2. /\ ahead.type = "EOF"
        /\ \A j \in (i + 1)..Len(tokens) : tokens[j].type = "EOF"
        /\ indents # <<>> => i + 1 = Len(tokens)
    BY <1>1, <2>1 DEF EofsBehind
  <2>3. ASSUME NEW j \in i..Len(tokens') PROVE tokens'[j].type = "EOF"
    <3>1. j \in 1..Len(tokens') /\ j + 1 \in (i + 1)..Len(tokens)
      BY <1>4
    <3>2. QED
      BY <1>4, <2>2, <3>1
  <2>4. QED
    BY <1>4, <2>2, <2>3
<1>9. OverOK'
  <2> SUFFICES ASSUME t.type = "EOF" PROVE OverOK'
    BY <1>5 DEF OverOK
  <2>1. \A i \in 1..Len(tokens') : i + 1 \in 1..Len(tokens)
    BY <1>4
  <2>2. QED
    BY <1>2, <1>4, <1>7, <2>1 DEF OverOK
<1>10. tokens = <<t>> \o tokens'
  BY <1>1, <1>2, <1>3, HeadTail
<1>11. TextsInOrder'
  <2>1. texts = IF t \in TextTokens THEN <<t>> \o rest ELSE rest
    BY <1>1, <1>2, <1>3, OnlyInTail
  <2>2. rest \in Seq(TextTokens) /\ Len(rest) \in Nat
    <3>1. Token \cap TextTokens = TextTokens
      BY DEF TextTokens
    <3>2. rest \in Seq(TextTokens)
      BY <1>4, <3>1, OnlyInType
    <3>3. QED
      BY <3>2, LenProperties
  <2>3. CASE t \notin TextTokens
    <3>1. t.type \notin Texts
      BY <2>3 DEF TextTokens
    <3>2. heard'.got = heard.got
      BY <1>5, <3>1
    <3>3. QED
      BY <1>1, <1>2, <2>1, <2>3, <3>2 DEF TextsInOrder
  <2>4. CASE t \in TextTokens
    <3>1. t.type \in Texts /\ <<t>> \in Seq(TextTokens) /\ Len(<<t>>) = 1 /\ <<t>>[1] = t
      BY <2>4, Singleton DEF TextTokens
    <3>2. PICK u \in Seq(TextTokens) : u = <<t>> /\ Len(u) = 1 /\ u[1] = t
      BY <3>1
    <3>3. PICK r \in Seq(TextTokens) : r = rest /\ Len(r) \in Nat
      BY <2>2
    <3>4. /\ Len(u \o r) = Len(u) + Len(r)
          /\ \A i \in 1..(Len(u) + Len(r)) : (u \o r)[i] = IF i <= Len(u) THEN u[i] ELSE r[i - Len(u)]
      BY ConcatProperties
    <3>5. texts = u \o r
      BY <2>1, <2>4, <3>2, <3>3
    <3>6. Len(texts) = Len(r) + 1 /\ texts[1] = t /\ 1 \in 1..Len(texts)
      BY <3>2, <3>3, <3>4, <3>5
    <3>7. \A i \in 1..Len(r) : r[i] = texts[i + 1] /\ i + 1 \in 1..Len(texts)
      <4> TAKE i \in 1..Len(r)
      <4>1. i + 1 \in 1..(1 + Len(r)) /\ ~(i + 1 <= 1) /\ (i + 1) - 1 = i
        BY <3>3
      <4>2. (u \o r)[i + 1] = r[i]
        BY <3>2, <3>4, <4>1
      <4>3. QED
        BY <3>5, <3>6, <4>1, <4>2
    <3>8. t.pos = heard.got + 1 /\ heard'.got = heard.got + 1
      BY <1>1, <1>5, <3>1, <3>6 DEF TextsInOrder
    <3>9. \A i \in 1..Len(r) : r[i].pos = heard.got + (i + 1)
      BY <1>1, <3>7 DEF TextsInOrder
    <3>10. ahead.pos = heard.got + (Len(r) + 1) + (IF ahead.type \in Texts THEN 1 ELSE 0)
      BY <1>1, <3>6 DEF TextsInOrder
    <3>p. PICK p \in Nat : p = heard.got /\ heard'.got = p + 1
      BY <1>1, <3>8 DEF TypeOK
    <3>n. PICK n \in Nat : n = Len(r)
      BY <3>3
    <3>11. \A i \in 1..Len(r) : r[i].pos = heard'.got + i
      <4> TAKE i \in 1..Len(r)
      <4>1. r[i].pos = p + (i + 1) /\ i \in Nat
        BY <3>9, <3>p, <3>n
      <4>2. p + (i + 1) = (p + 1) + i
        BY <4>1
      <4>3. QED
        BY <3>p, <4>1, <4>2
    <3>12. ahead.pos = heard'.got + Len(r) + (IF ahead.type \in Texts THEN 1 ELSE 0)
      <4>1. p + (n + 1) = (p + 1) + n
        OBVIOUS
      <4>2. QED
        BY <3>10, <3>p, <3>n, <4>1
    <3>13. QED
      BY <1>2, <3>3, <3>11, <3>12 DEF TextsInOrder
  <2>5. QED
    BY <2>3, <2>4
<1>12. PICK e \in Heards : Matched(e)
  BY <1>1 DEF StreamFollows
<1>13. Legal(heard, t) /\ StreamFollows'
  <2>1. CASE t.type = "EOF"
    <3>1. WithoutEof(tokens) = <<>> /\ WithoutEof(tokens') = <<>>
      <4>1. \A i \in 1..Len(tokens') : tokens'[i].type = "EOF"
        <5>1. \A i \in 1..Len(tokens') : i + 1 \in 1..Len(tokens)
          BY <1>4
        <5>2. QED
          BY <1>4, <1>7, <2>1, <5>1
      <4>2. QED
        BY <1>1, <1>4, <1>7, <2>1, <4>1, EofApart
    <3>l. Leads(Readings, heard, <<>>, e)
      BY <1>12, <3>1 DEF Matched
    <3>2. Leads(Readings, heard, <<>>, e) /\ heard = e
      <4>1. PICK h : h = heard
        OBVIOUS
      <4>2. Leads(Readings, h, <<>>, e)
        BY <3>l, <4>1
      <4>3. e = h
        BY <4>2, LeadsEmpty
      <4>4. QED
        BY <3>l, <4>1, <4>3
    <3>3. /\ heard.depth = 0 /\ heard.brackets = opened /\ heard.line # "indented"
          /\ heard.line = "closing" => ahead.type = "EOF"
      <4>1. Len(indents) = 0
        BY <1>7, <2>1
      <4>2. QED
        BY <1>7, <1>12, <2>1, <3>2, <4>1 DEF Matched
    <3>4. Legal(heard, t)
      BY <1>5, <2>1, <3>3 DEF Legal, Texts
    <3>5. PICK c : c = heard'
      OBVIOUS
    <3>6. /\ c \in Heards /\ c.depth = heard.depth /\ c.brackets = heard.brackets
          /\ c.line = heard.line
      BY <1>5, <2>1, <3>5 DEF Texts
    <3>7. Leads(Readings, heard', WithoutEof(tokens'), c)
      BY <3>1, <3>5, LeadsEmpty
    <3>8. Matched(c)'
      <4>1. Len(indents) = 0 /\ indents = <<>>
        BY <1>7, <2>1
      <4>2. QED
        BY <1>2, <1>7, <2>1, <3>3, <3>5, <3>6, <3>7, <4>1 DEF Matched
    <3>9. QED
      BY <3>4, <3>6, <3>8 DEF StreamFollows
  <2>2. CASE t.type # "EOF"
    <3>1. t \in NotEof
      BY <2>2 DEF NotEof
    <3>2. WithoutEof(tokens) = <<t>> \o WithoutEof(tokens')
      BY <1>1, <1>2, <1>3, <3>1, OnlyInTail DEF WithoutEof
    <3>3. PICK w \in Seq(Token) : w = WithoutEof(tokens')
      BY <1>4, EofApart
    <3>4. /\ <<t>> \o w \in Seq(Token) /\ <<t>> \o w # <<>>
          /\ Head(<<t>> \o w) = t /\ Tail(<<t>> \o w) = w
      BY <1>4, ConcatProperties
    <3>5. PICK v \in Seq(Token) : v = <<t>> \o w /\ v # <<>> /\ Head(v) = t /\ Tail(v) = w
      BY <3>4
    <3>6. Leads(Readings, heard, v, e)
      BY <1>12, <3>2, <3>3, <3>5 DEF Matched
    <3>7. PICK c : <<heard, t, c>> \in Readings /\ Leads(Readings, c, w, e)
      BY <3>5, <3>6, LeadsTail
    <3>8. Legal(heard, t) /\ c = heard'
      BY <1>2, <1>3, <3>7, Reading
    <3>9. heard'.over = heard.over
      BY <1>5, <2>2
    <3>10. Matched(e)'
      BY <1>2, <1>12, <3>3, <3>7, <3>8, <3>9 DEF Matched
    <3>11. QED
      BY <3>8, <3>10 DEF StreamFollows
  <2>3. QED
    BY <2>1, <2>2
<1>14. Lines!Emit
  BY <1>1, <1>2, <1>3, <1>13, Heard
<1>15. IInv'
  BY <1>2, <1>6, <1>8, <1>9, <1>11, <1>13 DEF IInv
<1>16. QED
  BY <1>14, <1>15

(* A new input.                                                             *)
LEMMA Fresh ==
    /\ NothingHeard \in Heards /\ NothingHeard.depth = 0 /\ NothingHeard.brackets = 0
    /\ NothingHeard.line = "first" /\ NothingHeard.over = FALSE /\ NothingHeard.got = 0
    /\ \A r \in Raw(MadeToken("NAME"), 0) :
          r \in Token /\ r.pos = IF r.type \in Texts THEN 1 ELSE 0
    /\ OnlyIn(<<>>, TextTokens) = <<>> /\ WithoutEof(<<>>) = <<>>
<1>1. \A r \in Raw(MadeToken("NAME"), 0) :
          r \in Token /\ r.pos = IF r.type \in Texts THEN 0 + 1 ELSE 0
  BY MadeTokens, RawFacts
<1>2. QED
  BY <1>1, OnlyInEmpty DEF NothingHeard, Heards, WithoutEof

LEMMA ResetStep ==
    ASSUME Reset
    PROVE  IInv' /\ Lines!Restart
<1>1. /\ pc' = "idle" /\ heard' = NothingHeard /\ read' = 0
      /\ ahead' \in Raw(MadeToken("NAME"), 0)
      /\ opened' = 0 /\ indents' = <<>> /\ tokens' = <<>>
  BY DEF Reset, Restarted
<1>2. <<>> \in Seq(Nat) /\ <<>> \in Seq(Token) /\ Len(<<>>) = 0
  BY EmptySeq
<1>3. TypeOK'
  BY <1>1, <1>2, Fresh DEF TypeOK, Heards
<1>4. Increasing' /\ Excess' /\ EofsBehind' /\ OverOK'
  BY <1>1, <1>2, Fresh DEF Increasing, Excess, EofsBehind, OverOK
<1>5. TextsInOrder'
  BY <1>1, <1>2, Fresh DEF TextsInOrder
<1>6. Matched(NothingHeard)'
  BY <1>1, <1>2, Fresh, LeadsEmpty DEF Matched
<1>7. StreamFollows'
  BY <1>6, Fresh DEF StreamFollows
<1>8. Lines!Restart
  BY <1>1, Fresh DEF Lines!Restart
<1>9. QED
  BY <1>1, <1>3, <1>4, <1>5, <1>7, <1>8 DEF IInv

LEMMA InitIInv ==
    ASSUME Init
    PROVE  IInv /\ Lines!Start
<1>1. /\ pc = "idle" /\ heard = NothingHeard /\ read = 0
      /\ ahead \in Raw(MadeToken("NAME"), 0)
      /\ opened = 0 /\ indents = <<>> /\ tokens = <<>>
  BY DEF Init
<1>2. <<>> \in Seq(Nat) /\ <<>> \in Seq(Token) /\ Len(<<>>) = 0
  BY EmptySeq
<1>3. TypeOK
  BY <1>1, <1>2, Fresh DEF TypeOK, Heards
<1>4. Increasing /\ Excess /\ EofsBehind /\ OverOK
  BY <1>1, <1>2, Fresh DEF Increasing, Excess, EofsBehind, OverOK
<1>5. TextsInOrder
  BY <1>1, <1>2, Fresh DEF TextsInOrder
<1>6. Matched(NothingHeard)
  BY <1>1, <1>2, Fresh, LeadsEmpty DEF Matched
<1>7. StreamFollows
  BY <1>6, Fresh DEF StreamFollows
<1>8. Lines!Start
  BY <1>1, Fresh DEF Lines!Start
<1>9. QED
  BY <1>1, <1>3, <1>4, <1>5, <1>7, <1>8 DEF IInv

LEMMA NextStep ==
    ASSUME IInv, [Next]_vars
    PROVE  IInv' /\ [Lines!Emit \/ Lines!Restart]_(Lines!stream)
<1>1. CASE heard' = heard /\ IInv'
  BY <1>1 DEF Lines!stream
<1>2. CASE CloseAtEof
  BY <1>1, <1>2, CloseAtEofStep
<1>3. CASE LexToken \/ OpenBrace \/ CloseBrace
  BY <1>1, <1>3, LexTextStep DEF LexToken, OpenBrace, CloseBrace, Matches
<1>4. CASE SkipMatch
  BY <1>1, <1>4, SkipMatchStep DEF SkipMatch, Matches
<1>5. CASE OnNewLine
  BY <1>1, <1>5, OnNewLineStep DEF OnNewLine, Matches
<1>6. CASE LexEof
  BY <1>1, <1>6, LexEofStep
<1>7. CASE TakeToken
  BY <1>7, TakeTokenStep
<1>8. CASE Reset
  BY <1>8, ResetStep
<1>9. CASE UNCHANGED vars
  <2>1. TypeOK' /\ (pc' = "take" => tokens' # <<>>)
    BY <1>9 DEF IInv, TypeOK, vars
  <2>2. Increasing' /\ Excess' /\ EofsBehind' /\ OverOK'
    BY <1>9 DEF IInv, vars, Increasing, Excess, EofsBehind, OverOK
  <2>3. TextsInOrder'
    BY <1>9 DEF IInv, vars, TextsInOrder
  <2>4. StreamFollows'
    BY <1>9 DEF IInv, vars, StreamFollows, Matched
  <2>5. IInv' /\ heard' = heard
    BY <1>9, <2>1, <2>2, <2>3, <2>4 DEF IInv, vars
  <2>6. QED
    BY <1>1, <2>5
<1>10. QED
  BY <1>2, <1>3, <1>4, <1>5, <1>6, <1>7, <1>8, <1>9 DEF Next, NextToken

---------------------------------------------------------------------------
(* The inductive invariant holds in every state the lexer can be in.        *)
THEOREM Invariance == Spec => []IInv
<1>1. Init => IInv
  BY InitIInv
<1>2. IInv /\ [Next]_vars => IInv'
  BY NextStep
<1>3. QED
  BY <1>1, <1>2, PTL DEF Spec

(* The indentations of the open blocks increase, an open block leaves a     *)
(* token over, and EOF is not returned before the blocks are closed         *)
(* (onNewLine, nextToken).                                                  *)
THEOREM Blocks == Spec => []BlocksOK
<1>1. IInv => BlocksOK
  <2> SUFFICES ASSUME IInv PROVE BlocksOK
    OBVIOUS
  <2>1. /\ TypeOK /\ (pc = "take" => tokens # <<>>) /\ Increasing /\ Excess /\ EofsBehind
        /\ indents \in Seq(Nat) /\ tokens \in Seq(Token)
        /\ DOMAIN indents = 1..Len(indents) /\ Len(tokens) \in Nat
    BY TypeParts, LenProperties DEF IInv
  <2>2. indents # <<>> /\ pc = "idle" => tokens # <<>>
    <3>1. tokens = <<>> => Len(tokens) = 0
      OBVIOUS
    <3>2. QED
      BY <2>1, <3>1 DEF Excess
  <2>3. indents # <<>> /\ pc = "take" => Head(tokens).type # "EOF"
    <3> SUFFICES ASSUME indents # <<>>, pc = "take", Head(tokens).type = "EOF" PROVE FALSE
      OBVIOUS
    <3>1. Len(tokens) >= 2 /\ 1 \in 1..Len(tokens) /\ Head(tokens) = tokens[1]
      BY <2>1 DEF Excess
    <3>2. 1 = Len(tokens)
      <4>1. tokens[1].type = "EOF" /\ EofsBehind
        BY <2>1, <3>1
      <4>2. QED
        BY <3>1, <4>1 DEF EofsBehind
    <3>3. PICK n \in Nat : n = Len(tokens)
      BY <2>1
    <3>4. n >= 2 /\ n = 1
      BY <3>1, <3>2, <3>3
    <3>5. QED
      BY <3>4
  <2>4. QED
    BY <2>1, <2>2, <2>3 DEF BlocksOK, Increasing
<1>2. QED
  BY <1>1, Invariance, PTL

(* When the caller has heard EOF, all blocks are closed and nothing but EOF *)
(* is left in the list (nextToken).                                         *)
THEOREM LastEof == Spec => []EofLast
<1>1. IInv => EofLast
  <2> SUFFICES ASSUME IInv, heard.over PROVE indents = <<>> /\ WithoutEof(tokens) = <<>>
    BY DEF EofLast
  <2>1. tokens \in Seq(Token) /\ OverOK
    BY TypeParts DEF IInv
  <2>2. QED
    BY <2>1, EofApart DEF OverOK
<1>2. QED
  BY <1>1, Invariance, PTL

(* No name or bracket is lost, doubled or overtaken (emitToken, nextToken). *)
THEOREM Order == Spec => []TokensInOrder
<1>1. IInv => TokensInOrder
  <2> SUFFICES ASSUME IInv PROVE TokensInOrder
    OBVIOUS
  <2> DEFINE texts == OnlyIn(tokens, TextTokens)
  <2>1. /\ TextsInOrder /\ ahead \in Token /\ tokens \in Seq(Token) /\ heard.got \in Nat
        /\ texts \in Seq(TextTokens) /\ Len(texts) \in Nat
    BY TypeParts DEF IInv
  <2>2. OnTheWay = IF ahead \in TextTokens THEN Append(texts, ahead) ELSE texts
    BY <2>1, OnlyInAppend DEF OnTheWay
  <2>3. ahead \in TextTokens <=> ahead.type \in Texts
    BY <2>1 DEF TextTokens
  <2>4. PICK b \in Seq(TextTokens) : b = texts
    BY <2>1
  <2>5. /\ \A i \in 1..Len(b) : b[i].pos = heard.got + i
        /\ ahead.pos = heard.got + Len(b) + (IF ahead.type \in Texts THEN 1 ELSE 0)
    BY <2>1, <2>4 DEF TextsInOrder
  <2>6. CASE ahead \notin TextTokens
    <3>1. OnTheWay = b /\ DOMAIN b = 1..Len(b)
      BY <2>2, <2>4, <2>6, LenProperties
    <3>2. ahead.pos = heard.got + Len(b)
      BY <2>1, <2>3, <2>4, <2>5, <2>6
    <3>3. QED
      BY <2>5, <3>1, <3>2 DEF TokensInOrder
  <2>7. CASE ahead \in TextTokens
    <3>1. PICK x \in TextTokens : x = ahead
      BY <2>7
    <3>2. PICK c \in Seq(TextTokens) :
            /\ c = Append(b, x) /\ Len(c) = Len(b) + 1 /\ DOMAIN c = 1..Len(c)
            /\ \A i \in 1..Len(b) : c[i] = b[i]
            /\ c[Len(b) + 1] = x
      <4>1. PICK c \in Seq(TextTokens) :
              /\ c = Append(b, x) /\ Len(c) = Len(b) + 1
              /\ \A i \in 1..Len(b) : c[i] = b[i]
              /\ c[Len(b) + 1] = x
        BY AppendLast
      <4>2. DOMAIN c = 1..Len(c)
        BY LenProperties
      <4>3. QED
        BY <4>1, <4>2
    <3>3. OnTheWay = c
      BY <2>2, <2>4, <2>7, <3>1, <3>2
    <3>4. x.pos = heard.got + Len(b) + 1 /\ Len(b) \in Nat
      BY <2>1, <2>3, <2>4, <2>5, <2>7, <3>1
    <3>p. PICK p \in Nat, n \in Nat : p = heard.got /\ n = Len(b)
      BY <2>1, <3>4
    <3>5. ASSUME NEW i \in 1..Len(c) PROVE c[i].pos = heard.got + i
      <4>1. CASE i \in 1..Len(b)
        BY <2>5, <3>2, <4>1
      <4>2. CASE i = Len(b) + 1
        <5>1. c[i].pos = p + n + 1
          BY <3>2, <3>4, <3>p, <4>2
        <5>2. p + n + 1 = p + (n + 1)
          OBVIOUS
        <5>3. QED
          BY <3>p, <4>2, <5>1, <5>2
      <4>3. QED
        BY <3>2, <3>4, <4>1, <4>2
    <3>6. ahead.pos = heard.got + Len(c)
      <4>1. p + n + 1 = p + (n + 1)
        OBVIOUS
      <4>2. QED
        BY <3>1, <3>2, <3>4, <3>p, <4>1
    <3>7. QED
      BY <3>2, <3>3, <3>5, <3>6 DEF TokensInOrder
  <2>8. QED
    BY <2>6, <2>7
<1>2. QED
  BY <1>1, Invariance, PTL

(* The tokens the caller receives are a stream of lines and blocks: every   *)
(* step of the lexer is a step of PyLineStream or leaves it where it is     *)
(* (onNewLine, nextToken, reset).                                           *)
THEOREM Stream == Spec => StreamOK
<1>1. Init => Lines!Start
  BY InitIInv
<1>2. IInv /\ [Next]_vars => [Lines!Emit \/ Lines!Restart]_(Lines!stream)
  BY NextStep
<1>3. QED
  BY <1>1, <1>2, Invariance, PTL DEF Spec, StreamOK, Lines!Stream
=============================================================================
