------------------------ MODULE Python313LexerProofs ------------------------
(***************************************************************************)
(* Theorems about Python313Lexer, for inputs of any length and alphabet.    *)
(***************************************************************************)
EXTENDS Python313Lexer, PyTokenQueueProofs, FiniteSetTheorems

---------------------------------------------------------------------------
(* The path of lexer modes.                                                 *)

LEMMA ModeKinds ==
    /\ DEFAULT_MODE \in Modes /\ DEFAULT_MODE[1] = "default"
    /\ \A q \in Quotes : FSTRING_MODE(q) \in Modes /\ SPEC_MODE(q) \in Modes
    /\ \A m \in Modes : \/ m = DEFAULT_MODE
                        \/ m[1] = "fstring" /\ \E q \in Quotes : m = FSTRING_MODE(q)
                        \/ m[1] = "spec" /\ \E q \in Quotes : m = SPEC_MODE(q)
    /\ \A q : /\ FSTRING_MODE(q)[1] = "fstring" /\ FSTRING_MODE(q)[2] = q
              /\ SPEC_MODE(q)[1] = "spec" /\ SPEC_MODE(q)[2] = q
<1>1. DEFAULT_MODE \in Modes /\ DEFAULT_MODE[1] = "default"
  BY DEF Modes, DEFAULT_MODE
<1>2. \A q : /\ FSTRING_MODE(q)[1] = "fstring" /\ FSTRING_MODE(q)[2] = q
             /\ SPEC_MODE(q)[1] = "spec" /\ SPEC_MODE(q)[2] = q
  BY DEF FSTRING_MODE, SPEC_MODE
<1>3. \A q \in Quotes : FSTRING_MODE(q) \in Modes /\ SPEC_MODE(q) \in Modes
  BY DEF Modes, FSTRING_MODE, SPEC_MODE
<1>4. ASSUME NEW m \in Modes, m # DEFAULT_MODE
      PROVE  \E q \in Quotes : m = FSTRING_MODE(q) \/ m = SPEC_MODE(q)
  BY <1>4 DEF Modes, FSTRING_MODE, SPEC_MODE
<1>5. QED
  BY <1>1, <1>2, <1>3, <1>4

(* Entering a mode that may be entered keeps the path sound, and opens an   *)
(* expression when it is the default mode.                                  *)
LEMMA PathPush ==
    ASSUME NEW p \in Seq(Modes), p # <<>>, SoundPath(p), NEW m \in Modes,
           MayEnter(Below(p, Len(p)), p[Len(p)], m)
    PROVE  /\ SoundPath(Append(p, m))
           /\ Cardinality(Expressions(Append(p, m))) =
                 Cardinality(Expressions(p)) + (IF m = DEFAULT_MODE THEN 1 ELSE 0)
<1> DEFINE r == Append(p, m)
           n == Len(p)
<1>1. n \in Nat \ {0}
  BY EmptySeq
<1>2. /\ r \in Seq(Modes) /\ Len(r) = n + 1
      /\ \A i \in 1..n : r[i] = p[i]
      /\ r[n + 1] = m
  BY AppendProperties
<1> HIDE DEF r, n
<1>3. SoundPath(r)
  <2>1. r[1] = DEFAULT_MODE
    BY <1>1, <1>2 DEF SoundPath
  <2>2. ASSUME NEW i \in 1..(Len(r) - 1)
        PROVE  MayEnter(Below(r, i), r[i], r[i + 1])
    <3>1. i \in 1..n /\ Below(r, i) = Below(p, i) /\ r[i] = p[i]
      BY <1>1, <1>2 DEF Below
    <3>2. CASE i = n
      BY <1>2, <3>1, <3>2 DEF n
    <3>3. CASE i \in 1..(n - 1)
      <4>1. r[i + 1] = p[i + 1]
        BY <1>1, <1>2, <3>3
      <4>2. MayEnter(Below(p, i), p[i], p[i + 1])
        BY <3>3 DEF SoundPath, n
      <4>3. QED
        BY <3>1, <4>1, <4>2
    <3>4. QED
      BY <1>1, <3>1, <3>2, <3>3
  <2>3. QED
    BY <2>1, <2>2 DEF SoundPath
<1>4. Expressions(r) = IF m = DEFAULT_MODE THEN Expressions(p) \union {n + 1} ELSE Expressions(p)
  BY <1>1, <1>2 DEF Expressions, n
<1>5. IsFiniteSet(Expressions(p)) /\ n + 1 \notin Expressions(p)
  <2>1. IsFiniteSet(2..n)
    BY <1>1, FS_Interval
  <2>2. Expressions(p) \subseteq 2..n
    BY DEF Expressions, n
  <2>3. QED
    BY <1>1, <2>1, <2>2, FS_Subset
<1>6. Cardinality(Expressions(p)) \in Nat
  BY <1>5, FS_CardinalityType
<1>7. Cardinality(Expressions(p) \union {n + 1}) = Cardinality(Expressions(p)) + 1
  BY <1>5, FS_AddElement
<1>8. QED
  BY <1>3, <1>4, <1>6, <1>7 DEF r

(* Leaving a mode keeps the path sound, and closes an expression when it    *)
(* was the default mode.                                                    *)
LEMMA PathPop ==
    ASSUME NEW p \in Seq(Modes), Len(p) > 1, SoundPath(p)
    PROVE  /\ SoundPath(Front(p)) /\ Front(p) # <<>> /\ Front(p) \in Seq(Modes)
           /\ Cardinality(Expressions(p)) =
                 Cardinality(Expressions(Front(p))) + (IF Last(p) = DEFAULT_MODE THEN 1 ELSE 0)
<1> DEFINE r == Front(p)
           n == Len(p)
<1>1. n \in Nat /\ n > 1 /\ p # <<>>
  BY LenProperties, EmptySeq
<1>2. /\ r \in Seq(Modes) /\ Len(r) = n - 1
      /\ \A i \in 1..(n - 1) : r[i] = p[i]
      /\ Last(p) = p[n] /\ Last(p) \in Modes
  BY <1>1, FrontLast
<1> HIDE DEF r, n
<1>3. r # <<>>
  BY <1>1, <1>2, EmptySeq
<1>4. SoundPath(r)
  <2>1. r[1] = DEFAULT_MODE
    BY <1>1, <1>2 DEF SoundPath
  <2>2. ASSUME NEW i \in 1..(Len(r) - 1)
        PROVE  MayEnter(Below(r, i), r[i], r[i + 1])
    <3>1. i \in 1..(n - 1) /\ r[i] = p[i] /\ r[i + 1] = p[i + 1] /\ Below(r, i) = Below(p, i)
      BY <1>1, <1>2 DEF Below
    <3>2. MayEnter(Below(p, i), p[i], p[i + 1])
      BY <3>1 DEF SoundPath, n
    <3>3. QED
      BY <3>1, <3>2
  <2>3. QED
    BY <2>1, <2>2 DEF SoundPath
<1>5. Expressions(p) = IF Last(p) = DEFAULT_MODE THEN Expressions(r) \union {n} ELSE Expressions(r)
  BY <1>1, <1>2 DEF Expressions, n
<1>6. IsFiniteSet(Expressions(r)) /\ n \notin Expressions(r)
  <2>1. IsFiniteSet(2..(n - 1))
    BY <1>1, FS_Interval
  <2>2. Expressions(r) \subseteq 2..(n - 1)
    BY <1>2 DEF Expressions
  <2>3. QED
    BY <1>1, <2>1, <2>2, FS_Subset
<1>7. Cardinality(Expressions(r)) \in Nat
  BY <1>6, FS_CardinalityType
<1>8. Cardinality(Expressions(r) \union {n}) = Cardinality(Expressions(r)) + 1
  BY <1>6, FS_AddElement
<1>9. QED
  BY <1>2, <1>3, <1>4, <1>5, <1>7, <1>8 DEF r

---------------------------------------------------------------------------
(* The mode and bracket stacks.                                             *)

Open(f) == Cardinality(Expressions(ModePath(f)))

LEMMA PathFacts ==
    ASSUME NEW f \in FStringState
    PROVE  /\ ModePath(f) \in Seq(Modes) /\ ModePath(f) # <<>>
           /\ Len(f.modes) \in Nat /\ Len(ModePath(f)) = Len(f.modes) + 1
           /\ Last(ModePath(f)) = f.mode /\ f.mode \in Modes
           /\ ModePath(f)[Len(ModePath(f))] = f.mode
           /\ Front(ModePath(f)) = f.modes
           /\ f.modes \in Seq(Modes)
           /\ \A i \in 1..Len(f.modes) : ModePath(f)[i] = f.modes[i]
           /\ f.parens \in Seq(Int) /\ Len(f.parens) \in Nat
           /\ Open(f) \in Nat
<1> DEFINE p == ModePath(f)
<1>1. f.modes \in Seq(Modes) /\ f.mode \in Modes /\ f.parens \in Seq(Int)
  BY DEF FStringState
<1>2. Len(f.modes) \in Nat /\ Len(f.parens) \in Nat
  BY <1>1, LenProperties
<1>3. /\ p \in Seq(Modes) /\ p # <<>> /\ Len(p) = Len(f.modes) + 1
      /\ \A i \in 1..Len(f.modes) : p[i] = f.modes[i]
      /\ p[Len(f.modes) + 1] = f.mode
  BY <1>1, AppendProperties DEF ModePath
<1> HIDE DEF p
<1>4. /\ Front(p) \in Seq(Modes) /\ Len(Front(p)) = Len(f.modes)
      /\ \A i \in 1..Len(f.modes) : Front(p)[i] = p[i]
  <2>1. Len(p) - 1 = Len(f.modes)
    BY <1>2, <1>3
  <2>2. /\ Front(p) \in Seq(Modes) /\ Len(Front(p)) = Len(p) - 1
        /\ \A i \in 1..(Len(p) - 1) : Front(p)[i] = p[i]
    BY <1>3, FrontLast
  <2>3. QED
    BY <2>1, <2>2
<1>5. Front(p) = f.modes
  BY <1>1, <1>3, <1>4, SeqEqual
<1>6. Open(f) \in Nat
  <2>1. IsFiniteSet(2..Len(p))
    BY <1>2, <1>3, FS_Interval, SMTT(60)
  <2>2. Expressions(p) \subseteq 2..Len(p)
    BY DEF Expressions
  <2>3. QED
    BY <2>1, <2>2, FS_Subset, FS_CardinalityType DEF Open, p
<1>7. QED
  BY <1>1, <1>2, <1>3, <1>5, <1>6 DEF p, Last

LEMMA PushSound ==
    ASSUME NEW f \in FStringState, SoundPath(ModePath(f)), NEW m \in Modes,
           MayEnter(Below(ModePath(f), Len(ModePath(f))), f.mode, m)
    PROVE  /\ PushMode(f, m) \in FStringState
           /\ PushMode(f, m).parens = f.parens
           /\ SoundPath(ModePath(PushMode(f, m)))
           /\ Open(PushMode(f, m)) = Open(f) + (IF m = DEFAULT_MODE THEN 1 ELSE 0)
<1>1. Append(f.modes, f.mode) \in Seq(Modes)
  BY PathFacts DEF ModePath
<1>2. PushMode(f, m) \in FStringState /\ PushMode(f, m).parens = f.parens
  BY <1>1 DEF PushMode, FStringState
<1>3. ModePath(PushMode(f, m)) = Append(ModePath(f), m)
  BY DEF PushMode, ModePath, FStringState
<1>4. QED
  BY <1>2, <1>3, PathFacts, PathPush DEF Open

LEMMA PopSound ==
    ASSUME NEW f \in FStringState, SoundPath(ModePath(f)), f.modes # <<>>
    PROVE  /\ PopMode(f) \in FStringState
           /\ PopMode(f).parens = f.parens
           /\ PopMode(f).mode = ModePath(f)[Len(f.modes)]
           /\ PopMode(f).modes = Front(f.modes)
           /\ SoundPath(ModePath(PopMode(f)))
           /\ ModePath(PopMode(f)) = f.modes
           /\ Open(f) = Open(PopMode(f)) + (IF f.mode = DEFAULT_MODE THEN 1 ELSE 0)
<1> DEFINE p == ModePath(f)
           g == PopMode(f)
<1>1. /\ f.modes \in Seq(Modes) /\ Len(f.modes) \in Nat \ {0}
      /\ Front(f.modes) \in Seq(Modes) /\ Len(Front(f.modes)) = Len(f.modes) - 1
      /\ \A i \in 1..(Len(f.modes) - 1) : Front(f.modes)[i] = f.modes[i]
      /\ Last(f.modes) = f.modes[Len(f.modes)] /\ Last(f.modes) \in Modes
  BY PathFacts, FrontLast
<1>2. /\ g \in FStringState /\ g.parens = f.parens
      /\ g.mode = Last(f.modes) /\ g.modes = Front(f.modes)
  BY <1>1 DEF PopMode, FStringState
<1>3. ModePath(g) = f.modes
  <2> DEFINE r == Append(Front(f.modes), Last(f.modes))
  <2>1. /\ r \in Seq(Modes) /\ Len(r) = Len(Front(f.modes)) + 1
        /\ \A i \in 1..Len(Front(f.modes)) : r[i] = Front(f.modes)[i]
        /\ r[Len(Front(f.modes)) + 1] = Last(f.modes)
    BY <1>1, AppendProperties
  <2>2. ModePath(g) = r
    BY <1>2 DEF ModePath
  <2> HIDE DEF r
  <2>3. Len(r) = Len(f.modes) /\ \A i \in 1..Len(f.modes) : r[i] = f.modes[i]
    BY <1>1, <2>1
  <2>4. QED
    BY <1>1, <2>1, <2>2, <2>3, SeqEqual
<1>4. g.mode = p[Len(f.modes)]
  BY <1>1, <1>2, PathFacts
<1>5. Len(p) > 1 /\ Front(p) = f.modes /\ Last(p) = f.mode /\ p \in Seq(Modes)
  BY <1>1, PathFacts
<1>6. QED
  BY <1>2, <1>3, <1>4, <1>5, PathPop DEF Open

(* What the stacks of a lexer between two tokens are, and the lemma that    *)
(* check_cur_token keeps them so.                                           *)
SoundState(f) ==
    /\ f \in FStringState
    /\ SoundPath(ModePath(f))
    /\ Len(f.parens) = Open(f)

(* The opening of an f-string carries the name of its mode.                 *)
NamesMode(t) == t.type = "FSTRING_START" => \E q \in Quotes : t.text = <<q>>

LEMMA SoundTop ==
    ASSUME NEW f, SoundState(f), f.modes # <<>>
    PROVE  /\ f.modes \in Seq(Modes) /\ Len(f.modes) \in Nat \ {0}
           /\ Last(f.modes) \in Modes
           /\ Last(f.modes) = ModePath(f)[Len(f.modes)]
           /\ MayEnter(Below(ModePath(f), Len(f.modes)), Last(f.modes), f.mode)
           /\ Below(ModePath(f), Len(ModePath(f))) = Last(f.modes)
           /\ Last(f.modes) # <<>>
<1>1. /\ f \in FStringState /\ f.modes \in Seq(Modes) /\ Len(f.modes) \in Nat \ {0}
      /\ Last(f.modes) = f.modes[Len(f.modes)] /\ Last(f.modes) \in Modes
  BY PathFacts, FrontLast DEF SoundState
<1>2. /\ Last(f.modes) = ModePath(f)[Len(f.modes)]
      /\ Len(ModePath(f)) = Len(f.modes) + 1
      /\ ModePath(f)[Len(f.modes) + 1] = f.mode
  BY <1>1, PathFacts, SMTT(60)
<1>3. MayEnter(Below(ModePath(f), Len(f.modes)), Last(f.modes), f.mode)
  BY <1>1, <1>2 DEF SoundState, SoundPath
<1>4. Below(ModePath(f), Len(ModePath(f))) = Last(f.modes)
  BY <1>1, <1>2 DEF Below
<1>5. Last(f.modes) # <<>>
  <2>1. \A a, b : <<a, b>> # <<>>
    OBVIOUS
  <2>2. Last(f.modes) = DEFAULT_MODE \/ \E q : Last(f.modes) \in {FSTRING_MODE(q), SPEC_MODE(q)}
    BY <1>1, ModeKinds
  <2>3. QED
    BY <2>1, <2>2 DEF DEFAULT_MODE, FSTRING_MODE, SPEC_MODE
<1>6. QED
  BY <1>1, <1>2, <1>3, <1>4, <1>5

LEMMA ModesAfterSound ==
    ASSUME NEW f, SoundState(f),
           NEW t \in Token, t.type \in ModeTypes(f.mode), NamesMode(t),
           ~ModeUnderflow(f, t), ~NoOpenBrace(f, t)
    PROVE  SoundState(ModesAfter(f, t))
<1> DEFINE g == ModesAfter(f, t)
<1>1. f \in FStringState /\ SoundPath(ModePath(f)) /\ Len(f.parens) = Open(f)
  BY DEF SoundState
<1>2. /\ f.mode \in Modes /\ f.parens \in Seq(Int) /\ Open(f) \in Nat
      /\ Len(ModePath(f)) = Len(f.modes) + 1 /\ Len(f.modes) \in Nat
      /\ f.modes \in Seq(Modes) /\ ModePath(f)[Len(ModePath(f))] = f.mode
  BY <1>1, PathFacts
<1>3. f.modes = <<>> => Below(ModePath(f), Len(ModePath(f))) = <<>>
  BY <1>2 DEF Below
<1>4. CASE t.type = "FSTRING_START"
  <2>1. f.mode = DEFAULT_MODE
    BY <1>2, <1>4, ModeKinds DEF ModeTypes
  <2>2. PICK q \in Quotes : t.text = <<q>>
    BY <1>4 DEF NamesMode
  <2>3. g = PushMode(f, FSTRING_MODE(q))
    BY <1>4, <2>2 DEF ModesAfter
  <2>4. /\ FSTRING_MODE(q) \in Modes /\ FSTRING_MODE(q) # DEFAULT_MODE
        /\ MayEnter(Below(ModePath(f), Len(ModePath(f))), f.mode, FSTRING_MODE(q))
    BY <2>1, ModeKinds DEF MayEnter
  <2>5. QED
    BY <1>1, <1>2, <2>3, <2>4, PushSound DEF SoundState
<1>5. CASE t.type = "FSTRING_END"
  <2>1. f.mode # DEFAULT_MODE /\ f.modes # <<>>
    BY <1>5, ModeKinds DEF ModeTypes, ModeUnderflow
  <2>2. g = PopMode(f)
    BY <1>5 DEF ModesAfter
  <2>3. Open(PopMode(f)) \in Nat
    BY <1>1, <2>1, PopSound, PathFacts
  <2>4. QED
    BY <1>1, <1>2, <2>1, <2>2, <2>3, PopSound DEF SoundState
<1>6. CASE f.modes = <<>> /\ t.type \notin {"FSTRING_START", "FSTRING_END"}
  BY <1>6 DEF ModesAfter
<1>7. CASE f.modes # <<>> /\ t.type = "LBRACE"
  <2> DEFINE h == [f EXCEPT !.parens = Append(@, 0)]
  <2>1. /\ Append(f.parens, 0) \in Seq(Int) /\ Len(Append(f.parens, 0)) = Len(f.parens) + 1
    BY <1>2, AppendProperties
  <2>2. /\ h \in FStringState /\ ModePath(h) = ModePath(f)
        /\ h.mode = f.mode /\ h.parens = Append(f.parens, 0) /\ Open(h) = Open(f)
    BY <1>1, <2>1 DEF FStringState, ModePath, Open
  <2>3. MayEnter(Below(ModePath(f), Len(ModePath(f))), f.mode, DEFAULT_MODE)
    BY <1>2, <1>7, SoundTop, ModeKinds DEF MayEnter
  <2>4. g = PushMode(h, DEFAULT_MODE)
    BY <1>7 DEF ModesAfter
  <2>5. /\ PushMode(h, DEFAULT_MODE) \in FStringState
        /\ PushMode(h, DEFAULT_MODE).parens = h.parens
        /\ SoundPath(ModePath(PushMode(h, DEFAULT_MODE)))
        /\ Open(PushMode(h, DEFAULT_MODE)) = Open(h) + 1
    BY <1>1, <2>2, <2>3, PushSound, ModeKinds
  <2> HIDE DEF h
  <2>6. QED
    BY <1>1, <2>1, <2>2, <2>4, <2>5 DEF SoundState
<1>8. CASE f.modes # <<>> /\ t.type \in {"LPAR", "RPAR"}
  <2> DEFINE n == IF t.type = "LPAR" THEN 1 ELSE -1
             k == Len(f.parens)
  <2>1. g = AddParens(f, n)
    BY <1>8 DEF ModesAfter
  <2>2. f.parens # <<>>
    BY <1>8 DEF NoOpenBrace
  <2>3. k \in 1..Len(f.parens) /\ f.parens[k] \in Int
    BY <1>2, <2>2, FrontLast
  <2> DEFINE s == [f.parens EXCEPT ![k] = @ + n]
  <2>4. s \in Seq(Int) /\ Len(s) = Len(f.parens)
    BY <1>2, <2>3, ExceptSeq
  <2> HIDE DEF s
  <2>5. g = [f EXCEPT !.parens = s]
    BY <1>1, <2>1 DEF AddParens, s, FStringState
  <2>6. /\ g \in FStringState /\ ModePath(g) = ModePath(f) /\ g.parens = s /\ Open(g) = Open(f)
    BY <1>1, <2>4, <2>5 DEF FStringState, ModePath, Open
  <2>7. QED
    BY <1>1, <2>4, <2>6 DEF SoundState
<1>9. CASE f.modes # <<>> /\ t.type \in {"COLON", "COLONEQUAL"}
  <2>1. f.mode = DEFAULT_MODE
    BY <1>2, <1>9, ModeKinds DEF ModeTypes
  <2>2. g = AfterColon(f)
    BY <1>9 DEF ModesAfter
  <2>3. CASE Last(f.parens) = 0 /\ Last(f.modes)[1] \in {"fstring", "spec"}
    <3> DEFINE m == SPEC_MODE(Last(f.modes)[2])
    <3>1. Last(f.modes) \in Modes /\ Last(f.modes) # <<>>
          /\ Below(ModePath(f), Len(ModePath(f))) = Last(f.modes)
      BY <1>9, SoundTop
    <3>2. m \in Modes /\ m # DEFAULT_MODE /\ m[1] = "spec" /\ m[2] = Last(f.modes)[2]
      BY <2>3, <3>1, ModeKinds
    <3>3. MayEnter(Below(ModePath(f), Len(ModePath(f))), f.mode, m)
      BY <2>1, <2>3, <3>1, <3>2 DEF MayEnter
    <3>4. g = PushMode(f, m)
      BY <2>2, <2>3 DEF AfterColon
    <3> HIDE DEF m
    <3>5. QED
      BY <1>1, <1>2, <3>2, <3>3, <3>4, PushSound DEF SoundState
  <2>4. CASE ~(Last(f.parens) = 0 /\ Last(f.modes)[1] \in {"fstring", "spec"})
    BY <2>2, <2>4 DEF AfterColon
  <2>5. QED
    BY <2>3, <2>4
<1>10. CASE f.modes # <<>> /\ t.type = "RBRACE"
  <2>1. f.mode[1] # "fstring"
    BY <1>10 DEF ModeTypes
  <2>2. g = AfterRbrace(f)
    BY <1>10 DEF ModesAfter
  <2>3. f.parens # <<>>
    BY <1>10, <2>1 DEF NoOpenBrace
  <2>4. /\ Front(f.parens) \in Seq(Int) /\ Len(Front(f.parens)) = Len(f.parens) - 1
    BY <1>2, <2>3, FrontLast
  <2>5. ASSUME NEW h \in FStringState, h.parens = f.parens, SoundPath(ModePath(h)),
               Open(f) = Open(h) + 1, g = [h EXCEPT !.parens = Front(@)]
        PROVE  SoundState(g)
    <3>1. /\ g \in FStringState /\ ModePath(g) = ModePath(h) /\ Open(g) = Open(h)
          /\ g.parens = Front(f.parens)
      BY <2>4, <2>5 DEF FStringState, ModePath, Open
    <3>2. Open(h) \in Nat
      BY PathFacts
    <3>3. QED
      BY <1>1, <1>2, <2>4, <2>5, <3>1, <3>2 DEF SoundState
  <2>6. /\ PopMode(f) \in FStringState /\ PopMode(f).parens = f.parens
        /\ SoundPath(ModePath(PopMode(f)))
        /\ Open(f) = Open(PopMode(f)) + (IF f.mode = DEFAULT_MODE THEN 1 ELSE 0)
        /\ PopMode(f).modes = Front(f.modes)
        /\ PopMode(f).mode = ModePath(f)[Len(f.modes)]
    BY <1>1, <1>10, PopSound
  <2>7. CASE f.mode = DEFAULT_MODE
    <3>1. g = [PopMode(f) EXCEPT !.parens = Front(@)]
      BY <2>1, <2>2, <2>7, ModeKinds DEF AfterRbrace
    <3>2. QED
      BY <2>5, <2>6, <2>7, <3>1
  <2>8. CASE f.mode[1] = "spec"
    <3> DEFINE u == PopMode(f)
    <3>1. g = [PopMode(u) EXCEPT !.parens = Front(@)]
      BY <2>1, <2>2, <2>8, ModeKinds DEF AfterRbrace
    <3>2. u.mode = DEFAULT_MODE /\ u.modes # <<>>
      <4>1. /\ MayEnter(Below(ModePath(f), Len(f.modes)), Last(f.modes), f.mode)
            /\ Last(f.modes) = ModePath(f)[Len(f.modes)]
        BY <1>10, SoundTop
      <4>2. u.mode = DEFAULT_MODE
        BY <2>6, <2>8, <4>1, ModeKinds DEF MayEnter
      <4>3. Len(f.modes) >= 2
        BY <1>2, <1>10, <2>8 DEF ModeUnderflow
      <4>4. Len(Front(f.modes)) = Len(f.modes) - 1 /\ Front(f.modes) \in Seq(Modes)
        BY <1>2, <1>10, FrontLast
      <4>5. QED
        BY <1>2, <2>6, <4>2, <4>3, <4>4, EmptySeq
    <3>3. f.mode # DEFAULT_MODE
      BY <2>8, ModeKinds
    <3> HIDE DEF u
    <3>4. /\ u \in FStringState /\ u.parens = f.parens
          /\ SoundPath(ModePath(u)) /\ Open(f) = Open(u) + 0
      BY <2>6, <3>3 DEF u
    <3>5. /\ PopMode(u) \in FStringState /\ PopMode(u).parens = u.parens
          /\ SoundPath(ModePath(PopMode(u))) /\ Open(u) = Open(PopMode(u)) + 1
      BY <3>2, <3>4, PopSound
    <3>6. Open(u) \in Nat
      BY <3>4, PathFacts
    <3>7. QED
      BY <1>2, <2>5, <3>1, <3>4, <3>5, <3>6, SMTT(60)
  <2>9. QED
    BY <1>2, <2>1, <2>7, <2>8, ModeKinds
<1>11. CASE /\ f.modes # <<>>
            /\ t.type \notin {"FSTRING_START", "FSTRING_END", "LBRACE", "LPAR", "RPAR",
                              "COLON", "COLONEQUAL", "RBRACE"}
  BY <1>11 DEF ModesAfter
<1>12. QED
  BY <1>4, <1>5, <1>6, <1>7, <1>8, <1>9, <1>10, <1>11

(* A token of the current mode never makes the code pop an empty mode       *)
(* stack, and misses an open brace only at EOF inside a literal.            *)
LEMMA NoUnderflow ==
    ASSUME NEW f, SoundState(f), NEW t, t.type \in ModeTypes(f.mode)
    PROVE  ~ModeUnderflow(f, t)
<1>1. f \in FStringState /\ f.mode \in Modes /\ Len(f.modes) \in Nat /\ f.modes \in Seq(Modes)
      /\ ModePath(f)[Len(f.modes) + 1] = f.mode
  BY PathFacts DEF SoundState
<1>2. f.modes = <<>> => f.mode = DEFAULT_MODE
  <2>1. f.modes = <<>> => Len(f.modes) + 1 = 1
    BY <1>1
  <2>2. QED
    BY <1>1, <2>1 DEF SoundState, SoundPath
<1>3. CASE t.type = "FSTRING_END"
  <2>1. f.mode # DEFAULT_MODE
    BY <1>1, <1>3, ModeKinds DEF ModeTypes
  <2>2. QED
    BY <1>2, <1>3, <2>1 DEF ModeUnderflow
<1>4. CASE t.type = "RBRACE" /\ f.mode[1] = "spec"
  <2>1. f.modes # <<>>
    BY <1>2, <1>4, ModeKinds
  <2>2. /\ MayEnter(Below(ModePath(f), Len(f.modes)), Last(f.modes), f.mode)
        /\ Len(f.modes) \in Nat \ {0}
    BY <2>1, SoundTop
  <2>3. Len(f.modes) # 1
    BY <1>4, <2>2, ModeKinds DEF MayEnter, Below
  <2> DEFINE n == Len(f.modes)
  <2> HIDE DEF n
  <2>4. n \in Nat \ {0} /\ n # 1 => ~(n < 2)
    OBVIOUS
  <2>5. QED
    BY <1>4, <2>2, <2>3, <2>4 DEF ModeUnderflow, n
<1>5. QED
  BY <1>3, <1>4 DEF ModeUnderflow

LEMMA NoBraceOnlyAtEof ==
    ASSUME NEW f, SoundState(f), NEW t, t.type \in ModeTypes(f.mode), NoOpenBrace(f, t)
    PROVE  t.type = "EOF" /\ f.mode[1] = "fstring"
<1> DEFINE p == ModePath(f)
<1>1. /\ f \in FStringState /\ Len(f.modes) \in Nat /\ f.modes \in Seq(Modes)
      /\ p \in Seq(Modes) /\ Len(p) = Len(f.modes) + 1 /\ p[Len(p)] = f.mode
      /\ f.mode \in Modes /\ f.parens \in Seq(Int)
  BY PathFacts DEF SoundState
<1>2. f.modes # <<>> /\ f.parens = <<>>
  BY DEF NoOpenBrace
<1>3. Len(p) >= 2
  BY <1>1, <1>2, EmptySeq
<1>4. Expressions(p) = {}
  <2>1. Open(f) = 0
    BY <1>2, EmptySeq DEF SoundState
  <2>2. IsFiniteSet(2..Len(p))
    BY <1>1, FS_Interval, SMTT(60)
  <2>3. IsFiniteSet(Expressions(p))
    BY <2>2, FS_Subset DEF Expressions
  <2>4. QED
    BY <2>1, <2>3, FS_EmptySet DEF Open
<1> HIDE DEF p
<1>5. \A i \in 2..Len(p) : p[i] # DEFAULT_MODE
  BY <1>4 DEF Expressions
<1>6. p[1] = DEFAULT_MODE /\ \A i \in 1..(Len(p) - 1) : MayEnter(Below(p, i), p[i], p[i + 1])
  BY DEF SoundState, SoundPath, p
<1>7. p[2][1] = "fstring"
  <2>1. MayEnter(Below(p, 1), p[1], p[1 + 1]) /\ Below(p, 1) = <<>> /\ p[2] # DEFAULT_MODE
    BY <1>1, <1>3, <1>5, <1>6 DEF Below
  <2>2. QED
    BY <1>6, <2>1, ModeKinds DEF MayEnter
<1>8. Len(p) = 2
  <2> SUFFICES ASSUME Len(p) # 2 PROVE FALSE
    OBVIOUS
  <2>1. 2 \in 1..(Len(p) - 1) /\ 3 \in 2..Len(p)
    BY <1>1, <1>3
  <2>2. MayEnter(Below(p, 2), p[2], p[2 + 1]) /\ p[3] # DEFAULT_MODE
    BY <1>5, <1>6, <2>1
  <2>3. p[2] # DEFAULT_MODE
    BY <1>1, <1>3, <1>5
  <2>4. QED
    BY <1>7, <2>2, <2>3 DEF MayEnter
<1>9. f.mode[1] = "fstring"
  BY <1>1, <1>7, <1>8
<1>10. t.type = "EOF"
  BY <1>9 DEF NoOpenBrace, ModeTypes
<1>11. QED
  BY <1>9, <1>10

(* What the generated lexer returns.                                        *)
LEMMA RawFacts ==
    ASSUME NEW mode \in Modes, NEW n \in Nat, NEW t, NEW r \in Raw(mode, t, n)
    PROVE  /\ r \in Token /\ r.type \in ModeTypes(mode)
           /\ NamesMode(r)
           /\ r.type = "WS" => r.text \in WsTexts
           /\ r.pos = n + 1
<1>1. n + 1 \in Nat /\ <<>> \in Seq(Chars)
  BY EmptySeq
<1>2. \A text \in WsTexts : text \in Seq(Chars)
  <2>1. Blanks \subseteq Chars
    BY DEF Chars
  <2>2. QED
    BY <2>1, TextAssumption, SeqMonotonic
<1>3. \A q \in Quotes : <<q>> \in Seq(Chars)
  <2>1. Quotes \subseteq Chars
    BY QuoteAssumption DEF Chars
  <2>2. QED
    BY <2>1, Singleton
<1>4. <<"x">> \in Seq(Chars) /\ MidTexts \subseteq Seq(Chars)
  <2>1. "x" \in Chars
    BY DEF Chars
  <2>2. QED
    BY <2>1, Singleton, TextAssumption
<1>5. \A type \in Types, text \in Seq(Chars) :
          /\ RawToken(type, text, n + 1) \in Token
          /\ RawToken(type, text, n + 1).type = type
          /\ RawToken(type, text, n + 1).text = text
          /\ RawToken(type, text, n + 1).pos = n + 1
  BY <1>1, TokenType
<1>6. CASE r = EofToken(n + 1)
  <2>1. r \in Token /\ r.type = "EOF" /\ r.pos = n + 1
    BY <1>1, <1>5, <1>6 DEF EofToken, Types
  <2>2. QED
    BY <2>1 DEF ModeTypes, Types, NamesMode
<1>7. CASE mode[1] = "default" /\ r \in DefaultTokens(n + 1)
  <2>1. PICK type \in Types \ {"FSTRING_MIDDLE", "FSTRING_END"}, text \in Seq(Chars) :
            /\ r = RawToken(type, text, n + 1)
            /\ type = "WS" => text \in WsTexts
            /\ type = "FSTRING_START" => \E q \in Quotes : text = <<q>>
    <3>1. CASE \E type \in RawTypes : r = RawToken(type, <<>>, n + 1)
      BY <1>1, <3>1, RawTypesAssumption
    <3>2. CASE \E text \in WsTexts : r = RawToken("WS", text, n + 1)
      BY <1>2, <3>2 DEF Types
    <3>3. CASE \E q \in Quotes : r = RawToken("FSTRING_START", <<q>>, n + 1)
      <4>1. PICK q \in Quotes : r = RawToken("FSTRING_START", <<q>>, n + 1)
        BY <3>3
      <4>2. <<q>> \in Seq(Chars) /\ "FSTRING_START" \in Types \ {"FSTRING_MIDDLE", "FSTRING_END"}
        BY <1>3 DEF Types
      <4>3. QED
        BY <4>1, <4>2
    <3>4. QED
      BY <1>7, <3>1, <3>2, <3>3 DEF DefaultTokens
  <2>2. r \in Token /\ r.type = type /\ r.text = text /\ r.pos = n + 1
    BY <1>5, <2>1
  <2>3. QED
    BY <1>7, <2>1, <2>2 DEF ModeTypes, NamesMode
<1>8. CASE mode[1] = "fstring" /\ r \in FStringTokens(n + 1)
  <2>1. PICK type \in {"FSTRING_MIDDLE", "LBRACE", "FSTRING_END"}, text \in Seq(Chars) :
            r = RawToken(type, text, n + 1)
    BY <1>1, <1>4, <1>8 DEF FStringTokens
  <2>2. r \in Token /\ r.type = type /\ r.pos = n + 1
    BY <1>5, <2>1 DEF Types
  <2>3. QED
    BY <1>8, <2>1, <2>2 DEF ModeTypes, NamesMode
<1>9. CASE mode[1] = "spec" /\ r \in SpecTokens(n + 1)
  <2>1. PICK type \in {"FSTRING_MIDDLE", "LBRACE", "RBRACE"}, text \in Seq(Chars) :
            r = RawToken(type, text, n + 1)
    BY <1>1, <1>4, <1>9 DEF SpecTokens
  <2>2. r \in Token /\ r.type = type /\ r.pos = n + 1
    BY <1>5, <2>1 DEF Types
  <2>3. QED
    BY <1>9, <2>1, <2>2 DEF ModeTypes, NamesMode
<1>10. QED
  BY <1>6, <1>7, <1>8, <1>9, ModeKinds DEF Raw

---------------------------------------------------------------------------
(* One step of set_current_and_following_tokens.                            *)

(* Text is left when the last character is cut off.                         *)
LEMMA CutTokens ==
    ASSUME NEW t \in Token, EndsInLbrace(t) \/ EndsInDouble(t),
           NEW type \in Types, NEW ch \in Channels
    PROVE  Trimmed(t) \in Token /\ CutOff(t, type, ch) \in Token
<1>1. t.text \in Seq(Chars)
  BY DEF Token
<1>2. t.text # <<>>
  <2> SUFFICES ASSUME t.text = <<>> PROVE FALSE
    OBVIOUS
  <2>1. LastTwoChars(t.text) = <<>>
    BY DEF LastTwoChars
  <2>2. \A a, b : <<a, b>> # <<>>
    OBVIOUS
  <2>3. QED
    BY <2>1, <2>2 DEF EndsInLbrace, EndsInDouble
<1>3. Front(t.text) \in Seq(Chars) /\ Last(t.text) \in Chars
  BY <1>1, <1>2, FrontLast
<1>4. <<Last(t.text)>> \in Seq(Chars)
  BY <1>3, Singleton
<1>5. QED
  BY <1>3, <1>4 DEF Trimmed, CutOff, Token

(* The look-ahead token fits the mode the lexer is in.                      *)
Fits(t, f) ==
    /\ t.type \in ModeTypes(f.mode)
    /\ NamesMode(t)
    /\ t.type = "WS" => t.text \in WsTexts

KnownFault ==
    \/ fault = "no open brace" /\ cur.type = "EOF" /\ fs.mode[1] = "fstring"
    \/ fault = "no such method" /\ cur.type = "COLON" /\ InFString

LEMMA AdvanceSound ==
    ASSUME SoundState(fs), ffg \in Token, fault \in Faults,
           NEW t \in Token, Fits(t, fs),
           NEW n \in Nat, NEW q, QueueOK(q), NEW next \in ProgramCounters \ {"failed"},
           SetCurrentAndFollowing(t, n, q, next)
    PROVE  /\ cur' \in Token /\ ffg' \in Token /\ read' \in Nat
           /\ QueueOK(out')
           /\ q.pending # <<>> => out'.pending # <<>>
           /\ SoundState(fs')
           /\ \/ pc' = next /\ fault' = fault /\ Fits(ffg', fs')
              \/ pc' = "failed" /\ KnownFault' /\ fault' \in Faults
<1> DEFINE c == Checked(t)
<1>1. /\ c \in Token /\ c.type \in ModeTypes(fs.mode) /\ NamesMode(c) /\ cur' = c
      /\ CutsLbrace(t) => Trimmed(t) \in Token
  <2>1. CASE CutsLbrace(t)
    <3>1. c = CutOff(t, "LBRACE", "default") /\ EndsInLbrace(t) /\ t.type = "FSTRING_MIDDLE"
      BY <2>1 DEF CutsLbrace, Checked
    <3>2. c \in Token /\ Trimmed(t) \in Token
      BY <3>1, CutTokens DEF Types, Channels
    <3>3. c.type = "LBRACE"
      BY <3>1 DEF CutOff, Token
    <3>4. "LBRACE" \in ModeTypes(fs.mode)
      BY <3>1 DEF Fits, ModeTypes, Types
    <3>5. QED
      BY <3>2, <3>3, <3>4 DEF NamesMode, SetCurrentAndFollowing
  <2>2. CASE ~CutsLbrace(t)
    <3>1. c = t \/ (c = [t EXCEPT !.ch = "hidden"])
      BY <2>2 DEF Checked
    <3>2. c \in Token /\ c.type = t.type /\ c.text = t.text
      BY <3>1 DEF Token, Channels
    <3>3. QED
      BY <2>2, <3>2 DEF Fits, NamesMode, SetCurrentAndFollowing
  <2>3. QED
    BY <2>1, <2>2
<1>2. /\ QueueOK(out')
      /\ q.pending # <<>> => out'.pending # <<>>
  <2>1. out' = IF CutsLbrace(t) THEN AddPending(q, Trimmed(t)) ELSE q
    BY DEF SetCurrentAndFollowing
  <2>2. QED
    BY <1>1, <2>1, AddPendingOK
<1>3. ~ModeUnderflow(fs, c)
  BY <1>1, NoUnderflow
<1>4. CASE NoOpenBrace(fs, c)
  <2>1. c.type = "EOF" /\ fs.mode[1] = "fstring"
    BY <1>1, <1>4, NoBraceOnlyAtEof
  <2>2. /\ pc' = "failed" /\ fault' = "no open brace" /\ read' = n
        /\ fs' = fs /\ ffg' = ffg
    BY <1>3, <1>4 DEF SetCurrentAndFollowing, Fail
  <2>3. QED
    BY <1>1, <1>2, <2>1, <2>2 DEF KnownFault, Faults
<1>5. CASE ~NoOpenBrace(fs, c)
  <2>1. /\ fs' = ModesAfter(fs, c)
        /\ ffg' \in IF c.type = "EOF" THEN {c} ELSE Raw(ModesAfter(fs, c).mode, t, n)
        /\ read' = ffg'.pos /\ pc' = next /\ fault' = fault
    BY <1>3, <1>5 DEF SetCurrentAndFollowing, Following, Goto
  <2>2. SoundState(ModesAfter(fs, c))
    BY <1>1, <1>3, <1>5, ModesAfterSound
  <2>3. SoundState(fs') /\ ModesAfter(fs, c).mode \in Modes
    BY <2>1, <2>2 DEF SoundState, FStringState
  <2>4. ffg' \in Token /\ Fits(ffg', fs')
    <3>1. CASE c.type = "EOF"
      <4>1. ffg' = c
        BY <2>1, <3>1
      <4>2. QED
        BY <1>1, <3>1, <4>1 DEF Fits, NamesMode, ModeTypes, Types
    <3>2. CASE c.type # "EOF"
      <4>1. ffg' \in Raw(ModesAfter(fs, c).mode, t, n)
        BY <2>1, <3>2
      <4>2. QED
        BY <2>1, <2>3, <4>1, RawFacts DEF Fits
    <3>3. QED
      BY <3>1, <3>2
  <2>5. read' \in Nat
    BY <2>1, <2>4 DEF Token
  <2>6. QED
    BY <1>1, <1>2, <2>1, <2>3, <2>4, <2>5
<1>6. QED
  BY <1>4, <1>5

---------------------------------------------------------------------------
(* The inductive invariant.                                                 *)

LookaheadOK == pc \notin {"fresh", "failed"} => Fits(ffg, fs)

(* The queue is empty when pop is called only if EOF was popped before.     *)
QueueInv ==
    /\ QueueOK(out)
    /\ pc \in {"leading", "finish"} => out.pending # <<>>
    /\ (pc = "idle" /\ out.prev = "EOF" /\ out.pending = <<>>) => heard.phase = "ended"

FaultOK == pc = "failed" => KnownFault

FreshOK == pc = "fresh" => fs.mode = DEFAULT_MODE

IInv ==
    /\ TypeOK
    /\ IndentStackOK
    /\ SoundState(fs)
    /\ LookaheadOK
    /\ QueueInv
    /\ FaultOK
    /\ FreshOK

LEMMA InitIInv == Init => IInv
<1> SUFFICES ASSUME Init PROVE IInv
  OBVIOUS
<1> USE DEF Init
<1>1. \A S : <<>> \in Seq(S)
  BY EmptySeq
<1>2. EmptyQueue \in Queue /\ EmptyQueue.pending = <<>>
  BY <1>1 DEF EmptyQueue, Queue, Types
<1>3. NoFString \in FStringState
  BY <1>1, ModeKinds DEF NoFString, FStringState
<1>4. NoIndentation \in Indentation
  BY <1>1 DEF NoIndentation, Indentation
<1>5. NothingHeard \in Heard
  BY DEF NothingHeard, Heard
<1>6. TypeOK
  <2>1. pc \in ProgramCounters /\ fault \in Faults /\ reported \in BOOLEAN
    BY DEF ProgramCounters, Faults
  <2>2. read \in Nat /\ opened \in Int
    OBVIOUS
  <2>3. cur \in Token /\ ffg \in Token
    BY MadeTokens
  <2>4. QED
    BY <1>2, <1>3, <1>4, <1>5, <2>1, <2>2, <2>3 DEF TypeOK
<1>7. SoundState(NoFString)
  <2> DEFINE p == ModePath(NoFString)
  <2>1. Append(<<>>, DEFAULT_MODE) = <<DEFAULT_MODE>>
    OBVIOUS
  <2>2. p = <<DEFAULT_MODE>>
    BY <2>1 DEF ModePath, NoFString
  <2>3. Len(p) = 1 /\ p[1] = DEFAULT_MODE
    BY <2>2
  <2> HIDE DEF p
  <2>4. SoundPath(p) /\ Expressions(p) = {}
    BY <2>3 DEF SoundPath, Expressions
  <2>5. Open(NoFString) = 0
    BY <2>4, FS_EmptySet DEF Open, p
  <2>6. Len(NoFString.parens) = 0
    BY DEF NoFString
  <2>7. QED
    BY <1>3, <2>4, <2>5, <2>6 DEF SoundState, p
<1>8. QED
  BY <1>2, <1>6, <1>7
  DEF IInv, IndentStackOK, LookaheadOK, QueueInv, QueueOK, FaultOK, FreshOK, NoFString

(* Popping a queue that holds a token.                                      *)
LEMMA PopSoundQueue ==
    ASSUME TypeOK, IndentStackOK, SoundState(fs), Fits(ffg, fs),
           NEW q, QueueOK(q), q.pending # <<>>,
           Pop(q), UNCHANGED <<read, cur, ffg, fs, opened, ind, reported>>, pc # "fresh"
    PROVE  IInv'
<1>1. /\ q.pending \in Seq(Token) /\ Head(q.pending) \in Token
      /\ Tail(q.pending) \in Seq(Token) /\ Len(Tail(q.pending)) = Len(q.pending) - 1
      /\ Len(q.pending) \in Nat \ {0}
      /\ \A i \in 1..Len(Tail(q.pending)) : Tail(q.pending)[i] = q.pending[i + 1]
      /\ Head(q.pending) = q.pending[1]
  BY HeadTailProperties, EmptySeq DEF QueueOK, Queue
<1>2. /\ pc' = "idle" /\ fault' = fault
      /\ out' = [q EXCEPT !.pending = Tail(@)]
      /\ heard' = HeardAfter(heard, Head(q.pending))
  BY DEF Pop, Goto
<1>3. /\ heard' \in Heard
      /\ Head(q.pending).type = "EOF" => heard'.phase = "ended"
  BY <1>1, <1>2, HeardType DEF TypeOK
<1>4. out' \in Queue /\ out'.pending = Tail(q.pending) /\ out'.prev = q.prev
  BY <1>1, <1>2 DEF QueueOK, Queue
<1>5. Last(q.pending) = q.pending[Len(q.pending)] /\ Last(q.pending).type = q.prev
  BY DEF Last, QueueOK
<1>6. CASE Tail(q.pending) = <<>>
  <2>1. Head(q.pending) = Last(q.pending)
    <3>1. Len(Tail(q.pending)) = 0
      BY <1>1, <1>6, EmptySeq
    <3>2. Len(q.pending) = 1
      BY <1>1, <3>1
    <3>3. QED
      BY <1>1, <1>5, <3>2
  <2>2. QueueInv'
    BY <1>2, <1>3, <1>4, <1>5, <1>6, <2>1 DEF QueueInv, QueueOK
  <2>3. QED
    BY <1>2, <1>3, <1>4, <2>2
    DEF IInv, TypeOK, IndentStackOK, LookaheadOK, FaultOK, FreshOK, ProgramCounters, SoundState
<1>7. CASE Tail(q.pending) # <<>>
  <2>1. Len(Tail(q.pending)) \in 1..Len(Tail(q.pending))
    BY <1>1, <1>7, EmptySeq
  <2>2. Tail(q.pending)[Len(Tail(q.pending))] = q.pending[Len(q.pending)]
    BY <1>1, <2>1
  <2>3. QueueInv'
    BY <1>2, <1>4, <1>5, <1>7, <2>2 DEF QueueInv, QueueOK, Last
  <2>4. QED
    BY <1>2, <1>3, <1>4, <2>3
    DEF IInv, TypeOK, IndentStackOK, LookaheadOK, FaultOK, FreshOK, ProgramCounters, SoundState
<1>8. QED
  BY <1>6, <1>7

---------------------------------------------------------------------------
(* One step per action.                                                     *)

(* What advancing leaves to show: the stack and the queue at the call.      *)
LEMMA AdvanceIInv ==
    ASSUME SoundState(fs), TypeOK, NEW t \in Token, Fits(t, fs),
           NEW n \in Nat, NEW q, QueueOK(q), NEW next \in {"leading", "dispatch"},
           q.pending # <<>> \/ next = "dispatch",
           SetCurrentAndFollowing(t, n, q, next),
           ind' \in Indentation, SoundStack(ind'.stack),
           UNCHANGED <<opened, heard, reported>>
    PROVE  IInv'
<1>1. /\ ffg \in Token /\ fault \in Faults /\ opened \in Int /\ heard \in Heard
      /\ reported \in BOOLEAN /\ next \in ProgramCounters \ {"failed"}
  BY DEF TypeOK, ProgramCounters
<1>2. /\ cur' \in Token /\ ffg' \in Token /\ read' \in Nat
      /\ QueueOK(out') /\ (q.pending # <<>> => out'.pending # <<>>)
      /\ SoundState(fs')
      /\ \/ pc' = next /\ fault' = fault /\ Fits(ffg', fs')
         \/ pc' = "failed" /\ KnownFault' /\ fault' \in Faults
  BY <1>1, AdvanceSound
<1>3. pc' \in ProgramCounters /\ fault' \in Faults /\ pc' \notin {"fresh", "idle", "finish"}
  BY <1>1, <1>2 DEF ProgramCounters
<1>4. TypeOK'
  BY <1>1, <1>2, <1>3 DEF TypeOK, SoundState, QueueOK
<1>5. QueueInv'
  BY <1>2, <1>3 DEF QueueInv
<1>6. LookaheadOK' /\ FaultOK'
  BY <1>2 DEF LookaheadOK, FaultOK
<1>7. QED
  BY <1>2, <1>3, <1>4, <1>5, <1>6 DEF IInv, IndentStackOK, FreshOK

LEMMA BeginStep == IInv /\ Begin => IInv'
<1> SUFFICES ASSUME IInv, Begin PROVE IInv'
  OBVIOUS
<1>1. PICK t \in Raw(DEFAULT_MODE, NoToken, 0) :
          SetCurrentAndFollowing(t, 1, AddPending(out, ENCODING_TOKEN), "leading")
  BY DEF Begin
<1>2. fs.mode = DEFAULT_MODE /\ DEFAULT_MODE \in Modes
  BY ModeKinds DEF IInv, FreshOK, Begin
<1>3. t \in Token /\ Fits(t, fs)
  BY <1>2, RawFacts, 0 \in Nat DEF Fits
<1>4. ENCODING_TOKEN \in Token
  <2>1. MadeToken("ENCODING", <<>>) \in Token
    BY TokenType, EmptySeq, 0 \in Nat DEF Types
  <2>2. QED
    BY <2>1 DEF ENCODING_TOKEN, Token, Channels
<1> DEFINE q == AddPending(out, ENCODING_TOKEN)
<1>5. QueueOK(q) /\ q.pending # <<>>
  BY <1>4, AddPendingOK DEF IInv, QueueInv
<1>6. ind' \in Indentation /\ SoundStack(ind'.stack)
  <2>1. <<0>> \in Seq(Nat) /\ Len(<<0>>) = 1 /\ <<0>>[1] = 0 /\ <<0>> # <<>>
    BY Singleton, 0 \in Nat
  <2>2. SoundStack(<<0>>)
    BY <2>1 DEF SoundStack
  <2>3. ind \in Indentation /\ ind' = [ind EXCEPT !.stack = <<0>>]
    BY DEF IInv, TypeOK, Begin
  <2>4. ind' \in Indentation /\ ind'.stack = <<0>>
    BY <2>1, <2>3 DEF Indentation
  <2>5. QED
    BY <2>2, <2>4
<1> HIDE DEF q
<1>7. SetCurrentAndFollowing(t, 1, q, "leading")
  BY <1>1 DEF q
<1>8. SoundState(fs) /\ TypeOK /\ UNCHANGED <<opened, heard, reported>>
  BY DEF IInv, Begin
<1>9. QED
  BY <1>3, <1>5, <1>6, <1>7, <1>8, 1 \in Nat, AdvanceIInv

LEMMA SkipLeadingStep == IInv /\ SkipLeading => IInv'
<1> SUFFICES ASSUME IInv, SkipLeading PROVE IInv'
  OBVIOUS
<1> DEFINE q == HideAndAdd(out, cur)
<1>1. /\ TypeOK /\ SoundState(fs) /\ ffg \in Token /\ Fits(ffg, fs) /\ read \in Nat
      /\ ind' = ind /\ ind \in Indentation /\ SoundStack(ind.stack)
      /\ UNCHANGED <<opened, heard, reported>>
  BY DEF IInv, TypeOK, IndentStackOK, LookaheadOK, SkipLeading
<1>2. QueueOK(q) /\ q.pending # <<>>
  BY HideAndAddOK DEF IInv, TypeOK, QueueInv
<1> HIDE DEF q
<1>3. SetCurrentAndFollowing(ffg, read, q, "leading")
  BY DEF SkipLeading, q
<1>4. QED
  BY <1>1, <1>2, <1>3, AdvanceIInv

LEMMA FetchStep == IInv /\ Fetch => IInv'
<1> SUFFICES ASSUME IInv, Fetch PROVE IInv'
  OBVIOUS
<1>1. /\ TypeOK /\ SoundState(fs) /\ ffg \in Token /\ Fits(ffg, fs) /\ read \in Nat
      /\ ind' = ind /\ ind \in Indentation /\ SoundStack(ind.stack)
      /\ UNCHANGED <<opened, heard, reported>>
  BY DEF IInv, TypeOK, IndentStackOK, LookaheadOK, Fetch
<1>2. QueueOK(out) /\ SetCurrentAndFollowing(ffg, read, out, "dispatch")
  BY DEF IInv, QueueInv, Fetch
<1>3. QED
  BY <1>1, <1>2, AdvanceIInv

LEMMA EndLeadingStep == IInv /\ EndLeading => IInv'
<1> SUFFICES ASSUME IInv, EndLeading PROVE IInv'
  OBVIOUS
<1>1. /\ pc = "leading" /\ pc' = "dispatch" /\ fault' = fault
      /\ UNCHANGED <<read, cur, ffg, fs, opened, heard>>
      /\ ind' = ind \/ \E text : ind' = Measured(ind, text)
      /\ out' = out \/ out' = AddPending(out, LEADING_INDENT)
      /\ reported' \in BOOLEAN
  BY DEF EndLeading, Goto, IInv, TypeOK
<1>2. QueueOK(out')
  BY <1>1, MadeTokens, AddPendingOK DEF IInv, QueueInv
<1>3. ind' \in Indentation /\ ind'.stack = ind.stack
  BY <1>1, MeasuredType DEF IInv, TypeOK
<1>4. SoundStack(ind'.stack)
  BY <1>1, <1>3 DEF IInv, IndentStackOK
<1>5. TypeOK'
  BY <1>1, <1>2, <1>3 DEF IInv, TypeOK, QueueOK, ProgramCounters
<1>6. SoundState(fs') /\ LookaheadOK' /\ FaultOK' /\ FreshOK'
  BY <1>1 DEF IInv, LookaheadOK, FaultOK, FreshOK
<1>7. QueueInv'
  BY <1>1, <1>2 DEF QueueInv
<1>8. QED
  BY <1>4, <1>5, <1>6, <1>7 DEF IInv, IndentStackOK

(* What a case of check_next_token that raises nothing leaves to show.      *)
LEMMA DispatchIInv ==
    ASSUME IInv, pc = "dispatch", Goto("finish"),
           QueueOK(out'), out'.pending # <<>>,
           cur' \in Token, ffg' \in Token, Fits(ffg', fs), read' \in Nat, opened' \in Int,
           ind' \in Indentation, SoundStack(ind'.stack), reported' \in BOOLEAN,
           UNCHANGED <<fs, heard>>
    PROVE  IInv'
<1>1. pc' = "finish" /\ fault' = fault
  BY DEF Goto
<1>2. TypeOK'
  BY <1>1 DEF IInv, TypeOK, QueueOK, ProgramCounters
<1>3. QueueInv' /\ IndentStackOK' /\ FaultOK' /\ FreshOK' /\ LookaheadOK' /\ SoundState(fs')
  BY <1>1 DEF IInv, QueueInv, IndentStackOK, FaultOK, FreshOK, LookaheadOK
<1>4. QED
  BY <1>2, <1>3 DEF IInv

(* What holds when a case of check_next_token begins.                       *)
LEMMA AtDispatch ==
    ASSUME IInv, pc = "dispatch"
    PROVE  /\ cur \in Token /\ ffg \in Token /\ Fits(ffg, fs) /\ read \in Nat
           /\ opened \in Int /\ ind \in Indentation /\ SoundStack(ind.stack)
           /\ reported \in BOOLEAN /\ QueueOK(out) /\ SoundState(fs) /\ fs.mode \in Modes
BY DEF IInv, TypeOK, LookaheadOK, IndentStackOK, QueueInv, SoundState, FStringState

LEMMA InsertLevelsSound ==
    ASSUME NEW q, QueueOK(q), q.pending # <<>>,
           NEW i \in Indentation, SoundStack(i.stack), NEW len \in Nat,
           reported \in BOOLEAN, InsertLevels(q, i, len)
    PROVE  /\ QueueOK(out') /\ out'.pending # <<>>
           /\ ind' \in Indentation /\ SoundStack(ind'.stack)
           /\ reported' \in BOOLEAN
<1>1. i.stack \in Seq(Nat)
  BY DEF Indentation
<1>2. QueueOK(out') /\ out'.pending # <<>>
  BY <1>1, LevelTokensType, AddAllOK DEF InsertLevels
<1>3. /\ StackAfter(i.stack, len) \in Seq(Nat) /\ SoundStack(StackAfter(i.stack, len))
  BY <1>1, StackAfterSound
<1>4. Levelled(i, len) \in Indentation /\ Levelled(i, len).stack = StackAfter(i.stack, len)
  BY <1>3 DEF Levelled, Indentation
<1>5. ind' \in Indentation /\ SoundStack(ind'.stack)
  BY <1>3, <1>4 DEF InsertLevels
<1>6. reported' \in BOOLEAN
  BY DEF InsertLevels, BadDedent
<1>7. QED
  BY <1>2, <1>5, <1>6

(* The cases that only queue the current token.                             *)
LEMMA AddCurrentStep ==
    IInv /\ (NewlineInFString \/ OpenBracket \/ CloseBracket \/ ErrorToken \/ OtherToken) => IInv'
<1> SUFFICES ASSUME IInv, NewlineInFString \/ OpenBracket \/ CloseBracket \/ ErrorToken \/ OtherToken
             PROVE  IInv'
  OBVIOUS
<1>1. /\ pc = "dispatch" /\ AddCurrent
      /\ UNCHANGED <<read, cur, ffg, fs, ind, heard>>
      /\ opened' \in {opened, opened + 1, opened - 1}
      /\ reported' = reported \/ reported' = TRUE
  BY DEF NewlineInFString, OpenBracket, CloseBracket, ErrorToken, OtherToken, At
<1>2. QueueOK(out') /\ out'.pending # <<>> /\ Goto("finish")
  BY <1>1, AtDispatch, AddPendingOK DEF AddCurrent
<1>3. opened' \in Int /\ reported' \in BOOLEAN
  <2>1. opened \in Int /\ reported \in BOOLEAN
    BY <1>1, AtDispatch
  <2>2. opened' \in Int
    BY <1>1, <2>1
  <2>3. QED
    BY <1>1, <2>1, <2>2
<1>4. QED
  BY <1>1, <1>2, <1>3, AtDispatch, DispatchIInv

LEMMA NewlineInBracketsStep == IInv /\ NewlineInBrackets => IInv'
<1> SUFFICES ASSUME IInv, NewlineInBrackets PROVE IInv'
  OBVIOUS
<1>1. /\ pc = "dispatch" /\ out' = HideAndAdd(out, cur) /\ Goto("finish")
      /\ UNCHANGED <<read, cur, ffg, fs, opened, ind, heard, reported>>
  BY DEF NewlineInBrackets, At
<1>2. QueueOK(out') /\ out'.pending # <<>>
  BY <1>1, AtDispatch, HideAndAddOK
<1>3. QED
  BY <1>1, <1>2, AtDispatch, DispatchIInv

LEMMA NewlineNoWsStep == IInv /\ NewlineNoWs => IInv'
<1> SUFFICES ASSUME IInv, NewlineNoWs PROVE IInv'
  OBVIOUS
<1>1. /\ pc = "dispatch" /\ Goto("finish")
      /\ UNCHANGED <<read, cur, ffg, fs, opened, heard>>
  BY DEF NewlineNoWs, EndsLine, At
<1>2. CASE out' = HideAndAdd(out, cur) /\ UNCHANGED <<ind, reported>>
  <2>1. QueueOK(out') /\ out'.pending # <<>>
    BY <1>1, <1>2, AtDispatch, HideAndAddOK
  <2>2. QED
    BY <1>1, <1>2, <2>1, AtDispatch, DispatchIInv
<1>3. CASE InsertLevels(AddPending(out, cur), ind, 0)
  <2>1. /\ QueueOK(out') /\ out'.pending # <<>> /\ ind' \in Indentation
        /\ SoundStack(ind'.stack) /\ reported' \in BOOLEAN
    BY <1>1, <1>3, AtDispatch, AddPendingOK, InsertLevelsSound, 0 \in Nat
  <2>2. QED
    BY <1>1, <2>1, AtDispatch, DispatchIInv
<1>4. QED
  BY <1>2, <1>3 DEF NewlineNoWs

(* Every WS token has an indentation length.                                *)
LEMMA Widths == \A text \in WsTexts : IndentWidth(text) \in Nat
  BY TextAssumption, WidthOfText

LEMMA NewlineThenWsStep == IInv /\ NewlineThenWs => IInv'
<1> SUFFICES ASSUME IInv, NewlineThenWs PROVE IInv'
  OBVIOUS
<1>1. /\ pc = "dispatch" /\ Goto("finish") /\ ffg.type = "WS" /\ cur' = ffg
      /\ UNCHANGED <<fs, opened, heard>>
  BY DEF NewlineThenWs, EndsLine, At
<1>2. PICK r \in Raw(fs.mode, ffg, read) :
          /\ ffg' = r /\ read' = r.pos
          /\ \/ /\ BeforeBlank(r)
                /\ out' = AddPending(HideAndAdd(out, cur), ffg)
                /\ UNCHANGED <<ind, reported>>
             \/ /\ r.type = "EOF"
                /\ InsertLevels(AddPending(AddPending(out, cur), ffg), ind, 0)
             \/ /\ ~BeforeBlank(r) /\ r.type # "EOF" /\ ~FirstMix(ind, ffg.text)
                /\ InsertLevels(AddPending(AddPending(out, cur), ffg),
                                Measured(ind, ffg.text), IndentLength(ind, ffg.text))
             \/ /\ ~BeforeBlank(r) /\ r.type # "EOF" /\ FirstMix(ind, ffg.text)
                /\ ind' = Measured(ind, ffg.text)
                /\ out' = AddPending(AddPending(out, cur), BAD_TABS)
                /\ reported' = TRUE
  BY DEF NewlineThenWs
<1>3. r \in Token /\ Fits(r, fs) /\ r.pos \in Nat
  BY <1>1, AtDispatch, RawFacts DEF Fits, Token
<1>4. /\ ffg' \in Token /\ Fits(ffg', fs) /\ read' \in Nat /\ cur' \in Token
  BY <1>1, <1>2, <1>3, AtDispatch
<1>5. SUFFICES /\ QueueOK(out') /\ out'.pending # <<>> /\ ind' \in Indentation
               /\ SoundStack(ind'.stack) /\ reported' \in BOOLEAN
  BY <1>1, <1>4, AtDispatch, DispatchIInv
<1> DEFINE q == AddPending(AddPending(out, cur), ffg)
<1>6. QueueOK(q) /\ q.pending # <<>>
  BY <1>1, AtDispatch, AddPendingOK
<1>7. CASE /\ out' = AddPending(HideAndAdd(out, cur), ffg)
           /\ UNCHANGED <<ind, reported>>
  BY <1>1, <1>7, AtDispatch, HideAndAddOK, AddPendingOK
<1>8. CASE InsertLevels(q, ind, 0)
  BY <1>1, <1>6, <1>8, AtDispatch, InsertLevelsSound, 0 \in Nat
<1>9. CASE /\ ~FirstMix(ind, ffg.text)
           /\ InsertLevels(q, Measured(ind, ffg.text), IndentLength(ind, ffg.text))
  <2>1. ffg.text \in WsTexts
    BY <1>1, AtDispatch DEF Fits
  <2>2. IndentLength(ind, ffg.text) \in Nat
    BY <1>9, <2>1, Widths DEF IndentLength
  <2>3. /\ Measured(ind, ffg.text) \in Indentation
        /\ SoundStack(Measured(ind, ffg.text).stack)
    BY <1>1, AtDispatch, MeasuredType
  <2> HIDE DEF q
  <2>4. QED
    BY <1>1, <1>6, <1>9, <2>2, <2>3, AtDispatch, InsertLevelsSound
<1>10. CASE /\ ind' = Measured(ind, ffg.text)
            /\ out' = AddPending(AddPending(out, cur), BAD_TABS)
            /\ reported' = TRUE
  BY <1>1, <1>10, AtDispatch, MeasuredType, MadeTokens, AddPendingOK
<1>11. QED
  BY <1>2, <1>7, <1>8, <1>9, <1>10

LEMMA FStringMiddleStep == IInv /\ FStringMiddle => IInv'
<1> SUFFICES ASSUME IInv, FStringMiddle PROVE IInv'
  OBVIOUS
<1>1. /\ pc = "dispatch" /\ Goto("finish")
      /\ UNCHANGED <<read, ffg, fs, opened, ind, heard, reported>>
  BY DEF FStringMiddle, At
<1>2. cur' \in Token /\ (EndsInDouble(cur) => Trimmed(cur) \in Token)
  <2>1. CASE EndsInDouble(cur)
    <3> DEFINE type == IF Last(cur.text) = "{" THEN "LBRACE" ELSE "RBRACE"
    <3>1. type \in Types /\ "hidden" \in Channels
      BY DEF Types, Channels
    <3>2. cur' = CutOff(cur, type, "hidden")
      BY <2>1 DEF FStringMiddle
    <3> HIDE DEF type
    <3>3. QED
      BY <1>1, <2>1, <3>1, <3>2, AtDispatch, CutTokens
  <2>2. CASE ~EndsInDouble(cur)
    BY <1>1, <2>2, AtDispatch DEF FStringMiddle
  <2>3. QED
    BY <2>1, <2>2
<1>3. out' = AddPending(out, cur) \/
        (EndsInDouble(cur) /\ out' = AddPending(AddPending(out, Trimmed(cur)), cur'))
  BY DEF FStringMiddle
<1>4. QueueOK(out') /\ out'.pending # <<>>
  BY <1>1, <1>2, <1>3, AtDispatch, AddPendingOK
<1>5. QED
  BY <1>1, <1>2, <1>4, AtDispatch, DispatchIInv

LEMMA ColonEqualStep == IInv /\ ColonEqualInSpec => IInv'
<1> SUFFICES ASSUME IInv, ColonEqualInSpec PROVE IInv'
  OBVIOUS
<1>1. /\ pc = "dispatch" /\ InFString /\ cur' = [cur EXCEPT !.type = "COLON"]
      /\ out' = AddPending(out, cur')
      /\ UNCHANGED <<read, fs, opened, ind, heard, reported>>
  BY DEF ColonEqualInSpec, WalrusInSpec, At
<1>2. cur' \in Token /\ cur'.type = "COLON"
  BY <1>1, AtDispatch DEF Token, Types
<1>3. QueueOK(out') /\ out'.pending # <<>>
  BY <1>1, <1>2, AtDispatch, AddPendingOK
<1>4. CASE /\ ffg.type = "FSTRING_MIDDLE"
           /\ ffg' = [ffg EXCEPT !.text = <<"=">> \o @]
           /\ Goto("finish")
  <2>1. <<"=">> \in Seq(Chars) /\ ffg.text \in Seq(Chars)
    BY <1>1, AtDispatch, Singleton DEF Chars, Token
  <2>2. <<"=">> \o ffg.text \in Seq(Chars)
    BY <2>1, ConcatProperties
  <2>3. ffg' \in Token /\ ffg'.type = "FSTRING_MIDDLE"
    BY <1>1, <1>4, <2>2, AtDispatch DEF Token
  <2>4. Fits(ffg', fs)
    BY <1>1, <1>4, <2>3, AtDispatch DEF Fits, NamesMode
  <2>5. QED
    BY <1>1, <1>2, <1>3, <1>4, <2>3, <2>4, AtDispatch, DispatchIInv
<1>5. CASE Fail("no such method") /\ ffg' = ffg
  <2>1. pc' = "failed" /\ fault' = "no such method" /\ ffg' = ffg
    BY <1>5 DEF Fail
  <2>2. TypeOK'
    BY <1>1, <1>2, <1>3, <2>1 DEF IInv, TypeOK, QueueOK, ProgramCounters, Faults
  <2>3. KnownFault'
    BY <1>1, <1>2, <2>1 DEF KnownFault, InFString
  <2>4. /\ QueueInv' /\ IndentStackOK' /\ FaultOK' /\ FreshOK' /\ LookaheadOK'
        /\ SoundState(fs')
    BY <1>1, <1>3, <2>1, <2>3
    DEF IInv, QueueInv, IndentStackOK, FaultOK, FreshOK, LookaheadOK
  <2>5. QED
    BY <2>2, <2>4 DEF IInv
<1>6. QED
  BY <1>4, <1>5 DEF ColonEqualInSpec

LEMMA EndOfFileStep == IInv /\ EndOfFile => IInv'
<1> SUFFICES ASSUME IInv, EndOfFile PROVE IInv'
  OBVIOUS
<1>1. /\ pc = "dispatch" /\ Goto("finish")
      /\ UNCHANGED <<read, cur, ffg, fs, opened, heard>>
  BY DEF EndOfFile, At
<1>2. CASE out' = AddPending(out, cur) /\ UNCHANGED <<ind, reported>>
  <2>1. QueueOK(out') /\ out'.pending # <<>>
    BY <1>1, <1>2, AtDispatch, AddPendingOK
  <2>2. QED
    BY <1>1, <1>2, <2>1, AtDispatch, DispatchIInv
<1>3. CASE \E q \in {out, AddPending(out, TRAILING_NEWLINE)} :
             /\ out' = AddPending(AddAll(q, LevelTokens(ind.stack, 0)), cur)
             /\ ind' = Levelled(ind, 0)
             /\ reported' = (reported \/ BadDedent(ind.stack, 0))
  <2>1. PICK q \in {out, AddPending(out, TRAILING_NEWLINE)} :
             out' = AddPending(AddAll(q, LevelTokens(ind.stack, 0)), cur)
    BY <1>3
  <2>2. QueueOK(q)
    BY <1>1, AtDispatch, MadeTokens, AddPendingOK
  <2>3. ind.stack \in Seq(Nat) /\ SoundStack(ind.stack)
    BY <1>1, AtDispatch DEF Indentation
  <2>4. LevelTokens(ind.stack, 0) \in Seq(Token)
    BY <2>3, LevelTokensType, 0 \in Nat
  <2>5. QueueOK(AddAll(q, LevelTokens(ind.stack, 0)))
    BY <2>2, <2>4, AddAllOK
  <2>6. QueueOK(out') /\ out'.pending # <<>>
    BY <1>1, <2>1, <2>5, AtDispatch, AddPendingOK
  <2>7. /\ StackAfter(ind.stack, 0) \in Seq(Nat) /\ SoundStack(StackAfter(ind.stack, 0))
    BY <2>3, StackAfterSound, 0 \in Nat
  <2>8. ind' \in Indentation /\ ind'.stack = StackAfter(ind.stack, 0)
    BY <1>1, <1>3, <2>7, AtDispatch DEF Levelled, Indentation
  <2>9. reported' \in BOOLEAN
    BY <1>3 DEF BadDedent
  <2>10. QED
    BY <1>1, <2>6, <2>7, <2>8, <2>9, AtDispatch, DispatchIInv
<1>4. QED
  BY <1>2, <1>3 DEF EndOfFile

LEMMA FinishStep == IInv /\ Finish => IInv'
<1> SUFFICES ASSUME IInv, Finish PROVE IInv'
  OBVIOUS
<1>1. /\ pc = "finish" /\ TypeOK /\ IndentStackOK /\ SoundState(fs) /\ Fits(ffg, fs)
      /\ QueueOK(out) /\ out.pending # <<>>
      /\ UNCHANGED <<read, cur, ffg, fs, opened, ind, reported>>
  BY DEF IInv, LookaheadOK, QueueInv, Finish
<1>2. CASE Pop(AddPending(out, EMPTY_MIDDLE))
  <2>1. EMPTY_MIDDLE \in Token
    BY MadeTokens
  <2>2. QueueOK(AddPending(out, EMPTY_MIDDLE)) /\ AddPending(out, EMPTY_MIDDLE).pending # <<>>
    BY <1>1, <2>1, AddPendingOK
  <2>3. QED
    BY <1>1, <1>2, <2>2, PopSoundQueue
<1>3. CASE Pop(out)
  BY <1>1, <1>3, PopSoundQueue
<1>4. QED
  BY <1>2, <1>3 DEF Finish

LEMMA DrainStep == IInv /\ Drain => IInv'
<1> SUFFICES ASSUME IInv, Drain PROVE IInv'
  OBVIOUS
<1>1. /\ pc = "idle" /\ TypeOK /\ IndentStackOK /\ SoundState(fs) /\ Fits(ffg, fs)
      /\ QueueOK(out) /\ Pop(out)
      /\ UNCHANGED <<read, cur, ffg, fs, opened, ind, reported>>
  BY DEF IInv, LookaheadOK, QueueInv, Drain
<1>2. out.pending # <<>>
  BY DEF IInv, QueueInv, Drain
<1>3. QED
  BY <1>1, <1>2, PopSoundQueue

(* Reset leaves what Init starts with.                                      *)
LEMMA ResetStep == IInv /\ Reset => IInv'
<1> SUFFICES ASSUME Reset PROVE IInv'
  OBVIOUS
<1>1. Init'
  BY DEF Reset, Init
<1>2. QED
  BY <1>1, InitIInv, PTL

LEMMA StutterStep == IInv /\ UNCHANGED vars => IInv'
BY DEF vars, IInv, TypeOK, IndentStackOK, LookaheadOK, QueueInv, FaultOK, KnownFault,
       FreshOK, InFString

LEMMA NextIInv == IInv /\ [Next]_vars => IInv'
<1>1. IInv /\ Dispatch => IInv'
  BY AddCurrentStep, NewlineInBracketsStep, NewlineNoWsStep, NewlineThenWsStep,
     FStringMiddleStep, ColonEqualStep, EndOfFileStep DEF Dispatch
<1>2. QED
  BY <1>1, BeginStep, SkipLeadingStep, EndLeadingStep, FetchStep, FinishStep, DrainStep,
     ResetStep, StutterStep DEF Next, NextToken

(* The inductive invariant holds of every lexer, whatever the input.        *)
THEOREM Invariance == Spec => []IInv
BY InitIInv, NextIInv, PTL DEF Spec

(* nextToken() and its handlers keep every field of the class in its range. *)
THEOREM Typing == Spec => []TypeOK
BY Invariance, PTL DEF IInv

(* insert_INDENT_or_DEDENT: 0 stays at the bottom of the indentation stack, *)
(* and the levels above it increase.                                        *)
THEOREM IndentStack == Spec => []IndentStackOK
BY Invariance, PTL DEF IInv

LEMMA SoundStateStacks == SoundState(fs) => ModeStackOK
BY DEF SoundState, ModeStackOK, Open

(* push_lexer_mode, pop_lexer_mode, pop_by_RBRACE: literal, expression and  *)
(* format specification alternate, with one bracket count per expression.   *)
THEOREM ModeStack == Spec => []ModeStackOK
<1>1. IInv => ModeStackOK
  BY SoundStateStacks DEF IInv
<1>2. QED
  BY <1>1, Invariance, PTL

(* set_current_and_following_tokens: the token looked ahead at belongs to   *)
(* the mode the lexer has switched to.                                      *)
THEOREM Lookahead == Spec => []LookaheadInMode
<1>1. IInv => LookaheadInMode
  BY DEF IInv, LookaheadOK, Fits, LookaheadInMode
<1>2. QED
  BY <1>1, Invariance, PTL

(* nextToken() never pops an empty queue or mode stack: its exceptions are  *)
(* the two of OnlyKnownFaults.                                              *)
THEOREM KnownFaults == Spec => []OnlyKnownFaults
<1>1. IInv => OnlyKnownFaults
  BY DEF IInv, FaultOK, KnownFault, OnlyKnownFaults
<1>2. QED
  BY <1>1, Invariance, PTL
---------------------------------------------------------------------------
(* The order of the raw tokens.  The current token comes after those that   *)
(* wait in the queue, the last of which is raw token e, and the look-ahead  *)
(* token after the current one.  A brace cut off from an FSTRING_MIDDLE     *)
(* has the number of the token it was cut from.                             *)
Cut == {"LBRACE", "RBRACE"}

InOrderTo(e) ==
    /\ Ordered(Cut, ind.mixed, heard.got, out, e)
    /\ pc = "fresh" => e = 0
    /\ pc \in {"leading", "dispatch"} =>
          /\ Follows(Cut, ind.mixed, e, cur) /\ cur.pos # 0
          /\ IF cur.type = "EOF" THEN ffg.type = "EOF" ELSE ffg.pos = cur.pos + 1
    /\ pc \in {"finish", "idle"} =>
          (out.prev = "EOF" /\ ffg.type = "EOF") \/ Follows(Cut, ind.mixed, e, ffg)

OrderOK ==
    /\ pc = "fresh" => out.pending = <<>> /\ heard.got = 0
    /\ pc \notin {"fresh", "failed"} => read = ffg.pos /\ ffg.pos # 0
    /\ \E e \in Nat : InOrderTo(e)

LEMMA InitOrder == Init => OrderOK
<1> SUFFICES ASSUME Init PROVE OrderOK
  OBVIOUS
<1>1. out.pending = <<>> /\ heard.got = 0 /\ pc = "fresh"
  BY DEF Init, EmptyQueue, NothingHeard
<1>2. Ordered(Cut, ind.mixed, heard.got, out, 0)
  BY <1>1, EmptyOrdered
<1>3. InOrderTo(0)
  BY <1>1, <1>2 DEF InOrderTo
<1>4. QED
  BY <1>1, <1>3, 0 \in Nat DEF OrderOK

LEMMA OrderFacts ==
    ASSUME IInv, OrderOK, pc \notin {"fresh", "failed"}
    PROVE  /\ cur \in Token /\ ffg \in Token /\ Fits(ffg, fs) /\ out \in Queue /\ heard \in Heard
           /\ read = ffg.pos /\ ffg.pos # 0 /\ cur.pos \in Nat /\ ffg.pos \in Nat
           /\ ind \in Indentation /\ ind.stack \in Seq(Nat) /\ SoundStack(ind.stack)
BY DEF IInv, TypeOK, LookaheadOK, IndentStackOK, OrderOK, Token, Indentation

(* What is left to show of a step of nextToken().                           *)
LEMMA OrderStep ==
    ASSUME pc' \in {"leading", "dispatch", "finish", "idle"}, read' = ffg'.pos, ffg'.pos # 0,
           NEW e \in Nat, Ordered(Cut, ind'.mixed, heard'.got, out', e),
           pc' \in {"leading", "dispatch"} =>
              /\ Follows(Cut, ind'.mixed, e, cur') /\ cur'.pos # 0
              /\ IF cur'.type = "EOF" THEN ffg'.type = "EOF" ELSE ffg'.pos = cur'.pos + 1,
           pc' \in {"finish", "idle"} =>
              (out'.prev = "EOF" /\ ffg'.type = "EOF") \/ Follows(Cut, ind'.mixed, e, ffg')
    PROVE  OrderOK'
<1>1. InOrderTo(e)'
  BY DEF InOrderTo
<1>2. QED
  BY <1>1 DEF OrderOK

LEMMA FailedOrder ==
    ASSUME pc' = "failed", NEW e \in Nat, Ordered(Cut, ind'.mixed, heard'.got, out', e)
    PROVE  OrderOK'
<1>1. InOrderTo(e)'
  BY DEF InOrderTo
<1>2. QED
  BY <1>1 DEF OrderOK

(* set_current_and_following_tokens: the next raw token bears the next      *)
(* number, and the half of a cut token that is queued the number of the     *)
(* other half.                                                              *)
LEMMA AdvanceOrder ==
    ASSUME SoundState(fs), ffg \in Token, fault \in Faults,
           NEW t \in Token, Fits(t, fs), t.pos # 0, NEW q, QueueOK(q),
           NEW next \in {"leading", "dispatch"}, SetCurrentAndFollowing(t, t.pos, q, next),
           NEW e \in Nat, Ordered(Cut, ind'.mixed, heard'.got, q, e),
           Follows(Cut, ind'.mixed, e, t)
    PROVE  OrderOK'
<1> DEFINE c == Checked(t)
<1>1. t.pos \in Nat /\ q \in Queue /\ next \in ProgramCounters \ {"failed"}
  BY DEF Token, QueueOK, ProgramCounters
<1>2. /\ SoundState(fs')
      /\ \/ pc' = next /\ fault' = fault
         \/ pc' = "failed"
  BY <1>1, AdvanceSound
<1>3. c.pos = t.pos /\ cur' = c
  <2>1. Checked(t).pos = t.pos
    BY DEF Checked, CutOff, Token
  <2>2. QED
    BY <2>1 DEF SetCurrentAndFollowing
<1>4. \E d \in Nat : Ordered(Cut, ind'.mixed, heard'.got, out', d) /\ Follows(Cut, ind'.mixed, d, c)
  <2>1. CASE CutsLbrace(t)
    <3>1. /\ EndsInLbrace(t) /\ t.type = "FSTRING_MIDDLE" /\ c = CutOff(t, "LBRACE", "default")
          /\ out' = AddPending(q, Trimmed(t))
      BY <2>1 DEF CutsLbrace, Checked, SetCurrentAndFollowing
    <3>2. PICK h \in Token : h = Trimmed(t)
      BY <3>1, CutTokens DEF Types, Channels
    <3>3. h.pos = t.pos /\ h.type = t.type /\ c.type = "LBRACE"
      BY <3>1, <3>2 DEF Trimmed, CutOff, Token
    <3>4. Follows(Cut, ind'.mixed, e, h)
      BY <3>3 DEF Follows
    <3>5. Ordered(Cut, ind'.mixed, heard'.got, out', h.pos)
      <4>1. PICK m, p : m = ind'.mixed /\ p = heard'.got
        OBVIOUS
      <4>2. Ordered(Cut, m, p, AddPending(q, h), h.pos)
        BY <1>1, <3>3, <3>4, <4>1, PutRead
      <4>3. QED
        BY <3>1, <3>2, <4>1, <4>2
    <3>6. Follows(Cut, ind'.mixed, h.pos, c)
      BY <1>3, <3>3 DEF Follows, Cut
    <3>7. QED
      BY <1>1, <3>3, <3>5, <3>6
  <2>2. CASE ~CutsLbrace(t)
    <3>1. out' = q /\ c.type = t.type
      BY <2>2 DEF Checked, SetCurrentAndFollowing, Token
    <3>2. Follows(Cut, ind'.mixed, e, c)
      BY <1>3, <3>1 DEF Follows
    <3>3. QED
      BY <3>1, <3>2
  <2>3. QED
    BY <2>1, <2>2
<1>5. PICK d \in Nat : /\ Ordered(Cut, ind'.mixed, heard'.got, out', d)
                       /\ Follows(Cut, ind'.mixed, d, cur')
  BY <1>3, <1>4
<1>6. CASE pc' = "failed"
  BY <1>5, <1>6, FailedOrder
<1>7. CASE pc' # "failed"
  <2>1. /\ pc' = next /\ read' = ffg'.pos /\ fs' = ModesAfter(fs, c)
        /\ ffg' \in IF c.type = "EOF" THEN {c} ELSE Raw(ModesAfter(fs, c).mode, t, t.pos)
    BY <1>7 DEF SetCurrentAndFollowing, Following, Goto, Fail
  <2>2. ffg'.pos # 0 /\ IF cur'.type = "EOF" THEN ffg'.type = "EOF" ELSE ffg'.pos = cur'.pos + 1
    <3>1. CASE c.type = "EOF"
      BY <1>3, <2>1, <3>1
    <3>2. CASE c.type # "EOF"
      <4>1. ffg' \in Raw(fs'.mode, t, t.pos) /\ fs'.mode \in Modes
        BY <1>2, <2>1, <3>2 DEF SoundState, FStringState
      <4>2. ffg'.pos = t.pos + 1
        BY <1>1, <4>1, RawFacts
      <4>3. QED
        BY <1>1, <1>3, <3>2, <4>2
    <3>3. QED
      BY <3>1, <3>2
  <2>3. QED
    BY <1>3, <1>5, <2>1, <2>2, OrderStep
<1>8. QED
  BY <1>6, <1>7

LEMMA BeginOrder == IInv /\ OrderOK /\ Begin => OrderOK'
<1> SUFFICES ASSUME IInv, OrderOK, Begin PROVE OrderOK'
  OBVIOUS
<1>1. pc = "fresh" /\ ind'.mixed = ind.mixed /\ heard' = heard
  BY DEF Begin, IInv, TypeOK, Indentation
<1>2. PICK t \in Raw(DEFAULT_MODE, NoToken, 0) :
          SetCurrentAndFollowing(t, 1, AddPending(out, ENCODING_TOKEN), "leading")
  BY DEF Begin
<1>3. fs.mode = DEFAULT_MODE /\ DEFAULT_MODE \in Modes
  BY <1>1, ModeKinds DEF IInv, FreshOK
<1>4. t \in Token /\ Fits(t, fs) /\ t.pos = 1
  BY <1>3, RawFacts, 0 \in Nat DEF Fits
<1>5. ENCODING_TOKEN \in Token /\ ENCODING_TOKEN.pos = 0
  <2>1. MadeToken("ENCODING", <<>>) \in Token
    BY TokenType, EmptySeq, 0 \in Nat DEF Types
  <2>2. ENCODING_TOKEN.pos = 0
    BY DEF ENCODING_TOKEN, MadeToken
  <2>3. QED
    BY <2>1, <2>2 DEF ENCODING_TOKEN, Token, Channels
<1>6. QueueOK(out) /\ out \in Queue /\ out.pending = <<>> /\ heard.got = 0
  BY <1>1 DEF IInv, QueueInv, QueueOK, OrderOK
<1>7. Ordered(Cut, ind.mixed, heard.got, out, 0)
  BY <1>6, EmptyOrdered
<1>8. PICK q : q = AddPending(out, ENCODING_TOKEN)
  OBVIOUS
<1>9. QueueOK(q) /\ Ordered(Cut, ind'.mixed, heard'.got, q, 0)
  <2>1. Ordered(Cut, ind.mixed, heard.got, q, 0)
    BY <1>5, <1>6, <1>7, <1>8, PutMade
  <2>2. QED
    BY <1>1, <1>5, <1>6, <1>8, <2>1, AddPendingOK
<1>10. Follows(Cut, ind'.mixed, 0, t)
  BY <1>4 DEF Follows
<1>11. SoundState(fs) /\ ffg \in Token /\ fault \in Faults
  BY DEF IInv, TypeOK
<1>12. QED
  BY <1>2, <1>4, <1>8, <1>9, <1>10, <1>11, 0 \in Nat, AdvanceOrder

LEMMA SkipLeadingOrder == IInv /\ OrderOK /\ SkipLeading => OrderOK'
<1> SUFFICES ASSUME IInv, OrderOK, SkipLeading PROVE OrderOK'
  OBVIOUS
<1>1. /\ pc = "leading" /\ cur.type # "EOF" /\ ind' = ind /\ heard' = heard
      /\ SetCurrentAndFollowing(ffg, read, HideAndAdd(out, cur), "leading")
  BY DEF SkipLeading, BeforeStatement
<1>2. PICK e \in Nat : InOrderTo(e)
  BY DEF OrderOK
<1>3. /\ Ordered(Cut, ind.mixed, heard.got, out, e) /\ Follows(Cut, ind.mixed, e, cur)
      /\ cur.pos # 0 /\ ffg.pos = cur.pos + 1
  BY <1>1, <1>2 DEF InOrderTo
<1>4. PICK q : q = HideAndAdd(out, cur)
  OBVIOUS
<1>5. QueueOK(q) /\ Ordered(Cut, ind'.mixed, heard'.got, q, cur.pos)
  <2>1. Ordered(Cut, ind.mixed, heard.got, q, cur.pos)
    BY <1>1, <1>3, <1>4, OrderFacts, PutHidden
  <2>2. QueueOK(q)
    BY <1>4, HideAndAddOK DEF IInv, TypeOK, QueueInv
  <2>3. QED
    BY <1>1, <2>1, <2>2
<1>6. Follows(Cut, ind'.mixed, cur.pos, ffg)
  BY <1>3 DEF Follows
<1>7. SoundState(fs) /\ fault \in Faults
  BY DEF IInv, TypeOK
<1>8. QED
  BY <1>1, <1>4, <1>5, <1>6, <1>7, OrderFacts, AdvanceOrder

LEMMA FetchOrder == IInv /\ OrderOK /\ Fetch => OrderOK'
<1> SUFFICES ASSUME IInv, OrderOK, Fetch PROVE OrderOK'
  OBVIOUS
<1>1. /\ pc = "idle" /\ out.prev # "EOF" /\ ind' = ind /\ heard' = heard
      /\ SetCurrentAndFollowing(ffg, read, out, "dispatch")
  BY DEF Fetch
<1>2. PICK e \in Nat : InOrderTo(e)
  BY DEF OrderOK
<1>3. Ordered(Cut, ind.mixed, heard.got, out, e) /\ Follows(Cut, ind.mixed, e, ffg)
  BY <1>1, <1>2 DEF InOrderTo
<1>4. SoundState(fs) /\ fault \in Faults /\ QueueOK(out)
  BY DEF IInv, TypeOK, QueueInv
<1>5. QED
  BY <1>1, <1>3, <1>4, OrderFacts, AdvanceOrder

LEMMA EndLeadingOrder == IInv /\ OrderOK /\ EndLeading => OrderOK'
<1> SUFFICES ASSUME IInv, OrderOK, EndLeading PROVE OrderOK'
  OBVIOUS
<1>1. /\ pc = "leading" /\ pc' = "dispatch"
      /\ UNCHANGED <<read, cur, ffg, opened, heard>>
      /\ ind' = ind \/ \E text : ind' = Measured(ind, text)
      /\ out' = out \/ out' = AddPending(out, LEADING_INDENT)
  BY DEF EndLeading, Goto
<1>2. PICK e \in Nat : InOrderTo(e)
  BY DEF OrderOK
<1>3. /\ Ordered(Cut, ind.mixed, heard.got, out, e) /\ Follows(Cut, ind.mixed, e, cur)
      /\ cur.pos # 0 /\ IF cur.type = "EOF" THEN ffg.type = "EOF" ELSE ffg.pos = cur.pos + 1
  BY <1>1, <1>2 DEF InOrderTo
<1>4. ind.mixed => ind'.mixed
  <2>1. \A text : ind.mixed => Measured(ind, text).mixed
    BY DEF Measured
  <2>2. QED
    BY <1>1, <2>1
<1>5. LEADING_INDENT \in Token /\ LEADING_INDENT.pos = 0
  BY MadeTokens DEF LEADING_INDENT, MadeToken
<1>6. Ordered(Cut, ind.mixed, heard.got, out', e)
  BY <1>1, <1>3, <1>5, OrderFacts, PutMade
<1>7. Ordered(Cut, ind'.mixed, heard'.got, out', e)
  BY <1>1, <1>4, <1>6, OrderedMixed
<1>8. Follows(Cut, ind'.mixed, e, cur')
  BY <1>1, <1>3, <1>4 DEF Follows
<1>9. QED
  BY <1>1, <1>3, <1>7, <1>8, OrderFacts, OrderStep

(* A case of check_next_token that leaves the look-ahead token alone: the   *)
(* current token is queued, and no other raw token.                         *)
LEMMA QueuedOrder ==
    ASSUME IInv, OrderOK, pc = "dispatch", pc' = "finish",
           UNCHANGED <<read, cur, ffg, heard>>, ind'.mixed = ind.mixed,
           cur.type = "EOF" => out'.prev = "EOF",
           \A e \in Nat : Ordered(Cut, ind.mixed, heard.got, out, e) /\ Follows(Cut, ind.mixed, e, cur)
              => Ordered(Cut, ind.mixed, heard.got, out', cur.pos)
    PROVE  OrderOK'
<1>1. PICK e \in Nat : InOrderTo(e)
  BY DEF OrderOK
<1>2. /\ Ordered(Cut, ind.mixed, heard.got, out, e) /\ Follows(Cut, ind.mixed, e, cur)
      /\ cur.pos # 0 /\ IF cur.type = "EOF" THEN ffg.type = "EOF" ELSE ffg.pos = cur.pos + 1
  BY <1>1 DEF InOrderTo
<1>3. Ordered(Cut, ind'.mixed, heard'.got, out', cur.pos)
  BY <1>2
<1>4. cur.type # "EOF" => Follows(Cut, ind'.mixed, cur.pos, ffg')
  BY <1>2 DEF Follows
<1>5. QED
  BY <1>2, <1>3, <1>4, OrderFacts, OrderStep

LEMMA AddCurrentOrder ==
    IInv /\ OrderOK
      /\ (NewlineInFString \/ OpenBracket \/ CloseBracket \/ ErrorToken \/ OtherToken) => OrderOK'
<1> SUFFICES ASSUME IInv, OrderOK,
                    NewlineInFString \/ OpenBracket \/ CloseBracket \/ ErrorToken \/ OtherToken
             PROVE  OrderOK'
  OBVIOUS
<1>1. /\ pc = "dispatch" /\ pc' = "finish" /\ out' = AddPending(out, cur) /\ cur.type # "EOF"
      /\ UNCHANGED <<read, cur, ffg, ind, heard>>
  BY DEF NewlineInFString, OpenBracket, CloseBracket, ErrorToken, OtherToken, At, AddCurrent, Goto
<1>2. cur.pos # 0
  BY <1>1 DEF OrderOK, InOrderTo
<1>3. \A e \in Nat : Ordered(Cut, ind.mixed, heard.got, out, e) /\ Follows(Cut, ind.mixed, e, cur)
        => Ordered(Cut, ind.mixed, heard.got, out', cur.pos)
  BY <1>1, <1>2, OrderFacts, PutRead
<1>4. QED
  BY <1>1, <1>3, QueuedOrder

LEMMA NewlineInBracketsOrder == IInv /\ OrderOK /\ NewlineInBrackets => OrderOK'
<1> SUFFICES ASSUME IInv, OrderOK, NewlineInBrackets PROVE OrderOK'
  OBVIOUS
<1>1. /\ pc = "dispatch" /\ pc' = "finish" /\ out' = HideAndAdd(out, cur) /\ cur.type # "EOF"
      /\ UNCHANGED <<read, cur, ffg, opened, ind, heard, reported>>
  BY DEF NewlineInBrackets, At, Goto
<1>2. cur.pos # 0
  BY <1>1 DEF OrderOK, InOrderTo
<1>3. \A e \in Nat : Ordered(Cut, ind.mixed, heard.got, out, e) /\ Follows(Cut, ind.mixed, e, cur)
        => Ordered(Cut, ind.mixed, heard.got, out', cur.pos)
  BY <1>1, <1>2, OrderFacts, PutHidden
<1>4. QED
  BY <1>1, <1>3, QueuedOrder

LEMMA NewlineNoWsOrder == IInv /\ OrderOK /\ NewlineNoWs => OrderOK'
<1> SUFFICES ASSUME IInv, OrderOK, NewlineNoWs PROVE OrderOK'
  OBVIOUS
<1>1. /\ pc = "dispatch" /\ pc' = "finish" /\ cur.type # "EOF"
      /\ UNCHANGED <<read, cur, ffg, opened, heard>>
  BY DEF NewlineNoWs, EndsLine, At, Goto
<1>2. cur.pos # 0
  BY <1>1 DEF OrderOK, InOrderTo
<1>3. CASE out' = HideAndAdd(out, cur) /\ ind' = ind
  <2>1. \A e \in Nat : Ordered(Cut, ind.mixed, heard.got, out, e) /\ Follows(Cut, ind.mixed, e, cur)
          => Ordered(Cut, ind.mixed, heard.got, out', cur.pos)
    BY <1>1, <1>2, <1>3, OrderFacts, PutHidden
  <2>2. QED
    BY <1>1, <1>3, <2>1, QueuedOrder
<1>4. CASE InsertLevels(AddPending(out, cur), ind, 0)
  <2>1. /\ out' = AddAll(AddPending(out, cur), LevelTokens(ind.stack, 0))
        /\ ind'.mixed = ind.mixed
    BY <1>1, <1>4, OrderFacts DEF InsertLevels, Levelled, Indentation
  <2>2. PICK q \in Queue : q = AddPending(out, cur)
    BY <1>1, OrderFacts, AddPendingType
  <2>3. \A e \in Nat : Ordered(Cut, ind.mixed, heard.got, out, e) /\ Follows(Cut, ind.mixed, e, cur)
          => Ordered(Cut, ind.mixed, heard.got, out', cur.pos)
    <3> SUFFICES ASSUME NEW e \in Nat, Ordered(Cut, ind.mixed, heard.got, out, e),
                        Follows(Cut, ind.mixed, e, cur)
                 PROVE  Ordered(Cut, ind.mixed, heard.got, out', cur.pos)
      OBVIOUS
    <3>1. Ordered(Cut, ind.mixed, heard.got, q, cur.pos)
      BY <1>1, <1>2, <2>2, OrderFacts, PutRead
    <3>2. QED
      BY <1>1, <2>1, <2>2, <3>1, OrderFacts, 0 \in Nat, PutLevels
  <2>4. QED
    BY <1>1, <2>1, <2>3, QueuedOrder
<1>5. QED
  BY <1>3, <1>4 DEF NewlineNoWs

(* The WS token is queued behind the NEWLINE, or dropped with its number.   *)
LEMMA NewlineThenWsOrder == IInv /\ OrderOK /\ NewlineThenWs => OrderOK'
<1> SUFFICES ASSUME IInv, OrderOK, NewlineThenWs PROVE OrderOK'
  OBVIOUS
<1>1. /\ pc = "dispatch" /\ pc' = "finish" /\ cur.type # "EOF" /\ ffg.type = "WS"
      /\ UNCHANGED <<fs, opened, heard>>
  BY DEF NewlineThenWs, EndsLine, At, Goto
<1>2. PICK e \in Nat : InOrderTo(e)
  BY DEF OrderOK
<1>3. /\ Ordered(Cut, ind.mixed, heard.got, out, e) /\ Follows(Cut, ind.mixed, e, cur)
      /\ cur.pos # 0 /\ ffg.pos = cur.pos + 1
  BY <1>1, <1>2 DEF InOrderTo
<1>4. /\ out \in Queue /\ cur \in Token /\ ffg \in Token /\ ffg.pos # 0 /\ ffg.pos \in Nat
      /\ cur.pos \in Nat
      /\ ind.stack \in Seq(Nat) /\ SoundStack(ind.stack) /\ ind \in Indentation
  BY <1>1, OrderFacts
<1>a. PICK r \in Raw(fs.mode, ffg, read) : ffg' = r /\ read' = r.pos
  BY DEF NewlineThenWs
<1>5. read' = ffg'.pos /\ ffg'.pos # 0 /\ ffg'.pos = ffg.pos + 1
  <2>1. fs.mode \in Modes /\ read \in Nat /\ read = ffg.pos
    BY <1>1, AtDispatch, OrderFacts
  <2>2. r.pos = read + 1
    BY <2>1, RawFacts
  <2>3. QED
    BY <1>a, <2>1, <2>2
<1>6. PICK q1 \in Queue : q1 = AddPending(out, cur)
  BY <1>4, AddPendingType
<1>7. PICK q2 \in Queue : q2 = AddPending(q1, ffg)
  BY <1>4, AddPendingType
<1>8. Follows(Cut, ind.mixed, cur.pos, ffg)
  BY <1>3 DEF Follows
<1>9. Ordered(Cut, ind.mixed, heard.got, q1, cur.pos)
  BY <1>3, <1>4, <1>6, PutRead
<1>10. Ordered(Cut, ind.mixed, heard.got, q2, ffg.pos)
  BY <1>4, <1>7, <1>8, <1>9, PutRead
<1>11. CASE /\ out' = AddPending(HideAndAdd(out, cur), ffg)
            /\ ind' = ind
  <2>1. PICK h \in Queue : h = HideAndAdd(out, cur)
    <3>1. [cur EXCEPT !.ch = "hidden"] \in Token
      BY <1>4 DEF Token, Channels
    <3>2. QED
      BY <1>4, <3>1, AddPendingType DEF HideAndAdd
  <2>2. Ordered(Cut, ind.mixed, heard.got, h, cur.pos)
    BY <1>3, <1>4, <2>1, PutHidden
  <2>3. Ordered(Cut, ind.mixed, heard.got, out', ffg.pos)
    BY <1>4, <1>8, <1>11, <2>1, <2>2, PutRead
  <2>4. Follows(Cut, ind'.mixed, ffg.pos, ffg')
    BY <1>5 DEF Follows
  <2>5. QED
    BY <1>1, <1>4, <1>5, <1>11, <2>3, <2>4, OrderStep
<1>12. CASE \E i \in Indentation, len \in Nat :
              /\ i.stack = ind.stack /\ (ind.mixed => i.mixed)
              /\ InsertLevels(q2, i, len)
  <2>1. PICK i \in Indentation, len \in Nat :
              /\ i.stack = ind.stack /\ (ind.mixed => i.mixed)
              /\ InsertLevels(q2, i, len)
    BY <1>12
  <2>2. out' = AddAll(q2, LevelTokens(ind.stack, len)) /\ ind'.mixed = i.mixed
    BY <2>1 DEF InsertLevels, Levelled, Indentation
  <2>3. Ordered(Cut, ind.mixed, heard.got, out', ffg.pos)
    BY <1>4, <1>10, <2>1, <2>2, PutLevels
  <2>4. Ordered(Cut, ind'.mixed, heard.got, out', ffg.pos)
    BY <2>1, <2>2, <2>3, OrderedMixed
  <2>5. Follows(Cut, ind'.mixed, ffg.pos, ffg')
    BY <1>5 DEF Follows
  <2>6. QED
    BY <1>1, <1>4, <1>5, <2>4, <2>5, OrderStep
<1>13. CASE /\ FirstMix(ind, ffg.text)
            /\ ind' = Measured(ind, ffg.text)
            /\ out' = AddPending(AddPending(out, cur), BAD_TABS)
  <2>1. ind'.mixed
    BY <1>13 DEF Measured
  <2>2. BAD_TABS \in Token /\ BAD_TABS.pos = 0
    BY MadeTokens DEF BAD_TABS, MadeToken
  <2>3. Ordered(Cut, ind.mixed, heard.got, out', cur.pos)
    BY <1>6, <1>9, <1>13, <2>2, PutMade
  <2>4. Ordered(Cut, ind'.mixed, heard.got, out', cur.pos)
    BY <2>1, <2>3, OrderedMixed
  <2>5. Follows(Cut, ind'.mixed, cur.pos, ffg')
    BY <1>3, <1>4, <1>5, <2>1 DEF Follows
  <2>6. QED
    BY <1>1, <1>4, <1>5, <2>4, <2>5, OrderStep
<1>14. InsertLevels(AddPending(AddPending(out, cur), ffg), ind, 0) =>
         \E i \in Indentation, len \in Nat :
              /\ i.stack = ind.stack /\ (ind.mixed => i.mixed)
              /\ InsertLevels(q2, i, len)
  BY <1>4, <1>6, <1>7, 0 \in Nat
<1>15. ~FirstMix(ind, ffg.text)
         /\ InsertLevels(AddPending(AddPending(out, cur), ffg),
                         Measured(ind, ffg.text), IndentLength(ind, ffg.text)) =>
         \E i \in Indentation, len \in Nat :
              /\ i.stack = ind.stack /\ (ind.mixed => i.mixed)
              /\ InsertLevels(q2, i, len)
  <2> SUFFICES ASSUME ~FirstMix(ind, ffg.text),
                      InsertLevels(q2, Measured(ind, ffg.text), IndentLength(ind, ffg.text))
               PROVE  \E i \in Indentation, len \in Nat :
                         /\ i.stack = ind.stack /\ (ind.mixed => i.mixed)
                         /\ InsertLevels(q2, i, len)
    BY <1>6, <1>7
  <2>1. ffg.text \in WsTexts
    BY <1>1, AtDispatch DEF Fits
  <2>2. IndentLength(ind, ffg.text) \in Nat
    BY <2>1, Widths DEF IndentLength
  <2>3. /\ Measured(ind, ffg.text) \in Indentation
        /\ Measured(ind, ffg.text).stack = ind.stack
    BY <1>4, MeasuredType
  <2>4. ind.mixed => Measured(ind, ffg.text).mixed
    BY DEF Measured
  <2>5. QED
    BY <2>2, <2>3, <2>4
<1>16. QED
  BY <1>11, <1>12, <1>13, <1>14, <1>15 DEF NewlineThenWs

LEMMA EndOfFileOrder == IInv /\ OrderOK /\ EndOfFile => OrderOK'
<1> SUFFICES ASSUME IInv, OrderOK, EndOfFile PROVE OrderOK'
  OBVIOUS
<1>1. /\ pc = "dispatch" /\ pc' = "finish" /\ cur.type = "EOF"
      /\ UNCHANGED <<read, cur, ffg, opened, heard>>
  BY DEF EndOfFile, At, Goto
<1>2. cur.pos # 0
  BY <1>1 DEF OrderOK, InOrderTo
<1>3. CASE out' = AddPending(out, cur) /\ ind' = ind
  <2>1. \A e \in Nat : Ordered(Cut, ind.mixed, heard.got, out, e) /\ Follows(Cut, ind.mixed, e, cur)
          => Ordered(Cut, ind.mixed, heard.got, out', cur.pos)
    BY <1>1, <1>2, <1>3, OrderFacts, PutRead
  <2>2. out'.prev = "EOF"
    BY <1>1, <1>3 DEF AddPending
  <2>3. QED
    BY <1>1, <1>3, <2>1, <2>2, QueuedOrder
<1>4. CASE /\ \E q \in {out, AddPending(out, TRAILING_NEWLINE)} :
                out' = AddPending(AddAll(q, LevelTokens(ind.stack, 0)), cur)
           /\ ind' = Levelled(ind, 0)
  <2>1. TRAILING_NEWLINE \in Token /\ TRAILING_NEWLINE.pos = 0
    BY MadeTokens DEF TRAILING_NEWLINE, MadeToken
  <2>2. PICK q \in Queue : /\ q \in {out, AddPending(out, TRAILING_NEWLINE)}
                           /\ out' = AddPending(AddAll(q, LevelTokens(ind.stack, 0)), cur)
    BY <1>1, <1>4, <2>1, OrderFacts, AddPendingType
  <2>3. ind.stack \in Seq(Nat) /\ SoundStack(ind.stack) /\ ind'.mixed = ind.mixed
    BY <1>1, <1>4, OrderFacts DEF Levelled, Indentation
  <2>4. PICK r \in Queue : r = AddAll(q, LevelTokens(ind.stack, 0))
    <3>1. LevelTokens(ind.stack, 0) \in Seq(Token)
      BY <2>3, LevelTokensType, 0 \in Nat
    <3>2. QED
      BY <3>1, AddAllType
  <2>5. out' = AddPending(r, cur) /\ out'.prev = "EOF"
    BY <1>1, <1>4, <2>2, <2>4 DEF AddPending
  <2>6. \A e \in Nat : Ordered(Cut, ind.mixed, heard.got, out, e) /\ Follows(Cut, ind.mixed, e, cur)
          => Ordered(Cut, ind.mixed, heard.got, out', cur.pos)
    <3> SUFFICES ASSUME NEW e \in Nat, Ordered(Cut, ind.mixed, heard.got, out, e),
                        Follows(Cut, ind.mixed, e, cur)
                 PROVE  Ordered(Cut, ind.mixed, heard.got, out', cur.pos)
      OBVIOUS
    <3>1. Ordered(Cut, ind.mixed, heard.got, q, e)
      BY <1>1, <2>1, <2>2, OrderFacts, PutMade
    <3>2. Ordered(Cut, ind.mixed, heard.got, r, e)
      BY <2>3, <2>4, <3>1, 0 \in Nat, PutLevels
    <3>3. QED
      BY <1>1, <1>2, <2>5, <3>2, OrderFacts, PutRead
  <2>7. QED
    BY <1>1, <2>3, <2>5, <2>6, QueuedOrder
<1>5. QED
  BY <1>3, <1>4 DEF EndOfFile

(* Both halves of a text that ends in a double brace are queued.            *)
LEMMA FStringMiddleOrder == IInv /\ OrderOK /\ FStringMiddle => OrderOK'
<1> SUFFICES ASSUME IInv, OrderOK, FStringMiddle PROVE OrderOK'
  OBVIOUS
<1>1. /\ pc = "dispatch" /\ pc' = "finish" /\ cur.type = "FSTRING_MIDDLE"
      /\ UNCHANGED <<read, ffg, fs, opened, ind, heard, reported>>
  BY DEF FStringMiddle, At, Goto
<1>2. PICK e \in Nat : InOrderTo(e)
  BY DEF OrderOK
<1>3. /\ Ordered(Cut, ind.mixed, heard.got, out, e) /\ Follows(Cut, ind.mixed, e, cur)
      /\ cur.pos # 0 /\ ffg.pos = cur.pos + 1
  BY <1>1, <1>2 DEF InOrderTo
<1>4. Ordered(Cut, ind.mixed, heard.got, out', cur.pos)
  <2>1. CASE out' = AddPending(out, cur)
    BY <1>1, <1>3, <2>1, OrderFacts, PutRead
  <2>2. CASE EndsInDouble(cur) /\ out' = AddPending(AddPending(out, Trimmed(cur)), cur')
    <3>1. PICK type \in Cut : cur' = CutOff(cur, type, "hidden")
      BY <2>2 DEF FStringMiddle, Cut
    <3>2. PICK h \in Token, b \in Token : h = Trimmed(cur) /\ b = cur'
      BY <1>1, <2>2, <3>1, OrderFacts, CutTokens DEF Cut, Types, Channels
    <3>3. h.pos = cur.pos /\ h.type = cur.type /\ b.pos = cur.pos /\ b.type \in Cut
      BY <1>1, <3>1, <3>2, OrderFacts DEF Trimmed, CutOff, Token
    <3>4. PICK q \in Queue : q = AddPending(out, h)
      BY <1>1, OrderFacts, AddPendingType
    <3>5. Follows(Cut, ind.mixed, e, h)
      BY <1>3, <3>3 DEF Follows
    <3>6. Ordered(Cut, ind.mixed, heard.got, q, cur.pos)
      BY <1>1, <1>3, <3>3, <3>4, <3>5, OrderFacts, PutRead
    <3>7. Follows(Cut, ind.mixed, cur.pos, b)
      BY <3>3 DEF Follows
    <3>8. Ordered(Cut, ind.mixed, heard.got, AddPending(q, b), cur.pos)
      BY <1>3, <3>3, <3>6, <3>7, PutRead
    <3>9. QED
      BY <2>2, <3>2, <3>4, <3>8
  <2>3. QED
    BY <2>1, <2>2 DEF FStringMiddle
<1>5. Follows(Cut, ind'.mixed, cur.pos, ffg')
  BY <1>1, <1>3 DEF Follows
<1>6. QED
  BY <1>1, <1>3, <1>4, <1>5, OrderFacts, OrderStep

LEMMA ColonEqualOrder == IInv /\ OrderOK /\ ColonEqualInSpec => OrderOK'
<1> SUFFICES ASSUME IInv, OrderOK, ColonEqualInSpec PROVE OrderOK'
  OBVIOUS
<1>1. /\ pc = "dispatch" /\ cur.type = "COLONEQUAL" /\ cur' = [cur EXCEPT !.type = "COLON"]
      /\ out' = AddPending(out, cur')
      /\ UNCHANGED <<read, fs, opened, ind, heard, reported>>
  BY DEF ColonEqualInSpec, WalrusInSpec, At
<1>2. PICK e \in Nat : InOrderTo(e)
  BY DEF OrderOK
<1>3. /\ Ordered(Cut, ind.mixed, heard.got, out, e) /\ Follows(Cut, ind.mixed, e, cur)
      /\ cur.pos # 0 /\ ffg.pos = cur.pos + 1
  BY <1>1, <1>2 DEF InOrderTo
<1>4. PICK c \in Token : c = cur' /\ c.pos = cur.pos
  BY <1>1, OrderFacts DEF Token, Types
<1>5. Follows(Cut, ind.mixed, e, c)
  BY <1>1, <1>3, <1>4 DEF Follows, Cut
<1>6. Ordered(Cut, ind.mixed, heard.got, out', cur.pos)
  BY <1>1, <1>3, <1>4, <1>5, OrderFacts, PutRead
<1>7. CASE pc' = "failed"
  BY <1>1, <1>6, <1>7, OrderFacts, FailedOrder
<1>8. CASE pc' = "finish" /\ ffg' = [ffg EXCEPT !.text = <<"=">> \o @]
  <2>1. ffg'.pos = ffg.pos
    BY <1>1, <1>8, OrderFacts DEF Token
  <2>2. Follows(Cut, ind'.mixed, cur.pos, ffg')
    BY <1>1, <1>3, <2>1 DEF Follows
  <2>3. QED
    BY <1>1, <1>6, <1>8, <2>1, <2>2, OrderFacts, OrderStep
<1>9. QED
  BY <1>7, <1>8 DEF ColonEqualInSpec, Fail, Goto

LEMMA PopsInOrder ==
    ASSUME IInv, OrderOK, pc \in {"finish", "idle"}, NEW q \in Queue, q.pending # <<>>,
           q.prev = out.prev \/ ffg.type # "EOF",
           \A e : Ordered(Cut, ind.mixed, heard.got, out, e)
                    => Ordered(Cut, ind.mixed, heard.got, q, e),
           Pop(q), UNCHANGED <<read, cur, ffg, fs, opened, ind, reported>>
    PROVE  OrderOK'
<1>1. /\ pc' = "idle" /\ out' = [q EXCEPT !.pending = Tail(@)]
      /\ heard' = HeardAfter(heard, Head(q.pending))
  BY DEF Pop, Goto
<1>2. PICK e \in Nat : InOrderTo(e)
  BY DEF OrderOK
<1>3. Ordered(Cut, ind.mixed, heard.got, q, e)
  BY <1>2 DEF InOrderTo
<1>4. Ordered(Cut, ind'.mixed, heard'.got, out', e)
  BY <1>1, <1>3, OrderFacts, TakeHead
<1>5. (out'.prev = "EOF" /\ ffg'.type = "EOF") \/ Follows(Cut, ind'.mixed, e, ffg')
  <2>1. out'.prev = q.prev
    BY <1>1 DEF Queue
  <2>2. QED
    BY <1>2, <2>1 DEF InOrderTo
<1>6. QED
  BY <1>1, <1>4, <1>5, OrderFacts, OrderStep

LEMMA FinishOrder == IInv /\ OrderOK /\ Finish => OrderOK'
<1> SUFFICES ASSUME IInv, OrderOK, Finish PROVE OrderOK'
  OBVIOUS
<1>1. pc = "finish" /\ UNCHANGED <<read, cur, ffg, fs, opened, ind, reported>>
  BY DEF Finish
<1>2. out \in Queue /\ out.pending # <<>>
  BY <1>1 DEF IInv, QueueInv, QueueOK
<1>3. CASE MayFill /\ Pop(AddPending(out, EMPTY_MIDDLE))
  <2>1. EMPTY_MIDDLE \in Token /\ EMPTY_MIDDLE.pos = 0
    BY MadeTokens DEF EMPTY_MIDDLE, MadeToken
  <2>2. PICK q \in Queue : q = AddPending(out, EMPTY_MIDDLE) /\ q.pending # <<>>
    BY <1>2, <2>1, AddPendingType
  <2>3. \A e : Ordered(Cut, ind.mixed, heard.got, out, e)
                 => Ordered(Cut, ind.mixed, heard.got, q, e)
    BY <1>2, <2>1, <2>2, PutMade
  <2>4. ffg.type # "EOF"
    BY <1>3 DEF MayFill
  <2>5. QED
    BY <1>1, <1>3, <2>2, <2>3, <2>4, PopsInOrder
<1>4. CASE Pop(out)
  BY <1>1, <1>2, <1>4, PopsInOrder
<1>5. QED
  BY <1>3, <1>4 DEF Finish

LEMMA DrainOrder == IInv /\ OrderOK /\ Drain => OrderOK'
<1> SUFFICES ASSUME IInv, OrderOK, Drain PROVE OrderOK'
  OBVIOUS
<1>1. pc = "idle" /\ Pop(out) /\ UNCHANGED <<read, cur, ffg, fs, opened, ind, reported>>
  BY DEF Drain
<1>2. out \in Queue /\ out.pending # <<>>
  BY DEF IInv, QueueInv, QueueOK, Drain
<1>3. QED
  BY <1>1, <1>2, PopsInOrder

LEMMA ResetOrder == Reset => OrderOK'
<1> SUFFICES ASSUME Reset PROVE OrderOK'
  OBVIOUS
<1>1. Init'
  BY DEF Reset, Init
<1>2. QED
  BY <1>1, InitOrder, PTL

LEMMA NextOrder == IInv /\ OrderOK /\ [Next]_vars => OrderOK'
<1>1. OrderOK /\ UNCHANGED vars => OrderOK'
  BY DEF vars, OrderOK, InOrderTo
<1>2. IInv /\ OrderOK /\ Dispatch => OrderOK'
  BY AddCurrentOrder, NewlineInBracketsOrder, NewlineNoWsOrder, NewlineThenWsOrder,
     FStringMiddleOrder, ColonEqualOrder, EndOfFileOrder DEF Dispatch
<1>3. QED
  BY <1>1, <1>2, BeginOrder, SkipLeadingOrder, EndLeadingOrder, FetchOrder, FinishOrder,
     DrainOrder, ResetOrder DEF Next, NextToken

LEMMA OrderedTokens == IInv /\ OrderOK => RawTokensInOrder
<1> SUFFICES ASSUME IInv, OrderOK PROVE RawTokensInOrder
  OBVIOUS
<1>1. PICK e \in Nat : InOrderTo(e)
  BY DEF OrderOK
<1>2. Ordered(Cut, ind.mixed, heard.got, out, e)
  BY <1>1 DEF InOrderTo
<1>3. cur \in Token /\ ffg \in Token /\ out \in Queue
  BY DEF IInv, TypeOK
<1>4. InHand = <<>> \/ \E t \in Token : InHand = <<t>> /\ Follows(Cut, ind.mixed, e, t)
  BY <1>1, <1>3 DEF InHand, InOrderTo
<1>5. Ahead = <<>> \/ \E t \in Token : /\ Ahead = <<t>>
          /\ Follows(Cut, ind.mixed, IF InHand = <<>> THEN e ELSE InHand[1].pos, t)
  <2>1. CASE pc \in {"fresh", "failed"} \/ ffg.type = "EOF"
    BY <2>1 DEF Ahead
  <2>2. CASE pc \in {"leading", "dispatch"} /\ ffg.type # "EOF"
    <3>1. Ahead = <<ffg>> /\ InHand = <<cur>> /\ InHand # <<>> /\ InHand[1] = cur
      BY <2>2 DEF Ahead, InHand
    <3>2. Follows(Cut, ind.mixed, cur.pos, ffg)
      BY <1>1, <2>2 DEF InOrderTo, Follows
    <3>3. QED
      BY <1>3, <3>1, <3>2
  <2>3. CASE pc \in {"finish", "idle"} /\ ffg.type # "EOF"
    <3>1. Ahead = <<ffg>> /\ InHand = <<>>
      BY <2>3 DEF Ahead, InHand
    <3>2. Follows(Cut, ind.mixed, e, ffg)
      BY <1>1, <2>3 DEF InOrderTo
    <3>3. QED
      BY <1>3, <3>1, <3>2
  <2>4. QED
    BY <2>1, <2>2, <2>3 DEF IInv, TypeOK, ProgramCounters
<1>6. InOrder(Cut, ind.mixed, heard.got, Waiting(out) \o InHand \o Ahead)
  BY <1>2, <1>3, <1>4, <1>5, OrderOfTwo
<1>7. PICK s \in Seq(Token) : s = OnTheWay /\ InOrder(Cut, ind.mixed, heard.got, s)
  <2>1. PICK w \in Seq(Token), h \in Seq(Token), a \in Seq(Token) :
          w = Waiting(out) /\ h = InHand /\ a = Ahead
    <3>1. InHand \in Seq(Token) /\ Ahead \in Seq(Token)
      BY <1>3, Singleton, EmptySeq DEF InHand, Ahead
    <3>2. QED
      BY <1>3, <3>1, WaitingType
  <2>2. w \o h \o a \in Seq(Token)
    BY ConcatProperties
  <2>3. QED
    BY <1>6, <2>1, <2>2 DEF OnTheWay, Waiting
<1>8. \A i \in DOMAIN s : i \in 1..Len(s)
  BY LenProperties
<1>9. QED
  BY <1>7, <1>8 DEF RawTokensInOrder, InOrder, Follows, Cut

(* nextToken() and its handlers: every raw token is returned once, in the   *)
(* order it was read, whatever is hidden, inserted, looked ahead at or cut  *)
(* in two; one WS token is lost, the first to mix tabs and spaces.          *)
THEOREM Order == Spec => []RawTokensInOrder
<1>1. Spec => []OrderOK
  BY InitOrder, NextOrder, Invariance, PTL DEF Spec
<1>2. QED
  BY <1>1, OrderedTokens, Invariance, PTL
---------------------------------------------------------------------------
(* The stream of tokens.  The tokens in the queue lead the caller to a      *)
(* state e of the stream that agrees with the lexer's own counts.           *)
Kinds == [open  |-> {t \in Token : t.type \in {"LPAR", "LBRACE"} /\ t.ch = "default"},
          close |-> {t \in Token : t.type \in {"RPAR", "RBRACE"} /\ t.ch = "default"},
          begin |-> {t \in Token : t.type = "FSTRING_START" /\ t.ch = "default"},
          end   |-> {t \in Token : t.type = "FSTRING_END" /\ t.ch = "default"}]

LEMMA KindsFacts ==
    /\ GoodKinds(Kinds)
    /\ \A t \in Token :
          /\ t \in Kinds.open <=> t.type \in {"LPAR", "LBRACE"} /\ t.ch = "default"
          /\ t \in Kinds.close <=> t.type \in {"RPAR", "RBRACE"} /\ t.ch = "default"
          /\ t \in Kinds.begin <=> t.type = "FSTRING_START" /\ t.ch = "default"
          /\ t \in Kinds.end <=> t.type = "FSTRING_END" /\ t.ch = "default"
          /\ t \in Counted(Kinds) => t.ch = "default"
<1>1. /\ Kinds.open = {t \in Token : t.type \in {"LPAR", "LBRACE"} /\ t.ch = "default"}
      /\ Kinds.close = {t \in Token : t.type \in {"RPAR", "RBRACE"} /\ t.ch = "default"}
      /\ Kinds.begin = {t \in Token : t.type = "FSTRING_START" /\ t.ch = "default"}
      /\ Kinds.end = {t \in Token : t.type = "FSTRING_END" /\ t.ch = "default"}
  BY DEF Kinds
<1>2. GoodKinds(Kinds)
  BY <1>1 DEF GoodKinds
<1>3. QED
  BY <1>1, <1>2 DEF Counted

(* The literals entered and not left.                                       *)
LiteralModes == {m \in Modes : m[1] = "fstring"}

Literals(f) == Number(ModePath(f), LiteralModes)

LEMMA LiteralsType ==
    ASSUME NEW f \in FStringState
    PROVE  /\ Literals(f) \in Nat
           /\ Literals(f) = Cardinality({i \in DOMAIN ModePath(f) : ModePath(f)[i][1] = "fstring"})
<1>1. PICK p \in Seq(Modes) : p = ModePath(f)
  BY PathFacts
<1>2. \A i \in DOMAIN p : p[i] \in Modes
  BY LenProperties, ElementOfSeq
<1>3. {i \in DOMAIN p : p[i] \in LiteralModes} = {i \in DOMAIN p : p[i][1] = "fstring"}
  BY <1>2 DEF LiteralModes
<1>4. Number(p, LiteralModes) \in Nat
  BY NumberType
<1>5. QED
  BY <1>1, <1>3, <1>4 DEF Literals, Number

LEMMA LiteralsPush ==
    ASSUME NEW f \in FStringState, NEW m \in Modes
    PROVE  Literals(PushMode(f, m)) = Literals(f) + IF m[1] = "fstring" THEN 1 ELSE 0
<1>1. PICK p \in Seq(Modes) : p = ModePath(f)
  BY PathFacts
<1>2. ModePath(PushMode(f, m)) = Append(p, m)
  BY <1>1 DEF PushMode, ModePath, FStringState
<1>3. Number(Append(p, m), LiteralModes) = Number(p, LiteralModes) + IF m \in LiteralModes THEN 1 ELSE 0
  BY NumberAppend
<1>4. m \in LiteralModes <=> m[1] = "fstring"
  BY DEF LiteralModes
<1>5. QED
  BY <1>1, <1>2, <1>3, <1>4 DEF Literals

LEMMA LiteralsPop ==
    ASSUME NEW f \in FStringState, SoundPath(ModePath(f)), f.modes # <<>>
    PROVE  Literals(f) = Literals(PopMode(f)) + IF f.mode[1] = "fstring" THEN 1 ELSE 0
<1>1. PICK s \in Seq(Modes), m \in Modes : s = f.modes /\ m = f.mode
  BY DEF FStringState
<1>2. ModePath(PopMode(f)) = s /\ ModePath(f) = Append(s, m)
  BY <1>1, PopSound DEF ModePath
<1>3. Number(Append(s, m), LiteralModes) = Number(s, LiteralModes) + IF m \in LiteralModes THEN 1 ELSE 0
  BY NumberAppend
<1>4. m \in LiteralModes <=> m[1] = "fstring"
  BY DEF LiteralModes
<1>5. QED
  BY <1>1, <1>2, <1>3, <1>4 DEF Literals

LEMMA NoLiterals ==
    ASSUME NEW f, SoundState(f), f.modes = <<>>
    PROVE  Literals(f) = 0 /\ f.mode = DEFAULT_MODE
<1>1. f \in FStringState /\ f.mode \in Modes
  BY PathFacts DEF SoundState
<1>2. f.mode = DEFAULT_MODE
  <2>1. Len(f.modes) + 1 = 1
    OBVIOUS
  <2>2. ModePath(f)[Len(f.modes) + 1] = f.mode
    BY <1>1, PathFacts
  <2>3. QED
    BY <2>1, <2>2 DEF SoundState, SoundPath
<1>3. <<>> \in Seq(Modes) /\ DEFAULT_MODE \notin LiteralModes /\ DEFAULT_MODE \in Modes
  BY EmptySeq, ModeKinds DEF LiteralModes
<1>4. Number(Append(<<>>, DEFAULT_MODE), LiteralModes)
        = Number(<<>>, LiteralModes) + IF DEFAULT_MODE \in LiteralModes THEN 1 ELSE 0
  BY <1>3, NumberAppend
<1>5. Number(<<>>, LiteralModes) = 0
  BY NumberEmpty, Zenon
<1>6. ModePath(f) = Append(<<>>, DEFAULT_MODE)
  BY <1>2 DEF ModePath
<1>7. QED
  BY <1>2, <1>3, <1>4, <1>5, <1>6 DEF Literals

(* check_cur_token counts a literal when it enters or leaves its mode.      *)
LEMMA LiteralsAfter ==
    ASSUME NEW f, SoundState(f),
           NEW t \in Token, t.type \in ModeTypes(f.mode), NamesMode(t),
           ~ModeUnderflow(f, t), ~NoOpenBrace(f, t)
    PROVE  /\ Literals(ModesAfter(f, t)) =
                 IF t.type = "FSTRING_START" THEN Literals(f) + 1
                 ELSE IF t.type = "FSTRING_END" THEN Literals(f) - 1 ELSE Literals(f)
           /\ f.modes = <<>> => ModesAfter(f, t).modes = <<>> \/ t.type = "FSTRING_START"
<1> DEFINE g == ModesAfter(f, t)
<1>1. f \in FStringState /\ SoundPath(ModePath(f)) /\ f.mode \in Modes /\ Literals(f) \in Nat
  BY LiteralsType, PathFacts DEF SoundState
<1>2. \A h : h.mode = f.mode /\ h.modes = f.modes => Literals(h) = Literals(f)
  BY DEF Literals, ModePath
<1>3. f.modes = <<>> => f.mode = DEFAULT_MODE
  BY NoLiterals
<1>4. CASE t.type = "FSTRING_START"
  <2>1. PICK q \in Quotes : t.text = <<q>>
    BY <1>4 DEF NamesMode
  <2>2. g = PushMode(f, FSTRING_MODE(q))
    BY <1>4, <2>1 DEF ModesAfter
  <2>3. FSTRING_MODE(q) \in Modes /\ FSTRING_MODE(q)[1] = "fstring"
    BY ModeKinds
  <2>4. Literals(g) = Literals(f) + 1
    BY <1>1, <2>2, <2>3, LiteralsPush
  <2>5. QED
    BY <1>4, <2>4
<1>5. CASE t.type = "FSTRING_END"
  <2>1. f.modes # <<>> /\ g = PopMode(f)
    BY <1>5 DEF ModesAfter, ModeUnderflow
  <2>2. f.mode[1] = "fstring"
    BY <1>1, <1>5, ModeKinds DEF ModeTypes
  <2>3. PopMode(f) \in FStringState
    BY <1>1, <2>1, PopSound
  <2>4. Literals(f) = Literals(g) + 1 /\ Literals(g) \in Nat
    BY <1>1, <2>1, <2>2, <2>3, LiteralsPop, LiteralsType
  <2>5. Literals(g) = Literals(f) - 1
    BY <2>4
  <2>6. QED
    BY <1>5, <2>1, <2>5
<1>6. CASE f.modes = <<>> /\ t.type \notin {"FSTRING_START", "FSTRING_END"}
  BY <1>6 DEF ModesAfter
<1>7. CASE f.modes # <<>> /\ t.type = "LBRACE"
  <2>1. PICK h : h = [f EXCEPT !.parens = Append(@, 0)]
    OBVIOUS
  <2>2. h \in FStringState /\ h.mode = f.mode /\ h.modes = f.modes
    <3>1. Append(f.parens, 0) \in Seq(Int)
      BY <1>1, PathFacts, AppendProperties
    <3>2. QED
      BY <1>1, <2>1, <3>1 DEF FStringState
  <2>3. g = PushMode(h, DEFAULT_MODE)
    BY <1>7, <2>1 DEF ModesAfter
  <2>4. QED
    BY <1>1, <1>2, <1>7, <2>2, <2>3, LiteralsPush, ModeKinds
<1>8. CASE f.modes # <<>> /\ t.type \in {"LPAR", "RPAR"}
  <2>1. g.mode = f.mode /\ g.modes = f.modes
    BY <1>1, <1>8 DEF ModesAfter, AddParens, FStringState
  <2>2. QED
    BY <1>2, <1>8, <2>1
<1>9. CASE f.modes # <<>> /\ t.type \in {"COLON", "COLONEQUAL"}
  <2>1. g = AfterColon(f)
    BY <1>9 DEF ModesAfter
  <2>2. CASE Last(f.parens) = 0 /\ Last(f.modes)[1] \in {"fstring", "spec"}
    <3>1. PICK m : m = SPEC_MODE(Last(f.modes)[2])
      OBVIOUS
    <3>2. m \in Modes /\ m[1] = "spec"
      BY <1>9, <2>2, <3>1, SoundTop, ModeKinds
    <3>3. g = PushMode(f, m)
      BY <2>1, <2>2, <3>1 DEF AfterColon
    <3>4. QED
      BY <1>1, <1>9, <3>2, <3>3, LiteralsPush
  <2>3. CASE ~(Last(f.parens) = 0 /\ Last(f.modes)[1] \in {"fstring", "spec"})
    BY <1>9, <2>1, <2>3 DEF AfterColon
  <2>4. QED
    BY <2>2, <2>3
<1>10. CASE f.modes # <<>> /\ t.type = "RBRACE"
  <2>1. f.mode[1] # "fstring" /\ g = AfterRbrace(f)
    BY <1>10 DEF ModeTypes, ModesAfter
  <2>2. PICK u : u = PopMode(f)
    OBVIOUS
  <2>3. /\ u \in FStringState /\ SoundPath(ModePath(u)) /\ Literals(u) \in Nat
        /\ u.modes = Front(f.modes) /\ u.mode = ModePath(f)[Len(f.modes)]
    BY <1>1, <1>10, <2>2, PopSound, LiteralsType
  <2>4. Literals(f) = Literals(u)
    BY <1>1, <1>10, <2>1, <2>2, <2>3, LiteralsPop
  <2>5. CASE f.mode = DEFAULT_MODE
    <3>1. g = [u EXCEPT !.parens = Front(@)]
      BY <2>1, <2>2, <2>5, ModeKinds DEF AfterRbrace
    <3>2. g.mode = u.mode /\ g.modes = u.modes
      BY <2>3, <3>1 DEF FStringState
    <3>3. QED
      BY <1>10, <2>4, <3>2 DEF Literals, ModePath
  <2>6. CASE f.mode[1] = "spec"
    <3>1. PICK v : v = PopMode(u)
      OBVIOUS
    <3>2. g = [v EXCEPT !.parens = Front(@)]
      BY <2>1, <2>2, <2>6, <3>1, ModeKinds DEF AfterRbrace
    <3>3. u.mode = DEFAULT_MODE /\ u.modes # <<>>
      <4>1. /\ MayEnter(Below(ModePath(f), Len(f.modes)), Last(f.modes), f.mode)
            /\ Last(f.modes) = ModePath(f)[Len(f.modes)]
        BY <1>10, SoundTop
      <4>2. u.mode = DEFAULT_MODE
        BY <2>3, <2>6, <4>1, ModeKinds DEF MayEnter
      <4>3. Len(f.modes) \in Nat /\ Len(f.modes) >= 2
        BY <1>1, <1>10, <2>6, PathFacts DEF ModeUnderflow
      <4>4. Len(Front(f.modes)) = Len(f.modes) - 1 /\ Front(f.modes) \in Seq(Modes)
        BY <1>1, <1>10, PathFacts, FrontLast
      <4>5. QED
        BY <2>3, <4>2, <4>3, <4>4, EmptySeq
    <3>4. v \in FStringState /\ Literals(u) = Literals(v) + 0 /\ Literals(v) \in Nat
      BY <2>3, <3>1, <3>3, PopSound, LiteralsPop, LiteralsType, ModeKinds
    <3>5. g.mode = v.mode /\ g.modes = v.modes
      BY <3>2, <3>4 DEF FStringState
    <3>6. Literals(g) = Literals(v)
      BY <3>5 DEF Literals, ModePath
    <3>7. QED
      BY <1>10, <2>4, <3>4, <3>6
  <2>7. QED
    BY <1>1, <2>1, <2>5, <2>6, ModeKinds
<1>11. CASE /\ f.modes # <<>>
            /\ t.type \notin {"FSTRING_START", "FSTRING_END", "LBRACE", "LPAR", "RPAR",
                              "COLON", "COLONEQUAL", "RBRACE"}
  BY <1>11 DEF ModesAfter
<1>12. QED
  BY <1>4, <1>5, <1>6, <1>7, <1>8, <1>9, <1>10, <1>11

(* A token of the generated lexer, still as it was read, and one that       *)
(* check_cur_token has passed.                                              *)
NotMade(t) == t.type \notin {"none", "INDENT", "DEDENT", "ENCODING"}

RawOK(t) == NotMade(t) /\ t.ch = IF t.type \in HiddenTypes THEN "hidden" ELSE "default"

CurrentOK(t, f) ==
    /\ NotMade(t)
    /\ t.ch = IF t.type \in HiddenTypes \/ (t.type = "NEWLINE" /\ f.modes # <<>>)
              THEN "hidden" ELSE "default"

(* The literals begun by the tokens queued so far: the mode is entered when *)
(* the token becomes current, before it is queued.                          *)
BegunIn(f, label, c) ==
    IF label \notin {"leading", "dispatch"} THEN Literals(f)
    ELSE IF c \in Kinds.begin THEN Literals(f) - 1
    ELSE IF c \in Kinds.end THEN Literals(f) + 1 ELSE Literals(f)

Begun == BegunIn(fs, pc, cur)

(* The raw token that will be queued next.                                  *)
NextUp == IF pc \in {"leading", "dispatch"} THEN cur ELSE ffg

(* What the lexer knows of the line it has queued.                          *)
Placed(line) ==
    /\ line = "first" => Levels = 0
    /\ out.prev # "EOF" /\ line # "open" => Begun = 0
    /\ pc \in {"leading", "dispatch"} => out.prev # "EOF"
    /\ out.prev = "EOF" => cur.type = "EOF"
    /\ pc = "leading" => line = "first" /\ (fs.modes = <<>> \/ cur.type = "FSTRING_START")
    /\ pc = "dispatch" /\ line = "first" => cur.ch = "default" /\ cur.type # "NEWLINE"
    /\ pc \in {"finish", "idle"} /\ line = "first" => out.prev = "EOF"
    /\ pc # "fresh" /\ out.prev # "EOF" /\ line \in {"ended", "indented"} =>
          NextUp.type \notin {"WS", "COMMENT", "NEWLINE"}
    /\ pc # "fresh" /\ line = "indented" => NextUp.type # "EOF"

Reached(e) ==
    /\ Tells(Kinds, heard, out, e)
    /\ e.depth = Levels /\ e.brackets = opened /\ e.strings = Begun
    /\ e.phase = IF pc = "fresh" THEN "fresh" ELSE IF out.prev = "EOF" THEN "ended" ELSE "body"
    /\ Placed(e.line)

StreamInv ==
    /\ pc = "fresh" => /\ opened = 0 /\ heard = NothingHeard /\ out = EmptyQueue
                       /\ fs = NoFString /\ ind = NoIndentation
    /\ pc \notin {"fresh", "failed"} => RawOK(ffg)
    /\ pc \in {"leading", "dispatch"} => CurrentOK(cur, fs)
    /\ pc # "failed" => \E e : Reached(e)

(* Where the caller stands in the stream.                                   *)
Now == [depth    |-> Levels - PendingAs({INDENT}) + PendingAs({DEDENT, BAD_DEDENT}),
        brackets |-> opened - Pending({"LPAR", "LBRACE"}, "default")
                            + Pending({"RPAR", "RBRACE"}, "default"),
        strings  |-> OpenStrings - OwedTokens({"FSTRING_START"}, "default")
                                 + OwedTokens({"FSTRING_END"}, "default"),
        line     |-> heard.line,
        phase    |-> heard.phase]

Hand(label, c) == IF label \in {"leading", "dispatch"} THEN <<c>> ELSE <<>>

Typed(s, types) == Cardinality({i \in DOMAIN s : s[i].type \in types /\ s[i].ch = "default"})

Standing(q, h, l, o, f, label, c) ==
    [depth    |-> l - Cardinality({i \in DOMAIN q.pending : q.pending[i] \in {INDENT}})
                    + Cardinality({i \in DOMAIN q.pending : q.pending[i] \in {DEDENT, BAD_DEDENT}}),
     brackets |-> o - Typed(q.pending, {"LPAR", "LBRACE"}) + Typed(q.pending, {"RPAR", "RBRACE"}),
     strings  |-> Cardinality({i \in DOMAIN ModePath(f) : ModePath(f)[i][1] = "fstring"})
                    - Typed(q.pending \o Hand(label, c), {"FSTRING_START"})
                    + Typed(q.pending \o Hand(label, c), {"FSTRING_END"}),
     line     |-> h.line,
     phase    |-> h.phase]

LEMMA TypedIs ==
    ASSUME NEW s \in Seq(Token)
    PROVE  /\ Typed(s, {"LPAR", "LBRACE"}) = Number(s, Kinds.open)
           /\ Typed(s, {"RPAR", "RBRACE"}) = Number(s, Kinds.close)
           /\ Typed(s, {"FSTRING_START"}) = Number(s, Kinds.begin)
           /\ Typed(s, {"FSTRING_END"}) = Number(s, Kinds.end)
<1>1. \A i \in DOMAIN s : s[i] \in Token
  BY LenProperties, ElementOfSeq
<1>2. ASSUME NEW types, NEW S, \A t \in Token : t \in S <=> t.type \in types /\ t.ch = "default"
      PROVE  Typed(s, types) = Number(s, S)
  <2>1. {i \in DOMAIN s : s[i].type \in types /\ s[i].ch = "default"} = {i \in DOMAIN s : s[i] \in S}
    BY <1>1, <1>2
  <2>2. QED
    BY <2>1 DEF Typed, Number
<1>3. /\ \A t \in Token : t \in Kinds.open <=> t.type \in {"LPAR", "LBRACE"} /\ t.ch = "default"
      /\ \A t \in Token : t \in Kinds.close <=> t.type \in {"RPAR", "RBRACE"} /\ t.ch = "default"
      /\ \A t \in Token : t \in Kinds.begin <=> t.type \in {"FSTRING_START"} /\ t.ch = "default"
      /\ \A t \in Token : t \in Kinds.end <=> t.type \in {"FSTRING_END"} /\ t.ch = "default"
  BY KindsFacts
<1>4. /\ Typed(s, {"LPAR", "LBRACE"}) = Number(s, Kinds.open)
      /\ Typed(s, {"RPAR", "RBRACE"}) = Number(s, Kinds.close)
  BY <1>2, <1>3, Zenon
<1>5. /\ Typed(s, {"FSTRING_START"}) = Number(s, Kinds.begin)
      /\ Typed(s, {"FSTRING_END"}) = Number(s, Kinds.end)
  BY <1>2, <1>3, Zenon
<1>6. QED
  BY <1>4, <1>5

LEMMA BothCounted ==
    ASSUME NEW s \in Seq(Token), NEW label, NEW c \in Token, NEW S
    PROVE  /\ s \o Hand(label, c) \in Seq(Token) /\ Number(s, S) \in Nat
           /\ Number(s \o Hand(label, c), S) =
                 Number(s, S) + IF label \in {"leading", "dispatch"} /\ c \in S THEN 1 ELSE 0
<1>1. PICK h \in Seq(Token) : h = Hand(label, c)
  BY Singleton, EmptySeq DEF Hand
<1>2. Number(s \o h, S) = Number(s, S) + Number(h, S) /\ Number(s, S) \in Nat
  <2>1. \A t \in Seq(Token) : Number(s \o t, S) = Number(s, S) + Number(t, S)
    BY NumberConcat, Zenon
  <2>2. Number(s, S) \in Nat
    BY NumberType, Zenon
  <2>3. QED
    BY <2>1, <2>2
<1>3. Number(h, S) = IF label \in {"leading", "dispatch"} /\ c \in S THEN 1 ELSE 0
  <2>1. CASE h = <<>>
    <3>1. label \notin {"leading", "dispatch"}
      BY <1>1, <2>1 DEF Hand
    <3>2. Number(<<>>, S) = 0
      BY NumberEmpty, Zenon
    <3>3. QED
      BY <2>1, <3>1, <3>2
  <2>2. CASE h = <<c>> /\ label \in {"leading", "dispatch"}
    <3>1. Len(h) = 1 /\ h[1] = c
      BY <2>2, Singleton
    <3>2. \A i \in 1..1 : i = 1
      OBVIOUS
    <3>3. c \in S => Number(h, S) = Len(h)
      BY <3>1, <3>2, NumberType
    <3>4. c \notin S => Number(h, S) = 0
      BY <3>1, <3>2, NumberType
    <3>5. QED
      BY <2>2, <3>1, <3>3, <3>4
  <2>3. QED
    BY <1>1, <2>1, <2>2 DEF Hand
<1>4. s \o h \in Seq(Token)
  BY ConcatProperties
<1>5. QED
  BY <1>1, <1>2, <1>3, <1>4

(* The mapping of TokenStream, seen from the state the queue leads to.      *)
LEMMA NowIs ==
    ASSUME NEW q \in Queue, NEW h, NEW l, NEW o, NEW f \in FStringState, NEW label,
           NEW c \in Token, NEW e, e.depth = l, e.brackets = o, e.strings = BegunIn(f, label, c)
    PROVE  Standing(q, h, l, o, f, label, c) = Before(Kinds, e, q.pending, h)
<1>1. PICK s \in Seq(Token) : s = q.pending
  BY DEF Queue
<1>2. PICK u \in Seq(Token) : u = s \o Hand(label, c)
  BY BothCounted
<1>3. /\ Typed(s, {"LPAR", "LBRACE"}) = Number(s, Kinds.open)
      /\ Typed(s, {"RPAR", "RBRACE"}) = Number(s, Kinds.close)
      /\ Typed(u, {"FSTRING_START"}) = Number(u, Kinds.begin)
      /\ Typed(u, {"FSTRING_END"}) = Number(u, Kinds.end)
  BY TypedIs
<1>4. PICK n \in Nat : n = Literals(f)
          /\ n = Cardinality({i \in DOMAIN ModePath(f) : ModePath(f)[i][1] = "fstring"})
  BY LiteralsType
<1>c. \A S : /\ Number(s, S) \in Nat
             /\ Number(s \o Hand(label, c), S) =
                   Number(s, S) + IF label \in {"leading", "dispatch"} /\ c \in S THEN 1 ELSE 0
  <2> TAKE S
  <2>1. QED
    BY BothCounted
<1>5. PICK a \in Nat : /\ a = Number(s, Kinds.begin)
          /\ Number(u, Kinds.begin) = a + IF label \in {"leading", "dispatch"} /\ c \in Kinds.begin
                                          THEN 1 ELSE 0
  BY <1>2, <1>c, Zenon
<1>6. PICK b \in Nat : /\ b = Number(s, Kinds.end)
          /\ Number(u, Kinds.end) = b + IF label \in {"leading", "dispatch"} /\ c \in Kinds.end
                                        THEN 1 ELSE 0
  BY <1>2, <1>c, Zenon
<1>7. ~(c \in Kinds.begin /\ c \in Kinds.end)
  BY KindsFacts
<1>8. e.strings = IF label \notin {"leading", "dispatch"} THEN n
                  ELSE IF c \in Kinds.begin THEN n - 1 ELSE IF c \in Kinds.end THEN n + 1 ELSE n
  BY <1>4 DEF BegunIn
<1>9. n - Number(u, Kinds.begin) + Number(u, Kinds.end) = e.strings - a + b
  <2>1. CASE label \notin {"leading", "dispatch"}
    BY <1>5, <1>6, <1>8, <2>1
  <2>2. CASE label \in {"leading", "dispatch"} /\ c \in Kinds.begin
    <3>1. Number(u, Kinds.begin) = a + 1 /\ Number(u, Kinds.end) = b /\ e.strings = n - 1
      BY <1>5, <1>6, <1>7, <1>8, <2>2
    <3>2. QED
      BY <3>1
  <2>3. CASE label \in {"leading", "dispatch"} /\ c \notin Kinds.begin
    BY <1>5, <1>6, <1>8, <2>3
  <2>4. QED
    BY <2>1, <2>2, <2>3
<1>10. /\ Number(s, {INDENT}) = Cardinality({i \in DOMAIN s : s[i] \in {INDENT}})
       /\ Number(s, {DEDENT, BAD_DEDENT}) = Cardinality({i \in DOMAIN s : s[i] \in {DEDENT, BAD_DEDENT}})
  BY DEF Number
<1>11. PICK x, y : x = Number(u, Kinds.begin) /\ y = Number(u, Kinds.end)
  OBVIOUS
<1>12. Standing(q, h, l, o, f, label, c)
         = [depth    |-> l - Number(s, {INDENT}) + Number(s, {DEDENT, BAD_DEDENT}),
            brackets |-> o - Number(s, Kinds.open) + Number(s, Kinds.close),
            strings  |-> n - x + y, line |-> h.line, phase |-> h.phase]
  BY <1>1, <1>2, <1>3, <1>4, <1>10, <1>11, Zenon DEF Standing
<1>13. Before(Kinds, e, s, h)
         = [depth    |-> l - Number(s, {INDENT}) + Number(s, {DEDENT, BAD_DEDENT}),
            brackets |-> o - Number(s, Kinds.open) + Number(s, Kinds.close),
            strings  |-> e.strings - a + b, line |-> h.line, phase |-> h.phase]
  BY <1>5, <1>6, Zenon DEF Before
<1>14. n - x + y = e.strings - a + b
  BY <1>9, <1>11, Zenon
<1>15. QED
  BY <1>1, <1>12, <1>13, <1>14, Zenon

LEMMA NowStands == Now = Standing(out, heard, Levels, opened, fs, pc, cur)
BY DEF Now, Standing, Typed, Hand, Pending, PendingAs, OwedTokens, Owed, InHand, OpenStrings

(* A step that tells the caller nothing.                                    *)
LEMMA Unheard ==
    ASSUME IInv, IInv', NEW e, Reached(e), NEW f, heard' = heard, pc' # "fresh",
           Continues(Kinds, heard, out, e, out', f),
           f.depth = Levels', f.brackets = opened', f.strings = Begun',
           pc' # "failed" =>
              /\ f.phase = IF out'.prev = "EOF" THEN "ended" ELSE "body"
              /\ Placed(f.line)' /\ RawOK(ffg'),
           pc' \in {"leading", "dispatch"} => CurrentOK(cur', fs')
    PROVE  StreamInv' /\ Now' = Now
<1>1. pc' # "failed" => Reached(f)'
  BY DEF Reached, Continues
<1>2. StreamInv'
  BY <1>1 DEF StreamInv
<1>3. /\ out \in Queue /\ fs \in FStringState /\ cur \in Token
      /\ out' \in Queue /\ fs' \in FStringState /\ cur' \in Token
  BY DEF IInv, TypeOK
<1>4. Now = Before(Kinds, e, out.pending, heard)
  <2>1. e.depth = Levels /\ e.brackets = opened /\ e.strings = BegunIn(fs, pc, cur)
    BY DEF Reached, Begun
  <2>2. QED
    BY <1>3, <2>1, NowStands, NowIs
<1>5. Now' = Before(Kinds, f, out'.pending, heard')
  <2>1. Now' = Standing(out', heard', Levels', opened', fs', pc', cur')
    BY DEF Now, Standing, Typed, Hand, Pending, PendingAs, OwedTokens, Owed, InHand, OpenStrings
  <2>2. f.strings = BegunIn(fs', pc', cur')
    BY DEF Begun
  <2>3. QED
    BY <1>3, <2>1, <2>2, NowIs
<1>6. QED
  BY <1>2, <1>4, <1>5 DEF Continues

LEMMA RawIsRaw ==
    ASSUME NEW mode \in Modes, NEW t, NEW n \in Nat, NEW r \in Raw(mode, t, n)
    PROVE  RawOK(r) /\ (t.type = "WS" => r.type # "WS")
<1>1. \A type, text, pos : /\ RawToken(type, text, pos).type = type
                           /\ RawToken(type, text, pos).ch
                                = IF type \in HiddenTypes THEN "hidden" ELSE "default"
  BY DEF RawToken
<1>2. CASE r = EofToken(n + 1)
  BY <1>1, <1>2 DEF RawOK, NotMade, EofToken
<1>3. CASE r # EofToken(n + 1)
  <2>1. MayFollow(t, r)
    BY <1>3 DEF Raw
  <2>2. PICK type, text : /\ r = RawToken(type, text, n + 1)
                          /\ type \notin {"none", "INDENT", "DEDENT", "ENCODING"}
    <3>1. \/ r \in DefaultTokens(n + 1)
          \/ r \in FStringTokens(n + 1)
          \/ r \in SpecTokens(n + 1)
      <4>1. mode[1] \in {"default", "fstring", "spec"}
        BY ModeKinds
      <4>2. QED
        BY <1>3, <4>1 DEF Raw
    <3>2. CASE r \in DefaultTokens(n + 1)
      <4>1. CASE \E type \in RawTypes : r = RawToken(type, <<>>, n + 1)
        BY <4>1, RawTypesAssumption
      <4>2. CASE \E text \in WsTexts : r = RawToken("WS", text, n + 1)
        BY <4>2
      <4>3. CASE \E q \in Quotes : r = RawToken("FSTRING_START", <<q>>, n + 1)
        BY <4>3
      <4>4. QED
        BY <3>2, <4>1, <4>2, <4>3 DEF DefaultTokens
    <3>3. CASE r \in FStringTokens(n + 1)
      BY <3>3 DEF FStringTokens
    <3>4. CASE r \in SpecTokens(n + 1)
      BY <3>4 DEF SpecTokens
    <3>5. QED
      BY <3>1, <3>2, <3>3, <3>4
  <2>3. QED
    BY <1>1, <2>1, <2>2 DEF RawOK, NotMade, MayFollow
<1>4. QED
  BY <1>2, <1>3

LEMMA AdvanceParts ==
    ASSUME NEW t, NEW n, NEW q, NEW next, SetCurrentAndFollowing(t, n, q, next)
    PROVE  /\ cur' = Checked(t)
           /\ out' = IF CutsLbrace(t) THEN AddPending(q, Trimmed(t)) ELSE q
           /\ \/ pc' = "failed" /\ fs' = fs
              \/ /\ pc' = next /\ fs' = ModesAfter(fs, Checked(t)) /\ ffg' \in Following(Checked(t), t, n)
                 /\ ~ModeUnderflow(fs, Checked(t)) /\ ~NoOpenBrace(fs, Checked(t))
<1>1. /\ cur' = Checked(t)
      /\ out' = IF CutsLbrace(t) THEN AddPending(q, Trimmed(t)) ELSE q
  BY Zenon DEF SetCurrentAndFollowing
<1>2. CASE ModeUnderflow(fs, Checked(t))
  BY <1>1, <1>2, Zenon DEF SetCurrentAndFollowing, Fail
<1>3. CASE NoOpenBrace(fs, Checked(t)) /\ ~ModeUnderflow(fs, Checked(t))
  BY <1>1, <1>3, Zenon DEF SetCurrentAndFollowing, Fail
<1>4. CASE ~NoOpenBrace(fs, Checked(t)) /\ ~ModeUnderflow(fs, Checked(t))
  BY <1>1, <1>4, Zenon DEF SetCurrentAndFollowing, Fail, Goto
<1>5. QED
  BY <1>2, <1>3, <1>4

(* set_current_and_following_tokens when the queue q has told the caller    *)
(* all but the new current token: only the half of a cut token is added.    *)
Advanced(e, f, t) ==
    /\ f.depth = e.depth /\ f.brackets = e.brackets /\ f.strings = e.strings /\ f.phase = "body"
    /\ f.strings = Begun'
    /\ out'.prev # "EOF"
    /\ \/ CutsLbrace(t) /\ f.line = "open" /\ cur'.type = "LBRACE"
       \/ ~CutsLbrace(t) /\ f.line = e.line /\ cur'.type = t.type /\ out'.prev \in Types
    /\ CurrentOK(cur', fs)

LEMMA AdvanceStream ==
    ASSUME IInv, IInv', NEW t \in Token, Fits(t, fs), RawOK(t), t.pos # 0, NEW n \in Nat,
           NEW q, QueueOK(q), q.prev # "EOF", NEW next \in {"leading", "dispatch"},
           SetCurrentAndFollowing(t, n, q, next),
           NEW h \in Heard, NEW e, Tells(Kinds, h, q, e), e.phase = "body",
           e.strings = Literals(fs)
    PROVE  /\ \E f : Continues(Kinds, h, q, e, out', f) /\ Advanced(e, f, t)
           /\ pc' = "failed" \/ pc' = next
           /\ pc' # "failed" => /\ RawOK(ffg') /\ CurrentOK(cur', fs')
                                /\ fs.modes = <<>> => fs'.modes = <<>> \/ cur'.type = "FSTRING_START"
<1>1. /\ SoundState(fs) /\ fs \in FStringState /\ q \in Queue /\ cur' \in Token
      /\ fs' \in FStringState /\ fs'.mode \in Modes /\ q.prev \in Types
  BY DEF IInv, TypeOK, SoundState, FStringState, QueueOK, Queue
<1>a. /\ cur' = Checked(t)
      /\ out' = IF CutsLbrace(t) THEN AddPending(q, Trimmed(t)) ELSE q
      /\ \/ pc' = "failed" /\ fs' = fs
         \/ /\ pc' = next /\ fs' = ModesAfter(fs, Checked(t)) /\ ffg' \in Following(Checked(t), t, n)
            /\ ~ModeUnderflow(fs, Checked(t)) /\ ~NoOpenBrace(fs, Checked(t))
  BY AdvanceParts, Zenon
<1>2. PICK c \in Token : c = Checked(t) /\ c = cur'
  BY <1>1, <1>a, Zenon
<1>3. /\ CutsLbrace(t) => c.type = "LBRACE" /\ c.ch = "default"
      /\ ~CutsLbrace(t) => c.type = t.type /\ c.text = t.text
                             /\ c.ch = IF t.type = "NEWLINE" /\ InFString THEN "hidden" ELSE t.ch
  BY <1>2 DEF Checked, CutOff, Token
<1>4. CurrentOK(c, fs)
  <2>1. CASE CutsLbrace(t)
    BY <1>3, <2>1 DEF CurrentOK, NotMade, HiddenTypes
  <2>2. CASE ~CutsLbrace(t)
    BY <1>3, <2>2 DEF CurrentOK, RawOK, NotMade, HiddenTypes, InFString
  <2>3. QED
    BY <2>1, <2>2
<1>5. c.type \in ModeTypes(fs.mode) /\ NamesMode(c)
  <2>1. CASE CutsLbrace(t)
    BY <1>3, <2>1 DEF Fits, CutsLbrace, ModeTypes, Types, NamesMode
  <2>2. CASE ~CutsLbrace(t)
    BY <1>3, <2>2 DEF Fits, NamesMode
  <2>3. QED
    BY <2>1, <2>2
<1>6. ~ModeUnderflow(fs, c)
  BY <1>1, <1>5, NoUnderflow
<1>7. \/ pc' = "failed" /\ fs' = fs
      \/ /\ pc' = next /\ ~NoOpenBrace(fs, c) /\ fs' = ModesAfter(fs, c)
         /\ ffg' \in Following(c, t, n)
  BY <1>2, <1>a, Zenon
<1>8. Begun' = Literals(fs)
  <2>1. Begun' = BegunIn(fs', pc', c)
    BY <1>2 DEF Begun
  <2>2. CASE pc' = "failed" /\ fs' = fs
    BY <2>1, <2>2 DEF BegunIn
  <2>3. CASE pc' = next /\ ~NoOpenBrace(fs, c) /\ fs' = ModesAfter(fs, c)
    <3>1. Literals(fs') = IF c.type = "FSTRING_START" THEN Literals(fs) + 1
                          ELSE IF c.type = "FSTRING_END" THEN Literals(fs) - 1 ELSE Literals(fs)
      BY <1>1, <1>5, <1>6, <2>3, LiteralsAfter
    <3>2. /\ c \in Kinds.begin <=> c.type = "FSTRING_START"
          /\ c \in Kinds.end <=> c.type = "FSTRING_END"
      BY <1>4, KindsFacts DEF CurrentOK, HiddenTypes
    <3>3. Literals(fs) \in Nat
      BY <1>1, LiteralsType
    <3>4. QED
      BY <2>1, <2>3, <3>1, <3>2, <3>3 DEF BegunIn
  <2>4. QED
    BY <1>7, <2>2, <2>3
<1>9. \E f : Continues(Kinds, h, q, e, out', f) /\ Advanced(e, f, t)
  <2>1. CASE CutsLbrace(t)
    <3>1. PICK a \in Token : a = Trimmed(t) /\ out' = AddPending(q, a)
      <4>1. EndsInLbrace(t)
        BY <2>1 DEF CutsLbrace
      <4>2. "LBRACE" \in Types /\ "default" \in Channels
        BY DEF Types, Channels
      <4>3. Trimmed(t) \in Token
        BY <4>1, <4>2, CutTokens, Zenon
      <4>4. QED
        BY <1>a, <2>1, <4>3, Zenon
    <3>2. a.type = "FSTRING_MIDDLE" /\ a.ch = "default" /\ a.pos # 0
      BY <2>1, <3>1 DEF CutsLbrace, Trimmed, RawOK, HiddenTypes, Token
    <3>3. Readable(Kinds, e, a)
      BY <3>2, KindsFacts DEF Readable
    <3>4. PICK f : Continues(Kinds, h, q, e, out', f) /\ ReadsOn(Kinds, e, a, f)
      BY <1>1, <3>1, <3>3, KindsFacts, TellRead
    <3>5. /\ f.depth = e.depth /\ f.brackets = e.brackets /\ f.strings = e.strings
          /\ f.phase = "body" /\ f.line = "open"
      BY <3>2, <3>4, KindsFacts DEF ReadsOn
    <3>6. out'.prev # "EOF"
      BY <3>1, <3>2 DEF AddPending
    <3>7. QED
      BY <1>2, <1>3, <1>4, <1>8, <2>1, <3>4, <3>5, <3>6 DEF Advanced
  <2>2. CASE ~CutsLbrace(t)
    <3>1. out' = q
      BY <1>a, <2>2, Zenon
    <3>2. Continues(Kinds, h, q, e, out', e)
      BY <1>1, <3>1 DEF Continues
    <3>3. Advanced(e, e, t)
      BY <1>1, <1>2, <1>3, <1>4, <1>8, <2>2, <3>1 DEF Advanced
    <3>4. QED
      BY <3>2, <3>3
  <2>3. QED
    BY <2>1, <2>2
<1>10. CASE pc' = "failed"
  BY <1>9, <1>10
<1>11. CASE /\ pc' = next /\ ~NoOpenBrace(fs, c) /\ fs' = ModesAfter(fs, c)
            /\ ffg' \in Following(c, t, n)
  <2>1. RawOK(ffg')
    <3>1. CASE c.type = "EOF"
      BY <1>4, <1>11, <3>1 DEF Following, RawOK, CurrentOK, HiddenTypes
    <3>2. CASE c.type # "EOF"
      BY <1>1, <1>11, <3>2, RawIsRaw DEF Following
    <3>3. QED
      BY <3>1, <3>2
  <2>2. fs.modes = <<>> => fs'.modes = <<>> \/ cur'.type = "FSTRING_START"
    BY <1>1, <1>2, <1>5, <1>6, <1>11, LiteralsAfter
  <2>3. CurrentOK(cur', fs')
    <3>1. c.type = "NEWLINE" => fs' = fs
      BY <1>11 DEF ModesAfter
    <3>2. QED
      BY <1>2, <1>4, <3>1 DEF CurrentOK, HiddenTypes
  <2>4. QED
    BY <1>9, <1>11, <2>1, <2>2, <2>3
<1>12. QED
  BY <1>7, <1>10, <1>11

(* What is known of a call that has not failed.                             *)
LEMMA StreamFacts ==
    ASSUME IInv, OrderOK, StreamInv, pc \notin {"fresh", "failed"}
    PROVE  /\ cur \in Token /\ ffg \in Token /\ Fits(ffg, fs) /\ out \in Queue /\ heard \in Heard
           /\ ffg.pos # 0 /\ RawOK(ffg) /\ read \in Nat /\ opened \in Int
           /\ ind \in Indentation /\ ind.stack \in Seq(Nat) /\ SoundStack(ind.stack)
           /\ Levels = Len(ind.stack) - 1
           /\ SoundState(fs) /\ fs \in FStringState /\ fs.mode \in Modes /\ Literals(fs) \in Nat
           /\ pc \in {"leading", "dispatch"} => cur.pos # 0 /\ CurrentOK(cur, fs)
<1>1. /\ cur \in Token /\ ffg \in Token /\ Fits(ffg, fs) /\ out \in Queue /\ heard \in Heard
      /\ ffg.pos # 0 /\ ind \in Indentation /\ ind.stack \in Seq(Nat) /\ SoundStack(ind.stack)
  BY OrderFacts
<1>2. opened \in Int /\ read \in Nat /\ SoundState(fs) /\ fs \in FStringState
  BY DEF IInv, TypeOK
<1>3. Literals(fs) \in Nat /\ fs.mode \in Modes
  BY <1>2, LiteralsType DEF FStringState
<1>4. Levels = Len(ind.stack) - 1
  BY <1>1, LenProperties DEF Levels, SoundStack
<1>5. pc \in {"leading", "dispatch"} => cur.pos # 0 /\ CurrentOK(cur, fs)
  BY DEF OrderOK, InOrderTo, StreamInv
<1>6. QED
  BY <1>1, <1>2, <1>3, <1>4, <1>5 DEF StreamInv

(* A lexer that has not been called.                                        *)
LEMMA Fresh ==
    ASSUME IInv, pc = "fresh", opened = 0, heard = NothingHeard, out = EmptyQueue,
           fs = NoFString, ind = NoIndentation
    PROVE  \E e : /\ Reached(e) /\ e.depth = 0 /\ e.brackets = 0 /\ e.strings = 0
                  /\ e.phase = "fresh" /\ e.line = "first" /\ Now = e
<1>1. PICK e : e = [depth |-> 0, brackets |-> 0, strings |-> 0, line |-> "first", phase |-> "fresh"]
  OBVIOUS
<1>2. out.pending = <<>> /\ out.last = "none" /\ out.prev = "none" /\ out \in Queue
  BY EmptySeq DEF EmptyQueue, Queue, Types
<1>3. heard.line = "first" /\ heard.phase = "fresh"
  BY DEF NothingHeard
<1>4. Before(Kinds, e, <<>>, heard) = e
  <2>1. \A S : Number(<<>>, S) = 0
    BY NumberEmpty
  <2>2. QED
    BY <1>1, <1>3, <2>1 DEF Before
<1>5. e \in Reader
  BY <1>1 DEF Reader
<1>6. Leads(Steps(Kinds), e, <<>>, e)
  BY LeadsEmpty
<1>7. Told(Kinds, heard, out.pending, e)
  BY <1>2, <1>4, <1>5, <1>6 DEF Told
<1>8. Tells(Kinds, heard, out, e)
  BY <1>1, <1>2, <1>7 DEF Tells
<1>9. SoundState(fs) /\ fs \in FStringState /\ cur \in Token
  BY DEF IInv, TypeOK
<1>10. Begun = 0 /\ BegunIn(fs, pc, cur) = 0
  <2>1. fs.modes = <<>>
    BY DEF NoFString
  <2>2. Literals(fs) = 0
    BY <1>9, <2>1, NoLiterals
  <2>3. QED
    BY <2>2 DEF Begun, BegunIn
<1>11. Levels = 0
  BY DEF Levels, NoIndentation
<1>12. Reached(e)
  BY <1>1, <1>2, <1>8, <1>10, <1>11 DEF Reached, Placed
<1>13. Now = Before(Kinds, e, out.pending, heard)
  <2>1. e.depth = Levels /\ e.brackets = opened /\ e.strings = BegunIn(fs, pc, cur)
    BY <1>1, <1>10, <1>11
  <2>2. QED
    BY <1>2, <1>9, <2>1, NowStands, NowIs
<1>14. QED
  BY <1>1, <1>2, <1>4, <1>12, <1>13

LEMMA BeginStream ==
    IInv /\ IInv' /\ OrderOK /\ StreamInv /\ Begin => StreamInv' /\ Now' = Now
<1> SUFFICES ASSUME IInv, IInv', OrderOK, StreamInv, Begin PROVE StreamInv' /\ Now' = Now
  OBVIOUS
<1>1. /\ pc = "fresh" /\ ind' = [ind EXCEPT !.stack = <<0>>]
      /\ UNCHANGED <<opened, heard, reported>>
  BY DEF Begin
<1>a. PICK q : q = AddPending(out, ENCODING_TOKEN)
  OBVIOUS
<1>2. PICK t \in Raw(DEFAULT_MODE, NoToken, 0) : SetCurrentAndFollowing(t, 1, q, "leading")
  BY <1>a DEF Begin
<1>3. /\ opened = 0 /\ heard = NothingHeard /\ out = EmptyQueue /\ fs = NoFString
      /\ ind = NoIndentation
  BY <1>1 DEF StreamInv
<1>4. /\ fs.modes = <<>> /\ fs.mode = DEFAULT_MODE /\ Literals(fs) = 0
      /\ out \in Queue /\ heard \in Heard /\ QueueOK(out)
  <2>1. fs.modes = <<>>
    BY <1>3 DEF NoFString
  <2>2. QED
    BY <2>1, NoLiterals DEF IInv, TypeOK, QueueInv
<1>5. t \in Token /\ Fits(t, fs) /\ t.pos # 0 /\ RawOK(t) /\ ~CutsLbrace(t)
  <2>1. DEFAULT_MODE \in Modes /\ DEFAULT_MODE[1] = "default"
    BY ModeKinds
  <2>2. t \in Token /\ Fits(t, fs) /\ t.pos = 1
    BY <1>4, <2>1, RawFacts, 0 \in Nat DEF Fits
  <2>3. RawOK(t)
    BY <2>1, RawIsRaw, 0 \in Nat
  <2>4. t.type # "FSTRING_MIDDLE"
    BY <1>4, <2>1, <2>2 DEF Fits, ModeTypes
  <2>5. QED
    BY <2>2, <2>3, <2>4 DEF CutsLbrace
<1>6. Levels = 0 /\ Levels' = 0
  <2>1. ind.stack = <<>> /\ ind'.stack = <<0>> /\ Len(<<0>>) = 1
    BY <1>1, <1>3 DEF NoIndentation
  <2>2. QED
    BY <2>1 DEF Levels
<1>7. PICK e : /\ Reached(e) /\ Tells(Kinds, heard, out, e) /\ e.depth = 0 /\ e.brackets = 0
               /\ e.strings = 0 /\ e.phase = "fresh" /\ e.line = "first"
  <2>1. PICK e : /\ Reached(e) /\ e.depth = 0 /\ e.brackets = 0
                 /\ e.strings = 0 /\ e.phase = "fresh" /\ e.line = "first"
    BY <1>1, <1>3, Fresh
  <2>2. QED
    BY <2>1 DEF Reached
<1>8. /\ ENCODING_TOKEN \in Token /\ ENCODING_TOKEN.type = "ENCODING"
      /\ ENCODING_TOKEN.ch = "hidden" /\ ENCODING_TOKEN.pos = 0
  <2>1. MadeToken("ENCODING", <<>>) \in Token
    BY TokenType, EmptySeq, 0 \in Nat DEF Types
  <2>2. QED
    BY <2>1 DEF ENCODING_TOKEN, MadeToken, Token, Channels
<1>9. PICK g : /\ Continues(Kinds, heard, out, e, q, g)
               /\ g.depth = 0 /\ g.brackets = 0 /\ g.strings = 0
               /\ g.line = "first" /\ g.phase = "body"
  <2>1. PICK x : x = ENCODING_TOKEN
    OBVIOUS
  <2>2. /\ x \notin Counted(Kinds) /\ x \notin Kinds.open /\ x \notin Kinds.close
        /\ x \notin Kinds.begin /\ x \notin Kinds.end
    BY <1>8, <2>1, KindsFacts
  <2>3. x \notin {INDENT, DEDENT, LEADING_INDENT, BAD_DEDENT, TRAILING_NEWLINE}
    BY <1>8, <2>1, MadeFields
  <2>4. Legal(Kinds, e, x)
    BY <1>7, <1>8, <2>1, <2>2, <2>3 DEF Legal
  <2>5. PICK g : Continues(Kinds, heard, out, e, q, g) /\ Reads(Kinds, e, x, g)
    BY <1>a, <1>4, <1>7, <1>8, <2>1, <2>4, KindsFacts, TellMore
  <2>6. QED
    BY <1>7, <1>8, <2>1, <2>2, <2>3, <2>5 DEF Reads
<1>10. QueueOK(q) /\ q.prev = "ENCODING" /\ Tells(Kinds, heard, q, g)
  BY <1>a, <1>4, <1>8, <1>9, AddPendingOK DEF AddPending, Continues
<1>11. /\ \E f : Continues(Kinds, heard, q, g, out', f) /\ Advanced(g, f, t)
       /\ pc' = "failed" \/ pc' = "leading"
       /\ pc' # "failed" => /\ RawOK(ffg') /\ CurrentOK(cur', fs')
                            /\ fs.modes = <<>> => fs'.modes = <<>> \/ cur'.type = "FSTRING_START"
  <2>1. g.strings = Literals(fs)
    BY <1>4, <1>9
  <2>2. QED
    BY <1>2, <1>4, <1>5, <1>9, <1>10, <2>1, 1 \in Nat, AdvanceStream
<1>12. PICK f : Continues(Kinds, heard, q, g, out', f) /\ Advanced(g, f, t)
  BY <1>11
<1>13. Continues(Kinds, heard, out, e, out', f)
  BY <1>9, <1>12, ContinuesOn
<1>14. /\ f.depth = 0 /\ f.brackets = 0 /\ f.strings = 0 /\ f.phase = "body" /\ f.line = "first"
       /\ f.strings = Begun' /\ out'.prev # "EOF"
  BY <1>5, <1>9, <1>12 DEF Advanced
<1>15. pc' # "failed" => Placed(f.line)'
  BY <1>4, <1>6, <1>11, <1>14 DEF Placed
<1>16. QED
  BY <1>1, <1>3, <1>6, <1>7, <1>11, <1>13, <1>14, <1>15, Unheard

LEMMA SkipLeadingStream ==
    IInv /\ IInv' /\ OrderOK /\ StreamInv /\ SkipLeading => StreamInv' /\ Now' = Now
<1> SUFFICES ASSUME IInv, IInv', OrderOK, StreamInv, SkipLeading PROVE StreamInv' /\ Now' = Now
  OBVIOUS
<1>1. /\ pc = "leading" /\ cur.type # "EOF" /\ (cur.ch = "hidden" \/ cur.type = "NEWLINE")
      /\ UNCHANGED <<opened, ind, heard, reported>>
  BY DEF SkipLeading, BeforeStatement
<1>2. PICK q : q = HideAndAdd(out, cur) /\ SetCurrentAndFollowing(ffg, read, q, "leading")
  BY DEF SkipLeading
<1>3. PICK e : Reached(e)
  BY <1>1 DEF StreamInv
<1>4. /\ cur \in Token /\ cur.pos # 0 /\ CurrentOK(cur, fs) /\ ffg \in Token /\ ffg.pos # 0
      /\ RawOK(ffg) /\ Fits(ffg, fs) /\ out \in Queue /\ heard \in Heard /\ read \in Nat
      /\ SoundState(fs)
  BY <1>1, StreamFacts
<1>5. cur.type \in HiddenTypes \union {"NEWLINE"}
  BY <1>1, <1>4 DEF CurrentOK, HiddenTypes
<1>6. cur \notin Kinds.begin /\ cur \notin Kinds.end /\ cur.type # "FSTRING_START"
  BY <1>4, <1>5, KindsFacts DEF HiddenTypes
<1>7. /\ Tells(Kinds, heard, out, e) /\ e.line = "first" /\ e.phase = "body"
      /\ e.depth = Levels /\ e.brackets = opened /\ e.strings = Begun /\ Levels = 0
      /\ fs.modes = <<>>
  BY <1>1, <1>3, <1>6 DEF Reached, Placed
<1>8. Literals(fs) = 0 /\ fs.mode = DEFAULT_MODE /\ Begun = Literals(fs)
  BY <1>1, <1>4, <1>6, <1>7, NoLiterals DEF Begun, BegunIn
<1>9. PICK g : /\ Continues(Kinds, heard, out, e, q, g) /\ q.prev = cur.type
               /\ g.depth = e.depth /\ g.brackets = e.brackets /\ g.strings = e.strings
               /\ g.phase = "body" /\ g.line = "first"
  BY <1>2, <1>4, <1>5, <1>7, KindsFacts, TellHidden
<1>10. QueueOK(q) /\ Tells(Kinds, heard, q, g)
  BY <1>2, <1>4, <1>9, HideAndAddOK DEF Continues, IInv, QueueInv
<1>11. ~CutsLbrace(ffg)
  BY <1>4, <1>8, ModeKinds DEF CutsLbrace, Fits, ModeTypes
<1>12. /\ \E f : Continues(Kinds, heard, q, g, out', f) /\ Advanced(g, f, ffg)
       /\ pc' = "failed" \/ pc' = "leading"
       /\ pc' # "failed" => /\ RawOK(ffg') /\ CurrentOK(cur', fs')
                            /\ fs.modes = <<>> => fs'.modes = <<>> \/ cur'.type = "FSTRING_START"
  <2>1. g.strings = Literals(fs) /\ q.prev # "EOF"
    BY <1>1, <1>7, <1>8, <1>9
  <2>2. QED
    BY <1>2, <1>4, <1>9, <1>10, <2>1, AdvanceStream
<1>13. PICK f : Continues(Kinds, heard, q, g, out', f) /\ Advanced(g, f, ffg)
  BY <1>12
<1>14. Continues(Kinds, heard, out, e, out', f)
  BY <1>9, <1>13, ContinuesOn
<1>15. /\ f.depth = Levels /\ f.brackets = opened /\ f.strings = 0 /\ f.phase = "body"
       /\ f.line = "first" /\ f.strings = Begun' /\ out'.prev # "EOF"
  BY <1>7, <1>8, <1>9, <1>11, <1>13 DEF Advanced
<1>16. Levels' = Levels
  BY <1>1 DEF Levels
<1>17. pc' # "failed" => Placed(f.line)'
  BY <1>7, <1>12, <1>15, <1>16 DEF Placed
<1>18. QED
  BY <1>1, <1>3, <1>12, <1>14, <1>15, <1>16, <1>17, Unheard

LEMMA EndLeadingStream ==
    IInv /\ IInv' /\ OrderOK /\ StreamInv /\ EndLeading => StreamInv' /\ Now' = Now
<1> SUFFICES ASSUME IInv, IInv', OrderOK, StreamInv, EndLeading PROVE StreamInv' /\ Now' = Now
  OBVIOUS
<1>1. /\ pc = "leading" /\ pc' = "dispatch" /\ ~BeforeStatement
      /\ UNCHANGED <<read, cur, ffg, fs, opened, heard>>
      /\ ind' = ind \/ \E text : ind' = Measured(ind, text)
      /\ out' = out \/ (out' = AddPending(out, LEADING_INDENT) /\ cur.type # "EOF")
  BY DEF EndLeading, Goto
<1>2. PICK e : Reached(e)
  BY <1>1 DEF StreamInv
<1>3. /\ Tells(Kinds, heard, out, e) /\ e.line = "first" /\ e.phase = "body"
      /\ e.depth = Levels /\ e.brackets = opened /\ e.strings = Begun /\ Levels = 0
      /\ out.prev # "EOF" /\ e.strings = 0
  BY <1>1, <1>2 DEF Reached, Placed
<1>4. RawOK(ffg) /\ CurrentOK(cur, fs) /\ out \in Queue /\ heard \in Heard
  BY <1>1, StreamFacts
<1>5. cur.ch = "default" /\ cur.type # "NEWLINE" /\ cur.type \notin HiddenTypes
  <2>1. cur.type = "EOF" \/ (cur.ch # "hidden" /\ cur.type # "NEWLINE")
    BY <1>1 DEF BeforeStatement
  <2>2. QED
    BY <1>4, <2>1 DEF CurrentOK, HiddenTypes
<1>6. Levels' = Levels /\ Begun' = Begun
  <2>1. \A text : Measured(ind, text).stack = ind.stack
    BY DEF Measured
  <2>2. ind'.stack = ind.stack
    BY <1>1, <2>1
  <2>3. QED
    BY <1>1, <2>2 DEF Levels, Begun, BegunIn
<1>7. CASE out' = out
  <2>1. Placed(e.line)'
    BY <1>1, <1>3, <1>5, <1>6, <1>7 DEF Placed
  <2>2. Continues(Kinds, heard, out, e, out', e)
    BY <1>3, <1>4, <1>7 DEF Continues
  <2>3. QED
    BY <1>1, <1>2, <1>3, <1>4, <1>6, <1>7, <2>1, <2>2, Unheard
<1>8. CASE out' = AddPending(out, LEADING_INDENT) /\ cur.type # "EOF"
  <2>1. PICK f : /\ Continues(Kinds, heard, out, e, out', f) /\ out'.prev = "INDENT"
                 /\ f.depth = e.depth /\ f.brackets = e.brackets /\ f.strings = 0
                 /\ f.phase = "body" /\ f.line = "indented"
    BY <1>3, <1>4, <1>8, KindsFacts, TellLeadingIndent
  <2>2. Placed(f.line)'
    BY <1>1, <1>3, <1>5, <1>6, <1>8, <2>1 DEF Placed, NextUp, HiddenTypes
  <2>3. QED
    BY <1>1, <1>2, <1>3, <1>4, <1>6, <2>1, <2>2, Unheard
<1>9. QED
  BY <1>1, <1>7, <1>8

LEMMA FetchStream ==
    IInv /\ IInv' /\ OrderOK /\ StreamInv /\ Fetch => StreamInv' /\ Now' = Now
<1> SUFFICES ASSUME IInv, IInv', OrderOK, StreamInv, Fetch PROVE StreamInv' /\ Now' = Now
  OBVIOUS
<1>1. /\ pc = "idle" /\ out.prev # "EOF" /\ UNCHANGED <<opened, ind, heard, reported>>
      /\ SetCurrentAndFollowing(ffg, read, out, "dispatch")
  BY DEF Fetch
<1>2. PICK e : Reached(e)
  BY <1>1 DEF StreamInv
<1>3. /\ Tells(Kinds, heard, out, e) /\ e.phase = "body"
      /\ e.depth = Levels /\ e.brackets = opened /\ e.strings = Literals(fs)
      /\ e.line # "first"
      /\ e.line # "open" => e.strings = 0
      /\ e.line \in {"ended", "indented"} => ffg.type \notin {"WS", "COMMENT", "NEWLINE"}
      /\ e.line = "indented" => ffg.type # "EOF"
  BY <1>1, <1>2 DEF Reached, Placed, NextUp, Begun, BegunIn
<1>4. /\ ffg \in Token /\ ffg.pos # 0 /\ RawOK(ffg) /\ Fits(ffg, fs) /\ out \in Queue
      /\ heard \in Heard /\ read \in Nat /\ QueueOK(out)
  BY <1>1, StreamFacts DEF IInv, QueueInv
<1>5. /\ \E f : Continues(Kinds, heard, out, e, out', f) /\ Advanced(e, f, ffg)
      /\ pc' = "failed" \/ pc' = "dispatch"
      /\ pc' # "failed" => RawOK(ffg') /\ CurrentOK(cur', fs')
  BY <1>1, <1>3, <1>4, AdvanceStream
<1>6. PICK f : Continues(Kinds, heard, out, e, out', f) /\ Advanced(e, f, ffg)
  BY <1>5
<1>7. /\ f.depth = e.depth /\ f.brackets = e.brackets /\ f.strings = e.strings
      /\ f.phase = "body" /\ f.strings = Begun' /\ out'.prev # "EOF"
      /\ f.line = "open" \/ (f.line = e.line /\ cur'.type = ffg.type)
  BY <1>6 DEF Advanced
<1>8. Levels' = Levels
  BY <1>1 DEF Levels
<1>9. pc' # "failed" => Placed(f.line)'
  BY <1>3, <1>5, <1>7 DEF Placed, NextUp
<1>10. QED
  BY <1>1, <1>2, <1>3, <1>5, <1>6, <1>7, <1>8, <1>9, Unheard

(* What is known in check_next_token.                                       *)
Dispatches(e) ==
    /\ Reached(e) /\ Tells(Kinds, heard, out, e) /\ e.phase = "body" /\ e \in Reader
    /\ e.depth = Levels /\ e.brackets = opened /\ e.strings = Begun
    /\ out.prev # "EOF"
    /\ e.line # "open" => e.strings = 0
    /\ e.line = "first" => cur.ch = "default" /\ cur.type # "NEWLINE" /\ Levels = 0
    /\ e.line \in {"ended", "indented"} => cur.type \notin {"WS", "COMMENT", "NEWLINE"}
    /\ e.line = "indented" => cur.type # "EOF"
    /\ e.line \in {"first", "open", "ended", "indented", "joined"}

LEMMA Dispatching ==
    ASSUME IInv, OrderOK, StreamInv, pc = "dispatch"
    PROVE  \E e : Dispatches(e)
<1>1. PICK e : Reached(e)
  BY DEF StreamInv
<1>2. e \in Reader
  BY <1>1 DEF Reached, Tells, Told
<1>3. e.line \in {"first", "open", "ended", "indented", "joined"}
  BY <1>2 DEF Reader
<1>4. Dispatches(e)
  BY <1>1, <1>2, <1>3 DEF Dispatches, Reached, Placed, NextUp
<1>5. QED
  BY <1>4

(* The current token counts as begun once it is queued.                     *)
LEMMA BegunQueued ==
    ASSUME pc = "dispatch", cur \in Token, CurrentOK(cur, fs), Literals(fs) \in Nat
    PROVE  Begun = IF cur.type = "FSTRING_START" THEN Literals(fs) - 1
                   ELSE IF cur.type = "FSTRING_END" THEN Literals(fs) + 1 ELSE Literals(fs)
<1>1. /\ cur \in Kinds.begin <=> cur.type = "FSTRING_START"
      /\ cur \in Kinds.end <=> cur.type = "FSTRING_END"
  BY KindsFacts DEF CurrentOK, HiddenTypes
<1>2. QED
  BY <1>1 DEF Begun, BegunIn

LEMMA AddCurrentStream ==
    IInv /\ IInv' /\ OrderOK /\ StreamInv /\ (OpenBracket \/ CloseBracket \/ ErrorToken \/ OtherToken)
       => StreamInv' /\ Now' = Now
<1> SUFFICES ASSUME IInv, IInv', OrderOK, StreamInv,
                    OpenBracket \/ CloseBracket \/ ErrorToken \/ OtherToken
             PROVE  StreamInv' /\ Now' = Now
  OBVIOUS
<1>1. /\ pc = "dispatch" /\ pc' = "finish" /\ out' = AddPending(out, cur)
      /\ cur.type \notin {"EOF", "NEWLINE"}
      /\ UNCHANGED <<read, cur, ffg, fs, ind, heard>>
  BY DEF OpenBracket, CloseBracket, ErrorToken, OtherToken, At, AddCurrent, Goto
<1>2. opened' = IF cur.type \in {"LPAR", "LBRACE"} THEN opened + 1
                ELSE IF cur.type \in {"RPAR", "RBRACE"} THEN opened - 1 ELSE opened
  BY DEF OpenBracket, CloseBracket, ErrorToken, OtherToken, At
<1>3. /\ CurrentOK(cur, fs) /\ RawOK(ffg) /\ out \in Queue /\ heard \in Heard
      /\ cur \in Token /\ cur.pos # 0 /\ Literals(fs) \in Nat
  BY <1>1, StreamFacts
<1>4. PICK e : Dispatches(e)
  BY <1>1, Dispatching
<1>5. Begun = IF cur.type = "FSTRING_START" THEN Literals(fs) - 1
              ELSE IF cur.type = "FSTRING_END" THEN Literals(fs) + 1 ELSE Literals(fs)
  BY <1>1, <1>3, BegunQueued
<1>6. Readable(Kinds, e, cur)
  <2>1. cur \in Counted(Kinds) => cur.ch = "default"
    BY <1>3, KindsFacts
  <2>2. cur \in Kinds.end => e.strings > 0
    <3>1. cur \in Kinds.end => cur.type = "FSTRING_END"
      BY <1>3, KindsFacts
    <3>2. cur \in Kinds.end => e.strings = Literals(fs) + 1
      BY <1>4, <1>5, <3>1 DEF Dispatches
    <3>3. QED
      BY <1>3, <3>2
  <2>3. cur.type = "EXPLICIT_LINE_JOINING" => cur.ch = "hidden"
    BY <1>3 DEF CurrentOK, HiddenTypes
  <2>4. QED
    BY <1>1, <1>3, <1>4, <2>1, <2>2, <2>3 DEF Dispatches, Readable, CurrentOK, NotMade
<1>7. PICK f : Continues(Kinds, heard, out, e, out', f) /\ ReadsOn(Kinds, e, cur, f)
  BY <1>1, <1>3, <1>4, <1>6, KindsFacts, TellRead DEF Dispatches
<1>8. /\ cur.type \in {"LPAR", "LBRACE"} <=> cur \in Kinds.open
      /\ cur.type \in {"RPAR", "RBRACE"} <=> cur \in Kinds.close
      /\ cur.type = "FSTRING_START" <=> cur \in Kinds.begin
      /\ cur.type = "FSTRING_END" <=> cur \in Kinds.end
  BY <1>3, KindsFacts DEF CurrentOK, HiddenTypes
<1>9. f.depth = Levels /\ f.brackets = opened' /\ f.phase = "body"
  BY <1>1, <1>2, <1>4, <1>7, <1>8 DEF Dispatches, ReadsOn
<1>10. f.strings = Begun'
  <2>1. Begun' = Literals(fs)
    BY <1>1 DEF Begun, BegunIn
  <2>2. f.strings = IF cur.type = "FSTRING_START" THEN Begun + 1
                    ELSE IF cur.type = "FSTRING_END" THEN Begun - 1 ELSE Begun
    BY <1>4, <1>7, <1>8 DEF Dispatches, ReadsOn
  <2>3. QED
    BY <1>3, <1>5, <2>1, <2>2
<1>11. /\ f.line \in {"open", "joined"}
       /\ f.line = "joined" => f.strings = 0
  <2>1. f.line = IF cur.type = "EXPLICIT_LINE_JOINING"
                 THEN IF e.line = "ended" THEN "joined"
                      ELSE IF e.line = "indented" THEN "open" ELSE e.line
                 ELSE IF cur.ch = "hidden" THEN e.line ELSE "open"
    BY <1>1, <1>7 DEF ReadsOn
  <2>2. cur.type = "EXPLICIT_LINE_JOINING" => cur.ch = "hidden"
    BY <1>3 DEF CurrentOK, HiddenTypes
  <2>3. cur.ch = "hidden" => cur.type \in {"WS", "COMMENT", "EXPLICIT_LINE_JOINING"}
    BY <1>1, <1>3 DEF CurrentOK, HiddenTypes
  <2>4. cur.ch = "hidden" => f.strings = e.strings
    BY <1>7, <1>8, <2>3 DEF ReadsOn
  <2>5. QED
    BY <1>4, <2>1, <2>2, <2>3, <2>4 DEF Dispatches
<1>12. out'.prev = cur.type
  BY <1>1 DEF AddPending
<1>13. Levels' = Levels
  BY <1>1 DEF Levels
<1>14. Placed(f.line)'
  BY <1>1, <1>10, <1>11, <1>12 DEF Placed
<1>15. QED
  BY <1>1, <1>3, <1>4, <1>7, <1>9, <1>10, <1>12, <1>13, <1>14, Unheard DEF Dispatches

(* A NEWLINE that is hidden in the middle of a line.                        *)
LEMMA HiddenNewline ==
    ASSUME IInv, IInv', OrderOK, StreamInv, pc = "dispatch", pc' = "finish", cur.type = "NEWLINE",
           out' = HideAndAdd(out, cur), UNCHANGED <<read, cur, ffg, fs, opened, ind, heard>>
    PROVE  StreamInv' /\ Now' = Now
<1>1. /\ CurrentOK(cur, fs) /\ RawOK(ffg) /\ out \in Queue /\ heard \in Heard
      /\ cur \in Token /\ cur.pos # 0 /\ Literals(fs) \in Nat
  BY StreamFacts
<1>2. PICK e : Dispatches(e)
  BY Dispatching
<1>3. e.line \in {"open", "joined"}
  BY <1>2 DEF Dispatches
<1>4. PICK f : /\ Continues(Kinds, heard, out, e, out', f) /\ out'.prev = cur.type
               /\ f.depth = e.depth /\ f.brackets = e.brackets /\ f.strings = e.strings
               /\ f.phase = "body" /\ f.line = e.line
  <2>1. Tells(Kinds, heard, out, e) /\ e.phase = "body"
    BY <1>2 DEF Dispatches
  <2>2. QED
    BY <1>1, <2>1, KindsFacts, TellHidden
<1>5. Levels' = Levels /\ Begun' = Begun
  <2>1. Begun = Literals(fs)
    BY <1>1, BegunQueued
  <2>2. Begun' = Literals(fs)
    BY DEF Begun, BegunIn
  <2>3. QED
    BY <2>1, <2>2 DEF Levels
<1>6. Placed(f.line)'
  BY <1>2, <1>3, <1>4, <1>5 DEF Placed, Dispatches
<1>7. QED
  BY <1>1, <1>2, <1>4, <1>5, <1>6, Unheard DEF Dispatches

LEMMA NewlineInFStringStream ==
    IInv /\ IInv' /\ OrderOK /\ StreamInv /\ NewlineInFString => StreamInv' /\ Now' = Now
<1> SUFFICES ASSUME IInv, IInv', OrderOK, StreamInv, NewlineInFString PROVE StreamInv' /\ Now' = Now
  OBVIOUS
<1>1. /\ pc = "dispatch" /\ pc' = "finish" /\ cur.type = "NEWLINE" /\ fs.modes # <<>>
      /\ out' = AddPending(out, cur)
      /\ UNCHANGED <<read, cur, ffg, fs, opened, ind, heard, reported>>
  BY DEF NewlineInFString, At, InFString, AddCurrent, Goto
<1>2. HideAndAdd(out, cur) = AddPending(out, cur)
  <2>1. cur \in Token /\ cur.ch = "hidden"
    BY <1>1, StreamFacts DEF CurrentOK
  <2>2. [cur EXCEPT !.ch = "hidden"] = cur
    BY <2>1 DEF Token
  <2>3. QED
    BY <2>2 DEF HideAndAdd
<1>3. QED
  BY <1>1, <1>2, HiddenNewline

LEMMA NewlineInBracketsStream ==
    IInv /\ IInv' /\ OrderOK /\ StreamInv /\ NewlineInBrackets => StreamInv' /\ Now' = Now
<1> SUFFICES ASSUME IInv, IInv', OrderOK, StreamInv, NewlineInBrackets PROVE StreamInv' /\ Now' = Now
  OBVIOUS
<1>1. /\ pc = "dispatch" /\ pc' = "finish" /\ out' = HideAndAdd(out, cur) /\ cur.type = "NEWLINE"
      /\ UNCHANGED <<read, cur, ffg, fs, opened, ind, heard, reported>>
  BY DEF NewlineInBrackets, At, Goto
<1>2. QED
  BY <1>1, HiddenNewline

(* insert_INDENT_or_DEDENT_token at the end of a line.                      *)
LEMMA InsertStream ==
    ASSUME IInv, IInv', NEW e, Reached(e), NEW q \in Queue, NEW f, out \in Queue, heard \in Heard,
           Continues(Kinds, heard, out, e, q, f), q.prev # "EOF",
           f.depth = Levels, f.brackets = opened, opened <= 0, f.strings = 0,
           f.phase = "body", f.line = "ended",
           NEW i \in Indentation, i.stack = ind.stack, NEW len \in Nat, InsertLevels(q, i, len),
           ind.stack \in Seq(Nat), SoundStack(ind.stack), Levels = Len(ind.stack) - 1,
           pc' = "finish", heard' = heard, opened' = opened, Begun' = 0, RawOK(ffg'),
           ffg'.type \notin {"WS", "COMMENT", "NEWLINE"}, ffg'.type = "EOF" => len = 0
    PROVE  StreamInv' /\ Now' = Now
<1>1. PICK s \in Seq(Nat) : s = ind.stack /\ SoundStack(s)
  OBVIOUS
<1>2. out' = AddAll(q, LevelTokens(s, len)) /\ ind'.stack = StackAfter(s, len)
  BY <1>1 DEF InsertLevels, Levelled, Indentation
<1>3. Tells(Kinds, heard, q, f)
  BY DEF Continues
<1>4. PICK g : /\ Continues(Kinds, heard, q, f, AddAll(q, LevelTokens(s, len)), g)
               /\ LevelsOn(f, s, len, g)
  <2>1. f.depth = Len(s) - 1
    BY <1>1
  <2>2. RoomForLevels(Kinds, f, s, len)
    BY <1>1, <2>1, KindsFacts DEF RoomForLevels
  <2>3. QED
    BY <1>3, <2>2, TellLevels, Zenon
<1>5. Continues(Kinds, heard, out, e, out', g)
  BY <1>2, <1>4, ContinuesOn
<1>6. Levels' = Len(StackAfter(s, len)) - 1
  <2>1. ind'.stack # <<>>
    BY <1>1, <1>2, StackAfterSound DEF SoundStack
  <2>2. QED
    BY <1>2, <2>1 DEF Levels
<1>7. out'.prev # "EOF"
  <2>1. PICK ts \in Seq(Token) : ts = LevelTokens(s, len)
    BY <1>1, LevelTokensType
  <2>2. CASE ts = <<>>
    BY <1>2, <2>1, <2>2 DEF AddAll
  <2>3. CASE ts # <<>>
    <3>1. Len(ts) \in 1..Len(ts)
      BY <2>3, EmptySeq, LenProperties
    <3>2. Last(ts) \in {INDENT, DEDENT, BAD_DEDENT}
      BY <1>1, <2>1, <3>1, LevelTokensType DEF Last
    <3>3. Last(ts).type # "EOF"
      BY <3>2, MadeFields
    <3>4. out'.prev = Last(ts).type
      BY <1>2, <2>1, <2>3 DEF AddAll
    <3>5. QED
      BY <3>3, <3>4
  <2>4. QED
    BY <2>2, <2>3
<1>8. /\ g.depth = Levels' /\ g.brackets = opened' /\ g.strings = Begun'
      /\ g.phase = IF out'.prev = "EOF" THEN "ended" ELSE "body"
      /\ g.line \in {"ended", "joined", "indented", "open"}
      /\ len = 0 => g.line \in {"ended", "joined"}
  BY <1>4, <1>6, <1>7 DEF LevelsOn
<1>9. Placed(g.line)'
  BY <1>7, <1>8 DEF Placed, NextUp
<1>10. QED
  BY <1>5, <1>8, <1>9, Unheard

(* A NEWLINE outside brackets and f-strings.                                *)
LEMMA EndingLine ==
    ASSUME IInv, OrderOK, StreamInv, EndsLine
    PROVE  \E e : /\ Dispatches(e) /\ e.line \in {"open", "joined"} /\ e.strings = 0
                  /\ e.brackets <= 0 /\ Literals(fs) = 0
                  /\ fs.mode = DEFAULT_MODE /\ cur.ch = "default"
                  /\ \E f : /\ Continues(Kinds, heard, out, e, AddPending(out, cur), f)
                            /\ f.depth = Levels /\ f.brackets = opened /\ f.strings = 0
                            /\ f.phase = "body" /\ f.line = "ended"
<1>1. pc = "dispatch" /\ cur.type = "NEWLINE" /\ opened <= 0 /\ fs.modes = <<>>
  BY DEF EndsLine, At, InFString
<1>2. /\ CurrentOK(cur, fs) /\ out \in Queue /\ heard \in Heard
      /\ cur \in Token /\ cur.pos # 0 /\ Literals(fs) \in Nat /\ SoundState(fs)
  BY <1>1, StreamFacts
<1>3. Literals(fs) = 0 /\ fs.mode = DEFAULT_MODE
  BY <1>1, <1>2, NoLiterals
<1>4. Begun = 0
  BY <1>1, <1>2, <1>3, BegunQueued
<1>5. PICK e : Dispatches(e)
  BY <1>1, Dispatching
<1>6. /\ e.line \in {"open", "joined"} /\ e.strings = 0 /\ e.brackets <= 0
      /\ Tells(Kinds, heard, out, e) /\ e.phase = "body"
      /\ e.depth = Levels /\ e.brackets = opened
  BY <1>1, <1>4, <1>5 DEF Dispatches
<1>7. cur.ch = "default"
  BY <1>1, <1>2 DEF CurrentOK, HiddenTypes
<1>8. PICK f : /\ Continues(Kinds, heard, out, e, AddPending(out, cur), f)
               /\ f.depth = e.depth /\ f.brackets = e.brackets /\ f.strings = e.strings
               /\ f.phase = "body" /\ f.line = "ended"
  BY <1>1, <1>2, <1>6, <1>7, KindsFacts, TellNewline
<1>9. f.depth = Levels /\ f.brackets = opened /\ f.strings = 0
  BY <1>6, <1>8
<1>10. QED
  BY <1>3, <1>5, <1>6, <1>7, <1>8, <1>9

LEMMA NewlineNoWsStream ==
    IInv /\ IInv' /\ OrderOK /\ StreamInv /\ NewlineNoWs => StreamInv' /\ Now' = Now
<1> SUFFICES ASSUME IInv, IInv', OrderOK, StreamInv, NewlineNoWs PROVE StreamInv' /\ Now' = Now
  OBVIOUS
<1>1. /\ pc = "dispatch" /\ pc' = "finish" /\ cur.type = "NEWLINE" /\ opened <= 0
      /\ ffg.type # "WS" /\ EndsLine
      /\ UNCHANGED <<read, cur, ffg, fs, opened, heard>>
  BY DEF NewlineNoWs, EndsLine, At, Goto
<1>2. CASE out' = HideAndAdd(out, cur) /\ ind' = ind
  BY <1>1, <1>2, HiddenNewline
<1>3. CASE ~BeforeBlank(ffg) /\ InsertLevels(AddPending(out, cur), ind, 0)
  <2>1. /\ RawOK(ffg) /\ out \in Queue /\ heard \in Heard /\ cur \in Token
        /\ ind \in Indentation /\ ind.stack \in Seq(Nat) /\ SoundStack(ind.stack)
        /\ Levels = Len(ind.stack) - 1
    BY <1>1, StreamFacts
  <2>2. PICK e, f : /\ Dispatches(e) /\ Literals(fs) = 0
                    /\ Continues(Kinds, heard, out, e, AddPending(out, cur), f)
                    /\ f.depth = Levels /\ f.brackets = opened /\ f.strings = 0
                    /\ f.phase = "body" /\ f.line = "ended"
    BY <1>1, EndingLine
  <2>3. PICK q \in Queue : q = AddPending(out, cur) /\ q.prev = "NEWLINE"
    BY <1>1, <2>1, AddPendingType DEF AddPending
  <2>4. ffg'.type \notin {"WS", "COMMENT", "NEWLINE"} /\ RawOK(ffg') /\ Begun' = 0
    BY <1>1, <1>3, <2>1, <2>2 DEF BeforeBlank, Begun, BegunIn
  <2>5. InsertLevels(q, ind, 0) /\ Continues(Kinds, heard, out, e, q, f) /\ q.prev # "EOF"
    BY <1>3, <2>2, <2>3
  <2>6. Reached(e)
    BY <2>2 DEF Dispatches
  <2>7. QED
    BY <1>1, <2>1, <2>2, <2>4, <2>5, <2>6, 0 \in Nat, InsertStream
<1>4. QED
  BY <1>2, <1>3 DEF NewlineNoWs

LEMMA NewlineThenWsStream ==
    IInv /\ IInv' /\ OrderOK /\ StreamInv /\ NewlineThenWs => StreamInv' /\ Now' = Now
<1> SUFFICES ASSUME IInv, IInv', OrderOK, StreamInv, NewlineThenWs PROVE StreamInv' /\ Now' = Now
  OBVIOUS
<1>1. /\ pc = "dispatch" /\ pc' = "finish" /\ cur.type = "NEWLINE" /\ opened <= 0
      /\ ffg.type = "WS" /\ EndsLine /\ cur' = ffg
      /\ UNCHANGED <<fs, opened, heard>>
  BY DEF NewlineThenWs, EndsLine, At, Goto
<1>2. /\ RawOK(ffg) /\ CurrentOK(cur, fs) /\ out \in Queue /\ heard \in Heard
      /\ cur \in Token /\ cur.pos # 0
      /\ ffg \in Token /\ ffg.pos # 0 /\ read \in Nat /\ Fits(ffg, fs) /\ fs.mode \in Modes
      /\ ind \in Indentation /\ ind.stack \in Seq(Nat) /\ SoundStack(ind.stack)
      /\ Levels = Len(ind.stack) - 1
  BY <1>1, StreamFacts
<1>3. PICK e, f1 : /\ Dispatches(e) /\ e.line \in {"open", "joined"} /\ e.strings = 0
                   /\ Literals(fs) = 0
                   /\ Continues(Kinds, heard, out, e, AddPending(out, cur), f1)
                   /\ f1.depth = Levels /\ f1.brackets = opened /\ f1.strings = 0
                   /\ f1.phase = "body" /\ f1.line = "ended"
  BY <1>1, EndingLine
<1>4. /\ Reached(e) /\ Tells(Kinds, heard, out, e) /\ e.depth = Levels /\ e.brackets = opened
      /\ e.phase = "body"
  BY <1>3 DEF Dispatches
<1>5. PICK r \in Raw(fs.mode, ffg, read) :
          /\ ffg' = r /\ read' = r.pos
          /\ \/ /\ BeforeBlank(r)
                /\ out' = AddPending(HideAndAdd(out, cur), ffg)
                /\ UNCHANGED <<ind, reported>>
             \/ /\ r.type = "EOF"
                /\ InsertLevels(AddPending(AddPending(out, cur), ffg), ind, 0)
             \/ /\ ~BeforeBlank(r) /\ r.type # "EOF" /\ ~FirstMix(ind, ffg.text)
                /\ InsertLevels(AddPending(AddPending(out, cur), ffg),
                                Measured(ind, ffg.text), IndentLength(ind, ffg.text))
             \/ /\ ~BeforeBlank(r) /\ r.type # "EOF" /\ FirstMix(ind, ffg.text)
                /\ ind' = Measured(ind, ffg.text)
                /\ out' = AddPending(AddPending(out, cur), BAD_TABS)
                /\ reported' = TRUE
  BY DEF NewlineThenWs
<1>6. RawOK(ffg') /\ ffg'.type # "WS" /\ Begun' = 0
  <2>1. RawOK(r) /\ r.type # "WS"
    BY <1>1, <1>2, RawIsRaw
  <2>2. QED
    BY <1>1, <1>3, <1>5, <2>1 DEF Begun, BegunIn
<1>7. PICK q1 \in Queue : q1 = AddPending(out, cur) /\ q1.prev = "NEWLINE"
  BY <1>1, <1>2, AddPendingType DEF AddPending
<1>8. ASSUME NEW q \in Queue, NEW f, Tells(Kinds, heard, q, f), f.phase = "body"
      PROVE  \E g : /\ Continues(Kinds, heard, q, f, AddPending(q, ffg), g)
                    /\ AddPending(q, ffg).prev = "WS"
                    /\ g.depth = f.depth /\ g.brackets = f.brackets /\ g.strings = f.strings
                    /\ g.phase = "body" /\ g.line = f.line
  <2>1. ffg.ch = "hidden" /\ ffg.type \in HiddenTypes
    BY <1>1, <1>2 DEF RawOK, HiddenTypes
  <2>2. HideAndAdd(q, ffg) = AddPending(q, ffg)
    <3>1. [ffg EXCEPT !.ch = "hidden"] = ffg
      BY <1>2, <2>1 DEF Token
    <3>2. QED
      BY <3>1 DEF HideAndAdd
  <2>3. QED
    BY <1>1, <1>2, <1>8, <2>1, <2>2, KindsFacts, TellHidden
<1>9. PICK q2, f2 :
          /\ q2 \in Queue /\ q2 = AddPending(q1, ffg) /\ q2.prev = "WS"
          /\ Continues(Kinds, heard, out, e, q2, f2)
          /\ f2.depth = Levels /\ f2.brackets = opened /\ f2.strings = 0
          /\ f2.phase = "body" /\ f2.line = "ended"
  <2>1. Tells(Kinds, heard, q1, f1)
    BY <1>3, <1>7 DEF Continues
  <2>2. PICK f2 : /\ Continues(Kinds, heard, q1, f1, AddPending(q1, ffg), f2)
                  /\ AddPending(q1, ffg).prev = "WS"
                  /\ f2.depth = f1.depth /\ f2.brackets = f1.brackets /\ f2.strings = f1.strings
                  /\ f2.phase = "body" /\ f2.line = f1.line
    <3>1. q1 \in Queue /\ f1.phase = "body"
      BY <1>3, <1>7
    <3>2. QED
      BY <1>8, <2>1, <3>1, Zenon
  <2>3. PICK q2 \in Queue : q2 = AddPending(q1, ffg)
    BY <1>2, <1>7, AddPendingType
  <2>4. Continues(Kinds, heard, out, e, q2, f2)
    <3>1. Continues(Kinds, heard, out, e, q1, f1)
      BY <1>3, <1>7
    <3>2. Continues(Kinds, heard, q1, f1, q2, f2)
      BY <2>2, <2>3
    <3>3. QED
      BY <3>1, <3>2, ContinuesOn
  <2>5. QED
    BY <1>3, <2>2, <2>3, <2>4
<1>10. CASE out' = AddPending(HideAndAdd(out, cur), ffg) /\ ind' = ind
  <2>1. PICK f : /\ Continues(Kinds, heard, out, e, HideAndAdd(out, cur), f)
                 /\ f.depth = e.depth /\ f.brackets = e.brackets /\ f.strings = e.strings
                 /\ f.phase = "body" /\ f.line = e.line
    BY <1>1, <1>2, <1>4, KindsFacts, TellHidden
  <2>2. PICK q \in Queue : q = HideAndAdd(out, cur) /\ Tells(Kinds, heard, q, f)
    BY <2>1 DEF Continues
  <2>3. PICK g : /\ Continues(Kinds, heard, q, f, out', g) /\ out'.prev = "WS"
                 /\ g.depth = f.depth /\ g.brackets = f.brackets /\ g.strings = f.strings
                 /\ g.phase = "body" /\ g.line = f.line
    BY <1>8, <1>10, <2>1, <2>2
  <2>4. Continues(Kinds, heard, out, e, out', g)
    BY <2>1, <2>2, <2>3, ContinuesOn
  <2>5. Levels' = Levels
    BY <1>10 DEF Levels
  <2>6. g.depth = Levels' /\ g.brackets = opened' /\ g.strings = Begun'
    BY <1>1, <1>3, <1>4, <1>6, <2>1, <2>3, <2>5
  <2>7. Placed(g.line)'
    BY <1>1, <1>3, <1>6, <2>1, <2>3 DEF Placed
  <2>8. QED
    BY <1>1, <1>4, <1>6, <2>3, <2>4, <2>6, <2>7, Unheard
<1>11. ASSUME NEW i \in Indentation, NEW len \in Nat, i.stack = ind.stack, InsertLevels(q2, i, len),
              ~BeforeBlank(ffg'), ffg'.type = "EOF" => len = 0
       PROVE  StreamInv' /\ Now' = Now
  <2>1. ffg'.type \notin {"WS", "COMMENT", "NEWLINE"}
    BY <1>6, <1>11 DEF BeforeBlank
  <2>2. q2.prev # "EOF"
    BY <1>9
  <2>3. QED
    BY <1>1, <1>2, <1>4, <1>6, <1>9, <1>11, <2>1, <2>2, InsertStream
<1>12. CASE ffg'.type = "EOF" /\ InsertLevels(AddPending(AddPending(out, cur), ffg), ind, 0)
  <2>1. InsertLevels(q2, ind, 0) /\ ~BeforeBlank(ffg')
    BY <1>7, <1>9, <1>12 DEF BeforeBlank
  <2>2. QED
    BY <1>2, <1>11, <2>1, 0 \in Nat
<1>13. CASE /\ ~BeforeBlank(ffg') /\ ffg'.type # "EOF" /\ ~FirstMix(ind, ffg.text)
            /\ InsertLevels(AddPending(AddPending(out, cur), ffg),
                            Measured(ind, ffg.text), IndentLength(ind, ffg.text))
  <2>1. InsertLevels(q2, Measured(ind, ffg.text), IndentLength(ind, ffg.text))
    BY <1>7, <1>9, <1>13
  <2>2. ffg.text \in WsTexts
    BY <1>1, <1>2 DEF Fits
  <2>3. IndentLength(ind, ffg.text) \in Nat
    BY <1>13, <2>2, Widths DEF IndentLength
  <2>4. /\ Measured(ind, ffg.text) \in Indentation
        /\ Measured(ind, ffg.text).stack = ind.stack
    BY <1>2, MeasuredType
  <2>5. QED
    BY <1>11, <1>13, <2>1, <2>3, <2>4
<1>14. CASE /\ ind' = Measured(ind, ffg.text)
            /\ out' = AddPending(AddPending(out, cur), BAD_TABS)
  <2>1. Tells(Kinds, heard, q1, f1)
    BY <1>3, <1>7 DEF Continues
  <2>2. PICK g : /\ Continues(Kinds, heard, q1, f1, AddPending(q1, BAD_TABS), g)
                 /\ AddPending(q1, BAD_TABS).prev = "ERRORTOKEN"
                 /\ g.depth = f1.depth /\ g.brackets = f1.brackets /\ g.strings = f1.strings
                 /\ g.phase = "body" /\ g.line = "open"
    BY <1>2, <1>3, <1>7, <2>1, KindsFacts, TellBadTabs
  <2>3. out' = AddPending(q1, BAD_TABS) /\ out'.prev = "ERRORTOKEN"
    BY <1>7, <1>14, <2>2
  <2>4. Continues(Kinds, heard, out, e, out', g)
    BY <1>3, <1>7, <2>2, <2>3, ContinuesOn
  <2>5. Levels' = Levels
    <3>1. ind'.stack = ind.stack
      BY <1>14 DEF Measured
    <3>2. QED
      BY <3>1 DEF Levels
  <2>6. g.depth = Levels' /\ g.brackets = opened' /\ g.strings = Begun'
    BY <1>1, <1>3, <1>6, <2>2, <2>5
  <2>7. Placed(g.line)'
    BY <1>1, <2>2, <2>3 DEF Placed
  <2>8. QED
    BY <1>1, <1>4, <1>6, <2>2, <2>3, <2>4, <2>6, <2>7, Unheard
<1>15. QED
  BY <1>5, <1>10, <1>12, <1>13, <1>14

LEMMA FStringMiddleStream ==
    IInv /\ IInv' /\ OrderOK /\ StreamInv /\ FStringMiddle => StreamInv' /\ Now' = Now
<1> SUFFICES ASSUME IInv, IInv', OrderOK, StreamInv, FStringMiddle PROVE StreamInv' /\ Now' = Now
  OBVIOUS
<1>1. /\ pc = "dispatch" /\ pc' = "finish" /\ cur.type = "FSTRING_MIDDLE"
      /\ UNCHANGED <<read, ffg, fs, opened, ind, heard, reported>>
  <2>1. At({"FSTRING_MIDDLE"}) /\ Goto("finish")
        /\ UNCHANGED <<read, ffg, fs, opened, ind, heard, reported>>
    BY Zenon DEF FStringMiddle
  <2>2. QED
    BY <2>1 DEF At, Goto
<1>2. /\ CurrentOK(cur, fs) /\ RawOK(ffg) /\ out \in Queue /\ heard \in Heard
      /\ cur \in Token /\ cur.pos # 0 /\ Literals(fs) \in Nat
  BY <1>1, StreamFacts
<1>3. PICK e : Dispatches(e)
  BY <1>1, Dispatching
<1>4. /\ Reached(e) /\ Tells(Kinds, heard, out, e) /\ e.phase = "body"
      /\ e.depth = Levels /\ e.brackets = opened /\ e.strings = Literals(fs)
  BY <1>1, <1>2, <1>3, BegunQueued DEF Dispatches
<1>5. cur.ch = "default"
  BY <1>1, <1>2 DEF CurrentOK, HiddenTypes
<1>6. ASSUME NEW a \in Token, a.type = "FSTRING_MIDDLE", a.ch = "default", a.pos # 0
      PROVE  \E f : /\ Continues(Kinds, heard, out, e, AddPending(out, a), f)
                    /\ f.depth = e.depth /\ f.brackets = e.brackets /\ f.strings = e.strings
                    /\ f.phase = "body" /\ f.line = "open"
  <2>1. Readable(Kinds, e, a)
    BY <1>4, <1>6, KindsFacts DEF Readable
  <2>2. PICK f : Continues(Kinds, heard, out, e, AddPending(out, a), f) /\ ReadsOn(Kinds, e, a, f)
    BY <1>2, <1>4, <2>1, KindsFacts, TellRead
  <2>3. QED
    BY <1>4, <1>6, <2>2, KindsFacts DEF ReadsOn
<1>7. \E f : /\ Continues(Kinds, heard, out, e, out', f)
             /\ f.depth = e.depth /\ f.brackets = e.brackets /\ f.strings = e.strings
             /\ f.phase = "body" /\ f.line = "open" /\ out'.prev # "EOF"
  <2>1. CASE ~EndsInDouble(cur)
    <3>1. out' = AddPending(out, cur)
      <4>1. cur' = cur
        BY <2>1, Zenon DEF FStringMiddle
      <4>2. QED
        BY <4>1, Zenon DEF FStringMiddle
    <3>2. out'.prev = cur.type
      BY <3>1 DEF AddPending
    <3>3. QED
      BY <1>1, <1>2, <1>5, <1>6, <3>1, <3>2
  <2>2. CASE EndsInDouble(cur)
    <3>1. PICK type \in {"LBRACE", "RBRACE"} : cur' = CutOff(cur, type, "hidden")
      <4>1. cur' = CutOff(cur, IF Last(cur.text) = "{" THEN "LBRACE" ELSE "RBRACE", "hidden")
        BY <2>2, Zenon DEF FStringMiddle
      <4>2. QED
        BY <4>1, Zenon
    <3>2. PICK b \in Token : /\ b = cur' /\ b.type \in {"LBRACE", "RBRACE"}
                             /\ b.ch = "hidden" /\ b.pos # 0
      <4>1. cur' \in Token
        BY DEF IInv, TypeOK
      <4>2. cur'.type = type /\ cur'.ch = "hidden" /\ cur'.pos = cur.pos
        BY <1>2, <3>1 DEF CutOff, Token
      <4>3. QED
        BY <1>2, <4>1, <4>2
    <3>3. PICK a \in Token : /\ a = Trimmed(cur) /\ a.type = "FSTRING_MIDDLE"
                             /\ a.ch = "default" /\ a.pos # 0
      <4>1. "LBRACE" \in Types /\ "default" \in Channels
        BY DEF Types, Channels
      <4>2. Trimmed(cur) \in Token
        BY <1>2, <2>2, <4>1, CutTokens, Zenon
      <4>3. QED
        BY <1>1, <1>2, <1>5, <4>2 DEF Trimmed, Token
    <3>4. PICK q : q = AddPending(out, a) /\ out' = AddPending(q, b)
      <4>1. cur' # cur
        BY <1>5, <3>2
      <4>2. QED
        BY <3>2, <3>3, <4>1, Zenon DEF FStringMiddle
    <3>5. PICK f : /\ Continues(Kinds, heard, out, e, q, f)
                   /\ f.depth = e.depth /\ f.brackets = e.brackets /\ f.strings = e.strings
                   /\ f.phase = "body" /\ f.line = "open"
      BY <1>6, <3>3, <3>4
    <3>6. Tells(Kinds, heard, q, f) /\ q \in Queue
      BY <3>5 DEF Continues
    <3>7. b \notin Counted(Kinds) /\ b \notin Kinds.open /\ b \notin Kinds.close
            /\ b \notin Kinds.begin /\ b \notin Kinds.end
      BY <3>2, KindsFacts
    <3>8. Readable(Kinds, f, b)
      BY <3>2, <3>5, <3>7 DEF Readable
    <3>9. PICK g : Continues(Kinds, heard, q, f, out', g) /\ ReadsOn(Kinds, f, b, g)
      BY <1>2, <3>4, <3>6, <3>8, KindsFacts, TellRead
    <3>10. /\ g.depth = f.depth /\ g.brackets = f.brackets /\ g.strings = f.strings
           /\ g.phase = "body" /\ g.line = "open"
      BY <3>2, <3>5, <3>7, <3>9 DEF ReadsOn
    <3>11. Continues(Kinds, heard, out, e, out', g)
      BY <3>5, <3>9, ContinuesOn
    <3>12. out'.prev # "EOF"
      BY <3>2, <3>4 DEF AddPending
    <3>13. QED
      BY <3>5, <3>10, <3>11, <3>12
  <2>3. QED
    BY <2>1, <2>2
<1>8. PICK f : /\ Continues(Kinds, heard, out, e, out', f)
               /\ f.depth = e.depth /\ f.brackets = e.brackets /\ f.strings = e.strings
               /\ f.phase = "body" /\ f.line = "open" /\ out'.prev # "EOF"
  BY <1>7
<1>9. Levels' = Levels /\ Begun' = Literals(fs)
  BY <1>1 DEF Levels, Begun, BegunIn
<1>10. Placed(f.line)'
  BY <1>1, <1>8 DEF Placed
<1>11. QED
  BY <1>1, <1>2, <1>4, <1>8, <1>9, <1>10, Unheard

LEMMA ColonEqualStream ==
    IInv /\ IInv' /\ OrderOK /\ StreamInv /\ ColonEqualInSpec => StreamInv' /\ Now' = Now
<1> SUFFICES ASSUME IInv, IInv', OrderOK, StreamInv, ColonEqualInSpec
             PROVE  StreamInv' /\ Now' = Now
  OBVIOUS
<1>1. /\ pc = "dispatch" /\ cur.type = "COLONEQUAL"
      /\ cur' = [cur EXCEPT !.type = "COLON"] /\ out' = AddPending(out, cur')
      /\ pc' \in {"finish", "failed"}
      /\ ffg' = ffg \/ ffg' = [ffg EXCEPT !.text = <<"=">> \o @]
      /\ UNCHANGED <<read, fs, opened, ind, heard, reported>>
  <2>1. /\ WalrusInSpec /\ out' = AddPending(out, cur') /\ cur' = [cur EXCEPT !.type = "COLON"]
        /\ UNCHANGED <<read, fs, opened, ind, heard, reported>>
    BY Zenon DEF ColonEqualInSpec
  <2>2. \/ ffg' = [ffg EXCEPT !.text = <<"=">> \o @] /\ Goto("finish")
        \/ ffg' = ffg /\ Fail("no such method")
    BY Zenon DEF ColonEqualInSpec
  <2>3. pc' \in {"finish", "failed"}
    <3>1. pc' = "finish" \/ pc' = "failed"
      BY <2>2, Zenon DEF Goto, Fail
    <3>2. QED
      BY <3>1
  <2>4. pc = "dispatch" /\ cur.type = "COLONEQUAL"
    BY <2>1, Zenon DEF WalrusInSpec, At
  <2>5. QED
    BY <2>1, <2>2, <2>3, <2>4, Zenon
<1>2. /\ CurrentOK(cur, fs) /\ RawOK(ffg) /\ ffg \in Token /\ out \in Queue /\ heard \in Heard
      /\ cur \in Token /\ cur.pos # 0 /\ Literals(fs) \in Nat
  BY <1>1, StreamFacts
<1>3. PICK e : Dispatches(e)
  BY <1>1, Dispatching
<1>4. /\ Reached(e) /\ Tells(Kinds, heard, out, e) /\ e.phase = "body"
      /\ e.depth = Levels /\ e.brackets = opened /\ e.strings = Literals(fs)
  BY <1>1, <1>2, <1>3, BegunQueued DEF Dispatches
<1>5. PICK c \in Token : c = cur' /\ c.type = "COLON" /\ c.ch = "default" /\ c.pos # 0
  <2>1. cur' \in Token
    BY DEF IInv, TypeOK
  <2>2. cur.ch = "default"
    BY <1>1, <1>2 DEF CurrentOK, HiddenTypes
  <2>3. QED
    BY <1>1, <1>2, <2>1, <2>2 DEF Token
<1>6. RawOK(ffg')
  <2>1. ffg'.type = ffg.type /\ ffg'.ch = ffg.ch
    BY <1>1, <1>2 DEF Token
  <2>2. QED
    BY <1>2, <2>1 DEF RawOK, NotMade
<1>7. Readable(Kinds, e, c)
  BY <1>4, <1>5, KindsFacts DEF Readable
<1>8. PICK f : Continues(Kinds, heard, out, e, out', f) /\ ReadsOn(Kinds, e, c, f)
  BY <1>1, <1>2, <1>4, <1>5, <1>7, KindsFacts, TellRead
<1>9. /\ f.depth = e.depth /\ f.brackets = e.brackets /\ f.strings = e.strings
      /\ f.phase = "body" /\ f.line = "open"
  BY <1>4, <1>5, <1>8, KindsFacts DEF ReadsOn
<1>10. Levels' = Levels /\ Begun' = Literals(fs) /\ out'.prev # "EOF"
  BY <1>1, <1>5 DEF Levels, Begun, BegunIn, AddPending
<1>11. Placed(f.line)'
  BY <1>1, <1>9, <1>10 DEF Placed
<1>12. QED
  BY <1>1, <1>4, <1>6, <1>8, <1>9, <1>10, <1>11, Unheard

LEMMA EndOfFileStream ==
    IInv /\ IInv' /\ OrderOK /\ StreamInv /\ EndOfFile => StreamInv' /\ Now' = Now
<1> SUFFICES ASSUME IInv, IInv', OrderOK, StreamInv, EndOfFile PROVE StreamInv' /\ Now' = Now
  OBVIOUS
<1>1. /\ pc = "dispatch" /\ pc' = "finish" /\ cur.type = "EOF"
      /\ UNCHANGED <<read, cur, ffg, fs, opened, heard>>
  BY DEF EndOfFile, At, Goto
<1>2. /\ RawOK(ffg) /\ CurrentOK(cur, fs) /\ out \in Queue /\ heard \in Heard
      /\ cur \in Token /\ cur.pos # 0 /\ Literals(fs) \in Nat
      /\ ind \in Indentation /\ ind.stack \in Seq(Nat) /\ SoundStack(ind.stack)
      /\ Levels = Len(ind.stack) - 1
  BY <1>1, StreamFacts
<1>3. PICK e : Dispatches(e)
  BY <1>1, Dispatching
<1>4. /\ Reached(e) /\ Tells(Kinds, heard, out, e) /\ e.phase = "body"
      /\ e.depth = Levels /\ e.brackets = opened /\ e.strings = Literals(fs)
      /\ e.line # "open" => e.strings = 0
      /\ e.line = "first" => Levels = 0
      /\ e.line # "indented"
  BY <1>1, <1>2, <1>3, BegunQueued DEF Dispatches
<1>5. Begun' = Literals(fs)
  BY <1>1 DEF Begun, BegunIn
<1>6. CASE out.last = "none" /\ out' = AddPending(out, cur) /\ ind' = ind
  <2>1. e.line = "first" /\ e.depth = 0
    BY <1>4, <1>6 DEF Tells
  <2>2. PICK f : /\ Continues(Kinds, heard, out, e, AddPending(out, cur), f)
                 /\ AddPending(out, cur).prev = "EOF"
                 /\ f.depth = 0 /\ f.brackets = e.brackets /\ f.strings = e.strings
                 /\ f.phase = "ended" /\ f.line = e.line
    BY <1>1, <1>2, <1>4, <2>1, KindsFacts, TellEof
  <2>3. Levels' = Levels
    BY <1>6 DEF Levels
  <2>4. Placed(f.line)'
    BY <1>1, <1>4, <1>6, <2>1, <2>2, <2>3 DEF Placed
  <2>5. QED
    BY <1>1, <1>2, <1>4, <1>5, <1>6, <2>1, <2>2, <2>3, <2>4, Unheard
<1>7. CASE /\ out.last # "none"
           /\ \E q : /\ q = IF out.last \in {"NEWLINE", "DEDENT"} THEN out
                            ELSE AddPending(out, TRAILING_NEWLINE)
                     /\ out' = AddPending(AddAll(q, LevelTokens(ind.stack, 0)), cur)
           /\ ind' = Levelled(ind, 0)
  <2>1. PICK q1 : /\ q1 = IF out.last \in {"NEWLINE", "DEDENT"} THEN out
                          ELSE AddPending(out, TRAILING_NEWLINE)
                  /\ out' = AddPending(AddAll(q1, LevelTokens(ind.stack, 0)), cur)
    BY <1>7
  <2>2. PICK f1 : /\ Continues(Kinds, heard, out, e, q1, f1)
                  /\ f1.depth = e.depth /\ f1.brackets = e.brackets /\ f1.strings = e.strings
                  /\ f1.phase \in {"body", "closing"} /\ f1.line \in {"ended", "joined"}
                  /\ f1.strings = 0 \/ f1.phase = "closing"
    BY <1>2, <1>4, <1>7, <2>1, KindsFacts, TellTrailing
  <2>3. q1 \in Queue /\ Tells(Kinds, heard, q1, f1)
    BY <2>2 DEF Continues
  <2>4. PICK s \in Seq(Nat) : s = ind.stack /\ SoundStack(s)
    BY <1>2
  <2>5. RoomForLevels(Kinds, f1, s, 0)
    <3>1. f1.depth = Len(s) - 1 /\ 0 \in Nat
      BY <1>2, <1>4, <2>2, <2>4
    <3>2. QED
      BY <2>2, <2>4, <3>1, KindsFacts DEF RoomForLevels
  <2>6. PICK f2 : /\ Continues(Kinds, heard, q1, f1, AddAll(q1, LevelTokens(s, 0)), f2)
                  /\ LevelsOn(f1, s, 0, f2)
    BY <1>2, <2>3, <2>5, TellLevels, Zenon
  <2>7. PICK q2 \in Queue : q2 = AddAll(q1, LevelTokens(s, 0)) /\ Tells(Kinds, heard, q2, f2)
    BY <2>6 DEF Continues
  <2>8. /\ f2.depth = 0 /\ f2.depth = Len(StackAfter(s, 0)) - 1 /\ f2.brackets = opened
        /\ f2.strings = Literals(fs) /\ f2.phase \in {"body", "closing"}
        /\ f2.line \in {"ended", "joined"}
    BY <1>4, <2>2, <2>6 DEF LevelsOn
  <2>9. PICK f3 : /\ Continues(Kinds, heard, q2, f2, AddPending(q2, cur), f3)
                  /\ AddPending(q2, cur).prev = "EOF"
                  /\ f3.depth = 0 /\ f3.brackets = f2.brackets /\ f3.strings = f2.strings
                  /\ f3.phase = "ended" /\ f3.line = f2.line
    <3>1. /\ f2.depth = 0 /\ f2.phase \in {"body", "closing"}
          /\ f2.line \in {"first", "ended", "joined"}
      BY <2>8
    <3>2. GoodKinds(Kinds) /\ q2 \in Queue /\ Tells(Kinds, heard, q2, f2) /\ cur.type = "EOF"
      BY <1>1, <2>7, KindsFacts
    <3>3. QED
      BY <1>2, <3>1, <3>2, TellEof
  <2>10. out' = AddPending(q2, cur)
    BY <2>1, <2>4, <2>7
  <2>11. Continues(Kinds, heard, out, e, out', f3)
    <3>1. Continues(Kinds, heard, q1, f1, q2, f2)
      BY <2>6, <2>7
    <3>2. Continues(Kinds, heard, out, e, q2, f2)
      BY <2>2, <3>1, ContinuesOn
    <3>3. Continues(Kinds, heard, q2, f2, out', f3)
      BY <2>9, <2>10
    <3>4. QED
      BY <3>2, <3>3, ContinuesOn
  <2>12. Levels' = 0
    <3>1. ind'.stack = StackAfter(s, 0)
      BY <1>2, <1>7, <2>4 DEF Levelled, Indentation
    <3>2. ind'.stack # <<>>
      BY <2>4, <3>1, StackAfterSound, 0 \in Nat DEF SoundStack
    <3>3. QED
      BY <2>8, <3>1, <3>2 DEF Levels
  <2>13. Placed(f3.line)'
    BY <1>1, <2>8, <2>9, <2>10 DEF Placed
  <2>14. QED
    BY <1>1, <1>2, <1>4, <1>5, <2>8, <2>9, <2>10, <2>11, <2>12, <2>13, Unheard
<1>8. QED
  BY <1>6, <1>7 DEF EndOfFile

(* pending_tokens.popleft() from queue q: the caller hears the head of it.  *)
LEMMA PopsStream ==
    ASSUME IInv, IInv', StreamInv, pc \in {"finish", "idle"}, NEW e, Reached(e),
           NEW q \in Queue, q.pending # <<>>, NEW f, Continues(Kinds, heard, out, e, q, f),
           f.depth = e.depth, f.brackets = e.brackets, f.strings = e.strings,
           f.phase = IF q.prev = "EOF" THEN "ended" ELSE "body",
           f.line = "first" => Levels = 0 /\ q.prev = "EOF",
           q.prev # "EOF" /\ f.line # "open" => Begun = 0,
           q.prev = "EOF" => cur.type = "EOF",
           q.prev # "EOF" /\ f.line \in {"ended", "indented"} =>
              ffg.type \notin {"WS", "COMMENT", "NEWLINE"},
           f.line = "indented" => ffg.type # "EOF",
           Pop(q), UNCHANGED <<read, cur, ffg, fs, opened, ind, reported>>
    PROVE  StreamInv' /\ Emits(Now, Now')
<1>1. /\ pc' = "idle" /\ out' = [q EXCEPT !.pending = Tail(@)]
      /\ heard' = HeardAfter(heard, Head(q.pending))
  BY DEF Pop, Goto
<1>2. /\ out \in Queue /\ heard \in Heard /\ fs \in FStringState /\ cur \in Token
      /\ out' \in Queue /\ fs' \in FStringState /\ cur' \in Token
  BY DEF IInv, TypeOK
<1>3. out'.prev = q.prev
  BY <1>1 DEF Queue
<1>4. Tells(Kinds, heard, q, f) /\ Before(Kinds, f, q.pending, heard) = Before(Kinds, e, out.pending, heard)
  BY DEF Continues
<1>5. /\ Tells(Kinds, heard', out', f)
      /\ Emits(Before(Kinds, f, q.pending, heard), Before(Kinds, f, out'.pending, heard'))
  BY <1>1, <1>2, <1>4, KindsFacts, TellHead
<1>6. Levels' = Levels /\ Begun' = Begun
  BY <1>1 DEF Levels, Begun, BegunIn
<1>7. e.depth = Levels /\ e.brackets = opened /\ e.strings = Begun
  BY DEF Reached
<1>8. Reached(f)'
  <2>1. Placed(f.line)'
    BY <1>1, <1>3, <1>6 DEF Placed, NextUp
  <2>2. QED
    BY <1>1, <1>3, <1>5, <1>6, <1>7, <2>1 DEF Reached
<1>9. Now = Before(Kinds, e, out.pending, heard)
  <2>1. e.strings = BegunIn(fs, pc, cur)
    BY <1>7 DEF Begun
  <2>2. QED
    BY <1>2, <1>7, <2>1, NowStands, NowIs
<1>10. Now' = Before(Kinds, f, out'.pending, heard')
  <2>1. Now' = Standing(out', heard', Levels', opened', fs', pc', cur')
    BY DEF Now, Standing, Typed, Hand, Pending, PendingAs, OwedTokens, Owed, InHand, OpenStrings
  <2>2. f.depth = Levels' /\ f.brackets = opened' /\ f.strings = BegunIn(fs', pc', cur')
    BY <1>6, <1>7 DEF Begun
  <2>3. QED
    BY <1>2, <2>1, <2>2, NowIs
<1>11. RawOK(ffg')
  BY DEF StreamInv
<1>12. QED
  BY <1>1, <1>4, <1>5, <1>8, <1>9, <1>10, <1>11 DEF StreamInv

LEMMA FinishStream ==
    IInv /\ IInv' /\ OrderOK /\ StreamInv /\ Finish => StreamInv' /\ Emits(Now, Now')
<1> SUFFICES ASSUME IInv, IInv', OrderOK, StreamInv, Finish PROVE StreamInv' /\ Emits(Now, Now')
  OBVIOUS
<1>1. pc = "finish" /\ UNCHANGED <<read, cur, ffg, fs, opened, ind, reported>>
  BY DEF Finish
<1>2. out \in Queue /\ out.pending # <<>> /\ heard \in Heard
  BY <1>1 DEF IInv, TypeOK, QueueInv, QueueOK
<1>3. PICK e : Reached(e)
  BY <1>1 DEF StreamInv
<1>4. /\ Tells(Kinds, heard, out, e)
      /\ e.phase = IF out.prev = "EOF" THEN "ended" ELSE "body"
      /\ e.line = "first" => Levels = 0 /\ out.prev = "EOF"
      /\ out.prev # "EOF" /\ e.line # "open" => Begun = 0
      /\ out.prev = "EOF" => cur.type = "EOF"
      /\ out.prev # "EOF" /\ e.line \in {"ended", "indented"} =>
            ffg.type \notin {"WS", "COMMENT", "NEWLINE"}
      /\ e.line = "indented" => ffg.type # "EOF"
  BY <1>1, <1>3 DEF Reached, Placed, NextUp
<1>5. CASE Pop(out)
  <2>1. Continues(Kinds, heard, out, e, out, e)
    BY <1>2, <1>4 DEF Continues
  <2>2. QED
    BY <1>1, <1>2, <1>3, <1>4, <1>5, <2>1, PopsStream
<1>6. CASE MayFill /\ Pop(AddPending(out, EMPTY_MIDDLE))
  <2>1. PICK x : x = EMPTY_MIDDLE
    OBVIOUS
  <2>2. x \in Token /\ x.type = "FSTRING_MIDDLE" /\ x.ch = "default"
    BY <2>1, MadeTokens DEF EMPTY_MIDDLE, MadeToken
  <2>3. PICK q \in Queue : q = AddPending(out, x) /\ q.pending # <<>> /\ q.prev = "FSTRING_MIDDLE"
    BY <1>2, <2>2, AddPendingType DEF AddPending
  <2>4. ffg.type = "RBRACE" /\ out.prev # "EOF" /\ e.phase = "body"
    BY <1>4, <1>6 DEF MayFill
  <2>5. /\ x \notin Counted(Kinds) /\ x \notin Kinds.open /\ x \notin Kinds.close
        /\ x \notin Kinds.begin /\ x \notin Kinds.end
    BY <2>2, KindsFacts DEF Counted
  <2>6. x \notin {INDENT, DEDENT, LEADING_INDENT, BAD_DEDENT, TRAILING_NEWLINE}
    BY <2>2, MadeFields
  <2>7. Legal(Kinds, e, x)
    BY <2>2, <2>4, <2>5, <2>6 DEF Legal
  <2>8. PICK f : Continues(Kinds, heard, out, e, q, f) /\ Reads(Kinds, e, x, f)
    BY <1>2, <1>4, <2>2, <2>3, <2>7, KindsFacts, TellMore
  <2>9. /\ f.depth = e.depth /\ f.brackets = e.brackets /\ f.strings = e.strings
        /\ f.phase = "body" /\ f.line = "open"
    BY <2>2, <2>4, <2>5, <2>6, <2>8 DEF Reads
  <2>10. Pop(q)
    BY <1>6, <2>1, <2>3
  <2>11. QED
    BY <1>1, <1>3, <2>3, <2>8, <2>9, <2>10, PopsStream
<1>7. QED
  BY <1>5, <1>6 DEF Finish

LEMMA DrainStream ==
    IInv /\ IInv' /\ OrderOK /\ StreamInv /\ Drain => StreamInv' /\ Emits(Now, Now')
<1> SUFFICES ASSUME IInv, IInv', OrderOK, StreamInv, Drain PROVE StreamInv' /\ Emits(Now, Now')
  OBVIOUS
<1>1. /\ pc = "idle" /\ out.prev = "EOF" /\ Pop(out)
      /\ UNCHANGED <<read, cur, ffg, fs, opened, ind, reported>>
  BY DEF Drain
<1>2. out \in Queue /\ out.pending # <<>>
  BY DEF IInv, QueueInv, QueueOK, Drain
<1>3. PICK e : Reached(e)
  BY <1>1 DEF StreamInv
<1>4. /\ Tells(Kinds, heard, out, e) /\ e.phase = "ended"
      /\ e.line = "first" => Levels = 0
      /\ cur.type = "EOF"
      /\ e.line = "indented" => ffg.type # "EOF"
  BY <1>1, <1>3 DEF Reached, Placed, NextUp
<1>5. Continues(Kinds, heard, out, e, out, e)
  BY <1>2, <1>4 DEF Continues
<1>6. QED
  BY <1>1, <1>2, <1>3, <1>4, <1>5, PopsStream

(* A new lexer, and a reset one: nothing is told yet.                       *)
LEMMA InitStream == Init => /\ StreamInv
                            /\ Now = [depth |-> 0, brackets |-> 0, strings |-> 0,
                                      line |-> "first", phase |-> "fresh"]
<1> SUFFICES ASSUME Init PROVE StreamInv /\ Now = [depth |-> 0, brackets |-> 0, strings |-> 0,
                                                   line |-> "first", phase |-> "fresh"]
  OBVIOUS
<1>1. /\ pc = "fresh" /\ opened = 0 /\ heard = NothingHeard /\ out = EmptyQueue
      /\ fs = NoFString /\ ind = NoIndentation
  BY DEF Init
<1>2. PICK e : /\ Reached(e) /\ e.depth = 0 /\ e.brackets = 0 /\ e.strings = 0
               /\ e.phase = "fresh" /\ e.line = "first" /\ Now = e
  BY <1>1, InitIInv, Fresh
<1>3. Now = [depth |-> 0, brackets |-> 0, strings |-> 0, line |-> "first", phase |-> "fresh"]
  BY <1>2 DEF Now
<1>4. QED
  BY <1>1, <1>2, <1>3 DEF StreamInv

(* What Now says of TokenStream.                                            *)
LEMMA Mapped ==
    /\ UNCHANGED Now => UNCHANGED TokenStream!stream
    /\ Emits(Now, Now') => TokenStream!Emit \/ UNCHANGED TokenStream!stream
<1>1. PICK r : r = Now
  OBVIOUS
<1>2. PICK c : c = Now'
  OBVIOUS
<1>3. /\ r.depth = Levels - PendingAs({INDENT}) + PendingAs({DEDENT, BAD_DEDENT})
      /\ r.brackets = opened - Pending({"LPAR", "LBRACE"}, "default") + Pending({"RPAR", "RBRACE"}, "default")
      /\ r.strings = OpenStrings - OwedTokens({"FSTRING_START"}, "default")
                                  + OwedTokens({"FSTRING_END"}, "default")
      /\ r.line = heard.line /\ r.phase = heard.phase
  BY <1>1 DEF Now
<1>4. /\ c.depth = (Levels - PendingAs({INDENT}) + PendingAs({DEDENT, BAD_DEDENT}))'
      /\ c.brackets = (opened - Pending({"LPAR", "LBRACE"}, "default") + Pending({"RPAR", "RBRACE"}, "default"))'
      /\ c.strings = (OpenStrings - OwedTokens({"FSTRING_START"}, "default")
                                   + OwedTokens({"FSTRING_END"}, "default"))'
      /\ c.line = heard'.line /\ c.phase = heard'.phase
  BY <1>2 DEF Now
<1>5. UNCHANGED Now => UNCHANGED TokenStream!stream
  <2> SUFFICES ASSUME r = c PROVE UNCHANGED TokenStream!stream
    BY <1>1, <1>2
  <2>1. QED
    BY <1>3, <1>4 DEF TokenStream!stream
<1>6. ASSUME Emits(r, c) PROVE TokenStream!Emit \/ UNCHANGED TokenStream!stream
  <2>1. CASE c = r
    BY <1>1, <1>2, <1>5, <2>1
  <2>2. CASE /\ r.phase = "body" /\ r.strings = 0
             /\ \/ r.line = "ended" /\ r.brackets <= 0 /\ c.depth = r.depth + 1
                \/ r.line = "first" /\ c.depth = r.depth
             /\ c.line = "indented"
             /\ c.brackets = r.brackets /\ c.strings = r.strings /\ c.phase = r.phase
    BY <1>3, <1>4, <2>2 DEF TokenStream!Emit, TokenStream!Indent
  <2>3. CASE /\ r.phase \in {"body", "closing"}
             /\ r.line \in {"ended", "joined"} /\ r.depth > 0
             /\ r.phase = "body" => r.strings = 0
             /\ c.depth = r.depth - 1 /\ c.line = "ended"
             /\ c.brackets = r.brackets /\ c.strings = r.strings /\ c.phase = r.phase
    BY <1>3, <1>4, <2>3 DEF TokenStream!Emit, TokenStream!Dedent
  <2>4. CASE /\ r.phase = "body" /\ r.line \in {"open", "joined"}
             /\ r.brackets <= 0 /\ r.strings = 0
             /\ c.line = "ended" /\ c.depth = r.depth
             /\ c.brackets = r.brackets /\ c.strings = r.strings /\ c.phase = r.phase
    BY <1>3, <1>4, <2>4 DEF TokenStream!Emit, TokenStream!Newline
  <2>5. CASE /\ r.phase = "body" /\ r.line \in {"open", "indented"}
             /\ c.line = "ended" /\ c.phase = "closing" /\ c.depth = r.depth
             /\ c.brackets = r.brackets /\ c.strings = r.strings
    BY <1>3, <1>4, <2>5 DEF TokenStream!Emit, TokenStream!LastNewline
  <2>6. CASE /\ r.phase = "body" /\ r.line = "ended"
             /\ c.depth \in {r.depth, r.depth - 1} /\ c.depth >= 0 /\ c.line = "open"
             /\ c.brackets = r.brackets /\ c.strings = r.strings /\ c.phase = r.phase
    BY <1>3, <1>4, <2>6 DEF TokenStream!Emit, TokenStream!Error
  <2>7. CASE /\ r.phase = "body" /\ c.line = "open"
             /\ \/ c.brackets = r.brackets /\ c.strings = r.strings
                \/ c.brackets \in {r.brackets + 1, r.brackets - 1} /\ c.strings = r.strings
                \/ c.strings = r.strings + 1 /\ c.brackets = r.brackets
                \/ r.strings > 0 /\ c.strings = r.strings - 1 /\ c.brackets = r.brackets
             /\ c.depth = r.depth /\ c.phase = r.phase
    BY <1>3, <1>4, <2>7 DEF TokenStream!Emit, TokenStream!Text
  <2>8. CASE /\ r.phase = "body" /\ r.line \in {"ended", "indented"}
             /\ c.line = IF r.line = "ended" THEN "joined" ELSE "open"
             /\ c.depth = r.depth
             /\ c.brackets = r.brackets /\ c.strings = r.strings /\ c.phase = r.phase
    BY <1>3, <1>4, <2>8 DEF TokenStream!Emit, TokenStream!Joining
  <2>9. CASE /\ r.phase = "fresh" /\ c.phase = "body" /\ c.line = r.line
             /\ c.depth = r.depth /\ c.brackets = r.brackets /\ c.strings = r.strings
    BY <1>3, <1>4, <2>9 DEF TokenStream!Emit, TokenStream!Encoding
  <2>10. CASE /\ r.phase \in {"body", "closing"}
              /\ r.line \in {"first", "ended", "joined"} /\ r.depth = 0
              /\ c.phase = "ended" /\ c.line = r.line
              /\ c.depth = r.depth /\ c.brackets = r.brackets /\ c.strings = r.strings
    BY <1>3, <1>4, <2>10 DEF TokenStream!Emit, TokenStream!Eof
  <2>11. QED
    BY <1>6, <2>1, <2>2, <2>3, <2>4, <2>5, <2>6, <2>7, <2>8, <2>9, <2>10 DEF Emits
<1>7. QED
  BY <1>1, <1>2, <1>5, <1>6

LEMMA StreamStarts == Init => StreamInv /\ TokenStream!Start
<1> SUFFICES ASSUME Init PROVE StreamInv /\ TokenStream!Start
  OBVIOUS
<1>1. StreamInv /\ Now = [depth |-> 0, brackets |-> 0, strings |-> 0, line |-> "first", phase |-> "fresh"]
  BY InitStream
<1>2. /\ Levels - PendingAs({INDENT}) + PendingAs({DEDENT, BAD_DEDENT}) = 0
      /\ opened - Pending({"LPAR", "LBRACE"}, "default") + Pending({"RPAR", "RBRACE"}, "default") = 0
      /\ OpenStrings - OwedTokens({"FSTRING_START"}, "default")
                     + OwedTokens({"FSTRING_END"}, "default") = 0
      /\ heard.line = "first" /\ heard.phase = "fresh"
  BY <1>1 DEF Now
<1>3. QED
  BY <1>1, <1>2 DEF TokenStream!Start

(* A reset lexer starts over, and so does the stream.                       *)
LEMMA ResetStream == Reset => StreamInv' /\ TokenStream!Restart
<1>1. Reset => Init'
  BY DEF Reset, Init
<1>2. Reset => (/\ StreamInv
                /\ Now = [depth |-> 0, brackets |-> 0, strings |-> 0,
                          line |-> "first", phase |-> "fresh"])'
  BY <1>1, InitStream, PTL
<1> SUFFICES ASSUME Reset PROVE TokenStream!Restart
  BY <1>2
<1>3. /\ (Levels - PendingAs({INDENT}) + PendingAs({DEDENT, BAD_DEDENT}))' = 0
      /\ (opened - Pending({"LPAR", "LBRACE"}, "default")
                 + Pending({"RPAR", "RBRACE"}, "default"))' = 0
      /\ (OpenStrings - OwedTokens({"FSTRING_START"}, "default")
                      + OwedTokens({"FSTRING_END"}, "default"))' = 0
      /\ heard'.line = "first" /\ heard'.phase = "fresh"
  BY <1>2 DEF Now
<1>4. QED
  BY <1>3 DEF TokenStream!Restart

LEMMA StreamStep ==
    IInv /\ OrderOK /\ StreamInv /\ [Next]_vars
       => StreamInv' /\ [TokenStream!Emit \/ TokenStream!Restart]_(TokenStream!stream)
<1> SUFFICES ASSUME IInv, OrderOK, StreamInv, [Next]_vars
             PROVE  StreamInv' /\ [TokenStream!Emit \/ TokenStream!Restart]_(TokenStream!stream)
  OBVIOUS
<1>1. IInv'
  BY NextIInv
<1>2. CASE UNCHANGED vars
  <2>1. Now' = Now
    BY <1>2 DEF vars, Now, Levels, Pending, PendingAs, OwedTokens, Owed, InHand, OpenStrings, ModePath
  <2>2. StreamInv'
    <3>1. \A e : Reached(e) => Reached(e)'
      BY <1>2 DEF vars, Reached, Placed, NextUp, Levels, Begun, BegunIn
    <3>2. QED
      BY <1>2, <3>1 DEF vars, StreamInv
  <2>3. QED
    BY <2>1, <2>2, Mapped
<1>3. CASE Begin \/ SkipLeading \/ EndLeading \/ Fetch \/ Dispatch
  <2>1. StreamInv' /\ Now' = Now
    BY <1>1, <1>3, BeginStream, SkipLeadingStream, EndLeadingStream, FetchStream, AddCurrentStream,
       NewlineInFStringStream, NewlineInBracketsStream, NewlineNoWsStream, NewlineThenWsStream,
       FStringMiddleStream, ColonEqualStream, EndOfFileStream DEF Dispatch
  <2>2. QED
    BY <2>1, Mapped
<1>4. CASE Finish \/ Drain
  BY <1>1, <1>4, FinishStream, DrainStream, Mapped
<1>5. CASE Reset
  BY <1>5, ResetStream
<1>6. QED
  BY <1>2, <1>3, <1>4, <1>5 DEF Next, NextToken

(* nextToken() and its handlers: across f-strings, look-ahead, queueing,    *)
(* exceptions and reset, INDENTs and DEDENTs match and stand at the start   *)
(* of lines, NEWLINEs end lines that have tokens, never inside brackets or  *)
(* f-strings, and EOF comes last, with every level closed.                  *)
THEOREM Stream == Spec => StreamOK
<1>1. Spec => []OrderOK
  BY InitOrder, NextOrder, Invariance, PTL DEF Spec
<1>2. QED
  BY <1>1, StreamStarts, StreamStep, Invariance, PTL DEF Spec, StreamOK, TokenStream!Stream
=============================================================================
