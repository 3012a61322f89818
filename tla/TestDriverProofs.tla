-------------------------- MODULE TestDriverProofs --------------------------
(***************************************************************************)
(* Driven by the test driver a lexer does what it does alone.  What is      *)
(* proved of the ANTLR, PHP and JavaScript lexers holds in the driver; the  *)
(* PostgreSQL, MySQL and Lua lexers, which are reset in the middle of a     *)
(* string or a comment or with a token still pending, are proved correct    *)
(* for the resets it makes.                                                 *)
(***************************************************************************)
EXTENDS TestDriver, ModeLexerProofs

(* Every step of the driver is at most one step of one lexer.               *)
LEMMA OneLexerMoves ==
    ASSUME [Next]_<<driver, lexerVars>>
    PROVE  /\ (\E c \in AdItems : AdStep(c)) \/ AdReset \/ UNCHANGED adVars
           /\ (\E c \in PhpItems : PhpStep(c)) \/ PhpReset \/ UNCHANGED phpVars
           /\ (\E c \in AllItems : PgStep(c)) \/ PgReset \/ UNCHANGED pgVars
           /\ \/ \E c \in AllItems : MyStep(c)
              \/ my.out.type = "EOF" /\ MyReset
              \/ SetIgnoreSpace
              \/ UNCHANGED myVars
           /\ (\E c \in JsItems : JsStep(c)) \/ JsReset \/ SetUseStrictDefault \/ UNCHANGED jsVars
           /\ (\E c \in AllItems : LuaStep(c)) \/ LuaReset \/ UNCHANGED luaVars
<1>1. ASSUME NEW c \in AllItems, Lex(c)
      PROVE  /\ (\E x \in AdItems : AdStep(x)) \/ UNCHANGED adVars
             /\ (\E x \in PhpItems : PhpStep(x)) \/ UNCHANGED phpVars
             /\ (\E x \in AllItems : PgStep(x)) \/ UNCHANGED pgVars
             /\ (\E x \in AllItems : MyStep(x)) \/ UNCHANGED myVars
             /\ (\E x \in JsItems : JsStep(x)) \/ UNCHANGED jsVars
             /\ (\E x \in AllItems : LuaStep(x)) \/ UNCHANGED luaVars
  BY <1>1 DEF Lex, JsMoves, PhpMoves, AdMoves, MyMoves, PgMoves, LuaMoves
<1>2. ASSUME LexerReset
      PROVE  /\ AdReset \/ UNCHANGED adVars
             /\ PhpReset \/ UNCHANGED phpVars
             /\ PgReset \/ UNCHANGED pgVars
             /\ (lexer = "mysql" /\ MyReset) \/ UNCHANGED myVars
             /\ JsReset \/ UNCHANGED jsVars
             /\ LuaReset \/ UNCHANGED luaVars
  BY <1>2 DEF LexerReset, JsMoves, PhpMoves, AdMoves, MyMoves, PgMoves, LuaMoves
<1>3. CASE ResetLexer
  BY <1>2, <1>3 DEF ResetLexer, Out
<1>4. CASE Configure
  BY <1>4 DEF Configure, JsMoves, MyMoves
<1>5. CASE Finished \/ UNCHANGED <<driver, lexerVars>>
  BY <1>5 DEF Finished, lexerVars
<1>6. ASSUME NEW c \in AllItems, ListToken(c) \/ ParseToken(c)
      PROVE  Lex(c)
  BY <1>6 DEF ListToken, ParseToken
<1>7. QED
  BY <1>1, <1>3, <1>4, <1>5, <1>6 DEF Next

---------------------------------------------------------------------------
(* The ANTLR lexer in the driver.                                           *)

(* DoParse: the driver implements the lexer's own specification.            *)
THEOREM DrivesAntlr == Spec => AdSpec
<1>1. Init => AdInit
  BY DEF Init
<1>2. [Next]_<<driver, lexerVars>> => [AdNext]_adVars
  BY OneLexerMoves DEF AdNext
<1>3. QED
  BY <1>1, <1>2, PTL DEF Spec, AdSpec

(* emit and handleBeginArgument, as they are called by the driver.          *)
THEOREM DrivenRuleType == Spec => []RuleTypeOK
BY DrivesAntlr, RuleTypeKept

(* handleBeginArgument and handleEndArgument, as they are called by it.     *)
THEOREM DrivenArguments == Spec => []ArgumentsOK
BY DrivesAntlr, ArgumentsKept

---------------------------------------------------------------------------
(* The PHP lexer in the driver.                                             *)

(* DoParse: the driver implements the lexer's own specification.            *)
THEOREM DrivesPhp == Spec => PhpSpec
<1>1. Init => PhpInit
  BY DEF Init
<1>2. [Next]_<<driver, lexerVars>> => [PhpNext]_phpVars
  BY OneLexerMoves DEF PhpNext
<1>3. QED
  BY <1>1, <1>2, PTL DEF Spec, PhpSpec

(* nextToken and the rules that push and pop, as the driver calls them.     *)
THEOREM DrivenPath == Spec => []PhpPathOK
BY DrivesPhp, PathKept

(* The flags of nextToken and of the rules, as the driver calls them.       *)
THEOREM DrivenFlags == Spec => []PhpFlagsOK
BY DrivesPhp, FlagsKept

---------------------------------------------------------------------------
(* The PostgreSQL lexer.                                                    *)

LEMMA PgMoved ==
    ASSUME TagsOK, (\E c \in AllItems : PgStep(c)) \/ PgReset \/ UNCHANGED pgVars
    PROVE  TagsOK'
<1> DEFINE Outs == PgItems \union {"none", "BeginDollarString", "EndDollarString", "DollarText"}
           Faults == {"none", "NameError"}
<1>1. /\ pg \in [tags : Seq(PgTags), quoting : BOOLEAN, fault : Faults, out : Outs]
      /\ pg.quoting <=> pgSeen # "none"
      /\ pg.quoting => pg.tags # <<>> /\ Last(pg.tags) = pgSeen
  BY DEF TagsOK
<1>2. ASSUME NEW c \in PgItems, PushTag(c)
      PROVE  TagsOK'
  <2>1. Append(pg.tags, c) \in Seq(PgTags) /\ Append(pg.tags, c) # <<>> /\ Last(Append(pg.tags, c)) = c
    BY <1>1, <1>2, AppendLast DEF PushTag
  <2>2. /\ pg' = [tags |-> Append(pg.tags, c), quoting |-> TRUE, fault |-> pg.fault,
                  out |-> "BeginDollarString"]
        /\ pgSeen' = c /\ c # "none"
    BY <1>1, <1>2 DEF PushTag, PgTags
  <2>3. QED
    BY <1>1, <2>1, <2>2 DEF TagsOK
<1>3. ASSUME NEW c \in PgItems, PopTag(c)
      PROVE  TagsOK'
  <2>1. Front(pg.tags) \in Seq(PgTags) /\ c = pgSeen
    BY <1>1, <1>3, FrontLast DEF PopTag, IsTag
  <2>2. /\ pg' = [tags |-> Front(pg.tags), quoting |-> FALSE, fault |-> pg.fault,
                  out |-> "EndDollarString"]
        /\ pgSeen' = "none"
    BY <1>1, <1>3, <2>1 DEF PopTag
  <2>3. QED
    BY <1>1, <2>1, <2>2 DEF TagsOK
<1>4. ASSUME NEW c \in PgItems, HandleNumericFail(c)
      PROVE  TagsOK'
  BY <1>1, <1>4 DEF HandleNumericFail, TagsOK
<1>5. ASSUME NEW c \in PgItems, OtherPgToken(c)
      PROVE  TagsOK'
  <2>1. /\ pg' = [tags |-> pg.tags, quoting |-> pg.quoting, fault |-> pg.fault, out |-> pg'.out]
        /\ pg'.out \in Outs /\ pgSeen' = pgSeen
    BY <1>1, <1>5 DEF OtherPgToken
  <2>2. QED
    BY <1>1, <2>1 DEF TagsOK
<1>6. CASE PgReset
  BY <1>1, <1>6 DEF PgReset, TagsOK
<1>7. CASE UNCHANGED pgVars
  BY <1>1, <1>7 DEF pgVars, TagsOK
<1>8. QED
  BY <1>2, <1>3, <1>4, <1>5, <1>6, <1>7 DEF PgStep

LEMMA PgStarts == Init => TagsOK
<1>1. <<>> \in Seq(PgTags)
  OBVIOUS
<1>2. QED
  BY <1>1 DEF Init, PgInit, TagsOK

(* pushTag, isTag and popTag, for inputs of any length: a string is ended   *)
(* by the tag that began it, whatever tags earlier inputs have left.        *)
THEOREM Tags == Spec => []TagsOK
<1>1. Init => TagsOK
  BY PgStarts
<1>2. TagsOK /\ [Next]_<<driver, lexerVars>> => TagsOK'
  BY OneLexerMoves, PgMoved
<1>3. QED
  BY <1>1, <1>2, PTL DEF Spec

---------------------------------------------------------------------------
(* The MySQL lexer.                                                         *)

(* What holds besides TokensTile: the flag of the dot is down between two   *)
(* matches, nothing waits before the first of them, and EOF never waits.    *)
MyIInv ==
    /\ TokensTile
    /\ my \in [pending : Seq(MyToken), dot : {FALSE}, comment : BOOLEAN, space : BOOLEAN,
               fault : {"none", "ValueError"}, out : MyToken]
    /\ mySeen \in [at : Nat, item : MyItems \union {"none"}, before : Int]
    /\ my.pending # <<>> => Head(my.pending).type = "IDENTIFIER"
    /\ mySeen.item = "none" => mySeen.at = 0 /\ my.out = NoToken /\ my.pending = <<>>

LEMMA MyItemTypes ==
    ASSUME NEW c \in MyItems
    PROVE  /\ MyTypeOf(c) \in MyTypes /\ InVersionComment(c) \in BOOLEAN \union {my.comment}
           /\ MyTypeOf(c) = "EOF" => c = "EOF" \/ c = "fn$"
           /\ MyTypeOf(".id") = "IDENTIFIER"
BY DEF MyItems, MyTypes, MyTypeOf, DetermineFunction, DetermineNumericType, TokenText,
       InVersionComment, CheckMySQLVersion

(* A match makes one token, or two, that end where the next match begins.   *)
LEMMA MatchTiles ==
    ASSUME MyIInv, NEW c \in MyItems, MyMatch(c), my.fault = "none", my.out.type # "EOF"
    PROVE  MyIInv'
<1> DEFINE t == MyEmit(c)
           d == [type |-> "DOT_SYMBOL", start |-> mySeen.at, stop |-> mySeen.at, hidden |-> FALSE]
           next == mySeen.at + (IF c = "EOF" THEN 0 ELSE MyWidth)
<1>1. /\ my.pending = <<>> /\ c # "fn$" /\ my.dot = FALSE /\ mySeen.at \in Nat
      /\ my \in [pending : Seq(MyToken), dot : {FALSE}, comment : BOOLEAN, space : BOOLEAN,
                 fault : {"none", "ValueError"}, out : MyToken]
      /\ my.out.stop \in Int /\ my.comment \in BOOLEAN /\ my.space \in BOOLEAN
  BY DEF MyIInv, MyMatch, NothingPending, MyToken
<1>2. mySeen.at = my.out.stop + 1
  <2>1. CASE mySeen.item = "none"
    BY <2>1 DEF MyIInv, NoToken
  <2>2. CASE mySeen.item # "none"
    BY <2>2, <1>1 DEF MyIInv, TokensTile
  <2>3. QED
    BY <2>1, <2>2
<1>3. /\ t.type = MyTypeOf(c) /\ t.start = (IF c = ".id" THEN mySeen.at + 1 ELSE mySeen.at)
      /\ t.stop = next - 1
      /\ t \in MyToken
  <2>1. /\ t.type = MyTypeOf(c) /\ t.start = (IF c = ".id" THEN mySeen.at + 1 ELSE mySeen.at)
        /\ t.stop = (IF c = "EOF" THEN mySeen.at - 1 ELSE mySeen.at + MyWidth - 1)
        /\ t.hidden \in BOOLEAN
    BY <1>1 DEF MyEmit, HiddenByBlanks
  <2>2. t.start \in Nat /\ t.stop \in Int /\ t.stop = next - 1
    BY <2>1, <1>1 DEF MyWidth
  <2>3. t.type \in MyTypes
    BY <2>1, MyItemTypes
  <2>4. t = [type |-> t.type, start |-> t.start, stop |-> t.stop, hidden |-> t.hidden]
    BY DEF MyEmit
  <2>5. QED
    BY <2>1, <2>2, <2>3, <2>4 DEF MyToken
<1>4. d \in MyToken /\ d.type = "DOT_SYMBOL" /\ d.start = mySeen.at /\ d.stop = mySeen.at
  BY <1>1 DEF MyToken, MyTypes
<1>5. InVersionComment(c) \in BOOLEAN
  BY <1>1, MyItemTypes
<1>6. /\ mySeen' = [at |-> next, item |-> c, before |-> my.out.stop]
      /\ mySeen'.at = next /\ mySeen'.item = c /\ mySeen'.before = my.out.stop
      /\ mySeen' \in [at : Nat, item : MyItems \union {"none"}, before : Int] /\ c # "none"
  <2>1. mySeen' = [at |-> next, item |-> c, before |-> my.out.stop]
    BY DEF MyMatch
  <2>2. next \in Nat
    BY <1>1 DEF MyWidth
  <2>3. c # "none"
    BY DEF MyItems
  <2> HIDE DEF next
  <2>4. QED
    BY <2>1, <2>2, <2>3, <1>1
<1>7. my' = [my EXCEPT !.pending = Tail(Append(EmitDot(c), t)), !.out = Head(Append(EmitDot(c), t)),
                       !.dot = FALSE, !.comment = InVersionComment(c)]
  BY DEF MyMatch, Queued, JustEmittedDot
<1>8. CASE c = ".id"
  <2>1. EmitDot(c) = <<d>>
    BY <1>1, <1>8 DEF EmitDot
  <2>2. Tail(Append(<<d>>, t)) = <<t>> /\ Head(Append(<<d>>, t)) = d
    <3> HIDE DEF d, t
    <3>1. QED
      BY <1>3, <1>4, TwoQueued
  <2>3. my' = [pending |-> <<t>>, dot |-> FALSE, comment |-> InVersionComment(c),
               space |-> my.space, fault |-> my.fault, out |-> d]
    BY <1>1, <1>7, <2>1, <2>2
  <2> HIDE DEF d, t
  <2>4. /\ my'.pending = <<t>> /\ my'.out = d /\ my'.fault = my.fault
        /\ <<t>> \in Seq(MyToken) /\ Len(<<t>>) = 1 /\ Head(<<t>>) = t /\ Last(<<t>>) = t /\ <<t>> # <<>>
        /\ my' \in [pending : Seq(MyToken), dot : {FALSE}, comment : BOOLEAN, space : BOOLEAN,
                    fault : {"none", "ValueError"}, out : MyToken]
    <3>1. <<t>> \in Seq(MyToken) /\ Len(<<t>>) = 1 /\ Head(<<t>>) = t /\ <<t>> # <<>>
      BY <1>3
    <3>2. Last(<<t>>) = t
      <4>1. Last(<<t>>) = <<t>>[Len(<<t>>)]
        BY DEF Last
      <4>2. QED
        BY <4>1, <3>1
    <3>3. QED
      BY <3>1, <3>2, <2>3, <1>1, <1>3, <1>4, <1>5
  <2>5. /\ t.type = "IDENTIFIER" /\ t.start = mySeen.at + 1 /\ t.stop = next - 1 /\ d.type # "EOF"
        /\ next = mySeen.at + 2
    BY <1>3, <1>4, <1>8, MyItemTypes DEF MyWidth
  <2>6. MyTypeOK'
    BY <2>4, <1>1 DEF MyTypeOK
  <2>7. TokensTile'
    BY <2>4, <2>5, <2>6, <1>1, <1>2, <1>4, <1>6 DEF TokensTile
  <2>8. QED
    BY <2>4, <2>5, <2>7, <1>6 DEF MyIInv
<1>9. CASE c # ".id"
  <2>1. EmitDot(c) = <<>>
    BY <1>1, <1>9 DEF EmitDot
  <2>2. Tail(Append(<<>>, t)) = <<>> /\ Head(Append(<<>>, t)) = t
    <3> HIDE DEF t
    <3>1. QED
      BY <1>3
  <2>3. my' = [pending |-> <<>>, dot |-> FALSE, comment |-> InVersionComment(c),
               space |-> my.space, fault |-> my.fault, out |-> t]
    BY <1>1, <1>7, <2>1, <2>2
  <2> HIDE DEF t
  <2>4. /\ my'.pending = <<>> /\ my'.out = t /\ my'.fault = my.fault
        /\ my' \in [pending : Seq(MyToken), dot : {FALSE}, comment : BOOLEAN, space : BOOLEAN,
                    fault : {"none", "ValueError"}, out : MyToken]
    BY <2>3, <1>1, <1>3, <1>5
  <2>5. MyTypeOK'
    BY <2>4, <1>1 DEF MyTypeOK
  <2>6. t.start = mySeen.at /\ t.stop = next - 1 /\ next \in Nat
    BY <1>1, <1>3, <1>9 DEF MyWidth
  <2> HIDE DEF next
  <2>7. TokensTile'
    BY <2>4, <2>5, <2>6, <1>1, <1>2, <1>6 DEF TokensTile
  <2>8. QED
    BY <2>4, <2>7, <1>6 DEF MyIInv
<1>10. QED
  BY <1>8, <1>9

(* The token that waited is returned, and leaves nothing behind.            *)
LEMMA PendingTiles ==
    ASSUME MyIInv, NEW c, Pending(c), my.fault = "none", my.out.type # "EOF"
    PROVE  MyIInv'
<1> DEFINE t == Head(my.pending)
<1>1. /\ my.pending # <<>> /\ my.pending \in Seq(MyToken) /\ Len(my.pending) <= 1
      /\ my \in [pending : Seq(MyToken), dot : {FALSE}, comment : BOOLEAN, space : BOOLEAN,
                 fault : {"none", "ValueError"}, out : MyToken]
      /\ mySeen \in [at : Nat, item : MyItems \union {"none"}, before : Int]
      /\ mySeen.item # "none" /\ my.out.stop \in Int
  BY DEF MyIInv, TokensTile, Pending, MyToken
<1>2. t \in MyToken /\ Last(my.pending) = t /\ Tail(my.pending) = <<>>
  BY <1>1, OneQueued
<1>5. /\ t.type = "IDENTIFIER" /\ t.start = my.out.stop + 1 /\ mySeen.at = t.stop + 1
  BY <1>1, <1>2 DEF MyIInv, TokensTile
<1> HIDE DEF t
<1>6. /\ my' = [pending |-> <<>>, dot |-> FALSE, comment |-> my.comment, space |-> my.space,
                fault |-> my.fault, out |-> t]
      /\ mySeen' = [at |-> mySeen.at, item |-> mySeen.item, before |-> my.out.stop]
  BY <1>1, <1>2 DEF Pending, t
<1>7. /\ my'.pending = <<>> /\ my'.out = t /\ my'.fault = my.fault
      /\ mySeen'.at = mySeen.at /\ mySeen'.item = mySeen.item /\ mySeen'.before = my.out.stop
      /\ my' \in [pending : Seq(MyToken), dot : {FALSE}, comment : BOOLEAN, space : BOOLEAN,
                  fault : {"none", "ValueError"}, out : MyToken]
      /\ mySeen' \in [at : Nat, item : MyItems \union {"none"}, before : Int]
  BY <1>1, <1>2, <1>6
<1>8. MyTypeOK'
  BY <1>7 DEF MyTypeOK
<1>9. TokensTile'
  BY <1>1, <1>5, <1>7, <1>8 DEF TokensTile
<1>10. QED
  BY <1>1, <1>7, <1>9 DEF MyIInv

LEMMA MyMoved ==
    ASSUME MyIInv,
           \/ \E c \in AllItems : MyStep(c)
           \/ my.out.type = "EOF" /\ MyReset
           \/ SetIgnoreSpace
           \/ UNCHANGED myVars
    PROVE  MyIInv'
<1> DEFINE MyT == [pending : Seq(MyToken), dot : {FALSE}, comment : BOOLEAN, space : BOOLEAN,
                   fault : {"none", "ValueError"}, out : MyToken]
           SeenT == [at : Nat, item : MyItems \union {"none"}, before : Int]
<1>1. my \in MyT /\ mySeen \in SeenT /\ TokensTile
  BY DEF MyIInv
<1>2. ASSUME NEW c \in AllItems, MyStep(c)
      PROVE  MyIInv'
  <2>1. my.fault = "none" /\ my.out.type # "EOF"
    BY <1>2 DEF MyStep
  <2>2. CASE Pending(c)
    BY <2>1, <2>2, PendingTiles
  <2>3. CASE c \in MyItems /\ MyMatch(c)
    BY <2>1, <2>3, MatchTiles
  <2>4. CASE c \in MyItems /\ NameAtTheEnd(c)
    <3>1. /\ my' = [my EXCEPT !.fault = "ValueError"]
          /\ mySeen' = [mySeen EXCEPT !.item = c] /\ my.pending = <<>> /\ c = "fn$"
      BY <2>4 DEF NameAtTheEnd, NothingPending
    <3>2. /\ my' \in MyT /\ mySeen' \in SeenT /\ mySeen'.item = c /\ my'.fault = "ValueError"
          /\ my'.pending = <<>> /\ my'.out = my.out
      BY <1>1, <2>4, <3>1
    <3>3. MyTypeOK'
      BY <3>2 DEF MyTypeOK
    <3>4. TokensTile'
      BY <3>2, <3>3 DEF TokensTile
    <3>5. QED
      BY <3>1, <3>2, <3>4 DEF MyIInv
  <2>5. QED
    BY <1>2, <2>2, <2>3, <2>4 DEF MyStep
<1>3. NoToken \in MyToken /\ "none" \notin MyItems
  BY DEF NoToken, MyToken, MyTypes, MyItems
<1>4. CASE my.out.type = "EOF" /\ MyReset
  <2>1. /\ my' = [my EXCEPT !.comment = FALSE, !.out = NoToken]
        /\ mySeen' = NoMySeen /\ my.pending = <<>>
    BY <1>1, <1>4 DEF MyReset, TokensTile
  <2>2. my' \in MyT /\ my'.pending = <<>> /\ my'.out = NoToken
    BY <1>1, <1>3, <2>1
  <2>3. /\ mySeen' \in SeenT /\ mySeen'.at = 0 /\ mySeen'.item = "none"
    BY <2>1 DEF NoMySeen
  <2>4. MyTypeOK'
    BY <2>2 DEF MyTypeOK
  <2>5. TokensTile'
    BY <2>2, <2>3, <2>4 DEF TokensTile
  <2>6. QED
    BY <2>2, <2>3, <2>5 DEF MyIInv
<1>5. CASE SetIgnoreSpace
  <2>1. /\ my' = [my EXCEPT !.space = TRUE] /\ mySeen' = mySeen
        /\ mySeen.item = "none" /\ my.out = NoToken /\ mySeen.at = 0 /\ my.pending = <<>>
    BY <1>5 DEF SetIgnoreSpace, MyIInv
  <2>2. my' \in MyT /\ my'.pending = <<>> /\ my'.out = NoToken
    BY <1>1, <2>1
  <2>3. MyTypeOK'
    BY <2>2 DEF MyTypeOK
  <2>4. TokensTile'
    BY <2>1, <2>2, <2>3 DEF TokensTile
  <2>5. QED
    BY <1>1, <2>1, <2>2, <2>4 DEF MyIInv
<1>6. CASE UNCHANGED myVars
  <2>1. my' = my /\ mySeen' = mySeen
    BY <1>6 DEF myVars
  <2>2. TokensTile'
    BY <1>1, <2>1 DEF TokensTile, MyTypeOK
  <2>3. QED
    BY <2>1, <2>2 DEF MyIInv
<1>7. QED
  BY <1>2, <1>4, <1>5, <1>6

LEMMA MyStarts == Init => MyIInv
<1>1. SUFFICES ASSUME Init PROVE MyIInv
  OBVIOUS
<1>2. /\ my = [pending |-> <<>>, dot |-> FALSE, comment |-> FALSE, space |-> FALSE,
               fault |-> "none", out |-> NoToken]
      /\ mySeen = NoMySeen
  BY <1>1 DEF Init, MyInit
<1>3. NoToken \in MyToken
  BY DEF NoToken, MyToken, MyTypes
<1>4. /\ my \in [pending : Seq(MyToken), dot : {FALSE}, comment : BOOLEAN, space : BOOLEAN,
                 fault : {"none", "ValueError"}, out : MyToken]
      /\ my.pending = <<>> /\ my.out = NoToken
  BY <1>2, <1>3
<1>5. /\ mySeen \in [at : Nat, item : MyItems \union {"none"}, before : Int]
      /\ mySeen.at = 0 /\ mySeen.item = "none"
  BY <1>2 DEF NoMySeen
<1>6. TokensTile
  <2>1. MyTypeOK
    BY <1>4 DEF MyTypeOK
  <2>2. Len(<<>>) <= 1
    OBVIOUS
  <2>3. QED
    BY <1>4, <1>5, <2>1, <2>2 DEF TokensTile
<1>7. QED
  BY <1>4, <1>5, <1>6 DEF MyIInv

(* emitDot, emit and nextToken: the tokens of an input of any length are    *)
(* laid end to end, those of a dot and its name too, in every pass.         *)
THEOREM Tiling == Spec => []TokensTile
<1>1. Init => MyIInv
  BY MyStarts
<1>2. MyIInv /\ [Next]_<<driver, lexerVars>> => MyIInv'
  BY OneLexerMoves, MyMoved
<1>3. MyIInv => TokensTile
  BY DEF MyIInv
<1>4. QED
  BY <1>1, <1>2, <1>3, PTL DEF Spec

---------------------------------------------------------------------------
(* The Lua lexer.                                                           *)

(* What is read begins with a long bracket, or can never begin with one, or *)
(* ends with the closing bracket of a level behind the opening one.         *)
Opens(t, level) ==
    /\ level + 2 <= Len(t) /\ t[1] = "[" /\ t[level + 2] = "["
    /\ \A i \in 2..(level + 1) : t[i] = "="

NeverOpens(t) ==
    \E m \in 1..Len(t) :
       \/ m = 1 /\ t[1] # "["
       \/ m > 1 /\ t[m] \notin {"=", "["} /\ \A i \in 2..(m - 1) : t[i] = "="

Closed(t, level) ==
    /\ (level + 2) + (level + 2) <= Len(t) /\ t[Len(t)] = "]" /\ t[Len(t) - level - 1] = "]"
    /\ \A i \in (Len(t) - level)..(Len(t) - 1) : t[i] = "="

LuaPcs == {"code", "first", "opening", "long", "closing", "line"}

LuaTypeOK ==
    /\ lua \in [pc : LuaPcs, count : Nat, sep : Nat, out : LuaItems \union {"none", "COMMENT"}]
    /\ luaSeen \in Seq(LuaChars)

(* skip_sep between the brackets: all it has read behind the first is `=`.  *)
OpeningOK ==
    /\ Len(luaSeen) = lua.count + 1 /\ luaSeen[1] = "["
    /\ \A i \in 2..Len(luaSeen) : luaSeen[i] = "="

(* read_long_string: no closing bracket has begun, or it began as far back  *)
(* as skip_sep has counted.                                                 *)
LongOK(level) ==
    /\ lua.sep = level + 2 /\ Opens(luaSeen, level) /\ ~Closed(luaSeen, level)
    /\ luaSeen[Len(luaSeen)] # "EOF"

NoneBegun(t, level) ==
    ~\E i \in (level + 3)..Len(t) : t[i] = "]" /\ \A j \in (i + 1)..Len(t) : t[j] = "="

BegunAt(t, i, level) ==
    /\ i \in (level + 3)..Len(t) /\ t[i] = "]"
    /\ \A j \in (i + 1)..Len(t) : t[j] = "="

LuaIInv ==
    /\ LuaTypeOK
    /\ lua.pc = "code" => luaSeen = <<>> \/ Complete(luaSeen)
    /\ lua.pc = "first" => luaSeen = <<>>
    /\ lua.pc = "opening" => OpeningOK
    /\ lua.pc = "line" => NeverOpens(luaSeen) /\ luaSeen[Len(luaSeen)] \notin {"newline", "EOF"}
    /\ lua.pc = "long" => \E level \in Nat : LongOK(level) /\ NoneBegun(luaSeen, level)
    /\ lua.pc = "closing" =>
         \E level \in Nat : LongOK(level) /\ BegunAt(luaSeen, Len(luaSeen) - lua.count, level)

LEMMA OpensOnce ==
    ASSUME NEW t, NEW a \in Nat, NEW b \in Nat, Opens(t, a), Opens(t, b)
    PROVE  a = b
<1>1. ASSUME NEW x \in Nat, NEW y \in Nat, x < y, t[x + 2] = "[", \A i \in 2..(y + 1) : t[i] = "="
      PROVE  FALSE
  <2>1. x + 2 \in 2..(y + 1)
    BY <1>1
  <2>2. t[x + 2] = "="
    BY <1>1, <2>1
  <2>3. QED
    BY <1>1, <2>2
<1>2. ~(a < b) /\ ~(b < a)
  BY <1>1 DEF Opens
<1>3. QED
  BY <1>2

LEMMA NeverOpened ==
    ASSUME NEW t, Len(t) \in Nat, NeverOpens(t), NEW level \in Nat
    PROVE  ~Opens(t, level)
<1> SUFFICES ASSUME Opens(t, level) PROVE FALSE
  OBVIOUS
<1>1. PICK m \in 1..Len(t) :
         \/ m = 1 /\ t[1] # "["
         \/ m > 1 /\ t[m] \notin {"=", "["} /\ \A i \in 2..(m - 1) : t[i] = "="
  BY DEF NeverOpens
<1>2. t[1] = "[" /\ t[level + 2] = "[" /\ \A i \in 2..(level + 1) : t[i] = "="
  BY DEF Opens
<1>3. m > 1 /\ t[m] \notin {"=", "["} /\ \A i \in 2..(m - 1) : t[i] = "="
  BY <1>1, <1>2
<1>4. CASE level + 2 < m
  <2>1. level + 2 \in 2..(m - 1)
    BY <1>4
  <2>2. QED
    BY <1>2, <1>3, <2>1
<1>5. CASE level + 2 = m
  BY <1>2, <1>3, <1>5
<1>6. CASE level + 2 > m
  <2>1. m \in 2..(level + 1)
    BY <1>3, <1>6
  <2>2. QED
    BY <1>2, <1>3, <2>1
<1>7. QED
  BY <1>4, <1>5, <1>6

(* The text of a long bracket.                                              *)
LEMMA LongBracketText ==
    ASSUME NEW bracket \in LuaChars, NEW level \in Nat
    PROVE  /\ LongBracket(bracket, level) \in Seq(LuaChars)
           /\ Len(LongBracket(bracket, level)) = level + 2
           /\ LongBracket(bracket, level)[1] = bracket
           /\ LongBracket(bracket, level)[level + 2] = bracket
           /\ \A i \in 2..(level + 1) : LongBracket(bracket, level)[i] = "="
<1> DEFINE e == [i \in 1..level |-> "="]
           l == <<bracket>> \o e
<1>1. "=" \in LuaChars
  BY DEF LuaChars
<1>2. e \in Seq(LuaChars) /\ Len(e) = level /\ \A i \in 1..level : e[i] = "="
  BY <1>1
<1>3. /\ <<bracket>> \in Seq(LuaChars) /\ Len(<<bracket>>) = 1 /\ <<bracket>>[1] = bracket
  BY Singleton
<1> HIDE DEF e
<1>4. /\ l \in Seq(LuaChars) /\ Len(l) = level + 1
      /\ \A i \in 1..(level + 1) : l[i] = IF i = 1 THEN bracket ELSE "="
  <2>1. /\ l \in Seq(LuaChars) /\ Len(l) = 1 + level
        /\ \A i \in 1..(1 + level) : l[i] = IF i <= 1 THEN <<bracket>>[i] ELSE e[i - 1]
    BY <1>2, <1>3, ConcatProperties
  <2> HIDE DEF l
  <2>2. ASSUME NEW i \in 1..(level + 1)
        PROVE  l[i] = IF i = 1 THEN bracket ELSE "="
    <3>1. i = 1 => l[i] = bracket
      BY <2>1, <1>3
    <3>2. i # 1 => i - 1 \in 1..level /\ ~(i <= 1)
      OBVIOUS
    <3>3. QED
      BY <2>1, <3>1, <3>2, <1>2
  <2>3. 1 + level = level + 1
    OBVIOUS
  <2>4. QED
    BY <2>1, <2>2, <2>3
<1>5. LongBracket(bracket, level) = l \o <<bracket>>
  BY DEF LongBracket, l, e
<1> HIDE DEF l
<1> DEFINE b == l \o <<bracket>>
<1>6. /\ b \in Seq(LuaChars) /\ Len(b) = (level + 1) + 1
      /\ \A i \in 1..((level + 1) + 1) :
           b[i] = IF i <= level + 1 THEN l[i] ELSE <<bracket>>[i - (level + 1)]
  BY <1>3, <1>4, ConcatProperties
<1> HIDE DEF b
<1>7. Len(b) = level + 2 /\ b[1] = bracket /\ b[level + 2] = bracket
  <2>1. (level + 1) + 1 = level + 2 /\ 1 \in 1..(level + 2) /\ level + 2 \in 1..(level + 2)
        /\ 1 <= level + 1 /\ ~(level + 2 <= level + 1) /\ (level + 2) - (level + 1) = 1
        /\ 1 \in 1..(level + 1)
    OBVIOUS
  <2>2. QED
    BY <2>1, <1>3, <1>4, <1>6
<1>8. ASSUME NEW i \in 2..(level + 1) PROVE b[i] = "="
  <2>1. i \in 1..((level + 1) + 1) /\ i \in 1..(level + 1) /\ i <= level + 1 /\ i # 1
    OBVIOUS
  <2>2. QED
    BY <2>1, <1>4, <1>6
<1>9. QED
  BY <1>5, <1>6, <1>7, <1>8 DEF b

LEMMA CompleteMeans ==
    ASSUME NEW t \in Seq(LuaChars)
    PROVE  Complete(t) <=>
              \/ t # <<>> /\ t[Len(t)] = "EOF"
              \/ \E level \in Nat : Opens(t, level) /\ Closed(t, level)
              \/ /\ \A level \in Nat : ~Opens(t, level)
                 /\ t # <<>> /\ t[Len(t)] = "newline"
<1> DEFINE len == Len(t)
<1>1. len \in Nat /\ (t # <<>> <=> len # 0) /\ \A i \in 1..len : t[i] \in LuaChars
  BY EmptySeq, LenProperties, ElementOfSeq
<1>2. ASSUME NEW x \in LuaChars
      PROVE  Ends(t, <<x>>) <=> t # <<>> /\ t[len] = x
  <2>1. /\ <<x>> \in Seq(LuaChars) /\ Len(<<x>>) = 1 /\ <<x>>[1] = x
    BY Singleton
  <2>2. CASE len = 0
    <3>1. ~(1 <= len) /\ t = <<>>
      BY <1>1, <2>2
    <3>2. QED
      BY <2>1, <3>1 DEF Ends
  <2>3. CASE len # 0
    <3>1. len \in Nat \ {0} /\ len - 1 + 1 = len /\ len \in Int /\ t # <<>> /\ len - len + 1 = 1
          /\ \A i \in len..len : t[i] \in LuaChars
      BY <1>1, <2>3
    <3> HIDE DEF len
    <3>2. /\ SubSeq(t, len, len) \in Seq(LuaChars)
          /\ Len(SubSeq(t, len, len)) = 1 /\ SubSeq(t, len, len)[1] = t[len]
      <4>1. PICK k \in Int : k = len
        BY <3>1
      <4>2. \A i \in k..k : t[i] \in LuaChars
        BY <3>1, <4>1
      <4>3. /\ SubSeq(t, k, k) \in Seq(LuaChars)
            /\ Len(SubSeq(t, k, k)) = (IF k <= k THEN k - k + 1 ELSE 0)
            /\ \A i \in 1..(k - k + 1) : SubSeq(t, k, k)[i] = t[k + i - 1]
        BY <4>1, <4>2, SubSeqProperties
      <4>4. k <= k /\ k - k + 1 = 1 /\ 1 \in 1..(k - k + 1) /\ k + 1 - 1 = k
        BY <4>1
      <4>5. Len(SubSeq(t, k, k)) = 1 /\ SubSeq(t, k, k)[1] = t[k]
        BY <4>3, <4>4
      <4>6. QED
        BY <4>1, <4>3, <4>5
    <3>3. Len(SubSeq(t, len, len)) = 1 /\ SubSeq(t, len, len)[1] = t[len]
      BY <3>2
    <3>4. SubSeq(t, len, len) = <<x>> <=> t[len] = x
      <4>1. ASSUME t[len] = x PROVE SubSeq(t, len, len) = <<x>>
        <5>1. ASSUME NEW i \in 1..1 PROVE SubSeq(t, len, len)[i] = <<x>>[i]
          <6>1. i = 1
            OBVIOUS
          <6>2. QED
            BY <6>1, <2>1, <3>3, <4>1
        <5>2. PICK u \in Seq(LuaChars) : u = SubSeq(t, len, len)
          BY <3>2
        <5>3. PICK v \in Seq(LuaChars) : v = <<x>>
          BY <2>1
        <5>4. Len(u) = Len(v) /\ \A i \in 1..Len(u) : u[i] = v[i]
          BY <5>1, <5>2, <5>3, <2>1, <3>3
        <5>5. u = v
          BY <5>4, SeqEqual
        <5>6. QED
          BY <5>2, <5>3, <5>5
      <4>2. QED
        BY <2>1, <3>3, <4>1
    <3>5. Ends(t, <<x>>) <=> 1 <= len /\ SubSeq(t, len - 1 + 1, len) = <<x>>
      BY <2>1 DEF Ends, len
    <3>6. QED
      BY <3>1, <3>4, <3>5
  <2>4. QED
    BY <2>2, <2>3
<1>3. ASSUME NEW level \in Nat
      PROVE  Begins(t, LongBracket("[", level)) <=> Opens(t, level)
  <2> DEFINE l == LongBracket("[", level)
  <2>0. "[" \in LuaChars
    BY DEF LuaChars
  <2>1. /\ l \in Seq(LuaChars) /\ Len(l) = level + 2 /\ l[1] = "[" /\ l[level + 2] = "["
        /\ \A i \in 2..(level + 1) : l[i] = "="
    BY <2>0, LongBracketText
  <2> HIDE DEF l
  <2>2. Begins(t, l) <=> level + 2 <= len /\ SubSeq(t, 1, level + 2) = l
    BY <2>1 DEF Begins
  <2>3. SUFFICES ASSUME level + 2 <= len
                 PROVE  SubSeq(t, 1, level + 2) = l <=>
                          /\ t[1] = "[" /\ t[level + 2] = "["
                          /\ \A i \in 2..(level + 1) : t[i] = "="
    BY <2>2 DEF Opens, l
  <2>4. PICK u \in Seq(LuaChars) : u = SubSeq(t, 1, level + 2)
    <3>1. \A i \in 1..(level + 2) : t[i] \in LuaChars
      BY <1>1, <2>3
    <3>2. 1 \in Int /\ level + 2 \in Int
      OBVIOUS
    <3>3. SubSeq(t, 1, level + 2) \in Seq(LuaChars)
      BY <3>1, <3>2, SubSeqProperties
    <3>4. QED
      BY <3>3
  <2>5. Len(u) = level + 2 /\ \A i \in 1..(level + 2) : u[i] = t[i]
    <3>1. \A i \in 1..(level + 2) : t[i] \in LuaChars
      BY <1>1, <2>3
    <3>2. PICK m \in Int : m = level + 2
      OBVIOUS
    <3>3. 1 \in Int /\ \A i \in 1..m : t[i] \in LuaChars
      BY <3>1, <3>2
    <3>4. /\ Len(SubSeq(t, 1, m)) = (IF 1 <= m THEN m - 1 + 1 ELSE 0)
          /\ \A i \in 1..(m - 1 + 1) : SubSeq(t, 1, m)[i] = t[1 + i - 1]
      BY <3>3, SubSeqProperties
    <3>5. (IF 1 <= m THEN m - 1 + 1 ELSE 0) = m /\ m - 1 + 1 = m /\ \A i \in 1..m : 1 + i - 1 = i
      BY <3>2
    <3>6. QED
      BY <2>4, <3>2, <3>4, <3>5
  <2>6. ASSUME t[1] = "[", t[level + 2] = "[", \A i \in 2..(level + 1) : t[i] = "="
        PROVE  u = l
    <3>1. ASSUME NEW i \in 1..(level + 2) PROVE u[i] = l[i]
      <4>1. i = 1 \/ i = level + 2 \/ i \in 2..(level + 1)
        OBVIOUS
      <4>2. QED
        BY <2>1, <2>5, <2>6, <4>1
    <3>2. QED
      BY <2>1, <2>5, <3>1, SeqEqual
  <2>7. ASSUME u = l
        PROVE  t[1] = "[" /\ t[level + 2] = "[" /\ \A i \in 2..(level + 1) : t[i] = "="
    <3>1. 1 \in 1..(level + 2) /\ level + 2 \in 1..(level + 2)
          /\ \A i \in 2..(level + 1) : i \in 1..(level + 2)
      OBVIOUS
    <3>2. QED
      BY <2>1, <2>5, <2>7, <3>1
  <2>8. QED
    BY <2>4, <2>6, <2>7
<1>4. ASSUME NEW level \in Nat, level + 2 <= len
      PROVE  Ends(SubSeq(t, level + 3, len), LongBracket("]", level)) <=> Closed(t, level)
  <2> DEFINE l == LongBracket("]", level)
             w == level + 2
             k == len - w
  <2>0. "]" \in LuaChars
    BY DEF LuaChars
  <2>1. /\ l \in Seq(LuaChars) /\ Len(l) = w /\ l[1] = "]" /\ l[w] = "]"
        /\ \A i \in 2..(level + 1) : l[i] = "="
    BY <2>0, LongBracketText
  <2>2. w \in Nat /\ k \in Nat /\ level + 3 = w + 1 /\ len = w + k
    BY <1>1, <1>4
  <2>3. PICK body \in Seq(LuaChars) : body = SubSeq(t, w + 1, len)
    <3>1. \A i \in (w + 1)..len : t[i] \in LuaChars
      BY <1>1, <2>2
    <3>2. w + 1 \in Int /\ len \in Int
      BY <1>1, <2>2
    <3>3. SubSeq(t, w + 1, len) \in Seq(LuaChars)
      BY <3>1, <3>2, SubSeqProperties
    <3>4. QED
      BY <3>3
  <2> HIDE DEF l, w, k, len
  <2>4. Len(body) = k /\ \A i \in 1..k : body[i] = t[w + i]
    <3>1. PICK a \in Int : a = w + 1
      BY <2>2
    <3>2. \A i \in a..len : t[i] \in LuaChars
      BY <1>1, <2>2, <3>1
    <3>3. len \in Int
      BY <1>1
    <3>4. /\ Len(SubSeq(t, a, len)) = (IF a <= len THEN len - a + 1 ELSE 0)
          /\ \A i \in 1..(len - a + 1) : SubSeq(t, a, len)[i] = t[a + i - 1]
      BY <3>2, <3>3, SubSeqProperties
    <3>5. (IF a <= len THEN len - a + 1 ELSE 0) = k /\ len - a + 1 = k
      BY <2>2, <3>1
    <3>6. \A i \in 1..k : a + i - 1 = w + i
      BY <2>2, <3>1
    <3>7. QED
      BY <2>3, <3>1, <3>4, <3>5, <3>6
  <2>5. Ends(body, l) <=> w <= k /\ SubSeq(body, k - w + 1, k) = l
    BY <2>1, <2>4 DEF Ends
  <2>6. Closed(t, level) <=>
          /\ w + w <= len /\ t[len] = "]" /\ t[len - level - 1] = "]"
          /\ \A i \in (len - level)..(len - 1) : t[i] = "="
    BY DEF Closed, w, len
  <2>7. w <= k <=> w + w <= len
    BY <2>2
  <2>8. SUFFICES ASSUME w <= k
                 PROVE  SubSeq(body, k - w + 1, k) = l <=>
                          /\ t[len] = "]" /\ t[len - level - 1] = "]"
                          /\ \A i \in (len - level)..(len - 1) : t[i] = "="
    BY <2>2, <2>3, <2>5, <2>6, <2>7 DEF l
  <2>9. PICK a \in Int : a = k - w + 1
    BY <2>2
  <2>10. a >= 1 /\ a <= k /\ k - a + 1 = w /\ k \in Int /\ \A i \in a..k : body[i] \in LuaChars
    <3>1. a >= 1 /\ a <= k /\ k - a + 1 = w /\ k \in Int
      BY <2>2, <2>8, <2>9 DEF w
    <3>2. \A i \in a..k : i \in 1..Len(body)
      BY <2>2, <2>4, <3>1
    <3>3. QED
      BY <3>1, <3>2, ElementOfSeq
  <2>11. PICK u \in Seq(LuaChars) : u = SubSeq(body, a, k)
    <3>1. SubSeq(body, a, k) \in Seq(LuaChars)
      BY <2>10, SubSeqProperties
    <3>2. QED
      BY <3>1
  <2>12. Len(u) = w /\ \A i \in 1..w : u[i] = t[k + i]
    <3>1. /\ Len(SubSeq(body, a, k)) = (IF a <= k THEN k - a + 1 ELSE 0)
          /\ \A i \in 1..(k - a + 1) : SubSeq(body, a, k)[i] = body[a + i - 1]
      BY <2>10, SubSeqProperties
    <3>2. Len(u) = w /\ \A i \in 1..w : u[i] = body[a + i - 1]
      BY <2>10, <2>11, <3>1
    <3>3. ASSUME NEW i \in 1..w PROVE u[i] = t[k + i]
      <4>1. a + i - 1 \in 1..k /\ w + (a + i - 1) = k + i
        BY <2>2, <2>8, <2>9
      <4>2. body[a + i - 1] = t[w + (a + i - 1)]
        BY <2>4, <4>1
      <4>3. QED
        BY <3>2, <4>1, <4>2
    <3>4. QED
      BY <3>2, <3>3
  <2>13. /\ k + 1 = len - level - 1 /\ k + w = len /\ 1 \in 1..w /\ w \in 1..w
         /\ \A i \in 2..(level + 1) : i \in 1..w /\ k + i \in (len - level)..(len - 1)
         /\ \A i \in (len - level)..(len - 1) : i - k \in 2..(level + 1) /\ k + (i - k) = i
    BY <2>2, <2>8 DEF w
  <2>14. ASSUME t[len] = "]", t[len - level - 1] = "]", \A i \in (len - level)..(len - 1) : t[i] = "="
         PROVE  u = l
    <3>1. ASSUME NEW i \in 1..w PROVE u[i] = l[i]
      <4>1. i = 1 \/ i = w \/ i \in 2..(level + 1)
        BY <2>2 DEF w
      <4>2. u[i] = t[k + i]
        BY <2>12
      <4>3. CASE i = 1 \/ i = w
        BY <2>1, <2>13, <2>14, <4>2, <4>3
      <4>4. CASE i \in 2..(level + 1)
        BY <2>1, <2>13, <2>14, <4>2, <4>4
      <4>5. QED
        BY <4>1, <4>3, <4>4
    <3>2. QED
      BY <2>1, <2>12, <3>1, SeqEqual
  <2>15. ASSUME u = l
         PROVE  /\ t[len] = "]" /\ t[len - level - 1] = "]"
                /\ \A i \in (len - level)..(len - 1) : t[i] = "="
    <3>1. u[1] = t[len - level - 1] /\ u[w] = t[len]
      BY <2>12, <2>13
    <3>2. ASSUME NEW i \in (len - level)..(len - 1) PROVE t[i] = "="
      <4>1. i - k \in 2..(level + 1) /\ k + (i - k) = i /\ i - k \in 1..w
        BY <2>13
      <4>2. u[i - k] = t[k + (i - k)] /\ l[i - k] = "="
        BY <2>1, <2>12, <4>1
      <4>3. QED
        BY <2>15, <4>1, <4>2
    <3>3. QED
      BY <2>1, <2>15, <3>1, <3>2
  <2>16. QED
    BY <2>9, <2>11, <2>14, <2>15
<1>5. \A level \in Nat : Opens(t, level) => level \in 0..len /\ level + 2 <= len
  BY <1>1 DEF Opens
<1>6. "EOF" \in LuaChars /\ "newline" \in LuaChars
  BY DEF LuaChars
<1>7. Complete(t) <=>
        \/ Ends(t, <<"EOF">>)
        \/ \E level \in 0..len :
              /\ Begins(t, LongBracket("[", level))
              /\ Ends(SubSeq(t, level + 3, len), LongBracket("]", level))
        \/ /\ ~\E level \in 0..len : Begins(t, LongBracket("[", level))
           /\ Ends(t, <<"newline">>)
  BY DEF Complete
<1>8. \A level \in 0..len : level \in Nat
  BY <1>1
<1>9. (\E level \in 0..len : /\ Begins(t, LongBracket("[", level))
                          /\ Ends(SubSeq(t, level + 3, len), LongBracket("]", level)))
        <=> \E level \in Nat : Opens(t, level) /\ Closed(t, level)
  BY <1>3, <1>4, <1>5, <1>8
<1>10. (\E level \in 0..len : Begins(t, LongBracket("[", level)))
        <=> \E level \in Nat : Opens(t, level)
  BY <1>3, <1>5, <1>8
<1>11. QED
  BY <1>2, <1>6, <1>7, <1>9, <1>10

LEMMA LuaComplete == ASSUME LuaIInv PROVE CommentEnds
<1>1. luaSeen \in Seq(LuaChars) /\ lua.pc \in LuaPcs /\ Len(luaSeen) \in Nat /\ lua.count \in Nat
      /\ (luaSeen # <<>> => Len(luaSeen) \in Nat \ {0})
  BY EmptySeq DEF LuaIInv, LuaTypeOK
<1>2. CASE lua.pc = "code"
  BY <1>2 DEF LuaIInv, CommentEnds
<1>3. ASSUME lua.pc # "code", Complete(luaSeen) PROVE FALSE
  <2>1. /\ luaSeen # <<>>
        /\ \/ luaSeen[Len(luaSeen)] = "EOF"
           \/ \E level \in Nat : Opens(luaSeen, level) /\ Closed(luaSeen, level)
           \/ /\ \A level \in Nat : ~Opens(luaSeen, level)
              /\ luaSeen[Len(luaSeen)] = "newline"
    <3>1. \/ luaSeen # <<>> /\ luaSeen[Len(luaSeen)] = "EOF"
          \/ \E level \in Nat : Opens(luaSeen, level) /\ Closed(luaSeen, level)
          \/ /\ \A level \in Nat : ~Opens(luaSeen, level)
             /\ luaSeen # <<>> /\ luaSeen[Len(luaSeen)] = "newline"
      BY <1>1, <1>3, CompleteMeans
    <3>2. ASSUME luaSeen = <<>> PROVE \A level \in Nat : ~Opens(luaSeen, level)
      <4>1. Len(luaSeen) = 0
        BY <3>2
      <4>2. QED
        BY <4>1 DEF Opens
    <3>3. QED
      BY <3>1, <3>2
  <2>2. CASE lua.pc = "first"
    BY <2>1, <2>2 DEF LuaIInv
  <2>3. CASE lua.pc = "opening"
    <3>1. /\ Len(luaSeen) = lua.count + 1 /\ luaSeen[1] = "["
          /\ \A i \in 2..Len(luaSeen) : luaSeen[i] = "="
      BY <2>3 DEF LuaIInv, OpeningOK
    <3>2. luaSeen[Len(luaSeen)] \in {"[", "="}
      BY <1>1, <3>1
    <3>3. PICK level \in Nat : Opens(luaSeen, level)
      BY <2>1, <3>2
    <3>4. level + 2 \in 2..Len(luaSeen) /\ luaSeen[level + 2] = "["
      BY <3>3, <1>1 DEF Opens
    <3>5. QED
      BY <3>1, <3>4
  <2>4. CASE lua.pc = "line"
    BY <1>1, <2>1, <2>4, NeverOpened DEF LuaIInv
  <2>5. CASE lua.pc \in {"long", "closing"}
    <3>1. PICK level \in Nat : LongOK(level)
      BY <2>5 DEF LuaIInv
    <3>2. /\ Opens(luaSeen, level) /\ ~Closed(luaSeen, level)
          /\ luaSeen[Len(luaSeen)] # "EOF"
      BY <3>1 DEF LongOK
    <3>3. PICK other \in Nat : Opens(luaSeen, other) /\ Closed(luaSeen, other)
      BY <2>1, <3>2
    <3>4. other = level
      BY <3>2, <3>3, OpensOnce
    <3>5. QED
      BY <3>2, <3>3, <3>4
  <2>6. QED
    BY <1>1, <1>3, <2>2, <2>3, <2>4, <2>5 DEF LuaPcs
<1>4. QED
  BY <1>2, <1>3 DEF CommentEnds

(* What has begun stays so with the next character.                         *)
LEMMA OneMore ==
    ASSUME NEW t \in Seq(LuaChars), NEW c \in LuaChars
    PROVE  /\ Append(t, c) \in Seq(LuaChars) /\ Append(t, c) # <<>>
           /\ Len(Append(t, c)) = Len(t) + 1 /\ Append(t, c)[Len(t) + 1] = c
           /\ \A i \in 1..Len(t) : Append(t, c)[i] = t[i]
           /\ \A level \in Nat : Opens(t, level) => Opens(Append(t, c), level)
           /\ NeverOpens(t) => NeverOpens(Append(t, c))
<1> DEFINE u == Append(t, c)
           len == Len(t)
<1>1. /\ u \in Seq(LuaChars) /\ u # <<>> /\ Len(u) = len + 1 /\ u[len + 1] = c
      /\ \A i \in 1..len : u[i] = t[i]
      /\ len \in Nat
  BY AppendLast, LenProperties
<1> HIDE DEF u, len
<1>2. ASSUME NEW level \in Nat, Opens(t, level) PROVE Opens(u, level)
  <2>1. /\ level + 2 <= len /\ t[1] = "[" /\ t[level + 2] = "["
        /\ \A i \in 2..(level + 1) : t[i] = "="
    BY <1>2 DEF Opens, len
  <2>2. 1 \in 1..len /\ level + 2 \in 1..len /\ level + 2 <= len + 1
        /\ \A i \in 2..(level + 1) : i \in 1..len
    BY <1>1, <2>1
  <2>3. QED
    BY <1>1, <2>1, <2>2 DEF Opens
<1>3. ASSUME NeverOpens(t) PROVE NeverOpens(u)
  <2>1. PICK m \in 1..len :
          \/ m = 1 /\ t[1] # "["
          \/ m > 1 /\ t[m] \notin {"=", "["} /\ \A i \in 2..(m - 1) : t[i] = "="
    BY <1>3 DEF NeverOpens, len
  <2>2. m \in 1..Len(u) /\ u[m] = t[m] /\ \A i \in 2..(m - 1) : i \in 1..len
    BY <1>1
  <2>3. QED
    BY <1>1, <2>1, <2>2 DEF NeverOpens
<1>4. QED
  BY <1>1, <1>2, <1>3 DEF u, len

(* HandleComment's loop up to the end of the line, when nothing that is     *)
(* read from here on can make the comment a long one.                       *)
LEMMA LineStep ==
    ASSUME LuaIInv, NEW c \in LuaChars, lua' = ToEndOfLine(c),
           luaSeen' = Append(luaSeen, c), NeverOpens(luaSeen')
    PROVE  LuaIInv'
<1>1. /\ lua \in [pc : LuaPcs, count : Nat, sep : Nat, out : LuaItems \union {"none", "COMMENT"}]
      /\ luaSeen \in Seq(LuaChars)
  BY DEF LuaIInv, LuaTypeOK
<1>2. /\ luaSeen' \in Seq(LuaChars) /\ luaSeen' # <<>> /\ Len(luaSeen') = Len(luaSeen) + 1
      /\ luaSeen'[Len(luaSeen')] = c /\ Len(luaSeen') \in Nat
  BY <1>1, OneMore, LenProperties
<1>3. /\ lua' = [pc |-> IF c \in {"newline", "EOF"} THEN "code" ELSE "line",
                 count |-> lua.count, sep |-> lua.sep,
                 out |-> IF c \in {"newline", "EOF"} THEN c ELSE "none"]
  BY <1>1 DEF ToEndOfLine
<1>4. /\ lua' \in [pc : LuaPcs, count : Nat, sep : Nat, out : LuaItems \union {"none", "COMMENT"}]
      /\ lua'.pc = IF c \in {"newline", "EOF"} THEN "code" ELSE "line"
  BY <1>1, <1>3 DEF LuaPcs, LuaItems, LuaChars
<1>5. c \in {"newline", "EOF"} => Complete(luaSeen')
  <2>1. PICK t \in Seq(LuaChars) : t = luaSeen'
    BY <1>2
  <2>2. \A level \in Nat : ~Opens(t, level)
    BY <1>2, <2>1, NeverOpened
  <2>3. t # <<>> /\ t[Len(t)] = c
    BY <1>2, <2>1
  <2>4. c \in {"newline", "EOF"} => Complete(t)
    BY <2>2, <2>3, CompleteMeans
  <2>5. QED
    BY <2>1, <2>4
<1>6. QED
  BY <1>2, <1>4, <1>5 DEF LuaIInv, LuaTypeOK

(* The steps of read_long_string and of skip_sep within it that end at the  *)
(* end of the input, at a bracket, or at another character.                 *)
LEMMA ReadsStep ==
    ASSUME LuaIInv, NEW c \in LuaChars, NEW level \in Nat, LongOK(level),
           lua' = Reads(c), luaSeen' = Append(luaSeen, c), ~Closed(luaSeen', level),
           c \notin {"]", "EOF"} => NoneBegun(luaSeen', level),
           lua.pc \in {"long", "closing"}
    PROVE  LuaIInv'
<1>1. /\ lua \in [pc : LuaPcs, count : Nat, sep : Nat, out : LuaItems \union {"none", "COMMENT"}]
      /\ luaSeen \in Seq(LuaChars)
  BY DEF LuaIInv, LuaTypeOK
<1>2. /\ luaSeen' \in Seq(LuaChars) /\ luaSeen' # <<>> /\ Len(luaSeen') = Len(luaSeen) + 1
      /\ luaSeen'[Len(luaSeen')] = c /\ Len(luaSeen) \in Nat
      /\ Opens(luaSeen', level) /\ level + 2 <= Len(luaSeen)
  BY <1>1, OneMore, LenProperties DEF LongOK, Opens
<1>3. CASE c = "EOF"
  <2>1. lua' = [pc |-> "code", count |-> lua.count, sep |-> lua.sep, out |-> c]
    BY <1>1, <1>3 DEF Reads
  <2>2. /\ lua' \in [pc : LuaPcs, count : Nat, sep : Nat, out : LuaItems \union {"none", "COMMENT"}]
        /\ lua'.pc = "code"
    BY <1>1, <2>1 DEF LuaPcs, LuaItems
  <2>3. PICK t \in Seq(LuaChars) : t = luaSeen'
    BY <1>2
  <2>4. Complete(t)
    BY <1>2, <1>3, <2>3, CompleteMeans
  <2>5. QED
    BY <1>2, <2>2, <2>3, <2>4 DEF LuaIInv, LuaTypeOK
<1>4. CASE c = "]"
  <2>1. lua' = [pc |-> "closing", count |-> 0, sep |-> lua.sep, out |-> lua.out]
    BY <1>1, <1>4 DEF Reads
  <2>2. /\ lua' \in [pc : LuaPcs, count : Nat, sep : Nat, out : LuaItems \union {"none", "COMMENT"}]
        /\ lua'.pc = "closing" /\ lua'.count = 0 /\ lua'.sep = lua.sep
    BY <1>1, <2>1 DEF LuaPcs
  <2>3. LongOK(level)'
    BY <1>2, <1>4, <2>2 DEF LongOK
  <2>4. BegunAt(luaSeen', Len(luaSeen') - lua'.count, level)
    BY <1>2, <1>4, <2>2 DEF BegunAt
  <2>5. QED
    BY <1>2, <2>2, <2>3, <2>4 DEF LuaIInv, LuaTypeOK
<1>5. CASE c \notin {"]", "EOF"}
  <2>1. lua' = [pc |-> "long", count |-> lua.count, sep |-> lua.sep, out |-> lua.out]
    BY <1>1, <1>5 DEF Reads
  <2>2. /\ lua' \in [pc : LuaPcs, count : Nat, sep : Nat, out : LuaItems \union {"none", "COMMENT"}]
        /\ lua'.pc = "long" /\ lua'.sep = lua.sep
    BY <1>1, <2>1 DEF LuaPcs
  <2>3. LongOK(level)'
    BY <1>2, <1>5, <2>2 DEF LongOK
  <2>4. QED
    BY <1>2, <1>5, <2>2, <2>3 DEF LuaIInv, LuaTypeOK
<1>6. QED
  BY <1>3, <1>4, <1>5

LEMMA SkipSep ==
    ASSUME NEW c, NEW bracket, lua.count \in Nat
    PROVE  /\ c = bracket => Separator(c, bracket) = lua.count + 2
           /\ c # bracket => Separator(c, bracket) \in {0, 1}
BY DEF Separator

LEMMA FirstStep ==
    ASSUME LuaIInv, NEW c \in LuaChars, FirstCharacter(c), luaSeen' = Append(luaSeen, c)
    PROVE  LuaIInv'
<1>1. /\ lua \in [pc : LuaPcs, count : Nat, sep : Nat, out : LuaItems \union {"none", "COMMENT"}]
      /\ luaSeen \in Seq(LuaChars) /\ luaSeen = <<>> /\ Len(luaSeen) = 0
  BY DEF LuaIInv, LuaTypeOK, FirstCharacter
<1>2. /\ luaSeen' \in Seq(LuaChars) /\ Len(luaSeen') = 1 /\ luaSeen'[1] = c
  BY <1>1, OneMore
<1>3. CASE c = "["
  <2>1. lua' = [pc |-> "opening", count |-> 0, sep |-> lua.sep, out |-> "none"]
    BY <1>1, <1>3 DEF FirstCharacter
  <2>2. /\ lua' \in [pc : LuaPcs, count : Nat, sep : Nat, out : LuaItems \union {"none", "COMMENT"}]
        /\ lua'.pc = "opening" /\ lua'.count = 0
    BY <1>1, <2>1 DEF LuaPcs
  <2>3. OpeningOK'
    BY <1>2, <1>3, <2>2 DEF OpeningOK
  <2>4. QED
    BY <1>2, <2>2, <2>3 DEF LuaIInv, LuaTypeOK
<1>4. CASE c # "["
  <2>1. NeverOpens(luaSeen')
    BY <1>2, <1>4 DEF NeverOpens
  <2>2. lua' = ToEndOfLine(c)
    BY <1>4 DEF FirstCharacter
  <2>3. QED
    BY <2>1, <2>2, LineStep
<1>5. QED
  BY <1>3, <1>4

LEMMA OpenStep ==
    ASSUME LuaIInv, NEW c \in LuaChars, OpenLongComment(c), luaSeen' = Append(luaSeen, c)
    PROVE  LuaIInv'
<1> DEFINE len == Len(luaSeen)
           m == lua.count
<1>1. /\ lua \in [pc : LuaPcs, count : Nat, sep : Nat, out : LuaItems \union {"none", "COMMENT"}]
      /\ luaSeen \in Seq(LuaChars) /\ m \in Nat
      /\ len = m + 1 /\ luaSeen[1] = "[" /\ \A i \in 2..len : luaSeen[i] = "="
  BY DEF LuaIInv, LuaTypeOK, OpenLongComment, OpeningOK
<1>2. /\ luaSeen' \in Seq(LuaChars) /\ Len(luaSeen') = len + 1 /\ luaSeen'[len + 1] = c
      /\ luaSeen'[1] = "[" /\ \A i \in 2..len : luaSeen'[i] = "="
  <2>1. /\ luaSeen' \in Seq(LuaChars) /\ Len(luaSeen') = len + 1 /\ luaSeen'[len + 1] = c
        /\ \A i \in 1..len : luaSeen'[i] = luaSeen[i]
    BY <1>1, OneMore
  <2>2. 1 \in 1..len /\ \A i \in 2..len : i \in 1..len
    BY <1>1
  <2>3. QED
    BY <1>1, <2>1, <2>2
<1>3. /\ c = "[" => Separator(c, "[") = m + 2
      /\ c # "[" => Separator(c, "[") \in {0, 1}
  BY <1>1, SkipSep
<1>4. CASE c = "="
  <2>1. lua' = [pc |-> "opening", count |-> m + 1, sep |-> lua.sep, out |-> lua.out]
    <3>1. lua' = [lua EXCEPT !.count = @ + 1]
      BY <1>3, <1>4 DEF OpenLongComment
    <3>2. lua.pc = "opening"
      BY DEF OpenLongComment
    <3>3. QED
      BY <1>1, <3>1, <3>2
  <2>2. /\ lua' \in [pc : LuaPcs, count : Nat, sep : Nat, out : LuaItems \union {"none", "COMMENT"}]
        /\ lua'.pc = "opening" /\ lua'.count = m + 1
    BY <1>1, <2>1 DEF LuaPcs
  <2>3. \A i \in 2..(len + 1) : luaSeen'[i] = "="
    BY <1>1, <1>2, <1>4
  <2>4. OpeningOK'
    BY <1>1, <1>2, <2>2, <2>3 DEF OpeningOK
  <2>5. QED
    BY <1>2, <2>2, <2>4 DEF LuaIInv, LuaTypeOK
<1>5. CASE c = "["
  <2>1. lua' = [pc |-> "long", count |-> m, sep |-> m + 2, out |-> lua.out]
    <3>1. Separator(c, "[") >= 2 /\ c # "="
      BY <1>1, <1>3, <1>5
    <3>2. lua' = [lua EXCEPT !.pc = "long", !.sep = Separator(c, "[")]
      BY <3>1 DEF OpenLongComment
    <3>3. QED
      BY <1>1, <1>3, <1>5, <3>2
  <2>2. /\ lua' \in [pc : LuaPcs, count : Nat, sep : Nat, out : LuaItems \union {"none", "COMMENT"}]
        /\ lua'.pc = "long" /\ lua'.sep = m + 2
    BY <1>1, <2>1 DEF LuaPcs
  <2>3. PICK level \in Nat : level = m
    BY <1>1
  <2>4. Opens(luaSeen', level) /\ ~Closed(luaSeen', level)
    BY <1>1, <1>2, <1>5, <2>3 DEF Opens, Closed
  <2>5. LongOK(level)'
    BY <1>2, <1>5, <2>2, <2>3, <2>4 DEF LongOK
  <2>6. NoneBegun(luaSeen', level)
    BY <1>1, <1>2, <2>3 DEF NoneBegun
  <2>7. QED
    BY <1>2, <2>2, <2>5, <2>6 DEF LuaIInv, LuaTypeOK
<1>6. CASE c \notin {"=", "["}
  <2>1. lua' = ToEndOfLine(c)
    <3>1. ~(Separator(c, "[") >= 2)
      BY <1>3, <1>6
    <3>2. QED
      BY <1>6, <3>1 DEF OpenLongComment
  <2>2. NeverOpens(luaSeen')
    <3>1. len + 1 \in 1..Len(luaSeen') /\ len + 1 > 1 /\ (len + 1) - 1 = len
      BY <1>1, <1>2
    <3>2. luaSeen'[len + 1] \notin {"=", "["} /\ \A i \in 2..((len + 1) - 1) : luaSeen'[i] = "="
      BY <1>2, <1>6, <3>1
    <3>3. QED
      BY <3>1, <3>2 DEF NeverOpens
  <2>3. QED
    BY <2>1, <2>2, LineStep
<1>7. QED
  BY <1>4, <1>5, <1>6

LEMMA LongStep ==
    ASSUME LuaIInv, NEW c \in LuaChars, ReadLongString(c), luaSeen' = Append(luaSeen, c)
    PROVE  LuaIInv'
<1> DEFINE len == Len(luaSeen)
           u == luaSeen'
<1>1. lua.pc = "long" /\ lua' = Reads(c) /\ luaSeen \in Seq(LuaChars) /\ len \in Nat
  BY LenProperties DEF ReadLongString, LuaIInv, LuaTypeOK
<1>2. PICK level \in Nat : LongOK(level) /\ NoneBegun(luaSeen, level)
  BY <1>1 DEF LuaIInv
<1>3. Len(u) = len + 1 /\ u[len + 1] = c /\ \A i \in 1..len : u[i] = luaSeen[i]
  BY <1>1, OneMore
<1>4. ~\E i \in (level + 3)..len : luaSeen[i] = "]" /\ \A j \in (i + 1)..len : luaSeen[j] = "="
  BY <1>2 DEF NoneBegun
<1> HIDE DEF u, len
<1>5. ~Closed(u, level)
  <2> SUFFICES ASSUME Closed(u, level) PROVE FALSE
    OBVIOUS
  <2>1. /\ (level + 2) + (level + 2) <= len + 1 /\ u[(len + 1) - level - 1] = "]"
        /\ \A i \in ((len + 1) - level)..((len + 1) - 1) : u[i] = "="
    BY <1>3 DEF Closed
  <2>2. /\ len - level \in (level + 3)..len /\ (len + 1) - level - 1 = len - level /\ len - level \in 1..len
        /\ \A j \in ((len - level) + 1)..len :
             j \in 1..len /\ j \in ((len + 1) - level)..((len + 1) - 1)
    BY <1>1, <2>1
  <2>3. luaSeen[len - level] = "]" /\ \A j \in ((len - level) + 1)..len : luaSeen[j] = "="
    BY <1>3, <2>1, <2>2
  <2>4. QED
    BY <1>4, <2>2, <2>3
<1>6. ASSUME c # "]" PROVE NoneBegun(u, level)
  <2> SUFFICES ASSUME NEW i \in (level + 3)..(len + 1), u[i] = "]",
                      \A j \in (i + 1)..(len + 1) : u[j] = "="
               PROVE  FALSE
    BY <1>3 DEF NoneBegun
  <2>1. i # len + 1
    BY <1>3, <1>6
  <2>2. i \in (level + 3)..len /\ i \in 1..len
        /\ \A j \in (i + 1)..len : j \in 1..len /\ j \in (i + 1)..(len + 1)
    BY <1>1, <2>1
  <2>3. luaSeen[i] = "]" /\ \A j \in (i + 1)..len : luaSeen[j] = "="
    BY <1>3, <2>2
  <2>4. QED
    BY <1>4, <2>2, <2>3
<1>7. QED
  BY <1>1, <1>2, <1>5, <1>6, ReadsStep DEF u

LEMMA CloseStep ==
    ASSUME LuaIInv, NEW c \in LuaChars, CloseLongComment(c), luaSeen' = Append(luaSeen, c)
    PROVE  LuaIInv'
<1> DEFINE len == Len(luaSeen)
           u == luaSeen'
           m == lua.count
<1>1. /\ lua.pc = "closing" /\ len \in Nat /\ m \in Nat /\ luaSeen \in Seq(LuaChars)
      /\ lua \in [pc : LuaPcs, count : Nat, sep : Nat, out : LuaItems \union {"none", "COMMENT"}]
  BY LenProperties DEF CloseLongComment, LuaIInv, LuaTypeOK
<1>2. PICK level \in Nat : LongOK(level) /\ BegunAt(luaSeen, len - m, level)
  BY <1>1 DEF LuaIInv
<1>3. /\ u \in Seq(LuaChars) /\ u # <<>> /\ Len(u) = len + 1 /\ u[len + 1] = c
      /\ \A i \in 1..len : u[i] = luaSeen[i]
      /\ Opens(u, level)
  BY <1>1, <1>2, OneMore DEF LongOK
<1>4. /\ len - m \in (level + 3)..len /\ lua.sep = level + 2
      /\ u[len - m] = "]" /\ \A j \in ((len - m) + 1)..len : u[j] = "="
  <2>1. /\ len - m \in (level + 3)..len /\ lua.sep = level + 2
        /\ luaSeen[len - m] = "]" /\ \A j \in ((len - m) + 1)..len : luaSeen[j] = "="
    BY <1>2 DEF LongOK, BegunAt
  <2>2. len - m \in 1..len /\ \A j \in ((len - m) + 1)..len : j \in 1..len
    BY <1>1, <2>1
  <2>3. QED
    BY <1>3, <2>1, <2>2
<1>5. /\ c = "]" => Separator(c, "]") = m + 2
      /\ c # "]" => Separator(c, "]") \in {0, 1}
  BY <1>1, SkipSep
<1> HIDE DEF u, len, m
<1>6. CASE c = "="
  <2>1. lua' = [pc |-> "closing", count |-> m + 1, sep |-> lua.sep, out |-> lua.out]
    <3>1. lua' = [lua EXCEPT !.count = @ + 1]
      BY <1>6 DEF CloseLongComment
    <3>2. QED
      BY <1>1, <3>1 DEF m
  <2>2. /\ lua' \in [pc : LuaPcs, count : Nat, sep : Nat, out : LuaItems \union {"none", "COMMENT"}]
        /\ lua'.pc = "closing" /\ lua'.count = m + 1 /\ lua'.sep = lua.sep
    BY <1>1, <2>1 DEF LuaPcs, m
  <2>3. ~Closed(u, level)
    BY <1>3, <1>6 DEF Closed
  <2>4. LongOK(level)'
    BY <1>3, <1>4, <1>6, <2>2, <2>3 DEF LongOK, u
  <2>5. BegunAt(u, Len(u) - lua'.count, level)
    <3>1. Len(u) - lua'.count = len - m
      BY <1>1, <1>3, <2>2 DEF m
    <3>2. len - m \in (level + 3)..(len + 1) /\ \A j \in ((len - m) + 1)..(len + 1) : u[j] = "="
      BY <1>1, <1>3, <1>4, <1>6 DEF m
    <3>3. QED
      BY <1>3, <1>4, <3>1, <3>2 DEF BegunAt
  <2>6. QED
    BY <1>3, <2>2, <2>4, <2>5 DEF LuaIInv, LuaTypeOK, u
<1>7. CASE c # "=" /\ Closes(c)
  <2>1. c = "]" /\ m = level
    BY <1>1, <1>4, <1>5, <1>7 DEF Closes, m
  <2>2. lua' = [pc |-> "code", count |-> m, sep |-> lua.sep, out |-> "COMMENT"]
    <3>1. lua' = [lua EXCEPT !.pc = "code", !.out = "COMMENT"]
      BY <1>7 DEF CloseLongComment
    <3>2. QED
      BY <1>1, <3>1 DEF m
  <2>3. /\ lua' \in [pc : LuaPcs, count : Nat, sep : Nat, out : LuaItems \union {"none", "COMMENT"}]
        /\ lua'.pc = "code"
    BY <1>1, <2>2 DEF LuaPcs, m
  <2>4. Closed(u, level)
    <3>1. /\ (level + 2) + (level + 2) <= len + 1 /\ (len + 1) - level - 1 = len - m
          /\ \A i \in ((len + 1) - level)..((len + 1) - 1) : i \in ((len - m) + 1)..len
      BY <1>1, <1>4, <2>1 DEF m
    <3>2. QED
      BY <1>3, <1>4, <2>1, <3>1 DEF Closed
  <2>5. Complete(u)
    BY <1>3, <2>4, CompleteMeans
  <2>6. QED
    BY <1>3, <2>3, <2>5 DEF LuaIInv, LuaTypeOK, u
<1>8. CASE c # "=" /\ ~Closes(c)
  <2>1. lua' = Reads(c)
    BY <1>8 DEF CloseLongComment, AfterMiss
  <2>2. ~Closed(u, level)
    <3> SUFFICES ASSUME Closed(u, level) PROVE FALSE
      OBVIOUS
    <3>1. /\ c = "]" /\ u[(len + 1) - level - 1] = "]"
          /\ \A i \in ((len + 1) - level)..((len + 1) - 1) : u[i] = "="
      BY <1>3 DEF Closed
    <3>2. m # level
      BY <1>4, <1>5, <1>8, <3>1 DEF Closes
    <3>3. CASE level > m
      <4>1. len - m \in ((len + 1) - level)..((len + 1) - 1)
        BY <1>1, <3>3 DEF m
      <4>2. QED
        BY <1>4, <3>1, <4>1
    <3>4. CASE level < m
      <4>1. (len + 1) - level - 1 \in ((len - m) + 1)..len
        BY <1>1, <3>4 DEF m
      <4>2. QED
        BY <1>4, <3>1, <4>1
    <3>5. QED
      BY <1>1, <3>2, <3>3, <3>4 DEF m
  <2>3. ASSUME c # "]" PROVE NoneBegun(u, level)
    <3> SUFFICES ASSUME NEW i \in (level + 3)..(len + 1), u[i] = "]",
                        \A j \in (i + 1)..(len + 1) : u[j] = "="
                 PROVE  FALSE
      BY <1>3 DEF NoneBegun
    <3>1. i # len + 1
      BY <1>3, <2>3
    <3>2. len + 1 \in (i + 1)..(len + 1)
      BY <1>1, <3>1
    <3>3. QED
      BY <1>3, <1>8, <3>2
  <2>4. QED
    BY <1>1, <1>2, <2>1, <2>2, <2>3, ReadsStep DEF u
<1>9. QED
  BY <1>6, <1>7, <1>8

LEMMA LuaMoved ==
    ASSUME LuaIInv, (\E c \in AllItems : LuaStep(c)) \/ LuaReset \/ UNCHANGED luaVars
    PROVE  LuaIInv'
<1>1. /\ lua \in [pc : LuaPcs, count : Nat, sep : Nat, out : LuaItems \union {"none", "COMMENT"}]
      /\ luaSeen \in Seq(LuaChars) /\ <<>> \in Seq(LuaChars)
  BY EmptySeq DEF LuaIInv, LuaTypeOK
<1>2. ASSUME NEW c, OutsideComment(c)
      PROVE  LuaIInv'
  <2>1. /\ luaSeen' = <<>>
        /\ lua' = [pc |-> IF c = "--" THEN "first" ELSE "code", count |-> lua.count,
                   sep |-> lua.sep, out |-> c]
        /\ c \in LuaItems
    BY <1>1, <1>2 DEF OutsideComment, LuaItems, LuaChars
  <2>2. /\ lua' \in [pc : LuaPcs, count : Nat, sep : Nat, out : LuaItems \union {"none", "COMMENT"}]
        /\ lua'.pc \in {"first", "code"}
    BY <1>1, <2>1 DEF LuaPcs
  <2>3. QED
    BY <1>1, <2>1, <2>2 DEF LuaIInv, LuaTypeOK
<1>3. ASSUME NEW c, HandleComment(c)
      PROVE  LuaIInv'
  <2>1. c \in LuaChars /\ luaSeen' = Append(luaSeen, c)
    BY <1>3 DEF HandleComment
  <2>2. CASE LineComment(c)
    <3>1. NeverOpens(luaSeen) /\ lua' = ToEndOfLine(c)
      BY <2>2 DEF LineComment, LuaIInv
    <3>2. NeverOpens(luaSeen')
      BY <1>1, <2>1, <3>1, OneMore
    <3>3. QED
      BY <2>1, <3>1, <3>2, LineStep
  <2>3. QED
    BY <1>3, <2>1, <2>2, FirstStep, OpenStep, LongStep, CloseStep DEF HandleComment
<1>4. CASE LuaReset
  <2>1. /\ lua' \in [pc : LuaPcs, count : Nat, sep : Nat, out : LuaItems \union {"none", "COMMENT"}]
        /\ lua'.pc = "code" /\ luaSeen' = <<>>
    BY <1>4 DEF LuaReset, NewLua, LuaPcs
  <2>2. QED
    BY <1>1, <2>1 DEF LuaIInv, LuaTypeOK
<1>5. CASE UNCHANGED luaVars
  <2>1. lua' = lua /\ luaSeen' = luaSeen
    BY <1>5 DEF luaVars
  <2>2. QED
    BY <2>1 DEF LuaIInv, LuaTypeOK, OpeningOK, LongOK
<1>6. QED
  BY <1>2, <1>3, <1>4, <1>5 DEF LuaStep

(* try_read_long_bracket and skip_sep: whatever the input, a long comment   *)
(* ends with the first closing bracket of the level of the opening one, and *)
(* every other one with its line.                                           *)
THEOREM Comments == Spec => []CommentEnds
<1>1. Init => LuaIInv
  <2>1. <<>> \in Seq(LuaChars)
    BY EmptySeq
  <2>2. QED
    BY <2>1 DEF Init, LuaInit, NewLua, LuaIInv, LuaTypeOK, LuaPcs
<1>2. LuaIInv /\ [Next]_<<driver, lexerVars>> => LuaIInv'
  BY OneLexerMoves, LuaMoved
<1>3. LuaIInv => CommentEnds
  BY LuaComplete
<1>4. QED
  BY <1>1, <1>2, <1>3, PTL DEF Spec

---------------------------------------------------------------------------
(* The JavaScript lexer in the driver.                                      *)

(* DoParse: the driver implements the lexer's own specification.            *)
THEOREM DrivesJs == Spec => JsSpec
<1>1. Init => JsInit
  BY DEF Init
<1>2. [Next]_<<driver, lexerVars>> => [JsNext]_jsVars
  BY OneLexerMoves DEF JsNext
<1>3. QED
  BY <1>1, <1>2, PTL DEF Spec, JsSpec

(* ProcessOpenBrace and ProcessCloseBrace, as they are called by the driver.*)
THEOREM DrivenTemplates == Spec => []TemplateBracesOK
BY DrivesJs, TemplatesTold, PTL

(* ProcessStringLiteral, as it is called by it.                             *)
THEOREM DrivenScopes == Spec => []ScopesOK
BY DrivesJs, ScopesKept, PTL

(* lineTerminatorAhead, as the parser that the driver runs calls it.        *)
THEOREM DrivenLineEnds == Spec => []EndsOfLines
BY DrivesJs, LineEndsFound, PTL

---------------------------------------------------------------------------
(* Two passes of a lexer.                                                   *)

(* What each lexer makes of `c` when its fields are `v`: its actions as     *)
(* functions of the state they are taken in.                                *)
JsInDefaultOf(v) == Last(v.modes) = "DEFAULT"
JsInTemplateOf(v) == v.templates # <<>> /\ Last(v.templates) = v.depth
JsScopeModeOf(v) == v.scopes # <<>> /\ (Last(v.scopes) \/ v.default)
JsTokenIn(v, c) ==
    IF ~JsInDefaultOf(v) THEN "TemplateStringAtom"
    ELSE CASE
         c = "id"     -> "Identifier"
      [] c = "op"     -> "Punctuator"
      [] c = "/"      -> IF v.last \notin {"Identifier", "StringLiteral"}
                         THEN "RegularExpression" ELSE "Divide"
      [] c = "let"    -> IF v.strict THEN "StrictLet" ELSE "NonStrictLet"
      [] c \in JsHidden -> "Hidden"
      [] OTHER        -> "EOF"

JsAfter(v, c) ==
    IF c = "brace" /\ JsInDefaultOf(v)
    THEN JsReturn([v EXCEPT !.depth = @ + 1, !.strict = JsScopeModeOf(v),
                            !.scopes = Append(@, JsScopeModeOf(v))], "OpenBrace")
    ELSE IF c = "endbrace" /\ JsInDefaultOf(v) /\ ~JsInTemplateOf(v)
    THEN JsReturn([v EXCEPT !.depth = @ - 1, !.strict = JsScopeModeOf(v),
                            !.scopes = IF @ = <<>> THEN @ ELSE Front(@)], "CloseBrace")
    ELSE IF c = "endbrace" /\ JsInDefaultOf(v)
    THEN JsReturn([v EXCEPT !.depth = @ - 1, !.templates = Front(@), !.modes = Front(@)],
                  "TemplateCloseBrace")
    ELSE IF c = "$brace"
    THEN JsReturn([v EXCEPT !.depth = @ + 1, !.templates = Append(@, v.depth + 1),
                            !.modes = Append(@, "DEFAULT")], "TemplateStringStart")
    ELSE IF c = "tick"
    THEN JsReturn([v EXCEPT !.modes = IF JsInDefaultOf(v) THEN Append(@, "TEMPLATE")
                                      ELSE Front(@)], "BackTick")
    ELSE IF c \in {"use", "str"} /\ c = "use" /\ v.last \in {"none", "OpenBrace"}
    THEN JsReturn([v EXCEPT !.strict = TRUE,
                            !.scopes = Append(IF @ = <<>> THEN @ ELSE Front(@), TRUE)],
                  "StringLiteral")
    ELSE IF c \in {"use", "str"}
    THEN JsReturn(v, "StringLiteral")
    ELSE JsReturn(v, IF c = "EOF" THEN c ELSE JsTokenIn(v, c))

AdRuleAfter(rule, c) ==
    CASE c \in {"OPTIONS", "TOKENS"} /\ rule = "none" -> "prequel"
      [] c = "OPTIONS" /\ rule = "lexer"    -> "options"
      [] c = "RBRACE" /\ rule = "prequel"   -> "none"
      [] c = "RBRACE" /\ rule = "options"   -> "lexer"
      [] c = "@" /\ rule = "none"           -> "action"
      [] c = "ACTION" /\ rule = "action"    -> "none"
      [] c = "Id" /\ rule = "none"          -> "lexer"
      [] c = "id" /\ rule = "none"          -> "parser"
      [] c = "SEMI" /\ rule # "options"     -> "none"
      [] OTHER                              -> rule

AdAfter(v, c) ==
    IF Last(v.modes) = "DEFAULT" /\ c # "["
    THEN [v EXCEPT !.rule = AdRuleAfter(v.rule, c), !.out = c]
    ELSE IF Last(v.modes) = "DEFAULT" /\ v.rule = "lexer"
    THEN [v EXCEPT !.modes = Append(@, "CHARSET"), !.out = "none"]
    ELSE IF Last(v.modes) = "DEFAULT"
    THEN [v EXCEPT !.modes = Append(@, "ARGUMENT"), !.out = "BEGIN_ARGUMENT"]
    ELSE IF Last(v.modes) = "ARGUMENT" /\ c = "["
    THEN [v EXCEPT !.modes = Append(@, "ARGUMENT"), !.out = "ARGUMENT_CONTENT"]
    ELSE IF Last(v.modes) = "ARGUMENT" /\ c = "]"
    THEN [v EXCEPT !.modes = Front(@), !.out = EndType(v.modes)]
    ELSE IF Last(v.modes) = "CHARSET" /\ c = "]"
    THEN [v EXCEPT !.modes = Front(@), !.out = "LEXER_CHAR_SET"]
    ELSE IF c = "EOF"
    THEN [v EXCEPT !.modes = IF Last(v.modes) = "CHARSET" THEN Front(@) ELSE @, !.out = "EOF"]
    ELSE [v EXCEPT !.out = IF Last(v.modes) = "CHARSET" THEN "none" ELSE "ARGUMENT_CONTENT"]

MyTypeIn(v, c) ==
    CASE c = ".id"                                -> "IDENTIFIER"
      [] c \in {"call", "call_", "fn", "fn_"}     ->
            IF c = "call" \/ (c = "call_" /\ v.space) THEN "FUNCTION" ELSE "IDENTIFIER"
      [] c = "num"                                -> "INT_NUMBER"
      [] c = "/*!"                                -> "MYSQL_COMMENT_START"
      [] c \in {"/*!8", "/*!9"}                   -> "VERSION_COMMENT_START"
      [] c = "*/" /\ v.comment                    -> "VERSION_COMMENT_END"
      [] c = "*/" /\ ~v.comment                   -> "MULT_OPERATOR"
      [] c = "text"                               -> "TEXT"
      [] OTHER                                    -> "EOF"

MyTokensIn(v, at, c) ==
    LET trim == v.dot \/ c = ".id"
        t == [type   |-> MyTypeIn(v, c),
              start  |-> IF trim THEN at + 1 ELSE at,
              stop   |-> IF c = "EOF" THEN at - 1 ELSE at + MyWidth - 1,
              hidden |-> (v.space /\ c \in {"call_", "fn_"})
                           \/ c \in {"/*!", "/*!8", "/*!9"} \/ (c = "*/" /\ v.comment)]
    IN  Queued(IF c # ".id" THEN v.pending
               ELSE Append(v.pending, [type |-> "DOT_SYMBOL", start |-> at, stop |-> at,
                                       hidden |-> FALSE]), t)

MyAfter(v, seen, c) ==
    IF v.pending # <<>>
    THEN << [v EXCEPT !.pending = Tail(@), !.out = Head(v.pending)],
            [seen EXCEPT !.before = v.out.stop] >>
    ELSE IF c = "fn$"
    THEN << [v EXCEPT !.fault = "ValueError"], [seen EXCEPT !.item = c] >>
    ELSE LET queue == MyTokensIn(v, seen.at, c)
         IN  << [v EXCEPT !.pending = Tail(queue), !.out = Head(queue),
                          !.dot = JustEmittedDot(c),
                          !.comment = CASE c = "/*!" -> TRUE
                                        [] c = "*/"  -> FALSE
                                        [] OTHER     -> v.comment],
                [at |-> seen.at + (IF c = "EOF" THEN 0 ELSE MyWidth),
                 item |-> c, before |-> v.out.stop] >>

(* Of the tags only the one of the open string is looked at.                *)
PgAfter(v, c) ==
    IF ~v.quoting /\ c \in PgTags
    THEN [quoting |-> TRUE, fault |-> v.fault, out |-> "BeginDollarString", tag |-> c]
    ELSE IF v.quoting /\ c = v.tag
    THEN [quoting |-> FALSE, fault |-> v.fault, out |-> "EndDollarString", tag |-> "none"]
    ELSE IF ~v.quoting /\ c = "1.."
    THEN [v EXCEPT !.fault = "NameError"]
    ELSE [v EXCEPT !.out = IF v.quoting /\ c # "EOF" THEN "DollarText" ELSE c]

LuaToEndOfLine(v, c) ==
    [v EXCEPT !.pc = IF c \in {"newline", "EOF"} THEN "code" ELSE "line",
              !.out = IF c \in {"newline", "EOF"} THEN c ELSE "none"]
LuaSeparator(v, c, bracket) ==
    CASE c = bracket                  -> v.count + 2
      [] c # bracket /\ v.count = 0   -> 1
      [] OTHER                        -> 0
LuaReads(v, c) ==
    CASE c = "EOF" -> [v EXCEPT !.pc = "code", !.out = c]
      [] c = "]"   -> [v EXCEPT !.pc = "closing", !.count = 0]
      [] OTHER     -> [v EXCEPT !.pc = "long"]

LuaAfter(v, c) ==
    CASE v.pc = "code"  -> [v EXCEPT !.pc = IF c = "--" THEN "first" ELSE "code", !.out = c]
      [] v.pc = "first" -> IF c = "[" THEN [v EXCEPT !.pc = "opening", !.count = 0, !.out = "none"]
                           ELSE LuaToEndOfLine(v, c)
      [] v.pc = "line"  -> LuaToEndOfLine(v, c)
      [] v.pc = "opening" ->
           IF c = "=" THEN [v EXCEPT !.count = @ + 1]
           ELSE IF LuaSeparator(v, c, "[") >= 2
           THEN [v EXCEPT !.pc = "long", !.sep = LuaSeparator(v, c, "[")]
           ELSE LuaToEndOfLine(v, c)
      [] v.pc = "long"  -> LuaReads(v, c)
      [] OTHER ->
           (CASE c = "="                          -> [v EXCEPT !.count = @ + 1]
             [] c # "=" /\ LuaSeparator(v, c, "]") = v.sep     -> [v EXCEPT !.pc = "code", !.out = "COMMENT"]
             [] OTHER                             -> LuaReads(v, c))

LEMMA JsDetermined ==
    ASSUME NEW c, JsStep(c)
    PROVE  js' = JsAfter(js, c)
<1> USE DEF JsAfter, JsInDefaultOf, JsInDefault
<1>1. CASE JsOpenBrace(c)
  BY <1>1, Zenon DEF JsOpenBrace, JsScopeModeOf, ScopeMode
<1>2. CASE JsCloseBrace(c)
  <2>1. c = "endbrace" /\ c # "brace" /\ JsInDefault /\ ~IsInTemplateString
    BY <1>2 DEF JsCloseBrace
  <2>2. QED
    BY <1>2, <2>1, Zenon DEF JsCloseBrace, JsScopeModeOf, ScopeMode,
       JsInTemplateOf, IsInTemplateString
<1>3. CASE JsTemplateCloseBrace(c)
  <2>1. c = "endbrace" /\ c # "brace" /\ JsInDefault /\ IsInTemplateString
    BY <1>3 DEF JsTemplateCloseBrace
  <2>2. QED
    BY <1>3, <2>1, Zenon DEF JsTemplateCloseBrace, JsInTemplateOf, IsInTemplateString
<1>4. CASE JsTemplateOpenBrace(c)
  <2>1. c = "$brace" /\ c \notin {"brace", "endbrace"}
    BY <1>4 DEF JsTemplateOpenBrace
  <2>2. QED
    BY <1>4, <2>1, Zenon DEF JsTemplateOpenBrace
<1>5. CASE JsBackTick(c)
  <2>1. c = "tick" /\ c \notin {"brace", "endbrace", "$brace"}
    BY <1>5 DEF JsBackTick
  <2>2. QED
    BY <1>5, <2>1, Zenon DEF JsBackTick
<1>6. CASE JsStringLiteral(c)
  <2>1. c \in {"use", "str"} /\ c \notin {"brace", "endbrace", "$brace", "tick"}
    BY <1>6 DEF JsStringLiteral
  <2>2. QED
    BY <1>6, <2>1, Zenon DEF JsStringLiteral, IsDirective
<1>7. CASE JsOther(c)
  <2>1. /\ js' = JsReturn(js, IF c = "EOF" THEN c ELSE JsTokenOf(c))
        /\ c \notin {"endbrace", "$brace", "tick", "use", "str"} /\ ~(c = "brace" /\ JsInDefault)
    BY <1>7 DEF JsOther, JsHidden
  <2>2. JsTokenIn(js, c) = JsTokenOf(c)
    BY Zenon DEF JsTokenIn, JsTokenOf, IsRegexPossible
  <2>3. QED
    BY <2>1, <2>2, Zenon
<1>8. QED
  BY <1>1, <1>2, <1>3, <1>4, <1>5, <1>6, <1>7 DEF JsStep

LEMMA AdDetermined ==
    ASSUME NEW c, AdStep(c)
    PROVE  ad' = AdAfter(ad, c)
<1>0. Last(ad.modes) = AdMode
  BY DEF AdMode
<1>1. CASE AdEmit(c)
  <2>1. AdRuleAfter(ad.rule, c) = RuleAfter(c)
    BY Zenon DEF AdRuleAfter, RuleAfter
  <2>2. QED
    BY <1>0, <1>1, <2>1, Zenon DEF AdAfter, AdEmit
<1>2. CASE HandleBeginArgument(c)
  BY <1>0, <1>2, Zenon DEF AdAfter, HandleBeginArgument
<1>3. CASE NestedArgument(c)
  <2>1. AdMode = "ARGUMENT" /\ AdMode # "DEFAULT"
    BY <1>3 DEF NestedArgument
  <2>2. QED
    BY <1>0, <1>3, <2>1, Zenon DEF AdAfter, NestedArgument
<1>4. CASE HandleEndArgument(c)
  <2>1. AdMode = "ARGUMENT" /\ AdMode # "DEFAULT" /\ c # "["
    BY <1>4 DEF HandleEndArgument
  <2>2. QED
    BY <1>0, <1>4, <2>1, Zenon DEF AdAfter, HandleEndArgument
<1>5. CASE EndCharSet(c)
  <2>1. AdMode = "CHARSET" /\ AdMode # "DEFAULT" /\ AdMode # "ARGUMENT"
    BY <1>5 DEF EndCharSet
  <2>2. QED
    BY <1>0, <1>5, <2>1, Zenon DEF AdAfter, EndCharSet
<1>6. CASE Content(c)
  <2>1. /\ AdMode # "DEFAULT" /\ c # "]" /\ ~(AdMode = "ARGUMENT" /\ c = "[")
    BY <1>6 DEF Content
  <2>2. QED
    BY <1>0, <1>6, <2>1, Zenon DEF AdAfter, Content
<1>7. QED
  BY <1>1, <1>2, <1>3, <1>4, <1>5, <1>6 DEF AdStep

LEMMA MyDetermined ==
    ASSUME MyIInv, NEW c, MyStep(c)
    PROVE  <<my', mySeen'>> = MyAfter(my, mySeen, c)
<1>1. CASE Pending(c)
  BY <1>1, Zenon DEF MyAfter, Pending
<1>2. CASE NameAtTheEnd(c)
  BY <1>2, Zenon DEF MyAfter, NameAtTheEnd, NothingPending
<1>3. CASE MyMatch(c)
  <2>1. MyTypeIn(my, c) = MyTypeOf(c)
    BY Zenon DEF MyTypeIn, MyTypeOf, DetermineFunction, DetermineNumericType, TokenText
  <2>2. MyTokensIn(my, mySeen.at, c) = Queued(EmitDot(c), MyEmit(c))
    BY <2>1, Zenon DEF MyTokensIn, EmitDot, MyEmit, HiddenByBlanks
  <2>3. InVersionComment(c) = CASE c = "/*!" -> TRUE [] c = "*/" -> FALSE [] OTHER -> my.comment
    <3>1. my.comment \in BOOLEAN
      BY DEF MyIInv
    <3>2. (my.comment \/ CheckMySQLVersion(TokenText, c)) = my.comment
      BY <3>1 DEF CheckMySQLVersion, TokenText
    <3>3. QED
      BY <3>2 DEF InVersionComment
  <2>4. QED
    BY <1>3, <2>2, <2>3, Zenon DEF MyAfter, MyMatch, NothingPending
<1>4. QED
  BY <1>1, <1>2, <1>3 DEF MyStep

PgView == [quoting |-> pg.quoting, fault |-> pg.fault, out |-> pg.out, tag |-> pgSeen]

LEMMA PgDetermined ==
    ASSUME TagsOK, NEW c, PgStep(c)
    PROVE  PgView' = PgAfter(PgView, c)
<1> DEFINE Outs == PgItems \union {"none", "BeginDollarString", "EndDollarString", "DollarText"}
<1>1. /\ pg \in [tags : Seq(PgTags), quoting : BOOLEAN, fault : {"none", "NameError"}, out : Outs]
      /\ pg.quoting => pg.tags # <<>> /\ Last(pg.tags) = pgSeen
  BY DEF TagsOK
<1>2. CASE PushTag(c)
  <2>1. /\ pg' = [tags |-> Append(pg.tags, c), quoting |-> TRUE, fault |-> pg.fault,
                  out |-> "BeginDollarString"]
        /\ pgSeen' = c /\ c \in PgTags /\ ~pg.quoting
    BY <1>1, <1>2 DEF PushTag
  <2>2. QED
    BY <2>1 DEF PgView, PgAfter
<1>3. CASE PopTag(c)
  <2>1. /\ pg' = [tags |-> Front(pg.tags), quoting |-> FALSE, fault |-> pg.fault,
                  out |-> "EndDollarString"]
        /\ c = pgSeen /\ pgSeen' = "none" /\ pg.quoting
    BY <1>1, <1>3 DEF PopTag, IsTag
  <2>2. QED
    BY <2>1 DEF PgView, PgAfter
<1>4. CASE HandleNumericFail(c)
  <2>1. /\ pg' = [tags |-> pg.tags, quoting |-> pg.quoting, fault |-> "NameError", out |-> pg.out]
        /\ c = "1.." /\ c \notin PgTags /\ pgSeen' = pgSeen /\ ~pg.quoting
    BY <1>1, <1>4 DEF HandleNumericFail, PgTags
  <2>2. QED
    BY <2>1 DEF PgView, PgAfter
<1>5. CASE OtherPgToken(c)
  <2>1. /\ pg' = [tags |-> pg.tags, quoting |-> pg.quoting, fault |-> pg.fault,
                  out |-> IF pg.quoting /\ c # "EOF" THEN "DollarText" ELSE c]
        /\ pgSeen' = pgSeen
        /\ pg.quoting => c # pgSeen
        /\ ~pg.quoting => c \notin PgTags /\ c # "1.."
    BY <1>1, <1>5 DEF OtherPgToken, IsTag, PgTags
  <2>2. QED
    BY <2>1 DEF PgView, PgAfter
<1>6. QED
  BY <1>2, <1>3, <1>4, <1>5 DEF PgStep

LEMMA LuaDetermined ==
    ASSUME NEW c, LuaStep(c)
    PROVE  lua' = LuaAfter(lua, c)
<1>0. /\ LuaToEndOfLine(lua, c) = ToEndOfLine(c)
      /\ LuaReads(lua, c) = Reads(c) /\ LuaReads(lua, c) = AfterMiss(c)
      /\ LuaSeparator(lua, c, "[") = Separator(c, "[")
      /\ LuaSeparator(lua, c, "]") = lua.sep <=> Closes(c)
  BY Zenon DEF LuaToEndOfLine, ToEndOfLine, LuaReads, Reads, AfterMiss, LuaSeparator, Separator, Closes
<1>1. CASE OutsideComment(c)
  BY <1>1, Zenon DEF LuaAfter, OutsideComment
<1>2. CASE FirstCharacter(c)
  <2>1. lua.pc = "first" /\ lua.pc # "code"
    BY <1>2 DEF FirstCharacter
  <2>2. QED
    BY <1>0, <1>2, <2>1, Zenon DEF LuaAfter, FirstCharacter
<1>3. CASE LineComment(c)
  <2>1. lua.pc = "line" /\ lua.pc # "code" /\ lua.pc # "first"
    BY <1>3 DEF LineComment
  <2>2. QED
    BY <1>0, <1>3, <2>1, Zenon DEF LuaAfter, LineComment
<1>4. CASE OpenLongComment(c)
  <2>1. lua.pc = "opening" /\ lua.pc # "code" /\ lua.pc # "first" /\ lua.pc # "line"
    BY <1>4 DEF OpenLongComment
  <2>2. QED
    <3>1. CASE c = "="
      <4>1. Separator(c, "[") \in {0, 1}
        BY <3>1 DEF Separator
      <4>2. lua' = [lua EXCEPT !.count = @ + 1]
        BY <1>4, <3>1, <4>1 DEF OpenLongComment
      <4>3. QED
        BY <2>1, <3>1, <4>2, Zenon DEF LuaAfter
    <3>2. CASE c # "=" /\ Separator(c, "[") >= 2
      <4>1. lua' = [lua EXCEPT !.pc = "long", !.sep = Separator(c, "[")]
        BY <1>4, <3>2 DEF OpenLongComment
      <4>2. QED
        BY <1>0, <2>1, <3>2, <4>1, Zenon DEF LuaAfter
    <3>3. CASE c # "=" /\ ~(Separator(c, "[") >= 2)
      <4>1. lua' = ToEndOfLine(c)
        BY <1>4, <3>3 DEF OpenLongComment
      <4>2. QED
        BY <1>0, <2>1, <3>3, <4>1, Zenon DEF LuaAfter
    <3>4. QED
      BY <3>1, <3>2, <3>3
<1>5. CASE ReadLongString(c)
  <2>1. lua.pc = "long" /\ lua.pc # "code" /\ lua.pc # "first" /\ lua.pc # "line" /\ lua.pc # "opening"
    BY <1>5 DEF ReadLongString
  <2>2. QED
    BY <1>0, <1>5, <2>1, Zenon DEF LuaAfter, ReadLongString
<1>6. CASE CloseLongComment(c)
  <2>1. /\ lua.pc = "closing" /\ lua.pc # "code" /\ lua.pc # "first" /\ lua.pc # "line"
        /\ lua.pc # "opening" /\ lua.pc # "long"
    BY <1>6 DEF CloseLongComment
  <2>2. QED
    BY <1>0, <1>6, <2>1, Zenon DEF LuaAfter, CloseLongComment
<1>7. QED
  BY <1>1, <1>2, <1>3, <1>4, <1>5, <1>6 DEF LuaStep, HandleComment

---------------------------------------------------------------------------
(* What the lexer of the grammar will do depends on `View`.                 *)
View ==
    CASE lexer = "js" -> js [] lexer = "antlr" -> ad [] lexer = "mysql" -> <<my, mySeen>>
      [] lexer = "pg" -> PgView [] OTHER -> lua

After(l, v, c) ==
    CASE l = "js" -> JsAfter(v, c) [] l = "antlr" -> AdAfter(v, c)
      [] l = "mysql" -> MyAfter(v[1], v[2], c)
      [] l = "pg" -> PgAfter(v, c) [] OTHER -> LuaAfter(v, c)

Fresh(l) ==
    CASE l = "js" -> NewJs [] l = "antlr" -> NewAd
      [] l = "mysql" -> << [pending |-> <<>>, dot |-> FALSE, comment |-> FALSE, space |-> FALSE,
                            fault |-> "none", out |-> NoToken], NoMySeen >>
      [] l = "pg" -> [quoting |-> FALSE, fault |-> "none", out |-> "none", tag |-> "none"]
      [] OTHER -> NewLua

OutOf(l, v) == IF l = "mysql" THEN v[1].out.type ELSE v.out

RaisedIn(l, v) == (l = "mysql" /\ v[1].fault # "none") \/ (l = "pg" /\ v.fault # "none")

(* What holds of the lexers in both passes: but for the tags below those of *)
(* the input, nothing of a listed input is left when it is over.            *)
Settled ==
    /\ MyIInv /\ TagsOK
    /\ lexer \in {"js", "php", "antlr", "mysql", "pg", "lua"}
    /\ lexer # "mysql" => my.fault = "none"
    /\ lexer # "pg" => pg.fault = "none"
    /\ showTokens \in BOOLEAN
    /\ showTokens => lexer \in Listed /\ my.space = FALSE

LEMMA SettledInit == Init => Settled
<1> SUFFICES ASSUME Init PROVE Settled
  OBVIOUS
<1>1. MyIInv /\ TagsOK
  BY MyStarts, PgStarts
<1>2. /\ lexer \in Lexers /\ showTokens \in BOOLEAN /\ (showTokens => lexer \in Listed)
      /\ my.fault = "none" /\ pg.fault = "none" /\ my.space = FALSE
  BY DEF Init, MyInit, PgInit
<1>3. QED
  BY <1>1, <1>2, LexersAssumption DEF Settled

LEMMA SettledStep == ASSUME Settled, [Next]_<<driver, lexerVars>> PROVE Settled'
<1>1. MyIInv' /\ TagsOK'
  BY OneLexerMoves, MyMoved, PgMoved DEF Settled
<1>2. lexer' = lexer /\ showTokens' = showTokens
  BY DEF Next, ResetLexer, Configure, Finished, ListToken, ParseToken, driver
<1>3. my \in [pending : Seq(MyToken), dot : {FALSE}, comment : BOOLEAN, space : BOOLEAN,
              fault : {"none", "ValueError"}, out : MyToken]
  BY DEF Settled, MyIInv
<1>4. ASSUME lexer # "mysql" PROVE my' = my
  <2>1. ASSUME NEW c, Lex(c) PROVE my' = my
    BY <1>4, <2>1 DEF Lex, JsMoves, PhpMoves, AdMoves, MyMoves, PgMoves, LuaMoves, myVars
  <2>2. ASSUME LexerReset PROVE my' = my
    BY <1>4, <2>2 DEF LexerReset, JsMoves, PhpMoves, AdMoves, MyMoves, PgMoves, LuaMoves, myVars
  <2>3. QED
    BY <1>4, <2>1, <2>2 DEF Next, ResetLexer, Configure, Finished, ListToken, ParseToken, driver,
       lexerVars, JsMoves, MyMoves, myVars
<1>5. ASSUME lexer # "pg" PROVE pg' = pg
  <2>1. ASSUME NEW c, Lex(c) PROVE pg' = pg
    BY <1>5, <2>1 DEF Lex, JsMoves, PhpMoves, AdMoves, MyMoves, PgMoves, LuaMoves, pgVars
  <2>2. ASSUME LexerReset PROVE pg' = pg
    BY <1>5, <2>2 DEF LexerReset, JsMoves, PhpMoves, AdMoves, MyMoves, PgMoves, LuaMoves, pgVars
  <2>3. QED
    BY <1>5, <2>1, <2>2 DEF Next, ResetLexer, Configure, Finished, ListToken, ParseToken, driver,
       lexerVars, JsMoves, MyMoves, pgVars
<1>6. ASSUME showTokens PROVE my'.space = my.space
  <2>1. ASSUME NEW c, MyStep(c) PROVE my'.space = my.space
    BY <1>3, <2>1 DEF MyStep, Pending, MyMatch, NameAtTheEnd
  <2>2. ASSUME MyReset PROVE my'.space = my.space
    BY <1>3, <2>2 DEF MyReset
  <2>3. ~Configure
    BY <1>6 DEF Configure
  <2>4. CASE \E c \in AllItems : Lex(c)
    BY <2>1, <2>4 DEF Lex, JsMoves, PhpMoves, AdMoves, MyMoves, PgMoves, LuaMoves, myVars
  <2>5. CASE LexerReset
    BY <2>2, <2>5 DEF LexerReset, JsMoves, PhpMoves, AdMoves, MyMoves, PgMoves, LuaMoves, myVars
  <2>6. QED
    BY <2>3, <2>4, <2>5 DEF Next, ResetLexer, Finished, ListToken, ParseToken, driver,
       lexerVars, myVars
<1>7. QED
  BY <1>1, <1>2, <1>4, <1>5, <1>6 DEF Settled

(* The token just returned and an exception can be seen in it.              *)
LEMMA ViewShows ==
    ASSUME Settled, lexer # "php"
    PROVE  Out = OutOf(lexer, View) /\ (Raised <=> RaisedIn(lexer, View))
BY DEF Settled, Out, OutOf, View, PgView, Raised, RaisedIn

LEMMA ViewShowsNext ==
    ASSUME Settled', lexer' # "php"
    PROVE  Out' = OutOf(lexer', View') /\ (Raised' <=> RaisedIn(lexer', View'))
BY DEF Settled, Out, OutOf, View, PgView, Raised, RaisedIn

LEMMA LexDetermined ==
    ASSUME Settled, lexer # "php", lexer' = lexer, NEW c, Lex(c)
    PROVE  View' = After(lexer, View, c) /\ OutOf(lexer, View) # "EOF"
<1>1. CASE lexer = "js"
  <2>1. JsStep(c)
    BY <1>1 DEF Lex, JsMoves, PhpMoves, AdMoves, MyMoves, PgMoves, LuaMoves
  <2>2. js' = JsAfter(js, c) /\ js.out # "EOF"
    BY <2>1, JsDetermined DEF JsStep
  <2>3. QED
    BY <1>1, <2>2 DEF View, After, OutOf
<1>2. CASE lexer = "antlr"
  <2>1. AdStep(c)
    BY <1>2 DEF Lex, JsMoves, PhpMoves, AdMoves, MyMoves, PgMoves, LuaMoves
  <2>2. ad' = AdAfter(ad, c) /\ ad.out # "EOF"
    BY <2>1, AdDetermined DEF AdStep
  <2>3. QED
    BY <1>2, <2>2 DEF View, After, OutOf
<1>3. CASE lexer = "mysql"
  <2>1. MyStep(c)
    BY <1>3 DEF Lex, JsMoves, PhpMoves, AdMoves, MyMoves, PgMoves, LuaMoves
  <2>2. <<my', mySeen'>> = MyAfter(my, mySeen, c) /\ my.out.type # "EOF"
    BY <2>1, MyDetermined DEF MyStep, Settled
  <2>3. QED
    BY <1>3, <2>2 DEF View, After, OutOf
<1>4. CASE lexer = "pg"
  <2>1. PgStep(c)
    BY <1>4 DEF Lex, JsMoves, PhpMoves, AdMoves, MyMoves, PgMoves, LuaMoves
  <2>2. PgView' = PgAfter(PgView, c) /\ pg.out # "EOF"
    BY <2>1, PgDetermined DEF PgStep, Settled
  <2>3. PgView.out = pg.out
    BY DEF PgView
  <2>4. QED
    BY <1>4, <2>2, <2>3 DEF View, After, OutOf
<1>5. CASE lexer = "lua"
  <2>1. LuaStep(c)
    BY <1>5 DEF Lex, JsMoves, PhpMoves, AdMoves, MyMoves, PgMoves, LuaMoves
  <2>2. lua' = LuaAfter(lua, c) /\ lua.out # "EOF"
    BY <2>1, LuaDetermined DEF LuaStep
  <2>3. QED
    BY <1>5, <2>2 DEF View, After, OutOf
<1>6. QED
  BY <1>1, <1>2, <1>3, <1>4, <1>5 DEF Settled

(* lexer.reset(): the second pass begins where the first began.             *)
LEMMA ResetRefreshes ==
    ASSUME Settled, lexer # "php", lexer' = lexer, showTokens, LexerReset, Out = "EOF", ~Raised
    PROVE  View' = Fresh(lexer)
<1>1. CASE lexer = "js"
  BY <1>1 DEF LexerReset, JsMoves, PhpMoves, AdMoves, MyMoves, PgMoves, LuaMoves, JsReset, View, Fresh
<1>2. CASE lexer = "antlr"
  BY <1>2 DEF LexerReset, JsMoves, PhpMoves, AdMoves, MyMoves, PgMoves, LuaMoves, AdReset, View, Fresh
<1>3. CASE lexer = "mysql"
  <2>1. MyReset
    BY <1>3 DEF LexerReset, JsMoves, PhpMoves, AdMoves, MyMoves, PgMoves, LuaMoves
  <2>2. /\ my \in [pending : Seq(MyToken), dot : {FALSE}, comment : BOOLEAN, space : BOOLEAN,
                   fault : {"none", "ValueError"}, out : MyToken]
        /\ my.space = FALSE /\ my.fault = "none" /\ my.out.type = "EOF"
        /\ my.out.type = "EOF" => my.pending = <<>>
    BY <1>3 DEF Settled, MyIInv, TokensTile, Raised, Out
  <2>3. /\ my' = [pending |-> <<>>, dot |-> FALSE, comment |-> FALSE, space |-> FALSE,
                  fault |-> "none", out |-> NoToken]
        /\ mySeen' = NoMySeen
    BY <2>1, <2>2 DEF MyReset
  <2>4. QED
    BY <1>3, <2>3 DEF View, Fresh
<1>4. CASE lexer = "pg"
  <2>1. PgReset
    BY <1>4 DEF LexerReset, JsMoves, PhpMoves, AdMoves, MyMoves, PgMoves, LuaMoves
  <2>2. /\ pg \in [tags : Seq(PgTags), quoting : BOOLEAN, fault : {"none", "NameError"},
               out : PgItems \union {"none", "BeginDollarString", "EndDollarString", "DollarText"}]
        /\ pg.fault = "none"
    BY <1>4 DEF Settled, TagsOK, Raised
  <2>3. /\ pg' = [tags |-> pg.tags, quoting |-> FALSE, fault |-> "none", out |-> "none"]
        /\ pgSeen' = "none"
    BY <2>1, <2>2 DEF PgReset
  <2>4. QED
    BY <1>4, <2>3 DEF View, PgView, Fresh
<1>5. CASE lexer = "lua"
  BY <1>5 DEF LexerReset, JsMoves, PhpMoves, AdMoves, MyMoves, PgMoves, LuaMoves, LuaReset, View, Fresh
<1>6. QED
  BY <1>1, <1>2, <1>3, <1>4, <1>5 DEF Settled

---------------------------------------------------------------------------
(* `h` are the states a new lexer goes through on `items`, which make it    *)
(* return `tokens`, EOF if at all as the last.                              *)
Listing(h, l, items, tokens, S) ==
    /\ items \in Seq(AllItems) /\ tokens \in Seq(S) /\ Len(tokens) = Len(items)
    /\ h[0] = Fresh(l)
    /\ \A i \in 1..Len(items) :
          /\ h[i] = After(l, h[i - 1], items[i])
          /\ tokens[i] = OutOf(l, h[i])
          /\ OutOf(l, h[i - 1]) # "EOF"

Quiet(h, l, m) == \A i \in 0..m : ~RaisedIn(l, h[i])

(* The second pass has come as far in them as it has returned tokens.       *)
PassesWith(h, S) ==
    /\ Listing(h, lexer, input, listed, S)
    /\ pass = "list" =>
         n = Len(input) /\ View = h[n] /\ Quiet(h, lexer, n) /\ parsed = <<>>
    /\ pass = "parse" =>
         /\ n \in 0..Len(input) /\ View = h[n] /\ Quiet(h, lexer, Len(input))
         /\ OutOf(lexer, h[Len(input)]) = "EOF" /\ OutOf(lexer, h[n]) # "EOF"
         /\ parsed \in Seq(S) /\ Len(parsed) = n /\ \A i \in 1..n : parsed[i] = listed[i]
    /\ pass = "done" => parsed = listed
    /\ pass = "crashed" => parsed = <<>>
    /\ pass \in {"list", "parse", "done", "crashed"}

Passes == showTokens => \E h, S : PassesWith(h, S)

LEMMA ListingGrows ==
    ASSUME NEW h, NEW l, NEW items, NEW tokens, NEW S, Listing(h, l, items, tokens, S),
           NEW c \in AllItems, NEW w, w = After(l, h[Len(items)], c),
           OutOf(l, h[Len(items)]) # "EOF"
    PROVE  \E g, T : /\ Listing(g, l, Append(items, c), Append(tokens, OutOf(l, w)), T)
                     /\ Len(Append(items, c)) = Len(items) + 1 /\ g[Len(items) + 1] = w
                     /\ \A i \in 0..Len(items) : g[i] = h[i]
<1> DEFINE len == Len(items)
           o == OutOf(l, w)
           g == [i \in 0..(len + 1) |-> IF i = len + 1 THEN w ELSE h[i]]
           T == S \union {o}
<1>1. /\ items \in Seq(AllItems) /\ tokens \in Seq(S) /\ Len(tokens) = len /\ len \in Nat
      /\ h[0] = Fresh(l)
      /\ \A i \in 1..len : /\ h[i] = After(l, h[i - 1], items[i])
                           /\ tokens[i] = OutOf(l, h[i])
                           /\ OutOf(l, h[i - 1]) # "EOF"
  BY LenProperties DEF Listing
<1>2. tokens \in Seq(T) /\ o \in T
  <2>1. \A i \in 1..Len(tokens) : tokens[i] \in T
    BY <1>1
  <2>2. QED
    BY <1>1, <2>1, SeqOfAll
<1>3. /\ Append(items, c) \in Seq(AllItems) /\ Len(Append(items, c)) = len + 1
      /\ Append(items, c)[len + 1] = c /\ \A i \in 1..len : Append(items, c)[i] = items[i]
  BY <1>1, AppendLast
<1>4. /\ Append(tokens, o) \in Seq(T) /\ Len(Append(tokens, o)) = len + 1
      /\ Append(tokens, o)[len + 1] = o /\ \A i \in 1..len : Append(tokens, o)[i] = tokens[i]
  BY <1>1, <1>2, AppendLast
<1>5. g[len + 1] = w /\ \A i \in 0..len : g[i] = h[i]
  BY <1>1
<1> HIDE DEF g, T, o, len
<1>6. ASSUME NEW i \in 1..(len + 1)
      PROVE  /\ g[i] = After(l, g[i - 1], Append(items, c)[i])
             /\ Append(tokens, o)[i] = OutOf(l, g[i])
             /\ OutOf(l, g[i - 1]) # "EOF"
  <2>1. CASE i = len + 1
    <3>1. i - 1 = len /\ len \in 0..len
      BY <1>1, <2>1
    <3>2. g[i - 1] = h[len] /\ g[i] = w
      BY <1>5, <2>1, <3>1
    <3>3. QED
      BY <1>3, <1>4, <2>1, <3>2 DEF o, len
  <2>2. CASE i \in 1..len
    <3>1. i \in 0..len /\ i - 1 \in 0..len
      BY <1>1, <2>2
    <3>2. g[i] = h[i] /\ g[i - 1] = h[i - 1]
      BY <1>5, <3>1
    <3>3. QED
      BY <1>1, <1>3, <1>4, <2>2, <3>2
  <2>3. i = len + 1 \/ i \in 1..len
    BY <1>1
  <2>4. QED
    BY <2>1, <2>2, <2>3
<1>7. Listing(g, l, Append(items, c), Append(tokens, o), T)
  <2>1. 0 \in 0..len
    BY <1>1
  <2>2. QED
    BY <1>1, <1>3, <1>4, <1>5, <1>6, <2>1 DEF Listing
<1>8. QED
  BY <1>3, <1>5, <1>7 DEF o, len

(* ListToken: the first pass goes on.                                       *)
LEMMA ListPasses ==
    ASSUME Settled, Settled', "php" \notin Listed, showTokens,
           NEW h, NEW S, PassesWith(h, S), NEW c \in AllItems, ListToken(c)
    PROVE  Passes'
<1>1. /\ lexer' = lexer /\ showTokens' = showTokens /\ parsed' = parsed /\ lexer # "php"
      /\ pass = "list" /\ Out # "EOF" /\ Lex(c) /\ n' = n + 1 /\ input' = Append(input, c)
      /\ listed' = Append(listed, Out') /\ pass' = PassAfter("list")
  BY DEF ListToken, Settled
<1>2. /\ Listing(h, lexer, input, listed, S) /\ Len(input) \in Nat
      /\ n = Len(input) /\ View = h[n] /\ Quiet(h, lexer, n) /\ parsed = <<>>
  BY <1>1, LenProperties DEF PassesWith, Listing
<1>3. View' = After(lexer, h[n], c) /\ OutOf(lexer, h[n]) # "EOF"
  BY <1>1, <1>2, LexDetermined
<1>4. Out' = OutOf(lexer, View') /\ (Raised' <=> RaisedIn(lexer, View'))
  BY <1>1, ViewShowsNext
<1>5. PICK g, T : /\ Listing(g, lexer, Append(input, c), Append(listed, OutOf(lexer, View')), T)
                  /\ Len(Append(input, c)) = n + 1 /\ g[n + 1] = View'
                  /\ \A i \in 0..n : g[i] = h[i]
  BY <1>2, <1>3, ListingGrows
<1>6. Listing(g, lexer, input, listed, T)' /\ Len(input') = n' /\ n' = n + 1
  BY <1>1, <1>4, <1>5
<1>7. CASE Raised'
  <2>1. pass' = "crashed"
    BY <1>1, <1>7 DEF PassAfter
  <2>2. PassesWith(g, T)'
    BY <1>1, <1>2, <1>6, <2>1 DEF PassesWith
  <2>3. QED
    BY <2>2 DEF Passes
<1>8. CASE ~Raised'
  <2>1. pass' = "list"
    BY <1>1, <1>8 DEF PassAfter
  <2>2. Quiet(g, lexer, n + 1)
    <3> SUFFICES ASSUME NEW i \in 0..(n + 1) PROVE ~RaisedIn(lexer, g[i])
      BY DEF Quiet
    <3>1. CASE i = n + 1
      BY <1>4, <1>5, <1>8, <3>1
    <3>2. CASE i \in 0..n
      BY <1>2, <1>5, <3>2 DEF Quiet
    <3>3. QED
      BY <1>2, <3>1, <3>2
  <2>3. PassesWith(g, T)'
    BY <1>1, <1>2, <1>5, <1>6, <2>1, <2>2 DEF PassesWith
  <2>4. QED
    BY <2>3 DEF Passes
<1>9. QED
  BY <1>7, <1>8

(* ResetLexer: the second pass begins.                                      *)
LEMMA ResetPasses ==
    ASSUME Settled, "php" \notin Listed, showTokens,
           NEW h, NEW S, PassesWith(h, S), ResetLexer
    PROVE  Passes'
<1>1. /\ lexer' = lexer /\ showTokens' = showTokens /\ parsed' = parsed /\ lexer # "php"
      /\ pass = "list" /\ Out = "EOF" /\ LexerReset /\ pass' = "parse" /\ n' = 0
      /\ input' = input /\ listed' = listed
  BY DEF ResetLexer, Settled
<1>2. /\ Listing(h, lexer, input, listed, S) /\ Len(input) \in Nat /\ h[0] = Fresh(lexer)
      /\ n = Len(input) /\ View = h[n] /\ Quiet(h, lexer, n) /\ parsed = <<>>
  BY <1>1, LenProperties DEF PassesWith, Listing
<1>3. OutOf(lexer, h[n]) = "EOF" /\ ~Raised
  <2>1. n \in 0..n
    BY <1>2
  <2>2. QED
    BY <1>1, <1>2, <2>1, ViewShows DEF Quiet
<1>4. View' = h[0]
  BY <1>1, <1>2, <1>3, ResetRefreshes
<1>5. OutOf(lexer, Fresh(lexer)) # "EOF"
  BY DEF OutOf, Fresh, NewJs, NewAd, NewLua, NoToken
<1>6. PassesWith(h, S)'
  <2>1. <<>> \in Seq(S) /\ Len(<<>>) = 0 /\ \A i \in 1..0 : parsed'[i] = listed'[i]
    BY EmptySeq
  <2>2. 0 \in 0..Len(input)
    BY <1>2
  <2>3. QED
    BY <1>1, <1>2, <1>3, <1>4, <1>5, <2>1, <2>2 DEF PassesWith
<1>7. QED
  BY <1>6 DEF Passes

(* ParseToken: the second pass goes on as the first did.                    *)
LEMMA ParsePasses ==
    ASSUME Settled, Settled', "php" \notin Listed, showTokens,
           NEW h, NEW S, PassesWith(h, S), NEW c \in AllItems, ParseToken(c)
    PROVE  Passes'
<1>1. /\ lexer' = lexer /\ showTokens' = showTokens /\ input' = input /\ listed' = listed
      /\ lexer # "php" /\ pass = "parse" /\ Lex(c) /\ n' = n + 1 /\ c = input[n + 1]
      /\ parsed' = Append(parsed, Out') /\ pass' = PassAfter("done")
  BY DEF ParseToken, Settled
<1>2. /\ Listing(h, lexer, input, listed, S) /\ Len(input) \in Nat
      /\ n \in 0..Len(input) /\ View = h[n] /\ Quiet(h, lexer, Len(input))
      /\ OutOf(lexer, h[Len(input)]) = "EOF" /\ OutOf(lexer, h[n]) # "EOF"
      /\ parsed \in Seq(S) /\ Len(parsed) = n /\ \A i \in 1..n : parsed[i] = listed[i]
  BY <1>1, LenProperties DEF PassesWith, Listing
<1>3. n + 1 \in 1..Len(input) /\ (n + 1) - 1 = n
  BY <1>2
<1>4. /\ listed \in Seq(S) /\ Len(listed) = Len(input)
      /\ h[n + 1] = After(lexer, h[n], input[n + 1]) /\ listed[n + 1] = OutOf(lexer, h[n + 1])
  BY <1>2, <1>3 DEF Listing
<1>5. View' = h[n + 1]
  BY <1>1, <1>2, <1>4, LexDetermined
<1>6. Out' = listed[n + 1] /\ ~Raised'
  <2>1. n + 1 \in 0..Len(input)
    BY <1>3
  <2>2. QED
    BY <1>1, <1>2, <1>4, <1>5, <2>1, ViewShowsNext DEF Quiet
<1>7. /\ parsed' \in Seq(S) /\ Len(parsed') = n + 1
      /\ \A i \in 1..(n + 1) : parsed'[i] = listed[i]
  <2>1. listed[n + 1] \in S
    BY <1>3, <1>4, ElementOfSeq
  <2>2. /\ parsed' \in Seq(S) /\ Len(parsed') = n + 1 /\ parsed'[n + 1] = listed[n + 1]
        /\ \A i \in 1..n : parsed'[i] = parsed[i]
    BY <1>1, <1>2, <1>6, <2>1, AppendLast
  <2>3. \A i \in 1..(n + 1) : i \in 1..n \/ i = n + 1
    BY <1>2
  <2>4. QED
    BY <1>2, <2>2, <2>3
<1>8. CASE Out' = "EOF"
  <2>1. pass' = "done"
    BY <1>1, <1>6, <1>8 DEF PassAfter
  <2>2. n + 1 = Len(input)
    <3> SUFFICES ASSUME n + 1 # Len(input) PROVE FALSE
      OBVIOUS
    <3>1. n + 2 \in 1..Len(input) /\ (n + 2) - 1 = n + 1
      BY <1>2, <1>3
    <3>2. OutOf(lexer, h[n + 1]) # "EOF"
      BY <1>2, <3>1 DEF Listing
    <3>3. QED
      BY <1>4, <1>6, <1>8, <3>2
  <2>3. parsed' = listed
    BY <1>4, <1>7, <2>2, SeqEqual
  <2>4. PassesWith(h, S)'
    BY <1>1, <1>2, <2>1, <2>3 DEF PassesWith
  <2>5. QED
    BY <2>4 DEF Passes
<1>9. CASE Out' # "EOF"
  <2>1. pass' = "parse"
    BY <1>1, <1>6, <1>9 DEF PassAfter
  <2>2. n' \in 0..Len(input) /\ OutOf(lexer, h[n']) # "EOF"
    BY <1>1, <1>3, <1>4, <1>6, <1>9
  <2>3. PassesWith(h, S)'
    BY <1>1, <1>2, <1>5, <1>7, <2>1, <2>2 DEF PassesWith
  <2>4. QED
    BY <2>3 DEF Passes
<1>10. QED
  BY <1>8, <1>9

LEMMA PassesInit == Init => Passes
<1> SUFFICES ASSUME Init, showTokens PROVE \E h, S : PassesWith(h, S)
  BY DEF Passes
<1> DEFINE h == [i \in {0} |-> Fresh(lexer)]
<1>1. /\ pass = "list" /\ n = 0 /\ input = <<>> /\ listed = <<>> /\ parsed = <<>>
      /\ JsInit /\ PhpInit /\ AdInit /\ MyInit /\ PgInit /\ LuaInit
      /\ lexer \in {"js", "antlr", "mysql", "pg", "lua", "php"}
  BY LexersAssumption DEF Init
<1>2. lexer # "php" => View = Fresh(lexer)
  BY <1>1 DEF View, Fresh, JsInit, AdInit, MyInit, PgInit, PgView, LuaInit
<1>3. h[0] = Fresh(lexer) /\ <<>> \in Seq({}) /\ <<>> \in Seq(AllItems) /\ Len(<<>>) = 0
  BY EmptySeq
<1>4. ~RaisedIn(lexer, Fresh(lexer))
  BY DEF RaisedIn, Fresh
<1>5. Listing(h, lexer, input, listed, {})
  BY <1>1, <1>3 DEF Listing
<1>6. QED
  BY <1>1, <1>2, <1>3, <1>4, <1>5 DEF PassesWith, Quiet

LEMMA PassesStep ==
    ASSUME Settled, Settled', "php" \notin Listed, Passes, [Next]_<<driver, lexerVars>>
    PROVE  Passes'
<1>1. ASSUME ~showTokens PROVE Passes'
  BY <1>1 DEF Passes, Next, ResetLexer, Configure, Finished, ListToken, ParseToken, driver
<1>2. ASSUME showTokens PROVE Passes'
  <2>1. PICK h, S : PassesWith(h, S)
    BY <1>2 DEF Passes
  <2>2. CASE ResetLexer
    BY <1>2, <2>1, <2>2, ResetPasses
  <2>3. CASE \E c \in AllItems : ListToken(c) \/ ParseToken(c)
    BY <1>2, <2>1, <2>3, ListPasses, ParsePasses
  <2>4. CASE Configure
    BY <1>2, <2>4 DEF Configure
  <2>5. CASE Finished \/ UNCHANGED <<driver, lexerVars>>
    <3>1. /\ UNCHANGED <<lexer, showTokens, pass, n, input, listed, parsed>>
          /\ js' = js /\ ad' = ad /\ my' = my /\ mySeen' = mySeen /\ pg' = pg
          /\ pgSeen' = pgSeen /\ lua' = lua
      BY <2>5 DEF Finished, driver, lexerVars, jsVars, adVars, myVars, pgVars, luaVars
    <3>2. View' = View
      BY <3>1 DEF View, PgView
    <3>3. PassesWith(h, S)'
      BY <2>1, <3>1, <3>2 DEF PassesWith
    <3>4. QED
      BY <3>3 DEF Passes
  <2>6. QED
    BY <2>2, <2>3, <2>4, <2>5 DEF Next
<1>3. QED
  BY <1>1, <1>2

LEMMA PassesSame ==
    ASSUME Passes
    PROVE  SamePasses
<1> SUFFICES ASSUME showTokens
             PROVE  /\ IsPrefix(parsed, listed)
                    /\ pass = "done" => parsed = listed
                    /\ pass = "crashed" => parsed = <<>>
  BY DEF SamePasses
<1>1. PICK h, S : PassesWith(h, S)
  BY DEF Passes
<1>2. listed \in Seq(S) /\ Len(listed) = Len(input) /\ Len(listed) \in Nat
  BY <1>1, LenProperties DEF PassesWith, Listing
<1>3. CASE pass = "parse"
  <2>1. /\ n \in 0..Len(input) /\ parsed \in Seq(S) /\ Len(parsed) = n
        /\ \A i \in 1..n : parsed[i] = listed[i]
    BY <1>1, <1>3 DEF PassesWith
  <2>2. SubSeq(parsed, 1, n) = SubSeq(listed, 1, n)
    BY <1>2, <2>1
  <2>3. QED
    BY <1>2, <1>3, <2>1, <2>2 DEF IsPrefix
<1>4. CASE pass \in {"list", "crashed"}
  <2>1. parsed = <<>> /\ Len(<<>>) = 0
    BY <1>1, <1>4 DEF PassesWith
  <2>2. SubSeq(<<>>, 1, 0) = SubSeq(listed, 1, 0)
    BY <1>2
  <2>3. QED
    BY <1>2, <1>4, <2>1, <2>2 DEF IsPrefix
<1>5. CASE pass = "done"
  <2>1. parsed = listed
    BY <1>1, <1>5 DEF PassesWith
  <2>2. QED
    BY <1>2, <1>5, <2>1 DEF IsPrefix
<1>6. QED
  BY <1>1, <1>3, <1>4, <1>5 DEF PassesWith

(* lexer.reset() in DoParse: for inputs of any length, the parser gets the  *)
(* tokens that were listed, all of them, from every lexer but that of PHP,  *)
(* whose flags survive a reset.                                             *)
THEOREM Repeats == ASSUME "php" \notin Listed PROVE Spec => []SamePasses
<1>1. Init => Settled /\ Passes
  BY SettledInit, PassesInit
<1>2. Settled /\ Passes /\ [Next]_<<driver, lexerVars>> => (Settled /\ Passes)'
  BY SettledStep, PassesStep
<1>3. Settled /\ Passes => SamePasses
  BY PassesSame
<1>4. QED
  BY <1>1, <1>2, <1>3, PTL DEF Spec
=============================================================================
