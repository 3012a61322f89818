-------------------------- MODULE ModeLexerProofs ---------------------------
(***************************************************************************)
(* The lexers that keep a path of modes.  LexerAdaptor of the ANTLR grammar *)
(* knows the rule the input is in and the arguments that are open, for      *)
(* grammars of any length and brackets of any depth; the modes of           *)
(* PhpLexerBase stay a path that the grammar means, and its flags agree     *)
(* with it, for pages of any length; JavaScriptLexerBase tells the braces   *)
(* of template expressions from the others however deep they are nested,    *)
(* and keeps the strict mode of every scope.                                *)
(***************************************************************************)
EXTENDS AntlrLexer, PhpLexer, JavaScriptParser, SequenceLemmas

(* The path of modes of the ANTLR lexer, as the stack that it is: as many   *)
(* arguments as there are brackets open, or a character set, whose brackets *)
(* do not count.                                                            *)
AdPathOK ==
    /\ ad.modes # <<>> /\ ad.modes[1] = "DEFAULT"
    /\ \/ /\ Len(ad.modes) = adSeen.open + 1
          /\ \A i \in 2..Len(ad.modes) : ad.modes[i] = "ARGUMENT"
       \/ Len(ad.modes) = 2 /\ ad.modes[2] = "CHARSET"

AdEndOK ==
    ad.out \in {"END_ARGUMENT", "ARGUMENT_CONTENT"} =>
       (ad.out = "END_ARGUMENT" <=> AdMode = "DEFAULT" /\ adSeen.open = 0)

(* The rule type at each place.  Behind an option in a parser rule the type *)
(* is lost, but it is never the one of options outside of options, so that  *)
(* the semicolon of the rule finds the way back.                            *)
AdPlaceOK ==
    /\ adSeen.inner => adSeen.place \in {"lexer", "parser"}
    /\ adSeen.ended => adSeen.place = "parser" /\ (ad.rule = "options" => adSeen.inner)
    /\ CASE adSeen.place = "top"     -> ad.rule = "none"
         [] adSeen.place = "header"  -> ad.rule \in {"none", "lexer", "parser"}
         [] adSeen.place = "options" -> ad.rule \in {"prequel", "none"}
         [] adSeen.place = "option"  -> ad.rule \in {"prequel", "none", "lexer", "parser"}
         [] adSeen.place = "tokens"  -> ad.rule = "prequel"
         [] adSeen.place = "action"  -> ad.rule = "action"
         [] adSeen.place = "lexer"   -> ad.rule = IF adSeen.inner THEN "options" ELSE "lexer"
         [] OTHER                    -> adSeen.ended \/ ad.rule = "parser"

AdIInv == AdTypeOK /\ AdPathOK /\ AdEndOK /\ AdPlaceOK

(* What the parts of the invariant say of the top of the path.              *)
LEMMA AdTop ==
    ASSUME AdTypeOK, AdPathOK
    PROVE  /\ Len(ad.modes) \in Nat \ {0}
           /\ Front(ad.modes) \in Seq(AdModes) /\ Len(Front(ad.modes)) = Len(ad.modes) - 1
           /\ \A i \in 1..(Len(ad.modes) - 1) : Front(ad.modes)[i] = ad.modes[i]
           /\ AdMode = ad.modes[Len(ad.modes)] /\ AdMode \in AdModes
           /\ ad.modes \in Seq(AdModes) /\ adSeen.open \in Nat
           /\ AdMode = "DEFAULT" <=> Len(ad.modes) = 1
           /\ AdMode = "CHARSET" => Len(ad.modes) = 2
           /\ AdMode # "CHARSET" => Len(ad.modes) = adSeen.open + 1
<1>1. ad.modes \in Seq(AdModes) /\ ad.modes # <<>> /\ adSeen.open \in Nat
  BY DEF AdTypeOK, AdPathOK
<1>2. /\ Len(ad.modes) \in Nat \ {0}
      /\ Front(ad.modes) \in Seq(AdModes) /\ Len(Front(ad.modes)) = Len(ad.modes) - 1
      /\ \A i \in 1..(Len(ad.modes) - 1) : Front(ad.modes)[i] = ad.modes[i]
      /\ AdMode = ad.modes[Len(ad.modes)] /\ AdMode \in AdModes
  BY <1>1, FrontLast DEF AdMode
<1>3. /\ AdMode = "DEFAULT" <=> Len(ad.modes) = 1
      /\ AdMode = "CHARSET" => Len(ad.modes) = 2
      /\ AdMode # "CHARSET" => Len(ad.modes) = adSeen.open + 1
  <2>1. CASE /\ Len(ad.modes) = adSeen.open + 1
             /\ \A i \in 2..Len(ad.modes) : ad.modes[i] = "ARGUMENT"
    <3>1. CASE Len(ad.modes) = 1
      BY <2>1, <3>1, <1>2 DEF AdPathOK
    <3>2. CASE Len(ad.modes) # 1
      <4>0. \A n \in Nat \ {0} : n # 1 => n \in 2..n
        OBVIOUS
      <4>1. Len(ad.modes) \in 2..Len(ad.modes)
        BY <4>0, <3>2, <1>2
      <4>2. AdMode = "ARGUMENT"
        BY <4>1, <2>1, <1>2
      <4>3. QED
        BY <4>2, <2>1, <3>2
    <3>3. QED
      BY <3>1, <3>2
  <2>2. CASE Len(ad.modes) = 2 /\ ad.modes[2] = "CHARSET"
    BY <2>2, <1>2
  <2>3. QED
    BY <1>1, <2>1, <2>2 DEF AdPathOK
<1>4. QED
  BY <1>1, <1>2, <1>3

---------------------------------------------------------------------------
(* The history variable.                                                    *)

LEMMA SeeType ==
    ASSUME AdTypeOK, AdPathOK, ad.out # "EOF", NEW c \in AdItems, InGrammar(c), See(c)
    PROVE  /\ adSeen'.place = PlaceAfter(c) /\ adSeen'.place \in Places
           /\ adSeen'.inner = (IF AdMode # "DEFAULT" THEN adSeen.inner
                               ELSE (adSeen.place \in {"lexer", "parser"} /\ c = "OPTIONS")
                                    \/ (adSeen.inner /\ c # "RBRACE"))
           /\ adSeen'.ended = (IF AdMode # "DEFAULT" THEN adSeen.ended
                               ELSE (adSeen.inner /\ adSeen.place = "parser" /\ c = "SEMI")
                                    \/ (adSeen.ended /\ (adSeen.inner \/ c # "SEMI")))
           /\ adSeen'.open = (IF AdMode = "CHARSET" THEN 0
                              ELSE CASE c = "[" -> adSeen.open + 1 [] c = "]" -> adSeen.open - 1
                                     [] OTHER -> adSeen.open)
           /\ adSeen'.open \in Nat
           /\ adSeen' \in [place : Places, inner : BOOLEAN, open : Nat, ended : BOOLEAN]
<1>1. /\ adSeen.place \in Places /\ adSeen.inner \in BOOLEAN /\ adSeen.open \in Nat
      /\ adSeen.ended \in BOOLEAN
  BY DEF AdTypeOK
<1>2. PlaceAfter(c) \in Places
  BY <1>1 DEF PlaceAfter, Places
<1>3. c = "]" => AdMode # "DEFAULT"
  BY DEF InGrammar
<1>4. c = "]" /\ AdMode # "CHARSET" => adSeen.open >= 1
  <2>1. SUFFICES ASSUME c = "]", AdMode # "CHARSET"
                 PROVE  adSeen.open >= 1
    OBVIOUS
  <2>2. Len(ad.modes) # 1 /\ Len(ad.modes) = adSeen.open + 1 /\ Len(ad.modes) \in Nat \ {0}
    BY <1>3, <2>1, AdTop
  <2>3. QED
    BY <1>1, <2>2
<1> DEFINE inner == IF AdMode # "DEFAULT" THEN adSeen.inner
                    ELSE (adSeen.place \in {"lexer", "parser"} /\ c = "OPTIONS")
                         \/ (adSeen.inner /\ c # "RBRACE")
           ended == IF AdMode # "DEFAULT" THEN adSeen.ended
                    ELSE (adSeen.inner /\ adSeen.place = "parser" /\ c = "SEMI")
                         \/ (adSeen.ended /\ (adSeen.inner \/ c # "SEMI"))
           open == IF AdMode = "CHARSET" THEN 0
                   ELSE CASE c = "[" -> adSeen.open + 1 [] c = "]" -> adSeen.open - 1
                          [] OTHER -> adSeen.open
<1>5. adSeen' = [place |-> PlaceAfter(c), inner |-> inner, open |-> open, ended |-> ended]
  BY DEF See
<1>6. inner \in BOOLEAN /\ ended \in BOOLEAN
  BY <1>1
<1>7. open \in Nat
  <2>1. CASE AdMode = "CHARSET"
    BY <2>1
  <2>2. CASE AdMode # "CHARSET" /\ c = "["
    BY <2>2, <1>1
  <2>3. CASE AdMode # "CHARSET" /\ c = "]"
    BY <2>3, <1>1, <1>4
  <2>4. CASE AdMode # "CHARSET" /\ c \notin {"[", "]"}
    BY <2>4, <1>1
  <2>5. QED
    BY <2>1, <2>2, <2>3, <2>4
<1> HIDE DEF inner, open, ended
<1>8. /\ adSeen'.place = PlaceAfter(c) /\ adSeen'.inner = inner /\ adSeen'.open = open
      /\ adSeen'.ended = ended
      /\ adSeen' \in [place : Places, inner : BOOLEAN, open : Nat, ended : BOOLEAN]
  BY <1>2, <1>5, <1>6, <1>7
<1>9. QED
  BY <1>2, <1>7, <1>8 DEF inner, open, ended

---------------------------------------------------------------------------
(* The place and the rule type, one lemma for each kind of step.            *)

(* A token of the default mode.                                             *)
LEMMA EmitPlace ==
    ASSUME AdIInv, ad.out # "EOF", NEW c \in AdItems, InGrammar(c), See(c), AdEmit(c)
    PROVE  AdPlaceOK' /\ ad'.rule \in RuleTypes
<1>1. /\ AdMode = "DEFAULT" /\ c # "["
      /\ ad'.rule = RuleAfter(c)
  BY DEF AdEmit, AdIInv, AdTypeOK
<1>2. /\ ad.rule \in RuleTypes /\ adSeen.place \in Places
      /\ adSeen.inner \in BOOLEAN /\ adSeen.ended \in BOOLEAN
  BY DEF AdIInv, AdTypeOK
<1>3. /\ adSeen'.place = PlaceAfter(c)
      /\ adSeen'.inner = ((adSeen.place \in {"lexer", "parser"} /\ c = "OPTIONS")
                            \/ (adSeen.inner /\ c # "RBRACE"))
      /\ adSeen'.ended = ((adSeen.inner /\ adSeen.place = "parser" /\ c = "SEMI")
                            \/ (adSeen.ended /\ (adSeen.inner \/ c # "SEMI")))
  BY <1>1, SeeType DEF AdIInv
<1>p. AdPlaceOK
  BY DEF AdIInv
<1>4. CASE adSeen.inner
  <2>1. /\ c \in {"Id", "id", "text", "SEMI", "RBRACE", "EOF"} /\ PlaceAfter(c) = adSeen.place
    BY <1>1, <1>4 DEF InGrammar, PlaceAfter
  <2>2. QED
    BY <1>1, <1>2, <1>3, <1>p, <1>4, <2>1 DEF AdPlaceOK, RuleAfter, RuleTypes
<1>5. CASE ~adSeen.inner /\ adSeen.place = "top"
  BY <1>1, <1>2, <1>3, <1>p, <1>5 DEF AdPlaceOK, RuleAfter, RuleTypes, InGrammar, PlaceAfter
<1>6. CASE ~adSeen.inner /\ adSeen.place \in {"header", "tokens", "action"}
  BY <1>1, <1>2, <1>3, <1>p, <1>6 DEF AdPlaceOK, RuleAfter, RuleTypes, InGrammar, PlaceAfter
<1>7. CASE ~adSeen.inner /\ adSeen.place \in {"options", "option"}
  BY <1>1, <1>2, <1>3, <1>p, <1>7 DEF AdPlaceOK, RuleAfter, RuleTypes, InGrammar, PlaceAfter
<1>8. CASE ~adSeen.inner /\ adSeen.place = "lexer"
  BY <1>1, <1>2, <1>3, <1>p, <1>8 DEF AdPlaceOK, RuleAfter, RuleTypes, InGrammar, PlaceAfter
<1>9. CASE ~adSeen.inner /\ adSeen.place = "parser"
  BY <1>1, <1>2, <1>3, <1>p, <1>9 DEF AdPlaceOK, RuleAfter, RuleTypes, InGrammar, PlaceAfter
<1>10. QED
  BY <1>2, <1>4, <1>5, <1>6, <1>7, <1>8, <1>9 DEF Places

(* Any other token leaves the rule type as it is.                           *)
LEMMA OtherPlace ==
    ASSUME AdIInv, ad.out # "EOF", NEW c \in AdItems, InGrammar(c), See(c),
           ad'.rule = ad.rule, AdMode # "DEFAULT" \/ c = "["
    PROVE  AdPlaceOK'
<1>1. /\ ad.rule \in RuleTypes /\ adSeen.place \in Places
      /\ adSeen.inner \in BOOLEAN /\ adSeen.ended \in BOOLEAN
  BY DEF AdIInv, AdTypeOK
<1>2. /\ adSeen'.place = adSeen.place /\ adSeen'.inner = adSeen.inner
      /\ adSeen'.ended = adSeen.ended
  <2>1. CASE AdMode # "DEFAULT"
    BY <2>1, SeeType DEF AdIInv, PlaceAfter
  <2>2. CASE AdMode = "DEFAULT"
    <3>1. c = "[" /\ ~adSeen.inner /\ adSeen.place \in {"top", "lexer", "parser"}
      BY <1>1, <2>2 DEF InGrammar, Places
    <3>2. QED
      BY <1>1, <2>2, <3>1, SeeType DEF AdIInv, PlaceAfter
  <2>3. QED
    BY <2>1, <2>2
<1>3. QED
  BY <1>2 DEF AdIInv, AdPlaceOK

---------------------------------------------------------------------------
(* The path and the type of the token, one lemma for each action.           *)

LEMMA AdEmits ==
    ASSUME AdIInv, ad.out # "EOF", NEW c \in AdItems, InGrammar(c), See(c), AdEmit(c)
    PROVE  AdIInv'
<1>1. /\ ad \in [rule : RuleTypes, modes : Seq(AdModes), out : AdTokens]
      /\ AdTypeOK /\ AdPathOK /\ AdMode = "DEFAULT" /\ c # "["
      /\ ad' = [ad EXCEPT !.rule = RuleAfter(c), !.out = c]
  BY DEF AdIInv, AdTypeOK, AdEmit
<1>2. AdPlaceOK' /\ ad'.rule \in RuleTypes
  BY EmitPlace
<1>3. ad'.modes = ad.modes /\ ad'.out = c /\ ad' = [rule |-> ad'.rule, modes |-> ad.modes, out |-> c]
  BY <1>1
<1>4. c \in AdTokens /\ c \notin {"END_ARGUMENT", "ARGUMENT_CONTENT"}
  BY DEF AdItems, AdTokens
<1>5. AdTypeOK'
  BY <1>1, <1>2, <1>3, <1>4, SeeType DEF AdTypeOK
<1>6. c # "]"
  BY <1>1 DEF InGrammar
<1>7. adSeen'.open = adSeen.open
  BY <1>1, <1>6, SeeType
<1>8. AdPathOK'
  BY <1>1, <1>3, <1>7 DEF AdPathOK
<1>9. AdEndOK'
  BY <1>3, <1>4 DEF AdEndOK
<1>10. QED
  BY <1>2, <1>5, <1>8, <1>9 DEF AdIInv

LEMMA AdOpens ==
    ASSUME AdIInv, ad.out # "EOF", NEW c \in AdItems, InGrammar(c), See(c),
           NEW m \in AdModes, NEW o \in AdTokens, o # "END_ARGUMENT",
           c = "[", ad' = [ad EXCEPT !.modes = Append(@, m), !.out = o],
           \/ AdMode = "DEFAULT" /\ m \in {"CHARSET", "ARGUMENT"}
           \/ AdMode = "ARGUMENT" /\ m = "ARGUMENT"
    PROVE  AdIInv'
<1>1. /\ ad \in [rule : RuleTypes, modes : Seq(AdModes), out : AdTokens]
      /\ AdTypeOK /\ AdPathOK
  BY DEF AdIInv, AdTypeOK
<1>2. /\ ad'.rule = ad.rule /\ ad'.out = o /\ ad'.modes = Append(ad.modes, m)
      /\ ad' = [rule |-> ad.rule, modes |-> Append(ad.modes, m), out |-> o]
  BY <1>1
<1> DEFINE n == Len(ad.modes)
<1>3. /\ ad.modes \in Seq(AdModes) /\ n \in Nat \ {0} /\ adSeen.open \in Nat
      /\ AdMode = "DEFAULT" => n = 1
      /\ n = adSeen.open + 1
  BY <1>1, AdTop
<1>4. /\ Append(ad.modes, m) \in Seq(AdModes) /\ Len(Append(ad.modes, m)) = n + 1
      /\ Append(ad.modes, m) # <<>> /\ Last(Append(ad.modes, m)) = m
      /\ \A i \in 1..n : Append(ad.modes, m)[i] = ad.modes[i]
      /\ Append(ad.modes, m)[n + 1] = m
  BY <1>3, AppendLast
<1>5. AdTypeOK'
  BY <1>1, <1>2, <1>4, SeeType DEF AdTypeOK
<1>6. adSeen'.open = adSeen.open + 1
  BY <1>1, SeeType
<1> HIDE DEF n
<1>7. AdPathOK'
  <2>1. ad'.modes # <<>> /\ ad'.modes[1] = "DEFAULT" /\ Len(ad'.modes) = n + 1
    BY <1>1, <1>2, <1>3, <1>4 DEF AdPathOK
  <2>2. CASE m = "CHARSET"
    <3>1. n = 1 /\ ad'.modes[2] = "CHARSET"
      BY <2>2, <1>2, <1>3, <1>4
    <3>2. QED
      BY <2>1, <3>1 DEF AdPathOK
  <2>3. CASE m = "ARGUMENT"
    <3>1. Len(ad'.modes) = adSeen'.open + 1
      BY <2>1, <1>3, <1>6
    <3>2. \A i \in 2..n : ad.modes[i] = "ARGUMENT"
      <4>1. CASE AdMode = "DEFAULT"
        BY <4>1, <1>3
      <4>2. CASE AdMode = "ARGUMENT"
        <5>1. AdMode = ad.modes[n]
          BY <1>1, AdTop DEF n
        <5>2. QED
          BY <4>2, <5>1, <1>1 DEF AdPathOK, n
      <4>3. QED
        BY <4>1, <4>2
    <3>3. ASSUME NEW i \in 2..(n + 1)
          PROVE  ad'.modes[i] = "ARGUMENT"
      <4>1. CASE i = n + 1
        BY <4>1, <2>3, <1>2, <1>4
      <4>2. CASE i # n + 1
        <5>1. i \in 2..n /\ i \in 1..n
          BY <4>2, <1>3
        <5>2. QED
          BY <5>1, <3>2, <1>2, <1>4
      <4>3. QED
        BY <4>1, <4>2
    <3>4. QED
      BY <2>1, <3>1, <3>3 DEF AdPathOK
  <2>4. QED
    BY <2>2, <2>3
<1>8. AdEndOK'
  BY <1>2, <1>4 DEF AdEndOK, AdMode
<1>9. AdPlaceOK'
  BY <1>2, OtherPlace
<1>10. QED
  BY <1>5, <1>7, <1>8, <1>9 DEF AdIInv

LEMMA AdCloses ==
    ASSUME AdIInv, ad.out # "EOF", NEW c \in AdItems, InGrammar(c), See(c),
           HandleEndArgument(c) \/ EndCharSet(c)
    PROVE  AdIInv'
<1> DEFINE o == IF AdMode = "ARGUMENT" THEN EndType(ad.modes) ELSE "LEXER_CHAR_SET"
           n == Len(ad.modes)
<1>1. /\ ad \in [rule : RuleTypes, modes : Seq(AdModes), out : AdTokens]
      /\ AdTypeOK /\ AdPathOK /\ AdMode \in {"ARGUMENT", "CHARSET"} /\ c = "]"
      /\ ad' = [ad EXCEPT !.modes = Front(@), !.out = o]
  BY DEF AdIInv, AdTypeOK, HandleEndArgument, EndCharSet
<1>2. /\ ad'.rule = ad.rule /\ ad'.out = o /\ ad'.modes = Front(ad.modes)
      /\ ad' = [rule |-> ad.rule, modes |-> Front(ad.modes), out |-> o]
  BY <1>1
<1>3. /\ n \in Nat \ {0} /\ adSeen.open \in Nat /\ n # 1
      /\ AdMode = "CHARSET" => n = 2
      /\ AdMode = "ARGUMENT" => n = adSeen.open + 1
      /\ Front(ad.modes) \in Seq(AdModes) /\ Len(Front(ad.modes)) = n - 1
      /\ \A i \in 1..(n - 1) : Front(ad.modes)[i] = ad.modes[i]
  BY <1>1, AdTop
<1>4. /\ adSeen'.open = (IF AdMode = "CHARSET" THEN 0 ELSE adSeen.open - 1)
      /\ adSeen' \in [place : Places, inner : BOOLEAN, open : Nat, ended : BOOLEAN]
  BY <1>1, SeeType
<1>5. o \in AdTokens
  BY DEF AdTokens, EndType
<1>6. AdTypeOK'
  BY <1>1, <1>2, <1>3, <1>4, <1>5 DEF AdTypeOK
<1>7. o = "END_ARGUMENT" <=> AdMode = "ARGUMENT" /\ n <= 2
  BY <1>3 DEF EndType
<1>8. o # "EOF" /\ (o = "ARGUMENT_CONTENT" => AdMode = "ARGUMENT")
  BY DEF EndType
<1> HIDE DEF o, n
<1>9. AdPathOK'
  <2>1. ad'.modes # <<>> /\ ad'.modes[1] = "DEFAULT" /\ Len(ad'.modes) = n - 1
    <3>1. 1 \in 1..(n - 1)
      BY <1>3
    <3>2. Len(Front(ad.modes)) # 0 /\ Front(ad.modes)[1] = ad.modes[1]
      BY <1>3, <3>1
    <3>3. Front(ad.modes) # <<>>
      BY <3>2
    <3>4. QED
      BY <3>2, <3>3, <1>1, <1>2, <1>3 DEF AdPathOK
  <2>2. CASE AdMode = "CHARSET"
    <3>1. Len(ad'.modes) = adSeen'.open + 1 /\ \A i \in 2..Len(ad'.modes) : FALSE
      BY <2>1, <2>2, <1>3, <1>4
    <3>2. QED
      BY <2>1, <3>1 DEF AdPathOK
  <2>3. CASE AdMode = "ARGUMENT"
    <3>1. Len(ad'.modes) = adSeen'.open + 1
      BY <2>1, <2>3, <1>3, <1>4
    <3>2. \A i \in 2..n : ad.modes[i] = "ARGUMENT"
      <4>1. AdMode = ad.modes[n]
        BY <1>1, AdTop DEF n
      <4>2. ~(n = 2 /\ ad.modes[2] = "CHARSET")
        BY <2>3, <4>1
      <4>3. QED
        BY <4>2, <1>1 DEF AdPathOK, n
    <3>3. \A i \in 2..(n - 1) : i \in 1..(n - 1) /\ i \in 2..n
      BY <1>3
    <3>4. \A i \in 2..(n - 1) : ad'.modes[i] = "ARGUMENT"
      BY <3>2, <3>3, <1>2, <1>3
    <3>5. QED
      BY <2>1, <3>1, <3>4 DEF AdPathOK
  <2>4. QED
    BY <1>1, <2>2, <2>3
<1>10. AdEndOK'
  <2>1. SUFFICES ASSUME o \in {"END_ARGUMENT", "ARGUMENT_CONTENT"}
                 PROVE  o = "END_ARGUMENT" <=> AdMode' = "DEFAULT" /\ adSeen'.open = 0
    BY <1>2 DEF AdEndOK
  <2>2. AdMode = "ARGUMENT"
    BY <2>1, <1>7, <1>8
  <2>3. AdMode' = "DEFAULT" <=> Len(ad'.modes) = 1
    <3>1. ad'.modes \in Seq(AdModes) /\ ad'.modes # <<>> /\ ad'.modes[1] = "DEFAULT"
      BY <1>6, <1>9 DEF AdTypeOK, AdPathOK
    <3>2. Len(ad'.modes) \in Nat \ {0} /\ AdMode' = ad'.modes[Len(ad'.modes)]
      BY <3>1, FrontLast DEF AdMode
    <3>3. CASE n = 2
      BY <3>1, <3>2, <3>3, <1>2, <1>3
    <3>4. CASE n # 2
      <4>1. n - 1 \in 1..(n - 1) /\ n - 1 \in 2..n /\ Len(ad'.modes) = n - 1
        BY <3>4, <1>2, <1>3
      <4>2. AdMode' = ad.modes[n - 1]
        BY <4>1, <3>2, <1>2, <1>3
      <4>3. ad.modes[n - 1] = "ARGUMENT"
        BY <2>2, <3>4, <4>1, <1>1, <1>8 DEF AdPathOK, n
      <4>4. QED
        BY <4>1, <4>2, <4>3, <3>4, <1>3
    <3>5. QED
      BY <3>3, <3>4
  <2>4. Len(ad'.modes) = n - 1 /\ adSeen'.open = adSeen.open - 1 /\ n = adSeen.open + 1
    BY <2>2, <1>2, <1>3, <1>4
  <2>5. o = "END_ARGUMENT" <=> n = 2
    BY <2>2, <1>3, <1>7
  <2>6. QED
    BY <2>3, <2>4, <2>5, <1>3
<1>11. AdPlaceOK'
  BY <1>1, <1>2, OtherPlace
<1>12. QED
  BY <1>6, <1>9, <1>10, <1>11 DEF AdIInv

LEMMA AdStays ==
    ASSUME AdIInv, ad.out # "EOF", NEW c \in AdItems, InGrammar(c), See(c), Content(c)
    PROVE  AdIInv'
<1>1. /\ ad \in [rule : RuleTypes, modes : Seq(AdModes), out : AdTokens]
      /\ AdTypeOK /\ AdPathOK /\ AdMode # "DEFAULT" /\ AdMode \in AdModes
  BY AdTop DEF AdIInv, AdTypeOK, Content
<1>2. ad'.rule = ad.rule
  BY <1>1 DEF Content
<1>3. AdPlaceOK'
  BY <1>1, <1>2, OtherPlace
<1>4. /\ adSeen' \in [place : Places, inner : BOOLEAN, open : Nat, ended : BOOLEAN]
      /\ adSeen'.open = (IF AdMode = "CHARSET" THEN 0
                         ELSE CASE c = "[" -> adSeen.open + 1 [] c = "]" -> adSeen.open - 1
                                [] OTHER -> adSeen.open)
  BY <1>1, SeeType
<1>5. CASE c = "EOF" /\ AdMode = "CHARSET"
  <2>1. ad' = [ad EXCEPT !.modes = Front(@), !.out = "EOF"]
    BY <1>5 DEF Content
  <2>2. /\ ad'.modes = Front(ad.modes) /\ ad'.out = "EOF"
        /\ ad' = [rule |-> ad.rule, modes |-> Front(ad.modes), out |-> "EOF"]
    BY <1>1, <2>1
  <2>3. /\ Front(ad.modes) \in Seq(AdModes) /\ Len(Front(ad.modes)) = Len(ad.modes) - 1
        /\ \A i \in 1..(Len(ad.modes) - 1) : Front(ad.modes)[i] = ad.modes[i]
        /\ Len(ad.modes) = 2 /\ ad.modes[1] = "DEFAULT"
    BY <1>1, <1>5, AdTop DEF AdPathOK
  <2>4. "EOF" \in AdTokens
    BY DEF AdTokens, AdItems
  <2>5. AdTypeOK'
    BY <2>2, <2>3, <2>4, <1>1, <1>4 DEF AdTypeOK
  <2>6. AdPathOK'
    <3>1. Len(Front(ad.modes)) = 1 /\ Front(ad.modes)[1] = "DEFAULT"
      BY <2>3
    <3>2. Front(ad.modes) # <<>> /\ 2..1 = {}
      BY <3>1
    <3>3. adSeen'.open = 0
      BY <1>4, <1>5
    <3>4. QED
      BY <3>1, <3>2, <3>3, <2>2 DEF AdPathOK
  <2>7. AdEndOK'
    BY <2>2 DEF AdEndOK
  <2>8. QED
    BY <1>3, <2>5, <2>6, <2>7 DEF AdIInv
<1>6. CASE c # "EOF" /\ AdMode = "CHARSET"
  <2>1. ad' = [ad EXCEPT !.out = "none"]
    BY <1>6 DEF Content
  <2>2. ad'.modes = ad.modes /\ ad'.out = "none" /\ ad' = [rule |-> ad.rule, modes |-> ad.modes, out |-> "none"]
    BY <1>1, <2>1
  <2>3. "none" \in AdTokens
    BY DEF AdTokens
  <2>4. AdTypeOK'
    BY <2>2, <2>3, <1>1, <1>4 DEF AdTypeOK
  <2>5. Len(ad.modes) = 2 /\ ad.modes[2] = "CHARSET"
    BY <1>1, <1>6, AdTop
  <2>6. AdPathOK' /\ AdEndOK'
    BY <2>2, <2>5, <1>1 DEF AdPathOK, AdEndOK
  <2>7. QED
    BY <1>3, <2>4, <2>6 DEF AdIInv
<1>7. CASE c # "EOF" /\ AdMode # "CHARSET"
  <2>1. c = "text" /\ ad' = [ad EXCEPT !.out = "ARGUMENT_CONTENT"]
    BY <1>7 DEF Content
  <2>2. /\ ad'.modes = ad.modes /\ ad'.out = "ARGUMENT_CONTENT"
        /\ ad' = [rule |-> ad.rule, modes |-> ad.modes, out |-> "ARGUMENT_CONTENT"]
    BY <1>1, <2>1
  <2>3. "ARGUMENT_CONTENT" \in AdTokens
    BY DEF AdTokens
  <2>4. AdTypeOK'
    BY <2>2, <2>3, <1>1, <1>4 DEF AdTypeOK
  <2>5. adSeen'.open = adSeen.open
    BY <1>4, <1>7, <2>1
  <2>6. AdPathOK'
    <3>1. ~(Len(ad.modes) = 2 /\ ad.modes[2] = "CHARSET")
      BY <1>1, <1>7, AdTop
    <3>2. QED
      BY <3>1, <2>2, <2>5, <1>1 DEF AdPathOK
  <2>7. AdMode' = AdMode
    BY <2>2 DEF AdMode
  <2>8. AdEndOK'
    BY <2>2, <2>7, <1>1 DEF AdEndOK
  <2>9. QED
    BY <1>3, <2>4, <2>6, <2>8 DEF AdIInv
<1>8. CASE c = "EOF" /\ AdMode # "CHARSET"
  <2>1. ad' = [ad EXCEPT !.modes = ad.modes, !.out = "EOF"]
    BY <1>8 DEF Content
  <2>2. /\ ad'.modes = ad.modes /\ ad'.out = "EOF"
        /\ ad' = [rule |-> ad.rule, modes |-> ad.modes, out |-> "EOF"]
    BY <1>1, <2>1
  <2>3. "EOF" \in AdTokens
    BY DEF AdTokens, AdItems
  <2>4. AdTypeOK'
    BY <2>2, <2>3, <1>1, <1>4 DEF AdTypeOK
  <2>5. adSeen'.open = adSeen.open
    BY <1>4, <1>8
  <2>6. ~(Len(ad.modes) = 2 /\ ad.modes[2] = "CHARSET")
    BY <1>1, <1>8, AdTop
  <2>7. AdPathOK' /\ AdEndOK'
    BY <2>2, <2>5, <2>6, <1>1 DEF AdPathOK, AdEndOK
  <2>8. QED
    BY <1>3, <2>4, <2>7 DEF AdIInv
<1>9. QED
  BY <1>5, <1>6, <1>7, <1>8

---------------------------------------------------------------------------
(* The invariant.                                                           *)

LEMMA AdStarts ==
    ASSUME ad = NewAd, adSeen = NoAdSeen
    PROVE  AdIInv
<1>1. <<"DEFAULT">> \in Seq(AdModes) /\ Last(<<"DEFAULT">>) = "DEFAULT"
  <2>1. "DEFAULT" \in AdModes
    BY DEF AdModes
  <2>2. <<"DEFAULT">> \in Seq(AdModes) /\ <<"DEFAULT">> # <<>> /\ Len(<<"DEFAULT">>) = 1
    BY <2>1, Singleton
  <2>3. QED
    BY <2>2, FrontLast
<1>2. AdTypeOK
  BY <1>1 DEF NewAd, NoAdSeen, AdTypeOK, RuleTypes, AdTokens, Places
<1>3. AdPathOK /\ AdEndOK /\ AdPlaceOK
  BY DEF NewAd, NoAdSeen, AdPathOK, AdEndOK, AdPlaceOK
<1>4. QED
  BY <1>2, <1>3 DEF AdIInv

LEMMA AdStartsAgain ==
    ASSUME AdReset
    PROVE  AdIInv'
<1>1. <<"DEFAULT">> \in Seq(AdModes)
  BY Singleton DEF AdModes
<1>2. ad' = NewAd /\ adSeen' = NoAdSeen
  BY DEF AdReset
<1>3. AdTypeOK'
  BY <1>1, <1>2 DEF NewAd, NoAdSeen, AdTypeOK, RuleTypes, AdTokens, Places
<1>4. AdPathOK' /\ AdEndOK' /\ AdPlaceOK'
  BY <1>2 DEF NewAd, NoAdSeen, AdPathOK, AdEndOK, AdPlaceOK
<1>5. QED
  BY <1>3, <1>4 DEF AdIInv

LEMMA AdPreserved == AdIInv /\ [AdNext]_adVars => AdIInv'
<1> SUFFICES ASSUME AdIInv, [AdNext]_adVars
             PROVE  AdIInv'
  OBVIOUS
<1>1. CASE AdReset
  BY <1>1, AdStartsAgain
<1>2. ASSUME NEW c \in AdItems, AdStep(c)
      PROVE  AdIInv'
  <2>1. ad.out # "EOF" /\ InGrammar(c) /\ See(c)
    BY <1>2 DEF AdStep
  <2>2. CASE AdEmit(c)
    BY <2>1, <2>2, AdEmits
  <2>3. CASE HandleBeginArgument(c)
    <3>1. {"CHARSET", "ARGUMENT"} \subseteq AdModes /\ {"none", "BEGIN_ARGUMENT"} \subseteq AdTokens
      BY DEF AdModes, AdTokens
    <3>2. CASE ad.rule = "lexer"
      BY <2>1, <2>3, <3>1, <3>2, AdOpens DEF HandleBeginArgument
    <3>3. CASE ad.rule # "lexer"
      BY <2>1, <2>3, <3>1, <3>3, AdOpens DEF HandleBeginArgument
    <3>4. QED
      BY <3>2, <3>3
  <2>4. CASE NestedArgument(c)
    <3>1. "ARGUMENT" \in AdModes /\ "ARGUMENT_CONTENT" \in AdTokens
      BY DEF AdModes, AdTokens
    <3>2. QED
      BY <2>1, <2>4, <3>1, AdOpens DEF NestedArgument
  <2>5. CASE HandleEndArgument(c) \/ EndCharSet(c)
    BY <2>1, <2>5, AdCloses
  <2>6. CASE Content(c)
    BY <2>1, <2>6, AdStays
  <2>7. QED
    BY <1>2, <2>2, <2>3, <2>4, <2>5, <2>6 DEF AdStep
<1>3. CASE UNCHANGED adVars
  <2>1. ad' = ad /\ adSeen' = adSeen
    BY <1>3 DEF adVars
  <2>2. AdTypeOK' /\ AdPathOK' /\ AdEndOK' /\ AdPlaceOK'
    BY <2>1 DEF AdIInv, AdTypeOK, AdPathOK, AdEndOK, AdPlaceOK, AdMode
  <2>3. QED
    BY <2>2 DEF AdIInv
<1>4. QED
  BY <1>1, <1>2, <1>3 DEF AdNext

THEOREM AdInvariance == AdSpec => []AdIInv
<1>1. AdInit => AdIInv
  BY AdStarts DEF AdInit
<1>2. QED
  BY <1>1, AdPreserved, PTL DEF AdSpec

(* emit and handleBeginArgument: the rule type is the one of the rule the   *)
(* input is in, for a grammar of any length.                                *)
THEOREM RuleTypeKept == AdSpec => []RuleTypeOK
<1>1. AdIInv => RuleTypeOK
  <2>1. SUFFICES ASSUME AdIInv, ~adSeen.ended
                 PROVE  CASE adSeen.place = "top"    -> ad.rule = "none"
                          [] adSeen.place = "lexer"  ->
                                ad.rule = IF adSeen.inner THEN "options" ELSE "lexer"
                          [] adSeen.place = "parser" -> ad.rule = "parser"
                          [] OTHER                   -> TRUE
    BY DEF RuleTypeOK
  <2>2. CASE adSeen.place = "top"
    BY <2>1, <2>2 DEF AdIInv, AdPlaceOK
  <2>3. CASE adSeen.place = "lexer"
    BY <2>1, <2>3 DEF AdIInv, AdPlaceOK
  <2>4. CASE adSeen.place = "parser"
    BY <2>1, <2>4 DEF AdIInv, AdPlaceOK
  <2>5. CASE adSeen.place \notin {"top", "lexer", "parser"}
    BY <2>5
  <2>6. QED
    BY <2>2, <2>3, <2>4, <2>5
<1>2. QED
  BY <1>1, AdInvariance, PTL

(* handleBeginArgument and handleEndArgument: the path of modes is the      *)
(* default mode and one argument for each open bracket, however deep, or a  *)
(* character set; END_ARGUMENT closes the argument and nothing else does.   *)
THEOREM ArgumentsKept == AdSpec => []ArgumentsOK
<1>1. ASSUME AdIInv
      PROVE  ArgumentsOK
  <2>1. AdTypeOK /\ AdPathOK /\ AdEndOK
    BY <1>1 DEF AdIInv
  <2>2. ad.modes \in Seq(AdModes) /\ Len(ad.modes) \in Nat \ {0} /\ adSeen.open \in Nat
    BY <2>1, AdTop
  <2>3. CASE /\ Len(ad.modes) = adSeen.open + 1
             /\ \A i \in 2..Len(ad.modes) : ad.modes[i] = "ARGUMENT"
    <3> DEFINE args == [i \in 1..adSeen.open |-> "ARGUMENT"]
               path == <<"DEFAULT">> \o args
    <3>1. args \in Seq(AdModes) /\ Len(args) = adSeen.open
      BY <2>2 DEF AdModes
    <3>2. <<"DEFAULT">> \in Seq(AdModes) /\ Len(<<"DEFAULT">>) = 1 /\ <<"DEFAULT">>[1] = "DEFAULT"
      BY DEF AdModes
    <3>3. /\ path \in Seq(AdModes) /\ Len(path) = 1 + adSeen.open
          /\ path[1] = "DEFAULT"
          /\ \A i \in 2..(adSeen.open + 1) : path[i] = args[i - 1]
      BY <3>1, <3>2, <2>2
    <3>4. \A i \in 2..(adSeen.open + 1) : path[i] = "ARGUMENT"
      BY <3>3, <2>2
    <3> HIDE DEF path, args
    <3>5. ASSUME NEW i \in 1..Len(ad.modes)
          PROVE  ad.modes[i] = path[i]
      <4>1. CASE i = 1
        BY <4>1, <3>3, <2>1 DEF AdPathOK
      <4>2. CASE i # 1
        <5>1. i \in 2..Len(ad.modes) /\ i \in 2..(adSeen.open + 1)
          BY <4>2, <2>2, <2>3
        <5>2. QED
          BY <5>1, <3>4, <2>3
      <4>3. QED
        BY <4>1, <4>2
    <3>6. ad.modes = path
      BY <3>3, <3>5, <2>2, <2>3, SeqEqual
    <3>7. QED
      BY <3>6, <2>1 DEF path, args, ArgumentsOK, AdEndOK
  <2>4. CASE Len(ad.modes) = 2 /\ ad.modes[2] = "CHARSET"
    <3>1. <<"DEFAULT", "CHARSET">> \in Seq(AdModes)
      BY DEF AdModes
    <3>2. ad.modes = <<"DEFAULT", "CHARSET">>
      BY <3>1, <2>1, <2>2, <2>4, SeqEqual DEF AdPathOK
    <3>3. QED
      BY <3>2, <2>1 DEF ArgumentsOK, AdEndOK
  <2>5. QED
    BY <2>1, <2>3, <2>4 DEF AdPathOK
<1>2. AdIInv => ArgumentsOK
  BY <1>1
<1>3. QED
  BY <1>2, AdInvariance, PTL

---------------------------------------------------------------------------
(* The PHP lexer.  What may be above PHP.                                   *)
InPhp == {"PHP", "INTERPOLATION", "COMMENT", "HEREDOC"}

(* A path that the grammar means.  That PHP is left before HTML goes on     *)
(* does not follow from what may be below each mode without an induction,   *)
(* and is stated with it.                                                   *)
PhpPath(ms) ==
    /\ ms \in Seq(PhpModes) /\ ms # <<>> /\ ms[1] = "DEFAULT"
    /\ \A i \in 2..Len(ms) : ms[i] # "DEFAULT" /\ ms[i - 1] \in Below(ms[i])
    /\ \A i, j \in 1..Len(ms) : i < j /\ ms[i] = "PHP" => ms[j] \in InPhp

(* An expression in a string that is open at `i`.                           *)
Expression(ms, i) == i \in 2..Len(ms) /\ ms[i] = "PHP" /\ ms[i - 1] = "INTERPOLATION"

OneExpression(ms) == \A i, j \in 2..Len(ms) : Expression(ms, i) /\ Expression(ms, j) => i = j

TagOpen(ms) == \E i \in 1..Len(ms) : ms[i] = "INSIDE"

(* The flags and the path; at most one expression is open.                  *)
FlagsFit(ms, inside, scriptTag, styleTag) ==
    /\ inside <=> \E i \in 2..Len(ms) : Expression(ms, i)
    /\ OneExpression(ms)
    /\ scriptTag \/ styleTag => TagOpen(ms)
    /\ ~(scriptTag /\ styleTag)

PhpFit ==
    ~phpSeen.odd => /\ FlagsFit(php.modes, php.inside, php.scriptTag, php.styleTag)
                    /\ PhpMode = "HEREDOC" => php.heredoc

PhpEndLeft == php.out = "added_SemiColon" => PhpMode \notin {"PHP", "COMMENT"}

PhpIInv == PhpTypeOK /\ PhpPath(php.modes) /\ PhpEndLeft /\ PhpFit

---------------------------------------------------------------------------
(* Paths.                                                                   *)

LEMMA PhpTop ==
    ASSUME NEW ms, PhpPath(ms)
    PROVE  /\ Len(ms) \in Nat \ {0} /\ Last(ms) = ms[Len(ms)] /\ Last(ms) \in PhpModes
           /\ Len(ms) \in 1..Len(ms)
           /\ Last(ms) = "DEFAULT" <=> Len(ms) = 1
           /\ Len(ms) # 1 => /\ Len(ms) \in 2..Len(ms) /\ Len(ms) - 1 \in 1..Len(ms)
                             /\ ms[Len(ms) - 1] \in Below(Last(ms))
<1>1. ms \in Seq(PhpModes) /\ ms # <<>> /\ ms[1] = "DEFAULT"
  BY DEF PhpPath
<1>2. Len(ms) \in Nat \ {0} /\ Last(ms) = ms[Len(ms)] /\ Last(ms) \in PhpModes
  BY <1>1, FrontLast
<1>3. \A n \in Nat \ {0} : n \in 1..n /\ (n # 1 => n \in 2..n /\ n - 1 \in 1..n)
  OBVIOUS
<1>4. /\ Len(ms) \in 1..Len(ms)
      /\ Len(ms) # 1 => Len(ms) \in 2..Len(ms) /\ Len(ms) - 1 \in 1..Len(ms)
  BY <1>2, <1>3
<1>5. CASE Len(ms) = 1
  BY <1>1, <1>2, <1>4, <1>5
<1>6. CASE Len(ms) # 1
  <2>1. ms[Len(ms)] # "DEFAULT" /\ ms[Len(ms) - 1] \in Below(ms[Len(ms)])
    BY <1>4, <1>6 DEF PhpPath
  <2>2. QED
    BY <2>1, <1>2, <1>4, <1>6
<1>7. QED
  BY <1>5, <1>6

(* After a pop.                                                             *)
LEMMA PhpPopped ==
    ASSUME NEW ms, PhpPath(ms), Last(ms) # "DEFAULT", NEW ns, ns = Front(ms)
    PROVE  /\ PhpPath(ns) /\ Last(ns) \in Below(Last(ms)) /\ Len(ns) = Len(ms) - 1
           /\ Last(ns) = ms[Len(ms) - 1]
           /\ \A i \in 1..Len(ns) : ns[i] = ms[i] /\ i \in 1..Len(ms)
           /\ \A i : Expression(ns, i) <=> Expression(ms, i) /\ i # Len(ms)
           /\ Last(ms) # "INSIDE" /\ TagOpen(ms) => TagOpen(ns)
<1>1. /\ Len(ms) \in Nat \ {0} /\ Len(ms) # 1 /\ Last(ms) = ms[Len(ms)]
      /\ ms[Len(ms) - 1] \in Below(Last(ms))
      /\ ms \in Seq(PhpModes) /\ ms # <<>> /\ ms[1] = "DEFAULT"
  BY PhpTop DEF PhpPath
<1>2. /\ ns \in Seq(PhpModes) /\ Len(ns) = Len(ms) - 1
      /\ \A i \in 1..(Len(ms) - 1) : ns[i] = ms[i]
  BY <1>1, FrontLast
<1> DEFINE n == Len(ms)
<1>3. \A i \in 1..Len(ns) : ns[i] = ms[i] /\ i \in 1..n /\ i < n
  BY <1>1, <1>2
<1>4. /\ Len(ns) \in 1..Len(ns) /\ 1 \in 1..Len(ns) /\ Len(ns) \in Nat
      /\ \A i \in 2..Len(ns) : i \in 2..n /\ i \in 1..Len(ns) /\ i - 1 \in 1..Len(ns)
  <2>1. \A k \in Nat \ {0} : k # 1 =>
           /\ k - 1 \in 1..(k - 1) /\ 1 \in 1..(k - 1) /\ k - 1 \in Nat
           /\ \A i \in 2..(k - 1) : i \in 2..k /\ i \in 1..(k - 1) /\ i - 1 \in 1..(k - 1)
    OBVIOUS
  <2>2. QED
    BY <2>1, <1>1, <1>2
<1>5. ns # <<>>
  BY <1>2, <1>4, EmptySeq
<1>6. PhpPath(ns)
  <2>1. ns[1] = "DEFAULT"
    BY <1>1, <1>3, <1>4
  <2>2. \A i \in 2..Len(ns) : ns[i] # "DEFAULT" /\ ns[i - 1] \in Below(ns[i])
    BY <1>3, <1>4 DEF PhpPath
  <2>3. \A i, j \in 1..Len(ns) : i < j /\ ns[i] = "PHP" => ns[j] \in InPhp
    BY <1>3 DEF PhpPath
  <2>4. QED
    BY <1>2, <1>5, <2>1, <2>2, <2>3 DEF PhpPath
<1>7. Last(ns) = ms[n - 1]
  <2>1. Last(ns) = ns[Len(ns)]
    BY <1>2, <1>5, FrontLast
  <2>2. QED
    BY <2>1, <1>2, <1>3, <1>4
<1>8. ASSUME NEW i
      PROVE  Expression(ns, i) <=> Expression(ms, i) /\ i # n
  <2>1. ASSUME Expression(ns, i)
        PROVE  Expression(ms, i) /\ i # n
    <3>1. i \in 2..Len(ns) /\ ns[i] = "PHP" /\ ns[i - 1] = "INTERPOLATION"
      BY <2>1 DEF Expression
    <3>2. i \in 2..n /\ ns[i] = ms[i] /\ ns[i - 1] = ms[i - 1] /\ i < n
      BY <3>1, <1>3, <1>4
    <3>3. i # n
      BY <3>2, <1>1
    <3>4. QED
      BY <3>1, <3>2, <3>3 DEF Expression
  <2>2. ASSUME Expression(ms, i), i # n
        PROVE  Expression(ns, i)
    <3>1. i \in 2..n /\ ms[i] = "PHP" /\ ms[i - 1] = "INTERPOLATION"
      BY <2>2 DEF Expression
    <3>2. i \in 2..Len(ns)
      BY <3>1, <2>2, <1>1, <1>2
    <3>3. ns[i] = ms[i] /\ ns[i - 1] = ms[i - 1]
      BY <3>2, <1>3, <1>4
    <3>4. QED
      BY <3>1, <3>2, <3>3 DEF Expression
  <2>3. QED
    BY <2>1, <2>2
<1>9. ASSUME Last(ms) # "INSIDE", TagOpen(ms)
      PROVE  TagOpen(ns)
  <2>1. PICK i \in 1..n : ms[i] = "INSIDE"
    BY <1>9 DEF TagOpen
  <2>2. i # n
    BY <2>1, <1>1, <1>9
  <2>3. i \in 1..Len(ns)
    BY <2>2, <1>1, <1>2
  <2>4. QED
    BY <2>1, <2>3, <1>3 DEF TagOpen
<1>10. QED
  BY <1>1, <1>2, <1>3, <1>6, <1>7, <1>8, <1>9

(* After a push.                                                            *)
LEMMA PhpPushed ==
    ASSUME NEW ms, PhpPath(ms), NEW m \in PhpModes, m # "DEFAULT", Last(ms) \in Below(m),
           NEW ns, ns = Append(ms, m)
    PROVE  /\ PhpPath(ns) /\ Last(ns) = m
           /\ \A i : Expression(ns, i) <=>
                 Expression(ms, i) \/ (i = Len(ms) + 1 /\ m = "PHP" /\ Last(ms) = "INTERPOLATION")
           /\ TagOpen(ms) \/ m = "INSIDE" => TagOpen(ns)
           /\ \A i \in 2..Len(ms) : i \in 2..Len(ns)
           /\ Len(ms) + 1 \in 2..Len(ns)
<1> DEFINE n == Len(ms)
<1>1. /\ n \in Nat \ {0} /\ Last(ms) = ms[n] /\ n \in 1..n
      /\ ms \in Seq(PhpModes) /\ ms # <<>> /\ ms[1] = "DEFAULT"
  BY PhpTop DEF PhpPath
<1>2. /\ ns \in Seq(PhpModes) /\ ns # <<>> /\ Len(ns) = n + 1
      /\ \A i \in 1..n : ns[i] = ms[i]
      /\ ns[n + 1] = m /\ Last(ns) = m
  BY <1>1, AppendLast
<1> HIDE DEF n
<1>3. /\ \A i \in 1..(n + 1) : i # n + 1 => i \in 1..n
      /\ \A i \in 2..(n + 1) : i # n + 1 => i \in 2..n /\ i \in 1..n /\ i - 1 \in 1..n
      /\ \A i \in 2..n : i \in 2..(n + 1) /\ i \in 1..n /\ i - 1 \in 1..n /\ i # n + 1
      /\ \A i \in 1..n : i \in 1..(n + 1)
      /\ n + 1 \in 2..(n + 1) /\ (n + 1) - 1 = n /\ n + 1 \in 1..(n + 1) /\ 1 \in 1..n
      /\ \A i \in 1..(n + 1) : ~(n + 1 < i)
  BY <1>1
<1>4. PhpPath(ns)
  <2>1. ns[1] = "DEFAULT"
    BY <1>1, <1>2, <1>3
  <2>2. ASSUME NEW i \in 2..Len(ns)
        PROVE  ns[i] # "DEFAULT" /\ ns[i - 1] \in Below(ns[i])
    <3>1. CASE i = n + 1
      BY <3>1, <1>1, <1>2, <1>3
    <3>2. CASE i # n + 1
      <4>1. i \in 2..n /\ ns[i] = ms[i] /\ ns[i - 1] = ms[i - 1]
        BY <3>2, <1>2, <1>3
      <4>2. QED
        BY <4>1 DEF PhpPath, n
    <3>3. QED
      BY <3>1, <3>2
  <2>3. ASSUME NEW i \in 1..Len(ns), NEW j \in 1..Len(ns), i < j, ns[i] = "PHP"
        PROVE  ns[j] \in InPhp
    <3>1. i # n + 1
      BY <2>3, <1>2, <1>3
    <3>2. i \in 1..n /\ ms[i] = "PHP"
      BY <3>1, <2>3, <1>2, <1>3
    <3>3. CASE j # n + 1
      <4>1. j \in 1..n /\ ns[j] = ms[j]
        BY <3>3, <1>2, <1>3
      <4>2. QED
        BY <4>1, <3>2, <2>3 DEF PhpPath, n
    <3>4. CASE j = n + 1
      <4>1. Last(ms) \in InPhp
        <5>1. CASE i = n
          BY <5>1, <3>2, <1>1 DEF InPhp
        <5>2. CASE i # n
          <6>1. i < n
            BY <5>2, <3>2, <1>1
          <6>2. QED
            BY <6>1, <3>2, <1>1 DEF PhpPath, n
        <5>3. QED
          BY <5>1, <5>2
      <4>2. m \in InPhp
        BY <4>1 DEF InPhp, Below, PhpTagModes, PhpModes
      <4>3. QED
        BY <4>2, <3>4, <1>2
    <3>5. QED
      BY <3>3, <3>4
  <2>4. QED
    BY <1>2, <2>1, <2>2, <2>3 DEF PhpPath
<1>5. ASSUME NEW i
      PROVE  Expression(ns, i) <=>
                Expression(ms, i) \/ (i = n + 1 /\ m = "PHP" /\ Last(ms) = "INTERPOLATION")
  <2>1. CASE i = n + 1
    <3>1. ~Expression(ms, i)
      BY <2>1, <1>3 DEF Expression, n
    <3>2. i \in 2..Len(ns) /\ ns[i] = m /\ ns[i - 1] = Last(ms)
      BY <2>1, <1>1, <1>2, <1>3
    <3>3. QED
      BY <2>1, <3>1, <3>2 DEF Expression
  <2>2. CASE i # n + 1
    <3>1. i \in 2..Len(ns) <=> i \in 2..n
      BY <2>2, <1>2, <1>3
    <3>2. i \in 2..n => ns[i] = ms[i] /\ ns[i - 1] = ms[i - 1]
      BY <1>2, <1>3
    <3>3. QED
      BY <2>2, <3>1, <3>2 DEF Expression, n
  <2>3. QED
    BY <2>1, <2>2
<1>6. TagOpen(ms) \/ m = "INSIDE" => TagOpen(ns)
  BY <1>2, <1>3 DEF TagOpen, n
<1>7. QED
  BY <1>2, <1>3, <1>4, <1>5, <1>6 DEF n

LEMMA FewerExpressions ==
    ASSUME NEW ms, NEW ns, \A i : Expression(ns, i) => Expression(ms, i), OneExpression(ms)
    PROVE  OneExpression(ns)
<1>1. SUFFICES ASSUME NEW i \in 2..Len(ns), NEW j \in 2..Len(ns),
                      Expression(ns, i), Expression(ns, j)
               PROVE  i = j
  BY DEF OneExpression
<1>2. Expression(ms, i) /\ Expression(ms, j)
  BY <1>1
<1>3. i \in 2..Len(ms) /\ j \in 2..Len(ms)
  BY <1>2 DEF Expression
<1>4. QED
  BY <1>2, <1>3 DEF OneExpression

LEMMA SameExpressions ==
    ASSUME NEW ms, NEW ns, \A i : Expression(ns, i) <=> Expression(ms, i)
    PROVE  (\E i \in 2..Len(ns) : Expression(ns, i)) <=> \E i \in 2..Len(ms) : Expression(ms, i)
<1>1. \A i : /\ Expression(ns, i) => i \in 2..Len(ns)
             /\ Expression(ms, i) => i \in 2..Len(ms)
  BY DEF Expression
<1>2. QED
  BY <1>1

(* The PHP on top is in an expression if one is open at all.                *)
LEMMA TopExpression ==
    ASSUME NEW ms, PhpPath(ms), Last(ms) = "PHP", NEW i \in 2..Len(ms), Expression(ms, i)
    PROVE  Expression(ms, Len(ms))
<1> DEFINE n == Len(ms)
<1>1. /\ n \in Nat \ {0} /\ ms[n] = "PHP" /\ n # 1 /\ n \in 2..n /\ n - 1 \in 1..n
      /\ ms[n - 1] \in Below("PHP")
  BY PhpTop
<1> HIDE DEF n
<1>2. ms[i] = "PHP" /\ i \in 1..n
  BY <1>1 DEF Expression, n
<1>3. CASE i = n
  BY <1>3 DEF n
<1>4. CASE i # n
  <2>1. ms[n - 1] # "PHP"
    BY <1>1 DEF Below, PhpTagModes
  <2>2. i # n - 1 /\ i < n - 1
    BY <2>1, <1>1, <1>2, <1>4
  <2>3. ms[n - 1] \in InPhp
    BY <2>2, <1>1, <1>2 DEF PhpPath, n
  <2>4. ms[n - 1] = "INTERPOLATION"
    BY <1>1, <2>3 DEF InPhp, Below, PhpTagModes
  <2>5. QED
    BY <1>1, <2>4 DEF Expression, n
<1>5. QED
  BY <1>3, <1>4

---------------------------------------------------------------------------
(* The tables of the grammar.                                               *)

LEMMA PopTable ==
    ASSUME NEW a, NEW c, <<a, c>> \in Pops
    PROVE  /\ a \in {"XML", "INSIDE", "QUOTE", "DQUOTE", "SCRIPT", "STYLE", "INTERPOLATION", "COMMENT"}
           /\ c \notin {"{$", "CloseCurlyBracket", "<script", "<style", "<<<", ">"}
           /\ a = "INSIDE" => c = "/>"
           /\ a = "COMMENT" => c = "newline"
BY DEF Pops

LEMMA PushTable ==
    ASSUME NEW a, NEW c, NEW m, <<a, c, m>> \in Pushes
    PROVE  /\ m \in PhpModes /\ m # "DEFAULT" /\ a \in Below(m)
           /\ m = "PHP" /\ a = "INTERPOLATION" <=> c = "{$"
           /\ m = "HEREDOC" => c = "<<<"
           /\ c \in {"<script", "<style"} => a = "DEFAULT" /\ m = "INSIDE"
           /\ c = "<<<" => a = "PHP"
           /\ c \notin {"?>", "</script>", "END", "END_SemiColon"}
<1>1. \/ \E x \in {"<", "<script", "<style"} : a = "DEFAULT" /\ c = x /\ m = "INSIDE"
      \/ \E x \in PhpTagModes : a = x /\ c = "php" /\ m = "PHP"
      \/ <<a, c, m>> \in {<<"DEFAULT", "<?xml", "XML">>, <<"INSIDE", "quote", "QUOTE">>,
                          <<"INSIDE", "dquote", "DQUOTE">>, <<"PHP", "//", "COMMENT">>,
                          <<"PHP", "dquote", "INTERPOLATION">>, <<"PHP", "<<<", "HEREDOC">>,
                          <<"INTERPOLATION", "{$", "PHP">>}
  BY DEF Pushes
<1>2. QED
  BY <1>1 DEF PhpModes, Below, PhpTagModes

LEMMA NoEffectTable ==
    ASSUME NEW a, NEW c, <<a, c>> \in NoEffect
    PROVE  c \notin {"{$", "<script", "<style", "<<<"}
BY DEF NoEffect

---------------------------------------------------------------------------
(* A match of the generated lexer, with the actions of its rule.            *)
ScriptAfter(c) == IF PhpMode = "INSIDE" /\ c = ">" THEN FALSE ELSE php.scriptTag \/ c = "<script"
StyleAfter(c) == IF PhpMode = "INSIDE" /\ c = ">" /\ ~php.scriptTag THEN FALSE
                 ELSE php.styleTag \/ c = "<style"

(* The two constructs of ComesApart that are in a match itself.             *)
OddMatch(c) ==
    \/ c = "{$" /\ php.inside
    \/ c = "/>" /\ (php.scriptTag \/ php.styleTag)

Fits == FlagsFit(php.modes, php.inside, php.scriptTag, php.styleTag)
FitsAfter(ns, c) == FlagsFit(ns, InsideAfter(c), ScriptAfter(c), StyleAfter(c))

(* Neither the path nor a flag changes.                                     *)
LEMMA NothingChanges ==
    ASSUME PhpTypeOK, NEW c \in PhpItems, Matches(c),
           ~(PhpMode = "INSIDE" /\ c = ">"), ~LeavesInterpolation(c), <<PhpMode, c>> \notin Pops,
           ~\E m \in PhpModes : <<PhpMode, c, m>> \in Pushes
    PROVE  /\ MatchedModes(c) = php.modes /\ InsideAfter(c) = php.inside
           /\ ScriptAfter(c) = php.scriptTag /\ StyleAfter(c) = php.styleTag
<1>1. <<PhpMode, c>> \in NoEffect \/ c = "</script>"
  BY DEF Matches
<1>2. c \notin {"{$", "<script", "<style"}
  BY <1>1, NoEffectTable
<1>3. /\ php.inside \in BOOLEAN /\ php.scriptTag \in BOOLEAN /\ php.styleTag \in BOOLEAN
  BY DEF PhpTypeOK
<1>4. MatchedModes(c) = php.modes
  BY DEF MatchedModes
<1>5. InsideAfter(c) = php.inside
  BY <1>2, <1>3 DEF InsideAfter
<1>6. ScriptAfter(c) = php.scriptTag /\ StyleAfter(c) = php.styleTag
  BY <1>2, <1>3 DEF ScriptAfter, StyleAfter
<1>7. QED
  BY <1>4, <1>5, <1>6

(* > of a tag: the mode of the tag is replaced.                             *)
LEMMA TagEnds ==
    ASSUME PhpTypeOK, PhpPath(php.modes), PhpMode = "INSIDE", NEW c, c = ">",
           NEW ns, ns = MatchedModes(c)
    PROVE  PhpPath(ns) /\ Last(ns) # "HEREDOC" /\ (Fits => FitsAfter(ns, c))
<1> DEFINE fs == Front(php.modes)
<1>1. php.inside \in BOOLEAN /\ php.scriptTag \in BOOLEAN /\ php.styleTag \in BOOLEAN
  BY DEF PhpTypeOK
<1>2. ns = AfterHtmlClose
  BY DEF MatchedModes, LeavesInterpolation, Pops
<1>3. /\ PhpPath(fs) /\ Last(fs) = "DEFAULT"
      /\ \A i : Expression(fs, i) <=> Expression(php.modes, i) /\ i # Len(php.modes)
  BY PhpPopped DEF PhpMode, Below
<1>4. Len(php.modes) \in 1..Len(php.modes) /\ php.modes[Len(php.modes)] = "INSIDE"
  BY PhpTop DEF PhpMode
<1>5. \A i : Expression(fs, i) <=> Expression(php.modes, i)
  BY <1>3, <1>4 DEF Expression
<1> HIDE DEF fs
<1>6. PICK m \in {"PHP", "SCRIPT", "STYLE", "none"} : ns = IF m = "none" THEN fs ELSE Append(fs, m)
  BY <1>1, <1>2 DEF AfterHtmlClose, fs
<1>7. /\ PhpPath(ns) /\ Last(ns) # "HEREDOC"
      /\ \A i : Expression(ns, i) <=> Expression(php.modes, i)
  <2>1. CASE m = "none"
    BY <2>1, <1>3, <1>5, <1>6
  <2>2. CASE m # "none"
    <3>1. m \in PhpModes /\ m # "DEFAULT" /\ m # "HEREDOC" /\ Last(fs) \in Below(m)
      BY <2>2, <1>3 DEF PhpModes, Below, PhpTagModes
    <3>2. ns = Append(fs, m)
      BY <2>2, <1>6
    <3>3. /\ PhpPath(ns) /\ Last(ns) = m
          /\ \A i : Expression(ns, i) <=>
                Expression(fs, i) \/ (i = Len(fs) + 1 /\ m = "PHP" /\ Last(fs) = "INTERPOLATION")
      BY <3>1, <3>2, <1>3, PhpPushed
    <3>4. QED
      BY <3>1, <3>3, <1>3, <1>5
  <2>3. QED
    BY <2>1, <2>2
<1>8. ASSUME Fits
      PROVE  FitsAfter(ns, c)
  <2>1. /\ php.inside <=> \E i \in 2..Len(php.modes) : Expression(php.modes, i)
        /\ OneExpression(php.modes) /\ ~(php.scriptTag /\ php.styleTag)
    BY <1>8 DEF Fits, FlagsFit
  <2>2. InsideAfter(c) = php.inside /\ ~ScriptAfter(c) /\ ~StyleAfter(c)
    BY <1>1, <2>1 DEF InsideAfter, LeavesInterpolation, ScriptAfter, StyleAfter
  <2>3. (\E i \in 2..Len(ns) : Expression(ns, i)) <=>
           \E i \in 2..Len(php.modes) : Expression(php.modes, i)
    BY <1>7, SameExpressions
  <2>4. OneExpression(ns)
    BY <1>7, <2>1, FewerExpressions
  <2>5. QED
    BY <2>1, <2>2, <2>3, <2>4 DEF FitsAfter, FlagsFit
<1>9. QED
  BY <1>7, <1>8

(* A mode is popped.                                                        *)
LEMMA ModePops ==
    ASSUME PhpTypeOK, PhpPath(php.modes), NEW c \in PhpItems,
           ~(PhpMode = "INSIDE" /\ c = ">"), LeavesInterpolation(c) \/ <<PhpMode, c>> \in Pops,
           NEW ns, ns = MatchedModes(c)
    PROVE  PhpPath(ns) /\ Last(ns) # "HEREDOC" /\ (Fits /\ ~OddMatch(c) => FitsAfter(ns, c))
<1>1. php.inside \in BOOLEAN /\ php.scriptTag \in BOOLEAN /\ php.styleTag \in BOOLEAN
  BY DEF PhpTypeOK
<1>2. ns = Front(php.modes)
  BY DEF MatchedModes
<1>3. /\ PhpMode \in PhpModes /\ PhpMode # "DEFAULT" /\ PhpMode # "HEREDOC"
      /\ c \notin {"{$", "<script", "<style"}
      /\ PhpMode = "INSIDE" => c = "/>"
      /\ PhpMode = "PHP" => LeavesInterpolation(c)
  <2>1. CASE LeavesInterpolation(c)
    BY <2>1 DEF LeavesInterpolation, PhpModes
  <2>2. CASE <<PhpMode, c>> \in Pops
    BY <2>2, PopTable DEF PhpModes
  <2>3. QED
    BY <2>1, <2>2
<1>4. /\ PhpPath(ns) /\ Last(ns) \in Below(PhpMode)
      /\ \A i : Expression(ns, i) <=> Expression(php.modes, i) /\ i # Len(php.modes)
      /\ PhpMode # "INSIDE" /\ TagOpen(php.modes) => TagOpen(ns)
  BY <1>2, <1>3, PhpPopped DEF PhpMode
<1>5. Last(ns) # "HEREDOC"
  BY <1>4 DEF Below, PhpTagModes
<1>6. ASSUME Fits, ~OddMatch(c)
      PROVE  FitsAfter(ns, c)
  <2>1. /\ php.inside <=> \E i \in 2..Len(php.modes) : Expression(php.modes, i)
        /\ OneExpression(php.modes) /\ ~(php.scriptTag /\ php.styleTag)
        /\ php.scriptTag \/ php.styleTag => TagOpen(php.modes)
    BY <1>6 DEF Fits, FlagsFit
  <2>2. ScriptAfter(c) = php.scriptTag /\ StyleAfter(c) = php.styleTag
    BY <1>1, <1>3 DEF ScriptAfter, StyleAfter
  <2>3. php.scriptTag \/ php.styleTag => TagOpen(ns)
    BY <1>3, <1>4, <1>6, <2>1 DEF OddMatch
  <2>4. OneExpression(ns)
    BY <1>4, <2>1, FewerExpressions
  <2>5. InsideAfter(c) <=> \E i \in 2..Len(ns) : Expression(ns, i)
    <3>1. CASE LeavesInterpolation(c)
      <4>1. PhpMode = "PHP" /\ php.inside /\ ~InsideAfter(c)
        BY <3>1, <1>3 DEF LeavesInterpolation, InsideAfter
      <4>2. PICK i \in 2..Len(php.modes) : Expression(php.modes, i)
        BY <4>1, <2>1
      <4>3. Expression(php.modes, Len(php.modes))
        BY <4>1, <4>2, TopExpression DEF PhpMode
      <4>4. \A j : Expression(php.modes, j) => j = Len(php.modes)
        BY <4>3, <2>1 DEF OneExpression, Expression
      <4>5. QED
        BY <4>1, <4>4, <1>4
    <3>2. CASE ~LeavesInterpolation(c)
      <4>1. InsideAfter(c) <=> php.inside
        BY <3>2, <1>1, <1>3 DEF InsideAfter
      <4>2. php.modes[Len(php.modes)] # "PHP"
        BY <3>2, <1>3, PhpTop DEF PhpMode
      <4>3. \A i : Expression(ns, i) <=> Expression(php.modes, i)
        BY <4>2, <1>4 DEF Expression
      <4>4. QED
        BY <4>1, <4>3, <2>1, SameExpressions
    <3>3. QED
      BY <3>1, <3>2
  <2>6. QED
    BY <2>1, <2>2, <2>3, <2>4, <2>5 DEF FitsAfter, FlagsFit
<1>7. QED
  BY <1>4, <1>5, <1>6

(* A mode is pushed.                                                        *)
LEMMA ModePushes ==
    ASSUME PhpTypeOK, PhpPath(php.modes), NEW c \in PhpItems,
           ~(PhpMode = "INSIDE" /\ c = ">"), ~LeavesInterpolation(c), <<PhpMode, c>> \notin Pops,
           \E m \in PhpModes : <<PhpMode, c, m>> \in Pushes, NEW ns, ns = MatchedModes(c)
    PROVE  /\ PhpPath(ns) /\ (Last(ns) = "HEREDOC" => c = "<<<")
           /\ Fits /\ ~OddMatch(c) => FitsAfter(ns, c)
<1>1. php.inside \in BOOLEAN /\ php.scriptTag \in BOOLEAN /\ php.styleTag \in BOOLEAN
  BY DEF PhpTypeOK
<1> DEFINE m == CHOOSE x \in PhpModes : <<PhpMode, c, x>> \in Pushes
           ms == php.modes
<1>2. m \in PhpModes /\ <<PhpMode, c, m>> \in Pushes
  OBVIOUS
<1>3. ns = Append(ms, m)
  BY DEF MatchedModes
<1> HIDE DEF m
<1>4. /\ m # "DEFAULT" /\ PhpMode \in Below(m)
      /\ m = "PHP" /\ PhpMode = "INTERPOLATION" <=> c = "{$"
      /\ m = "HEREDOC" => c = "<<<"
      /\ c \in {"<script", "<style"} => PhpMode = "DEFAULT" /\ m = "INSIDE"
  BY <1>2, PushTable
<1>5. /\ PhpPath(ns) /\ Last(ns) = m
      /\ \A i : Expression(ns, i) <=>
            Expression(ms, i) \/ (i = Len(ms) + 1 /\ m = "PHP" /\ Last(ms) = "INTERPOLATION")
      /\ TagOpen(ms) \/ m = "INSIDE" => TagOpen(ns)
      /\ Len(ms) + 1 \in 2..Len(ns)
  <2>1. Last(ms) \in Below(m) /\ m \in PhpModes /\ m # "DEFAULT"
    BY <1>2, <1>4 DEF PhpMode
  <2>2. PhpPath(ms) /\ ns = Append(ms, m)
    BY <1>3
  <2> HIDE DEF ms
  <2>3. PhpPath(ns) /\ Last(ns) = m
    BY <2>1, <2>2, PhpPushed, ZenonT(60)
  <2>4. \A i : Expression(ns, i) <=>
            Expression(ms, i) \/ (i = Len(ms) + 1 /\ m = "PHP" /\ Last(ms) = "INTERPOLATION")
    BY <2>1, <2>2, PhpPushed
  <2>5. (TagOpen(ms) \/ m = "INSIDE" => TagOpen(ns)) /\ Len(ms) + 1 \in 2..Len(ns)
    BY <2>1, <2>2, PhpPushed
  <2>6. QED
    BY <2>3, <2>4, <2>5
<1>6. \A i : Expression(ns, i) <=> Expression(ms, i) \/ (i = Len(ms) + 1 /\ c = "{$")
  BY <1>4, <1>5 DEF PhpMode
<1>7. ASSUME Fits, ~OddMatch(c)
      PROVE  FitsAfter(ns, c)
  <2>1. /\ php.inside <=> \E i \in 2..Len(ms) : Expression(ms, i)
        /\ OneExpression(ms) /\ ~(php.scriptTag /\ php.styleTag)
        /\ php.scriptTag \/ php.styleTag => TagOpen(ms)
    BY <1>7 DEF Fits, FlagsFit
  <2>2. InsideAfter(c) <=> php.inside \/ c = "{$"
    BY <1>1 DEF InsideAfter
  <2>3. (InsideAfter(c) <=> \E i \in 2..Len(ns) : Expression(ns, i)) /\ OneExpression(ns)
    <3>1. CASE c = "{$"
      <4>1. ~php.inside
        BY <3>1, <1>7 DEF OddMatch
      <4>2. \A i : ~Expression(ms, i)
        BY <4>1, <2>1 DEF Expression
      <4>3. \A i : Expression(ns, i) <=> i = Len(ms) + 1
        BY <3>1, <4>2, <1>6
      <4>4. OneExpression(ns)
        BY <4>3 DEF OneExpression
      <4>5. QED
        BY <3>1, <4>3, <4>4, <1>5, <2>2
    <3>2. CASE c # "{$"
      <4>1. \A i : Expression(ns, i) <=> Expression(ms, i)
        BY <3>2, <1>6
      <4>2. QED
        BY <3>2, <4>1, <2>1, <2>2, SameExpressions, FewerExpressions
    <3>3. QED
      BY <3>1, <3>2
  <2>4. ScriptAfter(c) \/ StyleAfter(c) => TagOpen(ns)
    BY <1>1, <1>4, <1>5, <2>1 DEF ScriptAfter, StyleAfter
  <2>5. ~(ScriptAfter(c) /\ StyleAfter(c))
    <3>1. CASE c \in {"<script", "<style"}
      <4>1. PhpMode = "DEFAULT"
        BY <3>1, <1>4
      <4>2. Len(ms) = 1 /\ ms[1] = "DEFAULT"
        BY <4>1, PhpTop DEF PhpMode, PhpPath
      <4>3. ~TagOpen(ms)
        BY <4>2 DEF TagOpen
      <4>4. ~php.scriptTag /\ ~php.styleTag
        BY <4>3, <2>1
      <4>5. QED
        BY <3>1, <4>4 DEF ScriptAfter, StyleAfter
    <3>2. CASE c \notin {"<script", "<style"}
      BY <3>2, <1>1, <2>1 DEF ScriptAfter, StyleAfter
    <3>3. QED
      BY <3>1, <3>2
  <2>6. QED
    BY <2>3, <2>4, <2>5 DEF FitsAfter, FlagsFit
<1>8. QED
  BY <1>4, <1>5, <1>7

(* Any match.                                                               *)
LEMMA MatchKeeps ==
    ASSUME PhpTypeOK, PhpPath(php.modes), NEW c \in PhpItems, Matches(c)
    PROVE  /\ PhpPath(MatchedModes(c))
           /\ Last(MatchedModes(c)) = "HEREDOC" => PhpMode = "HEREDOC" \/ c = "<<<"
           /\ Fits /\ ~OddMatch(c) => FitsAfter(MatchedModes(c), c)
<1>1. CASE PhpMode = "INSIDE" /\ c = ">"
  BY <1>1, TagEnds
<1>2. CASE /\ ~(PhpMode = "INSIDE" /\ c = ">")
           /\ LeavesInterpolation(c) \/ <<PhpMode, c>> \in Pops
  BY <1>2, ModePops
<1>3. CASE /\ ~(PhpMode = "INSIDE" /\ c = ">")
           /\ ~LeavesInterpolation(c) /\ <<PhpMode, c>> \notin Pops
           /\ \E m \in PhpModes : <<PhpMode, c, m>> \in Pushes
  BY <1>3, ModePushes
<1>4. CASE /\ ~(PhpMode = "INSIDE" /\ c = ">")
           /\ ~LeavesInterpolation(c) /\ <<PhpMode, c>> \notin Pops
           /\ ~\E m \in PhpModes : <<PhpMode, c, m>> \in Pushes
  <2>1. /\ MatchedModes(c) = php.modes /\ InsideAfter(c) = php.inside
        /\ ScriptAfter(c) = php.scriptTag /\ StyleAfter(c) = php.styleTag
    BY <1>4, NothingChanges
  <2>2. QED
    BY <2>1 DEF Fits, FitsAfter, PhpMode
<1>5. QED
  BY <1>1, <1>2, <1>3, <1>4

---------------------------------------------------------------------------
(* nextToken, one lemma for each way in which the modes change.             *)

LEMMA MatchedFields ==
    ASSUME PhpTypeOK, NEW c \in PhpItems
    PROVE  /\ Matched(c) = [modes |-> MatchedModes(c), scriptTag |-> ScriptAfter(c),
                            styleTag |-> StyleAfter(c), heredoc |-> php.heredoc,
                            prev |-> php.prev, language |-> php.language,
                            phpScript |-> php.phpScript, inside |-> InsideAfter(c),
                            again |-> "no", out |-> c]
           /\ ScriptAfter(c) \in BOOLEAN /\ StyleAfter(c) \in BOOLEAN /\ InsideAfter(c) \in BOOLEAN
           /\ php.heredoc \in BOOLEAN /\ php.language \in BOOLEAN /\ php.phpScript \in BOOLEAN
           /\ php.prev \in PhpItems \union {"none"} /\ c \in PhpTokens
           /\ c # "added_SemiColon"
<1>1. php \in [modes : Seq(PhpModes), scriptTag : BOOLEAN, styleTag : BOOLEAN,
               heredoc : BOOLEAN, prev : PhpItems \union {"none"}, language : BOOLEAN,
               phpScript : BOOLEAN, inside : BOOLEAN, again : {"no", "end", "heredoc"},
               out : PhpTokens]
  BY DEF PhpTypeOK
<1>2. /\ ScriptAfter(c) \in BOOLEAN /\ StyleAfter(c) \in BOOLEAN /\ InsideAfter(c) \in BOOLEAN
      /\ php.heredoc \in BOOLEAN /\ php.language \in BOOLEAN /\ php.phpScript \in BOOLEAN
      /\ php.prev \in PhpItems \union {"none"} /\ c \in PhpTokens
      /\ c # "added_SemiColon"
  BY <1>1 DEF ScriptAfter, StyleAfter, InsideAfter, PhpTokens, PhpItems
<1>3. Matched(c) = [php EXCEPT !.modes = MatchedModes(c), !.scriptTag = ScriptAfter(c),
                              !.styleTag = StyleAfter(c), !.inside = InsideAfter(c),
                              !.again = "no", !.out = c]
  BY DEF Matched, ScriptAfter, StyleAfter
<1>4. QED
  BY <1>1, <1>2, <1>3

(* The modes are those after the match.                                     *)
LEMMA MatchedOnly ==
    ASSUME PhpIInv, NEW c \in PhpItems, Matches(c), PhpTypeOK',
           php'.modes = MatchedModes(c), php'.inside = InsideAfter(c),
           php'.scriptTag = ScriptAfter(c), php'.styleTag = StyleAfter(c),
           php'.out # "added_SemiColon", phpSeen.odd \/ OddMatch(c) => phpSeen'.odd,
           ~phpSeen'.odd => (c = "<<<" \/ php.heredoc => php'.heredoc)
    PROVE  PhpIInv'
<1>1. PhpTypeOK /\ PhpPath(php.modes) /\ PhpFit
  BY DEF PhpIInv
<1>2. /\ PhpPath(MatchedModes(c))
      /\ Last(MatchedModes(c)) = "HEREDOC" => PhpMode = "HEREDOC" \/ c = "<<<"
      /\ Fits /\ ~OddMatch(c) => FitsAfter(MatchedModes(c), c)
  BY <1>1, MatchKeeps
<1>3. PhpPath(php.modes)' /\ PhpEndLeft'
  BY <1>2 DEF PhpEndLeft
<1>4. PhpFit'
  <2>1. SUFFICES ASSUME ~phpSeen'.odd
                 PROVE  /\ FlagsFit(php'.modes, php'.inside, php'.scriptTag, php'.styleTag)
                        /\ Last(php'.modes) = "HEREDOC" => php'.heredoc
    BY DEF PhpFit, PhpMode
  <2>2. Fits /\ (PhpMode = "HEREDOC" => php.heredoc)
    BY <2>1, <1>1 DEF PhpFit, Fits
  <2>3. FitsAfter(MatchedModes(c), c)
    BY <2>1, <2>2, <1>2
  <2>4. Last(MatchedModes(c)) = "HEREDOC" => php'.heredoc
    BY <2>1, <2>2, <1>2
  <2>5. QED
    BY <2>3, <2>4 DEF FitsAfter
<1>5. QED
  BY <1>3, <1>4 DEF PhpIInv

(* The modes are those after pops that follow a match without effect.       *)
LEMMA PoppedAfter ==
    ASSUME PhpIInv, NEW c \in PhpItems, Matches(c),
           NEW ns, PhpPath(ns), Last(ns) # "HEREDOC",
           NEW k \in BOOLEAN, NEW g \in {"no", "end", "heredoc"}, NEW o \in PhpTokens,
           o = "added_SemiColon" => Last(ns) \notin {"PHP", "COMMENT"},
           NEW last \in PhpItems \union {"none"}, NEW odd \in BOOLEAN, phpSeen.odd => odd,
           ~odd => \A i : Expression(ns, i) <=> Expression(php.modes, i),
           TagOpen(php.modes) => TagOpen(ns),
           InsideAfter(c) = php.inside, ScriptAfter(c) = php.scriptTag,
           StyleAfter(c) = php.styleTag,
           php' = [modes |-> ns, scriptTag |-> ScriptAfter(c), styleTag |-> StyleAfter(c),
                   heredoc |-> php.heredoc, prev |-> php.prev, language |-> php.language,
                   phpScript |-> k, inside |-> InsideAfter(c), again |-> g, out |-> o],
           phpSeen' = [last |-> last, odd |-> odd]
    PROVE  PhpIInv'
<1>1. PhpTypeOK /\ PhpFit
  BY DEF PhpIInv
<1>2. ns \in Seq(PhpModes)
  BY DEF PhpPath
<1>3. /\ php.inside \in BOOLEAN /\ php.scriptTag \in BOOLEAN /\ php.styleTag \in BOOLEAN
      /\ php.heredoc \in BOOLEAN /\ php.language \in BOOLEAN
      /\ php.prev \in PhpItems \union {"none"}
  BY <1>1 DEF PhpTypeOK
<1>4. /\ PhpTypeOK'
      /\ php'.modes = ns /\ php'.scriptTag = php.scriptTag /\ php'.styleTag = php.styleTag
      /\ php'.inside = php.inside /\ php'.out = o /\ phpSeen'.odd = odd
  BY <1>2, <1>3 DEF PhpTypeOK
<1>5. PhpPath(php.modes)' /\ PhpEndLeft'
  BY <1>4 DEF PhpEndLeft, PhpMode
<1>6. PhpFit'
  <2>1. SUFFICES ASSUME ~odd
                 PROVE  FlagsFit(ns, php.inside, php.scriptTag, php.styleTag)
    BY <1>4 DEF PhpFit, PhpMode
  <2>2. /\ php.inside <=> \E i \in 2..Len(php.modes) : Expression(php.modes, i)
        /\ OneExpression(php.modes) /\ ~(php.scriptTag /\ php.styleTag)
        /\ php.scriptTag \/ php.styleTag => TagOpen(php.modes)
    BY <2>1, <1>1 DEF PhpFit, FlagsFit
  <2>3. \A i : Expression(ns, i) <=> Expression(php.modes, i)
    BY <2>1
  <2>4. QED
    BY <2>2, <2>3, SameExpressions, FewerExpressions DEF FlagsFit
<1>7. QED
  BY <1>4, <1>5, <1>6 DEF PhpIInv

(* PHP is left, with the comment in it.                                     *)
LEMMA PhpLeft ==
    ASSUME NEW ms, PhpPath(ms), Last(ms) \in {"PHP", "COMMENT"}, NEW ns, ns = AfterPhpEnd(ms)
    PROVE  /\ PhpPath(ns) /\ Last(ns) \notin {"PHP", "COMMENT", "HEREDOC"}
           /\ TagOpen(ms) => TagOpen(ns)
           /\ ms[InnermostPhp(ms) - 1] # "INTERPOLATION" =>
                 \A i : Expression(ns, i) <=> Expression(ms, i)
<1>1. PICK ps : /\ PhpPath(ps) /\ Last(ps) = "PHP" /\ Len(ps) = InnermostPhp(ms)
                /\ ps[Len(ps) - 1] = ms[InnermostPhp(ms) - 1]
                /\ ns = Front(ps)
                /\ \A i : Expression(ps, i) <=> Expression(ms, i)
                /\ TagOpen(ms) => TagOpen(ps)
  <2>1. CASE Last(ms) = "PHP"
    BY <2>1 DEF AfterPhpEnd, InnermostPhp
  <2>2. CASE Last(ms) = "COMMENT"
    <3> DEFINE ps == Front(ms)
    <3>1. /\ PhpPath(ps) /\ Last(ps) \in Below(Last(ms)) /\ Len(ps) = Len(ms) - 1
          /\ \A i \in 1..Len(ps) : ps[i] = ms[i] /\ i \in 1..Len(ms)
          /\ \A i : Expression(ps, i) <=> Expression(ms, i) /\ i # Len(ms)
          /\ TagOpen(ms) => TagOpen(ps)
      BY <2>2, PhpPopped
    <3>2. Last(ps) = "PHP" /\ ns = Front(ps) /\ Len(ps) = InnermostPhp(ms)
      BY <2>2, <3>1 DEF Below, AfterPhpEnd, InnermostPhp
    <3>3. ps[Len(ps) - 1] = ms[InnermostPhp(ms) - 1]
      <4>1. Len(ps) - 1 \in 1..Len(ps)
        BY <3>1, <3>2, PhpTop
      <4>2. QED
        BY <4>1, <3>1, <3>2
    <3>4. ms[Len(ms)] # "PHP"
      BY <2>2, PhpTop
    <3>5. \A i : Expression(ps, i) <=> Expression(ms, i)
      BY <3>1, <3>4 DEF Expression
    <3> HIDE DEF ps
    <3>6. QED
      BY <3>1, <3>2, <3>3, <3>5
  <2>3. QED
    BY <2>1, <2>2
<1>2. /\ PhpPath(ns) /\ Last(ns) \in Below("PHP")
      /\ \A i : Expression(ns, i) <=> Expression(ps, i) /\ i # Len(ps)
      /\ TagOpen(ps) => TagOpen(ns)
  BY <1>1, PhpPopped
<1>3. ASSUME ms[InnermostPhp(ms) - 1] # "INTERPOLATION"
      PROVE  \A i : Expression(ns, i) <=> Expression(ms, i)
  <2>1. ~Expression(ps, Len(ps))
    BY <1>1, <1>3 DEF Expression
  <2>2. \A i : Expression(ns, i) <=> Expression(ps, i)
    BY <2>1, <1>2
  <2>3. QED
    BY <2>2, <1>1
<1>4. QED
  BY <1>1, <1>2, <1>3 DEF Below, PhpTagModes

LEMMA PhpEnds ==
    ASSUME PhpIInv, NEW c \in PhpItems, Matches(c), PhpEnd(c),
           NEW last \in PhpItems \union {"none"},
           phpSeen' = [last |-> last, odd |-> phpSeen.odd \/ ComesApart(c)]
    PROVE  PhpIInv'
<1>1. PhpTypeOK /\ PhpPath(php.modes) /\ phpSeen.odd \in BOOLEAN
  BY DEF PhpIInv, PhpTypeOK
<1>2. /\ PhpMode \in {"PHP", "COMMENT"} /\ c \in {"?>", "</script>"}
      /\ php.again = "no" /\ IsPhpEnd(c)
  BY DEF PhpEnd, IsPhpEnd
<1>3. /\ MatchedModes(c) = php.modes /\ InsideAfter(c) = php.inside
      /\ ScriptAfter(c) = php.scriptTag /\ StyleAfter(c) = php.styleTag
  <2>1. /\ ~(PhpMode = "INSIDE" /\ c = ">") /\ ~LeavesInterpolation(c)
        /\ <<PhpMode, c>> \notin Pops /\ ~\E m \in PhpModes : <<PhpMode, c, m>> \in Pushes
    BY <1>2, PopTable, PushTable DEF LeavesInterpolation
  <2>2. QED
    BY <1>1, <2>1, NothingChanges
<1> DEFINE ns == AfterPhpEnd(php.modes)
<1>4. /\ PhpPath(ns) /\ Last(ns) \notin {"PHP", "COMMENT", "HEREDOC"}
      /\ TagOpen(php.modes) => TagOpen(ns)
      /\ php.modes[InnermostPhp(php.modes) - 1] # "INTERPOLATION" =>
            \A i : Expression(ns, i) <=> Expression(php.modes, i)
  BY <1>1, <1>2, PhpLeft DEF PhpMode
<1> HIDE DEF ns
<1>5. ~ComesApart(c) => \A i : Expression(ns, i) <=> Expression(php.modes, i)
  BY <1>2, <1>4 DEF ComesApart
<1>6. PICK k \in BOOLEAN, g \in {"no", "end", "heredoc"}, o \in PhpTokens :
         php' = [modes |-> ns, scriptTag |-> ScriptAfter(c), styleTag |-> StyleAfter(c),
                 heredoc |-> php.heredoc, prev |-> php.prev, language |-> php.language,
                 phpScript |-> k, inside |-> InsideAfter(c), again |-> g, out |-> o]
  <2>1. [Matched(c) EXCEPT !.modes = AfterPhpEnd(@)] =
           [modes |-> ns, scriptTag |-> ScriptAfter(c), styleTag |-> StyleAfter(c),
            heredoc |-> php.heredoc, prev |-> php.prev, language |-> php.language,
            phpScript |-> php.phpScript, inside |-> InsideAfter(c), again |-> "no", out |-> c]
    BY <1>1, <1>3, MatchedFields DEF ns
  <2>2. php.phpScript \in BOOLEAN /\ {"added_SemiColon", "none", "HtmlScriptClose"} \subseteq PhpTokens
    BY <1>1, MatchedFields DEF PhpTokens
  <2>3. CASE c = "</script>"
    <3>1. php' = [[Matched(c) EXCEPT !.modes = AfterPhpEnd(@)]
                     EXCEPT !.phpScript = FALSE, !.out = "HtmlScriptClose"]
      BY <2>3 DEF PhpEnd
    <3>2. php' = [modes |-> ns, scriptTag |-> ScriptAfter(c), styleTag |-> StyleAfter(c),
                  heredoc |-> php.heredoc, prev |-> php.prev, language |-> php.language,
                  phpScript |-> FALSE, inside |-> InsideAfter(c), again |-> "no", out |-> "HtmlScriptClose"]
      BY <3>1, <2>1
    <3>3. FALSE \in BOOLEAN /\ "no" \in {"no", "end", "heredoc"} /\ "HtmlScriptClose" \in PhpTokens
      BY <2>2
    <3>4. QED
      BY <3>2, <3>3
  <2>4. CASE c = "?>" /\ php.prev \in EndsStatement
    <3>1. php' = [[Matched(c) EXCEPT !.modes = AfterPhpEnd(@)]
                     EXCEPT !.again = "end", !.out = "none"]
      BY <2>4 DEF PhpEnd
    <3>2. QED
      BY <3>1, <2>1, <2>2, ZenonT(60)
  <2>5. CASE c = "?>" /\ php.prev \notin EndsStatement
    <3>1. php' = [[Matched(c) EXCEPT !.modes = AfterPhpEnd(@)]
                     EXCEPT !.out = "added_SemiColon"]
      BY <2>5 DEF PhpEnd
    <3>2. QED
      BY <3>1, <2>1, <2>2, ZenonT(60)
  <2>6. QED
    BY <1>2, <2>3, <2>4, <2>5
<1>7. ComesApart(c) \in BOOLEAN
  BY DEF ComesApart
<1>8. PICK odd \in BOOLEAN : odd = (phpSeen.odd \/ ComesApart(c))
  BY <1>1, <1>7
<1>9. QED
  BY <1>3, <1>4, <1>5, <1>6, <1>8, PoppedAfter

LEMMA HereDocEnds ==
    ASSUME PhpIInv, NEW c \in PhpItems, Matches(c), EndHereDoc(c),
           NEW last \in PhpItems \union {"none"},
           phpSeen' = [last |-> last, odd |-> phpSeen.odd \/ ComesApart(c)]
    PROVE  PhpIInv'
<1>1. PhpTypeOK /\ PhpPath(php.modes) /\ phpSeen.odd \in BOOLEAN
  BY DEF PhpIInv, PhpTypeOK
<1>2. PhpMode = "HEREDOC" /\ c \in {"END", "END_SemiColon"}
  BY DEF EndHereDoc
<1>3. /\ MatchedModes(c) = php.modes /\ InsideAfter(c) = php.inside
      /\ ScriptAfter(c) = php.scriptTag /\ StyleAfter(c) = php.styleTag
  <2>1. /\ ~(PhpMode = "INSIDE" /\ c = ">") /\ ~LeavesInterpolation(c)
        /\ <<PhpMode, c>> \notin Pops /\ ~\E m \in PhpModes : <<PhpMode, c, m>> \in Pushes
    BY <1>2, PopTable, PushTable DEF LeavesInterpolation
  <2>2. QED
    BY <1>1, <2>1, NothingChanges
<1> DEFINE ns == Front(php.modes)
<1>4. /\ PhpPath(ns) /\ Last(ns) = "PHP"
      /\ \A i : Expression(ns, i) <=> Expression(php.modes, i) /\ i # Len(php.modes)
      /\ TagOpen(php.modes) => TagOpen(ns)
  BY <1>1, <1>2, PhpPopped DEF PhpMode, Below
<1>5. php.modes[Len(php.modes)] # "PHP"
  BY <1>1, <1>2, PhpTop DEF PhpMode
<1>6. \A i : Expression(ns, i) <=> Expression(php.modes, i)
  BY <1>4, <1>5 DEF Expression
<1> HIDE DEF ns
<1>7. PICK g \in {"no", "end", "heredoc"}, o \in PhpTokens :
         /\ o # "added_SemiColon"
         /\ php' = [modes |-> ns, scriptTag |-> ScriptAfter(c), styleTag |-> StyleAfter(c),
                    heredoc |-> php.heredoc, prev |-> php.prev, language |-> php.language,
                    phpScript |-> php.phpScript, inside |-> InsideAfter(c), again |-> g, out |-> o]
  <2>1. [Matched(c) EXCEPT !.modes = Front(@)] =
           [modes |-> ns, scriptTag |-> ScriptAfter(c), styleTag |-> StyleAfter(c),
            heredoc |-> php.heredoc, prev |-> php.prev, language |-> php.language,
            phpScript |-> php.phpScript, inside |-> InsideAfter(c), again |-> "no", out |-> c]
    BY <1>1, <1>3, MatchedFields DEF ns
  <2>2. {"SemiColon", "none"} \subseteq PhpTokens
    BY DEF PhpTokens, PhpItems
  <2>3. CASE c = "END_SemiColon"
    <3>1. php' = [[Matched(c) EXCEPT !.modes = Front(@)] EXCEPT !.out = "SemiColon"]
      BY <2>3 DEF EndHereDoc
    <3>2. QED
      BY <3>1, <2>1, <2>2
  <2>4. CASE c # "END_SemiColon"
    <3>1. php' = [[Matched(c) EXCEPT !.modes = Front(@)] EXCEPT !.again = "heredoc", !.out = "none"]
      BY <2>4 DEF EndHereDoc
    <3>2. QED
      BY <3>1, <2>1, <2>2
  <2>5. QED
    BY <2>3, <2>4
<1>8. ComesApart(c) \in BOOLEAN /\ php.phpScript \in BOOLEAN
  BY <1>1, MatchedFields DEF ComesApart
<1>9. PICK odd \in BOOLEAN : odd = (phpSeen.odd \/ ComesApart(c))
  BY <1>1, <1>8
<1>10. QED
  BY <1>3, <1>4, <1>6, <1>7, <1>8, <1>9, PoppedAfter

(* Every other way through nextToken returns what the generated lexer has.  *)
LEMMA OtherSteps ==
    ASSUME PhpIInv, NEW c \in PhpItems, Matches(c),
           \/ HtmlName(c) \/ HtmlDoubleQuoteString(c) \/ StartHereDoc(c)
           \/ OtherPhpToken(c) \/ SecondToken(c),
           NEW last \in PhpItems \union {"none"},
           phpSeen' = [last |-> last, odd |-> phpSeen.odd \/ ComesApart(c)]
    PROVE  PhpIInv'
<1> DEFINE PhpT == [modes : Seq(PhpModes), scriptTag : BOOLEAN, styleTag : BOOLEAN,
                    heredoc : BOOLEAN, prev : PhpItems \union {"none"}, language : BOOLEAN,
                    phpScript : BOOLEAN, inside : BOOLEAN, again : {"no", "end", "heredoc"},
                    out : PhpTokens]
           SameFlags(r) == /\ r \in PhpT /\ r.modes = MatchedModes(c) /\ r.inside = InsideAfter(c)
                           /\ r.scriptTag = ScriptAfter(c) /\ r.styleTag = StyleAfter(c)
<1>1. PhpTypeOK /\ PhpPath(php.modes)
  BY DEF PhpIInv
<1>2. /\ phpSeen' \in [last : PhpItems \union {"none"}, odd : BOOLEAN]
      /\ phpSeen'.odd = (phpSeen.odd \/ ComesApart(c))
  BY <1>1 DEF PhpTypeOK, ComesApart
<1>3. phpSeen.odd \/ OddMatch(c) => phpSeen'.odd
  BY <1>2 DEF OddMatch, ComesApart
<1>4. /\ SameFlags(Matched(c)) /\ c # "added_SemiColon" /\ php.heredoc \in BOOLEAN
      /\ Matched(c).out = c /\ Matched(c).heredoc = php.heredoc
      /\ Matched(c).prev = php.prev /\ Matched(c).phpScript \in BOOLEAN
      /\ php.language \in BOOLEAN /\ php.prev \in PhpItems \union {"none"}
  <2>1. MatchedModes(c) \in Seq(PhpModes)
    BY <1>1, MatchKeeps DEF PhpPath
  <2>2. QED
    BY <2>1, <1>1, MatchedFields
<1>5. c = "<<<" => PhpMode = "PHP"
  <2>1. SUFFICES ASSUME PhpMode # "PHP", c = "<<<"
                 PROVE  FALSE
    OBVIOUS
  <2>2. <<PhpMode, c>> \notin NoEffect /\ <<PhpMode, c>> \notin Pops
    BY <2>1, NoEffectTable, PopTable
  <2>3. \A m : <<PhpMode, c, m>> \notin Pushes
    BY <2>1, PushTable
  <2>4. QED
    BY <2>1, <2>2, <2>3 DEF Matches
<1>6. /\ SameFlags(php') /\ php'.out # "added_SemiColon"
      /\ ~phpSeen'.odd => (c = "<<<" \/ php.heredoc => php'.heredoc)
  <2>1. CASE HtmlName(c)
    <3>1. c # "<<<" /\ (c = "language") \in BOOLEAN
      BY <2>1 DEF HtmlName
    <3>2. php' = [Matched(c) EXCEPT !.language = (c = "language")]
      BY <2>1 DEF HtmlName
    <3>3. QED
      BY <3>1, <3>2, <1>4
  <2>2. CASE HtmlDoubleQuoteString(c)
    <3>1. c # "<<<"
      BY <2>2 DEF HtmlDoubleQuoteString
    <3>2. php' = [Matched(c) EXCEPT !.phpScript = @ \/ php.language]
      BY <2>2 DEF HtmlDoubleQuoteString
    <3>3. QED
      BY <3>1, <3>2, <1>4
  <2>3. CASE StartHereDoc(c)
    <3>1. php' = [Matched(c) EXCEPT !.heredoc = TRUE]
      BY <2>3 DEF StartHereDoc
    <3>2. QED
      BY <3>1, <1>4
  <2>4. CASE OtherPhpToken(c)
    <3>1. PICK p \in PhpItems \union {"none"} : php' = [Matched(c) EXCEPT !.prev = p]
      BY <2>4, <1>4 DEF OtherPhpToken
    <3>2. c # "<<<"
      BY <2>4, <1>5 DEF OtherPhpToken
    <3>3. QED
      BY <3>1, <3>2, <1>4
  <2>5. CASE SecondToken(c)
    <3>1. PICK o \in PhpTokens : o # "added_SemiColon" /\ o = IF IsPhpEnd(c) THEN "PHPEnd" ELSE c
      BY <1>1, MatchedFields DEF PhpTokens
    <3>2. PICK h \in BOOLEAN : h = (php.heredoc /\ c # "<<<")
      BY <1>4
    <3>3. php' = [Matched(c) EXCEPT !.heredoc = h, !.out = o]
      BY <2>5, <3>1, <3>2, <1>4 DEF SecondToken
    <3>4. ~phpSeen'.odd => c # "<<<"
      BY <2>5, <1>2 DEF SecondToken, ComesApart
    <3>5. QED
      BY <3>1, <3>2, <3>3, <3>4, <1>4
  <2>6. QED
    BY <2>1, <2>2, <2>3, <2>4, <2>5
<1>7. PhpTypeOK'
  BY <1>2, <1>6 DEF PhpTypeOK
<1>8. QED
  BY <1>3, <1>6, <1>7, MatchedOnly

---------------------------------------------------------------------------
(* The invariant.                                                           *)

LEMMA EmptyPath == PhpPath(<<"DEFAULT">>) /\ Last(<<"DEFAULT">>) = "DEFAULT"
<1>1. <<"DEFAULT">> \in Seq(PhpModes) /\ <<"DEFAULT">> # <<>> /\ Len(<<"DEFAULT">>) = 1
  BY Singleton DEF PhpModes
<1>2. (\A i \in 2..1 : FALSE) /\ \A i \in 1..1 : i = 1
  OBVIOUS
<1>3. QED
  BY <1>1, <1>2 DEF PhpPath, Last

LEMMA PhpStarts == PhpInit => PhpIInv
<1>1. SUFFICES ASSUME PhpInit
               PROVE  PhpIInv
  OBVIOUS
<1>2. /\ php.modes = <<"DEFAULT">> /\ PhpMode = "DEFAULT" /\ php.out = "none"
      /\ ~php.inside /\ ~php.scriptTag /\ ~php.styleTag
  BY <1>1, EmptyPath DEF PhpInit, PhpMode
<1>3. <<"DEFAULT">> \in Seq(PhpModes)
  BY EmptyPath DEF PhpPath
<1>4. PhpTypeOK
  BY <1>1, <1>3 DEF PhpInit, PhpTypeOK, PhpTokens
<1>5. \A i : ~Expression(php.modes, i)
  BY <1>2 DEF Expression
<1>6. FlagsFit(php.modes, php.inside, php.scriptTag, php.styleTag)
  BY <1>2, <1>5 DEF FlagsFit, OneExpression
<1>7. QED
  BY <1>2, <1>4, <1>6, EmptyPath DEF PhpIInv, PhpEndLeft, PhpFit

LEMMA PhpPreserved == PhpIInv /\ [PhpNext]_phpVars => PhpIInv'
<1> SUFFICES ASSUME PhpIInv, [PhpNext]_phpVars
             PROVE  PhpIInv'
  OBVIOUS
<1>1. CASE PhpReset
  <2>1. /\ php' = [php EXCEPT !.modes = <<"DEFAULT">>, !.again = "no", !.out = "none"]
        /\ phpSeen' = [last |-> "none", odd |-> TRUE]
    BY <1>1 DEF PhpReset
  <2>2. PhpTypeOK /\ <<"DEFAULT">> \in Seq(PhpModes)
    BY EmptyPath DEF PhpIInv, PhpPath
  <2>3. PhpTypeOK' /\ php'.modes = <<"DEFAULT">> /\ php'.out = "none" /\ phpSeen'.odd
    BY <2>1, <2>2 DEF PhpTypeOK, PhpTokens
  <2>4. QED
    BY <2>3, EmptyPath DEF PhpIInv, PhpEndLeft, PhpFit
<1>2. ASSUME NEW c \in PhpItems, PhpStep(c)
      PROVE  PhpIInv'
  <2>1. /\ Matches(c)
        /\ phpSeen' = [last |-> IF PhpMode = "PHP" /\ c \notin {"//", "?>"} THEN c ELSE phpSeen.last,
                       odd  |-> phpSeen.odd \/ ComesApart(c)]
    BY <1>2 DEF PhpStep
  <2>2. phpSeen.last \in PhpItems \union {"none"}
    BY DEF PhpIInv, PhpTypeOK
  <2>3. PICK last \in PhpItems \union {"none"} :
           phpSeen' = [last |-> last, odd |-> phpSeen.odd \/ ComesApart(c)]
    BY <2>1, <2>2
  <2>4. CASE PhpEnd(c)
    BY <2>1, <2>3, <2>4, PhpEnds
  <2>5. CASE EndHereDoc(c)
    BY <2>1, <2>3, <2>5, HereDocEnds
  <2>6. CASE \/ HtmlName(c) \/ HtmlDoubleQuoteString(c) \/ StartHereDoc(c)
             \/ OtherPhpToken(c) \/ SecondToken(c)
    BY <2>1, <2>3, <2>6, OtherSteps
  <2>7. QED
    BY <1>2, <2>4, <2>5, <2>6 DEF PhpStep
<1>3. CASE UNCHANGED phpVars
  <2>1. php' = php /\ phpSeen' = phpSeen
    BY <1>3 DEF phpVars
  <2>2. PhpTypeOK' /\ PhpPath(php.modes)' /\ PhpEndLeft' /\ PhpFit'
    BY <2>1 DEF PhpIInv, PhpTypeOK, PhpEndLeft, PhpFit, PhpMode
  <2>3. QED
    BY <2>2 DEF PhpIInv
<1>4. QED
  BY <1>1, <1>2, <1>3 DEF PhpNext

THEOREM PhpInvariance == PhpSpec => []PhpIInv
BY PhpStarts, PhpPreserved, PTL DEF PhpSpec

(* nextToken, PushModeOnHtmlClose and PopModeOnCurlyBracketClose: whatever  *)
(* the page, and whatever a reset has left of the flags, the modes are a    *)
(* path that the grammar means, and ?> leaves PHP.                          *)
THEOREM PathKept == PhpSpec => []PhpPathOK
<1>1. PhpIInv => PhpPathOK
  BY DEF PhpIInv, PhpPath, PhpEndLeft, PhpPathOK
<1>2. QED
  BY <1>1, PhpInvariance, PTL

(* The flags of the lexer agree with its modes, however deep strings,       *)
(* expressions, comments and heredocs are nested.                           *)
THEOREM FlagsKept == PhpSpec => []PhpFlagsOK
<1>1. ASSUME PhpIInv
      PROVE  PhpFlagsOK
  <2>1. SUFFICES ASSUME ~phpSeen.odd
                 PROVE  /\ php.inside <=>
                              \E i \in 2..Len(php.modes) : php.modes[i] = "PHP" /\ php.modes[i - 1] = "INTERPOLATION"
                        /\ php.scriptTag \/ php.styleTag => "INSIDE" \in ToSet(php.modes)
                        /\ ~(php.scriptTag /\ php.styleTag)
                        /\ PhpMode = "HEREDOC" => php.heredoc
    BY DEF PhpFlagsOK
  <2>2. /\ FlagsFit(php.modes, php.inside, php.scriptTag, php.styleTag)
        /\ PhpMode = "HEREDOC" => php.heredoc
    BY <1>1, <2>1 DEF PhpIInv, PhpFit
  <2>3. TagOpen(php.modes) => "INSIDE" \in ToSet(php.modes)
    BY DEF TagOpen, ToSet
  <2>4. QED
    BY <2>2, <2>3 DEF FlagsFit, Expression
<1>2. PhpIInv => PhpFlagsOK
  BY <1>1
<1>3. QED
  BY <1>2, PhpInvariance, PTL

---------------------------------------------------------------------------
(* The JavaScript lexer.                                                    *)

(* What the lexer keeps of the nesting of the input: the depth, those of    *)
(* the template expressions, and the modes.  It is what reading the braces  *)
(* and ticks that are open, from the outermost on, makes of an empty lexer  *)
(* that has closed `extra` braces in excess.                                *)
JsOpens == {"brace", "$brace", "tick"}
JsModes == {"DEFAULT", "TEMPLATE"}

JsNests ==
    {a \in [depth : Int, templates : Seq(Int), modes : Seq(JsModes)] :
        a.modes # <<>> /\ \A i \in 1..Len(a.templates) : a.templates[i] <= a.depth}

JsAdds(a, x, b) ==
    \/ /\ x = "brace" /\ Last(a.modes) = "DEFAULT"
       /\ b.depth = a.depth + 1 /\ b.templates = a.templates /\ b.modes = a.modes
    \/ /\ x = "$brace" /\ Last(a.modes) = "TEMPLATE"
       /\ b.depth = a.depth + 1 /\ b.templates = Append(a.templates, a.depth + 1)
       /\ b.modes = Append(a.modes, "DEFAULT")
    \/ /\ x = "tick" /\ Last(a.modes) = "DEFAULT"
       /\ b.depth = a.depth /\ b.templates = a.templates
       /\ b.modes = Append(a.modes, "TEMPLATE")

JsOpening == {s \in JsNests \X JsOpens \X JsNests : JsAdds(s[1], s[2], s[3])}

JsEmpty(extra) == [depth |-> 0 - extra, templates |-> <<>>, modes |-> <<"DEFAULT">>]

JsNest == [depth |-> js.depth, templates |-> js.templates, modes |-> js.modes]

JsNestOK == Leads(JsOpening, JsEmpty(jsSeen.extra), jsSeen.open, JsNest)

LEMMA JsNestIs ==
    ASSUME NEW d, NEW ts, NEW ms, NEW a, a = [depth |-> d, templates |-> ts, modes |-> ms]
    PROVE  /\ a.depth = d /\ a.templates = ts /\ a.modes = ms
           /\ a \in JsNests <=>
                /\ d \in Int /\ ts \in Seq(Int) /\ ms \in Seq(JsModes)
                /\ ms # <<>> /\ \A i \in 1..Len(ts) : ts[i] <= d
BY DEF JsNests

LEMMA JsNestParts ==
    ASSUME NEW a \in JsNests
    PROVE  /\ a = [depth |-> a.depth, templates |-> a.templates, modes |-> a.modes]
           /\ a.depth \in Int /\ a.templates \in Seq(Int) /\ a.modes \in Seq(JsModes)
           /\ a.modes # <<>> /\ Len(a.templates) \in Nat
           /\ \A i \in 1..Len(a.templates) : a.templates[i] \in Int /\ a.templates[i] <= a.depth
<1>1. /\ a \in [depth : Int, templates : Seq(Int), modes : Seq(JsModes)]
      /\ a.modes # <<>> /\ \A i \in 1..Len(a.templates) : a.templates[i] <= a.depth
  BY DEF JsNests
<1>2. /\ a = [depth |-> a.depth, templates |-> a.templates, modes |-> a.modes]
      /\ a.depth \in Int /\ a.templates \in Seq(Int) /\ a.modes \in Seq(JsModes)
  BY <1>1
<1>3. Len(a.templates) \in Nat /\ \A i \in 1..Len(a.templates) : a.templates[i] \in Int
  BY <1>2, ElementOfSeq, LenProperties
<1>4. QED
  BY <1>1, <1>2, <1>3

LEMMA JsEmptyNest ==
    ASSUME NEW e \in Nat
    PROVE  JsEmpty(e) \in JsNests
<1>1. <<>> \in Seq(Int) /\ Len(<<>>) = 0 /\ <<"DEFAULT">> \in Seq(JsModes) /\ <<"DEFAULT">> # <<>>
  BY EmptySeq, Singleton DEF JsModes
<1>2. 0 - e \in Int
  OBVIOUS
<1>3. QED
  BY <1>1, <1>2 DEF JsEmpty, JsNests

LEMMA JsOpeningIs ==
    ASSUME NEW a, NEW x, NEW b
    PROVE  <<a, x, b>> \in JsOpening <=>
              a \in JsNests /\ x \in JsOpens /\ b \in JsNests /\ JsAdds(a, x, b)
BY DEF JsOpening

(* What an opening adds keeps the depths in their order.                    *)
LEMMA JsOpened ==
    ASSUME NEW a \in JsNests, NEW b, NEW x \in JsOpens, JsAdds(a, x, b),
           b = [depth |-> b.depth, templates |-> b.templates, modes |-> b.modes]
    PROVE  <<a, x, b>> \in JsOpening
<1>1. /\ a.depth \in Int /\ a.templates \in Seq(Int) /\ a.modes \in Seq(JsModes)
      /\ a.modes # <<>> /\ Len(a.templates) \in Nat
      /\ \A i \in 1..Len(a.templates) : a.templates[i] \in Int /\ a.templates[i] <= a.depth
  BY JsNestParts
<1>2. PICK d \in Int, ts \in Seq(Int), ms \in Seq(JsModes) :
         d = a.depth /\ ts = a.templates /\ ms = a.modes
  BY <1>1
<1>3. /\ ms # <<>> /\ Len(ts) \in Nat
      /\ \A i \in 1..Len(ts) : ts[i] \in Int /\ ts[i] <= d
  BY <1>1, <1>2
<1>4. \A i \in 1..Len(ts) : ts[i] <= d + 1
  <2> TAKE i \in 1..Len(ts)
  <2>1. ts[i] \in Int /\ ts[i] <= d
    BY <1>3
  <2>2. QED
    BY <2>1
<1>5. \A m \in JsModes : Append(ms, m) \in Seq(JsModes) /\ Append(ms, m) # <<>>
  BY AppendLast
<1>6. /\ Append(ts, d + 1) \in Seq(Int)
      /\ \A i \in 1..Len(Append(ts, d + 1)) : Append(ts, d + 1)[i] <= d + 1
  <2>1. PICK e \in Int : e = d + 1
    OBVIOUS
  <2>2. PICK us \in Seq(Int) : us = Append(ts, e)
    BY AppendLast
  <2>3. /\ Len(us) = Len(ts) + 1 /\ us[Len(ts) + 1] = e
        /\ \A i \in 1..Len(ts) : us[i] = ts[i]
    BY <2>2, AppendLast
  <2>4. ASSUME NEW i \in 1..Len(us) PROVE us[i] <= e
    <3>1. CASE i = Len(ts) + 1
      BY <2>3, <3>1
    <3>2. CASE i # Len(ts) + 1
      <4>1. i \in 1..Len(ts)
        BY <1>3, <2>3, <3>2
      <4>2. us[i] = ts[i] /\ ts[i] <= d + 1
        BY <1>4, <2>3, <4>1
      <4>3. QED
        BY <2>1, <4>2
    <3>3. QED
      BY <3>1, <3>2
  <2>5. QED
    BY <2>1, <2>2, <2>4
<1>7. "DEFAULT" \in JsModes /\ "TEMPLATE" \in JsModes
  BY DEF JsModes
<1>8. /\ b.depth \in Int /\ b.templates \in Seq(Int) /\ b.modes \in Seq(JsModes)
      /\ b.modes # <<>> /\ \A i \in 1..Len(b.templates) : b.templates[i] <= b.depth
  <2>1. CASE x = "brace"
    <3>1. b.depth = d + 1 /\ b.templates = ts /\ b.modes = ms
      BY <1>2, <2>1 DEF JsAdds
    <3>2. QED
      BY <1>3, <1>4, <3>1
  <2>2. CASE x = "$brace"
    <3>1. b.depth = d + 1 /\ b.templates = Append(ts, d + 1) /\ b.modes = Append(ms, "DEFAULT")
      BY <1>2, <2>2 DEF JsAdds
    <3>2. QED
      BY <1>5, <1>6, <1>7, <3>1
  <2>3. CASE x = "tick"
    <3>1. b.depth = d /\ b.templates = ts /\ b.modes = Append(ms, "TEMPLATE")
      BY <1>2, <2>3 DEF JsAdds
    <3>2. QED
      BY <1>3, <1>5, <1>7, <3>1
  <2>4. QED
    BY <2>1, <2>2, <2>3 DEF JsOpens
<1>9. b \in JsNests
  BY <1>8, JsNestIs
<1>10. QED
  BY <1>9, JsOpeningIs

(* The modes of the templates and template expressions that are open.       *)
JsModesOf(l) == [i \in 1..Len(l) |-> IF l[i] = "tick" THEN "TEMPLATE" ELSE "DEFAULT"]

LEMMA JsModesOfNext ==
    ASSUME NEW l \in Seq(JsOpens), NEW x \in JsOpens
    PROVE  /\ JsModesOf(l) \in Seq(JsModes)
           /\ JsModesOf(Append(l, x))
                = Append(JsModesOf(l), IF x = "tick" THEN "TEMPLATE" ELSE "DEFAULT")
<1> DEFINE m == IF x = "tick" THEN "TEMPLATE" ELSE "DEFAULT"
           M(k) == [i \in 1..Len(k) |-> IF k[i] = "tick" THEN "TEMPLATE" ELSE "DEFAULT"]
<1>1. \A k \in Seq(JsOpens) :
        /\ Len(k) \in Nat /\ M(k) \in Seq(JsModes) /\ Len(M(k)) = Len(k)
        /\ \A i \in 1..Len(k) : M(k)[i] = IF k[i] = "tick" THEN "TEMPLATE" ELSE "DEFAULT"
  <2> TAKE k \in Seq(JsOpens)
  <2>1. Len(k) \in Nat
    BY LenProperties
  <2>2. QED
    BY <2>1 DEF JsModes
<1>2. m \in JsModes
  BY DEF JsModes
<1>3. PICK u \in Seq(JsOpens) : u = Append(l, x)
  BY AppendLast
<1>4. Len(u) = Len(l) + 1 /\ u[Len(l) + 1] = x /\ \A i \in 1..Len(l) : u[i] = l[i]
  BY <1>3, AppendLast
<1>5. PICK a \in Seq(JsModes), b \in Seq(JsModes) : a = M(l) /\ b = M(u)
  BY <1>1
<1>6. /\ Len(a) = Len(l) /\ Len(b) = Len(u) /\ Len(l) \in Nat
      /\ \A i \in 1..Len(l) : a[i] = IF l[i] = "tick" THEN "TEMPLATE" ELSE "DEFAULT"
      /\ \A i \in 1..Len(u) : b[i] = IF u[i] = "tick" THEN "TEMPLATE" ELSE "DEFAULT"
  BY <1>1, <1>5
<1> HIDE DEF M, m
<1>7. PICK c \in Seq(JsModes) : c = Append(a, m)
  BY <1>2, AppendLast
<1>8. Len(c) = Len(a) + 1 /\ c[Len(a) + 1] = m /\ \A i \in 1..Len(a) : c[i] = a[i]
  BY <1>2, <1>7, AppendLast
<1>9. ASSUME NEW i \in 1..Len(b) PROVE b[i] = c[i]
  <2>1. CASE i = Len(l) + 1
    BY <2>1, <1>4, <1>6, <1>8 DEF m
  <2>2. CASE i # Len(l) + 1
    <3>1. i \in 1..Len(l) /\ i \in 1..Len(u)
      BY <1>4, <1>6, <2>2
    <3>2. u[i] = l[i] /\ c[i] = a[i]
      BY <1>4, <1>6, <1>8, <3>1
    <3>3. QED
      BY <1>6, <3>1, <3>2
  <2>3. QED
    BY <2>1, <2>2
<1>10. b = c
  BY <1>4, <1>6, <1>8, <1>9, SeqEqual
<1>11. JsModesOf(l) = M(l) /\ JsModesOf(u) = M(u)
  BY DEF JsModesOf, M
<1>12. QED
  BY <1>3, <1>5, <1>7, <1>10, <1>11 DEF m

(* Counting what is open.                                                   *)
LEMMA CountNext ==
    ASSUME NEW s \in Seq(JsOpens), NEW x \in JsOpens, NEW y \in JsOpens
    PROVE  /\ Count(s, y) \in Nat /\ Count(<<>>, y) = 0
           /\ Count(Append(s, x), y) = Count(s, y) + (IF x = y THEN 1 ELSE 0)
<1>1. OnlyIn(Append(s, x), {y}) = IF x \in {y} THEN Append(OnlyIn(s, {y}), x) ELSE OnlyIn(s, {y})
  BY OnlyInAppend
<1>2. PICK o \in Seq(JsOpens \cap {y}) : o = OnlyIn(s, {y})
  BY OnlyInType
<1>3. Len(o) \in Nat
  BY LenProperties
<1>4. x = y => Len(Append(o, x)) = Len(o) + 1
  <2>1. x = y => x \in JsOpens \cap {y}
    OBVIOUS
  <2>2. QED
    BY <2>1, AppendLast
<1>5. Count(<<>>, y) = 0
  <2>1. OnlyIn(<<>>, {y}) = <<>>
    BY OnlyInEmpty
  <2>2. QED
    BY <2>1 DEF Count
<1>6. CASE x = y
  BY <1>1, <1>2, <1>3, <1>4, <1>5, <1>6 DEF Count
<1>7. CASE x # y
  BY <1>1, <1>2, <1>3, <1>5, <1>7 DEF Count
<1>8. QED
  BY <1>6, <1>7

JsNestFacts(e, s, b) ==
    /\ b \in JsNests
    /\ b.depth = Braces(s) - e
    /\ Len(b.templates) = Count(s, "$brace")
    /\ b.modes = <<"DEFAULT">> \o JsModesOf(OnlyIn(s, {"$brace", "tick"}))

LEMMA JsNestEmpty ==
    ASSUME NEW e \in Nat
    PROVE  JsNestFacts(e, <<>>, JsEmpty(e))
<1>1. JsEmpty(e) \in JsNests
  BY JsEmptyNest
<1>2. <<>> \in Seq(JsOpens) /\ "brace" \in JsOpens /\ "$brace" \in JsOpens
  BY EmptySeq DEF JsOpens
<1>3. Count(<<>>, "brace") = 0 /\ Count(<<>>, "$brace") = 0
  BY <1>2, CountNext
<1>4. Braces(<<>>) = 0
  BY <1>3 DEF Braces
<1>5. OnlyIn(<<>>, {"$brace", "tick"}) = <<>>
  BY OnlyInEmpty
<1>6. JsModesOf(<<>>) = <<>>
  BY DEF JsModesOf
<1>7. <<"DEFAULT">> \o <<>> = <<"DEFAULT">>
  <2>1. <<"DEFAULT">> \in Seq(JsModes)
    BY Singleton DEF JsModes
  <2>2. QED
    BY <2>1, ConcatEmptySeq
<1>8. JsEmpty(e).depth = 0 - e /\ JsEmpty(e).templates = <<>> /\ JsEmpty(e).modes = <<"DEFAULT">>
  BY DEF JsEmpty
<1>9. Len(<<>>) = 0
  OBVIOUS
<1>10. QED
  BY <1>1, <1>3, <1>4, <1>5, <1>6, <1>7, <1>8, <1>9 DEF JsNestFacts

LEMMA JsNestNext ==
    ASSUME NEW e \in Nat, NEW s \in Seq(JsOpens), NEW a, NEW x, NEW b,
           JsNestFacts(e, s, a), <<a, x, b>> \in JsOpening
    PROVE  JsNestFacts(e, Append(s, x), b)
<1>1. a \in JsNests /\ x \in JsOpens /\ b \in JsNests /\ JsAdds(a, x, b)
  BY JsOpeningIs
<1>2. /\ a.depth \in Int /\ a.templates \in Seq(Int) /\ a.modes \in Seq(JsModes)
      /\ Len(a.templates) \in Nat
  BY <1>1, JsNestParts
<1>3. /\ a.depth = Braces(s) - e /\ Len(a.templates) = Count(s, "$brace")
      /\ a.modes = <<"DEFAULT">> \o JsModesOf(OnlyIn(s, {"$brace", "tick"}))
  BY DEF JsNestFacts
<1>4. /\ Count(s, "brace") \in Nat /\ Count(s, "$brace") \in Nat
      /\ Count(Append(s, x), "brace") = Count(s, "brace") + (IF x = "brace" THEN 1 ELSE 0)
      /\ Count(Append(s, x), "$brace") = Count(s, "$brace") + (IF x = "$brace" THEN 1 ELSE 0)
  BY <1>1, CountNext DEF JsOpens
<1>5. Braces(Append(s, x)) = Braces(s) + (IF x = "tick" THEN 0 ELSE 1) /\ Braces(s) \in Nat
  <2>1. x \in {"brace", "$brace", "tick"}
    BY <1>1 DEF JsOpens
  <2>2. QED
    BY <1>4, <2>1 DEF Braces
<1>6. PICK l \in Seq(JsOpens) : l = OnlyIn(s, {"$brace", "tick"})
  <2>1. JsOpens \cap {"$brace", "tick"} \subseteq JsOpens
    OBVIOUS
  <2>2. OnlyIn(s, {"$brace", "tick"}) \in Seq(JsOpens \cap {"$brace", "tick"})
    BY OnlyInType
  <2>3. PICK S : S = JsOpens \cap {"$brace", "tick"}
    OBVIOUS
  <2>4. PICK o \in Seq(S) : o = OnlyIn(s, {"$brace", "tick"})
    BY <2>2, <2>3
  <2>5. o \in Seq(JsOpens)
    BY <2>1, <2>3, SeqMonotonic
  <2>6. QED
    BY <2>4, <2>5
<1>7. OnlyIn(Append(s, x), {"$brace", "tick"}) = IF x \in {"$brace", "tick"} THEN Append(l, x) ELSE l
  BY <1>1, <1>6, OnlyInAppend
<1>8. PICK ms \in Seq(JsModes) : ms = JsModesOf(l)
  BY <1>1, JsModesOfNext
<1>9. JsModesOf(Append(l, x)) = Append(ms, IF x = "tick" THEN "TEMPLATE" ELSE "DEFAULT")
  BY <1>1, <1>8, JsModesOfNext
<1>10. /\ "DEFAULT" \in JsModes /\ "TEMPLATE" \in JsModes
       /\ \A m \in JsModes : <<"DEFAULT">> \o Append(ms, m) = Append(<<"DEFAULT">> \o ms, m)
  <2>1. PICK d \in Seq(JsModes) : d = <<"DEFAULT">>
    BY Singleton DEF JsModes
  <2>2. \A m \in JsModes : d \o Append(ms, m) = Append(d \o ms, m)
    BY AppendConcat
  <2>3. QED
    BY <2>1, <2>2 DEF JsModes
<1>11. a.modes = <<"DEFAULT">> \o ms
  BY <1>3, <1>6, <1>8
<1>12. CASE x = "brace"
  <2>1. b.depth = a.depth + 1 /\ b.templates = a.templates /\ b.modes = a.modes
    BY <1>1, <1>12 DEF JsAdds
  <2>2. OnlyIn(Append(s, x), {"$brace", "tick"}) = l
    BY <1>7, <1>12
  <2>3. b.depth = Braces(Append(s, x)) - e
    BY <1>3, <1>5, <1>12, <2>1
  <2>4. Len(b.templates) = Count(Append(s, x), "$brace")
    BY <1>3, <1>4, <1>12, <2>1
  <2>5. QED
    BY <1>1, <1>8, <1>11, <2>1, <2>2, <2>3, <2>4 DEF JsNestFacts
<1>13. CASE x = "$brace"
  <2>1. /\ b.depth = a.depth + 1 /\ b.templates = Append(a.templates, a.depth + 1)
        /\ b.modes = Append(a.modes, "DEFAULT")
    BY <1>1, <1>13 DEF JsAdds
  <2>2. OnlyIn(Append(s, x), {"$brace", "tick"}) = Append(l, x)
    BY <1>7, <1>13
  <2>3. b.depth = Braces(Append(s, x)) - e
    BY <1>3, <1>5, <1>13, <2>1
  <2>4. Len(b.templates) = Count(Append(s, x), "$brace")
    <3>1. PICK d \in Int : d = a.depth + 1
      BY <1>2
    <3>2. Len(Append(a.templates, d)) = Len(a.templates) + 1
      BY <1>2, AppendLast
    <3>3. QED
      BY <1>3, <1>4, <1>13, <2>1, <3>1, <3>2
  <2>5. b.modes = <<"DEFAULT">> \o JsModesOf(Append(l, x))
    BY <1>9, <1>10, <1>11, <1>13, <2>1
  <2>6. QED
    BY <1>1, <2>2, <2>3, <2>4, <2>5 DEF JsNestFacts
<1>14. CASE x = "tick"
  <2>1. b.depth = a.depth /\ b.templates = a.templates /\ b.modes = Append(a.modes, "TEMPLATE")
    BY <1>1, <1>14 DEF JsAdds
  <2>2. OnlyIn(Append(s, x), {"$brace", "tick"}) = Append(l, x)
    BY <1>7, <1>14
  <2>3. b.depth = Braces(Append(s, x)) - e
    BY <1>3, <1>5, <1>14, <2>1
  <2>4. Len(b.templates) = Count(Append(s, x), "$brace")
    BY <1>3, <1>4, <1>14, <2>1
  <2>5. b.modes = <<"DEFAULT">> \o JsModesOf(Append(l, x))
    BY <1>9, <1>10, <1>11, <1>14, <2>1
  <2>6. QED
    BY <1>1, <2>2, <2>3, <2>4, <2>5 DEF JsNestFacts
<1>15. QED
  BY <1>1, <1>12, <1>13, <1>14 DEF JsOpens

(* However the input nests, the depth is the number of braces that are      *)
(* open, and the modes are those of the templates.                          *)
LEMMA JsNesting ==
    ASSUME NEW e \in Nat
    PROVE  \A s \in Seq(JsOpens) : \A b : Leads(JsOpening, JsEmpty(e), s, b) => JsNestFacts(e, s, b)
<1> DEFINE P == {s \in Seq(JsOpens) : \A b : Leads(JsOpening, JsEmpty(e), s, b) => JsNestFacts(e, s, b)}
<1>1. <<>> \in P
  <2>1. <<>> \in Seq(JsOpens)
    BY EmptySeq
  <2>2. \A b : Leads(JsOpening, JsEmpty(e), <<>>, b) => b = JsEmpty(e)
    BY LeadsEmpty
  <2>3. QED
    BY <2>1, <2>2, JsNestEmpty
<1>2. \A s \in Seq(JsOpens), x \in JsOpens : s \in P => Append(s, x) \in P
  <2> SUFFICES ASSUME NEW s \in Seq(JsOpens), NEW x \in JsOpens,
                      \A b : Leads(JsOpening, JsEmpty(e), s, b) => JsNestFacts(e, s, b),
                      NEW b, Leads(JsOpening, JsEmpty(e), Append(s, x), b)
               PROVE  JsNestFacts(e, Append(s, x), b)
    BY AppendLast
  <2>1. PICK u \in Seq(JsOpens) : u = Append(s, x)
    BY AppendLast
  <2>2. u # <<>> /\ Front(u) = s /\ Last(u) = x
    BY <2>1, AppendLast, PushPop
  <2>3. PICK a : Leads(JsOpening, JsEmpty(e), Front(u), a) /\ <<a, Last(u), b>> \in JsOpening
    BY <2>1, <2>2, LeadsFront
  <2>4. JsNestFacts(e, s, a) /\ <<a, x, b>> \in JsOpening
    BY <2>2, <2>3
  <2>5. QED
    BY <2>4, JsNestNext
<1> HIDE DEF P
<1>3. Seq(JsOpens) \subseteq P
  BY <1>1, <1>2, SeqInduction
<1>4. QED
  BY <1>3 DEF P

(* The innermost opening, as the depths and the mode tell it.               *)
LEMMA JsInnermost ==
    ASSUME NEW e \in Nat, NEW s \in Seq(JsOpens), NEW b, Leads(JsOpening, JsEmpty(e), s, b)
    PROVE  /\ b \in JsNests
           /\ s = <<>> => b = JsEmpty(e) /\ b.templates = <<>> /\ Last(b.modes) = "DEFAULT"
           /\ s # <<>> =>
                /\ Last(s) \in JsOpens
                /\ Last(b.modes) = IF Last(s) = "tick" THEN "TEMPLATE" ELSE "DEFAULT"
                /\ Last(s) = "$brace" => b.templates # <<>> /\ Last(b.templates) = b.depth
                /\ Last(s) = "brace" => b.templates = <<>> \/ Last(b.templates) # b.depth
                /\ \E a \in JsNests :
                      /\ Leads(JsOpening, JsEmpty(e), Front(s), a)
                      /\ JsAdds(a, Last(s), b)
<1>1. b \in JsNests
  BY JsNesting DEF JsNestFacts
<1>2. ASSUME s = <<>>
      PROVE  b = JsEmpty(e) /\ b.templates = <<>> /\ Last(b.modes) = "DEFAULT"
  <2>1. b = JsEmpty(e)
    BY <1>2, LeadsEmpty
  <2>2. Last(<<"DEFAULT">>) = "DEFAULT"
    BY DEF Last
  <2>3. QED
    BY <2>1, <2>2 DEF JsEmpty
<1>3. ASSUME s # <<>>
      PROVE  /\ Last(s) \in JsOpens
             /\ Last(b.modes) = IF Last(s) = "tick" THEN "TEMPLATE" ELSE "DEFAULT"
             /\ Last(s) = "$brace" => b.templates # <<>> /\ Last(b.templates) = b.depth
             /\ Last(s) = "brace" => b.templates = <<>> \/ Last(b.templates) # b.depth
             /\ \E a \in JsNests :
                   /\ Leads(JsOpening, JsEmpty(e), Front(s), a)
                   /\ JsAdds(a, Last(s), b)
  <2>1. PICK a : Leads(JsOpening, JsEmpty(e), Front(s), a) /\ <<a, Last(s), b>> \in JsOpening
    BY <1>3, LeadsFront
  <2>2. PICK x : x = Last(s)
    OBVIOUS
  <2>3. a \in JsNests /\ x \in JsOpens /\ JsAdds(a, x, b)
    BY <2>1, <2>2, JsOpeningIs
  <2>4. /\ a.depth \in Int /\ a.templates \in Seq(Int) /\ a.modes \in Seq(JsModes)
        /\ a.modes # <<>> /\ Len(a.templates) \in Nat
        /\ \A i \in 1..Len(a.templates) : a.templates[i] \in Int /\ a.templates[i] <= a.depth
    BY <2>3, JsNestParts
  <2>5. PICK d \in Int, ts \in Seq(Int), ms \in Seq(JsModes) :
           d = a.depth /\ ts = a.templates /\ ms = a.modes
    BY <2>4
  <2>6. \A m \in JsModes : Last(Append(ms, m)) = m
    BY AppendLast
  <2>7. Append(ts, d + 1) # <<>> /\ Last(Append(ts, d + 1)) = d + 1
    <3>1. PICK f \in Int : f = d + 1
      OBVIOUS
    <3>2. Append(ts, f) # <<>> /\ Last(Append(ts, f)) = f
      BY AppendLast
    <3>3. QED
      BY <3>1, <3>2
  <2>8. ts = <<>> \/ Last(ts) # d + 1
    <3> SUFFICES ASSUME ts # <<>> PROVE Last(ts) # d + 1
      OBVIOUS
    <3>1. Len(ts) \in Nat \ {0} /\ Last(ts) = ts[Len(ts)]
      BY FrontLast
    <3>2. ts[Len(ts)] \in Int /\ ts[Len(ts)] <= d
      BY <2>4, <2>5, <3>1
    <3>3. QED
      BY <3>1, <3>2
  <2>9. CASE x = "brace"
    <3>1. b.depth = d + 1 /\ b.templates = ts /\ Last(b.modes) = "DEFAULT"
      BY <2>3, <2>5, <2>9 DEF JsAdds
    <3>2. QED
      BY <2>1, <2>2, <2>3, <2>8, <2>9, <3>1
  <2>10. CASE x = "$brace"
    <3>1. b.depth = d + 1 /\ b.templates = Append(ts, d + 1) /\ b.modes = Append(ms, "DEFAULT")
      BY <2>3, <2>5, <2>10 DEF JsAdds
    <3>2. Last(b.modes) = "DEFAULT"
      BY <2>6, <3>1 DEF JsModes
    <3>3. QED
      BY <2>1, <2>2, <2>3, <2>7, <2>10, <3>1, <3>2
  <2>11. CASE x = "tick"
    <3>1. b.modes = Append(ms, "TEMPLATE")
      BY <2>3, <2>5, <2>11 DEF JsAdds
    <3>2. Last(b.modes) = "TEMPLATE"
      BY <2>6, <3>1 DEF JsModes
    <3>3. QED
      BY <2>1, <2>2, <2>3, <2>11, <3>2
  <2>12. QED
    BY <2>3, <2>9, <2>10, <2>11 DEF JsOpens
<1>4. QED
  BY <1>1, <1>2, <1>3

(* The inductive invariant.  What a directive changes depends on the token  *)
(* before it: nothing is open at the beginning, a scope behind a brace.     *)
JsScopesKept ==
    /\ Len(jsSeen.truth) = Count(jsSeen.open, "brace")
    /\ ~js.default => (jsSeen.file <=> jsSeen.directive)
    /\ js.last = "none" => js.scopes = <<>> /\ jsSeen.truth = <<>> /\ ~jsSeen.directive
    /\ js.last = "OpenBrace" => jsSeen.truth # <<>>
    /\ ScopesOK

JsIInv == JsTypeOK /\ JsNestOK /\ JsScopesKept

JsT == [strict : BOOLEAN, default : BOOLEAN, scopes : Seq(BOOLEAN), depth : Int,
        templates : Seq(Int), modes : Seq(JsModes), last : JsTokens, out : JsTokens]
JsSeenT == [open : Seq(JsOpens), file : BOOLEAN, directive : BOOLEAN,
            truth : Seq(BOOLEAN), extra : Nat, left : BOOLEAN]

LEMMA JsTypes ==
    /\ JsTypeOK <=> js \in JsT /\ jsSeen \in JsSeenT /\ jsRun \in Seq(JsHidden)
    /\ JsTypeOK' <=> js' \in JsT /\ jsSeen' \in JsSeenT /\ jsRun' \in Seq(JsHidden)
BY DEF JsTypeOK, JsT, JsSeenT, JsModes, JsOpens

LEMMA JsParts ==
    ASSUME JsIInv
    PROVE  /\ js \in JsT /\ jsSeen \in JsSeenT
           /\ js.strict \in BOOLEAN /\ js.default \in BOOLEAN /\ js.scopes \in Seq(BOOLEAN)
           /\ js.depth \in Int /\ js.templates \in Seq(Int) /\ js.modes \in Seq(JsModes)
           /\ jsSeen.open \in Seq(JsOpens) /\ jsSeen.file \in BOOLEAN
           /\ jsSeen.directive \in BOOLEAN /\ jsSeen.truth \in Seq(BOOLEAN)
           /\ jsSeen.extra \in Nat /\ jsSeen.left \in BOOLEAN
           /\ JsNestOK /\ JsScopesKept
<1>1. js \in JsT /\ jsSeen \in JsSeenT /\ JsNestOK /\ JsScopesKept
  BY JsTypes DEF JsIInv
<1>2. QED
  BY <1>1 DEF JsT, JsSeenT

LEMMA CountPop ==
    ASSUME NEW s \in Seq(JsOpens), s # <<>>, NEW y \in JsOpens
    PROVE  /\ Front(s) \in Seq(JsOpens) /\ Last(s) \in JsOpens /\ Count(Front(s), y) \in Nat
           /\ Count(s, y) = Count(Front(s), y) + (IF Last(s) = y THEN 1 ELSE 0)
<1>1. PICK f \in Seq(JsOpens), x \in JsOpens : f = Front(s) /\ x = Last(s)
  BY FrontLast
<1>2. s = Append(f, x)
  BY <1>1, TakenApart
<1>3. Count(f, y) \in Nat /\ Count(Append(f, x), y) = Count(f, y) + (IF x = y THEN 1 ELSE 0)
  BY CountNext
<1>4. QED
  BY <1>1, <1>2, <1>3

---------------------------------------------------------------------------
(* One more is open, or one less.                                           *)
LEMMA JsPush ==
    ASSUME JsIInv, NEW x \in JsOpens, JsAdds(JsNest, x, JsNest'),
           jsSeen'.open = Append(jsSeen.open, x), jsSeen'.extra = jsSeen.extra
    PROVE  JsNestOK'
<1>1. jsSeen.open \in Seq(JsOpens) /\ jsSeen.extra \in Nat
  BY JsParts
<1>2. Leads(JsOpening, JsEmpty(jsSeen.extra), jsSeen.open, JsNest)
  BY JsParts DEF JsNestOK
<1> PICK e \in Nat : e = jsSeen.extra
  BY <1>1
<1>3. PICK a, b : a = JsNest /\ b = JsNest'
  OBVIOUS
<1>4. a \in JsNests
  BY <1>1, <1>2, <1>3, JsInnermost
<1>5. b = [depth |-> b.depth, templates |-> b.templates, modes |-> b.modes]
  BY <1>3 DEF JsNest
<1>6. JsAdds(a, x, b)
  BY <1>3
<1>7. <<a, x, b>> \in JsOpening
  BY <1>4, <1>5, <1>6, JsOpened
<1>8. Leads(JsOpening, JsEmpty(e), Append(jsSeen.open, x), b)
  BY <1>1, <1>2, <1>3, <1>7, LeadsAppend
<1>9. QED
  BY <1>3, <1>8 DEF JsNestOK

LEMMA JsPop ==
    ASSUME JsIInv, jsSeen.open # <<>>, NEW x, x = Last(jsSeen.open),
           js'.depth = IF x = "tick" THEN js.depth ELSE js.depth - 1,
           js'.templates = IF x = "$brace" THEN Front(js.templates) ELSE js.templates,
           js'.modes = IF x = "brace" THEN js.modes ELSE Front(js.modes),
           jsSeen'.open = Front(jsSeen.open), jsSeen'.extra = jsSeen.extra
    PROVE  JsNestOK'
<1>1. jsSeen.open \in Seq(JsOpens) /\ jsSeen.extra \in Nat
  BY JsParts
<1>2. Leads(JsOpening, JsEmpty(jsSeen.extra), jsSeen.open, JsNest)
  BY JsParts DEF JsNestOK
<1> PICK e \in Nat : e = jsSeen.extra
  BY <1>1
<1>3. PICK b : b = JsNest
  OBVIOUS
<1>4. PICK a \in JsNests :
        /\ Leads(JsOpening, JsEmpty(e), Front(jsSeen.open), a)
        /\ JsAdds(a, x, b)
  BY <1>1, <1>2, <1>3, JsInnermost
<1>5. /\ a = [depth |-> a.depth, templates |-> a.templates, modes |-> a.modes]
      /\ a.depth \in Int /\ a.templates \in Seq(Int) /\ a.modes \in Seq(JsModes)
  BY JsNestParts
<1>6. b.depth = js.depth /\ b.templates = js.templates /\ b.modes = js.modes
  BY <1>3 DEF JsNest
<1>7. x \in JsOpens
  BY <1>1, CountPop DEF JsOpens
<1>8. /\ Front(Append(a.templates, a.depth + 1)) = a.templates
      /\ \A m \in JsModes : Front(Append(a.modes, m)) = a.modes
  <2>1. PICK d \in Int : d = a.depth + 1
    BY <1>5
  <2>2. QED
    BY <1>5, <2>1, PushPop
<1>9. js'.depth = a.depth /\ js'.templates = a.templates /\ js'.modes = a.modes
  <2>1. CASE x = "brace"
    <3>1. b.depth = a.depth + 1 /\ b.templates = a.templates /\ b.modes = a.modes
      BY <1>4, <2>1 DEF JsAdds
    <3>2. QED
      BY <1>5, <1>6, <2>1, <3>1
  <2>2. CASE x = "$brace"
    <3>1. /\ b.depth = a.depth + 1 /\ b.templates = Append(a.templates, a.depth + 1)
          /\ b.modes = Append(a.modes, "DEFAULT")
      BY <1>4, <2>2 DEF JsAdds
    <3>2. "DEFAULT" \in JsModes
      BY DEF JsModes
    <3>3. js'.depth = a.depth
      BY <1>5, <1>6, <2>2, <3>1
    <3>4. QED
      BY <1>6, <1>8, <2>2, <3>1, <3>2, <3>3
  <2>3. CASE x = "tick"
    <3>1. /\ b.depth = a.depth /\ b.templates = a.templates
          /\ b.modes = Append(a.modes, "TEMPLATE")
      BY <1>4, <2>3 DEF JsAdds
    <3>2. "TEMPLATE" \in JsModes
      BY DEF JsModes
    <3>3. QED
      BY <1>6, <1>8, <2>3, <3>1, <3>2
  <2>4. QED
    BY <1>7, <2>1, <2>2, <2>3 DEF JsOpens
<1>10. JsNest' = a
  BY <1>5, <1>9 DEF JsNest
<1>11. QED
  BY <1>3, <1>4, <1>10 DEF JsNestOK

(* What the predicates of the grammar say of the nesting.                   *)
LEMMA JsTop ==
    ASSUME JsIInv
    PROVE  /\ jsSeen.open = <<>> =>
                 /\ js.depth = 0 - jsSeen.extra /\ js.templates = <<>>
                 /\ js.modes = <<"DEFAULT">> /\ JsInDefault /\ ~IsInTemplateString
           /\ jsSeen.open # <<>> =>
                 /\ Last(jsSeen.open) \in JsOpens
                 /\ JsInDefault <=> Last(jsSeen.open) # "tick"
                 /\ JsInDefault => (IsInTemplateString <=> Last(jsSeen.open) = "$brace")
           /\ JsInDefault <=> Last(js.modes) = "DEFAULT"
           /\ ~JsInDefault <=> Last(js.modes) = "TEMPLATE"
           /\ JsNest \in JsNests
<1>1. /\ jsSeen.open \in Seq(JsOpens) /\ jsSeen.extra \in Nat
      /\ Leads(JsOpening, JsEmpty(jsSeen.extra), jsSeen.open, JsNest)
  BY JsParts DEF JsNestOK
<1> PICK e \in Nat, o \in Seq(JsOpens) : e = jsSeen.extra /\ o = jsSeen.open
  BY <1>1
<1>2. PICK b : b = JsNest
  OBVIOUS
<1>3. b.depth = js.depth /\ b.templates = js.templates /\ b.modes = js.modes
  BY <1>2 DEF JsNest
<1>4. Leads(JsOpening, JsEmpty(e), o, b)
  BY <1>1, <1>2
<1>5. /\ b \in JsNests
      /\ o = <<>> => b = JsEmpty(e) /\ b.templates = <<>> /\ Last(b.modes) = "DEFAULT"
      /\ o # <<>> =>
           /\ Last(o) \in JsOpens
           /\ Last(b.modes) = IF Last(o) = "tick" THEN "TEMPLATE" ELSE "DEFAULT"
           /\ Last(o) = "$brace" => b.templates # <<>> /\ Last(b.templates) = b.depth
           /\ Last(o) = "brace" => b.templates = <<>> \/ Last(b.templates) # b.depth
  BY <1>4, JsInnermost
<1>6. CASE o = <<>>
  <2>1. b = JsEmpty(e) /\ b.depth = 0 - e /\ b.modes = <<"DEFAULT">> /\ b.templates = <<>>
    BY <1>5, <1>6 DEF JsEmpty
  <2>2. Last(b.modes) = "DEFAULT"
    BY <1>5, <1>6
  <2>3. QED
    BY <1>2, <1>3, <1>5, <1>6, <2>1, <2>2 DEF JsInDefault, IsInTemplateString
<1>7. CASE o # <<>>
  <2>1. JsInDefault <=> Last(o) # "tick"
    BY <1>3, <1>5, <1>7 DEF JsInDefault
  <2>2. Last(o) # "tick" => (IsInTemplateString <=> Last(o) = "$brace")
    BY <1>3, <1>5, <1>7 DEF IsInTemplateString, JsOpens
  <2>3. Last(js.modes) \in JsModes
    BY <1>3, <1>5, <1>7 DEF JsModes
  <2>4. QED
    BY <1>2, <1>5, <1>7, <2>1, <2>2, <2>3 DEF JsInDefault, JsModes
<1>8. QED
  BY <1>6, <1>7

(* The mode that a brace hands on is that of the scope around it.           *)
LEMMA JsScopeMode ==
    ASSUME JsIInv
    PROVE  /\ JsTruth \in BOOLEAN /\ ScopeMode \in BOOLEAN
           /\ jsSeen.extra = 0 /\ ~js.default => ScopeMode = JsTruth
<1>1. /\ js.scopes \in Seq(BOOLEAN) /\ jsSeen.truth \in Seq(BOOLEAN)
      /\ jsSeen.file \in BOOLEAN /\ js.default \in BOOLEAN /\ JsScopesKept
  BY JsParts
<1>2. JsTruth \in BOOLEAN
  <2>1. jsSeen.truth # <<>> => Last(jsSeen.truth) \in BOOLEAN
    BY <1>1, FrontLast
  <2>2. QED
    BY <1>1, <2>1 DEF JsTruth
<1>3. ScopeMode \in BOOLEAN
  BY DEF ScopeMode
<1>4. ASSUME jsSeen.extra = 0, ~js.default PROVE ScopeMode = JsTruth
  <2>1. PICK pre \in Seq(BOOLEAN) : pre = IF jsSeen.directive THEN <<TRUE>> ELSE <<>>
    <3>1. <<TRUE>> \in Seq(BOOLEAN) /\ <<>> \in Seq(BOOLEAN)
      BY Singleton, EmptySeq
    <3>2. QED
      BY <3>1
  <2>2. js.scopes = pre \o jsSeen.truth /\ (jsSeen.file <=> jsSeen.directive)
    BY <1>1, <1>4, <2>1 DEF JsScopesKept, ScopesOK
  <2>3. ScopeMode <=> js.scopes # <<>> /\ Last(js.scopes)
    BY <1>4 DEF ScopeMode
  <2>4. CASE jsSeen.truth = <<>>
    <3>1. js.scopes = pre
      BY <2>1, <2>2, <2>4, ConcatEmptySeq
    <3>2. <<TRUE>> # <<>> /\ Last(<<TRUE>>)
      BY Singleton DEF Last
    <3>3. ScopeMode <=> jsSeen.directive
      BY <2>1, <2>3, <3>1, <3>2
    <3>4. JsTruth = jsSeen.file
      BY <2>4 DEF JsTruth
    <3>5. QED
      BY <1>1, <1>2, <1>3, <2>2, <3>3, <3>4
  <2>5. CASE jsSeen.truth # <<>>
    <3>1. js.scopes # <<>> /\ Last(js.scopes) = Last(jsSeen.truth)
      BY <1>1, <2>1, <2>2, <2>5, PrefixedPop
    <3>2. JsTruth = Last(jsSeen.truth)
      BY <2>5 DEF JsTruth
    <3>3. QED
      BY <1>2, <1>3, <2>3, <3>1, <3>2
  <2>6. QED
    BY <2>4, <2>5
<1>5. QED
  BY <1>2, <1>3, <1>4

LEMMA JsOpenBraceStep ==
    ASSUME JsIInv, NEW c, JsOpenBrace(c), jsRun' \in Seq(JsHidden)
    PROVE  JsIInv'
<1>1. /\ js \in JsT /\ jsSeen \in JsSeenT /\ JsNestOK /\ JsScopesKept
      /\ js.strict \in BOOLEAN /\ js.default \in BOOLEAN /\ js.scopes \in Seq(BOOLEAN)
      /\ js.depth \in Int /\ js.templates \in Seq(Int) /\ js.modes \in Seq(JsModes)
      /\ jsSeen.open \in Seq(JsOpens) /\ jsSeen.truth \in Seq(BOOLEAN)
  BY JsParts
<1>2. JsTruth \in BOOLEAN /\ ScopeMode \in BOOLEAN
      /\ (jsSeen.extra = 0 /\ ~js.default => ScopeMode = JsTruth)
  BY JsScopeMode
<1>3. PICK m \in BOOLEAN, t \in BOOLEAN, x \in JsOpens : m = ScopeMode /\ t = JsTruth /\ x = "brace"
  BY <1>2 DEF JsOpens
<1>4. js' = [strict |-> m, default |-> js.default, scopes |-> Append(js.scopes, m),
             depth |-> js.depth + 1, templates |-> js.templates, modes |-> js.modes,
             last |-> "OpenBrace", out |-> "OpenBrace"]
  BY <1>1, <1>3 DEF JsOpenBrace, JsReturn, JsT
<1>5. jsSeen' = [open |-> Append(jsSeen.open, x), file |-> jsSeen.file,
                 directive |-> jsSeen.directive, truth |-> Append(jsSeen.truth, t),
                 extra |-> jsSeen.extra, left |-> FALSE]
  BY <1>1, <1>3 DEF JsOpenBrace, JsSeenT
<1>6. Append(js.scopes, m) \in Seq(BOOLEAN) /\ Append(jsSeen.open, x) \in Seq(JsOpens)
      /\ Append(jsSeen.truth, t) \in Seq(BOOLEAN) /\ Append(jsSeen.truth, t) # <<>>
      /\ Len(Append(jsSeen.truth, t)) = Len(jsSeen.truth) + 1 /\ Last(Append(jsSeen.truth, t)) = t
  BY <1>1, AppendLast
<1>7. js' \in JsT /\ jsSeen' \in JsSeenT
  <2>1. js' \in JsT
    BY <1>1, <1>4, <1>6 DEF JsT, JsTokens
  <2>2. QED
    BY <1>1, <1>5, <1>6, <2>1 DEF JsSeenT
<1>8. JsNestOK'
  <2>1. JsAdds(JsNest, x, JsNest')
    <3>1. PICK a, b : a = JsNest /\ b = JsNest'
      OBVIOUS
    <3>2. a.depth = js.depth /\ a.templates = js.templates /\ a.modes = js.modes
      BY <3>1 DEF JsNest
    <3>3. b.depth = js.depth + 1 /\ b.templates = js.templates /\ b.modes = js.modes
      BY <1>4, <3>1 DEF JsNest
    <3>4. Last(js.modes) = "DEFAULT"
      BY DEF JsOpenBrace, JsInDefault
    <3>5. JsAdds(a, x, b)
      BY <1>3, <3>2, <3>3, <3>4 DEF JsAdds
    <3>6. QED
      BY <3>1, <3>5
  <2>2. QED
    BY <1>5, <2>1, JsPush
<1>9. JsScopesKept'
  <2>1. Len(jsSeen'.truth) = Count(jsSeen'.open, "brace")
    <3>1. Count(Append(jsSeen.open, x), x) = Count(jsSeen.open, x) + 1
      BY <1>1, CountNext
    <3>2. QED
      BY <1>1, <1>3, <1>5, <1>6, <3>1 DEF JsScopesKept
  <2>2. ~js'.default => (jsSeen'.file <=> jsSeen'.directive)
    BY <1>1, <1>4, <1>5 DEF JsScopesKept
  <2>3. js'.last = "OpenBrace" /\ jsSeen'.truth # <<>>
    BY <1>4, <1>5, <1>6
  <2>4. ASSUME jsSeen'.extra = 0, ~js'.default
        PROVE  /\ js'.scopes = (IF jsSeen'.directive THEN <<TRUE>> ELSE <<>>) \o jsSeen'.truth
               /\ jsSeen'.left \/ js'.strict = JsTruth'
    <3>1. PICK pre \in Seq(BOOLEAN) : pre = IF jsSeen.directive THEN <<TRUE>> ELSE <<>>
      <4>1. <<TRUE>> \in Seq(BOOLEAN) /\ <<>> \in Seq(BOOLEAN)
        BY Singleton, EmptySeq
      <4>2. QED
        BY <4>1
    <3>2. js.scopes = pre \o jsSeen.truth /\ m = t
      BY <1>1, <1>2, <1>3, <1>4, <1>5, <2>4, <3>1 DEF JsScopesKept, ScopesOK
    <3>3. pre \o Append(jsSeen.truth, t) = Append(pre \o jsSeen.truth, t)
      <4>1. PICK S : S = BOOLEAN
        OBVIOUS
      <4>2. PICK a \in Seq(S), b \in Seq(S), y \in S : a = pre /\ b = jsSeen.truth /\ y = t
        BY <1>1, <4>1
      <4>3. a \o Append(b, y) = Append(a \o b, y)
        BY AppendConcat
      <4>4. QED
        BY <4>2, <4>3
    <3>4. js'.scopes = pre \o jsSeen'.truth
      BY <1>4, <1>5, <3>2, <3>3
    <3>5. JsTruth' = t
      BY <1>5, <1>6 DEF JsTruth
    <3>6. QED
      BY <1>4, <1>5, <3>1, <3>2, <3>4, <3>5
  <2>5. ScopesOK'
    BY <2>4 DEF ScopesOK
  <2>6. QED
    BY <2>1, <2>2, <2>3, <2>5 DEF JsScopesKept
<1>10. QED
  BY <1>7, <1>8, <1>9, JsTypes DEF JsIInv

LEMMA JsCloseBraceStep ==
    ASSUME JsIInv, NEW c, JsCloseBrace(c), jsRun' \in Seq(JsHidden)
    PROVE  JsIInv'
<1>1. /\ js \in JsT /\ jsSeen \in JsSeenT /\ JsNestOK /\ JsScopesKept
      /\ js.strict \in BOOLEAN /\ js.default \in BOOLEAN /\ js.scopes \in Seq(BOOLEAN)
      /\ js.depth \in Int /\ js.templates \in Seq(Int) /\ js.modes \in Seq(JsModes)
      /\ jsSeen.open \in Seq(JsOpens) /\ jsSeen.truth \in Seq(BOOLEAN) /\ jsSeen.extra \in Nat
  BY JsParts
<1>2. PICK m \in BOOLEAN, ss \in Seq(BOOLEAN) :
         m = ScopeMode /\ ss = IF js.scopes = <<>> THEN js.scopes ELSE Front(js.scopes)
  <2>1. ScopeMode \in BOOLEAN
    BY JsScopeMode
  <2>2. (IF js.scopes = <<>> THEN js.scopes ELSE Front(js.scopes)) \in Seq(BOOLEAN)
    BY <1>1, FrontLast
  <2>3. QED
    BY <2>1, <2>2
<1>3. js' = [strict |-> m, default |-> js.default, scopes |-> ss,
             depth |-> js.depth - 1, templates |-> js.templates, modes |-> js.modes,
             last |-> "CloseBrace", out |-> "CloseBrace"]
  BY <1>1, <1>2 DEF JsCloseBrace, JsReturn, JsT
<1>4. js' \in JsT
  BY <1>1, <1>3 DEF JsT, JsTokens
<1>5. JsInDefault /\ ~IsInTemplateString
  BY DEF JsCloseBrace
<1>6. CASE jsSeen.open = <<>>
  <2>1. jsSeen' = [open |-> <<>>, file |-> jsSeen.file, directive |-> jsSeen.directive,
                   truth |-> jsSeen.truth, extra |-> jsSeen.extra + 1, left |-> TRUE]
    BY <1>1, <1>6 DEF JsCloseBrace, JsSeenT
  <2>2. jsSeen' \in JsSeenT /\ jsSeen'.extra # 0
    BY <1>1, <1>6, <2>1 DEF JsSeenT
  <2>3. JsNestOK'
    <3>1. js.depth = 0 - jsSeen.extra /\ js.templates = <<>> /\ js.modes = <<"DEFAULT">>
      BY <1>6, JsTop
    <3>2. PICK e \in Nat : e = jsSeen.extra + 1
      BY <1>1
    <3>3. js.depth - 1 = 0 - e
      BY <1>1, <3>1, <3>2
    <3>4. JsNest' = JsEmpty(e)
      BY <1>3, <3>1, <3>3 DEF JsNest, JsEmpty
    <3>5. Leads(JsOpening, JsEmpty(e), <<>>, JsEmpty(e))
      BY LeadsEmpty
    <3>6. QED
      BY <2>1, <3>2, <3>4, <3>5 DEF JsNestOK
  <2>4. JsScopesKept'
    BY <1>1, <1>3, <1>6, <2>1, <2>2 DEF JsScopesKept, ScopesOK
  <2>5. QED
    BY <1>4, <2>2, <2>3, <2>4, JsTypes DEF JsIInv
<1>7. CASE jsSeen.open # <<>>
  <2>1. jsSeen' = [open |-> Front(jsSeen.open), file |-> jsSeen.file,
                   directive |-> jsSeen.directive, truth |-> Front(jsSeen.truth),
                   extra |-> jsSeen.extra, left |-> TRUE]
    BY <1>1, <1>7 DEF JsCloseBrace, JsSeenT
  <2>2. Last(jsSeen.open) = "brace" /\ Front(jsSeen.open) \in Seq(JsOpens)
    <3>1. Last(jsSeen.open) \in JsOpens /\ Last(jsSeen.open) # "tick"
          /\ Last(jsSeen.open) # "$brace"
      BY <1>5, <1>7, JsTop
    <3>2. QED
      BY <1>1, <1>7, <3>1, CountPop DEF JsOpens
  <2>3. /\ Len(jsSeen.truth) = Count(Front(jsSeen.open), "brace") + 1
        /\ Count(Front(jsSeen.open), "brace") \in Nat
    <3>1. "brace" \in JsOpens
      BY DEF JsOpens
    <3>2. QED
      BY <1>1, <1>7, <2>2, <3>1, CountPop DEF JsScopesKept
  <2>4. jsSeen.truth # <<>>
    <3>1. Len(jsSeen.truth) # 0
      BY <2>3
    <3>2. QED
      BY <1>1, <3>1, EmptySeq
  <2>5. Front(jsSeen.truth) \in Seq(BOOLEAN) /\ Len(Front(jsSeen.truth)) = Len(jsSeen.truth) - 1
    BY <1>1, <2>4, FrontLast
  <2>6. jsSeen' \in JsSeenT
    BY <1>1, <2>1, <2>2, <2>5 DEF JsSeenT
  <2>7. JsNestOK'
    BY <1>3, <1>7, <2>1, <2>2, JsPop
  <2>8. ASSUME jsSeen'.extra = 0, ~js'.default
        PROVE  js'.scopes = (IF jsSeen'.directive THEN <<TRUE>> ELSE <<>>) \o jsSeen'.truth
    <3>1. PICK pre \in Seq(BOOLEAN) : pre = IF jsSeen.directive THEN <<TRUE>> ELSE <<>>
      <4>1. <<TRUE>> \in Seq(BOOLEAN) /\ <<>> \in Seq(BOOLEAN)
        BY Singleton, EmptySeq
      <4>2. QED
        BY <4>1
    <3>2. js.scopes = pre \o jsSeen.truth
      BY <1>1, <1>3, <2>1, <2>8, <3>1 DEF JsScopesKept, ScopesOK
    <3>3. pre \o jsSeen.truth # <<>>
          /\ Front(pre \o jsSeen.truth) = pre \o Front(jsSeen.truth)
      BY <1>1, <2>4, PrefixedPop
    <3>4. QED
      BY <1>2, <1>3, <2>1, <3>1, <3>2, <3>3
  <2>9. JsScopesKept'
    <3>1. Len(jsSeen'.truth) = Count(jsSeen'.open, "brace")
      BY <2>1, <2>3, <2>5
    <3>2. ScopesOK'
      BY <2>1, <2>8 DEF ScopesOK
    <3>3. QED
      BY <1>1, <1>3, <2>1, <3>1, <3>2 DEF JsScopesKept
  <2>10. QED
    BY <1>4, <2>6, <2>7, <2>9, JsTypes DEF JsIInv
<1>8. QED
  BY <1>6, <1>7

(* A token that says nothing of the strict mode leaves it as it was.        *)
LEMMA JsScopesSame ==
    ASSUME JsIInv, js'.strict = js.strict, js'.default = js.default, js'.scopes = js.scopes,
           jsSeen'.truth = jsSeen.truth, jsSeen'.file = jsSeen.file,
           jsSeen'.directive = jsSeen.directive, jsSeen'.extra = jsSeen.extra,
           jsSeen'.left = jsSeen.left,
           Count(jsSeen'.open, "brace") = Count(jsSeen.open, "brace"),
           js'.last = js.last \/ js'.last \notin {"none", "OpenBrace"}
    PROVE  JsScopesKept'
<1>1. JsScopesKept
  BY JsParts
<1>2. JsTruth' = JsTruth
  BY DEF JsTruth
<1>3. ScopesOK'
  BY <1>1, <1>2 DEF ScopesOK, JsScopesKept
<1>4. QED
  BY <1>1, <1>3 DEF JsScopesKept

LEMMA JsTemplateCloseBraceStep ==
    ASSUME JsIInv, NEW c, JsTemplateCloseBrace(c), jsRun' \in Seq(JsHidden)
    PROVE  JsIInv'
<1>1. /\ js \in JsT /\ jsSeen \in JsSeenT
      /\ js.depth \in Int /\ js.templates \in Seq(Int) /\ js.modes \in Seq(JsModes)
      /\ jsSeen.open \in Seq(JsOpens)
  BY JsParts
<1>2. JsInDefault /\ IsInTemplateString
  BY DEF JsTemplateCloseBrace
<1>3. jsSeen.open # <<>> /\ Last(jsSeen.open) = "$brace"
  BY <1>2, JsTop
<1>4. js.templates # <<>> /\ js.modes # <<>>
  <2>1. PICK a \in JsNests : a = JsNest
    BY JsTop
  <2>2. a.modes = js.modes /\ a.modes # <<>>
    BY <2>1, JsNestParts DEF JsNest
  <2>3. QED
    BY <1>2, <2>2 DEF IsInTemplateString
<1>5. /\ Front(js.templates) \in Seq(Int) /\ Front(js.modes) \in Seq(JsModes)
      /\ Front(jsSeen.open) \in Seq(JsOpens)
  BY <1>1, <1>3, <1>4, FrontLast
<1> PICK d \in Int, ts \in Seq(Int), ms \in Seq(JsModes) :
       d = js.depth - 1 /\ ts = Front(js.templates) /\ ms = Front(js.modes)
  BY <1>1, <1>5
<1>6. js' = [js EXCEPT !.depth = d, !.templates = ts, !.modes = ms,
                       !.last = "TemplateCloseBrace", !.out = "TemplateCloseBrace"]
  BY <1>1 DEF JsTemplateCloseBrace, JsReturn, JsT
<1>7. jsSeen' = [jsSeen EXCEPT !.open = Front(jsSeen.open)]
  BY DEF JsTemplateCloseBrace
<1>8. /\ js'.strict = js.strict /\ js'.default = js.default /\ js'.scopes = js.scopes
      /\ js'.depth = d /\ js'.templates = ts
      /\ js'.modes = ms /\ js'.last = "TemplateCloseBrace" /\ js' \in JsT
  BY <1>1, <1>6 DEF JsT, JsTokens
<1>9. /\ jsSeen'.open = Front(jsSeen.open) /\ jsSeen'.truth = jsSeen.truth
      /\ jsSeen'.file = jsSeen.file /\ jsSeen'.directive = jsSeen.directive
      /\ jsSeen'.extra = jsSeen.extra /\ jsSeen'.left = jsSeen.left /\ jsSeen' \in JsSeenT
  BY <1>1, <1>5, <1>7 DEF JsSeenT
<1>10. JsNestOK'
  BY <1>3, <1>8, <1>9, JsPop
<1>11. Count(jsSeen'.open, "brace") = Count(jsSeen.open, "brace")
  <2>1. "brace" \in JsOpens
    BY DEF JsOpens
  <2>2. /\ Count(Front(jsSeen.open), "brace") \in Nat
        /\ Count(jsSeen.open, "brace")
             = Count(Front(jsSeen.open), "brace") + (IF Last(jsSeen.open) = "brace" THEN 1 ELSE 0)
    BY <1>1, <1>3, <2>1, CountPop
  <2>3. Count(jsSeen.open, "brace") = Count(Front(jsSeen.open), "brace")
    BY <1>3, <2>2
  <2>4. QED
    BY <1>9, <2>3
<1>12. JsScopesKept'
  BY <1>8, <1>9, <1>11, JsScopesSame
<1>13. QED
  BY <1>8, <1>9, <1>10, <1>12, JsTypes DEF JsIInv

LEMMA JsTemplateOpenBraceStep ==
    ASSUME JsIInv, NEW c, JsTemplateOpenBrace(c), jsRun' \in Seq(JsHidden)
    PROVE  JsIInv'
<1>1. /\ js \in JsT /\ jsSeen \in JsSeenT
      /\ js.depth \in Int /\ js.templates \in Seq(Int) /\ js.modes \in Seq(JsModes)
      /\ jsSeen.open \in Seq(JsOpens)
  BY JsParts
<1>2. Last(js.modes) = "TEMPLATE"
  BY JsTop DEF JsTemplateOpenBrace
<1>3. "$brace" \in JsOpens /\ "brace" \in JsOpens /\ "DEFAULT" \in JsModes
  BY DEF JsOpens, JsModes
<1>4. PICK d \in Int, x \in JsOpens : d = js.depth + 1 /\ x = "$brace"
  BY <1>1, <1>3
<1>5. /\ Append(js.templates, d) \in Seq(Int) /\ Append(js.modes, "DEFAULT") \in Seq(JsModes)
      /\ Append(jsSeen.open, x) \in Seq(JsOpens)
  BY <1>1, <1>3, AppendLast
<1>6. js' = [js EXCEPT !.depth = d, !.templates = Append(js.templates, d),
                       !.modes = Append(js.modes, "DEFAULT"), !.last = "TemplateStringStart",
                       !.out = "TemplateStringStart"]
  BY <1>1, <1>4 DEF JsTemplateOpenBrace, JsReturn, JsT
<1>7. jsSeen' = [jsSeen EXCEPT !.open = Append(jsSeen.open, x)]
  BY <1>4 DEF JsTemplateOpenBrace
<1>8. /\ js'.strict = js.strict /\ js'.default = js.default /\ js'.scopes = js.scopes
      /\ js'.depth = d /\ js'.templates = Append(js.templates, d)
      /\ js'.modes = Append(js.modes, "DEFAULT")
      /\ js'.last = "TemplateStringStart" /\ js' \in JsT
  BY <1>1, <1>5, <1>6 DEF JsT, JsTokens
<1>9. /\ jsSeen'.open = Append(jsSeen.open, x) /\ jsSeen'.truth = jsSeen.truth
      /\ jsSeen'.file = jsSeen.file /\ jsSeen'.directive = jsSeen.directive
      /\ jsSeen'.extra = jsSeen.extra /\ jsSeen'.left = jsSeen.left /\ jsSeen' \in JsSeenT
  BY <1>1, <1>5, <1>7 DEF JsSeenT
<1>10. JsNestOK'
  <2>1. PICK a, b : a = JsNest /\ b = JsNest'
    OBVIOUS
  <2>2. a.depth = js.depth /\ a.templates = js.templates /\ a.modes = js.modes
    BY <2>1 DEF JsNest
  <2>3. /\ b.depth = js.depth + 1 /\ b.templates = Append(js.templates, js.depth + 1)
        /\ b.modes = Append(js.modes, "DEFAULT")
    BY <1>4, <1>8, <2>1 DEF JsNest
  <2>4. JsAdds(a, x, b)
    BY <1>2, <1>4, <2>2, <2>3 DEF JsAdds
  <2>5. JsAdds(JsNest, x, JsNest')
    BY <2>1, <2>4
  <2>6. QED
    BY <1>9, <2>5, JsPush
<1>11. Count(jsSeen'.open, "brace") = Count(jsSeen.open, "brace")
  <2>1. Count(Append(jsSeen.open, x), "brace") = Count(jsSeen.open, "brace") + 0
    BY <1>1, <1>3, <1>4, CountNext
  <2>2. Count(jsSeen.open, "brace") \in Nat
    BY <1>1, <1>3, CountNext
  <2>3. QED
    BY <1>9, <2>1, <2>2
<1>12. JsScopesKept'
  BY <1>8, <1>9, <1>11, JsScopesSame
<1>13. QED
  BY <1>8, <1>9, <1>10, <1>12, JsTypes DEF JsIInv

LEMMA JsBackTickStep ==
    ASSUME JsIInv, NEW c, JsBackTick(c), jsRun' \in Seq(JsHidden)
    PROVE  JsIInv'
<1>1. /\ js \in JsT /\ jsSeen \in JsSeenT
      /\ js.depth \in Int /\ js.templates \in Seq(Int) /\ js.modes \in Seq(JsModes)
      /\ jsSeen.open \in Seq(JsOpens)
  BY JsParts
<1>2. PICK x \in JsOpens : x = "tick"
  BY DEF JsOpens
<1>3. "TEMPLATE" \in JsModes /\ "brace" \in JsOpens
  BY DEF JsModes, JsOpens
<1>4. PICK ms, op :
        /\ ms = IF JsInDefault THEN Append(js.modes, "TEMPLATE") ELSE Front(js.modes)
        /\ op = IF JsInDefault THEN Append(jsSeen.open, x) ELSE Front(jsSeen.open)
  OBVIOUS
<1>5. js' = [js EXCEPT !.modes = ms, !.last = "BackTick", !.out = "BackTick"]
  BY <1>1, <1>4 DEF JsBackTick, JsReturn, JsT
<1>6. jsSeen' = [jsSeen EXCEPT !.open = op]
  BY <1>2, <1>4 DEF JsBackTick
<1>7. /\ ms \in Seq(JsModes) /\ op \in Seq(JsOpens)
      /\ Count(op, "brace") = Count(jsSeen.open, "brace")
      /\ ~JsInDefault => jsSeen.open # <<>> /\ Last(jsSeen.open) = x
  <2>1. CASE JsInDefault
    <3>1. Count(Append(jsSeen.open, x), "brace") = Count(jsSeen.open, "brace") + 0
          /\ Count(jsSeen.open, "brace") \in Nat
      BY <1>1, <1>2, <1>3, CountNext
    <3>2. QED
      BY <1>1, <1>3, <1>4, <2>1, <3>1, AppendLast
  <2>2. CASE ~JsInDefault
    <3>1. jsSeen.open # <<>> /\ Last(jsSeen.open) = x
      BY <1>2, <2>2, JsTop
    <3>2. js.modes # <<>>
      <4>1. PICK a \in JsNests : a = JsNest
        BY JsTop
      <4>2. a.modes = js.modes /\ a.modes # <<>>
        BY <4>1, JsNestParts DEF JsNest
      <4>3. QED
        BY <4>2
    <3>3. ms \in Seq(JsModes) /\ op \in Seq(JsOpens)
      BY <1>1, <1>4, <2>2, <3>1, <3>2, FrontLast
    <3>4. Count(op, "brace") \in Nat /\ Count(jsSeen.open, "brace") = Count(op, "brace") + 0
      BY <1>1, <1>2, <1>3, <1>4, <2>2, <3>1, CountPop
    <3>5. QED
      BY <3>1, <3>3, <3>4
  <2>3. QED
    BY <2>1, <2>2
<1>8. /\ js'.strict = js.strict /\ js'.default = js.default /\ js'.scopes = js.scopes
      /\ js'.depth = js.depth /\ js'.templates = js.templates
      /\ js'.modes = ms /\ js'.last = "BackTick" /\ js' \in JsT
  BY <1>1, <1>5, <1>7 DEF JsT, JsTokens
<1>9. /\ jsSeen'.open = op /\ jsSeen'.truth = jsSeen.truth
      /\ jsSeen'.file = jsSeen.file /\ jsSeen'.directive = jsSeen.directive
      /\ jsSeen'.extra = jsSeen.extra /\ jsSeen'.left = jsSeen.left /\ jsSeen' \in JsSeenT
  BY <1>1, <1>6, <1>7 DEF JsSeenT
<1>10. JsNestOK'
  <2>1. CASE JsInDefault
    <3>1. PICK a, b : a = JsNest /\ b = JsNest'
      OBVIOUS
    <3>2. a.depth = js.depth /\ a.templates = js.templates /\ a.modes = js.modes
      BY <3>1 DEF JsNest
    <3>3. /\ b.depth = js.depth /\ b.templates = js.templates
          /\ b.modes = Append(js.modes, "TEMPLATE")
      BY <1>4, <1>8, <2>1, <3>1 DEF JsNest
    <3>4. Last(js.modes) = "DEFAULT"
      BY <2>1 DEF JsInDefault
    <3>5. JsAdds(a, x, b)
      BY <1>2, <3>2, <3>3, <3>4 DEF JsAdds
    <3>6. JsAdds(JsNest, x, JsNest')
      BY <3>1, <3>5
    <3>7. jsSeen'.open = Append(jsSeen.open, x)
      BY <1>4, <1>9, <2>1
    <3>8. QED
      BY <1>9, <3>6, <3>7, JsPush
  <2>2. CASE ~JsInDefault
    <3>1. jsSeen.open # <<>> /\ x = Last(jsSeen.open)
      BY <1>7, <2>2
    <3>2. /\ js'.depth = IF x = "tick" THEN js.depth ELSE js.depth - 1
          /\ js'.templates = IF x = "$brace" THEN Front(js.templates) ELSE js.templates
          /\ js'.modes = IF x = "brace" THEN js.modes ELSE Front(js.modes)
      BY <1>2, <1>4, <1>8, <2>2
    <3>3. jsSeen'.open = Front(jsSeen.open)
      BY <1>4, <1>9, <2>2
    <3>4. QED
      BY <1>9, <3>1, <3>2, <3>3, JsPop
  <2>3. QED
    BY <2>1, <2>2
<1>11. JsScopesKept'
  BY <1>7, <1>8, <1>9, JsScopesSame
<1>12. QED
  BY <1>8, <1>9, <1>10, <1>11, JsTypes DEF JsIInv

LEMMA JsStringLiteralStep ==
    ASSUME JsIInv, NEW c, JsStringLiteral(c), jsRun' \in Seq(JsHidden)
    PROVE  JsIInv'
<1>1. /\ js \in JsT /\ jsSeen \in JsSeenT /\ JsNestOK /\ JsScopesKept
      /\ js.scopes \in Seq(BOOLEAN) /\ jsSeen.truth \in Seq(BOOLEAN)
  BY JsParts
<1>2. ASSUME js' \in JsT, jsSeen' \in JsSeenT, JsNest' = JsNest, jsSeen'.open = jsSeen.open,
             jsSeen'.extra = jsSeen.extra, JsScopesKept'
      PROVE  JsIInv'
  <2>1. JsNestOK'
    BY <1>1, <1>2 DEF JsNestOK
  <2>2. QED
    BY <1>2, <2>1, JsTypes DEF JsIInv
<1>3. CASE ~IsDirective(c)
  <2>1. js' = [js EXCEPT !.last = "StringLiteral", !.out = "StringLiteral"] /\ jsSeen' = jsSeen
    BY <1>1, <1>3 DEF JsStringLiteral, JsReturn, JsT
  <2>2. /\ js'.strict = js.strict /\ js'.default = js.default /\ js'.scopes = js.scopes
        /\ js'.depth = js.depth /\ js'.templates = js.templates /\ js'.modes = js.modes
        /\ js'.last = "StringLiteral" /\ js' \in JsT
    BY <1>1, <2>1 DEF JsT, JsTokens
  <2>3. JsNest' = JsNest
    BY <2>2 DEF JsNest
  <2>4. JsScopesKept'
    BY <2>1, <2>2, JsScopesSame
  <2>5. QED
    BY <1>1, <1>2, <2>1, <2>2, <2>3, <2>4
<1>4. CASE IsDirective(c)
  <2>1. PICK under \in Seq(BOOLEAN) :
          under = IF js.scopes = <<>> THEN js.scopes ELSE Front(js.scopes)
    BY <1>1, FrontLast
  <2>2. PICK ss \in Seq(BOOLEAN) : ss = Append(under, TRUE)
    BY <2>1, AppendLast
  <2>3. js' = [js EXCEPT !.strict = TRUE, !.scopes = ss,
                         !.last = "StringLiteral", !.out = "StringLiteral"]
    BY <1>1, <1>4, <2>1, <2>2 DEF JsStringLiteral, JsReturn, JsT
  <2>4. /\ js'.strict = TRUE /\ js'.default = js.default /\ js'.scopes = ss
        /\ js'.depth = js.depth /\ js'.templates = js.templates /\ js'.modes = js.modes
        /\ js'.last = "StringLiteral" /\ js' \in JsT
    BY <1>1, <2>3 DEF JsT, JsTokens
  <2>5. JsNest' = JsNest
    BY <2>4 DEF JsNest
  <2>6. js.last \in {"none", "OpenBrace"}
    BY <1>4 DEF IsDirective
  <2>7. CASE jsSeen.truth = <<>>
    <3>1. jsSeen' = [jsSeen EXCEPT !.file = TRUE, !.directive = TRUE, !.left = FALSE]
      BY <1>4, <2>7 DEF JsStringLiteral
    <3>2. /\ jsSeen'.open = jsSeen.open /\ jsSeen'.truth = jsSeen.truth
          /\ jsSeen'.file = TRUE /\ jsSeen'.directive = TRUE /\ jsSeen'.left = FALSE
          /\ jsSeen'.extra = jsSeen.extra /\ jsSeen' \in JsSeenT
      BY <1>1, <3>1 DEF JsSeenT
    <3>3. js.scopes = <<>>
      BY <1>1, <2>6, <2>7 DEF JsScopesKept
    <3>4. js'.scopes = <<TRUE>>
      BY <2>1, <2>2, <2>4, <3>3
    <3>5. <<TRUE>> \o <<>> = <<TRUE>>
      OBVIOUS
    <3>6. JsTruth' = TRUE
      BY <2>7, <3>2 DEF JsTruth
    <3>7. ScopesOK'
      BY <2>4, <2>7, <3>2, <3>4, <3>5, <3>6 DEF ScopesOK
    <3>8. JsScopesKept'
      BY <1>1, <2>4, <3>2, <3>7 DEF JsScopesKept
    <3>9. QED
      BY <1>2, <2>4, <2>5, <3>2, <3>8
  <2>8. CASE jsSeen.truth # <<>>
    <3>1. PICK ft \in Seq(BOOLEAN) : ft = Front(jsSeen.truth)
      BY <1>1, <2>8, FrontLast
    <3>2. PICK tt \in Seq(BOOLEAN) : tt = Append(ft, TRUE)
      BY AppendLast
    <3>3. jsSeen' = [jsSeen EXCEPT !.truth = tt, !.left = FALSE]
      BY <1>4, <2>8, <3>1, <3>2 DEF JsStringLiteral
    <3>4. /\ jsSeen'.open = jsSeen.open /\ jsSeen'.truth = tt
          /\ jsSeen'.file = jsSeen.file /\ jsSeen'.directive = jsSeen.directive
          /\ jsSeen'.left = FALSE
          /\ jsSeen'.extra = jsSeen.extra /\ jsSeen' \in JsSeenT
      BY <1>1, <3>3 DEF JsSeenT
    <3>5. tt # <<>> /\ Last(tt) = TRUE /\ Len(tt) = Len(jsSeen.truth)
      <4>1. Len(ft) = Len(jsSeen.truth) - 1 /\ Len(jsSeen.truth) \in Nat
        BY <1>1, <2>8, <3>1, FrontLast
      <4>2. tt # <<>> /\ Last(tt) = TRUE /\ Len(tt) = Len(ft) + 1
        <5>1. PICK S : S = BOOLEAN
          OBVIOUS
        <5>2. PICK b \in Seq(S), y \in S : b = ft /\ y = TRUE
          BY <5>1
        <5>3. Append(b, y) # <<>> /\ Last(Append(b, y)) = y /\ Len(Append(b, y)) = Len(b) + 1
          BY AppendLast
        <5>4. QED
          BY <3>2, <5>2, <5>3
      <4>3. QED
        BY <4>1, <4>2
    <3>6. ASSUME jsSeen'.extra = 0, ~js'.default
          PROVE  js'.scopes = (IF jsSeen'.directive THEN <<TRUE>> ELSE <<>>) \o jsSeen'.truth
      <4>1. PICK pre \in Seq(BOOLEAN) : pre = IF jsSeen.directive THEN <<TRUE>> ELSE <<>>
        <5>1. <<TRUE>> \in Seq(BOOLEAN) /\ <<>> \in Seq(BOOLEAN)
          BY Singleton, EmptySeq
        <5>2. QED
          BY <5>1
      <4>2. js.scopes = pre \o jsSeen.truth
        BY <1>1, <2>4, <3>4, <3>6, <4>1 DEF JsScopesKept, ScopesOK
      <4>3. js.scopes # <<>> /\ Front(js.scopes) = pre \o ft
        BY <1>1, <2>8, <3>1, <4>2, PrefixedPop
      <4>4. under = pre \o ft
        BY <2>1, <4>3
      <4>5. pre \o Append(ft, TRUE) = Append(pre \o ft, TRUE)
        <5>1. PICK S : S = BOOLEAN
          OBVIOUS
        <5>2. PICK a \in Seq(S), b \in Seq(S), y \in S : a = pre /\ b = ft /\ y = TRUE
          BY <5>1
        <5>3. a \o Append(b, y) = Append(a \o b, y)
          BY AppendConcat
        <5>4. QED
          BY <5>2, <5>3
      <4>6. QED
        BY <2>2, <2>4, <3>2, <3>4, <4>1, <4>4, <4>5
    <3>7. JsTruth' = TRUE
      BY <3>4, <3>5 DEF JsTruth
    <3>8. ScopesOK'
      BY <2>4, <3>6, <3>7 DEF ScopesOK
    <3>9. JsScopesKept'
      BY <1>1, <2>4, <3>4, <3>5, <3>8 DEF JsScopesKept
    <3>10. QED
      BY <1>2, <2>4, <2>5, <3>4, <3>9
  <2>9. QED
    BY <2>7, <2>8
<1>5. QED
  BY <1>3, <1>4

LEMMA JsOtherStep ==
    ASSUME JsIInv, NEW c, JsOther(c), jsRun' \in Seq(JsHidden)
    PROVE  JsIInv'
<1>1. js \in JsT /\ jsSeen \in JsSeenT /\ JsNestOK
  BY JsParts
<1>2. PICK t : t = IF c = "EOF" THEN c ELSE JsTokenOf(c)
  OBVIOUS
<1>3. t \in JsTokens \ {"none", "OpenBrace"}
  <2>1. CASE ~JsInDefault
    BY <1>2, <2>1 DEF JsTokenOf, JsTokens
  <2>2. CASE JsInDefault
    <3>1. c \in JsHidden \union {"id", "op", "/", "let", "EOF"}
      BY <2>2 DEF JsOther
    <3>2. c \in JsHidden => c \notin {"id", "op", "/", "let", "EOF"}
      BY DEF JsHidden
    <3>3. QED
      BY <1>2, <2>2, <3>1, <3>2 DEF JsTokenOf, JsTokens
  <2>3. QED
    BY <2>1, <2>2
<1>4. PICK l : l = IF t = "Hidden" THEN js.last ELSE t
  OBVIOUS
<1>5. js' = [js EXCEPT !.last = l, !.out = t] /\ jsSeen' = jsSeen
  BY <1>1, <1>2, <1>4 DEF JsOther, JsReturn, JsT
<1>6. l \in JsTokens /\ (l = js.last \/ l \notin {"none", "OpenBrace"})
  BY <1>1, <1>3, <1>4 DEF JsT
<1>7. /\ js'.strict = js.strict /\ js'.default = js.default /\ js'.scopes = js.scopes
      /\ js'.depth = js.depth /\ js'.templates = js.templates /\ js'.modes = js.modes
      /\ js'.last = l /\ js' \in JsT
  BY <1>1, <1>3, <1>5, <1>6 DEF JsT
<1>8. JsNest' = JsNest
  BY <1>7 DEF JsNest
<1>9. JsNestOK'
  BY <1>1, <1>5, <1>8 DEF JsNestOK
<1>10. JsScopesKept'
  BY <1>5, <1>6, <1>7, JsScopesSame
<1>11. QED
  BY <1>1, <1>5, <1>7, <1>9, <1>10, JsTypes DEF JsIInv

(* A lexer that begins, and one that was told the default.                  *)
LEMMA JsBegins ==
    /\ JsInit => JsIInv
    /\ JsReset => JsIInv'
<1>1. NewJs \in JsT /\ NoJsSeen \in JsSeenT /\ <<>> \in Seq(JsHidden)
  <2>1. <<>> \in Seq(BOOLEAN) /\ <<>> \in Seq(Int) /\ <<>> \in Seq(JsOpens)
        /\ <<>> \in Seq(JsHidden) /\ <<"DEFAULT">> \in Seq(JsModes)
    BY EmptySeq, Singleton DEF JsModes
  <2>2. QED
    BY <2>1 DEF NewJs, NoJsSeen, JsT, JsSeenT, JsTokens
<1>2. Leads(JsOpening, JsEmpty(0), <<>>, JsEmpty(0))
  BY LeadsEmpty
<1>3. Count(<<>>, "brace") = 0 /\ Len(<<>>) = 0
  <2>1. <<>> \in Seq(JsOpens) /\ "brace" \in JsOpens
    BY EmptySeq DEF JsOpens
  <2>2. QED
    BY <2>1, CountNext
<1>4. <<>> \o <<>> = <<>>
  OBVIOUS
<1>5. JsInit => JsIInv
  <2> SUFFICES ASSUME JsInit PROVE JsIInv
    OBVIOUS
  <2>1. js = NewJs /\ jsSeen = NoJsSeen /\ jsRun = <<>>
    BY DEF JsInit
  <2>2. JsTypeOK
    BY <1>1, <2>1, JsTypes
  <2>3. JsNest = JsEmpty(0) /\ jsSeen.open = <<>> /\ jsSeen.extra = 0
    BY <2>1 DEF NewJs, NoJsSeen, JsNest, JsEmpty
  <2>4. JsNestOK
    BY <1>2, <2>3 DEF JsNestOK
  <2>5. JsScopesKept
    BY <1>3, <1>4, <2>1 DEF JsScopesKept, ScopesOK, JsTruth, NewJs, NoJsSeen
  <2>6. QED
    BY <2>2, <2>4, <2>5 DEF JsIInv
<1>6. JsReset => JsIInv'
  <2> SUFFICES ASSUME JsReset PROVE JsIInv'
    OBVIOUS
  <2>1. js' = NewJs /\ jsSeen' = NoJsSeen /\ jsRun' = <<>>
    BY DEF JsReset
  <2>2. JsTypeOK'
    BY <1>1, <2>1, JsTypes
  <2>3. JsNest' = JsEmpty(0) /\ jsSeen'.open = <<>> /\ jsSeen'.extra = 0
    BY <2>1 DEF NewJs, NoJsSeen, JsNest, JsEmpty
  <2>4. JsNestOK'
    BY <1>2, <2>3 DEF JsNestOK
  <2>5. JsScopesKept'
    BY <1>3, <1>4, <2>1 DEF JsScopesKept, ScopesOK, JsTruth, NewJs, NoJsSeen
  <2>6. QED
    BY <2>2, <2>4, <2>5 DEF JsIInv
<1>7. QED
  BY <1>5, <1>6

LEMMA JsDefaultStep ==
    ASSUME JsIInv, SetUseStrictDefault
    PROVE  JsIInv'
<1>1. js \in JsT /\ jsSeen \in JsSeenT /\ JsNestOK /\ JsScopesKept /\ jsRun \in Seq(JsHidden)
  BY JsParts, JsTypes DEF JsIInv
<1>2. /\ js' = [js EXCEPT !.default = TRUE, !.strict = TRUE]
      /\ jsSeen' = [jsSeen EXCEPT !.file = TRUE] /\ jsRun' = jsRun
  BY DEF SetUseStrictDefault
<1>3. /\ js'.default = TRUE /\ js'.scopes = js.scopes /\ js'.last = js.last
      /\ js'.depth = js.depth /\ js'.templates = js.templates /\ js'.modes = js.modes
      /\ js' \in JsT
  BY <1>1, <1>2 DEF JsT
<1>4. /\ jsSeen'.open = jsSeen.open /\ jsSeen'.truth = jsSeen.truth
      /\ jsSeen'.directive = jsSeen.directive
      /\ jsSeen'.extra = jsSeen.extra /\ jsSeen' \in JsSeenT
  BY <1>1, <1>2 DEF JsSeenT
<1>5. JsNest' = JsNest
  BY <1>3 DEF JsNest
<1>6. JsNestOK'
  BY <1>1, <1>4, <1>5 DEF JsNestOK
<1>7. JsScopesKept'
  BY <1>1, <1>3, <1>4 DEF JsScopesKept, ScopesOK
<1>8. QED
  BY <1>1, <1>2, <1>3, <1>4, <1>6, <1>7, JsTypes DEF JsIInv

LEMMA JsMoved ==
    ASSUME JsIInv, JsNext \/ UNCHANGED jsVars
    PROVE  JsIInv'
<1>1. CASE JsReset
  BY <1>1, JsBegins
<1>2. CASE SetUseStrictDefault
  BY <1>2, JsDefaultStep
<1>3. ASSUME NEW c \in JsItems, JsStep(c) PROVE JsIInv'
  <2>1. jsRun' \in Seq(JsHidden)
    <3>1. jsRun \in Seq(JsHidden) /\ <<>> \in Seq(JsHidden)
      BY EmptySeq DEF JsIInv, JsTypeOK
    <3>2. c \in JsHidden => Append(jsRun, c) \in Seq(JsHidden)
      BY <3>1, AppendLast
    <3>3. QED
      BY <1>3, <3>1, <3>2 DEF JsStep
  <2>2. \/ JsOpenBrace(c) \/ JsCloseBrace(c)
        \/ JsTemplateOpenBrace(c) \/ JsTemplateCloseBrace(c) \/ JsBackTick(c)
        \/ JsStringLiteral(c) \/ JsOther(c)
    BY <1>3 DEF JsStep
  <2>3. QED
    BY <2>1, <2>2, JsOpenBraceStep, JsCloseBraceStep, JsTemplateOpenBraceStep,
       JsTemplateCloseBraceStep, JsBackTickStep, JsStringLiteralStep, JsOtherStep
<1>4. CASE UNCHANGED jsVars
  <2>1. js' = js /\ jsSeen' = jsSeen /\ jsRun' = jsRun
    BY <1>4 DEF jsVars
  <2>2. JsTypeOK'
    BY <2>1, JsTypes DEF JsIInv
  <2>3. JsNestOK' /\ JsScopesKept'
    BY <2>1 DEF JsIInv, JsNestOK, JsNest, JsScopesKept, ScopesOK, JsTruth
  <2>4. QED
    BY <2>2, <2>3 DEF JsIInv
<1>5. QED
  BY <1>1, <1>2, <1>3, <1>4 DEF JsNext

LEMMA JsComplete ==
    ASSUME JsIInv
    PROVE  TemplateBracesOK /\ ScopesOK
<1>1. ScopesOK
  BY JsParts DEF JsScopesKept
<1>2. JsTypeOK
  BY DEF JsIInv
<1>3. JsInDefault => (IsInTemplateString <=> jsSeen.open # <<>> /\ Last(jsSeen.open) = "$brace")
  BY JsTop
<1>4. JsNestFacts(jsSeen.extra, jsSeen.open, JsNest)
  <2>1. jsSeen.open \in Seq(JsOpens) /\ jsSeen.extra \in Nat
        /\ Leads(JsOpening, JsEmpty(jsSeen.extra), jsSeen.open, JsNest)
    BY JsParts DEF JsNestOK
  <2>2. QED
    BY <2>1, JsNesting
<1>5. /\ js.depth = Braces(jsSeen.open) - jsSeen.extra
      /\ Len(js.templates) = Count(jsSeen.open, "$brace")
      /\ js.modes = <<"DEFAULT">> \o JsModesOf(OnlyIn(jsSeen.open, {"$brace", "tick"}))
  <2>1. PICK b : b = JsNest
    OBVIOUS
  <2>2. b.depth = js.depth /\ b.templates = js.templates /\ b.modes = js.modes
    BY <2>1 DEF JsNest
  <2>3. JsNestFacts(jsSeen.extra, jsSeen.open, b)
    BY <1>4, <2>1
  <2>4. QED
    BY <2>2, <2>3 DEF JsNestFacts
<1>6. TemplateBracesOK
  BY <1>2, <1>3, <1>5 DEF TemplateBracesOK, JsModesOf
<1>7. QED
  BY <1>1, <1>6

(* However the input nests, the braces of template expressions are told     *)
(* from the others and the modes follow the templates.                      *)
THEOREM TemplatesTold == JsSpec => []TemplateBracesOK
<1>1. JsInit => JsIInv
  BY JsBegins
<1>2. JsIInv /\ [JsNext]_jsVars => JsIInv'
  BY JsMoved
<1>3. JsIInv => TemplateBracesOK
  BY JsComplete
<1>4. QED
  BY <1>1, <1>2, <1>3, PTL DEF JsSpec

(* The stack holds the strict mode of every scope that is open.             *)
THEOREM ScopesKept == JsSpec => []ScopesOK
<1>1. JsInit => JsIInv
  BY JsBegins
<1>2. JsIInv /\ [JsNext]_jsVars => JsIInv'
  BY JsMoved
<1>3. JsIInv => ScopesOK
  BY JsComplete
<1>4. QED
  BY <1>1, <1>2, <1>3, PTL DEF JsSpec

---------------------------------------------------------------------------
(* The hidden tokens: blanks are one token, and a comment up to the end of  *)
(* the line has the line end behind it.                                     *)
JsRunOK ==
    /\ jsRun \in Seq(JsHidden)
    /\ \A i \in 1..(Len(jsRun) - 1) :
          /\ jsRun[i] = "blanks" => jsRun[i + 1] # "blanks"
          /\ jsRun[i] = "//" => jsRun[i + 1] = "newline"

LEMMA JsRunMoved ==
    ASSUME JsRunOK, JsNext \/ UNCHANGED jsVars
    PROVE  JsRunOK'
<1>1. CASE jsRun' = <<>>
  <2>1. <<>> \in Seq(JsHidden) /\ Len(<<>>) = 0
    BY EmptySeq
  <2>2. QED
    BY <1>1, <2>1 DEF JsRunOK
<1>2. CASE jsRun' = jsRun
  BY <1>2 DEF JsRunOK
<1>3. ASSUME NEW c \in JsHidden, JsMayFollow(c), jsRun' = Append(jsRun, c) PROVE JsRunOK'
  <2>1. PICK r \in Seq(JsHidden) : r = jsRun
    BY DEF JsRunOK
  <2>2. PICK q \in Seq(JsHidden) : q = Append(r, c)
    BY AppendLast
  <2>3. /\ Len(q) = Len(r) + 1 /\ q[Len(r) + 1] = c /\ Len(r) \in Nat
        /\ \A i \in 1..Len(r) : q[i] = r[i]
    BY <2>2, AppendLast, LenProperties
  <2>4. \A i \in 1..(Len(r) - 1) :
          /\ r[i] = "blanks" => r[i + 1] # "blanks"
          /\ r[i] = "//" => r[i + 1] = "newline"
    BY <2>1 DEF JsRunOK
  <2>5. Len(r) # 0 => /\ r[Len(r)] = "blanks" => c # "blanks"
                      /\ r[Len(r)] = "//" => c = "newline"
    <3> SUFFICES ASSUME Len(r) # 0
                 PROVE  /\ r[Len(r)] = "blanks" => c # "blanks"
                        /\ r[Len(r)] = "//" => c = "newline"
      OBVIOUS
    <3>1. r # <<>> /\ Last(r) = r[Len(r)]
      BY EmptySeq, FrontLast
    <3>2. c # "EOF"
      BY DEF JsHidden
    <3>3. QED
      BY <1>3, <2>1, <3>1, <3>2 DEF JsMayFollow
  <2>6. ASSUME NEW i \in 1..(Len(q) - 1)
        PROVE  /\ q[i] = "blanks" => q[i + 1] # "blanks"
               /\ q[i] = "//" => q[i + 1] = "newline"
    <3>1. i \in 1..Len(r) /\ q[i] = r[i]
      BY <2>3
    <3>2. CASE i = Len(r)
      BY <2>3, <2>5, <3>1, <3>2
    <3>3. CASE i # Len(r)
      <4>1. i \in 1..(Len(r) - 1) /\ i + 1 \in 1..Len(r)
        BY <2>3, <3>1, <3>3
      <4>2. q[i + 1] = r[i + 1]
        BY <2>3, <4>1
      <4>3. QED
        BY <2>4, <3>1, <4>1, <4>2
    <3>4. QED
      BY <3>2, <3>3
  <2>7. jsRun' = q
    BY <1>3, <2>1, <2>2
  <2>8. QED
    BY <2>6, <2>7 DEF JsRunOK
<1>4. QED
  BY <1>1, <1>2, <1>3 DEF JsNext, JsReset, SetUseStrictDefault, JsStep, jsVars

LEMMA JsRunEnds ==
    ASSUME JsRunOK
    PROVE  EndsOfLines
<1>1. PICK r \in Seq(JsHidden) : r = jsRun
  BY DEF JsRunOK
<1> PICK n \in Nat : n = Len(r)
  BY LenProperties
<1>2. n = Len(r) /\ DOMAIN r = 1..n
  BY LenProperties
<1>3. \A i \in 1..n : r[i] \in JsHidden
  BY <1>2, ElementOfSeq
<1>4. \A i \in 1..(n - 1) : /\ r[i] = "blanks" => r[i + 1] # "blanks"
                            /\ r[i] = "//" => r[i + 1] = "newline"
  BY <1>1, <1>2 DEF JsRunOK
<1> PICK b1, b2 : b1 = Before(1) /\ b2 = Before(2)
  OBVIOUS
<1>ahead. LineTerminatorAhead <=>
            \/ b1 \in {"newline", "multiline"}
            \/ b1 = "blanks" /\ b2 \in {"newline", "multiline"}
  BY DEF LineTerminatorAhead
<1>5. /\ n >= 1 => b1 = r[n]
      /\ n >= 2 => b2 = r[n - 1]
      /\ n < 1 => b1 = "default"
      /\ n < 2 => b2 = "default"
  <2>1. /\ b1 = IF 1 <= n THEN r[n + 1 - 1] ELSE "default"
        /\ b2 = IF 2 <= n THEN r[n + 1 - 2] ELSE "default"
    BY <1>1, <1>2 DEF Before
  <2>2. n + 1 - 1 = n /\ n + 1 - 2 = n - 1
    OBVIOUS
  <2>3. QED
    BY <2>1, <2>2
<1> DEFINE ends == {i \in 1..n : r[i] \in {"newline", "multiline"}}
           commented == \E i \in 1..n : r[i] \in {"//", "inline"} /\ \A j \in ends : j < i
<1>6. ASSUME LineTerminatorAhead PROVE ends # {}
  <2>1. CASE b1 \in {"newline", "multiline"}
    <3>1. n >= 1
      BY <1>5, <2>1
    <3>2. n \in ends
      BY <1>5, <2>1, <3>1
    <3>3. QED
      BY <3>2
  <2>2. CASE b2 \in {"newline", "multiline"}
    <3>1. n >= 2
      BY <1>5, <2>2
    <3>2. n - 1 \in ends
      BY <1>5, <2>2, <3>1
    <3>3. QED
      BY <3>2
  <2>3. QED
    BY <1>6, <1>ahead, <2>1, <2>2
<1>7. ASSUME ends # {}, ~commented PROVE LineTerminatorAhead
  <2>1. PICK k \in ends : TRUE
    BY <1>7
  <2>2. k \in 1..n /\ r[k] \in {"newline", "multiline"} /\ n >= 1 /\ n \in 1..n
    BY <2>1
  <2>3. \A i \in 1..n : r[i] \in {"//", "inline"} => \E j \in ends : ~(j < i)
    BY <1>7
  <2>4. r[n] \notin {"//", "inline"}
    <3> SUFFICES ASSUME r[n] \in {"//", "inline"} PROVE FALSE
      OBVIOUS
    <3>1. PICK j \in ends : ~(j < n)
      BY <2>2, <2>3
    <3>2. j \in 1..n /\ r[j] \in {"newline", "multiline"}
      OBVIOUS
    <3>3. j = n
      BY <3>1, <3>2
    <3>4. QED
      BY <3>2, <3>3
  <2>5. CASE r[n] \in {"newline", "multiline"}
    BY <1>5, <1>ahead, <2>2, <2>5
  <2>6. CASE r[n] = "blanks"
    <3>1. k # n
      BY <2>2, <2>6
    <3>2. n >= 2 /\ n - 1 \in 1..n /\ n - 1 \in 1..(n - 1) /\ (n - 1) + 1 = n
      BY <2>2, <3>1
    <3>3. r[n - 1] # "blanks" /\ r[n - 1] # "//"
      BY <1>4, <2>6, <3>2
    <3>4. r[n - 1] # "inline"
      <4> SUFFICES ASSUME r[n - 1] = "inline" PROVE FALSE
        OBVIOUS
      <4>1. PICK j \in ends : ~(j < n - 1)
        BY <2>3, <3>2
      <4>2. j \in 1..n /\ r[j] \in {"newline", "multiline"}
        OBVIOUS
      <4>3. j = n \/ j = n - 1
        BY <4>1, <4>2
      <4>4. QED
        BY <2>6, <4>2, <4>3
    <3>5. r[n - 1] \in {"newline", "multiline"}
      BY <1>3, <3>2, <3>3, <3>4 DEF JsHidden
    <3>6. QED
      BY <1>5, <1>ahead, <2>2, <2>6, <3>2, <3>5
  <2>7. QED
    BY <1>3, <2>2, <2>4, <2>5, <2>6 DEF JsHidden
<1>8. QED
  BY <1>1, <1>2, <1>6, <1>7 DEF EndsOfLines

(* Where no comment stands behind the last line end, the parser finds it,   *)
(* and it finds none where there is none.                                   *)
THEOREM LineEndsFound == JsSpec => []EndsOfLines
<1>1. JsInit => JsRunOK
  <2>1. <<>> \in Seq(JsHidden) /\ Len(<<>>) = 0
    BY EmptySeq
  <2>2. QED
    BY <2>1 DEF JsInit, JsRunOK
<1>2. JsRunOK /\ [JsNext]_jsVars => JsRunOK'
  BY JsRunMoved
<1>3. JsRunOK => EndsOfLines
  BY JsRunEnds
<1>4. QED
  BY <1>1, <1>2, <1>3, PTL DEF JsSpec
=============================================================================
