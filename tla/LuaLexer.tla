------------------------------ MODULE LuaLexer ------------------------------
(***************************************************************************)
(* LuaLexerBase: the rule COMMENT matches two dashes, and HandleComment()   *)
(* reads on by hand to the end of a long comment or of the line.  A step    *)
(* is what the loops do with the next character, LA(1) = c; loops that      *)
(* leave `c` where it is go on in the same step.                            *)
(*                                                                          *)
(* lua.pc is "code" outside comments, "first" when HandleComment begins,    *)
(* "opening" and "closing" in skip_sep, "long" in read_long_string, "line"  *)
(* in the loop up to the newline.                                           *)
(***************************************************************************)
EXTENDS Integers, Sequences

(* "x" is any other character; "--" and "code" are matches outside.         *)
LuaChars == {"[", "]", "=", "newline", "x", "EOF"}
LuaItems == LuaChars \union {"--", "code"}

VARIABLES
    lua,     \* where HandleComment stands, the count of skip_sep, the level, what was matched
    luaSeen  \* history: the characters behind the two dashes, up to the end of the comment

luaVars == <<lua, luaSeen>>

NewLua == [pc |-> "code", count |-> 0, sep |-> 0, out |-> "none"]

LuaInit == lua = NewLua /\ luaSeen = <<>>

---------------------------------------------------------------------------
(* Outside comments.                                                        *)
OutsideComment(c) ==
    /\ lua.pc = "code" /\ c \in {"--", "code", "EOF"}
    /\ lua' = [lua EXCEPT !.pc = IF c = "--" THEN "first" ELSE "code", !.out = c]
    /\ luaSeen' = <<>>

(* HandleComment                                                            *)
ToEndOfLine(c) ==
    [lua EXCEPT !.pc = IF c \in {"newline", "EOF"} THEN "code" ELSE "line",
                !.out = IF c \in {"newline", "EOF"} THEN c ELSE "none"]

FirstCharacter(c) ==
    /\ lua.pc = "first"
    /\ lua' = IF c = "[" THEN [lua EXCEPT !.pc = "opening", !.count = 0, !.out = "none"]
              ELSE ToEndOfLine(c)

LineComment(c) ==
    /\ lua.pc = "line"
    /\ lua' = ToEndOfLine(c)

(* skip_sep, at the first bracket: 2 and the number of `=` between two of   *)
(* them, or else what is less than 2.                                       *)
Separator(c, bracket) ==
    CASE c = bracket                    -> lua.count + 2
      [] c # bracket /\ lua.count = 0   -> 1
      [] OTHER                          -> 0

OpenLongComment(c) ==
    /\ lua.pc = "opening"
    /\ lua' = CASE c = "="                 -> [lua EXCEPT !.count = @ + 1]
                [] Separator(c, "[") >= 2  -> [lua EXCEPT !.pc = "long", !.sep = Separator(c, "[")]
                [] OTHER                   -> ToEndOfLine(c)

(* read_long_string                                                         *)
Reads(c) ==
    CASE c = "EOF" -> [lua EXCEPT !.pc = "code", !.out = c]
      [] c = "]"   -> [lua EXCEPT !.pc = "closing", !.count = 0]
      [] OTHER     -> [lua EXCEPT !.pc = "long"]

ReadLongString(c) ==
    /\ lua.pc = "long"
    /\ lua' = Reads(c)

(* The second bracket is consumed when the levels are the same, and else    *)
(* read again, as the first of a new pair.                                  *)
Closes(c) == Separator(c, "]") = lua.sep

AfterMiss_Consumed(c) == IF c = "]" THEN [lua EXCEPT !.pc = "long"] ELSE Reads(c)
AfterMiss(c) == Reads(c)

CloseLongComment(c) ==
    /\ lua.pc = "closing"
    /\ lua' = CASE c = "="                -> [lua EXCEPT !.count = @ + 1]
                [] c # "=" /\ Closes(c)   -> [lua EXCEPT !.pc = "code", !.out = "COMMENT"]
                [] OTHER                  -> AfterMiss(c)

HandleComment(c) ==
    /\ c \in LuaChars
    /\ \/ FirstCharacter(c) \/ LineComment(c)
       \/ OpenLongComment(c) \/ ReadLongString(c) \/ CloseLongComment(c)
    /\ luaSeen' = Append(luaSeen, c)

LuaStep(c) ==
    /\ lua.out # "EOF"
    /\ OutsideComment(c) \/ HandleComment(c)

(* reset() of the runtime, between two calls.                               *)
LuaReset == lua' = NewLua /\ luaSeen' = <<>>

---------------------------------------------------------------------------
(* Properties.                                                              *)

(* What a comment is in Lua: its text begins with a long bracket of some    *)
(* level and ends with the first closing one of that level, or at the end   *)
(* of the input; or it ends with the line.                                  *)
LongBracket(bracket, level) == <<bracket>> \o [i \in 1..level |-> "="] \o <<bracket>>

Begins(t, s) == Len(s) <= Len(t) /\ SubSeq(t, 1, Len(s)) = s
Ends(t, s) == Len(s) <= Len(t) /\ SubSeq(t, Len(t) - Len(s) + 1, Len(t)) = s

Complete(t) ==
    \/ Ends(t, <<"EOF">>)
    \/ \E level \in 0..Len(t) :
          /\ Begins(t, LongBracket("[", level))
          /\ Ends(SubSeq(t, level + 3, Len(t)), LongBracket("]", level))
    \/ /\ ~\E level \in 0..Len(t) : Begins(t, LongBracket("[", level))
       /\ Ends(t, <<"newline">>)

(* HandleComment, read_long_string and skip_sep, which counts one bracket   *)
(* and consumes it before it knows that it is one of a pair, end a comment  *)
(* at the character that makes it complete: not earlier, not later.         *)
CommentEnds ==
    IF lua.pc = "code" THEN luaSeen = <<>> \/ Complete(luaSeen) ELSE ~Complete(luaSeen)
=============================================================================
