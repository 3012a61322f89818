--------------------------- MODULE PostgreSQLLexer ---------------------------
(***************************************************************************)
(* PostgreSQLLexerBase: the stack of tags of dollar-quoted strings.  One    *)
(* step is one match of the generated lexer.                                *)
(***************************************************************************)
EXTENDS Sequences, SequencesExt

(* Two tags, an integer before two dots, any other token, and the end.      *)
PgTags == {"$$", "$tag$"}
PgItems == PgTags \union {"1..", "text", "EOF"}

VARIABLES
    pg,     \* the tags, whether in the mode of quoted strings, the token just returned
    pgSeen  \* history: the tag that began the string the input is in, or "none"

pgVars == <<pg, pgSeen>>

PgInit ==
    /\ pg = [tags |-> <<>>, quoting |-> FALSE, fault |-> "none", out |-> "none"]
    /\ pgSeen = "none"

PushTag(c) ==
    /\ c \in PgTags /\ ~pg.quoting
    /\ pg' = [pg EXCEPT !.tags = Append(@, c), !.quoting = TRUE, !.out = "BeginDollarString"]
    /\ pgSeen' = c

IsTag_Any(c) == c \in PgTags /\ pg.tags # <<>>
IsTag(c) == pg.tags # <<>> /\ c = Last(pg.tags)

PopTag(c) ==
    /\ pg.quoting /\ IsTag(c)
    /\ pg' = [pg EXCEPT !.tags = Front(@), !.quoting = FALSE, !.out = "EndDollarString"]
    /\ pgSeen' = IF c = pgSeen THEN "none" ELSE pgSeen

(* HandleNumericFail names a class that the module does not import.         *)
HandleNumericFail(c) ==
    /\ ~pg.quoting /\ c = "1.."
    /\ pg' = [pg EXCEPT !.fault = "NameError"]
    /\ UNCHANGED pgSeen

(* Inside a string every text that is not the end is DollarText.            *)
OtherPgToken(c) ==
    /\ IF pg.quoting THEN ~IsTag(c) ELSE c \in {"text", "EOF"}
    /\ pg' = [pg EXCEPT !.out = IF pg.quoting /\ c # "EOF" THEN "DollarText" ELSE c]
    /\ UNCHANGED pgSeen

PgStep(c) ==
    /\ pg.out # "EOF" /\ pg.fault = "none" /\ c \in PgItems
    /\ PushTag(c) \/ PopTag(c) \/ HandleNumericFail(c) \/ OtherPgToken(c)

(* reset() of the runtime: the tag of a string that was not ended stays.    *)
PgReset ==
    /\ pg' = [pg EXCEPT !.quoting = FALSE, !.out = "none"]
    /\ pgSeen' = "none"

---------------------------------------------------------------------------
(* Properties.                                                              *)

(* Every field keeps its range; the lexer is in the mode of quoted strings  *)
(* where the input is in one, and waits for the tag that began it, also     *)
(* when tags of an input before are below it.                               *)
TagsOK ==
    /\ pg \in [tags : Seq(PgTags), quoting : BOOLEAN, fault : {"none", "NameError"},
               out : PgItems \union {"none", "BeginDollarString", "EndDollarString", "DollarText"}]
    /\ pg.quoting <=> pgSeen # "none"
    /\ pg.quoting => pg.tags # <<>> /\ Last(pg.tags) = pgSeen
=============================================================================
