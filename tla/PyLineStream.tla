---------------------------- MODULE PyLineStream ----------------------------
(***************************************************************************)
(* What the python/python and the python/python3 lexers promise their       *)
(* parser: line breaks (LINE_BREAK, or NEWLINE), INDENT and DEDENT tokens   *)
(* stand between the lines, and EOF comes last.                             *)
(*                                                                          *)
(*   depth     INDENTs not yet closed by a DEDENT                           *)
(*   brackets  brackets opened and not closed                               *)
(*   line      "first", "open" (some of its tokens are out), "ended",       *)
(*             "indented", "joined" (a backslash is all of it), "closing"   *)
(*             (ended in the middle of brackets)                            *)
(***************************************************************************)
EXTENDS Integers

CONSTANT EmptyLines   \* whether a line without tokens may have a break

VARIABLES depth, brackets, line, over

stream == <<depth, brackets, line, over>>

Start == depth = 0 /\ brackets = 0 /\ line = "first" /\ over = FALSE

(* A break comes after a line that has tokens.  Inside brackets only the    *)
(* end of the input makes one.                                              *)
Break ==
    /\ ~over
    /\ line \in {"first", "open", "joined"} \/ EmptyLines
    /\ line' = IF brackets > 0 THEN "closing" ELSE "ended"
    /\ UNCHANGED <<depth, brackets, over>>

Indent ==
    /\ ~over /\ line = "ended"
    /\ depth' = depth + 1 /\ line' = "indented"
    /\ UNCHANGED <<brackets, over>>

Dedent ==
    /\ ~over /\ line \in {"ended", "closing"} /\ depth > 0
    /\ depth' = depth - 1
    /\ UNCHANGED <<brackets, line, over>>

Text ==
    /\ ~over /\ line # "closing"
    /\ line' = "open"
    /\ brackets' \in {brackets, brackets + 1, brackets - 1}
    /\ UNCHANGED <<depth, over>>

Joining ==
    /\ ~over /\ line \in {"ended", "indented"}
    /\ line' = IF line = "ended" THEN "joined" ELSE "open"
    /\ UNCHANGED <<depth, brackets, over>>

(* Every INDENT is closed, and none was the last thing before.              *)
Eof ==
    /\ ~over /\ depth = 0 /\ line # "indented"
    /\ over' = TRUE
    /\ UNCHANGED <<depth, brackets, line>>

(* The lexer is reset: another stream begins.                               *)
Restart == depth' = 0 /\ brackets' = 0 /\ line' = "first" /\ over' = FALSE

Emit == Break \/ Indent \/ Dedent \/ Text \/ Joining \/ Eof

Stream == Start /\ [][Emit \/ Restart]_stream
=============================================================================
