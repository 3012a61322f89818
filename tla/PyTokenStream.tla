---------------------------- MODULE PyTokenStream ----------------------------
(***************************************************************************)
(* What a Python lexer promises its parser: the order of the tokens one     *)
(* nextToken() after another returns, from the ENCODING or first token to   *)
(* EOF.  Nothing is said of look-ahead, queues or modes.                    *)
(*                                                                          *)
(*   depth     INDENTs not yet closed by a DEDENT                           *)
(*   brackets  brackets opened and not closed (negative: closed too often)  *)
(*   strings   f-strings begun and not ended                                *)
(*   line      the current logical line: "first" (no statement yet),        *)
(*             "open" (some of its tokens are out), "ended", "indented"     *)
(*             (an INDENT is all of it), "joined" (a backslash is)          *)
(*   phase     "body", "closing" (after a made-up last NEWLINE), "ended"    *)
(***************************************************************************)
EXTENDS Integers

VARIABLES depth, brackets, strings, line, phase

stream == <<depth, brackets, strings, line, phase>>

Start ==
    /\ depth = 0 /\ brackets = 0 /\ strings = 0
    /\ line = "first" /\ phase \in {"fresh", "body"}

(* An INDENT opens a line; before the first statement none is closed later. *)
Indent ==
    /\ phase = "body" /\ strings = 0
    /\ \/ line = "ended" /\ brackets <= 0 /\ depth' = depth + 1
       \/ line = "first" /\ UNCHANGED depth
    /\ line' = "indented"
    /\ UNCHANGED <<brackets, strings, phase>>

(* A DEDENT closes an INDENT, after the NEWLINE that ends the block.        *)
Dedent ==
    /\ phase \in {"body", "closing"}
    /\ line \in {"ended", "joined"} /\ depth > 0
    /\ phase = "body" => strings = 0
    /\ depth' = depth - 1 /\ line' = "ended"
    /\ UNCHANGED <<brackets, strings, phase>>

(* A NEWLINE ends a line that has tokens, outside brackets and f-strings.   *)
Newline ==
    /\ phase = "body" /\ line \in {"open", "joined"}
    /\ brackets <= 0 /\ strings = 0
    /\ line' = "ended"
    /\ UNCHANGED <<depth, brackets, strings, phase>>

(* The last line has no newline character: one is made up.                  *)
LastNewline ==
    /\ phase = "body" /\ line \in {"open", "indented"}
    /\ line' = "ended" /\ phase' = "closing"
    /\ UNCHANGED <<depth, brackets, strings>>

(* An error token may stand for the DEDENT of a level it leaves.            *)
Error ==
    /\ phase = "body" /\ line = "ended"
    /\ depth' \in {depth, depth - 1} /\ depth' >= 0
    /\ line' = "open"
    /\ UNCHANGED <<brackets, strings, phase>>

Text ==
    /\ phase = "body"
    /\ line' = "open"
    /\ \/ UNCHANGED <<brackets, strings>>
       \/ brackets' \in {brackets + 1, brackets - 1} /\ UNCHANGED strings
       \/ strings' = strings + 1 /\ UNCHANGED brackets
       \/ strings > 0 /\ strings' = strings - 1 /\ UNCHANGED brackets
    /\ UNCHANGED <<depth, phase>>

Joining ==
    /\ phase = "body" /\ line \in {"ended", "indented"}
    /\ line' = IF line = "ended" THEN "joined" ELSE "open"
    /\ UNCHANGED <<depth, brackets, strings, phase>>

Encoding ==
    /\ phase = "fresh" /\ phase' = "body"
    /\ UNCHANGED <<depth, brackets, strings, line>>

(* EOF: every line is ended and every INDENT closed.                        *)
Eof ==
    /\ phase \in {"body", "closing"}
    /\ line \in {"first", "ended", "joined"} /\ depth = 0
    /\ phase' = "ended"
    /\ UNCHANGED <<depth, brackets, strings, line>>

(* The lexer is reset: another stream begins.                               *)
Restart ==
    /\ depth' = 0 /\ brackets' = 0 /\ strings' = 0
    /\ line' = "first" /\ phase' \in {"fresh", "body"}

Emit ==
    \/ Indent \/ Dedent \/ Newline \/ LastNewline \/ Error
    \/ Text \/ Joining \/ Encoding \/ Eof

Stream == Start /\ [][Emit \/ Restart]_stream
=============================================================================
