-------------------------- MODULE JavaScriptParser --------------------------
(***************************************************************************)
(* JavaScriptParserBase: where a line ends a statement that has no          *)
(* semicolon.  The parser looks at the tokens before the current one, which *)
(* are those the lexer has hidden since the last it did not.                *)
(***************************************************************************)
EXTENDS JavaScriptLexer

(* The k-th token before the current one, if it is hidden.                  *)
Before(k) == IF k <= Len(jsRun) THEN jsRun[Len(jsRun) + 1 - k] ELSE "default"

LineTerminatorAhead_AnyComment ==
    \/ Before(1) \in {"newline", "multiline", "inline"}
    \/ Before(1) = "blanks" /\ Before(2) \in {"newline", "multiline"}

LineTerminatorAhead ==
    \/ Before(1) \in {"newline", "multiline"}
    \/ Before(1) = "blanks" /\ Before(2) \in {"newline", "multiline"}

---------------------------------------------------------------------------
(* Properties.                                                              *)

(* lineTerminatorAhead looks at one token, or two if there are blanks: it   *)
(* finds a line end if there is one among the hidden tokens, and no comment *)
(* stands behind the last; and it finds none where there is none.           *)
EndsOfLines ==
    LET lineEnds == {i \in DOMAIN jsRun : jsRun[i] \in {"newline", "multiline"}}
        commented == \E i \in DOMAIN jsRun :
            jsRun[i] \in {"//", "inline"} /\ \A j \in lineEnds : j < i
    IN  /\ LineTerminatorAhead => lineEnds # {}
        /\ lineEnds # {} /\ ~commented => LineTerminatorAhead
=============================================================================
