-------------------------- MODULE MCPython313Lexer --------------------------
(***************************************************************************)
(* The small inputs TLC checks Python313Lexer on: whitespace of spaces,     *)
(* tabs and form feeds, and FSTRING_MIDDLE texts with each of the endings   *)
(* the code looks for.                                                      *)
(***************************************************************************)
EXTENDS Python313Lexer

None == {}
Indents == {<<" ">>, <<" ", "\f", " ", " ">>, <<"\t">>}
Middles == {<<"x">>, <<"'", "{">>, <<"x", "{", "{">>, <<"x", "}", "}">>}
=============================================================================
