--------------------------- MODULE MCPython27Lexer ---------------------------
(***************************************************************************)
(* Whitespace of spaces, tabs and form feeds for TLC's runs.                *)
(***************************************************************************)
EXTENDS Python27Lexer

Indents == {<<" ">>, <<" ", "\f", " ", " ">>, <<"\t">>}
=============================================================================
