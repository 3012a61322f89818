-------------------------- MODULE MCPythonRingLexer --------------------------
(***************************************************************************)
(* Whitespace for TLC's runs: two levels, one of them reached by a tab.     *)
(***************************************************************************)
EXTENDS PythonRingLexer

Indents == {<<" ">>, <<"\t">>}
=============================================================================
