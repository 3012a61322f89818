---------------------------- MODULE MCTestDriver ----------------------------
(***************************************************************************)
(* How far TLC follows the inputs of each lexer.                            *)
(***************************************************************************)
EXTENDS TestDriver

Items ==
    [js |-> 7, php |-> 10, antlr |-> 12, mysql |-> 6, pg |-> 8, lua |-> 8]
ItemsOf == [l \in Lexers |-> Items[l]]
=============================================================================
