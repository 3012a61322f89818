--------------------------- MODULE MCPython3Lexer ---------------------------
EXTENDS Python3Lexer
=============================================================================
