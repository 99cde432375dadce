--------------------------- MODULE MCTcpRedirect ---------------------------
(* TcpRedirect on small instances.                                         *)
EXTENDS TcpRedirect

CONSTANTS x, y             \* connections
=============================================================================
