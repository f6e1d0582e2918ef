--------------------------- MODULE MCRawTcpRemote ---------------------------
(* A small instance of RawTcpRemote.                                       *)
EXTENDS RawTcpRemote

CONSTANTS d1, d2

TwoBuffers == {d1, d2}
=============================================================================
