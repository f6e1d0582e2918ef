--------------------------- MODULE MCRawTcpTproxy ---------------------------
(* A small instance of RawTcpTproxy.                                       *)
EXTENDS RawTcpTproxy

CONSTANTS d1, d2

TwoBuffers == {d1, d2}
=============================================================================
