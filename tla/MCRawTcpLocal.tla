---------------------------- MODULE MCRawTcpLocal ----------------------------
(* A small instance of RawTcpLocal.                                        *)
EXTENDS RawTcpLocal

CONSTANTS d1, d2

OneBuffer == {d1}
TwoBuffers == {d1, d2}
=============================================================================
