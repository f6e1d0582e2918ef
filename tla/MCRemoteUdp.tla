----------------------------- MODULE MCRemoteUdp ----------------------------
(* A small instance of RemoteUdp.                                          *)
EXTENDS RemoteUdp

CONSTANTS d1, d2

TwoDatagrams == {d1, d2}
=============================================================================
