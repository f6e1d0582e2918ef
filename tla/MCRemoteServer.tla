--------------------------- MODULE MCRemoteServer ---------------------------
(* A small instance of RemoteServer.                                       *)
EXTENDS RemoteServer
=============================================================================
