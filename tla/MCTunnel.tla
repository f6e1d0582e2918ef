------------------------------ MODULE MCTunnel ------------------------------
(* A small instance of Tunnel.                                             *)
EXTENDS Tunnel

CONSTANTS c1, u1

OneConn == {c1}
OneSrc == {u1}
=============================================================================
