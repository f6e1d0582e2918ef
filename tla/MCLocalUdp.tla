----------------------------- MODULE MCLocalUdp -----------------------------
(* A small instance of LocalUdp.  The first udp session is numbered 2.     *)
EXTENDS LocalUdp

CONSTANTS c1, c2, r1, r2

Reply(s, from) == [session |-> s, from |-> from]
OneEach == {Reply(2, r1), Reply(3, r2)}
=============================================================================
