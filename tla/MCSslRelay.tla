----------------------------- MODULE MCSslRelay -----------------------------
(* A small instance of SslRelay.                                           *)
EXTENDS SslRelay

TwoRequests == 1 .. 2
=============================================================================
