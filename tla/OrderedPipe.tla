----------------------------- MODULE OrderedPipe -----------------------------
(***************************************************************************)
(* What a relay promises the manager that feeds it: the buffers come out   *)
(* on the socket whole, once each and in the order they were handed over,  *)
(* until the socket is closed, and nothing comes out after that.  Buffers  *)
(* not yet out when the socket closes are lost.                            *)
(***************************************************************************)
EXTENDS Naturals, Sequences

CONSTANTS
  Data       \* buffers

VARIABLES
  in,        \* buffers handed over so far
  out,       \* buffers written so far
  closed     \* the socket has been closed

vars == <<in, out, closed>>

TypeOK ==
  /\ in \in Seq(Data)
  /\ out \in Seq(Data)
  /\ closed \in BOOLEAN

Init ==
  /\ in = <<>>
  /\ out = <<>>
  /\ closed = FALSE

Accept ==
  /\ \E d \in Data : in' = Append(in, d)
  /\ UNCHANGED <<out, closed>>

Emit ==
  /\ ~ closed
  /\ Len(out) < Len(in)
  /\ out' = Append(out, in[Len(out) + 1])
  /\ UNCHANGED <<in, closed>>

Close ==
  /\ closed' = TRUE
  /\ UNCHANGED <<in, out>>

Next == Accept \/ Emit \/ Close

Spec == Init /\ [][Next]_vars

(* The output is the beginning of the input.                               *)
IsPrefixOf(s, t) ==
  /\ Len(s) <= Len(t)
  /\ \A i \in 1 .. Len(s) : s[i] = t[i]

Prefix == IsPrefixOf(out, in)
=============================================================================
