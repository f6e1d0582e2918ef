----------------------------- MODULE MCRequests -----------------------------
(* A small instance of Requests: the characters are "a", "b" and ".".      *)
EXTENDS Requests

A == 97
B == 98

Line(kind, prefix, name, path) ==
  [kind |-> kind, prefix |-> prefix, name |-> name, path |-> path]

Scheme == <<Bar, A, 58, Slash, Slash>>

SomeRules ==
  {Line("rule", <<>>, <<Dot, B>>, <<>>),
   Line("rule", <<Bar, Bar>>, <<A, Dot, B>>, <<>>),
   Line("rule", Scheme, <<A, Star, Dot, B>>, <<Slash, A>>),
   Line("rule", <<>>, <<A, Star>>, <<Slash>>),
   Line("rule", <<Bar>>, <<B>>, <<Slash, B>>),
   Line("rule", <<Bar, Bar>>, <<Star, Dot, A, Dot>>, <<>>),
   Line("rule", Scheme, <<Star>>, <<Slash, B, Dot>>),
   Line("rule", <<Bar>>, <<>>, <<Slash>>),
   Line("comment", <<Comment>>, <<B>>, <<>>),
   Line("exception", <<At, At, Bar, Bar>>, <<B>>, <<>>)}

SomeHosts == BoundedSeq({A, B, Dot}, 5)

SomeAsked ==
  {[type |-> 1, host |-> <<1, 2, 3, 4>>, port |-> 258],
   [type |-> 4, host |-> [i \in 1 .. 16 |-> i], port |-> 80],
   [type |-> 3, host |-> <<A, Dot, B>>, port |-> 443],
   [type |-> 3, host |-> <<B>>, port |-> 1]}

SomePayloads == {<<>>, <<7>>, <<7, 8, 9>>}
=============================================================================
