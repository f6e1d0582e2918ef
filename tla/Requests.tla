------------------------------ MODULE Requests ------------------------------
(***************************************************************************)
(* Where a request goes: the block list that decides whether a connection  *)
(* takes the tunnel, and the bytes in which a destination and a datagram   *)
(* cross it.  One request at a time is followed from the client through    *)
(* the two servers; characters and bytes are their codes.                  *)
(*                                                                         *)
(* load_list() turns a rule into the text of a regular expression.  A host *)
(* of a request is a name or the bytes of an address.                      *)
(***************************************************************************)
EXTENDS Integers, SequencesExt

CONSTANTS
  Rules,     \* [kind, prefix, name, path]: the parts of a line of the list
  Hosts,     \* names of hosts
  Asked,     \* [type, host, port]: destinations
  Payloads,  \* of datagrams
  MaxLines,  \* lines of the list, with the first
  READ_BUFFER_SIZE,
  Width      \* of a std::size_t: lengths are taken modulo this

Offset == 19   \* where the payload of a datagram begins

ASSUME RequestsAssumption ==
  /\ MaxLines \in Nat
  /\ READ_BUFFER_SIZE \in Nat
  /\ READ_BUFFER_SIZE >= Offset
  /\ Width \in Nat
  /\ Width > READ_BUFFER_SIZE

Byte == {b \in Nat : b < 256}

(* Addresses of the operating system, and names whose length is a byte.    *)
ASSUME AskedAssumption ==
  \A a \in Asked :
    /\ a \in [type : {1, 3, 4}, host : Seq(Byte), port : Nat]
    /\ a.port < 65536
    /\ a.type = 1 => Len(a.host) = 4
    /\ a.type = 4 => Len(a.host) = 16
    /\ a.type = 3 => Len(a.host) \in Byte

ASSUME PayloadsAssumption == \A payload \in Payloads : payload \in Seq(Byte)

VARIABLES
  lines,    \* history: the rules read, or headings of the list
  _hosts,   \* the expressions of the block list
  loaded,   \* load_list() has returned
  asked,    \* what the client asked, or sent
  frame,    \* the message on the link
  outcome   \* what became of it

messageVars == <<lines, _hosts, loaded, asked, frame, outcome>>

Nothing == [what |-> "nothing"]

-----------------------------------------------------------------------------
(* gfw_list.                                                               *)

Dot == 46
Star == 42
Bar == 124
Slash == 47
Backslash == 92
Dollar == 36
Comment == 33
Space == 32
At == 64

Text(rule) == rule.prefix \o rule.name \o rule.path

(* replace_string() of a character.                                        *)
ReplaceString(s, c, dest) ==
  FlattenSeq([i \in DOMAIN s |-> IF s[i] = c THEN dest ELSE <<s[i]>>])

AfterScheme(s) ==
  LET at == {i \in 1 .. Len(s) - 1 : s[i] = Slash /\ s[i + 1] = Slash} IN
  IF at = {} THEN s ELSE SubSeq(s, Min(at) + 2, Len(s))

BeforePath(s) == SubSeq(s, 1, SelectInSeq(s \o <<Slash>>, LAMBDA c : c = Slash) - 1)

Skipped(s) ==
  \/ s # <<>> /\ s[1] \in {Comment, Space}
  \/ Len(s) > 1 /\ s[1] = At /\ s[2] = At

(* A fault: '*' is rewritten first, and the dot it leaves is escaped.      *)
RewrittenStarFirst(s) ==
  LET name == BeforePath(AfterScheme(ReplaceString(s, Bar, <<>>)))
      stars == ReplaceString(name, Star, <<Dot, Star>>) IN
  ReplaceString(stars, Dot, <<Backslash, Dot>>)

Rewritten(s) ==
  LET name == BeforePath(AfterScheme(ReplaceString(s, Bar, <<>>)))
      dots == ReplaceString(name, Dot, <<Backslash, Dot>>) IN
  ReplaceString(dots, Star, <<Dot, Star>>)

(* std::unique.                                                            *)
Unique(s) ==
  LET kept == SetToSortSeq({i \in DOMAIN s : i = 1 \/ s[i] # s[i - 1]}, <) IN
  [k \in DOMAIN kept |-> s[kept[k]]]

(* std::regex, of an expression of characters, "\c", ".", "x*" and "$":    *)
(* e from its i-th character matches host from its j-th.                   *)
MatchesAt(e, from, host, at) ==
  LET matches[i \in 1 .. Len(e) + 1, j \in 1 .. Len(host) + 1] ==
        LET width == IF e[i] = Backslash THEN 2 ELSE 1
            c == e[i + width - 1]
            starred == i + width <= Len(e) /\ e[i + width] = Star
            one == j <= Len(host) /\ (host[j] = c \/ (width = 1 /\ c = Dot)) IN
        CASE i > Len(e) -> TRUE
          [] i <= Len(e) /\ e[i] = Dollar -> j = Len(host) + 1
          [] OTHER ->
               IF starred
               THEN \/ matches[i + width + 1, j]
                    \/ one /\ matches[i, j + 1]
               ELSE one /\ matches[i + width, j + 1] IN
  matches[from, at]

RegexSearch(host, e) == \E j \in 1 .. Len(host) + 1 : MatchesAt(e, 1, host, j)

IsBlocked(host) ==
  _hosts = <<>> \/ \E i \in DOMAIN _hosts : RegexSearch(host, _hosts[i])

-----------------------------------------------------------------------------
(* Addresses.  Arrays are indexed from 1 here.                             *)

Refused == [type |-> 0, host |-> <<>>, port |-> 0]

Port(bytes, at) == bytes[at] * 256 + bytes[at + 1]

(* parse_addr(): the bytes of an address of the operating system.          *)
ParseAddr(a) ==
  <<a.type>> \o a.host \o <<a.port \div 256, a.port % 256>>

(* A fault: the length of a name is tested without the byte of its length. *)
ParseAddressShort(data, len) ==
  LET size == CASE data[1] = 1 -> 4 [] data[1] = 4 -> 16 [] OTHER -> data[2]
      start == IF data[1] = 3 THEN 3 ELSE 2 IN
  IF data[1] \notin {1, 3, 4} \/ len < size + 3
  THEN Refused
  ELSE [type |-> data[1],
        host |-> SubSeq(data, start, start + size - 1),
        port |-> Port(data, start + size)]

(* parse_address(): it throws at an unknown type or at too few bytes.      *)
ParseAddress(data, len) ==
  LET size == CASE data[1] = 1 -> 4 [] data[1] = 4 -> 16 [] OTHER -> data[2]
      start == IF data[1] = 3 THEN 3 ELSE 2 IN
  IF data[1] \notin {1, 3, 4} \/ len < size + start + 1
  THEN Refused
  ELSE [type |-> data[1],
        host |-> SubSeq(data, start, start + size - 1),
        port |-> Port(data, start + size)]

(* get_data_addr(): other types give an empty address.                     *)
GetDataAddr(data) ==
  LET size == IF data[1] = 1 THEN 4 ELSE 16 IN
  IF data[1] \in {1, 4}
  THEN [type |-> data[1], host |-> SubSeq(data, 2, size + 1), port |-> Port(data, size + 2)]
  ELSE [type |-> 4, host |-> [i \in 1 .. 16 |-> 0], port |-> 0]

-----------------------------------------------------------------------------
(* relay_data.                                                             *)

(* s at the beginning of an array that is zero otherwise.                  *)
Array(s, size) == [i \in 1 .. size |-> IF i <= Len(s) THEN s[i] ELSE 0]

Message(cmd, len, bytes) ==
  [what |-> cmd, len |-> len, data |-> Array(bytes, READ_BUFFER_SIZE)]

(* A fault: the byte of the address type is not counted.                   *)
ResizeUdpShort(n) == (n + Offset - 1) % Width

ResizeUdp(n) == (n + Offset) % Width

UdpDataSize(len) == (len - Offset) % Width

(* n bytes of a datagram with address addr have been received.             *)
Datagram(addr, payload, n) ==
  Message("DATA_UDP", ResizeUdp(n), Array(addr, Offset) \o payload)

-----------------------------------------------------------------------------
MessageInit ==
  /\ lines = <<>>
  /\ _hosts = <<>>
  /\ loaded = FALSE
  /\ asked = Nothing
  /\ frame = Nothing
  /\ outcome = Nothing

(* load_list(): the first line is read and not looked at.                  *)
LoadLine(rule) ==
  /\ ~ loaded
  /\ Len(lines) < MaxLines
  /\ lines' = Append(lines, rule)
  /\ LET e == Rewritten(Text(rule)) IN
     _hosts' = IF lines = <<>> \/ Skipped(Text(rule)) \/ e = <<>>
               THEN _hosts ELSE Append(_hosts, e \o <<Dollar>>)
  /\ UNCHANGED <<loaded, asked, frame, outcome>>

LoadEnds ==
  /\ ~ loaded
  /\ loaded' = TRUE
  /\ _hosts' = Unique(_hosts)
  /\ UNCHANGED <<lines, asked, frame, outcome>>

(* The text of a host: a name is its own, an address is written in digits, *)
(* with dots or colons between them.                                       *)
Written(d) ==
  CASE d.type = 3 -> d.host
    [] d.type = 1 -> Tail(FlattenSeq([i \in 1 .. 4 |-> <<Dot, 48 + d.host[i]>>]))
    [] d.type = 4 -> <<58, 58>>

(* The bytes of a socks5 request.                                          *)
Request(a) ==
  <<5, 1, 0>> \o IF a.type = 3
                 THEN <<3, Len(a.host)>> \o a.host \o <<a.port \div 256, a.port % 256>>
                 ELSE ParseAddr(a)

(* impl_start_local(): one read returns the first len bytes of a request.  *)
AsksSocks(a, len) ==
  /\ loaded
  /\ asked = Nothing
  /\ asked' = [what |-> "connect", to |-> a, whole |-> len = Len(Request(a))]
  /\ LET data == Array(SubSeq(Request(a), 4, len), 509)
         d == IF len < 6 THEN Refused ELSE ParseAddress(data, len - 3) IN
     \/ /\ d = Refused
        /\ outcome' = [what |-> "refused"]
        /\ UNCHANGED frame
     \/ /\ d # Refused
        /\ ~ IsBlocked(Written(d))
        /\ outcome' = [what |-> "direct", to |-> d]
        /\ UNCHANGED frame
     \/ /\ d # Refused
        /\ IsBlocked(Written(d))
        /\ frame' = Message("START_TCP", len - 3, data)
        /\ UNCHANGED outcome
  /\ UNCHANGED <<lines, _hosts, loaded>>

(* impl_start_transparent(): the address the client connected to.          *)
AsksTransparent(a) ==
  /\ loaded
  /\ asked = Nothing
  /\ asked' = [what |-> "connect", to |-> a, whole |-> TRUE]
  /\ frame' = Message("START_TCP", Len(ParseAddr(a)), ParseAddr(a))
  /\ UNCHANGED <<lines, _hosts, loaded, outcome>>

(* A datagram from a client (transparent_udp_recv_on) or from a host       *)
(* (impl_start_recv): what is too long for the buffer is cut off.          *)
SendsDatagram(a, payload) ==
  /\ loaded
  /\ asked = Nothing
  /\ asked' = [what |-> "datagram", to |-> a, payload |-> payload]
  /\ LET n == Min({Len(payload), UdpDataSize(READ_BUFFER_SIZE)}) IN
     frame' = Datagram(ParseAddr(a), SubSeq(payload, 1, n), n)
  /\ UNCHANGED <<lines, _hosts, loaded, outcome>>

(* recvmsg() returns -1; the control message looked for an address is the  *)
(* stack's, which may hold that of an earlier call.                        *)
ReceivesNothing(a) ==
  /\ loaded
  /\ asked = Nothing
  /\ asked' = [what |-> "failure"]
  /\ frame' \in {Datagram(addr, <<>>, -1) : addr \in {<<>>, ParseAddr(a)}}
  /\ UNCHANGED <<lines, _hosts, loaded, outcome>>

(* The reader of the link on the other side takes what its buffer holds.   *)
Fits == frame # Nothing /\ frame.len <= READ_BUFFER_SIZE

RemoteStarts ==
  /\ Fits
  /\ frame.what = "START_TCP"
  /\ LET d == ParseAddress(frame.data, frame.len) IN
     outcome' = IF d = Refused THEN [what |-> "refused remotely"]
                ELSE [what |-> "remote", to |-> d]
  /\ frame' = Nothing
  /\ UNCHANGED <<lines, _hosts, loaded, asked>>

(* A size that no datagram has is refused by the system.                   *)
SendsOn ==
  /\ Fits
  /\ frame.what = "DATA_UDP"
  /\ LET size == UdpDataSize(frame.len) IN
     outcome' = IF size > READ_BUFFER_SIZE - Offset
                THEN [what |-> "failed", size |-> size]
                ELSE [what |-> "sent", size |-> size, to |-> GetDataAddr(frame.data),
                      bytes |-> SubSeq(frame.data, Offset + 1, Offset + size)]
  /\ frame' = Nothing
  /\ UNCHANGED <<lines, _hosts, loaded, asked>>

(* The next request.                                                       *)
Forgets ==
  /\ outcome # Nothing
  /\ asked' = Nothing
  /\ outcome' = Nothing
  /\ UNCHANGED <<lines, _hosts, loaded, frame>>

MessageNext ==
  \/ \E rule \in Rules : LoadLine(rule)
  \/ LoadEnds
  \/ \E a \in Asked : \E len \in 1 .. Len(Request(a)) : AsksSocks(a, len)
  \/ \E a \in Asked :
       /\ a.type # 3
       /\ \/ AsksTransparent(a)
          \/ ReceivesNothing(a)
          \/ \E payload \in Payloads : SendsDatagram(a, payload)
  \/ RemoteStarts \/ SendsOn \/ Forgets

MessageSpec == MessageInit /\ [][MessageNext]_messageVars

-----------------------------------------------------------------------------
MessageTypeOK ==
  /\ lines \in Seq(Rules)
  /\ \A i \in DOMAIN _hosts : _hosts[i] \in Seq(Nat)
  /\ loaded \in BOOLEAN
  /\ asked.what \in {"nothing", "connect", "datagram", "failure"}
  /\ frame.what \in {"nothing", "START_TCP", "DATA_UDP"}
  /\ frame # Nothing => frame.len \in 0 .. Width - 1
  /\ outcome.what \in {"nothing", "refused", "refused remotely", "direct",
                       "remote", "failed", "sent"}
  /\ outcome.what \in {"failed", "sent"} => outcome.size \in 0 .. Width - 1

(* A rule's name covers a host: '*' stands for any characters.             *)
Covers(name, host) ==
  LET covers[i \in 1 .. Len(name) + 1, j \in 1 .. Len(host) + 1] ==
        CASE i > Len(name) -> j > Len(host)
          [] i <= Len(name) /\ name[i] = Star -> \E k \in j .. Len(host) + 1 : covers[i + 1, k]
          [] OTHER -> j <= Len(host) /\ name[i] = host[j] /\ covers[i + 1, j + 1] IN
  covers[1, 1]

(* The rules of the list, in its own terms: after the first line, neither  *)
(* comments nor exceptions, and not without a name.                        *)
Names ==
  {lines[i].name : i \in {k \in 2 .. Len(lines) : lines[k].kind = "rule"}} \ {<<>>}

(* The list sends a host through the tunnel just when a name covers an end *)
(* of it, or the list has no rule: what is written around the name does    *)
(* not count, and exceptions do not.  (gfwlist.cpp:27-74, 81-125)          *)
VerdictIsList ==
  loaded /\ asked = Nothing =>
    \A host \in Hosts :
      IsBlocked(host) <=>
        \/ Names = {}
        \/ \E name \in Names, k \in 1 .. Len(host) + 1 :
             Covers(name, SubSeq(host, k, Len(host)))

(* The types, and a verdict for every host that is the list's, through the *)
(* rewriting of its rules.  (gfwlist.cpp:25-122)                           *)
ListInv == MessageTypeOK /\ VerdictIsList

(* A connection is made to the destination the client asked, by whichever  *)
(* server; a request of which the read returned a part only is refused,    *)
(* and the remote server never refuses what the local one took.            *)
(* (raw_tcp.cpp:240-258, utils.cpp:40-77)                                  *)
DestinationIsAsked ==
  /\ outcome.what \in {"direct", "remote"} => outcome.to = asked.to /\ asked.whole
  /\ outcome.what = "refused" => ~ asked.whole
  /\ outcome.what # "refused remotely"

(* What is sent on is a datagram that was received, to its address and     *)
(* with its bytes as far as the buffer holds them; a failed receive sends  *)
(* nothing.  (relay_acceptor.cpp:108-139, raw_udp.cpp:110-127,             *)
(* relay_data.hpp:68-88)                                                   *)
DatagramIntact ==
  /\ outcome.what = "sent" =>
       /\ asked.what = "datagram"
       /\ outcome.to = asked.to
       /\ outcome.bytes = SubSeq(asked.payload, 1, Min({Len(asked.payload), READ_BUFFER_SIZE - Offset}))
  /\ outcome.what = "failed" => asked.what = "failure"
=============================================================================
