---------------------------- MODULE TunnelProofs ----------------------------
(***************************************************************************)
(* Theorems about Tunnel, for any numbers of connections, sources, links   *)
(* and chunks: tables and relays agree, and what reaches a connection is   *)
(* its own data, in order and without gaps.                                *)
(***************************************************************************)
EXTENDS Tunnel, SequenceTheorems, FiniteSetTheorems, TLAPS

-----------------------------------------------------------------------------
(* The numbers the constants give.                                         *)
LEMMA Bounds ==
  /\ IsFiniteSet(Owners) /\ Cardinality(Owners) \in Nat
  /\ Sessions \subseteq Nat /\ 0 \notin Sessions /\ 1 \in Sessions
  /\ MaxData \in Nat /\ MaxRead <= MaxData /\ MaxUdp <= MaxData
  /\ NoOne \notin Owners
  /\ \A k \in Nat : k \in Sessions <=> 1 <= k /\ k <= Cardinality(Owners) + 1
<1>1. IsFiniteSet(Owners)
  BY TunnelAssumption, FS_Union DEF Owners
<1>2. Cardinality(Owners) \in Nat
  BY <1>1, FS_CardinalityType
<1>3. MaxData \in {MaxRead, MaxUdp} /\ MaxData >= MaxRead /\ MaxData >= MaxUdp
  <2>1. \E x \in {MaxRead, MaxUdp} : \A y \in {MaxRead, MaxUdp} : x >= y
    BY TunnelAssumption
  <2> QED
    BY <2>1, Zenon DEF MaxData, Max
<1> QED
  BY <1>1, <1>2, <1>3, TunnelAssumption DEF Sessions, Owners

(* The owners that have a number.  Numbers are handed out one by one; a    *)
(* source takes the next one and leaves the counter on it, so that a later *)
(* connection gets the same, and no two connections do.                    *)
Taken == {o \in Owners : session[o] # 0}

Numbered ==
  /\ counter = Cardinality(Taken) + 1
  /\ \A c \in Conns : (session[c] = 0 <=> local[c] = "none") /\ session[c] < counter
  /\ \A o \in Owners : session[o] <= counter
  /\ \A c, d \in Conns : session[c] = session[d] /\ session[c] # 0 => c = d

(* What a link carries: messages under the number of their owner, data     *)
(* that has been read.                                                     *)
UpMessage ==
  {m \in Message :
     /\ m.session = session[m.of]
     /\ m.cmd \in {"START_TCP", "DATA_TCP"} => m.of \in Conns
     /\ m.cmd = "DATA_UDP" => m.of \in Srcs
     /\ m.cmd \in {"DATA_TCP", "DATA_UDP"} => m.nth \in 1 .. read[m.of]}

DownMessage ==
  {m \in Message :
     /\ m.session = session[m.of]
     /\ m.cmd \in {"DATA_TCP", "STOP_TCP"}
     /\ m.cmd = "DATA_TCP" => m.of \in Conns /\ m.nth \in 1 .. back[m.of]}

Carried ==
  /\ up \in [Links -> Seq(UpMessage)]
  /\ down \in [Links -> Seq(DownMessage)]

(* A table lists a relay under its own number, and a local relay that      *)
(* serves is listed.                                                       *)
LocalAgrees ==
  /\ \A s \in Sessions : table[s] # NoOne => session[table[s]] = s
  /\ \A c \in Conns : local[c] \in {"fresh", "open"} => table[session[c]] = c

(* The same of the manager of link n with relays r, table t and strays st: *)
(* its relays were made, for owners that have a number.                    *)
Agrees(n, r, t, st) ==
  /\ \A s \in Sessions : t[s] # NoOne => session[t[s]] = s /\ r[t[s]] # "none"
  /\ \A o \in Owners : r[o] # "none" => session[o] # 0
  /\ \A c \in Conns : r[c] \in {"starting", "open"} =>
       t[session[c]] = c \/ <<n, c>> \in st

FarAgrees == \A n \in Links : Agrees(n, remote[n], farTable[n], stray)

SessionIInv == TypeOK /\ Numbered /\ Carried /\ LocalAgrees /\ FarAgrees

-----------------------------------------------------------------------------
(* Messages.                                                               *)
LEMMA MessagesAreGood ==
  TypeOK =>
    /\ \A c \in Conns : session[c] # 0 =>
         /\ Start(c) \in UpMessage
         /\ \A k \in 1 .. read[c] : Data(session[c], c, k) \in UpMessage
         /\ \A k \in 1 .. back[c] : Data(session[c], c, k) \in DownMessage
    /\ \A o \in Owners : session[o] # 0 =>
         Stop(session[o], o) \in UpMessage /\ Stop(session[o], o) \in DownMessage
    /\ \A u \in Srcs : session[u] # 0 => \A k \in 1 .. read[u] :
         [cmd |-> "DATA_UDP", session |-> session[u], of |-> u, nth |-> k] \in UpMessage
<1> SUFFICES ASSUME TypeOK
    PROVE  /\ \A c \in Conns : session[c] # 0 =>
                /\ Start(c) \in UpMessage
                /\ \A k \in 1 .. read[c] : Data(session[c], c, k) \in UpMessage
                /\ \A k \in 1 .. back[c] : Data(session[c], c, k) \in DownMessage
           /\ \A o \in Owners : session[o] # 0 =>
                Stop(session[o], o) \in UpMessage /\ Stop(session[o], o) \in DownMessage
           /\ \A u \in Srcs : session[u] # 0 => \A k \in 1 .. read[u] :
                [cmd |-> "DATA_UDP", session |-> session[u], of |-> u, nth |-> k] \in UpMessage
  OBVIOUS
<1>1. /\ Conns \subseteq Owners /\ Srcs \subseteq Owners
      /\ \A o \in Owners : session[o] # 0 => session[o] \in Sessions
      /\ \A o \in Owners : read[o] \in 0 .. MaxData
      /\ \A c \in Conns : back[c] \in 0 .. MaxData
      /\ MaxData \in Nat
  BY Bounds DEF TypeOK, Owners
<1>2. \A c \in Conns : session[c] # 0 =>
        /\ Start(c) \in UpMessage
        /\ \A k \in 1 .. read[c] : Data(session[c], c, k) \in UpMessage
        /\ \A k \in 1 .. back[c] : Data(session[c], c, k) \in DownMessage
  BY <1>1 DEF Start, Data, UpMessage, DownMessage, Message
<1>3. \A o \in Owners : session[o] # 0 =>
        Stop(session[o], o) \in UpMessage /\ Stop(session[o], o) \in DownMessage
  BY <1>1 DEF Stop, UpMessage, DownMessage, Message
<1>4. \A u \in Srcs : session[u] # 0 => \A k \in 1 .. read[u] :
        [cmd |-> "DATA_UDP", session |-> session[u], of |-> u, nth |-> k] \in UpMessage
  BY <1>1 DEF UpMessage, Message
<1> QED
  BY <1>2, <1>3, <1>4

(* A number, once taken, and what has been read, are not taken back.       *)
Grows ==
  /\ \A o \in Owners : session[o] # 0 => session'[o] = session[o]
  /\ \A o \in Owners : read[o] <= read'[o] /\ read'[o] \in Nat
  /\ \A c \in Conns : back[c] <= back'[c] /\ back'[c] \in Nat

LEMMA MessagesStayGood ==
  ASSUME TypeOK, Grows
  PROVE  UpMessage \subseteq UpMessage' /\ DownMessage \subseteq DownMessage'
<1>1. /\ \A o \in Owners : read[o] \in Nat
      /\ \A c \in Conns : back[c] \in Nat
      /\ 0 \notin Sessions
  BY Bounds DEF TypeOK
<1>2. UpMessage \subseteq UpMessage'
  BY <1>1 DEF UpMessage, Message, Grows, Owners
<1>3. DownMessage \subseteq DownMessage'
  BY <1>1 DEF DownMessage, Message, Grows, Owners
<1> QED
  BY <1>2, <1>3

(* What one step does to a family of channels: nothing, or one of them     *)
(* gets a message of M, loses its first or is cleared.                     *)
Moves(q, r, M) ==
  \/ r = q
  \/ \E n \in Links :
       \/ \E m \in M : r = [q EXCEPT ![n] = Append(@, m)]
       \/ q[n] # <<>> /\ r = [q EXCEPT ![n] = Tail(@)]
       \/ r = [q EXCEPT ![n] = <<>>]

LEMMA MovesKeep ==
  ASSUME NEW M, NEW N, M \subseteq N, NEW q \in [Links -> Seq(M)], NEW r, Moves(q, r, N)
  PROVE  r \in [Links -> Seq(N)]
<1>1. q \in [Links -> Seq(N)]
  BY SeqMonotonic
<1>2. CASE r = q
  BY <1>1, <1>2
<1>3. ASSUME NEW n \in Links, NEW m \in N, r = [q EXCEPT ![n] = Append(@, m)]
      PROVE  r \in [Links -> Seq(N)]
  BY <1>1, <1>3, AppendProperties
<1>4. ASSUME NEW n \in Links, q[n] # <<>>, r = [q EXCEPT ![n] = Tail(@)]
      PROVE  r \in [Links -> Seq(N)]
  BY <1>1, <1>4, HeadTailProperties
<1>5. ASSUME NEW n \in Links, r = [q EXCEPT ![n] = <<>>]
      PROVE  r \in [Links -> Seq(N)]
  BY <1>1, <1>5, EmptySeq
<1> QED
  BY <1>2, <1>3, <1>4, <1>5 DEF Moves

LEMMA CarriedKept ==
  ASSUME TypeOK, Carried, Grows,
         Moves(up, up', UpMessage'), Moves(down, down', DownMessage')
  PROVE  Carried'
<1>1. up' \in [Links -> Seq(UpMessage')] /\ down' \in [Links -> Seq(DownMessage')]
  BY MessagesStayGood, MovesKeep DEF Carried
<1> QED
  BY <1>1 DEF Carried

LEMMA CarriedIsTyped ==
  Carried => up \in [Links -> Seq(Message)] /\ down \in [Links -> Seq(Message)]
<1>1. UpMessage \subseteq Message /\ DownMessage \subseteq Message
  BY DEF UpMessage, DownMessage
<1> QED
  BY <1>1, SeqMonotonic DEF Carried

(* The first message of a link.                                            *)
LEMMA HeadIsGood ==
  ASSUME Carried, NEW n \in Links
  PROVE  /\ up[n] # <<>> => Head(up[n]) \in UpMessage
         /\ down[n] # <<>> => Head(down[n]) \in DownMessage
BY HeadTailProperties DEF Carried

-----------------------------------------------------------------------------
(* The helpers of the two managers.                                        *)
LEMMA LocalRequestsMoves ==
  ASSUME TypeOK, NEW M, NEW m \in M, LocalRequests(m)
  PROVE  /\ link' \in [Links -> LinkState]
         /\ Moves(up, up', M)
<1>1. link' \in [Links -> LinkState]
  BY DEF LocalRequests, TypeOK, LinkState
<1>2. Carrier \in Links /\ (up' = up \/ up' = [up EXCEPT ![Carrier] = Append(@, m)])
  BY DEF LocalRequests
<1>3. Moves(up, up', M)
  <2> HIDE DEF Carrier
  <2> QED
    BY <1>2 DEF Moves
<1> QED
  BY <1>1, <1>3

LEMMA HaltStops ==
  ASSUME NEW r \in [Owners -> RemoteState], NEW os \in SUBSET Owners,
         NEW kept \in Keepable(r, os)
  PROVE  /\ kept \subseteq os /\ kept \subseteq Conns
         /\ Halt(r, os, kept) \in [Owners -> RemoteState]
         /\ \A o \in Owners : Halt(r, os, kept)[o] = "none" <=> r[o] = "none"
         /\ \A o \in Owners : Halt(r, os, kept)[o] \in {"starting", "open"} =>
              r[o] \in {"starting", "open"} /\ (o \notin os \/ o \in kept)
BY DEF Halt, Halted, Keepable, RemoteState

(* A manager that stops forgets its relays: those that go on are strays.   *)
LEMMA StopManagerAgrees ==
  ASSUME TypeOK, NEW n \in Links, NEW r \in [Owners -> RemoteState],
         Agrees(n, r, farTable[n], stray), StopManager(n, r)
  PROVE  /\ remote' \in [Links -> [Owners -> RemoteState]]
         /\ farTable' \in [Links -> [Sessions -> Owners \cup {NoOne}]]
         /\ gone' \in SUBSET Links
         /\ stray' \in SUBSET (Links \X Conns) /\ stray \subseteq stray'
         /\ \A p \in Links \ {n} : remote'[p] = remote[p] /\ farTable'[p] = farTable[p]
         /\ Agrees(n, remote'[n], farTable'[n], stray')
         /\ \A o \in Owners : remote'[n][o] = "none" <=> r[o] = "none"
<1>1. PICK kept \in Keepable(r, Listed(n)) :
        /\ remote' = [remote EXCEPT ![n] = Halt(r, Listed(n), kept)]
        /\ stray' = stray \cup ({n} \X kept)
  BY DEF StopManager
<1> DEFINE h == Halt(r, Listed(n), kept)
           t == [s \in Sessions |-> NoOne]
<1>2. Listed(n) \in SUBSET Owners
  BY DEF Listed
<1>3. /\ kept \subseteq Listed(n) /\ kept \subseteq Conns
      /\ h \in [Owners -> RemoteState]
      /\ \A o \in Owners : h[o] = "none" <=> r[o] = "none"
      /\ \A o \in Owners : h[o] \in {"starting", "open"} =>
           r[o] \in {"starting", "open"} /\ (o \notin Listed(n) \/ o \in kept)
  BY <1>1, <1>2, HaltStops
<1> HIDE DEF h
<1>4. /\ remote' = [remote EXCEPT ![n] = h]
      /\ farTable' = [farTable EXCEPT ![n] = t]
      /\ gone' = gone \cup {n}
      /\ stray' = stray \cup ({n} \X kept)
  BY <1>1 DEF h, StopManager
<1>5. /\ remote'[n] = h /\ farTable'[n] = t
      /\ \A p \in Links \ {n} : remote'[p] = remote[p] /\ farTable'[p] = farTable[p]
  BY <1>4 DEF TypeOK
<1>6. /\ remote' \in [Links -> [Owners -> RemoteState]]
      /\ gone' \in SUBSET Links
      /\ stray' \in SUBSET (Links \X Conns) /\ stray \subseteq stray'
  BY <1>3, <1>4 DEF TypeOK
<1>7. farTable' \in [Links -> [Sessions -> Owners \cup {NoOne}]]
  BY <1>4 DEF TypeOK
<1>8. Agrees(n, h, t, stray')
  <2>1. ASSUME NEW c \in Conns, h[c] \in {"starting", "open"}
        PROVE  t[session[c]] = c \/ <<n, c>> \in stray'
    <3>1. c \in Owners
      BY DEF Owners
    <3>2. session[c] \in Sessions
      BY <3>1, <2>1, <1>3 DEF Agrees, TypeOK, RemoteState
    <3>3. CASE c \in kept
      BY <3>3, <1>4
    <3>4. CASE c \notin Listed(n)
      BY <3>1, <3>2, <3>4, <2>1, <1>3, <1>4 DEF Agrees, Listed
    <3> QED
      BY <3>1, <3>3, <3>4, <2>1, <1>3
  <2> QED
    BY <2>1, <1>3 DEF Agrees
<1> QED
  BY <1>3, <1>5, <1>6, <1>7, <1>8

(* A manager's request leaves the relays as the handler has made them, or  *)
(* stops them.                                                             *)
LEMMA FarRequestsAgrees ==
  ASSUME TypeOK, NEW n \in Links, NEW r \in [Owners -> RemoteState],
         NEW t \in [Sessions -> Owners \cup {NoOne}],
         Agrees(n, r, farTable[n], stray), Agrees(n, r, t, stray),
         NEW M, NEW m \in M, FarRequests(n, r, t, m)
  PROVE  /\ remote' \in [Links -> [Owners -> RemoteState]]
         /\ farTable' \in [Links -> [Sessions -> Owners \cup {NoOne}]]
         /\ gone' \in SUBSET Links
         /\ stray' \in SUBSET (Links \X Conns) /\ stray \subseteq stray'
         /\ \A p \in Links \ {n} : remote'[p] = remote[p] /\ farTable'[p] = farTable[p]
         /\ Agrees(n, remote'[n], farTable'[n], stray')
         /\ \A o \in Owners : remote'[n][o] = "none" <=> r[o] = "none"
         /\ Moves(down, down', M)
<1>1. CASE far[n] = "up"
  <2>1. /\ remote' = [remote EXCEPT ![n] = r]
        /\ farTable' = [farTable EXCEPT ![n] = t]
        /\ UNCHANGED <<gone, stray>>
        /\ down' = down \/ down' = [down EXCEPT ![n] = Append(@, m)]
    BY <1>1 DEF FarRequests
  <2>2. /\ remote'[n] = r /\ farTable'[n] = t
        /\ \A p \in Links \ {n} : remote'[p] = remote[p] /\ farTable'[p] = farTable[p]
    BY <2>1 DEF TypeOK
  <2>3. Moves(down, down', M)
    BY <2>1 DEF Moves
  <2>4. remote' \in [Links -> [Owners -> RemoteState]]
    BY <2>1 DEF TypeOK
  <2>5. farTable' \in [Links -> [Sessions -> Owners \cup {NoOne}]]
    BY <2>1 DEF TypeOK
  <2> QED
    BY <2>1, <2>2, <2>3, <2>4, <2>5 DEF TypeOK
<1>2. CASE far[n] # "up"
  <2>1. StopManager(n, r) /\ down' = down
    BY <1>2 DEF FarRequests
  <2> QED
    BY <2>1, StopManagerAgrees DEF Moves
<1> QED
  BY <1>1, <1>2

(* The other managers do not notice.                                       *)
LEMMA OthersAgree ==
  ASSUME FarAgrees, NEW n \in Links, stray \subseteq stray', UNCHANGED session,
         \A p \in Links \ {n} : remote'[p] = remote[p] /\ farTable'[p] = farTable[p],
         Agrees(n, remote'[n], farTable'[n], stray')
  PROVE  FarAgrees'
<1>1. \A p \in Links \ {n} : Agrees(p, remote'[p], farTable'[p], stray')
  BY DEF FarAgrees, Agrees
<1>2. \A p \in Links : Agrees(p, remote'[p], farTable'[p], stray')
  BY <1>1
<1>3. session' = session
  OBVIOUS
<1> QED
  BY <1>2, <1>3 DEF FarAgrees, Agrees

-----------------------------------------------------------------------------
(* The steps that take no number.                                          *)
LEMMA NumberedKept ==
  ASSUME Numbered, UNCHANGED <<counter, session>>,
         \A c \in Conns : local'[c] = "none" <=> local[c] = "none"
  PROVE  Numbered'
BY DEF Numbered, Taken

LEMMA LocalAgreesKept ==
  ASSUME LocalAgrees, UNCHANGED <<session, table, local>>
  PROVE  LocalAgrees'
BY DEF LocalAgrees

(* An entry that goes takes its relay with it.                             *)
LEMMA LocalErases ==
  ASSUME TypeOK, Numbered, LocalAgrees, UNCHANGED session, NEW c \in Conns,
         table[session[c]] = c, session[c] \in Sessions,
         table' = [table EXCEPT ![session[c]] = NoOne],
         local'[c] \notin {"fresh", "open"},
         \A d \in Conns \ {c} : local'[d] = local[d]
  PROVE  LocalAgrees'
<1>1. \A d \in Conns : session[d] = session[c] => d = c
  BY Bounds DEF Numbered
<1>2. \A d \in Conns : local[d] \in {"fresh", "open"} => session[d] \in Sessions
  BY DEF Numbered, TypeOK, Owners
<1>3. \A s \in Sessions : table'[s] # NoOne => table'[s] = table[s]
  BY DEF TypeOK
<1>4. \A s \in Sessions : s # session[c] => table'[s] = table[s]
  BY DEF TypeOK
<1> QED
  BY <1>1, <1>2, <1>3, <1>4 DEF LocalAgrees

(* The relays of the local server serve until they stop, and were given a  *)
(* number before.                                                          *)
LEMMA Numbers ==
  ASSUME TypeOK, Numbered
  PROVE  \A c \in Conns :
           /\ c \in Owners
           /\ session[c] \in {0} \cup Sessions
           /\ local[c] # "none" => session[c] \in Sessions /\ session[c] # 0
BY Bounds DEF TypeOK, Numbered, Owners

LEMMA LocalRelaysChange ==
  ASSUME TypeOK, Numbered, LocalAgrees, UNCHANGED <<session, table>>,
         \A c \in Conns : local'[c] \in {"fresh", "open"} => local[c] \in {"fresh", "open"}
  PROVE  LocalAgrees'
BY DEF LocalAgrees

LEMMA FarAgreesKept ==
  ASSUME TypeOK, FarAgrees, UNCHANGED <<farTable, remote, stray>>,
         \A o \in Owners : session[o] # 0 => session'[o] = session[o],
         \A o \in Owners : session'[o] \in {0} \cup Sessions
  PROVE  FarAgrees'
<1>1. ASSUME NEW n \in Links
      PROVE  Agrees(n, remote[n], farTable[n], stray)'
  <2>1. Agrees(n, remote[n], farTable[n], stray)
    BY DEF FarAgrees
  <2>2. \A s \in Sessions : farTable[n][s] \in Owners \cup {NoOne} /\ s # 0
    BY Bounds DEF TypeOK
  <2>3. \A c \in Conns : c \in Owners
    BY DEF Owners
  <2>4. \A s \in Sessions : farTable[n][s] # NoOne => session'[farTable[n][s]] = s
    BY <2>1, <2>2 DEF Agrees
  <2>5. \A o \in Owners : remote[n][o] # "none" => session'[o] # 0
    BY <2>1, Bounds DEF Agrees
  <2>6. \A c \in Conns : remote[n][c] \in {"starting", "open"} => session'[c] = session[c]
    BY <2>1, <2>3 DEF Agrees
  <2> QED
    BY <2>1, <2>4, <2>5, <2>6 DEF Agrees
<1> QED
  BY <1>1 DEF FarAgrees

LEMMA OneMore ==
  ASSUME NEW S, NEW f \in [S -> Nat], NEW g,
         g = f \/ (\E o \in S : g = [f EXCEPT ![o] = @ + 1])
  PROVE  \A o \in S : f[o] <= g[o] /\ g[o] \in Nat
<1>1. ASSUME NEW x \in S, g = [f EXCEPT ![x] = @ + 1], NEW o \in S
      PROVE  f[o] <= g[o] /\ g[o] \in Nat
  <2>1. f[o] \in Nat /\ g[o] = IF o = x THEN f[o] + 1 ELSE f[o]
    BY <1>1
  <2> QED
    BY <2>1
<1>2. CASE g = f
  <2>1. \A o \in S : f[o] \in Nat
    OBVIOUS
  <2> QED
    BY <1>2, <2>1
<1> QED
  BY <1>1, <1>2

LEMMA GrowsByReading ==
  ASSUME TypeOK, UNCHANGED session,
         read' = read \/ (\E o \in Owners : read' = [read EXCEPT ![o] = @ + 1]),
         back' = back \/ (\E c \in Conns : back' = [back EXCEPT ![c] = @ + 1])
  PROVE  Grows
<1>1. read \in [Owners -> Nat] /\ back \in [Conns -> Nat]
  BY Bounds DEF TypeOK
<1>2. \A o \in Owners : read[o] <= read'[o] /\ read'[o] \in Nat
  BY <1>1, OneMore
<1>3. \A c \in Conns : back[c] <= back'[c] /\ back'[c] \in Nat
  BY <1>1, OneMore
<1> QED
  BY <1>2, <1>3 DEF Grows

(* The types, of which the links' messages are part.                       *)
LocalTypes ==
  /\ counter \in 1 .. Cardinality(Owners) + 1
  /\ session \in [Owners -> {0} \cup Sessions]
  /\ table \in [Sessions -> Conns \cup {NoOne}]
  /\ local \in [Conns -> LocalState]
LinkTypes ==
  /\ link \in [Links -> LinkState]
  /\ far \in [Links -> LinkState]
FarTypes ==
  /\ farTable \in [Links -> [Sessions -> Owners \cup {NoOne}]]
  /\ remote \in [Links -> [Owners -> RemoteState]]
  /\ gone \in SUBSET Links
  /\ stray \in SUBSET (Links \X Conns)
HistoryTypes ==
  /\ read \in [Owners -> 0 .. MaxData]
  /\ back \in [Conns -> 0 .. MaxData]
  /\ toHost \in [Conns -> Seq(Chunk)]
  /\ toClient \in [Conns -> Seq(Chunk)]

LEMMA TypesMeet ==
  LocalTypes /\ LinkTypes /\ FarTypes /\ HistoryTypes /\ Carried => TypeOK
BY CarriedIsTyped DEF TypeOK, LocalTypes, LinkTypes, FarTypes, HistoryTypes

LEMMA TypesPart ==
  TypeOK => LocalTypes /\ LinkTypes /\ FarTypes /\ HistoryTypes
BY DEF TypeOK, LocalTypes, LinkTypes, FarTypes, HistoryTypes

(* The step of a local relay: it may ask for a message to be sent, and     *)
(* leaves the remote managers alone.                                       *)
LEMMA LocalSideStep ==
  ASSUME SessionIInv, Grows, NEW m \in UpMessage',
         \/ up' = up /\ link' \in [Links -> LinkState]
         \/ LocalRequests(m),
         Moves(down, down', DownMessage'),
         UNCHANGED <<far, farSides, stray>>,
         LocalTypes', HistoryTypes', Numbered', LocalAgrees'
  PROVE  SessionIInv'
<1>1. link' \in [Links -> LinkState] /\ Moves(up, up', UpMessage')
  BY LocalRequestsMoves DEF SessionIInv, Moves
<1>2. Carried'
  BY <1>1, CarriedKept DEF SessionIInv
<1>3. LinkTypes' /\ FarTypes'
  BY <1>1 DEF SessionIInv, LinkTypes, FarTypes, TypeOK, farSides
<1>4. TypeOK'
  <2>1. (LocalTypes /\ LinkTypes /\ FarTypes /\ HistoryTypes /\ Carried => TypeOK)'
    BY TypesMeet, PTL
  <2> QED
    BY <1>2, <1>3, <2>1
<1>5. FarAgrees'
  BY FarAgreesKept DEF SessionIInv, LocalTypes, Grows, farSides
<1> QED
  BY <1>2, <1>4, <1>5 DEF SessionIInv

(* The step of a remote manager.                                           *)
LEMMA FarSideStep ==
  ASSUME SessionIInv, Grows, Moves(up, up', UpMessage'), Moves(down, down', DownMessage'),
         UNCHANGED sides, LinkTypes', FarTypes', HistoryTypes', FarAgrees'
  PROVE  SessionIInv'
<1>1. Carried'
  BY CarriedKept DEF SessionIInv
<1>2. LocalTypes'
  BY DEF SessionIInv, TypeOK, LocalTypes, sides
<1>3. TypeOK'
  <2>1. (LocalTypes /\ LinkTypes /\ FarTypes /\ HistoryTypes /\ Carried => TypeOK)'
    BY TypesMeet, PTL
  <2> QED
    BY <1>1, <1>2, <2>1
<1>4. Numbered' /\ LocalAgrees'
  BY NumberedKept, LocalAgreesKept DEF SessionIInv, sides
<1> QED
  BY <1>1, <1>3, <1>4 DEF SessionIInv

-----------------------------------------------------------------------------
(* A new number.                                                           *)
LEMMA OneMoreTaken ==
  ASSUME TypeOK, Numbered, NEW o \in Owners, session[o] = 0, NEW k \in Nat, k # 0,
         session' = [session EXCEPT ![o] = k]
  PROVE  /\ counter + 1 \in 1 .. Cardinality(Owners) + 1 /\ counter \in Nat \ {0}
         /\ Cardinality(Taken') = counter
         /\ \A p \in Owners \ {o} : session'[p] = session[p]
         /\ session'[o] = k
<1>1. IsFiniteSet(Taken)
  BY Bounds, FS_Subset DEF Taken
<1>2. Cardinality(Taken) \in Nat
  BY <1>1, FS_CardinalityType
<1>3. o \notin Taken
  BY DEF Taken
<1>4. Cardinality(Taken \cup {o}) = Cardinality(Taken) + 1
  BY <1>1, <1>3, FS_AddElement
<1>5. Taken \cup {o} \in SUBSET Owners
  BY DEF Taken
<1>6. Cardinality(Taken \cup {o}) <= Cardinality(Owners)
  BY <1>5, Bounds, FS_Subset
<1>7. Taken' = Taken \cup {o}
  BY DEF Taken, TypeOK
<1>8. \A p \in Owners \ {o} : session'[p] = session[p]
  BY DEF TypeOK
<1>9. session'[o] = k
  BY DEF TypeOK
<1>10. counter = Cardinality(Taken) + 1
  BY DEF Numbered
<1>11. Cardinality(Taken') = counter
  BY <1>2, <1>4, <1>7, <1>10
<1>12. counter + 1 \in 1 .. Cardinality(Owners) + 1 /\ counter \in Nat \ {0}
  BY <1>2, <1>4, <1>6, <1>10, Bounds
<1> QED
  BY <1>8, <1>9, <1>11, <1>12

LEMMA StrictNumbers ==
  ASSUME TypeOK, Numbered, NEW k \in Nat \ {0}, k = counter
  PROVE  /\ \A o \in Owners : session[o] \in Nat /\ session[o] <= k
         /\ \A c \in Conns : session[c] \in Nat /\ session[c] < k
<1>1. Conns \subseteq Owners /\ {0} \cup Sessions \subseteq Nat
  BY Bounds DEF Owners
<1>2. \A o \in Owners : session[o] \in Nat
  BY <1>1 DEF TypeOK
<1> QED
  BY <1>1, <1>2 DEF Numbered

LEMMA LocalAcceptsStep ==
  ASSUME SessionIInv, NEW c \in Conns, LocalAccepts(c)
  PROVE  SessionIInv'
<1>1. /\ TypeOK /\ Numbered /\ LocalAgrees /\ Carried
      /\ c \in Owners /\ session[c] = 0 /\ local[c] = "none"
  BY DEF SessionIInv, LocalAccepts, Numbered, Owners
<1>2. /\ counter' = counter + 1
      /\ session' = [session EXCEPT ![c] = counter]
      /\ UNCHANGED <<link, far, up, down, farSides, histories>>
  BY DEF LocalAccepts
<1>3. counter \in Nat \ {0}
  BY <1>1, Bounds DEF TypeOK
<1>4. /\ counter + 1 \in 1 .. Cardinality(Owners) + 1
      /\ Cardinality(Taken') = counter
      /\ \A p \in Owners \ {c} : session'[p] = session[p]
      /\ session'[c] = counter
  BY <1>1, <1>2, <1>3, OneMoreTaken
<1>5. counter \in Sessions
  BY <1>3, <1>4, Bounds
<1>6. /\ \A o \in Owners : session[o] \in Nat /\ session[o] <= counter
      /\ \A d \in Conns : session[d] \in Nat /\ session[d] < counter
  BY <1>1, <1>3, StrictNumbers
<1>7. table[counter] = NoOne
  <2>1. table[counter] \in Conns \cup {NoOne}
    BY <1>1, <1>5 DEF TypeOK
  <2>2. table[counter] # NoOne => session[table[counter]] = counter
    BY <1>1, <1>5 DEF LocalAgrees
  <2> QED
    BY <2>1, <2>2, <1>6, <1>3
<1>8. /\ table' = [table EXCEPT ![counter] = c]
      /\ local' = [local EXCEPT ![c] = "fresh"]
  BY <1>7 DEF LocalAccepts
<1>9. Numbered'
  <2>1. \A d \in Conns : local'[d] = IF d = c THEN "fresh" ELSE local[d]
    BY <1>1, <1>8 DEF TypeOK
  <2>2. Conns \subseteq Owners
    BY DEF Owners
  <2>3. \A d \in Conns : session'[d] = IF d = c THEN counter ELSE session[d]
    BY <1>4, <2>2
  <2>4. \A o \in Owners : session'[o] = IF o = c THEN counter ELSE session[o]
    BY <1>4
  <2>5. counter' = Cardinality(Taken') + 1
    BY <1>2, <1>4
  <2>6. \A d \in Conns : (session'[d] = 0 <=> local'[d] = "none") /\ session'[d] < counter'
    BY <2>1, <2>3, <1>1, <1>2, <1>3, <1>6 DEF Numbered
  <2>7. \A o \in Owners : session'[o] <= counter'
    BY <2>4, <1>2, <1>3, <1>6
  <2>8. \A d, e \in Conns : session'[d] = session'[e] /\ session'[d] # 0 => d = e
    BY <2>3, <1>1, <1>3, <1>6 DEF Numbered
  <2> QED
    BY <2>5, <2>6, <2>7, <2>8 DEF Numbered
<1>10. LocalAgrees'
  <2>1. \A s \in Sessions : table'[s] = IF s = counter THEN c ELSE table[s]
    BY <1>1, <1>5, <1>8 DEF TypeOK
  <2>2. \A d \in Conns : local'[d] = IF d = c THEN "fresh" ELSE local[d]
    BY <1>1, <1>8 DEF TypeOK
  <2>3. Conns \subseteq Owners /\ NoOne \notin Conns
    BY Bounds DEF Owners
  <2>4. \A d \in Conns : session'[d] = IF d = c THEN counter ELSE session[d]
    BY <1>4, <2>3
  <2>5. \A s \in Sessions : table[s] \in Conns \cup {NoOne} /\ s \in Nat
    BY <1>1, Bounds DEF TypeOK
  <2>6. \A s \in Sessions : table[s] # NoOne => session[table[s]] = s /\ table[s] # c
    BY <1>1, Bounds DEF LocalAgrees
  <2>7. \A d \in Conns \ {c} : local[d] \in {"fresh", "open"} =>
          session[d] # counter /\ session[d] \in Sessions /\ table[session[d]] = d
    <3>1. \A d \in Conns : local[d] \in {"fresh", "open"} => session[d] \in Sessions
      BY <1>1, Numbers
    <3> QED
      BY <1>1, <1>6, <1>3, <3>1 DEF LocalAgrees
  <2>8. \A s \in Sessions : table'[s] # NoOne => session'[table'[s]] = s
    BY <2>1, <2>4, <2>5, <2>6
  <2>9. \A d \in Conns : local'[d] \in {"fresh", "open"} => table'[session'[d]] = d
    BY <2>1, <2>2, <2>4, <2>7, <1>5
  <2> QED
    BY <2>8, <2>9 DEF LocalAgrees
<1>11. LocalTypes'
  <2>1. counter' \in 1 .. Cardinality(Owners) + 1
    BY <1>2, <1>4
  <2>2. session' \in [Owners -> {0} \cup Sessions]
    BY <1>1, <1>2, <1>5 DEF TypeOK
  <2>3. table' \in [Sessions -> Conns \cup {NoOne}]
    BY <1>1, <1>8 DEF TypeOK
  <2>4. local' \in [Conns -> LocalState]
    BY <1>1, <1>8 DEF TypeOK, LocalState
  <2> QED
    BY <2>1, <2>2, <2>3, <2>4 DEF LocalTypes
<1>12. HistoryTypes'
  BY <1>1, <1>2 DEF TypeOK, HistoryTypes, histories
<1>13. Grows
  <2>1. \A o \in Owners : session[o] # 0 => session'[o] = session[o]
    BY <1>1, <1>4
  <2>2. /\ \A o \in Owners : read[o] \in Nat /\ read'[o] = read[o]
        /\ \A d \in Conns : back[d] \in Nat /\ back'[d] = back[d]
    BY <1>1, <1>2, Bounds DEF TypeOK, histories
  <2> QED
    BY <2>1, <2>2 DEF Grows
<1>14. Carried' /\ LinkTypes' /\ FarTypes'
  BY <1>1, <1>2, <1>13, CarriedKept DEF Moves, TypeOK, LinkTypes, FarTypes, farSides, histories
<1>15. FarAgrees'
  BY <1>2, <1>11, <1>13, FarAgreesKept DEF SessionIInv, LocalTypes, Grows, farSides, histories
<1>16. TypeOK'
  <2>1. (LocalTypes /\ LinkTypes /\ FarTypes /\ HistoryTypes /\ Carried => TypeOK)'
    BY TypesMeet, PTL
  <2> QED
    BY <1>11, <1>12, <1>14, <2>1
<1> QED
  BY <1>9, <1>10, <1>14, <1>15, <1>16 DEF SessionIInv

LEMMA LocalSendsUdpStep ==
  ASSUME SessionIInv, NEW u \in Srcs, LocalSendsUdp(u)
  PROVE  SessionIInv'
<1> DEFINE m == [cmd |-> "DATA_UDP", session |-> session'[u], of |-> u, nth |-> read'[u]]
           first == session[u] = 0
<1>1. /\ TypeOK /\ Numbered /\ LocalAgrees /\ Carried
      /\ u \in Owners /\ u \notin Conns
  BY TunnelAssumption DEF SessionIInv, Owners
<1>2. /\ session' = [session EXCEPT ![u] = IF first THEN counter + 1 ELSE @]
      /\ counter' = IF first THEN counter + 1 ELSE counter
      /\ read[u] < MaxUdp /\ read' = [read EXCEPT ![u] = @ + 1]
      /\ LocalRequests(m)
      /\ UNCHANGED <<table, local, far, down, farSides, back, toHost, toClient, stray>>
  BY DEF LocalSendsUdp
<1> HIDE DEF m
<1>3. counter \in Nat \ {0}
  BY <1>1, Bounds DEF TypeOK
<1>4. \A c \in Conns : session'[c] = session[c] /\ c \in Owners
  BY <1>1, <1>2 DEF TypeOK, Owners
<1>5. /\ \A o \in Owners : session[o] \in Nat /\ session[o] <= counter
      /\ \A d \in Conns : session[d] \in Nat /\ session[d] < counter
  BY <1>1, <1>3, StrictNumbers
<1>6. /\ counter' = Cardinality(Taken') + 1
      /\ counter' \in 1 .. Cardinality(Owners) + 1
      /\ session'[u] \in Sessions
      /\ counter' \in Nat /\ counter <= counter'
      /\ \A o \in Owners : session'[o] <= counter'
      /\ session' \in [Owners -> {0} \cup Sessions]
      /\ \A o \in Owners : session[o] # 0 => session'[o] = session[o]
  <2>1. CASE first
    <3>1. session' = [session EXCEPT ![u] = counter + 1] /\ counter' = counter + 1
      BY <2>1, <1>2
    <3>2. counter + 1 \in Nat /\ counter + 1 # 0
      BY <1>3
    <3>3. /\ counter + 1 \in 1 .. Cardinality(Owners) + 1
          /\ Cardinality(Taken') = counter
          /\ \A p \in Owners \ {u} : session'[p] = session[p]
          /\ session'[u] = counter + 1
      BY <1>1, <2>1, <3>1, <3>2, OneMoreTaken
    <3>4. counter + 1 \in Sessions
      BY <3>2, <3>3, Bounds
    <3>5. \A o \in Owners : session'[o] <= counter + 1
      BY <3>3, <1>5, <1>3
    <3>6. session' \in [Owners -> {0} \cup Sessions]
      BY <1>1, <3>1, <3>4 DEF TypeOK
    <3> QED
      BY <3>1, <3>2, <3>3, <3>4, <3>5, <3>6, <2>1, <1>3
  <2>2. CASE ~ first
    <3>1. session' = session /\ counter' = counter
      BY <2>2, <1>1, <1>2 DEF TypeOK
    <3>2. Taken' = Taken
      BY <3>1 DEF Taken
    <3> QED
      BY <3>1, <3>2, <2>2, <1>1, <1>3, <1>5 DEF TypeOK, Numbered
  <2> QED
    BY <2>1, <2>2
<1>7. Numbered'
  <2>1. \A c \in Conns : (session'[c] = 0 <=> local'[c] = "none") /\ session'[c] < counter'
    BY <1>1, <1>2, <1>3, <1>4, <1>5, <1>6 DEF Numbered
  <2>2. \A c, d \in Conns : session'[c] = session'[d] /\ session'[c] # 0 => c = d
    BY <1>1, <1>4 DEF Numbered
  <2> QED
    BY <2>1, <2>2, <1>6 DEF Numbered
<1>8. LocalAgrees'
  <2>1. UNCHANGED <<table, local>> /\ \A s \in Sessions : table[s] \in Conns \cup {NoOne}
    BY <1>1, <1>2 DEF TypeOK
  <2> QED
    BY <2>1, <1>1, <1>4 DEF LocalAgrees
<1>9. LocalTypes'
  BY <1>1, <1>2, <1>6 DEF LocalTypes, TypeOK
<1>10. /\ read'[u] \in 1 .. MaxData /\ read'[u] \in Nat /\ read[u] < read'[u]
       /\ \A o \in Owners : read[o] \in Nat /\ o # u => read'[o] = read[o]
  <2>1. read[u] \in Nat /\ \A o \in Owners : read[o] \in Nat
    BY <1>1, Bounds DEF TypeOK
  <2>2. read'[u] = read[u] + 1 /\ \A o \in Owners : o # u => read'[o] = read[o]
    BY <1>1, <1>2 DEF TypeOK
  <2> QED
    BY <2>1, <2>2, <1>2, Bounds, TunnelAssumption
<1>11. HistoryTypes'
  <2>1. read' \in [Owners -> 0 .. MaxData]
    <3>1. read' = [read EXCEPT ![u] = read'[u]] /\ read'[u] \in 0 .. MaxData
      BY <1>1, <1>2, <1>10 DEF TypeOK
    <3> QED
      BY <1>1, <3>1 DEF TypeOK
  <2> QED
    BY <1>1, <1>2, <2>1 DEF TypeOK, HistoryTypes
<1>12. Grows
  <2>1. \A c \in Conns : back[c] \in Nat /\ back'[c] = back[c]
    BY <1>1, <1>2, Bounds DEF TypeOK
  <2>2. \A o \in Owners : read[o] <= read'[o] /\ read'[o] \in Nat
    <3>1. TypeOK /\ read \in [Owners -> Nat]
      BY <1>1, Bounds DEF TypeOK
    <3> QED
      BY <3>1, <1>1, <1>2, OneMore
  <2> QED
    BY <1>6, <2>1, <2>2 DEF Grows
<1>13. m \in UpMessage'
  <2>1. /\ session'[u] \in Sessions /\ u \in Owners /\ u \in Srcs /\ u \notin Conns
        /\ read'[u] \in 0 .. MaxData /\ read'[u] \in 1 .. read'[u]
    BY <1>1, <1>6, <1>10
  <2>2. /\ m.cmd = "DATA_UDP" /\ m.session = session'[u] /\ m.of = u /\ m.nth = read'[u]
        /\ m \in Message
    BY <2>1 DEF m, Message
  <2> QED
    BY <2>1, <2>2 DEF UpMessage
<1>14. down' = down /\ UNCHANGED <<far, farSides, stray>>
  BY <1>2
<1> QED
  BY <1>2, <1>7, <1>8, <1>9, <1>11, <1>12, <1>13, <1>14, LocalSideStep DEF Moves

(* A chunk more, of one owner.                                             *)
LEMMA ReadsOneMore ==
  ASSUME NEW S, NEW f \in [S -> 0 .. MaxData], NEW o \in S, f[o] < MaxData, NEW g,
         g = [f EXCEPT ![o] = @ + 1]
  PROVE  g \in [S -> 0 .. MaxData] /\ g[o] = f[o] + 1 /\ g[o] \in 1 .. MaxData
<1>1. g[o] = f[o] + 1 /\ f[o] \in Nat /\ MaxData \in Nat
  BY Bounds
<1>2. g[o] \in 1 .. MaxData
  BY <1>1
<1>3. g = [f EXCEPT ![o] = g[o]]
  BY <1>1
<1> QED
  BY <1>1, <1>2, <1>3

LEMMA LocalReadsStep ==
  ASSUME SessionIInv, NEW c \in Conns, LocalReads(c)
  PROVE  SessionIInv'
<1>1. /\ TypeOK /\ Numbered /\ LocalAgrees
      /\ c \in Owners /\ session[c] \in Sessions /\ session[c] # 0
  BY Numbers DEF SessionIInv, LocalReads
<1>2. /\ read' = [read EXCEPT ![c] = @ + 1] /\ read[c] + back[c] < MaxRead
      /\ LocalRequests(Data(session[c], c, read'[c]))
      /\ UNCHANGED <<sides, far, down, farSides, back, toHost, toClient, stray>>
  BY DEF LocalReads
<1>3. read[c] < MaxData
  <2>1. read[c] \in Nat /\ back[c] \in Nat /\ MaxRead \in Nat
    BY <1>1, Bounds, TunnelAssumption DEF TypeOK
  <2> QED
    BY <2>1, <1>2, Bounds
<1>4. /\ read' \in [Owners -> 0 .. MaxData]
      /\ read'[c] \in 1 .. MaxData
  <2>1. read \in [Owners -> 0 .. MaxData]
    BY <1>1 DEF TypeOK
  <2> QED
    BY <2>1, <1>1, <1>2, <1>3, ReadsOneMore
<1>5. LocalTypes' /\ HistoryTypes'
  BY <1>1, <1>2, <1>4 DEF TypeOK, LocalTypes, HistoryTypes, sides
<1>6. Numbered' /\ LocalAgrees'
  BY <1>1, <1>2, NumberedKept, LocalAgreesKept DEF sides
<1>7. Grows
  BY <1>1, <1>2, GrowsByReading DEF sides
<1>8. Data(session[c], c, read'[c]) \in UpMessage'
  <2>1. /\ session'[c] = session[c] /\ session[c] \in Sessions /\ c \in Owners
        /\ read'[c] \in 0 .. MaxData /\ read'[c] \in 1 .. read'[c]
    BY <1>1, <1>2, <1>4 DEF sides
  <2> QED
    BY <2>1 DEF UpMessage, Message, Data
<1> QED
  BY <1>2, <1>5, <1>6, <1>7, <1>8, LocalSideStep DEF Moves

(* The steps of a connection's own relay that take and read nothing.       *)
LEMMA LocalRelaySteps ==
  ASSUME SessionIInv, NEW c \in Conns,
         LocalStarts(c) \/ LocalFails(c) \/ LocalCatches(c) \/ LocalExpires(c)
  PROVE  SessionIInv'
<1>1. /\ TypeOK /\ Numbered /\ LocalAgrees /\ c \in Owners
  BY DEF SessionIInv, Owners
<1>2. /\ UNCHANGED <<counter, session, far, down, farSides, histories>>
      /\ table' \in [Sessions -> Conns \cup {NoOne}]
      /\ \A d \in Conns \ {c} : local'[d] = local[d]
      /\ local' \in [Conns -> LocalState]
      /\ local[c] # "none"
      /\ local'[c] # "none"
  BY <1>1, Numbers DEF LocalStarts, LocalFails, LocalCatches, LocalExpires, LocalStop,
     TypeOK, LocalState, Numbered
<1>3. session[c] \in Sessions /\ session[c] # 0
  BY <1>1, <1>2, Numbers
<1>4. LocalTypes' /\ HistoryTypes' /\ Numbered'
  BY <1>1, <1>2, NumberedKept DEF TypeOK, LocalTypes, HistoryTypes, histories
<1>5. LocalAgrees'
  <2>1. CASE LocalStarts(c) \/ LocalFails(c) \/ LocalCatches(c)
    <3>1. /\ UNCHANGED <<session, table>>
          /\ local'[c] \in {"fresh", "open"} => local[c] \in {"fresh", "open"}
      BY <2>1, <1>1 DEF LocalStarts, LocalFails, LocalCatches, TypeOK
    <3>2. \A d \in Conns : local'[d] \in {"fresh", "open"} => local[d] \in {"fresh", "open"}
      BY <1>2, <3>1
    <3> QED
      BY <3>1, <3>2, <1>1, LocalRelaysChange
  <2>2. CASE LocalExpires(c)
    <3>1. /\ table[session[c]] = c
          /\ table' = [table EXCEPT ![session[c]] = NoOne]
          /\ local'[c] \notin {"fresh", "open"}
      BY <2>2, <1>1 DEF LocalExpires, LocalStop, TypeOK
    <3> QED
      BY <3>1, <1>1, <1>2, <1>3, LocalErases
  <2> QED
    BY <2>1, <2>2
<1>6. Grows
  BY <1>1, <1>2, GrowsByReading DEF histories
<1>7. session'[c] # 0 /\ UNCHANGED session
  BY <1>2, <1>3
<1>8. /\ Start(c) \in UpMessage' /\ Stop(session[c], c) \in UpMessage'
  <2>1. Start(c) \in UpMessage /\ Stop(session[c], c) \in UpMessage
    BY <1>1, <1>3, MessagesAreGood
  <2> QED
    BY <2>1, <1>1, <1>6, MessagesStayGood
<1>9. \E m \in UpMessage' : \/ up' = up /\ link' \in [Links -> LinkState]
                           \/ LocalRequests(m)
  <2>1. CASE LocalStarts(c)
    BY <2>1, <1>8 DEF LocalStarts
  <2>2. CASE LocalCatches(c)
    BY <2>2, <1>8 DEF LocalCatches
  <2>3. CASE LocalFails(c) \/ LocalExpires(c)
    BY <2>3, <1>1, <1>8 DEF LocalFails, LocalExpires, TypeOK
  <2> QED
    BY <2>1, <2>2, <2>3
<1>10. UNCHANGED <<far, farSides, stray>> /\ down' = down
  BY <1>2 DEF histories
<1> QED
  BY <1>4, <1>5, <1>6, <1>9, <1>10, LocalSideStep DEF Moves

(* add_response() of a local server.                                       *)
LEMMA LocalDelivers ==
  ASSUME SessionIInv, NEW n \in Links, LocalStep(n)
  PROVE  SessionIInv'
<1> DEFINE m == Head(down[n])
           c == table[m.session]
<1>1. TypeOK /\ Numbered /\ LocalAgrees /\ down[n] # <<>>
  BY DEF SessionIInv, LocalStep, LocalData, LocalStopped, Delivers
<1>2. m \in DownMessage
  BY <1>1, HeadIsGood DEF SessionIInv
<1>3. /\ m.session \in Sessions /\ m.of \in Owners
      /\ m.cmd = "DATA_TCP" => m.of \in Conns /\ m.nth \in 1 .. back[m.of]
      /\ c \in Conns \cup {NoOne}
      /\ NoOne \notin Conns
      /\ c # NoOne => c \in Conns /\ session[c] = m.session /\ c \in Owners
  <2>1. /\ m.session \in Sessions /\ m.of \in Owners
        /\ m.cmd = "DATA_TCP" => m.of \in Conns /\ m.nth \in 1 .. back[m.of]
    BY <1>2 DEF DownMessage, Message
  <2>2. c \in Conns \cup {NoOne}
    BY <1>1, <2>1 DEF TypeOK
  <2> QED
    BY <1>1, <2>1, <2>2, Bounds DEF LocalAgrees, Owners
<1> HIDE DEF c
<1>4. /\ UNCHANGED <<counter, session, far, farSides, read, back, toHost, stray>>
      /\ down' = [down EXCEPT ![n] = Tail(@)]
      /\ m.cmd \in {"DATA_TCP", "STOP_TCP"}
  BY DEF LocalStep, LocalData, LocalStopped, histories
<1>5. Moves(down, down', DownMessage')
  BY <1>1, <1>4 DEF Moves
<1>6. Grows
  BY <1>1, <1>4, GrowsByReading
<1>7. \/ UNCHANGED <<table, local>>
      \/ /\ c # NoOne
         /\ table' = [table EXCEPT ![m.session] = NoOne]
         /\ local'[c] \notin {"fresh", "open"}
         /\ \A d \in Conns \ {c} : local'[d] = local[d]
         /\ local' \in [Conns -> LocalState]
         /\ local'[c] = "none" <=> local[c] = "none"
  <2>1. CASE LocalData(n)
    BY <2>1, <1>1, <1>3 DEF LocalData, c, TypeOK
  <2>2. CASE LocalStopped(n)
    BY <2>2, <1>1, <1>3 DEF LocalStopped, LocalStop, c, TypeOK, LocalState
  <2> QED
    BY <2>1, <2>2 DEF LocalStep
<1>8. Numbered' /\ LocalAgrees'
  <2>1. CASE UNCHANGED <<table, local>>
    BY <2>1, <1>1, <1>4, NumberedKept, LocalAgreesKept
  <2>2. CASE ~ UNCHANGED <<table, local>>
    <3>1. /\ c \in Conns /\ session[c] = m.session /\ session[c] \in Sessions
          /\ table[session[c]] = c
          /\ table' = [table EXCEPT ![session[c]] = NoOne]
          /\ local'[c] \notin {"fresh", "open"}
          /\ \A d \in Conns \ {c} : local'[d] = local[d]
          /\ local'[c] = "none" <=> local[c] = "none"
      BY <2>2, <1>3, <1>7 DEF c
    <3>2. LocalAgrees'
      BY <3>1, <1>1, <1>4, LocalErases
    <3>3. \A d \in Conns : local'[d] = "none" <=> local[d] = "none"
      BY <3>1
    <3>4. Numbered'
      BY <3>3, <1>1, <1>4, NumberedKept
    <3> QED
      BY <3>2, <3>4
  <2> QED
    BY <2>1, <2>2
<1>9. LocalTypes'
  BY <1>1, <1>3, <1>4, <1>7 DEF LocalTypes, TypeOK
<1>10. toClient' \in [Conns -> Seq(Chunk)]
  <2>1. CASE m.cmd = "DATA_TCP" /\ c \in Conns
             /\ toClient' = [toClient EXCEPT ![c] = Append(@, [of |-> m.of, nth |-> m.nth])]
    <3>1. [of |-> m.of, nth |-> m.nth] \in Chunk
      <4>1. back[m.of] \in 0 .. MaxData /\ MaxData \in Nat
        BY <2>1, <1>1, <1>3, Bounds DEF TypeOK
      <4> QED
        BY <4>1, <2>1, <1>3 DEF Chunk
    <3> QED
      BY <2>1, <3>1, <1>1, AppendProperties DEF TypeOK
  <2>2. CASE toClient' = toClient
    BY <2>2, <1>1 DEF TypeOK
  <2> QED
    BY <2>1, <2>2, <1>3 DEF LocalStep, LocalData, LocalStopped, histories, c
<1>11. HistoryTypes'
  BY <1>1, <1>4, <1>10 DEF TypeOK, HistoryTypes
<1>12. \E x \in UpMessage' : \/ up' = up /\ link' \in [Links -> LinkState]
                             \/ LocalRequests(x)
  <2>1. \/ UNCHANGED <<link, up>>
        \/ c # NoOne /\ LocalRequests(Stop(m.session, c))
    BY DEF LocalStep, LocalData, LocalStopped, c
  <2>2. c # NoOne => Stop(m.session, c) \in UpMessage
    BY <1>1, <1>3, MessagesAreGood, Bounds
  <2>3. UpMessage \subseteq UpMessage'
    BY <1>1, <1>6, MessagesStayGood
  <2>4. Stop(session[m.of], m.of) \in UpMessage
    <3>1. session[m.of] # 0
      BY <1>2, <1>3, Bounds DEF DownMessage
    <3> QED
      BY <3>1, <1>1, <1>3, MessagesAreGood
  <2> QED
    BY <1>1, <2>1, <2>2, <2>3, <2>4 DEF TypeOK
<1> QED
  BY <1>4, <1>5, <1>6, <1>8, <1>9, <1>11, <1>12, LocalSideStep

-----------------------------------------------------------------------------
(* One relay of link n goes from a state to another, neither of them none. *)
LEMMA OneRelayMoves ==
  ASSUME TypeOK, FarAgrees, NEW n \in Links, NEW o \in Owners, remote[n][o] # "none",
         NEW s \in RemoteState \ {"none"},
         s \in {"starting", "open"} => remote[n][o] \in {"starting", "open"}
  PROVE  /\ [remote[n] EXCEPT ![o] = s] \in [Owners -> RemoteState]
         /\ Agrees(n, [remote[n] EXCEPT ![o] = s], farTable[n], stray)
<1>1. remote[n] \in [Owners -> RemoteState] /\ Agrees(n, remote[n], farTable[n], stray)
  BY DEF TypeOK, FarAgrees
<1>2. [remote[n] EXCEPT ![o] = s] \in [Owners -> RemoteState]
  BY <1>1
<1>3. \A p \in Owners : [remote[n] EXCEPT ![o] = s][p] = IF p = o THEN s ELSE remote[n][p]
  BY <1>1
<1>4. farTable[n] \in [Sessions -> Owners \cup {NoOne}] /\ Conns \subseteq Owners
  BY DEF TypeOK, Owners
<1> HIDE DEF RemoteState
<1>5. Agrees(n, [remote[n] EXCEPT ![o] = s], farTable[n], stray)
  <2> DEFINE r == [remote[n] EXCEPT ![o] = s]
  <2>1. \A p \in Owners : r[p] = IF p = o THEN s ELSE remote[n][p]
    BY <1>3
  <2> HIDE DEF r
  <2>2. s # "none"
    OBVIOUS
  <2>3. \A p \in Owners : r[p] = "none" <=> remote[n][p] = "none"
    BY <2>1, <2>2
  <2>4. \A p \in Owners : r[p] \in {"starting", "open"} => remote[n][p] \in {"starting", "open"}
    BY <2>1
  <2>5. Agrees(n, r, farTable[n], stray)
    BY <1>1, <1>4, <2>3, <2>4 DEF Agrees
  <2> QED
    BY <2>5 DEF r
<1> QED
  BY <1>2, <1>5

LEMMA RemoteRelaySteps ==
  ASSUME SessionIInv, NEW n \in Links, NEW o \in Owners,
         RemoteFails(n, o) \/ (o \in Conns /\ RemoteStarts(n, o))
  PROVE  SessionIInv'
<1>1. TypeOK /\ FarAgrees
  BY DEF SessionIInv
<1>2. PICK s \in RemoteState \ {"none"} :
        /\ remote[n][o] # "none"
        /\ remote' = [remote EXCEPT ![n][o] = s]
        /\ s \in {"starting", "open"} => remote[n][o] \in {"starting", "open"}
  <2>1. /\ Halted(o) \in RemoteState \ {"none"} /\ Halted(o) \notin {"starting", "open"}
        /\ "open" \in RemoteState \ {"none"}
    BY DEF Halted, RemoteState
  <2>2. CASE RemoteFails(n, o)
    BY <2>1, <2>2 DEF RemoteFails
  <2>3. CASE RemoteStarts(n, o)
    BY <2>1, <2>3 DEF RemoteStarts
  <2> QED
    BY <2>2, <2>3
<1>3. UNCHANGED <<sides, link, far, up, down, farTable, gone, histories>>
  BY DEF RemoteFails, RemoteStarts
<1>4. /\ [remote[n] EXCEPT ![o] = s] \in [Owners -> RemoteState]
      /\ Agrees(n, [remote[n] EXCEPT ![o] = s], farTable[n], stray)
  BY <1>1, <1>2, OneRelayMoves
<1>5. /\ remote' = [remote EXCEPT ![n] = [remote[n] EXCEPT ![o] = s]]
      /\ remote'[n] = [remote[n] EXCEPT ![o] = s]
      /\ \A p \in Links \ {n} : remote'[p] = remote[p]
  BY <1>1, <1>2 DEF TypeOK
<1>6. FarTypes'
  BY <1>1, <1>3, <1>4, <1>5 DEF FarTypes, TypeOK, histories
<1>7. FarAgrees'
  BY <1>1, <1>3, <1>4, <1>5, OthersAgree DEF histories, sides
<1>8. LinkTypes' /\ HistoryTypes'
  BY <1>1, <1>3 DEF LinkTypes, HistoryTypes, TypeOK, histories
<1>9. Grows
  BY <1>1, <1>3, GrowsByReading DEF histories, sides
<1>10. Moves(up, up', UpMessage') /\ Moves(down, down', DownMessage')
  BY <1>3 DEF Moves
<1>11. UNCHANGED sides
  BY <1>3
<1> QED
  BY <1>6, <1>7, <1>8, <1>9, <1>10, <1>11, FarSideStep

LEMMA RemoteReadsStep ==
  ASSUME SessionIInv, NEW n \in Links, NEW c \in Conns, RemoteReads(n, c)
  PROVE  SessionIInv'
<1>1. TypeOK /\ FarAgrees /\ c \in Owners /\ Agrees(n, remote[n], farTable[n], stray)
  BY DEF SessionIInv, FarAgrees, Owners
<1>2. /\ remote[n][c] = "open" /\ read[c] + back[c] < MaxRead
      /\ back' = [back EXCEPT ![c] = @ + 1]
      /\ FarRequests(n, remote[n], farTable[n], Data(session[c], c, back'[c]))
      /\ UNCHANGED <<sides, link, far, up, read, toHost, toClient>>
  BY DEF RemoteReads
<1>3. session[c] \in Sessions
  BY <1>1, <1>2 DEF Agrees, TypeOK
<1>4. back' \in [Conns -> 0 .. MaxData] /\ back'[c] \in 1 .. MaxData
  <2>1. back \in [Conns -> 0 .. MaxData]
    BY <1>1 DEF TypeOK
  <2>2. back[c] < MaxData
    <3>1. read[c] \in Nat /\ back[c] \in Nat /\ MaxRead \in Nat
      BY <1>1, Bounds, TunnelAssumption DEF TypeOK
    <3> QED
      BY <3>1, <1>2, Bounds
  <2> QED
    BY <2>1, <2>2, <1>2, ReadsOneMore
<1>5. Data(session[c], c, back'[c]) \in DownMessage'
  <2>1. /\ session'[c] = session[c] /\ session[c] \in Sessions /\ c \in Owners
        /\ back'[c] \in 0 .. MaxData /\ back'[c] \in 1 .. back'[c]
    BY <1>1, <1>2, <1>3, <1>4 DEF sides
  <2> QED
    BY <2>1 DEF DownMessage, Message, Data
<1>6. remote[n] \in [Owners -> RemoteState] /\ farTable[n] \in [Sessions -> Owners \cup {NoOne}]
  BY <1>1 DEF TypeOK
<1>7. /\ FarTypes' /\ stray \subseteq stray'
      /\ \A p \in Links \ {n} : remote'[p] = remote[p] /\ farTable'[p] = farTable[p]
      /\ Agrees(n, remote'[n], farTable'[n], stray')
      /\ Moves(down, down', DownMessage')
  BY <1>1, <1>2, <1>5, <1>6, FarRequestsAgrees DEF FarTypes
<1>8. UNCHANGED <<sides, session>> /\ Moves(up, up', UpMessage')
  BY <1>2 DEF sides, Moves
<1>9. FarAgrees'
  BY <1>1, <1>7, <1>8, OthersAgree
<1>10. LinkTypes' /\ HistoryTypes'
  BY <1>1, <1>2, <1>4 DEF LinkTypes, HistoryTypes, TypeOK
<1>11. Grows
  BY <1>1, <1>2, <1>8, GrowsByReading
<1> QED
  BY <1>7, <1>8, <1>9, <1>10, <1>11, FarSideStep

LEMMA RemoteCatchesStep ==
  ASSUME SessionIInv, NEW n \in Links, NEW c \in Conns, RemoteCatches(n, c)
  PROVE  SessionIInv'
<1> DEFINE r == [remote[n] EXCEPT ![c] = "ended"]
<1>1. TypeOK /\ FarAgrees /\ c \in Owners /\ Agrees(n, remote[n], farTable[n], stray)
  BY DEF SessionIInv, FarAgrees, Owners
<1>2. /\ remote[n][c] = "stopping"
      /\ FarRequests(n, r, farTable[n], Stop(session[c], c))
      /\ UNCHANGED <<sides, link, far, up, read, back, toHost, toClient>>
  BY DEF RemoteCatches
<1>3. r \in [Owners -> RemoteState] /\ Agrees(n, r, farTable[n], stray)
  <2>1. "ended" \in RemoteState \ {"none"} /\ "ended" \notin {"starting", "open"}
    BY DEF RemoteState
  <2> QED
    BY <1>1, <1>2, <2>1, OneRelayMoves
<1>4. session[c] # 0
  BY <1>1, <1>2 DEF Agrees
<1>5. UNCHANGED <<sides, session>> /\ Moves(up, up', UpMessage')
  BY <1>2 DEF sides, Moves
<1>6. Grows
  BY <1>1, <1>2, <1>5, GrowsByReading
<1>7. Stop(session[c], c) \in DownMessage'
  BY <1>1, <1>4, <1>6, MessagesAreGood, MessagesStayGood
<1>8. farTable[n] \in [Sessions -> Owners \cup {NoOne}]
  BY <1>1 DEF TypeOK
<1> HIDE DEF r
<1>9. /\ FarTypes' /\ stray \subseteq stray'
      /\ \A p \in Links \ {n} : remote'[p] = remote[p] /\ farTable'[p] = farTable[p]
      /\ Agrees(n, remote'[n], farTable'[n], stray')
      /\ Moves(down, down', DownMessage')
  BY <1>1, <1>2, <1>3, <1>7, <1>8, FarRequestsAgrees DEF FarTypes
<1>10. FarAgrees'
  BY <1>1, <1>5, <1>9, OthersAgree
<1>11. LinkTypes' /\ HistoryTypes'
  BY <1>1, <1>2 DEF LinkTypes, HistoryTypes, TypeOK
<1> QED
  BY <1>5, <1>6, <1>9, <1>10, <1>11, FarSideStep

(* A manager erases one entry, and stops the relay listed there.           *)
LEMMA FarErases ==
  ASSUME TypeOK, Numbered, NEW n \in Links, Agrees(n, remote[n], farTable[n], stray),
         NEW s \in Sessions, NEW kept \in Keepable(remote[n], {farTable[n][s]} \ {NoOne})
  PROVE  LET h == Halt(remote[n], {farTable[n][s]} \ {NoOne}, kept)
             t == [farTable[n] EXCEPT ![s] = NoOne]
             st == stray \cup ({n} \X kept)
         IN  /\ h \in [Owners -> RemoteState]
             /\ t \in [Sessions -> Owners \cup {NoOne}]
             /\ st \in SUBSET (Links \X Conns)
             /\ \A o \in Owners : h[o] = "none" <=> remote[n][o] = "none"
             /\ Agrees(n, h, t, st)
             /\ \A c \in Conns \ kept : h[c] \in {"starting", "open"} =>
                  session[c] # s \/ <<n, c>> \in stray
<1> DEFINE os == {farTable[n][s]} \ {NoOne}
           h == Halt(remote[n], os, kept)
           t == [farTable[n] EXCEPT ![s] = NoOne]
           st == stray \cup ({n} \X kept)
<1>1. /\ remote[n] \in [Owners -> RemoteState]
      /\ farTable[n] \in [Sessions -> Owners \cup {NoOne}]
      /\ os \in SUBSET Owners /\ kept \in Keepable(remote[n], os)
      /\ Conns \subseteq Owners
  <2>1. /\ remote[n] \in [Owners -> RemoteState]
        /\ farTable[n] \in [Sessions -> Owners \cup {NoOne}]
    BY DEF TypeOK
  <2>2. farTable[n][s] \in Owners \cup {NoOne}
    BY <2>1
  <2> QED
    BY <2>1, <2>2 DEF Owners
<1>2. /\ kept \subseteq os /\ kept \subseteq Conns
      /\ h \in [Owners -> RemoteState]
      /\ \A o \in Owners : h[o] = "none" <=> remote[n][o] = "none"
      /\ \A o \in Owners : h[o] \in {"starting", "open"} =>
           remote[n][o] \in {"starting", "open"} /\ (o \notin os \/ o \in kept)
  <2> HIDE DEF os
  <2> QED
    BY <1>1, HaltStops
<1>3. t \in [Sessions -> Owners \cup {NoOne}] /\ st \in SUBSET (Links \X Conns)
  BY <1>1, <1>2 DEF TypeOK
<1>4. \A x \in Sessions : t[x] = IF x = s THEN NoOne ELSE farTable[n][x]
  BY <1>1
<1>5. \A c \in Conns : h[c] \in {"starting", "open"} =>
        /\ session[c] \in Sessions
        /\ farTable[n][session[c]] = c \/ <<n, c>> \in stray
        /\ c \notin os \/ c \in kept
  <2>1. \A c \in Conns : session[c] \in {0} \cup Sessions
    BY <1>1 DEF TypeOK
  <2> QED
    BY <1>1, <1>2, <2>1 DEF Agrees
<1>6. \A c \in Conns \ kept : h[c] \in {"starting", "open"} =>
        session[c] # s \/ <<n, c>> \in stray
  BY <1>1, <1>5, Bounds
<1> HIDE DEF h, t
<1>7. Agrees(n, h, t, st)
  <2>1. \A x \in Sessions : t[x] # NoOne => session[t[x]] = x /\ h[t[x]] # "none"
    BY <1>1, <1>2, <1>4 DEF Agrees
  <2>2. \A o \in Owners : h[o] # "none" => session[o] # 0
    BY <1>2 DEF Agrees
  <2>3. \A c \in Conns : h[c] \in {"starting", "open"} => t[session[c]] = c \/ <<n, c>> \in st
    BY <1>1, <1>4, <1>5, <1>6
  <2> QED
    BY <2>1, <2>2, <2>3 DEF Agrees
<1> QED
  BY <1>2, <1>3, <1>6, <1>7 DEF h, t, os

LEMMA RemoteErasesStep ==
  ASSUME SessionIInv, NEW n \in Links, NEW s \in Sessions,
         NEW kept \in Keepable(remote[n], {farTable[n][s]} \ {NoOne}),
         remote' = [remote EXCEPT ![n] = Halt(@, {farTable[n][s]} \ {NoOne}, kept)],
         farTable' = [farTable EXCEPT ![n][s] = NoOne],
         stray' = stray \cup ({n} \X kept),
         Moves(up, up', UpMessage'),
         UNCHANGED <<sides, link, far, down, gone, read, back, toHost, toClient>>
  PROVE  SessionIInv'
<1> DEFINE h == Halt(remote[n], {farTable[n][s]} \ {NoOne}, kept)
           t == [farTable[n] EXCEPT ![s] = NoOne]
<1>1. TypeOK /\ Numbered /\ FarAgrees /\ Agrees(n, remote[n], farTable[n], stray)
  BY DEF SessionIInv, FarAgrees
<1>2. /\ h \in [Owners -> RemoteState]
      /\ t \in [Sessions -> Owners \cup {NoOne}]
      /\ stray' \in SUBSET (Links \X Conns)
      /\ Agrees(n, h, t, stray')
  BY <1>1, FarErases
<1>3. remote' = [remote EXCEPT ![n] = h] /\ farTable' = [farTable EXCEPT ![n] = t]
  BY <1>1 DEF TypeOK
<1> HIDE DEF h, t
<1>4. /\ remote'[n] = h /\ farTable'[n] = t
      /\ \A p \in Links \ {n} : remote'[p] = remote[p] /\ farTable'[p] = farTable[p]
  BY <1>1, <1>3 DEF TypeOK
<1>5. remote' \in [Links -> [Owners -> RemoteState]]
  BY <1>1, <1>2, <1>3 DEF TypeOK
<1>6. farTable' \in [Links -> [Sessions -> Owners \cup {NoOne}]]
  BY <1>1, <1>2, <1>3 DEF TypeOK
<1>7. FarTypes'
  BY <1>1, <1>2, <1>5, <1>6 DEF FarTypes, TypeOK
<1>8. FarAgrees'
  BY <1>1, <1>2, <1>4, OthersAgree DEF sides
<1>9. LinkTypes' /\ HistoryTypes'
  BY <1>1 DEF LinkTypes, HistoryTypes, TypeOK
<1>10. Grows
  BY <1>1, GrowsByReading DEF sides
<1>11. Moves(down, down', DownMessage') /\ UNCHANGED sides
  BY DEF Moves
<1> QED
  BY <1>7, <1>8, <1>9, <1>10, <1>11, FarSideStep

LEMMA RemoteExpiresStep ==
  ASSUME SessionIInv, NEW n \in Links, NEW s \in Sessions, RemoteExpires(n, s)
  PROVE  SessionIInv'
<1>1. {farTable[n][s]} = {farTable[n][s]} \ {NoOne}
  BY DEF RemoteExpires
<1>2. PICK kept \in Keepable(remote[n], {farTable[n][s]}) :
        /\ remote' = [remote EXCEPT ![n] = Halt(@, {farTable[n][s]}, kept)]
        /\ stray' = stray \cup ({n} \X kept)
  BY DEF RemoteExpires
<1>3. kept \in Keepable(remote[n], {farTable[n][s]} \ {NoOne})
  BY <1>1
<1>4. remote' = [remote EXCEPT ![n] = Halt(@, {farTable[n][s]} \ {NoOne}, kept)]
  BY <1>1, <1>2
<1>5. /\ farTable' = [farTable EXCEPT ![n][s] = NoOne]
      /\ UNCHANGED <<sides, link, far, down, gone, read, back, toHost, toClient>>
      /\ Moves(up, up', UpMessage')
  BY DEF RemoteExpires, Moves
<1> QED
  BY <1>2, <1>3, <1>4, <1>5, RemoteErasesStep

LEMMA RemoteHears ==
  ASSUME SessionIInv, NEW n \in Links, up[n] # <<>>
  PROVE  LET m == Head(up[n]) IN
         /\ m \in UpMessage /\ m.session \in Sessions /\ m.of \in Owners
         /\ m.session = session[m.of] /\ m.session # 0
         /\ m.cmd \in {"START_TCP", "DATA_TCP"} => m.of \in Conns
         /\ m.cmd = "DATA_UDP" => m.of \in Srcs
         /\ m.cmd \in {"DATA_TCP", "DATA_UDP"} =>
              m.nth \in 1 .. read[m.of] /\ [of |-> m.of, nth |-> m.nth] \in Chunk
<1> DEFINE m == Head(up[n])
<1>1. m \in UpMessage
  BY HeadIsGood DEF SessionIInv
<1> HIDE DEF m
<1>2. /\ m.session \in Sessions /\ m.of \in Owners /\ m.session = session[m.of]
      /\ m.cmd \in {"START_TCP", "DATA_TCP"} => m.of \in Conns
      /\ m.cmd = "DATA_UDP" => m.of \in Srcs
      /\ m.cmd \in {"DATA_TCP", "DATA_UDP"} => m.nth \in 1 .. read[m.of]
  BY <1>1 DEF UpMessage, Message
<1>3. read[m.of] \in 0 .. MaxData /\ MaxData \in Nat
  BY <1>2, Bounds DEF SessionIInv, TypeOK
<1>4. m.cmd \in {"DATA_TCP", "DATA_UDP"} => [of |-> m.of, nth |-> m.nth] \in Chunk
  BY <1>2, <1>3 DEF Chunk
<1> QED
  BY <1>1, <1>2, <1>4, Bounds DEF m

LEMMA RemoteStoppedStep ==
  ASSUME SessionIInv, NEW n \in Links, RemoteStopped(n)
  PROVE  SessionIInv'
<1> DEFINE s == Head(up[n]).session
<1>1. up[n] # <<>> /\ s \in Sessions
  BY RemoteHears DEF RemoteStopped, Delivers
<1>2. PICK kept \in Keepable(remote[n], {farTable[n][s]} \ {NoOne}) :
        /\ remote' = [remote EXCEPT ![n] = Halt(@, {farTable[n][s]} \ {NoOne}, kept)]
        /\ stray' = stray \cup ({n} \X kept)
  BY DEF RemoteStopped
<1>3. /\ farTable' = [farTable EXCEPT ![n][s] = NoOne]
      /\ up' = [up EXCEPT ![n] = Tail(@)]
      /\ UNCHANGED <<sides, link, far, down, gone, read, back, toHost, toClient>>
  BY DEF RemoteStopped
<1>4. Moves(up, up', UpMessage')
  BY <1>1, <1>3 DEF Moves
<1> QED
  BY <1>1, <1>2, <1>3, <1>4, RemoteErasesStep

LEMMA MoreStrays ==
  ASSUME NEW n, NEW r, NEW t, NEW st, NEW st2, st \subseteq st2, Agrees(n, r, t, st)
  PROVE  Agrees(n, r, t, st2)
BY DEF Agrees

(* A manager lists x, or nobody, under the number s.                       *)
LEMMA ListsAgree ==
  ASSUME NEW n, NEW r, NEW t \in [Sessions -> Owners \cup {NoOne}], NEW st,
         Agrees(n, r, t, st), session \in [Owners -> {0} \cup Sessions],
         NEW s \in Sessions, NEW x \in Owners \cup {NoOne}, NEW q,
         x # NoOne => session[x] = s /\ q[x] # "none",
         \A o \in Owners : r[o] # "none" => q[o] # "none",
         \A o \in Owners : q[o] # "none" => r[o] # "none" \/ o = x,
         \A d \in Conns : d # x /\ q[d] \in {"starting", "open"} =>
           r[d] \in {"starting", "open"} /\ (session[d] # s \/ <<n, d>> \in st)
  PROVE  /\ [t EXCEPT ![s] = x] \in [Sessions -> Owners \cup {NoOne}]
         /\ Agrees(n, q, [t EXCEPT ![s] = x], st)
<1> DEFINE u == [t EXCEPT ![s] = x]
<1>1. u \in [Sessions -> Owners \cup {NoOne}] /\ \A y \in Sessions : u[y] = IF y = s THEN x ELSE t[y]
  OBVIOUS
<1> HIDE DEF u
<1>2. \A y \in Sessions : u[y] # NoOne => session[u[y]] = y /\ q[u[y]] # "none"
  BY <1>1 DEF Agrees
<1>3. \A o \in Owners : q[o] # "none" => session[o] # 0
  <2>1. x \in Owners => session[x] # 0
    BY Bounds
  <2> QED
    BY <2>1 DEF Agrees
<1>4. ASSUME NEW c \in Conns, q[c] \in {"starting", "open"}
      PROVE  u[session[c]] = c \/ <<n, c>> \in st
  <2>1. c \in Owners /\ c # NoOne
    BY Bounds DEF Owners
  <2>2. session[c] \in Sessions
    BY <1>3, <1>4, <2>1
  <2>3. CASE c = x
    BY <2>3, <2>1, <2>2, <1>1
  <2>4. CASE c # x
    BY <2>4, <2>2, <1>1, <1>4 DEF Agrees
  <2> QED
    BY <2>3, <2>4
<1>5. Agrees(n, q, u, st)
  BY <1>2, <1>3, <1>4 DEF Agrees
<1> QED
  BY <1>1, <1>5 DEF u

LEMMA RemoteStartStep ==
  ASSUME SessionIInv, NEW n \in Links, RemoteStart(n)
  PROVE  SessionIInv'
<1> DEFINE m == Head(up[n])
           s == m.session
           os == {farTable[n][s]} \ {NoOne}
<1>1. TypeOK /\ Numbered /\ FarAgrees /\ Agrees(n, remote[n], farTable[n], stray)
  BY DEF SessionIInv, FarAgrees
<1>2. /\ up[n] # <<>> /\ m.cmd = "START_TCP"
      /\ up' = [up EXCEPT ![n] = Tail(@)]
      /\ farTable' = [farTable EXCEPT ![n][s] = m.of]
      /\ UNCHANGED <<sides, link, far, down, gone, read, back, toHost, toClient>>
  BY DEF RemoteStart, Delivers
<1>3. s \in Sessions /\ m.of \in Conns /\ m.of \in Owners /\ session[m.of] = s
  BY <1>2, RemoteHears
<1>4. PICK kept \in Keepable(remote[n], os) :
        /\ remote' = [remote EXCEPT ![n] = [Halt(@, os, kept) EXCEPT ![m.of] = "starting"]]
        /\ stray' = stray \cup ({n} \X (kept \cup IF n \in gone THEN {m.of} ELSE {}))
  BY DEF RemoteStart
<1> DEFINE h == Halt(remote[n], os, kept)
           t == [farTable[n] EXCEPT ![s] = NoOne]
           st == stray \cup ({n} \X kept)
           r == [h EXCEPT ![m.of] = "starting"]
<1>5. /\ h \in [Owners -> RemoteState]
      /\ t \in [Sessions -> Owners \cup {NoOne}]
      /\ Agrees(n, h, t, st)
      /\ \A c \in Conns \ kept : h[c] \in {"starting", "open"} =>
           session[c] # s \/ <<n, c>> \in stray
  BY <1>1, <1>3, <1>4, FarErases
<1>6. kept \subseteq Conns
  BY <1>4 DEF Keepable
<1>7. /\ remote' = [remote EXCEPT ![n] = r]
      /\ farTable' = [farTable EXCEPT ![n] = [t EXCEPT ![s] = m.of]]
      /\ stray \subseteq st /\ st \subseteq stray' /\ stray' \in SUBSET (Links \X Conns)
  <2>1. remote' = [remote EXCEPT ![n] = r]
    BY <1>1, <1>4 DEF TypeOK
  <2>2. farTable' = [farTable EXCEPT ![n] = [t EXCEPT ![s] = m.of]]
    BY <1>1, <1>2 DEF TypeOK
  <2>3. stray \subseteq st /\ st \subseteq stray' /\ stray' \in SUBSET (Links \X Conns)
    BY <1>1, <1>3, <1>4, <1>6 DEF TypeOK
  <2> QED
    BY <2>1, <2>2, <2>3
<1>8. \A c \in Conns : h[c] \in {"starting", "open"} => session[c] # s \/ <<n, c>> \in st
  BY <1>5
<1> HIDE DEF h, t, st
<1>9. /\ r \in [Owners -> RemoteState]
      /\ \A o \in Owners : r[o] = IF o = m.of THEN "starting" ELSE h[o]
  BY <1>3, <1>5 DEF RemoteState
<1> HIDE DEF r, s, m
<1>10. /\ [t EXCEPT ![s] = m.of] \in [Sessions -> Owners \cup {NoOne}]
       /\ Agrees(n, r, [t EXCEPT ![s] = m.of], stray')
  <2>1. session \in [Owners -> {0} \cup Sessions] /\ Conns \subseteq Owners
    BY <1>1 DEF TypeOK, Owners
  <2>2. /\ m.of # NoOne => session[m.of] = s /\ r[m.of] # "none"
        /\ \A o \in Owners : h[o] # "none" => r[o] # "none"
        /\ \A o \in Owners : r[o] # "none" => h[o] # "none" \/ o = m.of
        /\ \A d \in Conns : d # m.of /\ r[d] \in {"starting", "open"} =>
             h[d] \in {"starting", "open"} /\ (session[d] # s \/ <<n, d>> \in st)
    BY <1>3, <1>8, <1>9, <2>1
  <2>3. st \subseteq stray' /\ s \in Sessions /\ m.of \in Owners \cup {NoOne}
    BY <1>3, <1>7
  <2>4. t \in [Sessions -> Owners \cup {NoOne}] /\ Agrees(n, h, t, st)
    BY <1>5
  <2> DEFINE x == m.of
  <2> HIDE DEF x
  <2>5. /\ x # NoOne => session[x] = s /\ r[x] # "none"
        /\ \A o \in Owners : h[o] # "none" => r[o] # "none"
        /\ \A o \in Owners : r[o] # "none" => h[o] # "none" \/ o = x
        /\ \A d \in Conns : d # x /\ r[d] \in {"starting", "open"} =>
             h[d] \in {"starting", "open"} /\ (session[d] # s \/ <<n, d>> \in st)
        /\ x \in Owners \cup {NoOne}
    BY <2>2, <2>3 DEF x
  <2>6. /\ [t EXCEPT ![s] = x] \in [Sessions -> Owners \cup {NoOne}]
        /\ Agrees(n, r, [t EXCEPT ![s] = x], stray')
    <3>1. /\ [t EXCEPT ![s] = x] \in [Sessions -> Owners \cup {NoOne}]
          /\ Agrees(n, r, [t EXCEPT ![s] = x], st)
      BY <2>1, <2>3, <2>4, <2>5, ListsAgree
    <3> QED
      BY <3>1, <2>3, MoreStrays
  <2> QED
    BY <2>6 DEF x
<1>11. /\ remote'[n] = r /\ farTable'[n] = [t EXCEPT ![s] = m.of]
       /\ \A p \in Links \ {n} : remote'[p] = remote[p] /\ farTable'[p] = farTable[p]
  BY <1>1, <1>7 DEF TypeOK
<1>12. remote' \in [Links -> [Owners -> RemoteState]]
  BY <1>1, <1>7, <1>9 DEF TypeOK
<1>13. farTable' \in [Links -> [Sessions -> Owners \cup {NoOne}]]
  BY <1>1, <1>7, <1>10 DEF TypeOK
<1>14. FarTypes'
  BY <1>1, <1>2, <1>7, <1>12, <1>13 DEF FarTypes, TypeOK
<1>15. FarAgrees'
  BY <1>1, <1>2, <1>7, <1>10, <1>11, OthersAgree DEF sides
<1>16. LinkTypes' /\ HistoryTypes'
  BY <1>1, <1>2 DEF LinkTypes, HistoryTypes, TypeOK
<1>17. Grows
  BY <1>1, <1>2, GrowsByReading DEF sides
<1>18. Moves(up, up', UpMessage') /\ Moves(down, down', DownMessage') /\ UNCHANGED sides
  BY <1>2 DEF Moves
<1> QED
  BY <1>14, <1>15, <1>16, <1>17, <1>18, FarSideStep

(* What a relay is handed was read.                                        *)
LEMMA HandTypes ==
  ASSUME TypeOK, NEW o \in Owners, NEW m, [of |-> m.of, nth |-> m.nth] \in Chunk, Hand(o, m)
  PROVE  toHost' \in [Conns -> Seq(Chunk)]
<1>1. toHost \in [Conns -> Seq(Chunk)]
  BY DEF TypeOK
<1>2. CASE o \in Conns
  <2>1. toHost' = [toHost EXCEPT ![o] = Append(@, [of |-> m.of, nth |-> m.nth])]
    BY <1>2 DEF Hand
  <2> QED
    BY <1>1, <1>2, <2>1, AppendProperties
<1>3. CASE o \notin Conns
  BY <1>1, <1>3 DEF Hand
<1> QED
  BY <1>2, <1>3

LEMMA RemoteDataStep ==
  ASSUME SessionIInv, NEW n \in Links, RemoteData(n)
  PROVE  SessionIInv'
<1> DEFINE m == Head(up[n])
           s == m.session
           o == farTable[n][s]
           t == [farTable[n] EXCEPT ![s] = NoOne]
<1>1. TypeOK /\ Numbered /\ FarAgrees /\ Agrees(n, remote[n], farTable[n], stray)
  BY DEF SessionIInv, FarAgrees
<1>2. /\ up[n] # <<>> /\ m.cmd = "DATA_TCP"
      /\ up' = [up EXCEPT ![n] = Tail(@)]
      /\ UNCHANGED <<sides, link, far, read, back, toClient>>
  BY DEF RemoteData, Delivers
<1>3. s \in Sessions /\ [of |-> m.of, nth |-> m.nth] \in Chunk
  BY <1>2, RemoteHears
<1>4. /\ farTable[n] \in [Sessions -> Owners \cup {NoOne}]
      /\ remote[n] \in [Owners -> RemoteState]
  BY <1>1 DEF TypeOK
<1>5. o \in Owners \cup {NoOne}
  BY <1>3, <1>4
<1>6. LinkTypes' /\ Grows /\ Moves(up, up', UpMessage') /\ UNCHANGED <<sides, session>>
  BY <1>1, <1>2, GrowsByReading DEF LinkTypes, Moves, TypeOK, sides
<1>7. \/ UNCHANGED <<down, farSides, toHost, stray>>
      \/ /\ Dead(n, o)
         /\ FarRequests(n, remote[n], t, Stop(s, o))
         /\ UNCHANGED toHost
      \/ o # NoOne /\ Hand(o, m) /\ UNCHANGED <<down, farSides, stray>>
  BY DEF RemoteData
<1>8. CASE UNCHANGED <<down, farSides, stray>> /\ toHost' \in [Conns -> Seq(Chunk)]
  <2>1. FarTypes' /\ HistoryTypes' /\ Moves(down, down', DownMessage')
    BY <1>1, <1>2, <1>8 DEF FarTypes, HistoryTypes, Moves, TypeOK, farSides
  <2>2. FarAgrees'
    BY <1>1, <1>6, <1>8 DEF farSides, FarAgrees, Agrees
  <2> QED
    BY <1>6, <2>1, <2>2, FarSideStep
<1>9. CASE Dead(n, o) /\ FarRequests(n, remote[n], t, Stop(s, o)) /\ UNCHANGED toHost
  <2>1. /\ o \in Owners /\ session[o] = s /\ s # 0
        /\ remote[n][o] \notin {"starting", "open"}
    BY <1>1, <1>3, <1>5, <1>9, Bounds DEF Dead, Agrees
  <2>2. t \in [Sessions -> Owners \cup {NoOne}] /\ Agrees(n, remote[n], t, stray)
    <3>1. /\ session \in [Owners -> {0} \cup Sessions] /\ Conns \subseteq Owners
          /\ NoOne \notin Conns
      BY <1>1, Bounds DEF TypeOK, Owners
    <3>2. \A d \in Conns : d # NoOne /\ remote[n][d] \in {"starting", "open"} =>
            remote[n][d] \in {"starting", "open"} /\ (session[d] # s \/ <<n, d>> \in stray)
      BY <1>1, <2>1 DEF Agrees
    <3> HIDE DEF s, m
    <3> QED
      BY <1>1, <1>3, <1>4, <3>1, <3>2, ListsAgree
  <2>3. Stop(s, o) \in DownMessage'
    <3>1. Stop(session[o], o) \in DownMessage
      BY <1>1, <2>1, MessagesAreGood
    <3> QED
      BY <3>1, <2>1, <1>1, <1>6, MessagesStayGood
  <2>4. FarRequests(n, remote[n], t, Stop(s, o))
    BY <1>9
  <2> HIDE DEF t, o, s, m
  <2>5. /\ FarTypes' /\ stray \subseteq stray'
        /\ \A p \in Links \ {n} : remote'[p] = remote[p] /\ farTable'[p] = farTable[p]
        /\ Agrees(n, remote'[n], farTable'[n], stray')
        /\ Moves(down, down', DownMessage')
    BY <1>1, <1>4, <2>2, <2>3, <2>4, FarRequestsAgrees DEF FarTypes
  <2>6. FarAgrees'
    BY <1>1, <1>6, <2>5, OthersAgree
  <2>7. HistoryTypes'
    BY <1>1, <1>2, <1>9 DEF HistoryTypes, TypeOK
  <2> QED
    BY <1>6, <2>5, <2>6, <2>7, FarSideStep
<1>10. CASE o # NoOne /\ Hand(o, m) /\ UNCHANGED <<down, farSides, stray>>
  BY <1>1, <1>3, <1>5, <1>8, <1>10, HandTypes
<1>11. CASE UNCHANGED <<down, farSides, toHost, stray>>
  BY <1>1, <1>8, <1>11 DEF TypeOK
<1> QED
  BY <1>7, <1>9, <1>10, <1>11

LEMMA RemoteUdpStep ==
  ASSUME SessionIInv, NEW n \in Links, RemoteUdp(n)
  PROVE  SessionIInv'
<1> DEFINE m == Head(up[n])
           s == m.session
           o == farTable[n][s]
           u == m.of
           t == [farTable[n] EXCEPT ![s] = u]
           r == [remote[n] EXCEPT ![u] = "open"]
<1>1. TypeOK /\ Numbered /\ FarAgrees /\ Agrees(n, remote[n], farTable[n], stray)
  BY DEF SessionIInv, FarAgrees
<1>2. /\ up[n] # <<>> /\ m.cmd = "DATA_UDP"
      /\ up' = [up EXCEPT ![n] = Tail(@)]
      /\ UNCHANGED <<sides, link, far, down, gone, read, back, toClient, stray>>
  BY DEF RemoteUdp, Delivers
<1>3. /\ s \in Sessions /\ [of |-> m.of, nth |-> m.nth] \in Chunk
      /\ u \in Srcs /\ u \in Owners /\ session[u] = s
  BY <1>2, RemoteHears
<1>4. /\ farTable[n] \in [Sessions -> Owners \cup {NoOne}]
      /\ remote[n] \in [Owners -> RemoteState]
      /\ session \in [Owners -> {0} \cup Sessions] /\ Conns \subseteq Owners
      /\ u # NoOne /\ u \notin Conns
  BY <1>1, <1>3, Bounds, TunnelAssumption DEF TypeOK, Owners
<1>5. o \in Owners \cup {NoOne}
  BY <1>3, <1>4
<1>6. LinkTypes' /\ Grows /\ Moves(up, up', UpMessage') /\ UNCHANGED <<sides, session>>
      /\ Moves(down, down', DownMessage')
  BY <1>1, <1>2, GrowsByReading DEF LinkTypes, Moves, TypeOK, sides
<1>7. CASE /\ o = NoOne \/ Dead(n, o)
           /\ farTable' = [farTable EXCEPT ![n][s] = u]
           /\ remote' = [remote EXCEPT ![n][u] = "open"]
           /\ UNCHANGED toHost
  <2>1. /\ farTable' = [farTable EXCEPT ![n] = t]
        /\ remote' = [remote EXCEPT ![n] = r]
    BY <1>1, <1>7 DEF TypeOK
  <2>2. /\ r \in [Owners -> RemoteState]
        /\ \A x \in Owners : r[x] = IF x = u THEN "open" ELSE remote[n][x]
    BY <1>3, <1>4 DEF RemoteState
  <2>3. \A d \in Conns : remote[n][d] \in {"starting", "open"} =>
          session[d] # s \/ <<n, d>> \in stray
    BY <1>1, <1>4, <1>7, Bounds DEF Dead, Agrees, Owners
  <2> HIDE DEF r
  <2>4. /\ u # NoOne => session[u] = s /\ r[u] # "none"
        /\ \A x \in Owners : remote[n][x] # "none" => r[x] # "none"
        /\ \A x \in Owners : r[x] # "none" => remote[n][x] # "none" \/ x = u
        /\ \A d \in Conns : d # u /\ r[d] \in {"starting", "open"} =>
             remote[n][d] \in {"starting", "open"} /\ (session[d] # s \/ <<n, d>> \in stray)
        /\ u \in Owners \cup {NoOne}
    BY <1>3, <1>4, <2>2, <2>3
  <2>5. t \in [Sessions -> Owners \cup {NoOne}] /\ Agrees(n, r, t, stray)
    <3> HIDE DEF u, s, m
    <3> QED
      BY <1>1, <1>3, <1>4, <2>4, ListsAgree
  <2> HIDE DEF t
  <2>6. /\ remote'[n] = r /\ farTable'[n] = t
        /\ \A p \in Links \ {n} : remote'[p] = remote[p] /\ farTable'[p] = farTable[p]
    BY <1>1, <2>1 DEF TypeOK
  <2>7. remote' \in [Links -> [Owners -> RemoteState]]
    BY <1>1, <2>1, <2>2 DEF TypeOK
  <2>8. farTable' \in [Links -> [Sessions -> Owners \cup {NoOne}]]
    BY <1>1, <2>1, <2>5 DEF TypeOK
  <2>9. FarTypes' /\ HistoryTypes'
    BY <1>1, <1>2, <1>7, <2>7, <2>8 DEF FarTypes, HistoryTypes, TypeOK
  <2>10. FarAgrees'
    BY <1>1, <1>2, <1>6, <2>5, <2>6, OthersAgree
  <2> QED
    BY <1>6, <2>9, <2>10, FarSideStep
<1>8. CASE o # NoOne /\ Hand(o, m) /\ UNCHANGED <<farTable, remote>>
  <2>1. toHost' \in [Conns -> Seq(Chunk)]
    BY <1>1, <1>3, <1>5, <1>8, HandTypes
  <2>2. FarTypes' /\ HistoryTypes'
    BY <1>1, <1>2, <1>8, <2>1 DEF FarTypes, HistoryTypes, TypeOK
  <2>3. FarAgrees'
    BY <1>1, <1>2, <1>6, <1>8 DEF FarAgrees, Agrees
  <2> QED
    BY <1>6, <2>2, <2>3, FarSideStep
<1> QED
  BY <1>7, <1>8 DEF RemoteUdp

-----------------------------------------------------------------------------
(* The links.                                                              *)
LEMMA LinkSteps ==
  ASSUME SessionIInv, NEW n \in Links,
         LinkAccepted(n) \/ LinkStops(n) \/ FarStops(n) \/ LinkCloses(n) \/ FarCloses(n)
  PROVE  SessionIInv'
<1>1. TypeOK /\ FarAgrees
  BY DEF SessionIInv
<1>2. UNCHANGED <<sides, farSides, histories>>
  BY DEF LinkAccepted, LinkStops, FarStops, LinkCloses, FarCloses
<1>3. LinkTypes'
  BY <1>1 DEF LinkAccepted, LinkStops, FarStops, LinkCloses, FarCloses, LinkTypes,
     TypeOK, LinkState
<1>4. Moves(up, up', UpMessage') /\ Moves(down, down', DownMessage')
  BY DEF LinkAccepted, LinkStops, FarStops, LinkCloses, FarCloses, Moves
<1>5. Grows
  BY <1>1, <1>2, GrowsByReading DEF sides, histories
<1>6. FarTypes' /\ HistoryTypes'
  BY <1>1, <1>2 DEF FarTypes, HistoryTypes, TypeOK, farSides, histories
<1>7. FarAgrees'
  BY <1>1, <1>2 DEF FarAgrees, Agrees, farSides, histories, sides
<1> QED
  BY <1>2, <1>3, <1>4, <1>5, <1>6, <1>7, FarSideStep

LEMMA FarExpiresStep ==
  ASSUME SessionIInv, NEW n \in Links, FarExpires(n)
  PROVE  SessionIInv'
<1>1. TypeOK /\ FarAgrees /\ Agrees(n, remote[n], farTable[n], stray)
  BY DEF SessionIInv, FarAgrees
<1>2. /\ far' = [far EXCEPT ![n] = IF @ = "up" THEN "stopped" ELSE @]
      /\ StopManager(n, remote[n])
      /\ UNCHANGED <<sides, link, up, down, read, back, toHost, toClient>>
  BY DEF FarExpires
<1>3. LinkTypes' /\ HistoryTypes'
  BY <1>1, <1>2 DEF LinkTypes, HistoryTypes, TypeOK, LinkState
<1>4. remote[n] \in [Owners -> RemoteState]
  BY <1>1 DEF TypeOK
<1>5. /\ FarTypes' /\ stray \subseteq stray'
      /\ \A p \in Links \ {n} : remote'[p] = remote[p] /\ farTable'[p] = farTable[p]
      /\ Agrees(n, remote'[n], farTable'[n], stray')
  BY <1>1, <1>2, <1>4, StopManagerAgrees DEF FarTypes
<1>6. UNCHANGED <<sides, session>> /\ Moves(up, up', UpMessage')
      /\ Moves(down, down', DownMessage')
  BY <1>2 DEF sides, Moves
<1>7. FarAgrees'
  BY <1>1, <1>5, <1>6, OthersAgree
<1>8. Grows
  BY <1>1, <1>2, <1>6, GrowsByReading
<1> QED
  BY <1>3, <1>5, <1>6, <1>7, <1>8, FarSideStep

-----------------------------------------------------------------------------
LEMMA SessionInit ==
  ASSUME Init
  PROVE  SessionIInv
<1>1. TypeOK /\ Carried
  <2>1. \A S : <<>> \in Seq(S)
    OBVIOUS
  <2>2. Carried
    BY <2>1 DEF Init, Carried
  <2>3. LocalTypes
    BY Bounds DEF Init, LocalTypes, LocalState
  <2>4. LinkTypes /\ FarTypes /\ HistoryTypes
    BY <2>1, Bounds DEF Init, LinkTypes, FarTypes, HistoryTypes, LinkState, RemoteState
  <2> QED
    BY <2>2, <2>3, <2>4, TypesMeet
<1>2. Numbered
  <2>1. Taken = {}
    BY DEF Taken, Init
  <2>2. counter = Cardinality(Taken) + 1
    BY <2>1, FS_EmptySet DEF Init
  <2> QED
    BY <2>2 DEF Numbered, Init, Owners
<1>3. LocalAgrees /\ FarAgrees
  BY DEF LocalAgrees, FarAgrees, Agrees, Init, Owners
<1> QED
  BY <1>1, <1>2, <1>3 DEF SessionIInv

LEMMA SessionStutters ==
  ASSUME SessionIInv, UNCHANGED vars
  PROVE  SessionIInv'
<1>1. Numbered' /\ LocalAgrees'
  BY NumberedKept, LocalAgreesKept DEF SessionIInv, vars, sides
<1>2. TypeOK' /\ Carried' /\ FarAgrees'
  BY DEF SessionIInv, vars, sides, farSides, histories, TypeOK, Carried, UpMessage, DownMessage,
     FarAgrees, Agrees
<1> QED
  BY <1>1, <1>2 DEF SessionIInv

LEMMA SessionNext ==
  ASSUME SessionIInv, [Next]_vars
  PROVE  SessionIInv'
<1>1. ASSUME NEW c \in Conns,
             \/ LocalAccepts(c) \/ LocalStarts(c) \/ LocalReads(c) \/ LocalFails(c)
             \/ LocalCatches(c) \/ LocalExpires(c)
      PROVE  SessionIInv'
  BY <1>1, LocalAcceptsStep, LocalReadsStep, LocalRelaySteps
<1>2. ASSUME NEW c \in Conns, NEW n \in Links,
             RemoteStarts(n, c) \/ RemoteReads(n, c) \/ RemoteCatches(n, c)
      PROVE  SessionIInv'
  BY <1>2, RemoteRelaySteps, RemoteReadsStep, RemoteCatchesStep DEF Owners
<1>3. ASSUME NEW u \in Srcs, LocalSendsUdp(u)
      PROVE  SessionIInv'
  BY <1>3, LocalSendsUdpStep
<1>4. ASSUME NEW n \in Links, LocalStep(n) \/ RemoteStep(n)
      PROVE  SessionIInv'
  BY <1>4, LocalDelivers, RemoteStartStep, RemoteDataStep, RemoteUdpStep, RemoteStoppedStep
     DEF RemoteStep
<1>5. ASSUME NEW n \in Links, NEW o \in Owners, RemoteFails(n, o)
      PROVE  SessionIInv'
  BY <1>5, RemoteRelaySteps
<1>6. ASSUME NEW n \in Links, NEW s \in Sessions, RemoteExpires(n, s)
      PROVE  SessionIInv'
  BY <1>6, RemoteExpiresStep
<1>7. ASSUME NEW n \in Links,
             \/ LinkAccepted(n) \/ LinkStops(n) \/ FarStops(n)
             \/ LinkCloses(n) \/ FarCloses(n) \/ FarExpires(n)
      PROVE  SessionIInv'
  BY <1>7, LinkSteps, FarExpiresStep
<1> QED
  BY <1>1, <1>2, <1>3, <1>4, <1>5, <1>6, <1>7, SessionStutters DEF Next

LEMMA SessionIInvImplies ==
  SessionIInv => SessionInv
<1> SUFFICES ASSUME SessionIInv PROVE ServingIsListed
  BY DEF SessionIInv, SessionInv
<1>1. \A c \in Conns : local[c] \in {"fresh", "open"} => table[session[c]] = c
  BY DEF SessionIInv, LocalAgrees
<1>2. \A c \in Conns, n \in Links : remote[n][c] \in {"starting", "open"} =>
        farTable[n][session[c]] = c \/ <<n, c>> \in stray
  BY DEF SessionIInv, FarAgrees, Agrees
<1> QED
  BY <1>1, <1>2 DEF ServingIsListed

LEMMA SessionInductive ==
  Spec => []SessionIInv
BY SessionInit, SessionNext, PTL DEF Spec

(* Tables and relays agree, for any number of connections, sources and     *)
(* links: a local relay that serves is listed under its number, so is a    *)
(* remote one in its link's manager unless it is a stray, and all has its  *)
(* type.  (relay_manager.cpp:105-171, 214-222)                             *)
THEOREM TunnelSessions == Spec => []SessionInv
BY SessionInductive, SessionIInvImplies, PTL

-----------------------------------------------------------------------------
(* A link's messages as one connection sees them.                          *)
IsStart(m, c) == m.cmd = "START_TCP" /\ m.of = c
IsData(m, c) == m.cmd = "DATA_TCP" /\ m.of = c

StartIn(q, c) == \E i \in DOMAIN q : IsStart(q[i], c)
DataIn(q, c) == \E i \in DOMAIN q : IsData(q[i], c)
Once(q, c) == \A i, j \in DOMAIN q : IsStart(q[i], c) /\ IsStart(q[j], c) => i = j
StartFirst(q, c) ==
  \A i, j \in DOMAIN q : IsStart(q[i], c) /\ IsData(q[j], c) => i < j

(* The data after chunk k: in order and without gaps; all up to chunk l.   *)
Has(q, c, h) == \E j \in DOMAIN q : IsData(q[j], c) /\ q[j].nth = h
Ordered(q, c, k) ==
  /\ \A i \in DOMAIN q : IsData(q[i], c) => q[i].nth > k
  /\ \A i, j \in DOMAIN q :
       IsData(q[i], c) /\ IsData(q[j], c) /\ i < j => q[i].nth < q[j].nth
  /\ \A i \in DOMAIN q : IsData(q[i], c) => \A h \in k + 1 .. q[i].nth : Has(q, c, h)
All(q, c, k, l) == \A h \in k + 1 .. l : Has(q, c, h)

LEMMA EmptyFlow ==
  ASSUME NEW c, NEW k \in Nat
  PROVE  /\ ~ StartIn(<<>>, c) /\ ~ DataIn(<<>>, c) /\ Once(<<>>, c) /\ StartFirst(<<>>, c)
         /\ Ordered(<<>>, c, k)
<1>1. DOMAIN <<>> = {}
  OBVIOUS
<1> QED
  BY <1>1 DEF StartIn, DataIn, Once, StartFirst, Ordered

LEMMA NoDataFlow ==
  ASSUME NEW q \in Seq(Message), NEW c, NEW k \in Nat, ~ DataIn(q, c)
  PROVE  Ordered(q, c, k) /\ StartFirst(q, c) /\ \A l \in Nat : l <= k => All(q, c, k, l)
BY DEF DataIn, Ordered, StartFirst, All

(* A message more.                                                         *)
LEMMA Appended ==
  ASSUME NEW q \in Seq(Message), NEW x \in Message
  PROVE  /\ Append(q, x) \in Seq(Message)
         /\ Len(q) \in Nat /\ DOMAIN q = 1 .. Len(q)
         /\ DOMAIN Append(q, x) = 1 .. Len(q) + 1
         /\ \A i \in DOMAIN q : Append(q, x)[i] = q[i] /\ i \in DOMAIN Append(q, x)
         /\ Append(q, x)[Len(q) + 1] = x
         /\ \A i \in DOMAIN Append(q, x) : i \in DOMAIN q \/ i = Len(q) + 1
         /\ \A i \in DOMAIN q : i \in Nat /\ q[i].nth \in Nat
         /\ x.nth \in Nat
<1>1. /\ Append(q, x) \in Seq(Message) /\ Len(Append(q, x)) = Len(q) + 1
      /\ \A i \in 1 .. Len(q) : Append(q, x)[i] = q[i]
      /\ Append(q, x)[Len(q) + 1] = x
  BY AppendProperties
<1>2. /\ Len(q) \in Nat /\ DOMAIN q = 1 .. Len(q)
      /\ DOMAIN Append(q, x) = 1 .. Len(q) + 1
  BY <1>1, LenProperties
<1>3. \A m \in Message : m.nth \in Nat
  BY Bounds DEF Message
<1>4. \A i \in DOMAIN q : q[i] \in Message
  BY <1>2, ElementOfSeq
<1> QED
  BY <1>1, <1>2, <1>3, <1>4

LEMMA AppendStarts ==
  ASSUME NEW q \in Seq(Message), NEW x \in Message, NEW c
  PROVE  /\ StartIn(Append(q, x), c) <=> StartIn(q, c) \/ IsStart(x, c)
         /\ DataIn(Append(q, x), c) <=> DataIn(q, c) \/ IsData(x, c)
         /\ Once(q, c) /\ ~ (StartIn(q, c) /\ IsStart(x, c)) => Once(Append(q, x), c)
         /\ StartFirst(q, c) /\ ~ (DataIn(q, c) /\ IsStart(x, c)) => StartFirst(Append(q, x), c)
<1> DEFINE a == Append(q, x)
           z == Len(q) + 1
<1>1. /\ DOMAIN q = 1 .. Len(q) /\ Len(q) \in Nat /\ z \in DOMAIN a /\ a[z] = x
      /\ \A i \in DOMAIN q : a[i] = q[i] /\ i \in DOMAIN a /\ i \in Nat /\ i < z
      /\ \A i \in DOMAIN a : i \in DOMAIN q \/ i = z
  BY Appended
<1> HIDE DEF a, z
<1>2. StartIn(a, c) <=> StartIn(q, c) \/ IsStart(x, c)
  BY <1>1 DEF StartIn
<1>3. DataIn(a, c) <=> DataIn(q, c) \/ IsData(x, c)
  BY <1>1 DEF DataIn
<1>4. ASSUME Once(q, c), ~ (StartIn(q, c) /\ IsStart(x, c))
      PROVE  Once(a, c)
  BY <1>1, <1>4 DEF Once, StartIn
<1>5. ASSUME StartFirst(q, c), ~ (DataIn(q, c) /\ IsStart(x, c))
      PROVE  StartFirst(a, c)
  <2>1. ~ (IsStart(x, c) /\ IsData(x, c))
    BY DEF IsStart, IsData
  <2> QED
    BY <1>1, <1>5, <2>1 DEF StartFirst, DataIn
<1> QED
  BY <1>2, <1>3, <1>4, <1>5 DEF a

LEMMA AppendHas ==
  ASSUME NEW q \in Seq(Message), NEW x \in Message, NEW c, NEW h
  PROVE  /\ Has(q, c, h) => Has(Append(q, x), c, h)
         /\ IsData(x, c) /\ x.nth = h => Has(Append(q, x), c, h)
<1> DEFINE a == Append(q, x)
           z == Len(q) + 1
<1>1. /\ \A i \in DOMAIN q : a[i] = q[i] /\ i \in DOMAIN a
      /\ a[z] = x /\ z \in DOMAIN a
  BY Appended
<1> HIDE DEF a, z
<1>2. /\ Has(q, c, h) => Has(a, c, h)
      /\ IsData(x, c) /\ x.nth = h => Has(a, c, h)
  BY <1>1 DEF Has
<1> QED
  BY <1>2 DEF a

LEMMA AppendOther ==
  ASSUME NEW q \in Seq(Message), NEW x \in Message, NEW c, ~ IsData(x, c),
         NEW k \in Nat
  PROVE  /\ Ordered(q, c, k) => Ordered(Append(q, x), c, k)
         /\ \A l : All(q, c, k, l) => All(Append(q, x), c, k, l)
<1> DEFINE a == Append(q, x)
<1>1. /\ \A i \in DOMAIN q : a[i] = q[i]
      /\ \A i \in DOMAIN a : IsData(a[i], c) => i \in DOMAIN q
  BY Appended
<1>2. \A h : Has(q, c, h) => Has(a, c, h)
  BY AppendHas
<1> HIDE DEF a
<1>3. Ordered(q, c, k) => Ordered(a, c, k)
  BY <1>1, <1>2 DEF Ordered
<1>4. \A l : All(q, c, k, l) => All(a, c, k, l)
  BY <1>2 DEF All
<1> QED
  BY <1>3, <1>4 DEF a

LEMMA AppendNext ==
  ASSUME NEW q \in Seq(Message), NEW x \in Message, NEW c, IsData(x, c),
         NEW k \in Nat, NEW l \in Nat, k <= l, x.nth = l + 1,
         \A i \in DOMAIN q : IsData(q[i], c) => q[i].nth <= l,
         Ordered(q, c, k), All(q, c, k, l)
  PROVE  Ordered(Append(q, x), c, k) /\ All(Append(q, x), c, k, l + 1)
<1> DEFINE a == Append(q, x)
           z == Len(q) + 1
<1>1. /\ \A i \in DOMAIN q : a[i] = q[i] /\ i \in DOMAIN a /\ i \in Nat /\ i < z
                             /\ q[i].nth \in Nat
      /\ \A i \in DOMAIN a : i \in DOMAIN q \/ i = z
      /\ a[z] = x /\ z \in Nat
  BY Appended
<1>2. /\ \A h : Has(q, c, h) => Has(a, c, h)
      /\ Has(a, c, l + 1)
  BY AppendHas
<1> HIDE DEF a, z
<1>3. All(a, c, k, l + 1)
  <2>1. ASSUME NEW h \in k + 1 .. l + 1
        PROVE  Has(a, c, h)
    <3>1. h = l + 1 \/ h \in k + 1 .. l
      OBVIOUS
    <3> QED
      BY <3>1, <1>2 DEF All
  <2> QED
    BY <2>1 DEF All
<1>4. \A i \in DOMAIN a : IsData(a[i], c) => a[i].nth > k
  BY <1>1 DEF Ordered
<1>5. \A i, j \in DOMAIN a : IsData(a[i], c) /\ IsData(a[j], c) /\ i < j => a[i].nth < a[j].nth
  BY <1>1 DEF Ordered
<1>6. \A i \in DOMAIN a : IsData(a[i], c) => \A h \in k + 1 .. a[i].nth : Has(a, c, h)
  BY <1>1, <1>2, <1>3 DEF Ordered, All
<1> QED
  BY <1>3, <1>4, <1>5, <1>6 DEF Ordered, a

(* A message less.                                                         *)
LEMMA Popped ==
  ASSUME NEW q \in Seq(Message), q # <<>>
  PROVE  /\ Tail(q) \in Seq(Message)
         /\ Head(q) = q[1] /\ 1 \in DOMAIN q
         /\ \A i \in DOMAIN Tail(q) : i \in Nat /\ i > 0 /\ i + 1 \in DOMAIN q /\ Tail(q)[i] = q[i + 1]
         /\ \A i \in DOMAIN q : i = 1 \/ (i - 1 \in DOMAIN Tail(q) /\ q[i] = Tail(q)[i - 1])
         /\ \A i \in DOMAIN q : i \in Nat /\ i > 0 /\ q[i].nth \in Nat
<1>1. /\ Tail(q) \in Seq(Message) /\ Len(Tail(q)) = Len(q) - 1
      /\ \A i \in 1 .. Len(Tail(q)) : Tail(q)[i] = q[i + 1]
  BY HeadTailProperties
<1>2. /\ Len(q) \in Nat \ {0} /\ DOMAIN q = 1 .. Len(q)
      /\ DOMAIN Tail(q) = 1 .. Len(q) - 1
      /\ \A i \in DOMAIN q : q[i] \in Message
  BY <1>1, LenProperties, EmptySeq, ElementOfSeq
<1>3. Head(q) = q[1]
  OBVIOUS
<1>4. \A m \in Message : m.nth \in Nat
  BY Bounds DEF Message
<1> QED
  BY <1>1, <1>2, <1>3, <1>4

LEMMA TailStarts ==
  ASSUME NEW q \in Seq(Message), q # <<>>, NEW c
  PROVE  /\ StartIn(Tail(q), c) => StartIn(q, c)
         /\ StartIn(q, c) => StartIn(Tail(q), c) \/ IsStart(Head(q), c)
         /\ IsStart(Head(q), c) => StartIn(q, c)
         /\ IsData(Head(q), c) => DataIn(q, c)
         /\ DataIn(Tail(q), c) => DataIn(q, c)
         /\ Once(q, c) => Once(Tail(q), c)
         /\ Once(q, c) /\ IsStart(Head(q), c) => ~ StartIn(Tail(q), c)
         /\ StartFirst(q, c) => StartFirst(Tail(q), c)
         /\ StartFirst(q, c) /\ IsData(Head(q), c) => ~ StartIn(q, c)
<1> DEFINE t == Tail(q)
           b == Head(q)
<1>1. /\ b = q[1] /\ 1 \in DOMAIN q
      /\ \A i \in DOMAIN t : i \in Nat /\ i > 0 /\ i + 1 \in DOMAIN q /\ t[i] = q[i + 1]
      /\ \A i \in DOMAIN q : i = 1 \/ (i - 1 \in DOMAIN t /\ q[i] = t[i - 1])
      /\ \A i \in DOMAIN q : i \in Nat /\ i > 0
  BY Popped
<1> HIDE DEF t, b
<1>2. StartIn(t, c) => StartIn(q, c)
  BY <1>1 DEF StartIn
<1>3. StartIn(q, c) => StartIn(t, c) \/ IsStart(b, c)
  BY <1>1 DEF StartIn
<1>4. (IsStart(b, c) => StartIn(q, c)) /\ (IsData(b, c) => DataIn(q, c))
  BY <1>1 DEF StartIn, DataIn
<1>5. DataIn(t, c) => DataIn(q, c)
  BY <1>1 DEF DataIn
<1>6. ASSUME Once(q, c)
      PROVE  Once(t, c)
  <2>1. ASSUME NEW i \in DOMAIN t, NEW j \in DOMAIN t, IsStart(t[i], c), IsStart(t[j], c)
        PROVE  i = j
    <3>1. i + 1 = j + 1
      BY <1>1, <1>6, <2>1 DEF Once
    <3> QED
      BY <1>1, <3>1
  <2> QED
    BY <2>1 DEF Once
<1>7. ASSUME Once(q, c), IsStart(b, c), StartIn(t, c)
      PROVE  FALSE
  <2>1. PICK i \in DOMAIN t : IsStart(t[i], c)
    BY <1>7 DEF StartIn
  <2>2. i + 1 = 1
    BY <1>1, <1>7, <2>1 DEF Once
  <2> QED
    BY <1>1, <2>1, <2>2
<1>8. ASSUME StartFirst(q, c)
      PROVE  StartFirst(t, c)
  <2>1. ASSUME NEW i \in DOMAIN t, NEW j \in DOMAIN t, IsStart(t[i], c), IsData(t[j], c)
        PROVE  i < j
    <3>1. i + 1 < j + 1
      BY <1>1, <1>8, <2>1 DEF StartFirst
    <3> QED
      BY <1>1, <3>1
  <2> QED
    BY <2>1 DEF StartFirst
<1>9. ASSUME StartFirst(q, c), IsData(b, c), StartIn(q, c)
      PROVE  FALSE
  <2>1. PICK i \in DOMAIN q : IsStart(q[i], c)
    BY <1>9 DEF StartIn
  <2>2. i < 1
    BY <1>1, <1>9, <2>1 DEF StartFirst
  <2> QED
    BY <1>1, <2>1, <2>2
<1> QED
  BY <1>2, <1>3, <1>4, <1>5, <1>6, <1>7, <1>8, <1>9 DEF t, b

LEMMA TailHas ==
  ASSUME NEW q \in Seq(Message), q # <<>>, NEW c, NEW h
  PROVE  /\ Has(Tail(q), c, h) => Has(q, c, h)
         /\ Has(q, c, h) => Has(Tail(q), c, h) \/ (IsData(Head(q), c) /\ Head(q).nth = h)
<1> DEFINE t == Tail(q)
           b == Head(q)
<1>1. /\ b = q[1] /\ 1 \in DOMAIN q
      /\ \A i \in DOMAIN t : i + 1 \in DOMAIN q /\ t[i] = q[i + 1]
      /\ \A i \in DOMAIN q : i = 1 \/ (i - 1 \in DOMAIN t /\ q[i] = t[i - 1])
  BY Popped
<1> HIDE DEF t, b
<1>2. /\ Has(t, c, h) => Has(q, c, h)
      /\ Has(q, c, h) => Has(t, c, h) \/ (IsData(b, c) /\ b.nth = h)
  BY <1>1 DEF Has
<1> QED
  BY <1>2 DEF t, b

LEMMA TailOther ==
  ASSUME NEW q \in Seq(Message), q # <<>>, NEW c, ~ IsData(Head(q), c), NEW k \in Nat
  PROVE  /\ Ordered(q, c, k) => Ordered(Tail(q), c, k)
         /\ \A l : All(q, c, k, l) => All(Tail(q), c, k, l)
<1> DEFINE t == Tail(q)
<1>1. /\ \A i \in DOMAIN t : i \in Nat /\ i + 1 \in DOMAIN q /\ t[i] = q[i + 1]
  BY Popped
<1>2. \A h : Has(q, c, h) => Has(t, c, h)
  BY TailHas
<1> HIDE DEF t
<1>3. ASSUME Ordered(q, c, k)
      PROVE  Ordered(t, c, k)
  <2>1. \A i \in DOMAIN t : IsData(t[i], c) => t[i].nth > k
    BY <1>1, <1>3 DEF Ordered
  <2>2. ASSUME NEW i \in DOMAIN t, NEW j \in DOMAIN t, IsData(t[i], c), IsData(t[j], c), i < j
        PROVE  t[i].nth < t[j].nth
    <3>1. i + 1 < j + 1
      BY <1>1, <2>2
    <3> QED
      BY <1>1, <1>3, <2>2, <3>1 DEF Ordered
  <2>3. \A i \in DOMAIN t : IsData(t[i], c) => \A h \in k + 1 .. t[i].nth : Has(t, c, h)
    BY <1>1, <1>2, <1>3 DEF Ordered
  <2> QED
    BY <2>1, <2>2, <2>3 DEF Ordered
<1>4. \A l : All(q, c, k, l) => All(t, c, k, l)
  BY <1>2 DEF All
<1> QED
  BY <1>3, <1>4 DEF t

(* The first of the data is the next to be handed over.                    *)
LEMMA TailNext ==
  ASSUME NEW q \in Seq(Message), q # <<>>, NEW c, IsData(Head(q), c), NEW k \in Nat,
         Ordered(q, c, k)
  PROVE  /\ Head(q).nth = k + 1
         /\ Ordered(Tail(q), c, k + 1)
         /\ \A l : All(q, c, k, l) => All(Tail(q), c, k + 1, l)
<1> DEFINE t == Tail(q)
           b == Head(q)
<1>1. /\ b = q[1] /\ 1 \in DOMAIN q
      /\ \A i \in DOMAIN t : i \in Nat /\ i > 0 /\ i + 1 \in DOMAIN q /\ t[i] = q[i + 1]
      /\ \A i \in DOMAIN q : i \in Nat /\ i > 0 /\ q[i].nth \in Nat
  BY Popped
<1>2. \A h : Has(q, c, h) => Has(t, c, h) \/ b.nth = h
  BY TailHas
<1> HIDE DEF t, b
<1>3. b.nth = k + 1
  <2>1. b.nth > k /\ b.nth \in Nat
    BY <1>1 DEF Ordered, b
  <2>2. Has(q, c, k + 1)
    <3>1. k + 1 \in k + 1 .. b.nth
      BY <2>1
    <3> QED
      BY <1>1, <3>1 DEF Ordered, b
  <2>3. PICK j \in DOMAIN q : IsData(q[j], c) /\ q[j].nth = k + 1
    BY <2>2 DEF Has
  <2>4. CASE j = 1
    BY <1>1, <2>3, <2>4
  <2>5. CASE j # 1
    <3>1. 1 < j
      BY <1>1, <2>5
    <3>2. b.nth < k + 1
      BY <1>1, <2>3, <3>1 DEF Ordered, b
    <3> QED
      BY <2>1, <3>2
  <2> QED
    BY <2>4, <2>5
<1>4. \A i \in DOMAIN t : IsData(t[i], c) => t[i].nth > k + 1
  <2>1. \A i \in DOMAIN t : 1 < i + 1
    BY <1>1
  <2> QED
    BY <1>1, <1>3, <2>1 DEF Ordered, b
<1>5. ASSUME NEW i \in DOMAIN t, NEW j \in DOMAIN t, IsData(t[i], c), IsData(t[j], c), i < j
      PROVE  t[i].nth < t[j].nth
  <2>1. i + 1 < j + 1
    BY <1>1, <1>5
  <2> QED
    BY <1>1, <1>5, <2>1 DEF Ordered
<1>6. ASSUME NEW i \in DOMAIN t, IsData(t[i], c), NEW h \in k + 1 + 1 .. t[i].nth
      PROVE  Has(t, c, h)
  <2>1. h # k + 1 /\ h \in k + 1 .. q[i + 1].nth /\ i + 1 \in DOMAIN q
    BY <1>1
  <2>2. Has(q, c, h)
    BY <1>1, <1>6, <2>1 DEF Ordered
  <2> QED
    BY <1>2, <1>3, <2>1, <2>2
<1>7. ASSUME NEW l, All(q, c, k, l)
      PROVE  All(t, c, k + 1, l)
  <2>1. ASSUME NEW h \in k + 1 + 1 .. l
        PROVE  Has(t, c, h)
    <3>1. h # k + 1 /\ h \in k + 1 .. l
      OBVIOUS
    <3> QED
      BY <1>2, <1>3, <1>7, <3>1 DEF All
  <2> QED
    BY <2>1 DEF All
<1> QED
  BY <1>3, <1>4, <1>5, <1>6, <1>7 DEF Ordered, t, b

-----------------------------------------------------------------------------
(* The links are made one after the other, and only the last can be up.    *)
LinksInOrder ==
  \A n \in Links :
    /\ link[n] # "none" <=> n <= Current
    /\ link[n] = "up" => n = Current

(* A link that was not made carries nothing, and one that was not accepted *)
(* has no relays.                                                          *)
Unmade ==
  \A n \in Links :
    /\ link[n] = "none" => up[n] = <<>> /\ far[n] = "none"
    /\ far[n] = "none" => \A o \in Owners : remote[n][o] = "none"

(* A connection sends START once; until that has arrived it has no relay   *)
(* at the remote server, and then one, of one link.                        *)
Begun == {"open", "stopping", "ended"}
StartsOnce ==
  \A c \in Conns, n \in Links :
    /\ Once(up[n], c)
    /\ StartIn(up[n], c) =>
         /\ local[c] \in Begun
         /\ \A p \in Links : remote[p][c] = "none" /\ (StartIn(up[p], c) => p = n)
OneHome ==
  \A c \in Conns : \A n, p \in Links : remote[n][c] # "none" /\ remote[p][c] # "none" => n = p

(* Nothing is read of a client before START, nor of a host before a relay  *)
(* was made.                                                               *)
Silent ==
  \A c \in Conns :
    /\ local[c] \notin Begun => read[c] = 0 /\ \A n \in Links : remote[n][c] = "none"
    /\ (\A n \in Links : remote[n][c] = "none") => toHost[c] = <<>> /\ back[c] = 0

(* The connections that share their number with nobody, numbered or not.   *)
Own(c) == \A o \in Owners \ {c} : session[o] = session[c] => session[c] = 0

(* Link n brings c its data when its manager lists c, or will list it.  It *)
(* then holds what follows what c was handed, in order, and all of it as   *)
(* long as messages can be added.                                          *)
Feeds(n, c) == farTable[n][session[c]] = c \/ StartIn(up[n], c)
UpOrder ==
  \A c \in Conns, n \in Links : Own(c) /\ session[c] # 0 /\ Feeds(n, c) =>
    /\ Ordered(up[n], c, Len(toHost[c]))
    /\ StartFirst(up[n], c)
    /\ link[n] = "up" /\ far[n] # "closed" => All(up[n], c, Len(toHost[c]), read[c])
DownOrder ==
  \A c \in Conns, n \in Links :
    /\ DataIn(down[n], c) => remote[n][c] # "none"
    /\ Own(c) /\ table[session[c]] = c /\ remote[n][c] # "none" =>
         /\ Ordered(down[n], c, Len(toClient[c]))
         /\ link[n] # "closed" /\ far[n] = "up" => All(down[n], c, Len(toClient[c]), back[c])

(* What was handed over, h, is the beginning of the k chunks read of c.    *)
Begins(h, c, k) ==
  Len(h) <= k /\ \A i \in 1 .. Len(h) : h[i] = [of |-> c, nth |-> i]
HandedUp == \A c \in Conns : Own(c) => Begins(toHost[c], c, read[c])
HandedDown == \A c \in Conns : Own(c) => Begins(toClient[c], c, back[c])

UpInv == Unmade /\ StartsOnce /\ OneHome /\ Silent /\ UpOrder /\ HandedUp
DownInv == DownOrder /\ HandedDown
FlowIInv == SessionIInv /\ LinksInOrder /\ UpInv /\ DownInv

-----------------------------------------------------------------------------
(* The link that takes the messages.                                       *)
LEMMA CurrentIsLink ==
  Current \in 0 .. MaxLinks
<1>1. MaxLinks \in Nat /\ IsFiniteSet(1 .. MaxLinks) /\ Cardinality(1 .. MaxLinks) = MaxLinks
  BY TunnelAssumption, FS_Interval
<1>2. {n \in Links : link[n] # "none"} \in SUBSET (1 .. MaxLinks)
  BY DEF Links
<1>3. /\ Cardinality({n \in Links : link[n] # "none"}) <= MaxLinks
      /\ IsFiniteSet({n \in Links : link[n] # "none"})
  BY <1>1, <1>2, FS_Subset
<1>4. Cardinality({n \in Links : link[n] # "none"}) \in Nat
  BY <1>3, FS_CardinalityType
<1> QED
  BY <1>1, <1>3, <1>4 DEF Current

LEMMA CarrierTakes ==
  ASSUME TypeOK, LinksInOrder, NEW m, LocalRequests(m)
  PROVE  /\ LinksInOrder'
         /\ Carrier \in Links /\ link[Carrier] \in {"none", "up"}
         /\ \A p \in Links \ {Carrier} : link'[p] = link[p] /\ link[p] # "up"
         /\ \A p \in Links \ {Carrier} : up'[p] = up[p]
         /\ far[Carrier] = "closed" => up'[Carrier] = up[Carrier]
         /\ far[Carrier] # "closed" => up'[Carrier] = Append(up[Carrier], m)
         /\ link'[Carrier] = "up"
<1> DEFINE k == Current
           z == Carrier
<1>1. /\ z \in Links /\ link' = [link EXCEPT ![z] = "up"]
      /\ up' = IF far[z] = "closed" THEN up ELSE [up EXCEPT ![z] = Append(@, m)]
  BY DEF LocalRequests
<1>2. k \in 0 .. MaxLinks /\ MaxLinks \in Nat /\ Links = 1 .. MaxLinks
  BY CurrentIsLink, TunnelAssumption DEF Links
<1>3. z = IF k > 0 /\ link[k] = "up" THEN k ELSE k + 1
  BY DEF Carrier, Usable
<1>4. \A n \in Links : (link[n] # "none" <=> n <= k) /\ (link[n] = "up" => n = k)
  BY DEF LinksInOrder
<1>5. link \in [Links -> LinkState] /\ up \in [Links -> Seq(Message)]
  BY DEF TypeOK
<1> HIDE DEF k, z
<1>6. link[z] \in {"none", "up"}
  BY <1>1, <1>2, <1>3, <1>4
<1>7. \A p \in Links \ {z} : link[p] # "up"
  BY <1>1, <1>2, <1>3, <1>4
<1>8. /\ \A p \in Links \ {z} : link'[p] = link[p] /\ up'[p] = up[p]
      /\ far[z] = "closed" => up'[z] = up[z]
      /\ far[z] # "closed" => up'[z] = Append(up[z], m)
      /\ link'[z] = "up"
  BY <1>1, <1>5
<1>9. \A n \in Links : link'[n] # "none" <=> n <= z
  BY <1>1, <1>2, <1>3, <1>4, <1>8
<1>10. Current' = z
  <2>1. {n \in Links : link'[n] # "none"} = 1 .. z
    BY <1>1, <1>2, <1>9
  <2>2. z \in Nat /\ Cardinality(1 .. z) = z
    BY <1>1, <1>2, FS_Interval
  <2> QED
    BY <2>1, <2>2 DEF Current
<1>11. \A n \in Links : link'[n] = "up" => n = z
  BY <1>7, <1>8
<1>12. LinksInOrder'
  BY <1>9, <1>10, <1>11 DEF LinksInOrder
<1> QED
  BY <1>1, <1>6, <1>7, <1>8, <1>12 DEF z

LEMMA LinksKept ==
  ASSUME LinksInOrder,
         \A n \in Links : /\ link'[n] = "none" <=> link[n] = "none"
                          /\ link'[n] = "up" => link[n] = "up"
  PROVE  LinksInOrder'
<1>1. Current' = Current
  <2>1. {n \in Links : link'[n] # "none"} = {n \in Links : link[n] # "none"}
    OBVIOUS
  <2> QED
    BY <2>1 DEF Current
<1> QED
  BY <1>1 DEF LinksInOrder

(* What follows from the parts for one connection.                         *)
LEMMA OwnBefore ==
  ASSUME Grows, NEW c \in Conns, Own(c)'
  PROVE  Own(c)
BY DEF Own, Grows, Owners

LEMMA SharesNone ==
  ASSUME SessionIInv, NEW c \in Conns, Own(c), NEW o \in Owners, session[o] = session[c],
         session[c] # 0
  PROVE  o = c
BY DEF Own

LEMMA FedFromOne ==
  ASSUME SessionIInv, StartsOnce, OneHome, NEW c \in Conns, session[c] # 0
  PROVE  /\ \A n \in Links : farTable[n][session[c]] = c => remote[n][c] # "none"
         /\ \A n, p \in Links : Feeds(n, c) /\ Feeds(p, c) => n = p
<1>1. session[c] \in Sessions /\ c # NoOne
  BY Bounds DEF SessionIInv, TypeOK, Owners
<1>2. \A n \in Links : farTable[n][session[c]] = c => remote[n][c] # "none"
  BY <1>1 DEF SessionIInv, FarAgrees, Agrees
<1>3. \A n, p \in Links : Feeds(n, c) /\ Feeds(p, c) => n = p
  BY <1>2 DEF Feeds, StartsOnce, OneHome
<1> QED
  BY <1>2, <1>3

(* A connection that is fed had its number before, and is fed no more by   *)
(* the steps that list nobody.                                             *)
LEMMA FedBefore ==
  ASSUME SessionIInv, Grows, StartsOnce, NEW c \in Conns, NEW n \in Links,
         session'[c] \in Sessions,
         farTable[n][session'[c]] = c \/ StartIn(up[n], c)
  PROVE  session[c] # 0 /\ session'[c] = session[c] /\ Feeds(n, c)
<1>1. c \in Owners /\ c # NoOne
  BY Bounds DEF Owners
<1>2. session[c] # 0
  <2>1. CASE farTable[n][session'[c]] = c
    BY <1>1, <2>1 DEF SessionIInv, FarAgrees, Agrees
  <2>2. CASE StartIn(up[n], c)
    BY <2>2 DEF StartsOnce, Begun, SessionIInv, Numbered
  <2> QED
    BY <2>1, <2>2
<1> QED
  BY <1>1, <1>2 DEF Grows, Feeds

(* Data on a link was read.                                                *)
LEMMA DataWasRead ==
  ASSUME SessionIInv, NEW c \in Conns, NEW n \in Links
  PROVE  /\ up[n] \in Seq(Message) /\ down[n] \in Seq(Message)
         /\ \A i \in DOMAIN up[n] : IsData(up[n][i], c) => up[n][i].nth <= read[c]
         /\ \A i \in DOMAIN down[n] : IsData(down[n][i], c) => down[n][i].nth <= back[c]
         /\ read[c] = 0 => ~ DataIn(up[n], c)
         /\ read[c] \in Nat /\ back[c] \in Nat
<1>1. /\ up[n] \in Seq(Message) /\ down[n] \in Seq(Message)
      /\ read[c] \in Nat /\ back[c] \in Nat
  BY Bounds DEF SessionIInv, TypeOK, Owners
<1>2. up[n] \in Seq(UpMessage) /\ down[n] \in Seq(DownMessage)
  BY DEF SessionIInv, Carried
<1>3. /\ \A i \in DOMAIN up[n] : up[n][i] \in UpMessage
      /\ \A i \in DOMAIN down[n] : down[n][i] \in DownMessage
  BY <1>2, LenProperties, ElementOfSeq
<1>4. /\ \A i \in DOMAIN up[n] : IsData(up[n][i], c) => up[n][i].nth \in 1 .. read[c]
      /\ \A i \in DOMAIN down[n] : IsData(down[n][i], c) => down[n][i].nth \in 1 .. back[c]
  BY <1>3 DEF UpMessage, DownMessage, IsData
<1> QED
  BY <1>1, <1>4 DEF DataIn

-----------------------------------------------------------------------------
(* The data on its way to the remote server.  First the steps that leave   *)
(* it alone.                                                               *)
LEMMA UpUntouched ==
  ASSUME FlowIInv, SessionIInv', Grows, UNCHANGED <<up, toHost, read>>,
         \A n \in Links :
           /\ link'[n] = "up" => link[n] = "up"
           /\ link'[n] = "none" => link[n] = "none" /\ far'[n] = far[n]
           /\ far'[n] # "closed" => far[n] # "closed"
           /\ far'[n] = "none" => far[n] = "none",
         \A n \in Links, o \in Owners : remote'[n][o] = "none" <=> remote[n][o] = "none",
         \A n \in Links, s \in Sessions, c \in Conns :
           farTable'[n][s] = c => farTable[n][s] = c,
         \A c \in Conns : local[c] \in Begun => local'[c] \in Begun,
         \A c \in Conns : back'[c] = back[c] \/ \E n \in Links : remote[n][c] # "none"
  PROVE  UpInv'
<1>1. SessionIInv /\ UpInv /\ Conns \subseteq Owners
  BY DEF FlowIInv, Owners
<1>2. Unmade'
  BY <1>1 DEF UpInv, Unmade
<1>3. StartsOnce'
  BY <1>1 DEF UpInv, StartsOnce
<1>4. OneHome'
  BY <1>1 DEF UpInv, OneHome
<1>5. Silent'
  <2>1. ASSUME NEW c \in Conns, local'[c] \notin Begun
        PROVE  read'[c] = 0 /\ \A n \in Links : remote'[n][c] = "none"
    BY <1>1, <2>1 DEF UpInv, Silent
  <2>2. ASSUME NEW c \in Conns, \A n \in Links : remote'[n][c] = "none"
        PROVE  toHost'[c] = <<>> /\ back'[c] = 0
    BY <1>1, <2>2 DEF UpInv, Silent
  <2> QED
    BY <2>1, <2>2 DEF Silent
<1>6. HandedUp'
  BY <1>1, OwnBefore DEF UpInv, HandedUp
<1>7. UpOrder'
  <2>1. ASSUME NEW c \in Conns, NEW n \in Links, Own(c)', session'[c] # 0, Feeds(n, c)'
        PROVE  /\ Ordered(up[n], c, Len(toHost[c]))
               /\ StartFirst(up[n], c)
               /\ link'[n] = "up" /\ far'[n] # "closed" => All(up[n], c, Len(toHost[c]), read[c])
    <3>1. Own(c)
      BY <2>1, OwnBefore
    <3>2. session'[c] \in Sessions
      BY <1>1, <2>1 DEF SessionIInv, TypeOK
    <3>3. farTable[n][session'[c]] = c \/ StartIn(up[n], c)
      BY <2>1, <3>2 DEF Feeds
    <3>4. session[c] # 0 /\ Feeds(n, c)
      BY <1>1, <3>2, <3>3, FedBefore DEF UpInv
    <3> QED
      BY <1>1, <3>1, <3>4 DEF UpInv, UpOrder
  <2> QED
    BY <2>1 DEF UpOrder
<1> QED
  BY <1>2, <1>3, <1>4, <1>5, <1>6, <1>7 DEF UpInv

(* A request of the local server: START, a chunk, or another message.      *)
LEMMA UpRequested ==
  ASSUME FlowIInv, SessionIInv', Grows, NEW m \in Message, LocalRequests(m),
         UNCHANGED <<far, farTable, remote, toHost, back>>,
         \A c \in Conns : local[c] \in Begun => local'[c] \in Begun,
         \A c \in Conns : IsStart(m, c) => local[c] \notin Begun /\ local'[c] \in Begun,
         \A c \in Conns : IF IsData(m, c)
                          THEN /\ local[c] \in Begun
                               /\ m.nth = read[c] + 1 /\ read'[c] = read[c] + 1
                          ELSE read'[c] = read[c]
  PROVE  LinksInOrder' /\ UpInv'
<1> DEFINE z == Carrier
<1>1. /\ SessionIInv /\ UpInv /\ Conns \subseteq Owners /\ TypeOK /\ LinksInOrder
      /\ Unmade /\ StartsOnce /\ OneHome /\ Silent /\ UpOrder /\ HandedUp
  BY DEF FlowIInv, UpInv, SessionIInv, Owners
<1>2. /\ LinksInOrder'
      /\ z \in Links /\ link[z] \in {"none", "up"}
      /\ \A p \in Links \ {z} : link'[p] = link[p] /\ link[p] # "up" /\ up'[p] = up[p]
      /\ far[z] = "closed" => up'[z] = up[z]
      /\ far[z] # "closed" => up'[z] = Append(up[z], m)
      /\ link'[z] = "up"
  BY <1>1, CarrierTakes
<1> HIDE DEF z
<1>3. \A c \in Conns, n \in Links :
        /\ up[n] \in Seq(Message)
        /\ \A i \in DOMAIN up[n] : IsData(up[n][i], c) => up[n][i].nth <= read[c]
        /\ read[c] = 0 => ~ DataIn(up[n], c)
        /\ read[c] \in Nat
  BY <1>1, DataWasRead
<1>4. \A c \in Conns, n \in Links :
        StartIn(up'[n], c) => StartIn(up[n], c) \/ (IsStart(m, c) /\ n = z)
  <2>1. ASSUME NEW c \in Conns
        PROVE  /\ StartIn(Append(up[z], m), c) <=> StartIn(up[z], c) \/ IsStart(m, c)
    <3>1. up[z] \in Seq(Message)
      BY <1>2, <1>3
    <3> QED
      BY <3>1, AppendStarts
  <2> QED
    BY <1>2, <2>1
<1>5. Unmade'
  BY <1>1, <1>2 DEF Unmade
<1>6. OneHome'
  BY <1>1 DEF OneHome
<1>7. Silent'
  <2>1. ASSUME NEW c \in Conns, local'[c] \notin Begun
        PROVE  read'[c] = 0 /\ \A n \in Links : remote'[n][c] = "none"
    BY <1>1, <2>1 DEF Silent
  <2> QED
    BY <1>1, <2>1 DEF Silent
<1>8. StartsOnce'
  <2>1. ASSUME NEW c \in Conns, NEW n \in Links
        PROVE  Once(up'[n], c)
    <3>1. Once(up[n], c) /\ ~ (StartIn(up[n], c) /\ IsStart(m, c))
      BY <1>1 DEF StartsOnce
    <3>2. up[n] \in Seq(Message)
      BY <1>3
    <3>3. Once(Append(up[n], m), c)
      BY <3>1, <3>2, AppendStarts
    <3>4. up'[n] = up[n] \/ up'[n] = Append(up[n], m)
      BY <1>2
    <3> QED
      BY <3>1, <3>3, <3>4
  <2>2. ASSUME NEW c \in Conns, NEW n \in Links, StartIn(up'[n], c)
        PROVE  /\ local'[c] \in Begun
               /\ \A p \in Links : remote[p][c] = "none" /\ (StartIn(up'[p], c) => p = n)
    <3>1. CASE StartIn(up[n], c)
      BY <1>1, <1>4, <3>1 DEF StartsOnce
    <3>2. CASE IsStart(m, c) /\ n = z
      BY <1>1, <1>4, <3>2 DEF StartsOnce, Silent
    <3> QED
      BY <1>4, <2>2, <3>1, <3>2
  <2> QED
    BY <2>1, <2>2 DEF StartsOnce
<1>9. HandedUp'
  <2>1. ASSUME NEW c \in Conns, Own(c)'
        PROVE  Begins(toHost[c], c, read'[c])
    <3>1. Begins(toHost[c], c, read[c])
      BY <1>1, <2>1, OwnBefore DEF HandedUp
    <3>2. Len(toHost[c]) \in Nat /\ read[c] \in Nat /\ read[c] <= read'[c] /\ read'[c] \in Nat
      BY <1>1, <1>3, LenProperties DEF Grows, TypeOK
    <3> QED
      BY <3>1, <3>2 DEF Begins
  <2> QED
    BY <2>1 DEF HandedUp
<1>10. UpOrder'
  <2> SUFFICES ASSUME NEW c \in Conns, NEW n \in Links, Own(c)', session'[c] # 0, Feeds(n, c)'
      PROVE  /\ Ordered(up'[n], c, Len(toHost[c]))
             /\ StartFirst(up'[n], c)
             /\ link'[n] = "up" /\ far[n] # "closed" => All(up'[n], c, Len(toHost[c]), read'[c])
    BY DEF UpOrder
  <2> DEFINE k == Len(toHost[c])
             q == up[n]
  <2>1. k \in Nat /\ read[c] \in Nat /\ q \in Seq(Message)
    BY <1>1, <1>3, LenProperties DEF TypeOK
  <2>2. session'[c] \in Sessions
    BY <1>1 DEF SessionIInv, TypeOK
  <2>3. farTable[n][session'[c]] = c \/ StartIn(up'[n], c)
    BY DEF Feeds
  <2>4. Own(c) /\ Begins(toHost[c], c, read[c])
    BY <1>1, OwnBefore DEF HandedUp
  <2>5. CASE IsStart(m, c) /\ n = z /\ far[z] # "closed"
    <3>1. read[c] = 0 /\ toHost[c] = <<>> /\ read'[c] = 0
      BY <1>1, <2>5 DEF Silent, IsStart, IsData
    <3>2. ~ DataIn(q, c)
      BY <1>3, <3>1
    <3>3. up'[n] = Append(q, m) /\ up'[n] \in Seq(Message)
      <4>1. Append(q, m) \in Seq(Message)
        BY <2>1, Appended
      <4> QED
        BY <1>2, <2>5, <4>1
    <3>4. ~ DataIn(up'[n], c)
      BY <2>1, <2>5, <3>2, <3>3, AppendStarts DEF IsStart, IsData
    <3>5. k = 0 /\ 0 \in Nat /\ 0 <= 0
      BY <3>1
    <3>6. /\ Ordered(up'[n], c, 0) /\ StartFirst(up'[n], c)
          /\ \A l \in Nat : l <= 0 => All(up'[n], c, 0, l)
      BY <3>3, <3>4, <3>5, NoDataFlow
    <3> QED
      BY <3>1, <3>5, <3>6
  <2>6. CASE ~ (IsStart(m, c) /\ n = z /\ far[z] # "closed")
    <3>1. StartIn(up'[n], c) => StartIn(q, c)
      BY <1>2, <1>4, <2>6
    <3>2. session[c] # 0 /\ Feeds(n, c)
      BY <1>1, <2>2, <2>3, <3>1, FedBefore
    <3>3. /\ Ordered(q, c, k)
          /\ StartFirst(q, c)
          /\ link[n] = "up" /\ far[n] # "closed" => All(q, c, k, read[c])
      BY <1>1, <2>4, <3>2 DEF UpOrder
    <3>4. CASE n # z \/ far[z] = "closed"
      BY <1>2, <3>3, <3>4
    <3>5. CASE n = z /\ far[z] # "closed"
      <4>1. up'[n] = Append(q, m) /\ ~ IsStart(m, c)
        BY <1>2, <2>6, <3>5
      <4>2. StartFirst(up'[n], c)
        BY <2>1, <3>3, <4>1, AppendStarts
      <4>3. link[n] # "none"
        <5>1. StartIn(q, c) => q # <<>>
          BY EmptyFlow
        <5>2. farTable[n][session[c]] = c => remote[n][c] # "none"
          BY <1>1, <3>2, FedFromOne
        <5> QED
          BY <1>1, <3>2, <5>1, <5>2 DEF Unmade, Feeds
      <4>4. All(q, c, k, read[c])
        BY <1>2, <3>3, <3>5, <4>3
      <4>5. CASE IsData(m, c)
        <5>1. k <= read[c] /\ m.nth = read[c] + 1 /\ read'[c] = read[c] + 1
          BY <2>4, <4>5 DEF Begins
        <5>2. \A i \in DOMAIN q : IsData(q[i], c) => q[i].nth <= read[c]
          BY <1>3
        <5>3. Ordered(Append(q, m), c, k) /\ All(Append(q, m), c, k, read[c] + 1)
          <6> HIDE DEF k, q
          <6> QED
            BY <2>1, <3>3, <4>4, <4>5, <5>1, <5>2, AppendNext
        <5> QED
          BY <4>1, <4>2, <5>1, <5>3
      <4>6. CASE ~ IsData(m, c)
        <5>1. Ordered(Append(q, m), c, k) /\ All(Append(q, m), c, k, read[c])
          <6> HIDE DEF k, q
          <6> QED
            BY <2>1, <3>3, <4>4, <4>6, AppendOther
        <5> QED
          BY <4>1, <4>2, <4>6, <5>1
      <4> QED
        BY <4>5, <4>6
    <3> QED
      BY <3>4, <3>5
  <2> QED
    BY <2>5, <2>6
<1> QED
  BY <1>2, <1>5, <1>6, <1>7, <1>8, <1>9, <1>10 DEF UpInv

(* A remote manager takes the first message of its link.                   *)
(* Manager n takes message m off its link.                                 *)
TakenUp(n, m) ==
  /\ up[n] # <<>> /\ far[n] # "none"
  /\ m = Head(up[n]) /\ up' = [up EXCEPT ![n] = Tail(@)]
  /\ UNCHANGED <<session, local, link, far, read, back>>
  /\ \A p \in Links \ {n} : farTable'[p] = farTable[p] /\ remote'[p] = remote[p]
  /\ \A c \in Conns : remote'[n][c] # "none" <=> remote[n][c] # "none" \/ IsStart(m, c)
  /\ \A c \in Conns : toHost'[c] = toHost[c] \/ remote[n][c] # "none"
  /\ \A c \in Conns : Own(c) /\ session[c] # 0 =>
       /\ farTable'[n][session[c]] = c => IsStart(m, c) \/ farTable[n][session[c]] = c
       /\ \/ /\ toHost'[c] = toHost[c]
             /\ IsData(m, c) => farTable'[n][session[c]] # c
          \/ /\ IsData(m, c) /\ farTable[n][session[c]] = c
             /\ toHost'[c] = Append(toHost[c], [of |-> c, nth |-> m.nth])

LEMMA UpPopped ==
  ASSUME FlowIInv, SessionIInv', NEW n \in Links, NEW m, TakenUp(n, m)
  PROVE  UpInv'
<1> USE DEF TakenUp
<1>1. /\ SessionIInv /\ UpInv /\ Conns \subseteq Owners /\ TypeOK
      /\ Unmade /\ StartsOnce /\ OneHome /\ Silent /\ UpOrder /\ HandedUp
  BY DEF FlowIInv, UpInv, SessionIInv, Owners
<1>2. /\ \A p \in Links : up[p] \in Seq(Message)
      /\ up'[n] = Tail(up[n]) /\ \A p \in Links \ {n} : up'[p] = up[p]
      /\ \A c \in Conns : toHost[c] \in Seq(Chunk) /\ Len(toHost[c]) \in Nat
  BY <1>1, LenProperties DEF TypeOK
<1>3. \A c \in Conns :
        /\ StartIn(up'[n], c) => StartIn(up[n], c)
        /\ IsStart(m, c) => StartIn(up[n], c) /\ ~ StartIn(up'[n], c)
        /\ Once(up'[n], c)
  BY <1>1, <1>2, TailStarts DEF StartsOnce
<1>4. \A c \in Conns, p \in Links : StartIn(up'[p], c) => StartIn(up[p], c)
  BY <1>2, <1>3
<1>5. Unmade'
  BY <1>1, <1>2 DEF Unmade
<1>6. \A c \in Conns : IsStart(m, c) =>
        /\ local[c] \in Begun
        /\ \A p \in Links : remote[p][c] = "none" /\ (StartIn(up[p], c) => p = n)
  BY <1>1, <1>3 DEF StartsOnce
<1>7. StartsOnce'
  <2>1. ASSUME NEW c \in Conns, NEW p \in Links
        PROVE  Once(up'[p], c)
    BY <1>1, <1>2, <1>3 DEF StartsOnce
  <2>2. ASSUME NEW c \in Conns, NEW p \in Links, StartIn(up'[p], c)
        PROVE  /\ local[c] \in Begun
               /\ \A x \in Links : remote'[x][c] = "none" /\ (StartIn(up'[x], c) => x = p)
    <3>1. ~ IsStart(m, c)
      BY <1>3, <1>4, <1>6, <2>2
    <3>2. StartIn(up[p], c)
      BY <1>4, <2>2
    <3>3. \A x \in Links : remote[x][c] = "none" /\ (StartIn(up[x], c) => x = p)
      BY <1>1, <3>2 DEF StartsOnce
    <3>4. \A x \in Links : remote'[x][c] = "none"
      BY <3>1, <3>3
    <3> QED
      BY <1>1, <1>4, <3>2, <3>3, <3>4 DEF StartsOnce
  <2> QED
    BY <2>1, <2>2 DEF StartsOnce
<1>8. OneHome'
  BY <1>1, <1>6 DEF OneHome
<1>9. Silent'
  <2>1. ASSUME NEW c \in Conns, local[c] \notin Begun
        PROVE  read[c] = 0 /\ \A p \in Links : remote'[p][c] = "none"
    BY <1>1, <1>6, <2>1 DEF Silent
  <2>2. ASSUME NEW c \in Conns, \A p \in Links : remote'[p][c] = "none"
        PROVE  toHost'[c] = <<>> /\ back[c] = 0
    BY <1>1, <2>2 DEF Silent
  <2> QED
    BY <2>1, <2>2 DEF Silent
<1>10. \A c \in Conns : Own(c)' <=> Own(c)
  BY DEF Own
<1>11. ASSUME NEW c \in Conns, NEW p \in Links, Own(c), session[c] # 0, Feeds(p, c)'
       PROVE  Feeds(p, c)
  <2>1. farTable'[p][session[c]] = c => farTable[p][session[c]] = c \/ StartIn(up[p], c)
    BY <1>3, <1>11
  <2> QED
    BY <1>4, <1>11, <2>1 DEF Feeds
<1>12. ASSUME NEW c \in Conns, Own(c), session[c] # 0, toHost'[c] # toHost[c]
       PROVE  /\ IsData(m, c) /\ Feeds(n, c)
              /\ toHost'[c] = Append(toHost[c], [of |-> c, nth |-> m.nth])
              /\ m.nth = Len(toHost[c]) + 1
              /\ m.nth <= read[c]
  <2>1. /\ IsData(m, c) /\ Feeds(n, c)
        /\ toHost'[c] = Append(toHost[c], [of |-> c, nth |-> m.nth])
    BY <1>12 DEF Feeds
  <2>2. Ordered(up[n], c, Len(toHost[c]))
    BY <1>1, <1>12, <2>1 DEF UpOrder
  <2>3. m.nth = Len(toHost[c]) + 1
    BY <1>2, <2>1, <2>2, TailNext
  <2>4. m.nth <= read[c]
    BY <1>1, <1>2, <2>1, Popped, DataWasRead
  <2> QED
    BY <2>1, <2>3, <2>4
<1>13. HandedUp'
  <2>1. ASSUME NEW c \in Conns, Own(c)
        PROVE  Begins(toHost'[c], c, read[c])
    <3>1. Begins(toHost[c], c, read[c])
      BY <1>1, <2>1 DEF HandedUp
    <3>2. CASE toHost'[c] = toHost[c]
      BY <3>1, <3>2
    <3>3. CASE toHost'[c] # toHost[c]
      <4>1. session[c] # 0
        BY <1>1, <3>3 DEF SessionIInv, FarAgrees, Agrees
      <4>2. /\ toHost'[c] = Append(toHost[c], [of |-> c, nth |-> m.nth])
            /\ m.nth = Len(toHost[c]) + 1 /\ m.nth <= read[c]
        BY <1>12, <2>1, <3>3, <4>1
      <4> DEFINE h == toHost[c]
                 x == [of |-> c, nth |-> m.nth]
      <4>3. h \in Seq(Chunk \cup {x}) /\ x \in Chunk \cup {x}
        BY <1>2, SeqMonotonic
      <4>4. /\ Len(Append(h, x)) = Len(h) + 1
            /\ \A i \in 1 .. Len(h) : Append(h, x)[i] = h[i]
            /\ Append(h, x)[Len(h) + 1] = x
        <5> HIDE DEF h, x
        <5> QED
          BY <4>3, AppendProperties
      <4>5. x = [of |-> c, nth |-> Len(h) + 1] /\ Len(h) \in Nat
        BY <1>2, <4>2
      <4>6. \A i \in 1 .. Len(h) + 1 : i \in 1 .. Len(h) \/ i = Len(h) + 1
        BY <4>5
      <4>7. Len(h) + 1 <= read[c] /\ Begins(h, c, read[c])
        BY <3>1, <4>2
      <4> HIDE DEF h, x
      <4>8. Begins(Append(h, x), c, read[c])
        BY <4>4, <4>5, <4>6, <4>7 DEF Begins
      <4> QED
        BY <4>2, <4>8 DEF h, x
    <3> QED
      BY <3>2, <3>3
  <2> QED
    BY <1>10, <2>1 DEF HandedUp
<1>14. UpOrder'
  <2> SUFFICES ASSUME NEW c \in Conns, NEW p \in Links, Own(c), session[c] # 0, Feeds(p, c)'
      PROVE  /\ Ordered(up'[p], c, Len(toHost'[c]))
             /\ StartFirst(up'[p], c)
             /\ link[p] = "up" /\ far[p] # "closed" => All(up'[p], c, Len(toHost'[c]), read[c])
    BY <1>10 DEF UpOrder
  <2> DEFINE k == Len(toHost[c])
             q == up[p]
  <2>1. Feeds(p, c)
    BY <1>11
  <2>2. /\ Ordered(q, c, k)
        /\ StartFirst(q, c)
        /\ link[p] = "up" /\ far[p] # "closed" => All(q, c, k, read[c])
    BY <1>1, <2>1 DEF UpOrder
  <2>3. q \in Seq(Message) /\ k \in Nat
    BY <1>2
  <2>4. CASE p # n
    <3>1. toHost'[c] = toHost[c]
      BY <1>1, <1>12, <2>1, <2>4, FedFromOne
    <3> QED
      BY <1>2, <2>2, <2>4, <3>1
  <2>5. CASE p = n /\ IsData(m, c)
    <3>1. ~ StartIn(q, c)
      BY <2>2, <2>3, <2>5, TailStarts
    <3>2. ~ StartIn(up'[p], c)
      BY <1>4, <3>1
    <3>3. farTable'[p][session[c]] = c
      BY <3>2 DEF Feeds
    <3>4. toHost'[c] = Append(toHost[c], [of |-> c, nth |-> m.nth])
      BY <2>5, <3>3
    <3>5. Len(toHost'[c]) = k + 1
      <4>1. toHost[c] \in Seq(Chunk \cup {[of |-> c, nth |-> m.nth]})
        BY <1>2, SeqMonotonic
      <4> QED
        BY <3>4, <4>1, AppendProperties
    <3>6. /\ Ordered(Tail(q), c, k + 1)
          /\ \A l : All(q, c, k, l) => All(Tail(q), c, k + 1, l)
          /\ StartFirst(Tail(q), c)
      <4>1. q # <<>> /\ IsData(Head(q), c)
        BY <2>5
      <4> HIDE DEF q, k
      <4> QED
        BY <2>2, <2>3, <4>1, TailNext, TailStarts
    <3>7. up'[p] = Tail(q)
      BY <1>2, <2>5
    <3> QED
      BY <2>2, <3>5, <3>6, <3>7
  <2>6. CASE p = n /\ ~ IsData(m, c)
    <3>1. toHost'[c] = toHost[c]
      BY <2>6
    <3>2. /\ Ordered(Tail(q), c, k)
          /\ \A l : All(q, c, k, l) => All(Tail(q), c, k, l)
          /\ StartFirst(Tail(q), c)
      <4>1. q # <<>> /\ ~ IsData(Head(q), c)
        BY <2>6
      <4> HIDE DEF q, k
      <4> QED
        BY <2>2, <2>3, <4>1, TailOther, TailStarts
    <3>3. up'[p] = Tail(q)
      BY <1>2, <2>6
    <3> QED
      BY <2>2, <3>1, <3>2, <3>3
  <2> QED
    BY <2>4, <2>5, <2>6
<1> QED
  BY <1>5, <1>7, <1>8, <1>9, <1>13, <1>14 DEF UpInv

(* The remote server closes a link and what it carries is lost.            *)
LEMMA UpCleared ==
  ASSUME FlowIInv, SessionIInv', NEW n \in Links, FarCloses(n)
  PROVE  UpInv'
<1>1. /\ SessionIInv /\ UpInv /\ Conns \subseteq Owners /\ TypeOK
      /\ Unmade /\ StartsOnce /\ OneHome /\ Silent /\ UpOrder /\ HandedUp
  BY DEF FlowIInv, UpInv, SessionIInv, Owners
<1>2. /\ far[n] = "stopped" /\ far' = [far EXCEPT ![n] = "closed"]
      /\ up' = [up EXCEPT ![n] = <<>>]
      /\ UNCHANGED <<sides, link, down, farSides, histories>>
  BY DEF FarCloses
<1>3. /\ UNCHANGED <<session, local, farTable, remote, read, back, toHost>>
      /\ link' = link
  BY <1>2 DEF sides, farSides, histories
<1>4. /\ up'[n] = <<>> /\ \A p \in Links \ {n} : up'[p] = up[p]
      /\ far'[n] = "closed" /\ \A p \in Links \ {n} : far'[p] = far[p]
  BY <1>1, <1>2 DEF TypeOK
<1>5. \A c \in Conns : ~ StartIn(<<>>, c) /\ Once(<<>>, c) /\ StartFirst(<<>>, c)
  BY EmptyFlow
<1>6. \A c \in Conns, p \in Links : StartIn(up'[p], c) => StartIn(up[p], c)
  BY <1>4, <1>5
<1>7. Unmade' /\ OneHome' /\ Silent'
  BY <1>1, <1>2, <1>3, <1>4 DEF Unmade, OneHome, Silent
<1>8. StartsOnce'
  <2>1. \A c \in Conns, p \in Links : Once(up'[p], c)
    BY <1>1, <1>4, <1>5 DEF StartsOnce
  <2> QED
    BY <1>1, <1>3, <1>6, <2>1 DEF StartsOnce
<1>9. \A c \in Conns : Own(c)' <=> Own(c)
  BY <1>3 DEF Own
<1>10. HandedUp'
  BY <1>1, <1>3, <1>9 DEF HandedUp
<1>11. UpOrder'
  <2>1. ASSUME NEW c \in Conns, NEW p \in Links, Own(c), session[c] # 0, Feeds(p, c)'
        PROVE  /\ Ordered(up'[p], c, Len(toHost[c]))
               /\ StartFirst(up'[p], c)
               /\ link[p] = "up" /\ far'[p] # "closed" =>
                    All(up'[p], c, Len(toHost[c]), read[c])
    <3>1. Feeds(p, c)
      BY <1>3, <1>6, <2>1 DEF Feeds
    <3>2. Len(toHost[c]) \in Nat
      BY <1>1, LenProperties DEF TypeOK
    <3>3. CASE p = n
      BY <1>4, <1>5, <3>2, <3>3, EmptyFlow
    <3>4. CASE p # n
      BY <1>1, <1>4, <2>1, <3>1, <3>4 DEF UpOrder
    <3> QED
      BY <3>3, <3>4
  <2> QED
    BY <1>3, <1>9, <2>1 DEF UpOrder
<1> QED
  BY <1>7, <1>8, <1>10, <1>11 DEF UpInv

-----------------------------------------------------------------------------
(* The data on its way back, seen by the same eyes.  A new relay at the    *)
(* remote server is one that has read nothing.                             *)
LEMMA DownUntouched ==
  ASSUME FlowIInv, SessionIInv', Grows, UNCHANGED <<down, toClient, back>>,
         \A n \in Links : link'[n] # "closed" /\ far'[n] = "up" =>
           link[n] # "closed" /\ far[n] \in {"up", "none"},
         \A n \in Links, c \in Conns : remote[n][c] # "none" => remote'[n][c] # "none",
         \A n \in Links, c \in Conns : remote[n][c] = "none" /\ remote'[n][c] # "none" =>
           \A p \in Links : remote[p][c] = "none",
         \A c \in Conns : table'[session'[c]] = c /\ session'[c] # 0 =>
           \/ session'[c] = session[c] /\ table[session[c]] = c
           \/ \A n \in Links : remote'[n][c] = "none"
  PROVE  DownInv'
<1>1. /\ SessionIInv /\ Conns \subseteq Owners /\ TypeOK
      /\ Unmade /\ Silent /\ DownOrder /\ HandedDown
  BY DEF FlowIInv, UpInv, DownInv, SessionIInv, Owners
<1>2. HandedDown'
  BY <1>1, OwnBefore DEF HandedDown
<1>3. DownOrder'
  <2>1. ASSUME NEW c \in Conns, NEW n \in Links, DataIn(down[n], c)
        PROVE  remote'[n][c] # "none"
    BY <1>1, <2>1 DEF DownOrder
  <2>2. ASSUME NEW c \in Conns, NEW n \in Links, Own(c)', table'[session'[c]] = c,
               remote'[n][c] # "none"
        PROVE  /\ Ordered(down[n], c, Len(toClient[c]))
               /\ link'[n] # "closed" /\ far'[n] = "up" =>
                    All(down[n], c, Len(toClient[c]), back[c])
    <3>1. Own(c) /\ c \in Owners
      BY <1>1, <2>2, OwnBefore
    <3>2. session'[c] # 0
      BY <2>2, <3>1 DEF SessionIInv, FarAgrees, Agrees
    <3>3. table[session[c]] = c
      BY <2>2, <3>2
    <3>4. down[n] \in Seq(Message) /\ Len(toClient[c]) \in Nat
      BY <1>1, LenProperties DEF TypeOK
    <3>5. CASE remote[n][c] # "none"
      <4>1. /\ Ordered(down[n], c, Len(toClient[c]))
            /\ link[n] # "closed" /\ far[n] = "up" =>
                 All(down[n], c, Len(toClient[c]), back[c])
        BY <1>1, <3>1, <3>3, <3>5 DEF DownOrder
      <4>2. far[n] # "none"
        BY <1>1, <3>1, <3>5 DEF Unmade
      <4> QED
        BY <4>1, <4>2
    <3>6. CASE remote[n][c] = "none"
      <4>1. ~ DataIn(down[n], c) /\ back[c] = 0
        BY <1>1, <2>2, <3>6 DEF DownOrder, Silent
      <4>2. 0 \in Nat /\ 0 <= Len(toClient[c])
        BY <3>4
      <4> QED
        BY <3>4, <4>1, <4>2, NoDataFlow
    <3> QED
      BY <3>5, <3>6
  <2> QED
    BY <2>1, <2>2 DEF DownOrder
<1> QED
  BY <1>2, <1>3 DEF DownInv

(* A request of a remote manager: a chunk of a connection, or STOP.        *)
LEMMA DownRequested ==
  ASSUME FlowIInv, SessionIInv', Grows, NEW n \in Links, NEW m \in Message,
         \/ /\ far[n] = "up" /\ link[n] # "closed"
            /\ down' = [down EXCEPT ![n] = Append(@, m)]
         \/ /\ far[n] # "up" \/ link[n] = "closed"
            /\ down' = down,
         UNCHANGED <<session, table, link, far, toClient>>,
         \A p \in Links, c \in Conns : remote'[p][c] = "none" <=> remote[p][c] = "none",
         \A c \in Conns : IF IsData(m, c)
                          THEN /\ remote[n][c] # "none"
                               /\ m.nth = back[c] + 1 /\ back'[c] = back[c] + 1
                          ELSE back'[c] = back[c]
  PROVE  DownInv'
<1>1. /\ SessionIInv /\ Conns \subseteq Owners /\ TypeOK
      /\ OneHome /\ DownOrder /\ HandedDown
  BY DEF FlowIInv, UpInv, DownInv, SessionIInv, Owners
<1>2. \A c \in Conns, p \in Links :
        /\ down[p] \in Seq(Message) /\ Len(toClient[c]) \in Nat
        /\ \A i \in DOMAIN down[p] : IsData(down[p][i], c) => down[p][i].nth <= back[c]
        /\ back[c] \in Nat
  BY <1>1, DataWasRead, LenProperties DEF TypeOK
<1>3. \A c \in Conns : Own(c)' <=> Own(c)
  BY DEF Own
<1>4. HandedDown'
  <2>1. ASSUME NEW c \in Conns, Own(c)
        PROVE  Begins(toClient[c], c, back'[c])
    <3>1. Begins(toClient[c], c, back[c])
      BY <1>1, <2>1 DEF HandedDown
    <3>2. Len(toClient[c]) \in Nat /\ back[c] \in Nat /\ back[c] <= back'[c] /\ back'[c] \in Nat
      BY <1>2 DEF Grows
    <3> QED
      BY <3>1, <3>2 DEF Begins
  <2> QED
    BY <1>3, <2>1 DEF HandedDown
<1>5. \A p \in Links : down'[p] = down[p] \/ (p = n /\ down'[p] = Append(down[p], m))
  BY <1>1 DEF TypeOK
<1>6. DownOrder'
  <2>1. ASSUME NEW c \in Conns, NEW p \in Links, DataIn(down'[p], c)
        PROVE  remote'[p][c] # "none"
    <3>1. CASE DataIn(down[p], c)
      BY <1>1, <3>1 DEF DownOrder
    <3>2. CASE ~ DataIn(down[p], c)
      <4>1. p = n /\ DataIn(Append(down[p], m), c)
        BY <1>5, <2>1, <3>2
      <4>2. IsData(m, c)
        BY <1>2, <3>2, <4>1, AppendStarts
      <4> QED
        BY <4>1, <4>2
    <3> QED
      BY <3>1, <3>2
  <2>2. ASSUME NEW c \in Conns, NEW p \in Links, Own(c), table[session[c]] = c,
               remote[p][c] # "none"
        PROVE  /\ Ordered(down'[p], c, Len(toClient[c]))
               /\ link[p] # "closed" /\ far[p] = "up" =>
                    All(down'[p], c, Len(toClient[c]), back'[c])
    <3> DEFINE k == Len(toClient[c])
               q == down[p]
    <3>1. /\ Ordered(q, c, k)
          /\ link[p] # "closed" /\ far[p] = "up" => All(q, c, k, back[c])
      BY <1>1, <2>2 DEF DownOrder
    <3>2. q \in Seq(Message) /\ k \in Nat /\ back[c] \in Nat
      BY <1>2
    <3>3. CASE IsData(m, c)
      <4>1. p = n
        BY <1>1, <2>2, <3>3 DEF OneHome
      <4>2. CASE far[n] # "up" \/ link[n] = "closed"
        <5>1. down'[p] = q
          BY <4>2
        <5> QED
          BY <3>1, <4>1, <4>2, <5>1
      <4>3. CASE far[n] = "up" /\ link[n] # "closed"
        <5>1. down'[p] = Append(q, m) /\ All(q, c, k, back[c])
          BY <1>1, <3>1, <4>1, <4>3 DEF TypeOK
        <5>2. k <= back[c] /\ m.nth = back[c] + 1 /\ back'[c] = back[c] + 1
          BY <1>1, <2>2, <3>3 DEF HandedDown, Begins
        <5>3. \A i \in DOMAIN q : IsData(q[i], c) => q[i].nth <= back[c]
          BY <1>2
        <5>4. Ordered(Append(q, m), c, k) /\ All(Append(q, m), c, k, back[c] + 1)
          <6> HIDE DEF q, k
          <6> QED
            BY <3>1, <3>2, <3>3, <5>1, <5>2, <5>3, AppendNext
        <5> QED
          BY <5>1, <5>2, <5>4
      <4> QED
        BY <4>2, <4>3
    <3>4. CASE ~ IsData(m, c)
      <4>1. /\ Ordered(Append(q, m), c, k)
            /\ \A l : All(q, c, k, l) => All(Append(q, m), c, k, l)
        <5> HIDE DEF q, k
        <5> QED
          BY <3>1, <3>2, <3>4, AppendOther
      <4>2. back'[c] = back[c]
        BY <3>4
      <4> QED
        BY <1>5, <3>1, <4>1, <4>2
    <3> QED
      BY <3>3, <3>4
  <2> QED
    BY <1>3, <2>1, <2>2 DEF DownOrder
<1> QED
  BY <1>4, <1>6 DEF DownInv

(* The local manager takes the first message of a link.                    *)
LEMMA DownPopped ==
  ASSUME FlowIInv, SessionIInv', NEW n \in Links, down[n] # <<>>,
         NEW m, m = Head(down[n]), down' = [down EXCEPT ![n] = Tail(@)],
         UNCHANGED <<session, far, remote, back>>,
         \A p \in Links : link'[p] # "closed" => link[p] # "closed",
         \A c \in Conns : toClient'[c] = toClient[c] \/ session[c] # 0,
         \A c \in Conns : Own(c) /\ session[c] # 0 =>
           /\ table'[session[c]] = c => table[session[c]] = c
           /\ \/ /\ toClient'[c] = toClient[c]
                 /\ IsData(m, c) => table'[session[c]] # c
              \/ /\ IsData(m, c) /\ table[session[c]] = c
                 /\ toClient'[c] = Append(toClient[c], [of |-> c, nth |-> m.nth])
  PROVE  DownInv'
<1>1. /\ SessionIInv /\ Conns \subseteq Owners /\ TypeOK
      /\ OneHome /\ DownOrder /\ HandedDown
  BY DEF FlowIInv, UpInv, DownInv, SessionIInv, Owners
<1>2. /\ \A p \in Links : down[p] \in Seq(Message)
      /\ down'[n] = Tail(down[n]) /\ \A p \in Links \ {n} : down'[p] = down[p]
      /\ \A c \in Conns : toClient[c] \in Seq(Chunk) /\ Len(toClient[c]) \in Nat
  BY <1>1, LenProperties DEF TypeOK
<1>3. \A c \in Conns : Own(c)' <=> Own(c)
  BY DEF Own
<1>4. \A c \in Conns : IsData(m, c) => remote[n][c] # "none"
  <2>1. \A c \in Conns : IsData(m, c) => DataIn(down[n], c)
    BY <1>2, TailStarts
  <2> QED
    BY <1>1, <2>1 DEF DownOrder
<1>5. ASSUME NEW c \in Conns, Own(c), session[c] # 0, toClient'[c] # toClient[c]
      PROVE  /\ IsData(m, c) /\ table[session[c]] = c
             /\ toClient'[c] = Append(toClient[c], [of |-> c, nth |-> m.nth])
             /\ m.nth = Len(toClient[c]) + 1
             /\ m.nth <= back[c]
  <2>1. /\ IsData(m, c) /\ table[session[c]] = c
        /\ toClient'[c] = Append(toClient[c], [of |-> c, nth |-> m.nth])
    BY <1>5
  <2>2. Ordered(down[n], c, Len(toClient[c]))
    BY <1>1, <1>4, <1>5, <2>1 DEF DownOrder
  <2>3. m.nth = Len(toClient[c]) + 1
    BY <1>2, <2>1, <2>2, TailNext
  <2>4. m.nth <= back[c]
    BY <1>1, <1>2, <2>1, Popped, DataWasRead
  <2> QED
    BY <2>1, <2>3, <2>4
<1>6. HandedDown'
  <2>1. ASSUME NEW c \in Conns, Own(c)
        PROVE  Begins(toClient'[c], c, back[c])
    <3>1. Begins(toClient[c], c, back[c])
      BY <1>1, <2>1 DEF HandedDown
    <3>2. CASE toClient'[c] = toClient[c]
      BY <3>1, <3>2
    <3>3. CASE toClient'[c] # toClient[c]
      <4>1. /\ toClient'[c] = Append(toClient[c], [of |-> c, nth |-> m.nth])
            /\ m.nth = Len(toClient[c]) + 1 /\ m.nth <= back[c]
        BY <1>5, <2>1, <3>3
      <4> DEFINE h == toClient[c]
                 x == [of |-> c, nth |-> m.nth]
      <4>2. h \in Seq(Chunk \cup {x}) /\ x \in Chunk \cup {x}
        BY <1>2, SeqMonotonic
      <4>3. /\ Len(Append(h, x)) = Len(h) + 1
            /\ \A i \in 1 .. Len(h) : Append(h, x)[i] = h[i]
            /\ Append(h, x)[Len(h) + 1] = x
        <5> HIDE DEF h, x
        <5> QED
          BY <4>2, AppendProperties
      <4>4. x = [of |-> c, nth |-> Len(h) + 1] /\ Len(h) \in Nat
        BY <1>2, <4>1
      <4>5. \A i \in 1 .. Len(h) + 1 : i \in 1 .. Len(h) \/ i = Len(h) + 1
        BY <4>4
      <4>6. Len(h) + 1 <= back[c] /\ Begins(h, c, back[c])
        BY <3>1, <4>1
      <4> HIDE DEF h, x
      <4>7. Begins(Append(h, x), c, back[c])
        BY <4>3, <4>4, <4>5, <4>6 DEF Begins
      <4> QED
        BY <4>1, <4>7 DEF h, x
    <3> QED
      BY <3>2, <3>3
  <2> QED
    BY <1>3, <2>1 DEF HandedDown
<1>7. DownOrder'
  <2>1. ASSUME NEW c \in Conns, NEW p \in Links, DataIn(down'[p], c)
        PROVE  remote[p][c] # "none"
    <3>1. DataIn(down[p], c)
      BY <1>2, <2>1, TailStarts
    <3> QED
      BY <1>1, <3>1 DEF DownOrder
  <2>2. ASSUME NEW c \in Conns, NEW p \in Links, Own(c), table'[session[c]] = c,
               remote[p][c] # "none"
        PROVE  /\ Ordered(down'[p], c, Len(toClient'[c]))
               /\ link'[p] # "closed" /\ far[p] = "up" =>
                    All(down'[p], c, Len(toClient'[c]), back[c])
    <3> DEFINE k == Len(toClient[c])
               q == down[p]
    <3>1. session[c] # 0
      BY <1>1, <2>2 DEF SessionIInv, FarAgrees, Agrees
    <3>2. table[session[c]] = c
      BY <2>2, <3>1
    <3>3. /\ Ordered(q, c, k)
          /\ link[p] # "closed" /\ far[p] = "up" => All(q, c, k, back[c])
      BY <1>1, <2>2, <3>2 DEF DownOrder
    <3>4. q \in Seq(Message) /\ k \in Nat
      BY <1>2
    <3>5. CASE p # n
      <4>1. toClient'[c] = toClient[c]
        BY <1>1, <1>4, <1>5, <2>2, <3>1, <3>5 DEF OneHome
      <4> QED
        BY <1>2, <3>3, <3>5, <4>1
    <3>6. CASE p = n /\ IsData(m, c)
      <4>1. toClient'[c] = Append(toClient[c], [of |-> c, nth |-> m.nth])
        BY <2>2, <3>1, <3>6
      <4>2. Len(toClient'[c]) = k + 1
        <5>1. toClient[c] \in Seq(Chunk \cup {[of |-> c, nth |-> m.nth]})
          BY <1>2, SeqMonotonic
        <5> QED
          BY <4>1, <5>1, AppendProperties
      <4>3. /\ Ordered(Tail(q), c, k + 1)
            /\ \A l : All(q, c, k, l) => All(Tail(q), c, k + 1, l)
        <5>1. q # <<>> /\ IsData(Head(q), c)
          BY <3>6
        <5> HIDE DEF q, k
        <5> QED
          BY <3>3, <3>4, <5>1, TailNext
      <4>4. down'[p] = Tail(q)
        BY <1>2, <3>6
      <4> QED
        BY <3>3, <4>2, <4>3, <4>4
    <3>7. CASE p = n /\ ~ IsData(m, c)
      <4>1. toClient'[c] = toClient[c]
        BY <2>2, <3>1, <3>7
      <4>2. /\ Ordered(Tail(q), c, k)
            /\ \A l : All(q, c, k, l) => All(Tail(q), c, k, l)
        <5>1. q # <<>> /\ ~ IsData(Head(q), c)
          BY <3>7
        <5> HIDE DEF q, k
        <5> QED
          BY <3>3, <3>4, <5>1, TailOther
      <4>3. down'[p] = Tail(q)
        BY <1>2, <3>7
      <4> QED
        BY <3>3, <4>1, <4>2, <4>3
    <3> QED
      BY <3>5, <3>6, <3>7
  <2> QED
    BY <1>3, <2>1, <2>2 DEF DownOrder
<1> QED
  BY <1>6, <1>7 DEF DownInv

(* The local server closes a link and what it carries is lost.             *)
LEMMA DownCleared ==
  ASSUME FlowIInv, SessionIInv', NEW n \in Links, LinkCloses(n)
  PROVE  DownInv'
<1>1. /\ SessionIInv /\ Conns \subseteq Owners /\ TypeOK /\ DownOrder /\ HandedDown
  BY DEF FlowIInv, DownInv, SessionIInv, Owners
<1>2. /\ link' = [link EXCEPT ![n] = "closed"]
      /\ down' = [down EXCEPT ![n] = <<>>]
      /\ UNCHANGED <<session, table, far, remote, back, toClient>>
  BY DEF LinkCloses, sides, farSides, histories
<1>3. /\ down'[n] = <<>> /\ \A p \in Links \ {n} : down'[p] = down[p]
      /\ link'[n] = "closed" /\ \A p \in Links \ {n} : link'[p] = link[p]
  BY <1>1, <1>2 DEF TypeOK
<1>4. \A c \in Conns : Own(c)' <=> Own(c)
  BY <1>2 DEF Own
<1>5. HandedDown'
  BY <1>1, <1>2, <1>4 DEF HandedDown
<1>6. DownOrder'
  <2>1. ASSUME NEW c \in Conns, NEW p \in Links
        PROVE  /\ DataIn(down'[p], c) => remote[p][c] # "none"
               /\ Own(c) /\ table[session[c]] = c /\ remote[p][c] # "none" =>
                    /\ Ordered(down'[p], c, Len(toClient[c]))
                    /\ link'[p] # "closed" /\ far[p] = "up" =>
                         All(down'[p], c, Len(toClient[c]), back[c])
    <3>1. Len(toClient[c]) \in Nat
      BY <1>1, LenProperties DEF TypeOK
    <3>2. CASE p = n
      BY <1>3, <3>1, <3>2, EmptyFlow
    <3>3. CASE p # n
      BY <1>1, <1>3, <3>3 DEF DownOrder
    <3> QED
      BY <3>2, <3>3
  <2> QED
    BY <1>2, <1>4, <2>1 DEF DownOrder
<1> QED
  BY <1>5, <1>6 DEF DownInv

-----------------------------------------------------------------------------
(* The steps of the local server.                                          *)
LEMMA FlowMeets ==
  ASSUME SessionIInv', LinksInOrder', UpInv', DownInv'
  PROVE  FlowIInv'
BY DEF FlowIInv

(* The steps of the local server leave the remote managers alone.          *)
LEMMA DownUntouchedByLocal ==
  ASSUME FlowIInv, SessionIInv', Grows, UNCHANGED <<down, toClient, back, far, remote>>,
         \A n \in Links : link'[n] # "closed" => link[n] # "closed",
         \A c \in Conns : table'[session'[c]] = c /\ session'[c] # 0 =>
           \/ session'[c] = session[c] /\ table[session[c]] = c
           \/ \A n \in Links : remote[n][c] = "none"
  PROVE  DownInv'
BY DownUntouched

LEMMA GrowsByNumber ==
  ASSUME TypeOK, NEW o \in Owners, session[o] = 0, NEW k,
         session' = [session EXCEPT ![o] = k],
         read' = read \/ (\E p \in Owners : read' = [read EXCEPT ![p] = @ + 1]),
         back' = back
  PROVE  Grows
<1>1. read \in [Owners -> Nat] /\ back \in [Conns -> Nat]
  BY Bounds DEF TypeOK
<1>2. \A p \in Owners : read[p] <= read'[p] /\ read'[p] \in Nat
  BY <1>1, OneMore
<1>3. \A c \in Conns : back[c] <= back'[c] /\ back'[c] \in Nat
  BY <1>1, OneMore
<1>4. \A p \in Owners : session[p] # 0 => session'[p] = session[p]
  BY DEF TypeOK
<1> QED
  BY <1>2, <1>3, <1>4 DEF Grows

LEMMA LocalAcceptsFlow ==
  ASSUME FlowIInv, SessionIInv', NEW c \in Conns, LocalAccepts(c)
  PROVE  FlowIInv'
<1>1. /\ SessionIInv /\ TypeOK /\ Numbered /\ Silent /\ LinksInOrder /\ c \in Owners
      /\ session[c] = 0 /\ local[c] = "none"
  BY DEF FlowIInv, UpInv, SessionIInv, LocalAccepts, Numbered, Owners
<1>2. /\ session' = [session EXCEPT ![c] = counter]
      /\ UNCHANGED <<link, far, up, down, farTable, remote, gone, read, back, toHost,
                     toClient, stray>>
      /\ table' = table \/ table' = [table EXCEPT ![counter] = c]
      /\ \A d \in Conns \ {c} : local'[d] = local[d]
  BY <1>1 DEF LocalAccepts, farSides, histories, TypeOK
<1>3. Grows
  BY <1>1, <1>2, GrowsByNumber
<1>4. \A d \in Conns : local[d] \in Begun => local'[d] \in Begun
  BY <1>1, <1>2 DEF Begun
<1>5. UpInv'
  BY <1>2, <1>3, <1>4, UpUntouched
<1>6. LinksInOrder'
  BY <1>1, <1>2, LinksKept
<1>7. ASSUME NEW d \in Conns, table'[session'[d]] = d, session'[d] # 0
      PROVE  \/ session'[d] = session[d] /\ table[session[d]] = d
             \/ \A n \in Links : remote[n][d] = "none"
  <2>1. CASE d = c
    BY <1>1, <2>1 DEF Silent, Begun
  <2>2. CASE d # c
    <3>1. session'[d] = session[d] /\ d \in Owners
      BY <1>1, <1>2, <2>2 DEF TypeOK, Owners
    <3>2. session[d] \in Sessions
      BY <1>1, <1>7, <3>1 DEF TypeOK
    <3>3. table[session[d]] = d
      BY <1>1, <1>2, <1>7, <2>2, <3>1, <3>2 DEF TypeOK
    <3> QED
      BY <3>1, <3>3
  <2> QED
    BY <2>1, <2>2
<1>8. DownInv'
  BY <1>2, <1>3, <1>7, DownUntouchedByLocal
<1> QED
  BY <1>5, <1>6, <1>8, FlowMeets

LEMMA LocalSendsUdpFlow ==
  ASSUME FlowIInv, SessionIInv', NEW u \in Srcs, LocalSendsUdp(u)
  PROVE  FlowIInv'
<1> DEFINE m == [cmd |-> "DATA_UDP", session |-> session'[u], of |-> u, nth |-> read'[u]]
<1>1. /\ SessionIInv /\ TypeOK /\ LinksInOrder /\ u \in Owners /\ u \notin Conns
      /\ Conns \subseteq Owners
  BY TunnelAssumption DEF FlowIInv, SessionIInv, Owners
<1>2. /\ session' = [session EXCEPT ![u] = IF @ = 0 THEN counter + 1 ELSE @]
      /\ read' = [read EXCEPT ![u] = @ + 1]
      /\ LocalRequests(m)
      /\ UNCHANGED <<table, local, far, down, farTable, remote, back, toHost, toClient>>
  BY DEF LocalSendsUdp, farSides
<1>3. Grows
  <2>1. CASE session[u] = 0
    <3>1. session' = [session EXCEPT ![u] = counter + 1]
      BY <1>2, <2>1
    <3> QED
      BY <1>1, <1>2, <2>1, <3>1, GrowsByNumber
  <2>2. CASE session[u] # 0
    <3>1. session' = session
      BY <1>1, <1>2, <2>2 DEF TypeOK
    <3> QED
      BY <1>1, <1>2, <3>1, GrowsByReading
  <2> QED
    BY <2>1, <2>2
<1>4. m \in Message
  <2>1. session'[u] \in Sessions
    <3>1. session' \in [Owners -> {0} \cup Sessions] /\ counter \in Nat
      BY Bounds, <1>1 DEF SessionIInv, TypeOK
    <3>2. session'[u] \in {0} \cup Sessions
      BY <1>1, <3>1
    <3>3. session'[u] = IF session[u] = 0 THEN counter + 1 ELSE session[u]
      BY <1>1, <1>2 DEF TypeOK
    <3> QED
      BY <3>1, <3>2, <3>3
  <2>2. read'[u] \in 0 .. MaxData
    BY <1>1 DEF SessionIInv, TypeOK
  <2> QED
    BY <1>1, <2>1, <2>2 DEF Message
<1>5. /\ \A c \in Conns : ~ IsStart(m, c) /\ ~ IsData(m, c)
      /\ \A c \in Conns : read'[c] = read[c] /\ session'[c] = session[c]
  BY <1>1, <1>2 DEF IsStart, IsData, TypeOK
<1> HIDE DEF m
<1>6. LinksInOrder' /\ UpInv'
  BY <1>2, <1>3, <1>4, <1>5, UpRequested
<1>7. \A n \in Links : link'[n] # "closed" => link[n] # "closed"
  BY <1>1, <1>2, CarrierTakes
<1>8. DownInv'
  BY <1>2, <1>3, <1>5, <1>7, DownUntouchedByLocal
<1> QED
  BY <1>6, <1>8, FlowMeets

LEMMA LocalReadsFlow ==
  ASSUME FlowIInv, SessionIInv', NEW c \in Conns, LocalReads(c)
  PROVE  FlowIInv'
<1> DEFINE m == Data(session[c], c, read'[c])
<1>1. /\ SessionIInv /\ TypeOK /\ Numbered /\ LinksInOrder /\ c \in Owners
      /\ Conns \subseteq Owners
  BY DEF FlowIInv, SessionIInv, Owners
<1>2. /\ local[c] = "open" /\ read' = [read EXCEPT ![c] = @ + 1]
      /\ LocalRequests(m)
      /\ UNCHANGED <<session, table, local, far, down, farTable, remote, back, toHost, toClient>>
  BY DEF LocalReads, farSides, sides
<1>3. Grows
  BY <1>1, <1>2, GrowsByReading
<1>4. m \in Message
  <2>1. session[c] \in Sessions
    BY <1>1, <1>2, Numbers
  <2>2. read'[c] \in 0 .. MaxData
    BY <1>1 DEF SessionIInv, TypeOK
  <2> QED
    BY <1>1, <2>1, <2>2 DEF Message, Data
<1>5. /\ \A d \in Conns : ~ IsStart(m, d) /\ (IsData(m, d) <=> d = c)
      /\ m.nth = read'[c]
  BY DEF Data, IsStart, IsData
<1>6. read'[c] = read[c] + 1 /\ \A d \in Conns \ {c} : read'[d] = read[d]
  BY <1>1, <1>2 DEF TypeOK
<1> HIDE DEF m
<1>7. LinksInOrder' /\ UpInv'
  BY <1>2, <1>3, <1>4, <1>5, <1>6, UpRequested DEF Begun
<1>8. \A n \in Links : link'[n] # "closed" => link[n] # "closed"
  BY <1>1, <1>2, CarrierTakes
<1>9. DownInv'
  BY <1>2, <1>3, <1>8, DownUntouchedByLocal
<1> QED
  BY <1>7, <1>9, FlowMeets

LEMMA LocalAsksFlow ==
  ASSUME FlowIInv, SessionIInv', NEW c \in Conns, LocalStarts(c) \/ LocalCatches(c)
  PROVE  FlowIInv'
<1>1. /\ SessionIInv /\ TypeOK /\ Numbered /\ LinksInOrder /\ c \in Owners /\ c \in Conns
  BY DEF FlowIInv, SessionIInv, Owners
<1>2. /\ UNCHANGED <<session, table, far, down, farTable, remote, read, back, toHost, toClient>>
      /\ local[c] # "none"
      /\ \A d \in Conns \ {c} : local'[d] = local[d]
  BY <1>1 DEF LocalStarts, LocalCatches, farSides, histories, TypeOK
<1>3. Grows
  BY <1>1, <1>2, GrowsByReading
<1>4. session[c] \in Sessions
  BY <1>1, <1>2, Numbers
<1>5. PICK m \in Message :
        /\ LocalRequests(m) /\ local'[c] \in Begun
        /\ \A d \in Conns : ~ IsData(m, d)
        /\ \A d \in Conns : IsStart(m, d) => d = c /\ local[c] \notin Begun
  <2>1. CASE LocalStarts(c)
    <3>1. Start(c) \in Message
      BY <1>1, <1>4, Bounds DEF Start, Message
    <3>2. \A d \in Conns : ~ IsData(Start(c), d) /\ (IsStart(Start(c), d) => d = c)
      BY DEF Start, IsStart, IsData
    <3>3. LocalRequests(Start(c)) /\ local'[c] \in Begun /\ local[c] \notin Begun
      BY <1>1, <2>1 DEF LocalStarts, Begun, TypeOK
    <3> QED
      BY <3>1, <3>2, <3>3
  <2>2. CASE LocalCatches(c)
    <3>1. Stop(session[c], c) \in Message
      BY <1>1, <1>4, Bounds DEF Stop, Message
    <3>2. \A d \in Conns : ~ IsData(Stop(session[c], c), d) /\ ~ IsStart(Stop(session[c], c), d)
      BY DEF Stop, IsStart, IsData
    <3>3. LocalRequests(Stop(session[c], c)) /\ local'[c] \in Begun
      BY <1>1, <2>2 DEF LocalCatches, Begun, TypeOK
    <3> QED
      BY <3>1, <3>2, <3>3
  <2> QED
    BY <2>1, <2>2
<1>6. \A d \in Conns : local[d] \in Begun => local'[d] \in Begun
  BY <1>2, <1>5
<1>7. LinksInOrder' /\ UpInv'
  BY <1>2, <1>3, <1>5, <1>6, UpRequested
<1>8. \A n \in Links : link'[n] # "closed" => link[n] # "closed"
  BY <1>1, <1>5, CarrierTakes
<1>9. DownInv'
  BY <1>2, <1>3, <1>8, DownUntouchedByLocal
<1> QED
  BY <1>7, <1>9, FlowMeets

LEMMA LocalStopsFlow ==
  ASSUME FlowIInv, SessionIInv', NEW c \in Conns, LocalFails(c) \/ LocalExpires(c)
  PROVE  FlowIInv'
<1>1. /\ SessionIInv /\ TypeOK /\ Numbered /\ LinksInOrder /\ c \in Owners
  BY DEF FlowIInv, SessionIInv, Owners
<1>2. /\ UNCHANGED <<session, link, far, up, down, farTable, remote, gone, read, back, toHost,
                     toClient, stray>>
      /\ \A s \in Sessions : table'[s] \in {table[s], NoOne}
      /\ \A d \in Conns : local[d] \in Begun => local'[d] \in Begun
  BY <1>1 DEF LocalFails, LocalExpires, LocalStop, farSides, histories, TypeOK, Begun
<1>3. Grows
  BY <1>1, <1>2, GrowsByReading
<1>4. UpInv'
  BY <1>2, <1>3, UpUntouched
<1>5. LinksInOrder'
  BY <1>1, <1>2, LinksKept
<1>6. \A d \in Conns : session[d] # 0 => session[d] \in Sessions /\ d # NoOne
  BY <1>1, Bounds DEF TypeOK, Owners
<1>7. \A d \in Conns : table'[session'[d]] = d /\ session'[d] # 0 => table[session[d]] = d
  BY <1>2, <1>6
<1>8. DownInv'
  BY <1>2, <1>3, <1>7, DownUntouchedByLocal
<1> QED
  BY <1>4, <1>5, <1>8, FlowMeets

LEMMA LocalHears ==
  ASSUME SessionIInv, NEW n \in Links, down[n] # <<>>
  PROVE  LET m == Head(down[n]) IN
         /\ m.session \in Sessions /\ m.of \in Owners /\ m.session = session[m.of]
         /\ m.session # 0
         /\ table[m.session] \in Conns \cup {NoOne}
         /\ table[m.session] # NoOne => session[table[m.session]] = m.session
<1> DEFINE m == Head(down[n])
<1>1. m \in DownMessage
  BY HeadIsGood DEF SessionIInv
<1> HIDE DEF m
<1>2. m.session \in Sessions /\ m.of \in Owners /\ m.session = session[m.of]
  BY <1>1 DEF DownMessage, Message
<1>3. /\ table[m.session] \in Conns \cup {NoOne}
      /\ table[m.session] # NoOne => session[table[m.session]] = m.session
  BY <1>2 DEF SessionIInv, TypeOK, LocalAgrees
<1> QED
  BY <1>2, <1>3, Bounds DEF m

(* What the local manager does with a message, for the connections that    *)
(* share their number with nobody.                                         *)
LEMMA LocalDeliversDown ==
  ASSUME FlowIInv, SessionIInv', NEW n \in Links, LocalStep(n),
         \A p \in Links : link'[p] # "closed" => link[p] # "closed"
  PROVE  DownInv'
<1> DEFINE m == Head(down[n])
           e == table[m.session]
<1>1. SessionIInv /\ TypeOK
  BY DEF FlowIInv, SessionIInv
<1>2. /\ down[n] # <<>> /\ down' = [down EXCEPT ![n] = Tail(@)]
      /\ UNCHANGED <<session, far, remote, back>>
      /\ m.cmd \in {"DATA_TCP", "STOP_TCP"}
      /\ e = NoOne \/ m.cmd = "STOP_TCP" \/ local[e] \in {"stopping", "ended"}
           => toClient' = toClient
      /\ m.cmd = "STOP_TCP" \/ (e # NoOne /\ local[e] \in {"stopping", "ended"}) =>
           (table' = table /\ e = NoOne) \/ table' = [table EXCEPT ![m.session] = NoOne]
      /\ m.cmd = "DATA_TCP" /\ (e = NoOne \/ local[e] \notin {"stopping", "ended"}) =>
           table' = table
      /\ m.cmd = "DATA_TCP" /\ e # NoOne /\ local[e] \notin {"stopping", "ended"} =>
           toClient' = [toClient EXCEPT ![e] = Append(@, [of |-> m.of, nth |-> m.nth])]
  BY DEF LocalStep, LocalData, LocalStopped, Delivers, farSides, histories
<1>3. /\ m.session \in Sessions /\ m.of \in Owners /\ m.session = session[m.of]
      /\ m.session # 0
      /\ e \in Conns \cup {NoOne}
      /\ e # NoOne => session[e] = m.session
      /\ NoOne \notin Conns /\ Conns \subseteq Owners
  BY <1>1, <1>2, LocalHears, Bounds DEF Owners
<1>4. /\ table \in [Sessions -> Conns \cup {NoOne}] /\ toClient \in [Conns -> Seq(Chunk)]
      /\ session \in [Owners -> {0} \cup Sessions]
  BY <1>1 DEF TypeOK
<1>5. \A c \in Conns : toClient'[c] = toClient[c] \/ session[c] # 0
  BY <1>2, <1>3, <1>4
<1>6. ASSUME NEW c \in Conns, Own(c), session[c] # 0
      PROVE  /\ table'[session[c]] = c => table[session[c]] = c
             /\ \/ /\ toClient'[c] = toClient[c]
                   /\ IsData(m, c) => table'[session[c]] # c
                \/ /\ IsData(m, c) /\ table[session[c]] = c
                   /\ toClient'[c] = Append(toClient[c], [of |-> c, nth |-> m.nth])
  <2>1. session[c] \in Sessions /\ c \in Owners /\ c # NoOne
    BY <1>3, <1>4, <1>6
  <2>2. m.session = session[c] => m.of = c
    BY <1>1, <1>3, <1>6, <2>1, SharesNone
  <2>3. \A s \in Sessions : table'[s] = table[s] \/ table'[s] = NoOne
    BY <1>2, <1>4
  <2>4. table'[session[c]] = c => table[session[c]] = c
    BY <2>1, <2>3
  <2>5. CASE m.cmd = "DATA_TCP" /\ e = c /\ local[e] \notin {"stopping", "ended"}
    <3>1. session[c] = m.session /\ m.of = c
      BY <1>3, <2>1, <2>2, <2>5
    <3>2. toClient'[c] = Append(toClient[c], [of |-> c, nth |-> m.nth])
      BY <1>2, <1>4, <2>1, <2>5, <3>1
    <3> QED
      BY <2>4, <2>5, <3>1, <3>2 DEF IsData
  <2>6. CASE ~ (m.cmd = "DATA_TCP" /\ e = c /\ local[e] \notin {"stopping", "ended"})
    <3>1. toClient'[c] = toClient[c]
      BY <1>2, <1>3, <1>4, <2>1, <2>6
    <3>2. ASSUME IsData(m, c), table'[session[c]] = c
          PROVE  FALSE
      <4>1. m.of = c /\ m.session = session[c] /\ m.cmd = "DATA_TCP" /\ e = c
        BY <1>3, <2>4, <3>2 DEF IsData
      <4>2. local[e] \in {"stopping", "ended"} /\ e # NoOne
        BY <2>1, <2>6, <4>1
      <4>3. table' = [table EXCEPT ![m.session] = NoOne]
        BY <1>2, <4>1, <4>2
      <4> QED
        BY <1>3, <1>4, <2>1, <3>2, <4>1, <4>3
    <3> QED
      BY <2>4, <3>1, <3>2
  <2> QED
    BY <2>5, <2>6
<1>7. down[n] # <<>> /\ m = Head(down[n]) /\ down' = [down EXCEPT ![n] = Tail(@)]
  BY <1>2
<1>8. UNCHANGED <<session, far, remote, back>>
  BY <1>2
<1>9. \A c \in Conns : Own(c) /\ session[c] # 0 =>
        /\ table'[session[c]] = c => table[session[c]] = c
        /\ \/ /\ toClient'[c] = toClient[c]
              /\ IsData(m, c) => table'[session[c]] # c
           \/ /\ IsData(m, c) /\ table[session[c]] = c
              /\ toClient'[c] = Append(toClient[c], [of |-> c, nth |-> m.nth])
  BY <1>6
<1> HIDE DEF m, e
<1> QED
  BY <1>5, <1>7, <1>8, <1>9, DownPopped

LEMMA LocalDeliversFlow ==
  ASSUME FlowIInv, SessionIInv', NEW n \in Links, LocalStep(n)
  PROVE  FlowIInv'
<1> DEFINE m == Head(down[n])
           e == table[m.session]
<1>1. SessionIInv /\ TypeOK /\ LinksInOrder /\ Conns \subseteq Owners
  BY DEF FlowIInv, SessionIInv, Owners
<1>2. /\ down[n] # <<>>
      /\ UNCHANGED <<session, far, farTable, remote, read, back, toHost>>
      /\ UNCHANGED <<link, up>> \/ (e # NoOne /\ LocalRequests(Stop(m.session, e)))
  BY DEF LocalStep, LocalData, LocalStopped, Delivers, farSides, histories
<1>3. /\ m.session \in Sessions
      /\ e \in Conns \cup {NoOne}
  BY <1>1, <1>2, LocalHears
<1>4. Grows
  BY <1>1, <1>2, GrowsByReading
<1>5. \A d \in Conns : local[d] \in Begun => local'[d] \in Begun
  BY <1>1, <1>3 DEF LocalStep, LocalData, LocalStopped, LocalStop, Begun, TypeOK
<1>6. CASE UNCHANGED <<link, up>>
  <2>1. UpInv'
    BY <1>2, <1>4, <1>5, <1>6, UpUntouched
  <2>2. LinksInOrder'
    BY <1>1, <1>6, LinksKept
  <2>3. DownInv'
    BY <1>6, LocalDeliversDown
  <2> QED
    BY <2>1, <2>2, <2>3, FlowMeets
<1>7. CASE e # NoOne /\ LocalRequests(Stop(m.session, e))
  <2> DEFINE x == Stop(m.session, e)
  <2>1. x \in Message
    BY <1>1, <1>3, <1>7, Bounds DEF Stop, Message
  <2>2. \A d \in Conns : ~ IsStart(x, d) /\ ~ IsData(x, d)
    BY DEF Stop, IsStart, IsData
  <2>3. LocalRequests(x)
    BY <1>7
  <2> HIDE DEF x
  <2>4. LinksInOrder' /\ UpInv'
    BY <1>2, <1>4, <1>5, <2>1, <2>2, <2>3, UpRequested
  <2>5. \A p \in Links : link'[p] # "closed" => link[p] # "closed"
    BY <1>1, <2>3, CarrierTakes
  <2>6. DownInv'
    BY <2>5, LocalDeliversDown
  <2> QED
    BY <2>4, <2>6, FlowMeets
<1> QED
  BY <1>2, <1>6, <1>7

-----------------------------------------------------------------------------
(* The steps of the remote server and of the links.  Most make no relay    *)
(* and list nobody anew.                                                   *)
RelaysKept ==
  \A n \in Links, o \in Owners : remote'[n][o] = "none" <=> remote[n][o] = "none"
ListsLess ==
  \A n \in Links, s \in Sessions, c \in Conns : farTable'[n][s] = c => farTable[n][s] = c

LEMMA StopManagerKeeps ==
  ASSUME SessionIInv, NEW n \in Links, NEW r \in [Owners -> RemoteState],
         Agrees(n, r, farTable[n], stray),
         \A o \in Owners : r[o] = "none" <=> remote[n][o] = "none",
         StopManager(n, r)
  PROVE  RelaysKept /\ ListsLess
<1>1. TypeOK
  BY DEF SessionIInv
<1>2. /\ \A p \in Links \ {n} : remote'[p] = remote[p] /\ farTable'[p] = farTable[p]
      /\ \A o \in Owners : remote'[n][o] = "none" <=> r[o] = "none"
  BY <1>1, StopManagerAgrees
<1>3. farTable'[n] = [s \in Sessions |-> NoOne]
  BY <1>1 DEF TypeOK, StopManager
<1>4. NoOne \notin Conns
  BY TunnelAssumption
<1> QED
  BY <1>2, <1>3, <1>4 DEF RelaysKept, ListsLess

LEMMA FarRequestsKeeps ==
  ASSUME SessionIInv, NEW n \in Links, NEW r \in [Owners -> RemoteState],
         NEW t \in [Sessions -> Owners \cup {NoOne}],
         Agrees(n, r, farTable[n], stray),
         \A o \in Owners : r[o] = "none" <=> remote[n][o] = "none",
         \A s \in Sessions, c \in Conns : t[s] = c => farTable[n][s] = c,
         NEW m, FarRequests(n, r, t, m)
  PROVE  RelaysKept /\ ListsLess
<1>1. TypeOK
  BY DEF SessionIInv
<1>2. CASE far[n] = "up"
  <2>1. /\ remote' = [remote EXCEPT ![n] = r]
        /\ farTable' = [farTable EXCEPT ![n] = t]
    BY <1>2 DEF FarRequests
  <2>2. /\ remote'[n] = r /\ farTable'[n] = t
        /\ \A p \in Links \ {n} : remote'[p] = remote[p] /\ farTable'[p] = farTable[p]
    BY <1>1, <2>1 DEF TypeOK
  <2> QED
    BY <2>2 DEF RelaysKept, ListsLess
<1>3. CASE far[n] # "up"
  BY <1>3, StopManagerKeeps DEF FarRequests
<1> QED
  BY <1>2, <1>3

LEMMA FarRequestsDown ==
  ASSUME NEW n, NEW r, NEW t, NEW m, FarRequests(n, r, t, m)
  PROVE  \/ /\ far[n] = "up" /\ link[n] # "closed"
            /\ down' = [down EXCEPT ![n] = Append(@, m)]
         \/ /\ far[n] # "up" \/ link[n] = "closed"
            /\ down' = down
BY DEF FarRequests

LEMMA FarSideFlow ==
  ASSUME FlowIInv, SessionIInv', RelaysKept, ListsLess,
         UNCHANGED <<sides, up, down, read, back, toHost, toClient>>,
         \A n \in Links :
           /\ link'[n] = "none" <=> link[n] = "none"
           /\ link'[n] = "up" => link[n] = "up"
           /\ link'[n] # "closed" => link[n] # "closed"
           /\ link'[n] = "none" => far'[n] = far[n]
           /\ far'[n] # "closed" => far[n] # "closed"
           /\ far'[n] = "none" => far[n] = "none"
           /\ far'[n] = "up" => far[n] \in {"up", "none"}
  PROVE  FlowIInv'
<1>1. LinksInOrder /\ TypeOK /\ Conns \subseteq Owners
  BY DEF FlowIInv, SessionIInv, Owners
<1>2. UNCHANGED <<session, table, local>>
  BY DEF sides
<1>3. Grows
  BY <1>1, <1>2, GrowsByReading
<1>4. UpInv'
  BY <1>2, <1>3, UpUntouched DEF RelaysKept, ListsLess
<1>5. DownInv'
  <2>1. /\ \A n \in Links, c \in Conns : remote[n][c] # "none" => remote'[n][c] # "none"
        /\ \A n \in Links, c \in Conns : remote[n][c] = "none" /\ remote'[n][c] # "none" =>
             \A p \in Links : remote[p][c] = "none"
    BY <1>1 DEF RelaysKept
  <2>2. \A c \in Conns : table'[session'[c]] = c /\ session'[c] # 0 =>
          session'[c] = session[c] /\ table[session[c]] = c
    BY <1>2
  <2> QED
    BY <1>3, <2>1, <2>2, DownUntouched
<1>6. LinksInOrder'
  BY <1>1, LinksKept
<1> QED
  BY <1>4, <1>5, <1>6, FlowMeets

LEMMA RemoteMovesFlow ==
  ASSUME FlowIInv, SessionIInv', NEW n \in Links, NEW o \in Owners,
         RemoteStarts(n, o) \/ RemoteFails(n, o)
  PROVE  FlowIInv'
<1>1. TypeOK
  BY DEF FlowIInv, SessionIInv
<1>2. PICK s \in {"open", "stopping", "ended"} :
        /\ remote[n][o] \in {"starting", "open"}
        /\ remote' = [remote EXCEPT ![n][o] = s]
  BY DEF RemoteStarts, RemoteFails, Halted
<1>3. RelaysKept
  BY <1>1, <1>2 DEF TypeOK, RelaysKept
<1>4. UNCHANGED <<sides, link, far, up, down, farTable, read, back, toHost, toClient>>
  BY DEF RemoteStarts, RemoteFails, histories
<1>5. ListsLess
  BY <1>4 DEF ListsLess
<1> QED
  BY <1>3, <1>4, <1>5, FarSideFlow

LEMMA LinkFlow ==
  ASSUME FlowIInv, SessionIInv', NEW n \in Links,
         LinkAccepted(n) \/ LinkStops(n) \/ FarStops(n)
  PROVE  FlowIInv'
<1>1. /\ link \in [Links -> LinkState] /\ far \in [Links -> LinkState]
      /\ \A p \in Links : link[p] = "none" => far[p] = "none"
  BY DEF FlowIInv, SessionIInv, TypeOK, UpInv, Unmade
<1>2. UNCHANGED <<sides, up, down, remote, farTable, read, back, toHost, toClient>>
  BY DEF LinkAccepted, LinkStops, FarStops, farSides, histories
<1>3. RelaysKept /\ ListsLess
  BY <1>2 DEF RelaysKept, ListsLess
<1>4. \A p \in Links :
        /\ link'[p] = "none" <=> link[p] = "none"
        /\ link'[p] = "up" => link[p] = "up"
        /\ link'[p] # "closed" => link[p] # "closed"
        /\ link'[p] = "none" => far'[p] = far[p]
        /\ far'[p] # "closed" => far[p] # "closed"
        /\ far'[p] = "none" => far[p] = "none"
        /\ far'[p] = "up" => far[p] \in {"up", "none"}
  <2>1. CASE LinkAccepted(n)
    BY <1>1, <2>1 DEF LinkAccepted
  <2>2. CASE LinkStops(n)
    BY <1>1, <2>2 DEF LinkStops
  <2>3. CASE FarStops(n)
    BY <1>1, <2>3 DEF FarStops
  <2> QED
    BY <2>1, <2>2, <2>3
<1> QED
  BY <1>2, <1>3, <1>4, FarSideFlow

LEMMA FarExpiresFlow ==
  ASSUME FlowIInv, SessionIInv', NEW n \in Links, FarExpires(n)
  PROVE  FlowIInv'
<1>1. SessionIInv /\ TypeOK /\ Agrees(n, remote[n], farTable[n], stray) /\ Unmade
  BY DEF FlowIInv, SessionIInv, FarAgrees, UpInv
<1>2. /\ far[n] # "none"
      /\ far' = [far EXCEPT ![n] = IF @ = "up" THEN "stopped" ELSE @]
      /\ StopManager(n, remote[n])
      /\ UNCHANGED <<sides, link, up, down, read, back, toHost, toClient>>
  BY DEF FarExpires
<1>3. remote[n] \in [Owners -> RemoteState]
  BY <1>1 DEF TypeOK
<1>4. RelaysKept /\ ListsLess
  BY <1>1, <1>2, <1>3, StopManagerKeeps
<1>5. link[n] # "none"
  BY <1>1, <1>2 DEF Unmade
<1>6. \A p \in Links :
        /\ link'[p] = link[p]
        /\ link'[p] = "none" => far'[p] = far[p]
        /\ far'[p] # "closed" => far[p] # "closed"
        /\ far'[p] = "none" => far[p] = "none"
        /\ far'[p] = "up" => far[p] \in {"up", "none"}
  BY <1>1, <1>2, <1>5 DEF TypeOK
<1> QED
  BY <1>2, <1>4, <1>6, FarSideFlow

LEMMA RemoteExpiresFlow ==
  ASSUME FlowIInv, SessionIInv', NEW n \in Links, NEW s \in Sessions, RemoteExpires(n, s)
  PROVE  FlowIInv'
<1>1. SessionIInv /\ TypeOK
  BY DEF FlowIInv, SessionIInv
<1>2. PICK kept \in Keepable(remote[n], {farTable[n][s]}) :
        remote' = [remote EXCEPT ![n] = Halt(@, {farTable[n][s]}, kept)]
  BY DEF RemoteExpires
<1>3. /\ farTable[n][s] # NoOne
      /\ farTable' = [farTable EXCEPT ![n][s] = NoOne]
      /\ UNCHANGED <<sides, link, far, up, down, read, back, toHost, toClient>>
  BY DEF RemoteExpires
<1>4. /\ remote[n] \in [Owners -> RemoteState] /\ {farTable[n][s]} \in SUBSET Owners
      /\ NoOne \notin Conns
  BY <1>1, <1>3, TunnelAssumption DEF TypeOK
<1>5. \A o \in Owners : Halt(remote[n], {farTable[n][s]}, kept)[o] = "none" <=> remote[n][o] = "none"
  BY <1>2, <1>4, HaltStops
<1>6. /\ remote'[n] = Halt(remote[n], {farTable[n][s]}, kept)
      /\ \A p \in Links \ {n} : remote'[p] = remote[p]
  BY <1>1, <1>2 DEF TypeOK
<1>7. RelaysKept
  BY <1>5, <1>6 DEF RelaysKept
<1>8. ListsLess
  BY <1>1, <1>3, <1>4 DEF ListsLess, TypeOK
<1> QED
  BY <1>3, <1>7, <1>8, FarSideFlow

(* The requests of a remote relay: what it has read, and its end.          *)
LEMMA RemoteReadsFlow ==
  ASSUME FlowIInv, SessionIInv', NEW n \in Links, NEW c \in Conns, RemoteReads(n, c)
  PROVE  FlowIInv'
<1> DEFINE m == Data(session[c], c, back'[c])
<1>1. /\ SessionIInv /\ TypeOK /\ LinksInOrder /\ c \in Owners
      /\ Agrees(n, remote[n], farTable[n], stray)
  BY DEF FlowIInv, SessionIInv, FarAgrees, Owners
<1>2. /\ remote[n][c] = "open"
      /\ back' = [back EXCEPT ![c] = @ + 1]
      /\ FarRequests(n, remote[n], farTable[n], m)
      /\ UNCHANGED <<session, table, local, link, far, up, read, toHost, toClient>>
  BY DEF RemoteReads, sides
<1>3. Grows
  BY <1>1, <1>2, GrowsByReading
<1>4. /\ back \in [Conns -> 0 .. MaxData] /\ back' \in [Conns -> 0 .. MaxData]
      /\ session[c] \in Sessions
  BY <1>1, <1>2 DEF SessionIInv, TypeOK, Agrees
<1>5. back'[c] = back[c] + 1 /\ \A d \in Conns \ {c} : back'[d] = back[d]
  BY <1>2, <1>4
<1>6. m \in Message
  BY <1>1, <1>4 DEF Data, Message
<1>7. m.cmd = "DATA_TCP" /\ m.of = c /\ m.nth = back[c] + 1
  BY <1>5 DEF Data
<1>8. remote[n] \in [Owners -> RemoteState] /\ farTable[n] \in [Sessions -> Owners \cup {NoOne}]
  BY <1>1 DEF TypeOK
<1> HIDE DEF m
<1>9. RelaysKept /\ ListsLess
  BY <1>1, <1>2, <1>8, FarRequestsKeeps
<1>10. UpInv'
  <2>1. \A d \in Conns : back'[d] = back[d] \/ \E p \in Links : remote[p][d] # "none"
    BY <1>2, <1>5
  <2>2. /\ \A p \in Links, o \in Owners : remote'[p][o] = "none" <=> remote[p][o] = "none"
        /\ \A p \in Links, s \in Sessions, d \in Conns :
             farTable'[p][s] = d => farTable[p][s] = d
    BY <1>9 DEF RelaysKept, ListsLess
  <2> QED
    BY <1>2, <1>3, <2>1, <2>2, UpUntouched
<1>11. DownInv'
  <2>1. \A p \in Links, d \in Conns : remote'[p][d] = "none" <=> remote[p][d] = "none"
    BY <1>9 DEF RelaysKept, Owners
  <2>2. \A d \in Conns : IF IsData(m, d)
                         THEN /\ remote[n][d] # "none"
                              /\ m.nth = back[d] + 1 /\ back'[d] = back[d] + 1
                         ELSE back'[d] = back[d]
    BY <1>2, <1>5, <1>7 DEF IsData
  <2>3. \/ /\ far[n] = "up" /\ link[n] # "closed"
           /\ down' = [down EXCEPT ![n] = Append(@, m)]
        \/ /\ far[n] # "up" \/ link[n] = "closed"
           /\ down' = down
    BY <1>2, FarRequestsDown
  <2> QED
    BY <1>2, <1>3, <1>6, <2>1, <2>2, <2>3, DownRequested
<1>12. LinksInOrder'
  BY <1>1, <1>2, LinksKept
<1> QED
  BY <1>10, <1>11, <1>12, FlowMeets

LEMMA RemoteCatchesFlow ==
  ASSUME FlowIInv, SessionIInv', NEW n \in Links, NEW c \in Conns, RemoteCatches(n, c)
  PROVE  FlowIInv'
<1> DEFINE m == Stop(session[c], c)
           r == [remote[n] EXCEPT ![c] = "ended"]
<1>1. /\ SessionIInv /\ TypeOK /\ FarAgrees /\ LinksInOrder /\ c \in Owners
      /\ Agrees(n, remote[n], farTable[n], stray)
  BY DEF FlowIInv, SessionIInv, FarAgrees, Owners
<1>2. /\ remote[n][c] = "stopping"
      /\ FarRequests(n, r, farTable[n], m)
      /\ UNCHANGED <<session, table, local, link, far, up, read, back, toHost, toClient>>
  BY DEF RemoteCatches, sides
<1>3. Grows
  BY <1>1, <1>2, GrowsByReading
<1>4. session[c] \in Sessions
  BY <1>1, <1>2 DEF TypeOK, Agrees
<1>5. m \in Message
  BY <1>1, <1>4, Bounds DEF Stop, Message
<1>6. \A d \in Conns : ~ IsData(m, d)
  BY DEF Stop, IsData
<1>7. remote[n] \in [Owners -> RemoteState] /\ farTable[n] \in [Sessions -> Owners \cup {NoOne}]
  BY <1>1 DEF TypeOK
<1>8. /\ r \in [Owners -> RemoteState] /\ Agrees(n, r, farTable[n], stray)
      /\ \A o \in Owners : r[o] = "none" <=> remote[n][o] = "none"
  <2>1. "ended" \in RemoteState \ {"none"} /\ "ended" \notin {"starting", "open"}
    BY DEF RemoteState
  <2>2. r \in [Owners -> RemoteState] /\ Agrees(n, r, farTable[n], stray)
    BY <1>1, <1>2, <2>1, OneRelayMoves
  <2>3. \A o \in Owners : r[o] = IF o = c THEN "ended" ELSE remote[n][o]
    BY <1>7
  <2> QED
    BY <1>2, <2>2, <2>3
<1> HIDE DEF m, r
<1>9. RelaysKept /\ ListsLess
  BY <1>1, <1>2, <1>7, <1>8, FarRequestsKeeps
<1>10. UpInv'
  <2>1. /\ \A p \in Links, o \in Owners : remote'[p][o] = "none" <=> remote[p][o] = "none"
        /\ \A p \in Links, s \in Sessions, d \in Conns :
             farTable'[p][s] = d => farTable[p][s] = d
    BY <1>9 DEF RelaysKept, ListsLess
  <2> QED
    BY <1>2, <1>3, <2>1, UpUntouched
<1>11. DownInv'
  <2>1. \A p \in Links, d \in Conns : remote'[p][d] = "none" <=> remote[p][d] = "none"
    BY <1>9 DEF RelaysKept, Owners
  <2>2. \A d \in Conns : IF IsData(m, d)
                         THEN /\ remote[n][d] # "none"
                              /\ m.nth = back[d] + 1 /\ back'[d] = back[d] + 1
                         ELSE back'[d] = back[d]
    BY <1>2, <1>6
  <2>3. \/ /\ far[n] = "up" /\ link[n] # "closed"
           /\ down' = [down EXCEPT ![n] = Append(@, m)]
        \/ /\ far[n] # "up" \/ link[n] = "closed"
           /\ down' = down
    BY <1>2, FarRequestsDown
  <2> QED
    BY <1>2, <1>3, <1>5, <2>1, <2>2, <2>3, DownRequested
<1>12. LinksInOrder'
  BY <1>1, <1>2, LinksKept
<1> QED
  BY <1>10, <1>11, <1>12, FlowMeets

(* What a remote manager does with a message, when it answers nothing.     *)
LEMMA RemoteTakesFlow ==
  ASSUME FlowIInv, SessionIInv', NEW n \in Links, NEW m, TakenUp(n, m),
         UNCHANGED <<table, down, toClient>>
  PROVE  FlowIInv'
<1>1. LinksInOrder /\ TypeOK /\ StartsOnce
  BY DEF FlowIInv, SessionIInv, UpInv
<1>2. /\ UNCHANGED <<session, local, link, far, read, back>>
      /\ m = Head(up[n]) /\ up[n] # <<>>
      /\ \A p \in Links \ {n} : remote'[p] = remote[p]
      /\ \A c \in Conns : remote'[n][c] # "none" <=> remote[n][c] # "none" \/ IsStart(m, c)
  BY DEF TakenUp
<1>3. Grows
  BY <1>1, <1>2, GrowsByReading
<1>4. UpInv'
  BY UpPopped
<1>5. DownInv'
  <2>1. \A c \in Conns : IsStart(m, c) => \A p \in Links : remote[p][c] = "none"
    <3>1. up[n] \in Seq(Message)
      BY <1>1 DEF TypeOK
    <3>2. \A c \in Conns : IsStart(m, c) => StartIn(up[n], c)
      BY <1>2, <3>1, TailStarts
    <3> QED
      BY <1>1, <3>2 DEF StartsOnce
  <2>2. /\ \A p \in Links, c \in Conns : remote[p][c] # "none" => remote'[p][c] # "none"
        /\ \A p \in Links, c \in Conns : remote[p][c] = "none" /\ remote'[p][c] # "none" =>
             \A q \in Links : remote[q][c] = "none"
    BY <1>2, <2>1
  <2>3. \A c \in Conns : table'[session'[c]] = c /\ session'[c] # 0 =>
          session'[c] = session[c] /\ table[session[c]] = c
    BY <1>2
  <2> QED
    BY <1>2, <1>3, <2>2, <2>3, DownUntouched
<1>6. LinksInOrder'
  BY <1>1, <1>2, LinksKept
<1> QED
  BY <1>4, <1>5, <1>6, FlowMeets

(* A message for another leaves a connection's relay alone.                *)
LEMMA RemoteHalts ==
  ASSUME TypeOK, NEW n \in Links, NEW s \in Sessions,
         NEW kept \in Keepable(remote[n], {farTable[n][s]} \ {NoOne})
  PROVE  LET h == Halt(remote[n], {farTable[n][s]} \ {NoOne}, kept) IN
         /\ h \in [Owners -> RemoteState]
         /\ \A o \in Owners : h[o] = "none" <=> remote[n][o] = "none"
<1> DEFINE os == {farTable[n][s]} \ {NoOne}
<1>1. remote[n] \in [Owners -> RemoteState] /\ farTable[n][s] \in Owners \cup {NoOne}
  BY DEF TypeOK
<1>2. os \in SUBSET Owners /\ kept \in Keepable(remote[n], os)
  BY <1>1
<1> HIDE DEF os
<1>3. /\ Halt(remote[n], os, kept) \in [Owners -> RemoteState]
      /\ \A o \in Owners : Halt(remote[n], os, kept)[o] = "none" <=> remote[n][o] = "none"
  BY <1>1, <1>2, HaltStops
<1> QED
  BY <1>3 DEF os

LEMMA RemoteStartFlow ==
  ASSUME FlowIInv, SessionIInv', NEW n \in Links, RemoteStart(n)
  PROVE  FlowIInv'
<1> DEFINE m == Head(up[n])
           s == m.session
           h(kept) == Halt(remote[n], {farTable[n][s]} \ {NoOne}, kept)
<1>1. SessionIInv /\ TypeOK /\ Conns \subseteq Owners /\ NoOne \notin Conns
  BY TunnelAssumption DEF FlowIInv, SessionIInv, Owners
<1>2. /\ up[n] # <<>> /\ far[n] # "none" /\ m.cmd = "START_TCP"
      /\ up' = [up EXCEPT ![n] = Tail(@)]
      /\ farTable' = [farTable EXCEPT ![n][s] = m.of]
      /\ UNCHANGED <<sides, link, far, down, read, back, toClient, toHost>>
  BY DEF RemoteStart, Delivers
<1>3. s \in Sessions /\ m.of \in Conns
  BY <1>1, <1>2, RemoteHears
<1>4. PICK kept \in Keepable(remote[n], {farTable[n][s]} \ {NoOne}) :
        remote' = [remote EXCEPT ![n] = [h(kept) EXCEPT ![m.of] = "starting"]]
  BY DEF RemoteStart
<1>5. /\ h(kept) \in [Owners -> RemoteState]
      /\ \A o \in Owners : h(kept)[o] = "none" <=> remote[n][o] = "none"
  BY <1>1, <1>3, <1>4, RemoteHalts
<1> HIDE DEF h
<1>6. \A p \in Links \ {n} : farTable'[p] = farTable[p] /\ remote'[p] = remote[p]
  BY <1>1, <1>2, <1>4 DEF TypeOK
<1>7. /\ remote'[n] = [h(kept) EXCEPT ![m.of] = "starting"]
      /\ farTable'[n] = [farTable[n] EXCEPT ![s] = m.of]
      /\ farTable[n] \in [Sessions -> Owners \cup {NoOne}]
  BY <1>1, <1>2, <1>4 DEF TypeOK
<1>8. \A c \in Conns : remote'[n][c] # "none" <=> remote[n][c] # "none" \/ IsStart(m, c)
  <2>1. \A c \in Conns : remote'[n][c] = IF c = m.of THEN "starting" ELSE h(kept)[c]
    BY <1>1, <1>3, <1>5, <1>7
  <2> QED
    BY <1>1, <1>2, <1>5, <2>1 DEF IsStart
<1>9. \A c \in Conns : Own(c) /\ session[c] # 0 =>
        /\ farTable'[n][session[c]] = c => IsStart(m, c) \/ farTable[n][session[c]] = c
        /\ toHost'[c] = toHost[c] /\ ~ IsData(m, c)
  <2>1. \A c \in Conns : session[c] # 0 => session[c] \in Sessions
    BY <1>1 DEF TypeOK
  <2> QED
    BY <1>2, <1>3, <1>7, <2>1 DEF IsStart, IsData
<1>10. m = Head(up[n]) /\ \A c \in Conns : toHost'[c] = toHost[c]
  BY <1>2
<1> HIDE DEF m
<1>11. UNCHANGED <<session, table, local>>
  BY <1>2 DEF sides
<1>12. TakenUp(n, m)
  BY <1>2, <1>6, <1>8, <1>9, <1>10, <1>11 DEF TakenUp
<1> QED
  BY <1>2, <1>11, <1>12, RemoteTakesFlow

LEMMA RemoteStoppedFlow ==
  ASSUME FlowIInv, SessionIInv', NEW n \in Links, RemoteStopped(n)
  PROVE  FlowIInv'
<1> DEFINE m == Head(up[n])
           s == m.session
           h(kept) == Halt(remote[n], {farTable[n][s]} \ {NoOne}, kept)
<1>1. SessionIInv /\ TypeOK /\ Conns \subseteq Owners /\ NoOne \notin Conns
  BY TunnelAssumption DEF FlowIInv, SessionIInv, Owners
<1>2. /\ up[n] # <<>> /\ far[n] # "none" /\ m.cmd = "STOP_TCP"
      /\ up' = [up EXCEPT ![n] = Tail(@)]
      /\ farTable' = [farTable EXCEPT ![n][s] = NoOne]
      /\ UNCHANGED <<sides, link, far, down, read, back, toClient, toHost>>
  BY DEF RemoteStopped, Delivers
<1>3. s \in Sessions
  BY <1>1, <1>2, RemoteHears
<1>4. PICK kept \in Keepable(remote[n], {farTable[n][s]} \ {NoOne}) :
        remote' = [remote EXCEPT ![n] = h(kept)]
  BY DEF RemoteStopped
<1>5. \A o \in Owners : h(kept)[o] = "none" <=> remote[n][o] = "none"
  BY <1>1, <1>3, <1>4, RemoteHalts
<1> HIDE DEF h
<1>6. \A p \in Links \ {n} : farTable'[p] = farTable[p] /\ remote'[p] = remote[p]
  BY <1>1, <1>2, <1>4 DEF TypeOK
<1>7. /\ remote'[n] = h(kept)
      /\ farTable'[n] = [farTable[n] EXCEPT ![s] = NoOne]
      /\ farTable[n] \in [Sessions -> Owners \cup {NoOne}]
  BY <1>1, <1>2, <1>4 DEF TypeOK
<1>8. \A c \in Conns : remote'[n][c] # "none" <=> remote[n][c] # "none" \/ IsStart(m, c)
  BY <1>1, <1>2, <1>5, <1>7 DEF IsStart
<1>9. \A c \in Conns : Own(c) /\ session[c] # 0 =>
        /\ farTable'[n][session[c]] = c => farTable[n][session[c]] = c
        /\ toHost'[c] = toHost[c] /\ ~ IsData(m, c)
  <2>1. \A c \in Conns : session[c] # 0 => session[c] \in Sessions
    BY <1>1 DEF TypeOK
  <2> QED
    BY <1>1, <1>2, <1>3, <1>7, <2>1 DEF IsData
<1>10. m = Head(up[n]) /\ \A c \in Conns : toHost'[c] = toHost[c]
  BY <1>2
<1> HIDE DEF m
<1>11. UNCHANGED <<session, table, local>>
  BY <1>2 DEF sides
<1>12. TakenUp(n, m)
  BY <1>2, <1>6, <1>8, <1>9, <1>10, <1>11 DEF TakenUp
<1> QED
  BY <1>2, <1>11, <1>12, RemoteTakesFlow

LEMMA RemoteUdpFlow ==
  ASSUME FlowIInv, SessionIInv', NEW n \in Links, RemoteUdp(n)
  PROVE  FlowIInv'
<1> DEFINE m == Head(up[n])
           s == m.session
           o == farTable[n][s]
<1>1. /\ SessionIInv /\ TypeOK /\ Agrees(n, remote[n], farTable[n], stray)
      /\ Conns \subseteq Owners /\ NoOne \notin Conns /\ Conns \cap Srcs = {}
  BY TunnelAssumption DEF FlowIInv, SessionIInv, FarAgrees, Owners
<1>2. /\ up[n] # <<>> /\ far[n] # "none" /\ m.cmd = "DATA_UDP"
      /\ up' = [up EXCEPT ![n] = Tail(@)]
      /\ UNCHANGED <<sides, link, far, down, read, back, toClient>>
      /\ \/ /\ farTable' = [farTable EXCEPT ![n][s] = m.of]
            /\ remote' = [remote EXCEPT ![n][m.of] = "open"]
            /\ UNCHANGED toHost
         \/ o # NoOne /\ Hand(o, m) /\ UNCHANGED <<farTable, remote>>
  BY DEF RemoteUdp, Delivers
<1>3. s \in Sessions /\ m.of \in Srcs /\ m.of \in Owners /\ s = session[m.of] /\ s # 0
  BY <1>1, <1>2, RemoteHears
<1>4. m.of \notin Conns /\ \A c \in Conns : ~ IsStart(m, c) /\ ~ IsData(m, c)
  BY <1>1, <1>2, <1>3 DEF IsStart, IsData
<1>5. UNCHANGED <<session, table, local>> /\ m = Head(up[n])
  BY <1>2 DEF sides
<1>6. CASE /\ farTable' = [farTable EXCEPT ![n][s] = m.of]
           /\ remote' = [remote EXCEPT ![n][m.of] = "open"]
           /\ UNCHANGED toHost
  <2>1. \A p \in Links \ {n} : farTable'[p] = farTable[p] /\ remote'[p] = remote[p]
    BY <1>1, <1>6 DEF TypeOK
  <2>2. \A c \in Conns : remote'[n][c] = remote[n][c]
    BY <1>1, <1>4, <1>6 DEF TypeOK
  <2>3. \A c \in Conns : session[c] # 0 =>
          (farTable'[n][session[c]] = c => farTable[n][session[c]] = c)
    BY <1>1, <1>4, <1>6 DEF TypeOK
  <2> HIDE DEF m
  <2>4. TakenUp(n, m)
    BY <1>2, <1>4, <1>5, <1>6, <2>1, <2>2, <2>3 DEF TakenUp
  <2> QED
    BY <1>2, <1>5, <2>4, RemoteTakesFlow
<1>7. CASE o # NoOne /\ Hand(o, m) /\ UNCHANGED <<farTable, remote>>
  <2>1. o \in Owners /\ session[o] = s /\ remote[n][o] # "none"
    BY <1>1, <1>3, <1>7 DEF TypeOK, Agrees
  <2>2. \A c \in Conns : toHost'[c] = toHost[c] \/ c = o
    BY <1>1, <1>7 DEF TypeOK, Hand
  <2>3. \A c \in Conns : Own(c) /\ session[c] # 0 => c # o
    BY <1>1, <1>3, <1>4, <2>1, SharesNone
  <2>4. \A c \in Conns : toHost'[c] = toHost[c] \/ remote[n][c] # "none"
    BY <2>1, <2>2
  <2>5. \A c \in Conns : Own(c) /\ session[c] # 0 => toHost'[c] = toHost[c]
    BY <2>2, <2>3
  <2> HIDE DEF m, o
  <2>6. TakenUp(n, m)
    BY <1>2, <1>4, <1>5, <1>7, <2>4, <2>5 DEF TakenUp
  <2> QED
    BY <1>2, <1>5, <2>6, RemoteTakesFlow
<1> QED
  BY <1>2, <1>6, <1>7

(* Data for a relay that has stopped is answered, and the entry goes.      *)
LEMMA RemoteAnswers ==
  ASSUME FlowIInv, SessionIInv', NEW n \in Links, RemoteData(n),
         LET m == Head(up[n])
             o == farTable[n][m.session]
         IN  /\ Dead(n, o)
             /\ FarRequests(n, remote[n], [farTable[n] EXCEPT ![m.session] = NoOne],
                            Stop(m.session, o))
             /\ UNCHANGED toHost
  PROVE  FlowIInv'
<1> DEFINE m == Head(up[n])
           s == m.session
           o == farTable[n][s]
           t == [farTable[n] EXCEPT ![s] = NoOne]
           x == Stop(s, o)
<1>1. /\ SessionIInv /\ TypeOK /\ LinksInOrder /\ Agrees(n, remote[n], farTable[n], stray)
      /\ Conns \subseteq Owners /\ NoOne \notin Conns
  BY TunnelAssumption DEF FlowIInv, SessionIInv, FarAgrees, Owners
<1>2. /\ up[n] # <<>> /\ far[n] # "none" /\ m.cmd = "DATA_TCP" /\ m = Head(up[n])
      /\ up' = [up EXCEPT ![n] = Tail(@)]
      /\ UNCHANGED <<session, table, local, link, far, read, back, toClient, toHost>>
      /\ FarRequests(n, remote[n], t, x)
  BY DEF RemoteData, Delivers, sides
<1>3. s \in Sessions
  BY <1>1, <1>2, RemoteHears
<1>4. /\ remote[n] \in [Owners -> RemoteState] /\ t \in [Sessions -> Owners \cup {NoOne}]
      /\ farTable[n] \in [Sessions -> Owners \cup {NoOne}] /\ o \in Owners
      /\ t[s] = NoOne /\ \A y \in Sessions, c \in Conns : t[y] = c => farTable[n][y] = c
  BY <1>1, <1>3 DEF TypeOK, Dead
<1>5. x \in Message /\ \A c \in Conns : ~ IsData(x, c)
  BY <1>3, <1>4, Bounds DEF Stop, Message, IsData
<1> HIDE DEF x
<1>6. /\ \A p \in Links \ {n} : farTable'[p] = farTable[p] /\ remote'[p] = remote[p]
      /\ farTable'[n][s] = NoOne
  <2>1. CASE far[n] = "up"
    BY <1>1, <1>2, <1>4, <2>1 DEF FarRequests, TypeOK
  <2>2. CASE far[n] # "up"
    <3>1. /\ StopManager(n, remote[n])
          /\ farTable' = [farTable EXCEPT ![n] = [y \in Sessions |-> NoOne]]
      BY <1>2, <2>2 DEF FarRequests, StopManager
    <3>2. \A p \in Links \ {n} : farTable'[p] = farTable[p] /\ remote'[p] = remote[p]
      BY <1>1, <1>4, <3>1, StopManagerAgrees
    <3> QED
      BY <1>1, <1>3, <3>1, <3>2 DEF TypeOK
  <2> QED
    BY <2>1, <2>2
<1> HIDE DEF t, m
<1>7. RelaysKept /\ ListsLess
  BY <1>1, <1>2, <1>4, FarRequestsKeeps
<1>8. \A c \in Conns : IsData(m, c) => session[c] = s
  <2>1. m.session = session[m.of]
    BY <1>1, <1>2, RemoteHears
  <2> QED
    BY <2>1 DEF IsData
<1>9. TakenUp(n, m)
  <2>1. \A c \in Conns : remote'[n][c] # "none" <=> remote[n][c] # "none" \/ IsStart(m, c)
    BY <1>1, <1>2, <1>7 DEF RelaysKept, IsStart
  <2>2. \A c \in Conns : session[c] # 0 =>
          /\ farTable'[n][session[c]] = c => farTable[n][session[c]] = c
          /\ IsData(m, c) => farTable'[n][session[c]] # c
    <3>1. \A c \in Conns : session[c] # 0 => session[c] \in Sessions
      BY <1>1 DEF TypeOK
    <3> QED
      BY <1>1, <1>6, <1>7, <1>8, <3>1 DEF ListsLess
  <2> QED
    BY <1>2, <1>6, <2>1, <2>2 DEF TakenUp
<1>10. UpInv'
  BY <1>9, UpPopped
<1>11. Grows
  BY <1>1, <1>2, GrowsByReading
<1>12. DownInv'
  <2>1. \A p \in Links, c \in Conns : remote'[p][c] = "none" <=> remote[p][c] = "none"
    BY <1>1, <1>7 DEF RelaysKept
  <2>2. \A c \in Conns : IF IsData(x, c)
                         THEN /\ remote[n][c] # "none"
                              /\ x.nth = back[c] + 1 /\ back'[c] = back[c] + 1
                         ELSE back'[c] = back[c]
    BY <1>2, <1>5
  <2>3. \/ /\ far[n] = "up" /\ link[n] # "closed"
           /\ down' = [down EXCEPT ![n] = Append(@, x)]
        \/ /\ far[n] # "up" \/ link[n] = "closed"
           /\ down' = down
    BY <1>2, FarRequestsDown
  <2> QED
    BY <1>2, <1>5, <1>11, <2>1, <2>2, <2>3, DownRequested
<1>13. LinksInOrder'
  BY <1>1, <1>2, LinksKept
<1> QED
  BY <1>10, <1>12, <1>13, FlowMeets

LEMMA RemoteDataFlow ==
  ASSUME FlowIInv, SessionIInv', NEW n \in Links, RemoteData(n)
  PROVE  FlowIInv'
<1> DEFINE m == Head(up[n])
           s == m.session
           o == farTable[n][s]
<1>1. /\ SessionIInv /\ TypeOK /\ Agrees(n, remote[n], farTable[n], stray)
      /\ Conns \subseteq Owners /\ NoOne \notin Conns
  BY TunnelAssumption DEF FlowIInv, SessionIInv, FarAgrees, Owners
<1>2. /\ up[n] # <<>> /\ far[n] # "none" /\ m.cmd = "DATA_TCP"
      /\ up' = [up EXCEPT ![n] = Tail(@)]
      /\ UNCHANGED <<sides, link, far, read, back, toClient>>
  BY DEF RemoteData, Delivers
<1>3. /\ s \in Sessions /\ s # 0 /\ m.of \in Conns /\ s = session[m.of]
      /\ \A c \in Conns : ~ IsStart(m, c) /\ (IsData(m, c) <=> m.of = c)
  BY <1>1, <1>2, RemoteHears DEF IsStart, IsData
<1>4. UNCHANGED <<session, table, local>> /\ m = Head(up[n])
  BY <1>2 DEF sides
<1>5. CASE o = NoOne /\ UNCHANGED <<down, farTable, remote, toHost>>
  <2>1. \A c \in Conns : IsData(m, c) => farTable[n][session[c]] # c
    BY <1>1, <1>3, <1>5
  <2> HIDE DEF m, o
  <2>2. TakenUp(n, m)
    BY <1>2, <1>3, <1>4, <1>5, <2>1 DEF TakenUp
  <2> QED
    BY <1>2, <1>4, <1>5, <2>2, RemoteTakesFlow
<1>6. CASE o # NoOne /\ Hand(o, m) /\ UNCHANGED <<down, farTable, remote>>
  <2>1. o \in Owners /\ session[o] = s /\ remote[n][o] # "none"
    BY <1>1, <1>3, <1>6 DEF TypeOK, Agrees
  <2>2. \A c \in Conns : IF c = o
                         THEN toHost'[c] = Append(toHost[c], [of |-> m.of, nth |-> m.nth])
                         ELSE toHost'[c] = toHost[c]
    BY <1>1, <1>6 DEF TypeOK, Hand
  <2>3. \A c \in Conns : Own(c) /\ session[c] = s => m.of = c
    BY <1>1, <1>3, SharesNone
  <2>4. \A c \in Conns : toHost'[c] = toHost[c] \/ remote[n][c] # "none"
    BY <2>1, <2>2
  <2>5. ASSUME NEW c \in Conns, Own(c), session[c] # 0
        PROVE  \/ /\ toHost'[c] = toHost[c]
                  /\ IsData(m, c) => farTable[n][session[c]] # c
               \/ /\ IsData(m, c) /\ farTable[n][session[c]] = c
                  /\ toHost'[c] = Append(toHost[c], [of |-> c, nth |-> m.nth])
    <3>1. CASE c = o
      <4>1. session[c] = s /\ m.of = c
        BY <2>1, <2>3, <2>5, <3>1
      <4> QED
        BY <1>3, <2>2, <3>1, <4>1
    <3>2. CASE c # o
      BY <1>3, <2>2, <3>2
    <3> QED
      BY <3>1, <3>2
  <2> HIDE DEF m, o
  <2>6. TakenUp(n, m)
    BY <1>2, <1>3, <1>4, <1>6, <2>4, <2>5 DEF TakenUp
  <2> QED
    BY <1>2, <1>4, <1>6, <2>6, RemoteTakesFlow
<1>7. \/ o = NoOne /\ UNCHANGED <<down, farTable, remote, toHost>>
      \/ /\ Dead(n, o)
         /\ FarRequests(n, remote[n], [farTable[n] EXCEPT ![s] = NoOne], Stop(s, o))
         /\ UNCHANGED toHost
      \/ o # NoOne /\ Hand(o, m) /\ UNCHANGED <<down, farTable, remote>>
  BY DEF RemoteData, farSides
<1> QED
  BY <1>5, <1>6, <1>7, RemoteAnswers

LEMMA ClosingFlow ==
  ASSUME FlowIInv, SessionIInv', NEW n \in Links, LinkCloses(n) \/ FarCloses(n)
  PROVE  FlowIInv'
<1>1. /\ link \in [Links -> LinkState] /\ far \in [Links -> LinkState]
      /\ LinksInOrder /\ TypeOK
  BY DEF FlowIInv, SessionIInv, TypeOK
<1>2. /\ UNCHANGED <<session, table, local, farTable, remote, read, back, toHost, toClient>>
      /\ \A p \in Links :
           /\ link'[p] = "none" <=> link[p] = "none"
           /\ link'[p] = "up" => link[p] = "up"
           /\ link'[p] # "closed" => link[p] # "closed"
  BY <1>1 DEF LinkCloses, FarCloses, sides, farSides, histories
<1>3. Grows
  BY <1>1, <1>2, GrowsByReading
<1>4. LinksInOrder'
  BY <1>1, <1>2, LinksKept
<1>5. CASE LinkCloses(n)
  <2>1. UNCHANGED <<up, far>>
    BY <1>5 DEF LinkCloses
  <2>2. UpInv'
    BY <1>2, <1>3, <2>1, UpUntouched
  <2> QED
    BY <1>4, <1>5, <2>2, DownCleared, FlowMeets
<1>6. CASE FarCloses(n)
  <2>1. UNCHANGED <<down, link>> /\ \A p \in Links : far'[p] = "up" => far[p] = "up"
    BY <1>1, <1>6 DEF FarCloses
  <2>2. DownInv'
    BY <1>2, <1>3, <2>1, DownUntouched
  <2> QED
    BY <1>4, <1>6, <2>2, UpCleared, FlowMeets
<1> QED
  BY <1>5, <1>6

-----------------------------------------------------------------------------
LEMMA FlowInit ==
  ASSUME Init
  PROVE  FlowIInv
<1>1. SessionIInv
  BY SessionInit
<1>2. Current = 0
  <2>1. {n \in Links : link[n] # "none"} = {}
    BY DEF Init
  <2> QED
    BY <2>1, FS_EmptySet DEF Current
<1>3. LinksInOrder
  BY <1>2 DEF LinksInOrder, Init, Links
<1>4. /\ \A c : ~ StartIn(<<>>, c) /\ ~ DataIn(<<>>, c) /\ Once(<<>>, c)
      /\ Conns \subseteq Owners /\ NoOne \notin Conns
  BY EmptyFlow, TunnelAssumption DEF Owners
<1>5. Unmade /\ StartsOnce /\ OneHome /\ Silent
  BY <1>4 DEF Init, Unmade, StartsOnce, OneHome, Silent, Begun
<1>6. UpOrder /\ DownOrder
  BY <1>4 DEF Init, UpOrder, DownOrder
<1>7. Len(<<>>) = 0
  OBVIOUS
<1>8. HandedUp /\ HandedDown
  BY <1>4, <1>7 DEF Init, HandedUp, HandedDown, Begins
<1> QED
  BY <1>1, <1>3, <1>5, <1>6, <1>8 DEF FlowIInv, UpInv, DownInv

LEMMA FlowStutters ==
  ASSUME FlowIInv, SessionIInv', UNCHANGED vars
  PROVE  FlowIInv'
<1>1. UNCHANGED <<sides, link, far, up, down, farTable, remote, read, back, toHost, toClient>>
  BY DEF vars, farSides, histories
<1>2. RelaysKept /\ ListsLess
  BY <1>1 DEF RelaysKept, ListsLess
<1> QED
  BY <1>1, <1>2, FarSideFlow

LEMMA FlowNext ==
  ASSUME FlowIInv, [Next]_vars
  PROVE  FlowIInv'
<1>0. SessionIInv'
  BY SessionNext DEF FlowIInv
<1>1. ASSUME NEW c \in Conns,
             \/ LocalAccepts(c) \/ LocalStarts(c) \/ LocalReads(c) \/ LocalFails(c)
             \/ LocalCatches(c) \/ LocalExpires(c)
      PROVE  FlowIInv'
  BY <1>0, <1>1, LocalAcceptsFlow, LocalReadsFlow, LocalAsksFlow, LocalStopsFlow
<1>2. ASSUME NEW c \in Conns, NEW n \in Links,
             RemoteStarts(n, c) \/ RemoteReads(n, c) \/ RemoteCatches(n, c)
      PROVE  FlowIInv'
  BY <1>0, <1>2, RemoteMovesFlow, RemoteReadsFlow, RemoteCatchesFlow DEF Owners
<1>3. ASSUME NEW u \in Srcs, LocalSendsUdp(u)
      PROVE  FlowIInv'
  BY <1>0, <1>3, LocalSendsUdpFlow
<1>4. ASSUME NEW n \in Links, LocalStep(n) \/ RemoteStep(n)
      PROVE  FlowIInv'
  BY <1>0, <1>4, LocalDeliversFlow, RemoteStartFlow, RemoteDataFlow, RemoteUdpFlow,
     RemoteStoppedFlow DEF RemoteStep
<1>5. ASSUME NEW n \in Links, NEW o \in Owners, RemoteFails(n, o)
      PROVE  FlowIInv'
  BY <1>0, <1>5, RemoteMovesFlow
<1>6. ASSUME NEW n \in Links, NEW s \in Sessions, RemoteExpires(n, s)
      PROVE  FlowIInv'
  BY <1>0, <1>6, RemoteExpiresFlow
<1>7. ASSUME NEW n \in Links,
             \/ LinkAccepted(n) \/ LinkStops(n) \/ FarStops(n)
             \/ LinkCloses(n) \/ FarCloses(n) \/ FarExpires(n)
      PROVE  FlowIInv'
  BY <1>0, <1>7, LinkFlow, ClosingFlow, FarExpiresFlow
<1> QED
  BY <1>0, <1>1, <1>2, <1>3, <1>4, <1>5, <1>6, <1>7, FlowStutters DEF Next

LEMMA FlowInductive ==
  Spec => []FlowIInv
BY FlowInit, FlowNext, PTL DEF Spec

LEMMA FlowImplies ==
  FlowIInv => OwnDataInOrder
<1> SUFFICES ASSUME FlowIInv, NEW c \in Conns, Alone(c)
             PROVE  /\ PrefixOf(toHost[c], Sent(c, read[c]))
                    /\ PrefixOf(toClient[c], Sent(c, back[c]))
  BY DEF OwnDataInOrder
<1>1. Own(c)
  BY DEF Own, Alone
<1>2. Begins(toHost[c], c, read[c]) /\ Begins(toClient[c], c, back[c])
  BY <1>1 DEF FlowIInv, UpInv, DownInv, HandedUp, HandedDown
<1>3. /\ read[c] \in Nat /\ back[c] \in Nat
      /\ Len(toHost[c]) \in Nat /\ Len(toClient[c]) \in Nat
  <2>1. /\ read[c] \in 0 .. MaxData /\ back[c] \in 0 .. MaxData
        /\ toHost[c] \in Seq(Chunk) /\ toClient[c] \in Seq(Chunk)
    BY DEF FlowIInv, SessionIInv, TypeOK, Owners
  <2> QED
    BY <2>1, LenProperties
<1>4. ASSUME NEW h, NEW k \in Nat, Len(h) \in Nat, Begins(h, c, k)
      PROVE  PrefixOf(h, Sent(c, k))
  <2>1. Len(Sent(c, k)) = k
    BY DEF Sent
  <2>2. \A i \in 1 .. Len(h) : Sent(c, k)[i] = [of |-> c, nth |-> i]
    BY <1>4 DEF Sent, Begins
  <2> QED
    BY <1>4, <2>1, <2>2 DEF PrefixOf, Begins
<1> QED
  BY <1>2, <1>3, <1>4

(* What reaches a connection is its own data, whole, in order and without  *)
(* gaps, for any number of connections, sources and links, whatever stops, *)
(* is late or is lost; unless it shares its number with a udp source.      *)
(* (relay_manager.cpp:116-158, 69-85)                                      *)
THEOREM TunnelOwnData == Spec => []OwnDataInOrder
BY FlowInductive, FlowImplies, PTL
=============================================================================
