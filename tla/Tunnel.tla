------------------------------- MODULE Tunnel -------------------------------
(***************************************************************************)
(* The managers of a local server and of the remote server, the links      *)
(* between them, and the sessions the links carry: how a connection gets   *)
(* its number, how START, DATA and STOP cross on a link, what is done with *)
(* data for a session that is unknown or stopped, and what becomes of the  *)
(* sessions when a link is lost and another takes its place.               *)
(*                                                                         *)
(* Each relay is reduced to what the modules of single relays show of it:  *)
(* it takes what it is handed in order (ImplementsPipe), and when its      *)
(* socket has closed it says so once (ClosedIsAnnounced).  A relay's call  *)
(* of add_request and the manager's handler are one step.  The remote      *)
(* server makes one manager per link; a local server has one for all.      *)
(***************************************************************************)
EXTENDS Integers, Sequences, FiniteSetsExt

CONSTANTS
  Conns,     \* connections clients open to the local server
  Srcs,      \* sources of udp datagrams
  NoOne,     \* owner of a session that is in no table
  MaxLinks,  \* links the local server makes; the last one is not lost
  MaxRead,   \* chunks read of a connection, from client and host together
  MaxUdp     \* datagrams of each source

ASSUME TunnelAssumption ==
  /\ IsFiniteSet(Conns) /\ IsFiniteSet(Srcs)
  /\ NoOne \notin Conns \cup Srcs
  /\ Conns \cap Srcs = {}
  /\ MaxLinks \in Nat \ {0}
  /\ MaxRead \in Nat /\ MaxUdp \in Nat

Links == 1 .. MaxLinks
Owners == Conns \cup Srcs
Sessions == 1 .. Cardinality(Owners) + 1

VARIABLES
  counter,      \* _session of the local manager
  session,      \* the number of each connection and source, 0 before it has one
  table,        \* _relays of the local manager
  local,        \* the local relay of each connection
  link,         \* the local server's ssl_relay of each link
  far,          \* the remote server's ssl_relay of each link
  up, down,     \* messages on their way to the remote and to the local server
  farTable,     \* _relays of the remote manager of each link
  remote,       \* the remote relays of each link
  gone,         \* remote managers whose _state is RELAY_STOP
  read, back,   \* history: chunks read from the client and from the host
  toHost, toClient, \* history: chunks handed to the connection's relays
  stray         \* history: relays started or left running that nobody lists

sides == <<counter, session, table, local>>
farSides == <<farTable, remote, gone>>
histories == <<read, back, toHost, toClient, stray>>
vars == <<sides, link, far, up, down, farSides, histories>>

MaxData == Max({MaxRead, MaxUdp})
Chunk == [of : Owners, nth : 1 .. MaxData]
Message == [cmd : {"START_TCP", "STOP_TCP", "DATA_TCP", "DATA_UDP"},
            session : Sessions, of : Owners, nth : 0 .. MaxData]
Start(o) == [cmd |-> "START_TCP", session |-> session[o], of |-> o, nth |-> 0]
Stop(s, o) == [cmd |-> "STOP_TCP", session |-> s, of |-> o, nth |-> 0]
Data(s, o, k) == [cmd |-> "DATA_TCP", session |-> s, of |-> o, nth |-> k]

(* "doomed" has been stopped in its handshake and will still send START.   *)
LocalState == {"none", "fresh", "doomed", "open", "stopping", "ended"}
RemoteState == {"none", "starting", "open", "stopping", "ended"}
LinkState == {"none", "up", "stopped", "closed"}

TypeOK ==
  /\ counter \in 1 .. Cardinality(Owners) + 1
  /\ session \in [Owners -> {0} \cup Sessions]
  /\ table \in [Sessions -> Conns \cup {NoOne}]
  /\ local \in [Conns -> LocalState]
  /\ link \in [Links -> LinkState]
  /\ far \in [Links -> LinkState]
  /\ up \in [Links -> Seq(Message)]
  /\ down \in [Links -> Seq(Message)]
  /\ farTable \in [Links -> [Sessions -> Owners \cup {NoOne}]]
  /\ remote \in [Links -> [Owners -> RemoteState]]
  /\ gone \in SUBSET Links
  /\ read \in [Owners -> 0 .. MaxData]
  /\ back \in [Conns -> 0 .. MaxData]
  /\ toHost \in [Conns -> Seq(Chunk)]
  /\ toClient \in [Conns -> Seq(Chunk)]
  /\ stray \in SUBSET (Links \X Conns)

Init ==
  /\ counter = 1
  /\ session = [o \in Owners |-> 0]
  /\ table = [s \in Sessions |-> NoOne]
  /\ local = [c \in Conns |-> "none"]
  /\ link = [n \in Links |-> "none"]
  /\ far = [n \in Links |-> "none"]
  /\ up = [n \in Links |-> <<>>]
  /\ down = [n \in Links |-> <<>>]
  /\ farTable = [n \in Links |-> [s \in Sessions |-> NoOne]]
  /\ remote = [n \in Links |-> [o \in Owners |-> "none"]]
  /\ gone = {}
  /\ read = [o \in Owners |-> 0]
  /\ back = [c \in Conns |-> 0]
  /\ toHost = [c \in Conns |-> <<>>]
  /\ toClient = [c \in Conns |-> <<>>]
  /\ stray = {}

-----------------------------------------------------------------------------
(* The local manager.                                                      *)

(* The link _ssl points to is the last one made.                           *)
Current == Cardinality({n \in Links : link[n] # "none"})
Usable == Current > 0 /\ link[Current] = "up"
Carrier == IF Usable THEN Current ELSE Current + 1

(* add_request() of a local server: without a link that works a new one is *)
(* started, and the message is queued there.  A link the other side has    *)
(* left takes it and loses it.                                             *)
LocalRequests(m) ==
  /\ Carrier \in Links
  /\ link' = [link EXCEPT ![Carrier] = "up"]
  /\ up' = IF far[Carrier] = "closed" THEN up
           ELSE [up EXCEPT ![Carrier] = Append(@, m)]

(* add_local_raw_tcp(): the number is taken, and a relay whose number is   *)
(* in use is dropped.                                                      *)
LocalAccepts(c) ==
  /\ local[c] = "none"
  /\ counter' = counter + 1
  /\ session' = [session EXCEPT ![c] = counter]
  /\ IF table[counter] = NoOne
     THEN /\ table' = [table EXCEPT ![counter] = c]
          /\ local' = [local EXCEPT ![c] = "fresh"]
     ELSE /\ local' = [local EXCEPT ![c] = "ended"]
          /\ UNCHANGED table
  /\ UNCHANGED <<link, far, up, down, farSides, histories>>

(* The handshake ends with START_TCP, and the reader is spawned.           *)
LocalStarts(c) ==
  /\ local[c] \in {"fresh", "doomed"}
  /\ LocalRequests(Start(c))
  /\ local' = [local EXCEPT ![c] = IF @ = "fresh" THEN "open" ELSE "stopping"]
  /\ UNCHANGED <<counter, session, table, far, down, farSides, histories>>

LocalReads(c) ==
  /\ local[c] = "open"
  /\ read[c] + back[c] < MaxRead
  /\ read' = [read EXCEPT ![c] = @ + 1]
  /\ LocalRequests(Data(session[c], c, read'[c]))
  /\ UNCHANGED <<sides, far, down, farSides, back, toHost, toClient, stray>>

(* stop_relay() of a local relay; one still in its handshake may get as    *)
(* far as START_TCP.                                                       *)
LocalStop(c) ==
  \/ /\ local[c] \in {"fresh", "open"}
     /\ local' = [local EXCEPT ![c] = "stopping"]
  \/ /\ local[c] = "fresh"
     /\ local' = [local EXCEPT ![c] = "doomed"]
  \/ /\ local[c] \notin {"fresh", "open"}
     /\ UNCHANGED local

(* The client leaves, or a read or a write fails.                          *)
LocalFails(c) ==
  /\ local[c] \in {"fresh", "open"}
  /\ local' = [local EXCEPT ![c] = "stopping"]
  /\ UNCHANGED <<counter, session, table, link, far, up, down, farSides, histories>>

(* A fault: the other side is not told.                                    *)
LocalCatchesQuietly(c) ==
  /\ local[c] = "stopping"
  /\ local' = [local EXCEPT ![c] = "ended"]
  /\ UNCHANGED <<counter, session, table, link, far, up, down, farSides, histories>>

(* The catch clause of the last coroutine to notice.                       *)
LocalCatches(c) ==
  /\ local[c] = "stopping"
  /\ local' = [local EXCEPT ![c] = "ended"]
  /\ LocalRequests(Stop(session[c], c))
  /\ UNCHANGED <<counter, session, table, far, down, farSides, histories>>

(* The idle timer stops a relay and erases it.                             *)
LocalExpires(c) ==
  /\ session[c] # 0
  /\ table[session[c]] = c
  /\ table' = [table EXCEPT ![session[c]] = NoOne]
  /\ LocalStop(c)
  /\ UNCHANGED <<counter, session, link, far, up, down, farSides, histories>>

(* send_udp_data(): a source without a session gets one, ++_session.       *)
LocalSendsUdp(u) ==
  /\ read[u] < MaxUdp
  /\ session' = [session EXCEPT ![u] = IF @ = 0 THEN counter + 1 ELSE @]
  /\ counter' = IF session[u] = 0 THEN counter + 1 ELSE counter
  /\ read' = [read EXCEPT ![u] = @ + 1]
  /\ LocalRequests([cmd |-> "DATA_UDP", session |-> session'[u], of |-> u, nth |-> read'[u]])
  /\ UNCHANGED <<table, local, far, down, farSides, back, toHost, toClient, stray>>

(* add_response() of a local server, for the message at the head of a      *)
(* link that still delivers.  Data for a session that is not listed is     *)
(* dropped; data for a relay that has stopped is answered with a STOP_TCP. *)
Delivers(l, channel, n) ==
  /\ l[n] \in {"up", "stopped"}
  /\ channel[n] # <<>>

LocalData(n) ==
  /\ Delivers(link, down, n)
  /\ LET m == Head(down[n])
         c == table[m.session] IN
     /\ m.cmd = "DATA_TCP"
     /\ down' = [down EXCEPT ![n] = Tail(@)]
     /\ \/ /\ c = NoOne
           /\ UNCHANGED <<table, link, up, toClient>>
        \/ /\ c # NoOne
           /\ local[c] \in {"stopping", "ended"}
           /\ table' = [table EXCEPT ![m.session] = NoOne]
           /\ LocalRequests(Stop(m.session, c))
           /\ UNCHANGED toClient
        \/ /\ c # NoOne
           /\ local[c] \notin {"stopping", "ended"}
           /\ toClient' = [toClient EXCEPT ![c] = Append(@, [of |-> m.of, nth |-> m.nth])]
           /\ UNCHANGED <<table, link, up>>
  /\ UNCHANGED <<counter, session, local, far, farSides, read, back, toHost, stray>>

(* A fault: the entry goes and the relay stays.                            *)
LocalStoppedErases(n) ==
  /\ Delivers(link, down, n)
  /\ LET m == Head(down[n]) IN
     /\ m.cmd = "STOP_TCP"
     /\ down' = [down EXCEPT ![n] = Tail(@)]
     /\ table' = [table EXCEPT ![m.session] = NoOne]
  /\ UNCHANGED <<counter, session, local, link, far, up, farSides, histories>>

LocalStopped(n) ==
  /\ Delivers(link, down, n)
  /\ LET m == Head(down[n])
         c == table[m.session] IN
     /\ m.cmd = "STOP_TCP"
     /\ down' = [down EXCEPT ![n] = Tail(@)]
     /\ \/ c = NoOne /\ UNCHANGED <<table, local>>
        \/ c # NoOne /\ table' = [table EXCEPT ![m.session] = NoOne] /\ LocalStop(c)
  /\ UNCHANGED <<counter, session, link, far, up, farSides, histories>>

-----------------------------------------------------------------------------
(* The remote managers.                                                    *)

Listed(n) == {o \in Owners : \E s \in Sessions : farTable[n][s] = o}

(* What a relay has to do when it is told to stop: a udp relay nobody need *)
(* hear of, a tcp relay will say so.                                       *)
Halted(o) == IF o \in Srcs THEN "ended" ELSE "stopping"

(* stop_relay() of the relays in os: one that is still looking for its     *)
(* destination may not notice.                                             *)
Halt(r, os, kept) ==
  [o \in Owners |-> IF o \in os \ kept /\ r[o] \in {"starting", "open"}
                    THEN Halted(o) ELSE r[o]]
Keepable(r, os) == SUBSET {o \in os \cap Conns : r[o] = "starting"}

(* stop_manager(), when the relays of link n are in the states r.          *)
StopManager(n, r) ==
  /\ \E kept \in Keepable(r, Listed(n)) :
       /\ remote' = [remote EXCEPT ![n] = Halt(r, Listed(n), kept)]
       /\ stray' = stray \cup ({n} \X kept)
  /\ farTable' = [farTable EXCEPT ![n] = [s \in Sessions |-> NoOne]]
  /\ gone' = gone \cup {n}

(* add_request() of a remote server, when its relays are in the states r   *)
(* and its table is t: a link that has stopped stops the manager.          *)
FarRequests(n, r, t, m) ==
  \/ /\ far[n] = "up"
     /\ down' = IF link[n] = "closed" THEN down ELSE [down EXCEPT ![n] = Append(@, m)]
     /\ remote' = [remote EXCEPT ![n] = r]
     /\ farTable' = [farTable EXCEPT ![n] = t]
     /\ UNCHANGED <<gone, stray>>
  \/ /\ far[n] # "up"
     /\ StopManager(n, r)
     /\ UNCHANGED down

(* The destination is reached, or it is not.                               *)
RemoteStarts(n, c) ==
  /\ remote[n][c] = "starting"
  /\ remote' = [remote EXCEPT ![n][c] = "open"]
  /\ UNCHANGED <<sides, link, far, up, down, farTable, gone, histories>>

RemoteReads(n, c) ==
  /\ remote[n][c] = "open"
  /\ read[c] + back[c] < MaxRead
  /\ back' = [back EXCEPT ![c] = @ + 1]
  /\ FarRequests(n, remote[n], farTable[n], Data(session[c], c, back'[c]))
  /\ UNCHANGED <<sides, link, far, up, read, toHost, toClient>>

(* The host closes, or resolving, connecting, a read or a write fails.     *)
RemoteFails(n, o) ==
  /\ remote[n][o] \in {"starting", "open"}
  /\ remote' = [remote EXCEPT ![n][o] = Halted(o)]
  /\ UNCHANGED <<sides, link, far, up, down, farTable, gone, histories>>

(* A tcp relay that has ended says so.                                     *)
RemoteCatches(n, c) ==
  /\ remote[n][c] = "stopping"
  /\ FarRequests(n, [remote[n] EXCEPT ![c] = "ended"], farTable[n], Stop(session[c], c))
  /\ UNCHANGED <<sides, link, far, up, read, back, toHost, toClient>>

(* The idle timer stops a relay and erases it.                             *)
RemoteExpires(n, s) ==
  /\ far[n] # "none"
  /\ n \notin gone
  /\ farTable[n][s] # NoOne
  /\ \E kept \in Keepable(remote[n], {farTable[n][s]}) :
       /\ remote' = [remote EXCEPT ![n] = Halt(@, {farTable[n][s]}, kept)]
       /\ stray' = stray \cup ({n} \X kept)
  /\ farTable' = [farTable EXCEPT ![n][s] = NoOne]
  /\ UNCHANGED <<sides, link, far, up, down, gone, read, back, toHost, toClient>>

(* remote_server_start_tcp(): a relay listed under the number is stopped   *)
(* and replaced.  A manager that has stopped starts the new one all the    *)
(* same, and nobody will stop it.                                          *)
RemoteStart(n) ==
  /\ Delivers(far, up, n)
  /\ LET m == Head(up[n])
         old == {farTable[n][m.session]} \ {NoOne} IN
     /\ m.cmd = "START_TCP"
     /\ up' = [up EXCEPT ![n] = Tail(@)]
     /\ \E kept \in Keepable(remote[n], old) :
          /\ remote' = [remote EXCEPT ![n] = [Halt(@, old, kept) EXCEPT ![m.of] = "starting"]]
          /\ stray' = stray \cup ({n} \X (kept \cup IF n \in gone THEN {m.of} ELSE {}))
     /\ farTable' = [farTable EXCEPT ![n][m.session] = m.of]
  /\ UNCHANGED <<sides, link, far, down, gone, read, back, toHost, toClient>>

(* A relay whose state the manager sees to be RELAY_STOP.                  *)
Dead(n, o) == o # NoOne /\ remote[n][o] \in {"stopping", "ended"}

(* send_data() of a listed relay: only what reaches a connection's relay   *)
(* is recorded.                                                            *)
Hand(o, m) ==
  toHost' = IF o \in Conns
            THEN [toHost EXCEPT ![o] = Append(@, [of |-> m.of, nth |-> m.nth])]
            ELSE toHost

(* A fault: data that arrives before the connect has completed is dropped. *)
RemoteDataWhenOpen(n) ==
  /\ Delivers(far, up, n)
  /\ LET m == Head(up[n])
         o == farTable[n][m.session] IN
     /\ m.cmd = "DATA_TCP"
     /\ up' = [up EXCEPT ![n] = Tail(@)]
     /\ IF o # NoOne /\ remote[n][o] = "open" THEN Hand(o, m) ELSE UNCHANGED toHost
  /\ UNCHANGED <<sides, link, far, down, farSides, read, back, toClient, stray>>

(* add_response(DATA_TCP).                                                 *)
RemoteData(n) ==
  /\ Delivers(far, up, n)
  /\ LET m == Head(up[n])
         o == farTable[n][m.session] IN
     /\ m.cmd = "DATA_TCP"
     /\ up' = [up EXCEPT ![n] = Tail(@)]
     /\ \/ /\ o = NoOne
           /\ UNCHANGED <<down, farSides, toHost, stray>>
        \/ /\ Dead(n, o)
           /\ FarRequests(n, remote[n], [farTable[n] EXCEPT ![m.session] = NoOne],
                          Stop(m.session, o))
           /\ UNCHANGED toHost
        \/ /\ o # NoOne
           /\ ~ Dead(n, o)
           /\ Hand(o, m)
           /\ UNCHANGED <<down, farSides, stray>>
  /\ UNCHANGED <<sides, link, far, read, back, toClient>>

(* add_response(DATA_UDP): remote_server_send_udp() hands the datagram to  *)
(* the relay listed under the number, whatever it is, or makes one.        *)
RemoteUdp(n) ==
  /\ Delivers(far, up, n)
  /\ LET m == Head(up[n])
         o == farTable[n][m.session] IN
     /\ m.cmd = "DATA_UDP"
     /\ up' = [up EXCEPT ![n] = Tail(@)]
     /\ \/ /\ o = NoOne \/ Dead(n, o)
           /\ farTable' = [farTable EXCEPT ![n][m.session] = m.of]
           /\ remote' = [remote EXCEPT ![n][m.of] = "open"]
           /\ UNCHANGED toHost
        \/ /\ o # NoOne
           /\ ~ Dead(n, o)
           /\ Hand(o, m)
           /\ UNCHANGED <<farTable, remote>>
  /\ UNCHANGED <<sides, link, far, down, gone, read, back, toClient, stray>>

(* add_response(STOP_TCP).                                                 *)
RemoteStopped(n) ==
  /\ Delivers(far, up, n)
  /\ LET m == Head(up[n])
         old == {farTable[n][m.session]} \ {NoOne} IN
     /\ m.cmd = "STOP_TCP"
     /\ up' = [up EXCEPT ![n] = Tail(@)]
     /\ \E kept \in Keepable(remote[n], old) :
          /\ remote' = [remote EXCEPT ![n] = Halt(@, old, kept)]
          /\ stray' = stray \cup ({n} \X kept)
     /\ farTable' = [farTable EXCEPT ![n][m.session] = NoOne]
  /\ UNCHANGED <<sides, link, far, down, gone, read, back, toHost, toClient>>

-----------------------------------------------------------------------------
(* The links.  A link that has stopped takes no more requests but may      *)
(* still deliver, until it is closed.                                      *)

(* The remote server accepts the link and gives it a manager.              *)
LinkAccepted(n) ==
  /\ far[n] = "none"
  /\ link[n] \in {"up", "stopped"}
  /\ far' = [far EXCEPT ![n] = "up"]
  /\ UNCHANGED <<sides, link, up, down, farSides, histories>>

(* Either side stops: a failure, the idle timer, or the other side has.    *)
Losable(n) == n < MaxLinks

LinkStops(n) ==
  /\ link[n] = "up"
  /\ Losable(n) \/ far[n] \in {"stopped", "closed"}
  /\ link' = [link EXCEPT ![n] = "stopped"]
  /\ UNCHANGED <<sides, far, up, down, farSides, histories>>

FarStops(n) ==
  /\ far[n] = "up"
  /\ Losable(n) \/ link[n] \in {"stopped", "closed"}
  /\ far' = [far EXCEPT ![n] = "stopped"]
  /\ UNCHANGED <<sides, link, up, down, farSides, histories>>

LinkCloses(n) ==
  /\ link[n] = "stopped"
  /\ link' = [link EXCEPT ![n] = "closed"]
  /\ down' = [down EXCEPT ![n] = <<>>]
  /\ UNCHANGED <<sides, far, up, farSides, histories>>

FarCloses(n) ==
  /\ far[n] = "stopped"
  /\ far' = [far EXCEPT ![n] = "closed"]
  /\ up' = [up EXCEPT ![n] = <<>>]
  /\ UNCHANGED <<sides, link, down, farSides, histories>>

(* A fault: the timer stops the manager's loop and not its relays.         *)
FarExpiresAlone(n) ==
  /\ far[n] # "none"
  /\ n \notin gone
  /\ Losable(n) \/ far[n] # "up"
  /\ far' = [far EXCEPT ![n] = IF @ = "up" THEN "stopped" ELSE @]
  /\ gone' = gone \cup {n}
  /\ UNCHANGED <<sides, link, up, down, farTable, remote, histories>>

(* start_timer() of a remote manager: a link whose counter is zero, which  *)
(* timeout_down() has stopped, stops the manager and ends its timer.       *)
FarExpires(n) ==
  /\ far[n] # "none"
  /\ n \notin gone
  /\ Losable(n) \/ far[n] # "up"
  /\ far' = [far EXCEPT ![n] = IF @ = "up" THEN "stopped" ELSE @]
  /\ StopManager(n, remote[n])
  /\ UNCHANGED <<sides, link, up, down, read, back, toHost, toClient>>

-----------------------------------------------------------------------------
LocalStep(n) == LocalData(n) \/ LocalStopped(n)
RemoteStep(n) == RemoteStart(n) \/ RemoteData(n) \/ RemoteUdp(n) \/ RemoteStopped(n)

Next ==
  \/ \E c \in Conns :
       \/ LocalAccepts(c) \/ LocalStarts(c) \/ LocalReads(c) \/ LocalFails(c)
       \/ LocalCatches(c) \/ LocalExpires(c)
       \/ \E n \in Links :
            RemoteStarts(n, c) \/ RemoteReads(n, c) \/ RemoteCatches(n, c)
  \/ \E u \in Srcs : LocalSendsUdp(u)
  \/ \E n \in Links :
       \/ LocalStep(n) \/ RemoteStep(n)
       \/ \E o \in Owners : RemoteFails(n, o)
       \/ \E s \in Sessions : RemoteExpires(n, s)
       \/ LinkAccepted(n) \/ LinkStops(n) \/ FarStops(n)
       \/ LinkCloses(n) \/ FarCloses(n) \/ FarExpires(n)

(* What the strands and a connected link do.  Clients, hosts and the idle  *)
(* timer of a single relay need do nothing; a link is noticed to be lost,  *)
(* and the timer of a lost link goes off.  No step can be repeated for     *)
(* ever, so fairness of each side is fairness of all its steps.            *)
LocalMoves ==
  \/ \E c \in Conns : LocalStarts(c) \/ LocalCatches(c)
  \/ \E n \in Links :
       \/ LocalStep(n) \/ LinkCloses(n)
       \/ far[n] # "up" /\ LinkStops(n)

RemoteMoves ==
  \E n \in Links :
    \/ \E c \in Conns : RemoteStarts(n, c) \/ RemoteCatches(n, c)
    \/ RemoteStep(n) \/ LinkAccepted(n) \/ FarCloses(n)
    \/ link[n] # "up" /\ FarStops(n)
    \/ far[n] # "up" /\ FarExpires(n)

Fairness == WF_vars(LocalMoves) /\ WF_vars(RemoteMoves)

Spec == Init /\ [][Next]_vars /\ Fairness

-----------------------------------------------------------------------------
Sent(c, k) == [i \in 1 .. k |-> [of |-> c, nth |-> i]]
PrefixOf(s, t) == Len(s) <= Len(t) /\ \A i \in 1 .. Len(s) : s[i] = t[i]

(* A connection has a number of its own.                                   *)
Alone(c) == \A o \in Owners \ {c} : session[o] # session[c]

(* What reaches a connection is its own data, whole, in order and without  *)
(* gaps, through every stop, late message and new link; unless it shares   *)
(* its number with a udp source.  (relay_manager.cpp:116-158, 69-85)       *)
OwnDataInOrder ==
  \A c \in Conns : Alone(c) =>
    /\ PrefixOf(toHost[c], Sent(c, read[c]))
    /\ PrefixOf(toClient[c], Sent(c, back[c]))

(* What doc/transparent.org:3 says, "one connection(dst/src) one session": *)
(* nothing but its own data reaches a connection.                          *)
OneConnectionOneSession ==
  \A c \in Conns : \A i \in DOMAIN toHost[c] : toHost[c][i].of = c

(* Tables and relays agree: a relay that serves is listed under its number *)
(* so that data and stops find it, a local one always and a remote one     *)
(* unless its stop went unnoticed or its manager had stopped before.       *)
(* (relay_manager.cpp:105-115, 148-171, 214-222)                           *)
ServingIsListed ==
  \A c \in Conns :
    /\ local[c] \in {"fresh", "open"} => table[session[c]] = c
    /\ \A n \in Links : remote[n][c] \in {"starting", "open"} =>
         farTable[n][session[c]] = c \/ <<n, c>> \in stray

(* The types, and tables and relays that agree: no data is written to a    *)
(* relay that a STOP_TCP would not find.  (relay_manager.cpp:105-171)      *)
SessionInv == TypeOK /\ ServingIsListed

Lost(n) == link[n] \in {"stopped", "closed"} \/ far[n] \in {"stopped", "closed"}

(* A relay that has ended, or was never made; one that nobody lists ends   *)
(* with its host.                                                          *)
Over(n, c) == remote[n][c] \in {"none", "ended"} \/ <<n, c>> \in stray

(* When the client's side has ended so does the host's, without the help   *)
(* of an idle timer, also if the link is lost under the STOP_TCP.          *)
(* (raw_tcp.cpp:66-74, relay_manager.cpp:74-78, 148-157)                   *)
EndsWithClient ==
  <>[](\A c \in Conns, n \in Links : local[c] = "ended" => Over(n, c))

(* When the host's side has ended so does the client's, unless the link    *)
(* that would carry the STOP_TCP is lost.                                  *)
EndsWithHost ==
  <>[](\A c \in Conns, n \in Links :
         remote[n][c] = "ended" => local[c] = "ended" \/ Lost(n))

(* Neither side of a session is left waiting for the other, whichever      *)
(* ends first.  (raw_tcp.cpp:66-74, relay_manager.cpp:69-85, 148-157)      *)
EndsTogether == EndsWithClient /\ EndsWithHost

(* No session outlives its link at the remote server: all relays of a lost *)
(* link's manager end.  (relay_manager.cpp:74-78, 162-170, 190-194)        *)
EndsWithLink ==
  <>[](\A c \in Conns, n \in Links : Lost(n) => Over(n, c))

(* Both relays of a connection serve it, and no link has been lost.        *)
Serving(c) ==
  /\ local[c] = "open"
  /\ \A n \in Links : ~ Lost(n) /\ ~ Dead(n, c) /\ <<n, c>> \notin stray

(* Every chunk read from a client or from a host is handed to the relay at *)
(* the other end, though that one may still be connecting when the first   *)
(* arrives; or the session or a link ends.  (relay_manager.cpp:83, 131)    *)
Delivered ==
  <>[](\A c \in Conns : Alone(c) /\ Serving(c) =>
         Len(toHost[c]) >= read[c] /\ Len(toClient[c]) >= back[c])
=============================================================================
