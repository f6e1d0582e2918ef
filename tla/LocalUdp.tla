------------------------------ MODULE LocalUdp ------------------------------
(***************************************************************************)
(* The udp half of a transparent local server.  Datagrams of a client are  *)
(* numbered with the session of their source and go to the remote server;  *)
(* the replies that come back are sent by one raw_udp, _udp_send, which    *)
(* binds its socket to the address the reply comes from and looks up the   *)
(* client in its own table.  The manager keeps two tables of its own,      *)
(* _srcs and _udp_srcs, in its strand; the reply relay keeps _peers in     *)
(* another, and the manager's changes reach it as posted handlers.         *)
(*                                                                         *)
(* The sender is BaseRelay's.  The maps are total functions: a key that is *)
(* absent has the value operator[] would insert, a session and a timeout   *)
(* of zero, or the empty endpoint NoSrc.  A _udp_send that stopped is      *)
(* replaced; its coroutine has returned and nothing it still runs has an   *)
(* effect, so the variables of the relay are those of the latest one.      *)
(***************************************************************************)
EXTENDS BaseRelay

CONSTANTS
  Srcs,         \* clients, by their udp endpoint
  NoSrc,        \* the empty endpoint
  Dests,        \* addresses replies come from
  NoDest,       \* _local before the first reply
  MaxSession,   \* bounds the sessions numbered, 2^32 in the code
  MaxRequests,  \* bounds the datagrams clients send
  MaxPosted     \* bounds the handlers waiting when the timer ticks

Ids == 1 .. MaxSession

(* Data are the replies: each has the session it belongs to and the        *)
(* address it comes from.                                                  *)
ASSUME LocalUdpAssumption ==
  /\ NoSrc \notin Srcs
  /\ NoDest \notin Dests
  /\ \A d \in Data : d.session \in Ids /\ d.from \in Dests
  /\ MaxSession \in Nat \ {0}
  /\ MaxRequests \in Nat
  /\ MaxPosted \in Nat

VARIABLES
  session,    \* _session
  srcs,       \* _srcs
  udpSrcs,    \* _udp_srcs
  peers,      \* _peers of the reply relay
  local,      \* _local, the address its socket is bound to
  dst,        \* the endpoint the pending send goes to
  posted,     \* handlers posted to the reply relay's strand
  requests,   \* history: the datagrams passed to add_request
  given,      \* history: the replies that have come
  delivered   \* history: the datagrams sent to clients

tableVars == <<session, srcs, udpSrcs>>
relayVars == <<peers, local, dst, posted>>
history == <<requests, given, delivered>>
vars == <<baseVars, tableVars, relayVars, history>>

Endpoint == Srcs \cup {NoSrc}
Entry == [session : 0 .. MaxSession, timeout : 0 .. TIMEOUT]
NoEntry == [session |-> 0, timeout |-> 0]
Listed(c) == srcs[c].timeout > 0

(* del_peer(s) is posted once for every source a tick of the timer erases; *)
(* those of one tick follow each other and commute, and are one handler.   *)
Handler == [run : {"init"}]
             \cup [run : {"send"}, buf : Data]
             \cup [run : {"add"}, id : Ids, peer : Srcs]
             \cup [run : {"del"}, ids : SUBSET (0 .. MaxSession)]
Start == [run |-> "init"]
Send(d) == [run |-> "send", buf |-> d]
AddPeer(s, c) == [run |-> "add", id |-> s, peer |-> c]
DelPeers(ids) == [run |-> "del", ids |-> ids]

TypeOK ==
  /\ BaseTypeOK
  /\ session \in Ids
  /\ srcs \in [Endpoint -> Entry]
  /\ udpSrcs \in [Ids -> Endpoint]
  /\ peers \in [Ids -> Endpoint]
  /\ local \in Dests \cup {NoDest}
  /\ dst \in Endpoint
  /\ posted \in Seq(Handler)
  /\ requests \in Seq([session : Ids, src : Srcs])
  /\ given \subseteq Data
  /\ delivered \in Seq([reply : Data, to : Srcs, from : Dests])

(* manager_start() of a local server has started the first reply relay.    *)
Init ==
  /\ BaseInit
  /\ session = 1
  /\ srcs = [c \in Endpoint |-> NoEntry]
  /\ udpSrcs = [s \in Ids |-> NoSrc]
  /\ peers = [s \in Ids |-> NoSrc]
  /\ local = NoDest
  /\ dst = NoSrc
  /\ posted = <<Start>>
  /\ requests = <<>>
  /\ given = {}
  /\ delivered = <<>>

-----------------------------------------------------------------------------
(* The manager's strand.                                                   *)

(* start_local_udp(): a new relay, without the peers of the old one.       *)
StartLocalUdp(handlers) ==
  /\ state' = "UNINIT"
  /\ bufs' = <<>>
  /\ coros' = <<>>
  /\ timeout' = TIMEOUT
  /\ accepted' = <<>>
  /\ peers' = [s \in Ids |-> NoSrc]
  /\ local' = NoDest
  /\ dst' = NoSrc
  /\ posted' = <<Start>> \o handlers

(* Handlers are posted to _udp_send, to a new one if it has stopped.       *)
PostToUdpSend(handlers) ==
  /\ UNCHANGED down
  /\ \/ /\ state = "STOP"
        /\ StartLocalUdp(handlers)
     \/ /\ state # "STOP"
        /\ posted' = posted \o handlers
        /\ UNCHANGED <<state, bufs, coros, timeout, accepted, peers, local, dst>>

NewSession(c) == srcs[c].session = 0
SessionOf(c) == IF NewSession(c) THEN session + 1 ELSE srcs[c].session

(* send_udp_data(): a source without a session gets the next one.          *)
SendUdpData(c) ==
  LET s == SessionOf(c) IN
  /\ s <= MaxSession
  /\ Len(requests) < MaxRequests
  /\ \/ /\ NewSession(c)
        /\ session' = s
        /\ PostToUdpSend(<<AddPeer(s, c)>>)
        /\ udpSrcs' = [udpSrcs EXCEPT ![s] = c]
     \/ /\ ~ NewSession(c)
        /\ UNCHANGED <<baseVars, session, udpSrcs, relayVars>>
  /\ srcs' = [srcs EXCEPT ![c] = [session |-> s, timeout |-> TIMEOUT]]
  /\ requests' = Append(requests, [session |-> s, src |-> c])
  /\ UNCHANGED <<given, delivered>>

(* add_response(DATA_UDP): the reply is handed to the reply relay and      *)
(* keeps its source alive, or the empty endpoint when the session has been *)
(* erased meanwhile.                                                       *)
Response(d) ==
  /\ d \notin given
  /\ \E i \in DOMAIN requests : requests[i].session = d.session
  /\ PostToUdpSend(<<Send(d)>>)
  /\ srcs' = [srcs EXCEPT ![udpSrcs[d.session]].timeout = TIMEOUT]
  /\ given' = given \cup {d}
  /\ UNCHANGED <<session, udpSrcs, requests, delivered>>

(* A fault: with the sources, their numbering begins anew.                 *)
TickIdleRenumbers ==
  /\ requests # <<>>
  /\ Len(posted) < MaxPosted
  /\ session' = 1
  /\ srcs' = [c \in Endpoint |-> NoEntry]
  /\ udpSrcs' = [s \in Ids |-> NoSrc]
  /\ posted' = Append(posted, DelPeers({0}))
  /\ UNCHANGED <<baseVars, peers, local, dst, history>>

(* start_timer(): the link's timeout_down() returned zero.  All sources    *)
(* are forgotten, and del_peer(0) stands for all peers.                    *)
TickIdle ==
  /\ requests # <<>>
  /\ Len(posted) < MaxPosted
  /\ srcs' = [c \in Endpoint |-> NoEntry]
  /\ udpSrcs' = [s \in Ids |-> NoSrc]
  /\ posted' = Append(posted, DelPeers({0}))
  /\ UNCHANGED <<baseVars, session, peers, local, dst, history>>

(* Sources the next tick of the timer erases.                              *)
Expiring == {c \in Endpoint : srcs[c].timeout = 1}
ExpiringIds == {srcs[c].session : c \in Expiring}
CountedDown(e) ==
  IF e.timeout <= 1 THEN NoEntry ELSE [e EXCEPT !.timeout = e.timeout - 1]

(* A fault: the reply relay is not told of an erased source.               *)
TickKeepsPeer ==
  /\ Len(posted) < MaxPosted
  /\ srcs' = [c \in Endpoint |-> CountedDown(srcs[c])]
  /\ udpSrcs' = [s \in Ids |-> IF s \in ExpiringIds THEN NoSrc ELSE udpSrcs[s]]
  /\ UNCHANGED <<baseVars, session, posted, peers, local, dst, history>>

(* start_timer(): every source is counted down and erased at zero.         *)
Tick ==
  /\ Len(posted) < MaxPosted
  /\ srcs' = [c \in Endpoint |-> CountedDown(srcs[c])]
  /\ udpSrcs' = [s \in Ids |-> IF s \in ExpiringIds THEN NoSrc ELSE udpSrcs[s]]
  /\ posted' = IF Expiring = {} THEN posted
               ELSE Append(posted, DelPeers(ExpiringIds))
  /\ UNCHANGED <<baseVars, session, peers, local, dst, history>>

-----------------------------------------------------------------------------
(* The reply relay's strand: the posted handlers.                          *)

(* start_relay()                                                           *)
RunStart ==
  /\ posted # <<>>
  /\ Head(posted).run = "init"
  /\ posted' = Tail(posted)
  /\ state' = "INIT"
  /\ coros' = StartSend(coros)
  /\ UNCHANGED <<bufs, timeout, down, accepted, tableVars,
                 peers, local, dst, history>>

RunSend ==
  /\ posted # <<>>
  /\ Head(posted).run = "send"
  /\ posted' = Tail(posted)
  /\ SendData(Head(posted).buf)
  /\ UNCHANGED <<down, tableVars, peers, local, dst, history>>

RunAddPeer ==
  /\ posted # <<>>
  /\ Head(posted).run = "add"
  /\ posted' = Tail(posted)
  /\ peers' = [peers EXCEPT ![Head(posted).id] = Head(posted).peer]
  /\ UNCHANGED <<baseVars, tableVars, local, dst, history>>

(* A fault: session 0 is like any other.                                   *)
DeletedExactly(ids, s) == s \in ids

(* Session 0 clears the table.                                             *)
Deleted(ids, s) == 0 \in ids \/ s \in ids
RunDelPeer ==
  /\ posted # <<>>
  /\ Head(posted).run = "del"
  /\ posted' = Tail(posted)
  /\ peers' = [s \in Ids |-> IF Deleted(Head(posted).ids, s) THEN NoSrc ELSE peers[s]]
  /\ UNCHANGED <<baseVars, tableVars, local, dst, history>>

-----------------------------------------------------------------------------
(* The reply relay's strand: the send coroutine.                           *)

(* internal_send_data() begins with get_send_data_addr(): the socket is    *)
(* bound anew when the reply comes from another address than the last one, *)
(* and the peer is looked up.  A socket that cannot be bound is a send     *)
(* that fails.                                                             *)
GetSendDataAddr(i) ==
  \/ /\ coros'[i].pc = "writing"
     /\ local' = coros'[i].buf.from
     /\ dst' = peers[coros'[i].buf.session]
  \/ /\ coros'[i].pc # "writing"
     /\ UNCHANGED <<local, dst>>

SenderEnters(i) ==
  /\ EnterSend(i)
  /\ GetSendDataAddr(i)
  /\ UNCHANGED <<down, tableVars, peers, posted, history>>

SenderResumes(i) ==
  /\ ResumeSend(i)
  /\ GetSendDataAddr(i)
  /\ UNCHANGED <<down, tableVars, peers, posted, history>>

(* The empty endpoint has port 0: nothing can be sent to it.               *)
SendSucceeds(i) ==
  /\ coros[i].pc = "writing"
  /\ dst # NoSrc
  /\ coros' = [coros EXCEPT ![i].pc = "written"]
  /\ delivered' = Append(delivered, [reply |-> coros[i].buf, to |-> dst, from |-> local])
  /\ UNCHANGED <<state, bufs, timeout, down, accepted,
                 tableVars, relayVars, requests, given>>

SendFails(i) ==
  /\ coros[i].pc = "writing"
  /\ coros' = [coros EXCEPT ![i].pc = "failed"]
  /\ UNCHANGED <<state, bufs, timeout, down, accepted, tableVars, relayVars, history>>

(* The catch clause of start_send: stop_relay() runs in place and closes   *)
(* the socket.                                                             *)
SenderCatches(i) ==
  /\ coros[i].pc = "failed"
  /\ coros' = [coros EXCEPT ![i] = Returned]
  /\ state' = "STOP"
  /\ UNCHANGED <<bufs, timeout, down, accepted, tableVars, relayVars, history>>

-----------------------------------------------------------------------------
ManagerStep ==
  \/ \E c \in Srcs : SendUdpData(c)
  \/ \E d \in Data : Response(d)
  \/ TickIdle
  \/ Tick

HandlerStep == RunStart \/ RunSend \/ RunAddPeer \/ RunDelPeer

SenderStep ==
  \E i \in DOMAIN coros : SenderEnters(i) \/ SenderResumes(i) \/ SenderCatches(i)

SendCompletes == \E i \in DOMAIN coros : SendSucceeds(i) \/ SendFails(i)

Next == ManagerStep \/ HandlerStep \/ SenderStep \/ SendCompletes

(* The io_context runs what is ready, a datagram is sent or refused at     *)
(* once, and the timer of a local server never ends.                       *)
Fairness ==
  /\ WF_vars(HandlerStep)
  /\ WF_vars(SenderStep)
  /\ WF_vars(SendCompletes)
  /\ WF_vars(Tick)

Spec == Init /\ [][Next]_vars /\ Fairness

-----------------------------------------------------------------------------
(* The three tables agree: a listed source has a session, which leads back *)
(* to it and to no other, and a peer the reply relay still knows is that   *)
(* of a session the manager lists, or the handler that removes it is on    *)
(* its way.  (relay_manager.cpp:142, 197-213, 284-295; raw_udp.cpp:31-48)  *)
TablesAgree ==
  /\ \A c \in Srcs : Listed(c) =>
       srcs[c].session \in Ids /\ udpSrcs[srcs[c].session] = c
  /\ \A s \in Ids :
       /\ udpSrcs[s] # NoSrc => Listed(udpSrcs[s]) /\ srcs[udpSrcs[s]].session = s
       /\ \/ peers[s] \in {NoSrc, udpSrcs[s]}
          \/ \E i \in DOMAIN posted : posted[i].run = "del" /\ Deleted(posted[i].ids, s)

(* A reply goes to the source whose datagram opened its session and to no  *)
(* other, however late it comes, and leaves from the address it came from. *)
(* (raw_udp.cpp:134-175, relay_manager.cpp:285-294)                        *)
RepliesToOwner ==
  \A i \in DOMAIN delivered :
    /\ delivered[i].from = delivered[i].reply.from
    /\ \A j \in DOMAIN requests :
         requests[j].session = delivered[i].reply.session =>
           requests[j].src = delivered[i].to

(* Every reply handed to the reply relay is sent, or the relay stops.      *)
(* (base_relay.cpp:47-71)                                                  *)
IsSent(d) == \E i \in DOMAIN delivered : delivered[i].reply = d
SentOrStopped ==
  \A d \in Data :
    (\E i \in DOMAIN posted : posted[i] = Send(d)) ~> (IsSent(d) \/ state = "STOP")

(* When the clients fall silent they are forgotten by all three tables.    *)
(* (relay_manager.cpp:203-213)                                             *)
Forgotten ==
  <>[](/\ \A c \in Endpoint : ~ Listed(c)
       /\ \A s \in Ids : udpSrcs[s] = NoSrc /\ peers[s] = NoSrc)

(* The types; one coroutine writes at a time, and pops what it wrote; and  *)
(* no reply waits in the queue of an idle relay, through every restart of  *)
(* the relay.  (base_relay.cpp:39-71, relay_manager.cpp:89-92)             *)
QueueInv == TypeOK /\ OneWriter /\ NoLostWakeup
=============================================================================
