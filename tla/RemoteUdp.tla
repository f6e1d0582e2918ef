------------------------------ MODULE RemoteUdp ------------------------------
(***************************************************************************)
(* A raw_udp relay of the remote server, from the datagram that makes the  *)
(* manager create it to its end.  The sender is BaseRelay's, each datagram *)
(* carries its destination; the receive coroutine passes what comes back   *)
(* to the manager.  A relay found stopped is replaced when the next        *)
(* datagram of its session arrives: the new one is another instance.       *)
(***************************************************************************)
EXTENDS BaseRelay

CONSTANTS
  MaxReceived   \* bounds the datagrams destinations send back

ASSUME RemoteUdpAssumption == MaxReceived \in Nat

VARIABLES
  sock,       \* _sock, which is open from the beginning
  receiver,   \* the coroutine of impl_start_recv
  posted,     \* handlers the manager has posted to the relay's strand
  entry,      \* the manager's entry for the session, or why it was erased
  given,      \* history: datagrams the manager passed to send_data
  wire,       \* history: datagrams sent
  received    \* history: how many datagrams came back

udpVars == <<sock, receiver, posted, entry, given, wire, received>>
vars == <<baseVars, udpVars>>

Handler == [run : {"send"}, buf : Data]
             \cup [run : {"stop", "init"}, buf : {NoBuf}]
Send(d) == [run |-> "send", buf |-> d]
Stop == [run |-> "stop", buf |-> NoBuf]
Start == [run |-> "init", buf |-> NoBuf]

TypeOK ==
  /\ BaseTypeOK
  /\ sock \in {"open", "closed"}
  /\ receiver \in {"off", "spawned", "receiving", "got", "failed", "done"}
  /\ posted \in Seq(Handler)
  /\ entry \in {"none", "listed", "stopped", "replaced", "expired"}
  /\ given \in Seq(Data)
  /\ wire \in Seq(Data)
  /\ received \in 0 .. MaxReceived

(* Before the first datagram of the session.                               *)
Init ==
  /\ BaseInit
  /\ sock = "open"
  /\ receiver = "off"
  /\ posted = <<>>
  /\ entry = "none"
  /\ given = <<>>
  /\ wire = <<>>
  /\ received = 0

-----------------------------------------------------------------------------
(* The handlers posted to the relay's strand, run in order.                *)

(* start_relay() sets RELAY_INIT without a look at the state.              *)
RunStart ==
  /\ posted # <<>>
  /\ Head(posted).run = "init"
  /\ posted' = Tail(posted)
  /\ state' = "INIT"
  /\ coros' = StartSend(coros)
  /\ UNCHANGED <<bufs, timeout, down, accepted,
                 sock, receiver, entry, given, wire, received>>

RunSend ==
  /\ posted # <<>>
  /\ Head(posted).run = "send"
  /\ posted' = Tail(posted)
  /\ SendData(Head(posted).buf)
  /\ UNCHANGED <<down, sock, receiver, entry, given, wire, received>>

(* The body of stop_relay().                                               *)
StopRelay ==
  /\ state' = "STOP"
  /\ sock' = "closed"

RunStop ==
  /\ posted # <<>>
  /\ Head(posted).run = "stop"
  /\ posted' = Tail(posted)
  /\ StopRelay
  /\ UNCHANGED <<bufs, coros, timeout, down, accepted,
                 receiver, entry, given, wire, received>>

-----------------------------------------------------------------------------
(* The send coroutine.                                                     *)

SenderEnters(i) == EnterSend(i) /\ UNCHANGED <<down, udpVars>>

SenderResumes(i) == ResumeSend(i) /\ UNCHANGED <<down, udpVars>>

SendSucceeds(i) ==
  /\ coros[i].pc = "writing"
  /\ sock = "open"
  /\ coros' = [coros EXCEPT ![i].pc = "written"]
  /\ wire' = Append(wire, coros[i].buf)
  /\ UNCHANGED <<state, bufs, timeout, down, accepted,
                 sock, receiver, posted, entry, given, received>>

SendFails(i) ==
  /\ coros[i].pc = "writing"
  /\ coros' = [coros EXCEPT ![i].pc = "failed"]
  /\ UNCHANGED <<state, bufs, timeout, down, accepted, udpVars>>

(* The catch clause of start_send: stop_relay() runs in place.             *)
SenderCatches(i) ==
  /\ coros[i].pc = "failed"
  /\ coros' = [coros EXCEPT ![i] = Returned]
  /\ StopRelay
  /\ UNCHANGED <<bufs, timeout, down, accepted,
                 receiver, posted, entry, given, wire, received>>

-----------------------------------------------------------------------------
(* The receive coroutine.                                                  *)

ReceiverEnters ==
  /\ receiver = "spawned"
  /\ receiver' = "receiving"
  /\ UNCHANGED <<baseVars, sock, posted, entry, given, wire, received>>

ReceiveSucceeds ==
  /\ receiver = "receiving"
  /\ sock = "open"
  /\ received < MaxReceived
  /\ receiver' = "got"
  /\ UNCHANGED <<baseVars, sock, posted, entry, given, wire, received>>

(* The socket reports an error, or was closed under the coroutine.         *)
ReceiveFails ==
  /\ receiver = "receiving"
  /\ receiver' = "failed"
  /\ UNCHANGED <<baseVars, sock, posted, entry, given, wire, received>>

(* The datagram goes to the manager; the idle counter is left alone.       *)
ReceiverResumes ==
  /\ receiver = "got"
  /\ receiver' = "receiving"
  /\ received' = received + 1
  /\ UNCHANGED <<baseVars, sock, posted, entry, given, wire>>

(* The catch clause of impl_start_recv.                                    *)
ReceiverCatches ==
  /\ receiver = "failed"
  /\ receiver' = "done"
  /\ StopRelay
  /\ UNCHANGED <<bufs, coros, timeout, down, accepted,
                 posted, entry, given, wire, received>>

-----------------------------------------------------------------------------
(* The manager's strand.  It runs nothing else during timeout_down().      *)

(* remote_server_send_udp() without a relay: add_remote_raw_udp() makes and *)
(* starts one, whose receive coroutine is spawned and whose RELAY_INIT is  *)
(* posted, and the datagram is posted after it.                            *)
ManagerCreates(d) ==
  /\ entry = "none"
  /\ entry' = "listed"
  /\ receiver' = "spawned"
  /\ posted' = <<Start, Send(d)>>
  /\ given' = <<d>>
  /\ UNCHANGED <<baseVars, sock, wire, received>>

(* remote_server_send_udp(): a relay that has stopped is replaced, any     *)
(* other is handed the datagram.                                           *)
ManagerData(d) ==
  /\ entry = "listed"
  /\ down = NotCalled
  /\ \A i \in DOMAIN given : given[i] # d
  /\ \/ /\ state = "STOP"
        /\ entry' = "replaced"
        /\ UNCHANGED <<posted, given>>
     \/ /\ state # "STOP"
        /\ posted' = Append(posted, Send(d))
        /\ given' = Append(given, d)
        /\ UNCHANGED entry
  /\ UNCHANGED <<baseVars, sock, receiver, wire, received>>

(* A fault: the entry is erased and the relay is left running.             *)
ManagerErasesOnly ==
  /\ entry = "listed"
  /\ down = NotCalled
  /\ entry' = "stopped"
  /\ UNCHANGED <<baseVars, sock, receiver, posted, given, wire, received>>

(* stop_manager(), and a START_TCP for the session.                        *)
ManagerStop ==
  /\ entry = "listed"
  /\ down = NotCalled
  /\ posted' = Append(posted, Stop)
  /\ entry' = "stopped"
  /\ UNCHANGED <<baseVars, sock, receiver, given, wire, received>>

(* start_timer(): timeout_down() of a listed relay, which is erased when   *)
(* the call returns zero.                                                  *)
TimerLoads ==
  /\ entry = "listed"
  /\ TimeoutLoad
  /\ UNCHANGED <<state, bufs, coros, accepted, udpVars>>

(* _timeout--, and stop_relay() posts the stop when it has become zero.    *)
TimerStores ==
  /\ TimeoutStore
  /\ posted' = IF TimeoutStops THEN Append(posted, Stop) ELSE posted
  /\ UNCHANGED <<state, bufs, coros, accepted,
                 sock, receiver, entry, given, wire, received>>

(* A fault: what timeout_down() returns is not looked at.                  *)
TimerReturnsUnread ==
  /\ TimeoutReturn
  /\ UNCHANGED <<state, bufs, coros, accepted, udpVars>>

(* The entry is erased when the counter, loaded again, is zero.            *)
TimerReturns ==
  /\ TimeoutReturn
  /\ entry' = IF timeout = 0 THEN "expired" ELSE entry
  /\ UNCHANGED <<state, bufs, coros, accepted,
                 sock, receiver, posted, given, wire, received>>

-----------------------------------------------------------------------------
StrandStep ==
  \/ RunStart \/ RunSend \/ RunStop
  \/ \E i \in DOMAIN coros : SenderEnters(i) \/ SenderResumes(i) \/ SenderCatches(i)
  \/ ReceiverEnters \/ ReceiverResumes \/ ReceiverCatches

SendCompletes == \E i \in DOMAIN coros : SendSucceeds(i) \/ SendFails(i)

NetworkStep == SendCompletes \/ ReceiveSucceeds \/ ReceiveFails

TimerStep == TimerLoads \/ TimerStores \/ TimerReturns

ManagerStep ==
  \/ \E d \in Data : ManagerCreates(d) \/ ManagerData(d)
  \/ ManagerStop
  \/ TimerStep

Next == StrandStep \/ NetworkStep \/ ManagerStep

(* The io_context runs what is ready, a datagram is sent or refused at     *)
(* once, closing the socket aborts the receive, and the timer ticks.       *)
Fairness ==
  /\ WF_vars(StrandStep)
  /\ WF_vars(SendCompletes)
  /\ WF_vars(sock = "closed" /\ ReceiveFails)
  /\ WF_vars(TimerStep)

Spec == Init /\ [][Next]_vars /\ Fairness

-----------------------------------------------------------------------------
(* Datagrams leave in the order they were handed over, once each, and none *)
(* after the socket is closed, even when RELAY_INIT overwrites RELAY_STOP. *)
(* (base_relay.cpp:29-71, raw_udp.cpp:97-116 and 177-189)                  *)
Pipe == INSTANCE OrderedPipe WITH in <- given, out <- wire, closed <- sock = "closed"
ImplementsPipe == Pipe!Spec

(* A relay the manager has let go of, for whatever reason, ends: its       *)
(* socket closes and its coroutines return.  (relay_manager.cpp:99-100,    *)
(* 105-112, 164-168 and 214-222)                                           *)
Ended ==
  /\ sock = "closed"
  /\ receiver = "done"
  /\ \A i \in DOMAIN coros : coros[i].pc = "done"
LetGoEnds == entry \in {"stopped", "replaced", "expired"} ~> []Ended

(* A relay whose socket was closed does not stay in the way of its         *)
(* session: the next datagram or the timer removes it.                     *)
(* (relay_manager.cpp:99-100 and 214-222)                                  *)
DeadIsRemoved == sock = "closed" ~> entry # "listed"

(* The types; one coroutine writes at a time, and pops what it wrote; and  *)
(* no datagram waits in the queue of an idle relay, though RELAY_INIT is   *)
(* posted.  (base_relay.cpp:39-71, raw_udp.cpp:184-188)                    *)
QueueInv == TypeOK /\ OneWriter /\ NoLostWakeup
=============================================================================
