------------------------------ MODULE SslRelay ------------------------------
(***************************************************************************)
(* One ssl_relay: the link as one of the two servers holds it.  A local    *)
(* server resolves, connects and shakes hands; the remote server shakes    *)
(* hands on a socket it has accepted.  Then the send coroutine of          *)
(* BaseRelay writes the requests the manager hands over, and the reader    *)
(* passes what arrives to the manager.                                     *)
(*                                                                         *)
(* stop_relay() is a coroutine of its own, and every caller spawns another *)
(* one: the timer, the sender, the reader and the starter may all do so.   *)
(* It sets RELAY_STOP, shuts the TLS stream down and waits for the peer's  *)
(* answer before it closes the socket, while the other coroutines go on.   *)
(***************************************************************************)
EXTENDS BaseRelay, SequencesExt

CONSTANTS
  MaxReads   \* messages the peer sends

ASSUME SslAssumption ==
  /\ MaxReads \in Nat
  /\ Data \subseteq Nat   \* requests are numbered as they are handed over

VARIABLES
  role,      \* config.type: which of the two servers this is
  sock,      \* _sock, its lowest layer and the TLS stream on it
  starter,   \* the coroutine of start_relay
  reader,    \* the coroutine of impl_start_read
  stops,     \* coroutines of stop_relay: not yet begun, and waiting
  late,      \* the write under way was begun after the stream was shut down
  manager,   \* holds the relay, has replaced it (local) or stopped (remote)
  posted,    \* buffers of send_data on their way to the strand
  passed,    \* messages handed to add_response
  given,     \* history: buffers handed to send_data
  wire,      \* history: buffers written in full
  missed     \* history: the start went on although the relay was stopped

sslVars == <<role, sock, starter, reader, stops, late, manager,
             posted, passed, given, wire, missed>>
vars == <<baseVars, sslVars>>

TypeOK ==
  /\ BaseTypeOK
  /\ role \in {"local", "remote"}
  /\ sock \in {"unopened", "open", "secure", "shut", "closed"}
  /\ starter \in {"spawned", "resolving", "resolved", "connecting", "connected",
                  "handshaking", "secured", "failed", "done"}
  /\ reader \in {"off", "spawned", "reading", "got", "failed", "done"}
  /\ stops \in [spawned : Nat, waiting : Nat]
  /\ late \in BOOLEAN
  /\ manager \in {"holds", "replaced", "stopped"}
  /\ posted \in Seq(Data)
  /\ passed \in 0 .. MaxReads
  /\ given \in Seq(Data)
  /\ wire \in Seq(Data)
  /\ missed \in BOOLEAN

(* add_request() of a local server makes the link, remote_accept() that of *)
(* the remote server, on an open socket.                                   *)
Init ==
  /\ BaseInit
  /\ role \in {"local", "remote"}
  /\ sock = IF role = "local" THEN "unopened" ELSE "open"
  /\ starter = "spawned"
  /\ reader = "off"
  /\ stops = [spawned |-> 0, waiting |-> 0]
  /\ late = FALSE
  /\ manager = "holds"
  /\ posted = <<>>
  /\ passed = 0
  /\ given = <<>>
  /\ wire = <<>>
  /\ missed = FALSE

(* A call of stop_relay().                                                 *)
StopRelay == stops' = [stops EXCEPT !.spawned = @ + 1]

-----------------------------------------------------------------------------
(* start_relay().                                                          *)

StarterResolves ==
  /\ starter = "spawned"
  /\ role = "local"
  /\ starter' = "resolving"
  /\ UNCHANGED <<baseVars, role, sock, reader, stops, late, manager,
                 posted, passed, given, wire, missed>>

ResolveCompletes ==
  /\ starter = "resolving"
  /\ starter' \in {"resolved", "failed"}
  /\ UNCHANGED <<baseVars, role, sock, reader, stops, late, manager,
                 posted, passed, given, wire, missed>>

(* async_connect opens the socket, whatever stop_relay() did before.       *)
StarterConnects ==
  /\ starter = "resolved"
  /\ starter' = "connecting"
  /\ sock' = "open"
  /\ missed' = (state = "STOP")
  /\ UNCHANGED <<baseVars, role, reader, stops, late, manager,
                 posted, passed, given, wire>>

ConnectCompletes ==
  /\ starter = "connecting"
  /\ \/ sock = "open" /\ starter' = "connected"
     \/ starter' = "failed"
  /\ UNCHANGED <<baseVars, role, sock, reader, stops, late, manager,
                 posted, passed, given, wire, missed>>

(* The option can be set on an open socket only; then async_handshake.     *)
StarterShakes ==
  /\ starter = IF role = "local" THEN "connected" ELSE "spawned"
  /\ starter' = IF sock = "open" THEN "handshaking" ELSE "failed"
  /\ UNCHANGED <<baseVars, role, sock, reader, stops, late, manager,
                 posted, passed, given, wire, missed>>

HandshakeSucceeds ==
  /\ starter = "handshaking"
  /\ sock = "open"
  /\ starter' = "secured"
  /\ sock' = "secure"
  /\ UNCHANGED <<baseVars, role, reader, stops, late, manager,
                 posted, passed, given, wire, missed>>

(* The peer's certificate does not verify, it leaves, or the socket was    *)
(* closed.                                                                 *)
HandshakeFails ==
  /\ starter = "handshaking"
  /\ starter' = "failed"
  /\ UNCHANGED <<baseVars, role, sock, reader, stops, late, manager,
                 posted, passed, given, wire, missed>>

(* RELAY_INIT is set without a look at the state.                          *)
StarterServes ==
  /\ starter = "secured"
  /\ starter' = "done"
  /\ state' = "INIT"
  /\ coros' = StartSend(coros)
  /\ reader' = "spawned"
  /\ missed' = (missed \/ (state = "STOP" /\ sock = "secure"))
  /\ UNCHANGED <<bufs, timeout, down, accepted, role, sock, stops, late, manager,
                 posted, passed, given, wire>>

StarterCatches ==
  /\ starter = "failed"
  /\ starter' = "done"
  /\ StopRelay
  /\ UNCHANGED <<baseVars, role, sock, reader, late, manager,
                 posted, passed, given, wire, missed>>

-----------------------------------------------------------------------------
(* stop_relay(): each of its coroutines on its own.                        *)

(* async_shutdown fails at once on a stream that is not secure; otherwise  *)
(* the peer is told, and no write can begin any more.                      *)
StopEnters ==
  /\ stops.spawned > 0
  /\ stops' = [spawned |-> stops.spawned - 1, waiting |-> stops.waiting + 1]
  /\ state' = "STOP"
  /\ sock' = IF sock = "secure" THEN "shut" ELSE sock
  /\ UNCHANGED <<bufs, coros, timeout, down, accepted, role, starter, reader,
                 late, manager, posted, passed, given, wire, missed>>

(* A fault: the catch clause does not close the socket.                    *)
StopClosesOnSuccess ==
  /\ stops.waiting > 0
  /\ stops' = [stops EXCEPT !.waiting = @ - 1]
  /\ sock' = IF sock = "shut" THEN "closed" ELSE sock
  /\ UNCHANGED <<baseVars, role, starter, reader, late, manager,
                 posted, passed, given, wire, missed>>

(* The peer has answered, or the shutdown has failed: the socket is        *)
(* closed either way.  One that was never opened stays as it is.           *)
StopCloses ==
  /\ stops.waiting > 0
  /\ stops' = [stops EXCEPT !.waiting = @ - 1]
  /\ sock' = IF sock = "unopened" THEN sock ELSE "closed"
  /\ UNCHANGED <<baseVars, role, starter, reader, late, manager,
                 posted, passed, given, wire, missed>>

-----------------------------------------------------------------------------
(* The handlers of send_data, and the send coroutine.                      *)

RunSend ==
  /\ posted # <<>>
  /\ posted' = Tail(posted)
  /\ SendData(Head(posted))
  /\ UNCHANGED <<down, role, sock, starter, reader, stops, late, manager,
                 passed, given, wire, missed>>

SenderSteps(i) ==
  /\ EnterSend(i) \/ ResumeSend(i)
  /\ late' = IF coros'[i].pc = "writing" THEN sock # "secure" ELSE late
  /\ UNCHANGED <<down, role, sock, starter, reader, stops, manager,
                 posted, passed, given, wire, missed>>

(* A write that was under way when the stream was shut down may still      *)
(* complete.                                                               *)
WriteSucceeds(i) ==
  /\ coros[i].pc = "writing"
  /\ sock \in {"secure", "shut"}
  /\ ~ late
  /\ coros' = [coros EXCEPT ![i].pc = "written"]
  /\ wire' = Append(wire, coros[i].buf)
  /\ UNCHANGED <<state, bufs, timeout, down, accepted, role, sock, starter, reader,
                 stops, late, manager, posted, passed, given, missed>>

WriteFails(i) ==
  /\ coros[i].pc = "writing"
  /\ coros' = [coros EXCEPT ![i].pc = "failed"]
  /\ UNCHANGED <<state, bufs, timeout, down, accepted, sslVars>>

SenderCatches(i) ==
  /\ coros[i].pc = "failed"
  /\ coros' = [coros EXCEPT ![i] = Returned]
  /\ StopRelay
  /\ UNCHANGED <<state, bufs, timeout, down, accepted, role, sock, starter, reader,
                 late, manager, posted, passed, given, wire, missed>>

-----------------------------------------------------------------------------
(* impl_start_read().                                                      *)

ReaderEnters ==
  /\ reader = "spawned"
  /\ reader' = "reading"
  /\ UNCHANGED <<baseVars, role, sock, starter, stops, late, manager,
                 posted, passed, given, wire, missed>>

(* A message has come, also while the stream is being shut down.           *)
ReadSucceeds ==
  /\ reader = "reading"
  /\ sock \in {"secure", "shut"}
  /\ passed < MaxReads
  /\ reader' = "got"
  /\ UNCHANGED <<baseVars, role, sock, starter, stops, late, manager,
                 posted, passed, given, wire, missed>>

(* The peer has left, the header makes no sense, or the socket is closed.  *)
ReadFails ==
  /\ reader = "reading"
  /\ reader' = "failed"
  /\ UNCHANGED <<baseVars, role, sock, starter, stops, late, manager,
                 posted, passed, given, wire, missed>>

(* reset_timeout(); the message goes to the manager.  A manager that has   *)
(* stopped may be gone, and then the reader ends.                          *)
ReaderResumes ==
  /\ reader = "got"
  /\ timeout' = TIMEOUT
  /\ \/ reader' = "reading" /\ passed' = passed + 1
     \/ manager = "stopped" /\ reader' = "done" /\ UNCHANGED passed
  /\ UNCHANGED <<state, bufs, coros, down, accepted, role, sock, starter, stops,
                 late, manager, posted, given, wire, missed>>

ReaderCatches ==
  /\ reader = "failed"
  /\ reader' = "done"
  /\ StopRelay
  /\ UNCHANGED <<baseVars, role, sock, starter, late, manager,
                 posted, passed, given, wire, missed>>

-----------------------------------------------------------------------------
(* The manager's strand.  It runs nothing else during timeout_down().      *)

(* add_request(): a stopped link is replaced by a local server, and ends   *)
(* the manager of the remote server; any other takes the buffer.           *)
ManagerRequest(d) ==
  /\ manager # "replaced"
  /\ down = NotCalled
  /\ d = Len(given) + 1
  /\ \/ /\ state = "STOP"
        /\ manager' = IF role = "local" THEN "replaced" ELSE "stopped"
        /\ UNCHANGED <<posted, given>>
     \/ /\ state # "STOP"
        /\ posted' = Append(posted, d)
        /\ given' = Append(given, d)
        /\ UNCHANGED manager
  /\ UNCHANGED <<baseVars, role, sock, starter, reader, stops, late,
                 passed, wire, missed>>

(* timeout_down() of the link that _ssl points to.                         *)
TimerLoads ==
  /\ manager = "holds"
  /\ TimeoutLoad
  /\ UNCHANGED <<state, bufs, coros, accepted, sslVars>>

(* A fault: the counter reaches zero and stop_relay() is not called.       *)
TimerStoresOnly ==
  /\ TimeoutStore
  /\ UNCHANGED <<state, bufs, coros, accepted, sslVars>>

TimerStores ==
  /\ TimeoutStore
  /\ IF TimeoutStops THEN StopRelay ELSE UNCHANGED stops
  /\ UNCHANGED <<state, bufs, coros, accepted, role, sock, starter, reader,
                 late, manager, posted, passed, given, wire, missed>>

(* A zero ends the manager of the remote server; a local server clears its *)
(* udp tables (LocalUdp) and keeps the relay.                              *)
Idle == manager' = IF role = "remote" THEN "stopped" ELSE manager

(* A fault: what timeout_down() returns is not looked at.                  *)
TimerReturnsUnread ==
  /\ TimeoutReturn
  /\ UNCHANGED <<state, bufs, coros, accepted, sslVars>>

TimerReturns ==
  /\ TimeoutReturn
  /\ IF timeout = 0 THEN Idle ELSE UNCHANGED manager
  /\ UNCHANGED <<state, bufs, coros, accepted, role, sock, starter, reader, stops,
                 late, posted, passed, given, wire, missed>>

-----------------------------------------------------------------------------
StarterStep ==
  \/ StarterResolves \/ StarterConnects \/ StarterShakes
  \/ StarterServes \/ StarterCatches

SenderStep == \E i \in DOMAIN coros : SenderSteps(i) \/ SenderCatches(i)

ReaderStep == ReaderEnters \/ ReaderResumes \/ ReaderCatches

TimerStep == TimerLoads \/ TimerStores \/ TimerReturns

Next ==
  \/ StarterStep
  \/ ResolveCompletes \/ ConnectCompletes \/ HandshakeSucceeds \/ HandshakeFails
  \/ StopEnters \/ StopCloses
  \/ RunSend \/ SenderStep \/ ReaderStep
  \/ \E i \in DOMAIN coros : WriteSucceeds(i) \/ WriteFails(i)
  \/ ReadSucceeds \/ ReadFails
  \/ TimerStep
  \/ \E d \in Data : ManagerRequest(d)

(* Closing the socket aborts what is pending on it, and a write begun      *)
(* after the shutdown is refused.                                          *)
Aborts ==
  \/ /\ sock = "closed"
     /\ ReadFails \/ HandshakeFails
  \/ /\ sock = "closed" \/ late
     /\ \E i \in DOMAIN coros : WriteFails(i)

(* Handlers and coroutines run; resolving and connecting come to an end;   *)
(* a stream that was shut down is answered, or tcp gives up; the timer     *)
(* ticks.  The peer need not shake hands, read, write or leave.  No step   *)
(* can be repeated for ever (the timer's count falls until a buffer resets *)
(* it), so fairness of the relay as a whole is fairness of all its steps.  *)
Moves ==
  \/ StarterStep \/ ResolveCompletes \/ ConnectCompletes
  \/ StopEnters \/ StopCloses
  \/ RunSend \/ SenderStep \/ ReaderStep
  \/ Aborts

Fairness == WF_vars(Moves) /\ WF_vars(TimerStep)

Spec == Init /\ [][Next]_vars /\ Fairness

-----------------------------------------------------------------------------
(* The stream carries the buffers that were queued in order, once each,    *)
(* and nothing after its socket is closed, however many coroutines are     *)
(* shutting it down.  (ssl_relay.cpp:98-110, 157-176)                      *)
Pipe == INSTANCE OrderedPipe WITH in <- accepted, out <- wire, closed <- sock = "closed"
ImplementsPipe == Pipe!Spec

(* A queue with requests in it is never left behind by the last sender     *)
(* unless a stop is on its way.  (base_relay.cpp:39-41, 54-67)             *)
NoLostWakeupBeforeStop == stops.spawned = 0 => NoLostWakeup

(* No request overtakes another, and one is skipped only on a link whose   *)
(* start did not notice that it had been stopped.                          *)
(* (relay_manager.cpp:73-83, ssl_relay.cpp:142, base_relay.cpp:33)         *)
NoRequestSkipped ==
  ~ missed => Pipe!IsPrefixOf(wire, given)

(* The types, one writer, no queue left behind and no request skipped.     *)
(* (base_relay.cpp:29-71, relay_manager.cpp:69-85)                         *)
QueueInv == TypeOK /\ OneWriter /\ NoLostWakeupBeforeStop /\ NoRequestSkipped

(* Every request that waits for the link is written or the link says it    *)
(* has stopped, so that the next request makes a new one or ends the       *)
(* sessions.  (relay_manager.cpp:73-83, 190-195)                           *)
SentOrStopped ==
  \A d \in Data :
    (manager = "holds" /\ d \in Range(posted \o bufs))
      ~> (state = "STOP" \/ d \in Range(wire))

AllReturned ==
  /\ starter = "done"
  /\ reader \in {"off", "done"}
  /\ \A i \in DOMAIN coros : coros[i].pc = "done"
  /\ stops = [spawned |-> 0, waiting |-> 0]

(* A link whose socket is closed ends with all its coroutines, however its *)
(* stops, reader, sender and start interleave; and so does one the manager *)
(* has let go of, unless its start did not notice that it was stopped.     *)
(* (relay_manager.cpp:74-81, 190-194, ssl_relay.cpp:157-176)               *)
LetGoEnds ==
  <>[](/\ sock = "closed" => AllReturned
       /\ manager # "holds" => AllReturned \/ missed)

(* The manager of a remote link ends after the link, and its sessions with *)
(* it.  (relay_manager.cpp:190-194)                                        *)
ManagerEndsWithLink ==
  <>[](sock = "closed" /\ role = "remote" => manager = "stopped")
=============================================================================
