------------------------------- MODULE RawTcp -------------------------------
(***************************************************************************)
(* What every raw_tcp relay does once it has been started, whichever of    *)
(* the three ways of starting it is configured: the send coroutine of      *)
(* BaseRelay writing to _sock, the read coroutine posting what it reads to *)
(* the manager, stop_relay(), and the manager's side of the relay (the     *)
(* entry in _relays, the handlers it posts to the relay's strand, the idle *)
(* timer).  RawTcpRemote, RawTcpLocal and RawTcpTproxy add the start.      *)
(*                                                                         *)
(* Every action is one step of one strand: the relay's (a posted handler,  *)
(* or a coroutine up to its next co_await), the manager's, or the network  *)
(* completing an operation.  A completed operation is resumed by a later   *)
(* step, and stop_relay() may run between the two.                         *)
(***************************************************************************)
EXTENDS BaseRelay, FiniteSets

CONSTANTS
  MaxReads   \* chunks the peer sends us: bounds the read coroutine

ASSUME RawTcpAssumption == MaxReads \in Nat

VARIABLES
  sock,      \* _sock
  reader,    \* the coroutine of impl_start_read
  posted,    \* handlers the manager has posted to the relay's strand
  entry,     \* the manager's entry for the session, or why it was erased
  requests,  \* history: commands the relay passed to manager->add_request
  given,     \* history: buffers the manager passed to send_data
  wire       \* history: buffers written to _sock in full

rawVars == <<sock, reader, posted, entry, requests, given, wire>>

Handler == [run : {"send"}, buf : Data]
             \cup [run : {"stop", "init"}, buf : {NoBuf}]
Send(d) == [run |-> "send", buf |-> d]
Stop == [run |-> "stop", buf |-> NoBuf]

RawTypeOK ==
  /\ BaseTypeOK
  /\ sock \in {"unopened", "open", "closed"}
  /\ reader \in {"off", "spawned", "reading", "got", "failed", "done"}
  /\ posted \in Seq(Handler)
  /\ entry \in {"listed", "stopped", "rejected", "expired"}
  /\ requests \in Seq({"START_TCP", "DATA_TCP", "STOP_TCP"})
  /\ given \in Seq(Data)
  /\ wire \in Seq(Data)

Request(cmd) == requests' = Append(requests, cmd)

(* A fault: a relay that has not been started is not closed.               *)
StopRelayOnceStarted ==
  /\ state' = "STOP"
  /\ sock' = IF state \in {"INIT", "START"} /\ sock = "open" THEN "closed" ELSE sock

(* The body of stop_relay(): closing a socket that was never opened leaves *)
(* it as it is.                                                            *)
StopRelay ==
  /\ state' = "STOP"
  /\ sock' = IF state # "STOP" /\ sock = "open" THEN "closed" ELSE sock

(* The catch clause of the read coroutine and of each way to start.        *)
StopAndTellManager == StopRelay /\ Request("STOP_TCP")

-----------------------------------------------------------------------------
(* The handlers posted to the relay's strand, run in order.                *)

RunSend ==
  /\ posted # <<>>
  /\ Head(posted).run = "send"
  /\ posted' = Tail(posted)
  /\ SendData(Head(posted).buf)
  /\ UNCHANGED <<down, sock, reader, entry, requests, given, wire>>

RunStop ==
  /\ posted # <<>>
  /\ Head(posted).run = "stop"
  /\ posted' = Tail(posted)
  /\ StopRelay
  /\ UNCHANGED <<bufs, coros, timeout, down, accepted,
                 reader, entry, requests, given, wire>>

-----------------------------------------------------------------------------
(* The send coroutine.                                                     *)

SenderEnters(i) == EnterSend(i) /\ UNCHANGED <<down, rawVars>>

SenderResumes(i) == ResumeSend(i) /\ UNCHANGED <<down, rawVars>>

(* async_write has sent the whole buffer.                                  *)
WriteSucceeds(i) ==
  /\ coros[i].pc = "writing"
  /\ sock = "open"
  /\ coros' = [coros EXCEPT ![i].pc = "written"]
  /\ wire' = Append(wire, coros[i].buf)
  /\ UNCHANGED <<state, bufs, timeout, down, accepted,
                 sock, reader, posted, entry, requests, given>>

(* async_write fails: a reset by the peer, or _sock was closed under it.   *)
WriteFails(i) ==
  /\ coros[i].pc = "writing"
  /\ coros' = [coros EXCEPT ![i].pc = "failed"]
  /\ UNCHANGED <<state, bufs, timeout, down, accepted, rawVars>>

(* The catch clause of start_send: stop_relay() runs in place.             *)
SenderCatches(i) ==
  /\ coros[i].pc = "failed"
  /\ coros' = [coros EXCEPT ![i] = Returned]
  /\ StopRelay
  /\ UNCHANGED <<bufs, timeout, down, accepted,
                 reader, posted, entry, requests, given, wire>>

-----------------------------------------------------------------------------
(* The read coroutine.                                                     *)

ReaderEnters ==
  /\ reader = "spawned"
  /\ reader' = "reading"
  /\ UNCHANGED <<baseVars, sock, posted, entry, requests, given, wire>>

ReadChunks == {i \in DOMAIN requests : requests[i] = "DATA_TCP"}

ReadSucceeds ==
  /\ reader = "reading"
  /\ sock = "open"
  /\ Cardinality(ReadChunks) < MaxReads
  /\ reader' = "got"
  /\ UNCHANGED <<baseVars, sock, posted, entry, requests, given, wire>>

(* End of file, a reset, or _sock was closed under the read.               *)
ReadFails ==
  /\ reader = "reading"
  /\ reader' = "failed"
  /\ UNCHANGED <<baseVars, sock, posted, entry, requests, given, wire>>

(* A fault: the counter is set one too high.                               *)
ReaderResumesOffByOne ==
  /\ reader = "got"
  /\ Request("DATA_TCP")
  /\ timeout' = TIMEOUT + 1
  /\ reader' = "reading"
  /\ UNCHANGED <<state, bufs, coros, down, accepted,
                 sock, posted, entry, given, wire>>

(* The chunk goes to the manager, the idle counter is reset, and the next  *)
(* read is started.                                                        *)
ReaderResumes ==
  /\ reader = "got"
  /\ Request("DATA_TCP")
  /\ timeout' = TIMEOUT
  /\ reader' = "reading"
  /\ UNCHANGED <<state, bufs, coros, down, accepted,
                 sock, posted, entry, given, wire>>

(* A fault: the relay stops and tells nobody.                              *)
ReaderCatchesQuietly ==
  /\ reader = "failed"
  /\ reader' = "done"
  /\ StopRelay
  /\ UNCHANGED <<bufs, coros, timeout, down, accepted,
                 posted, entry, requests, given, wire>>

(* The catch clause of impl_start_read.                                    *)
ReaderCatches ==
  /\ reader = "failed"
  /\ reader' = "done"
  /\ StopAndTellManager
  /\ UNCHANGED <<bufs, coros, timeout, down, accepted,
                 posted, entry, given, wire>>

-----------------------------------------------------------------------------
(* The manager's strand.  It runs nothing else during timeout_down().      *)

(* add_response(DATA_TCP): a buffer for a stopped relay is answered with a *)
(* STOP_TCP request and the entry goes, any other is handed to send_data.  *)
ManagerData(d) ==
  /\ entry = "listed"
  /\ down = NotCalled
  /\ \A i \in DOMAIN given : given[i] # d
  /\ \/ /\ state = "STOP"
        /\ entry' = "rejected"
        /\ UNCHANGED <<posted, given>>
     \/ /\ state # "STOP"
        /\ posted' = Append(posted, Send(d))
        /\ given' = Append(given, d)
        /\ UNCHANGED entry
  /\ UNCHANGED <<baseVars, sock, reader, requests, wire>>

(* A fault: the entry is erased and the relay is left running.             *)
ManagerErasesOnly ==
  /\ entry = "listed"
  /\ down = NotCalled
  /\ entry' = "stopped"
  /\ UNCHANGED <<baseVars, sock, reader, posted, requests, given, wire>>

(* add_response(STOP_TCP), stop_manager(), and a START_TCP that reuses the *)
(* session: stop_relay() is posted and the entry goes.                     *)
ManagerStop ==
  /\ entry = "listed"
  /\ down = NotCalled
  /\ posted' = Append(posted, Stop)
  /\ entry' = "stopped"
  /\ UNCHANGED <<baseVars, sock, reader, requests, given, wire>>

(* start_timer(): timeout_down() of a listed relay, which is erased when   *)
(* the call returns zero.                                                  *)
TimerLoads ==
  /\ entry = "listed"
  /\ TimeoutLoad
  /\ UNCHANGED <<state, bufs, coros, accepted, rawVars>>

(* A fault: the counter reaches zero and stop_relay() is not called.       *)
TimerStoresOnly ==
  /\ TimeoutStore
  /\ UNCHANGED <<state, bufs, coros, accepted, rawVars>>

(* _timeout--, and stop_relay() posts the stop when it has become zero.    *)
TimerStores ==
  /\ TimeoutStore
  /\ posted' = IF TimeoutStops THEN Append(posted, Stop) ELSE posted
  /\ UNCHANGED <<state, bufs, coros, accepted,
                 sock, reader, entry, requests, given, wire>>

(* A fault: what timeout_down() returns is not looked at.                  *)
TimerReturnsUnread ==
  /\ TimeoutReturn
  /\ UNCHANGED <<state, bufs, coros, accepted, rawVars>>

(* The entry is erased when the counter, loaded again, is zero.            *)
TimerReturns ==
  /\ TimeoutReturn
  /\ entry' = IF timeout = 0 THEN "expired" ELSE entry
  /\ UNCHANGED <<state, bufs, coros, accepted,
                 sock, reader, posted, requests, given, wire>>

-----------------------------------------------------------------------------
RawInit ==
  /\ BaseInit
  /\ reader = "off"
  /\ posted = <<>>
  /\ entry = "listed"
  /\ requests = <<>>
  /\ given = <<>>
  /\ wire = <<>>

(* The steps common to the three kinds of raw_tcp, grouped by who takes    *)
(* them.  Completions of operations on an open socket are the peer's.      *)
StrandStep ==
  \/ RunSend \/ RunStop
  \/ \E i \in DOMAIN coros : SenderEnters(i) \/ SenderResumes(i) \/ SenderCatches(i)
  \/ ReaderEnters \/ ReaderResumes \/ ReaderCatches

NetworkStep ==
  \/ \E i \in DOMAIN coros : WriteSucceeds(i) \/ WriteFails(i)
  \/ ReadSucceeds \/ ReadFails

TimerStep == TimerLoads \/ TimerStores \/ TimerReturns

ManagerStep ==
  \/ \E d \in Data : ManagerData(d)
  \/ ManagerStop
  \/ TimerStep

(* Closing the socket aborts the operations pending on it.                 *)
Aborts ==
  /\ sock = "closed"
  /\ \/ \E i \in DOMAIN coros : WriteFails(i)
     \/ ReadFails

-----------------------------------------------------------------------------
(* What the three kinds of raw_tcp have to keep.                          *)

(* A relay writes the buffers of its session in order, once each, and      *)
(* nothing after its socket is closed, which is for good, though a connect *)
(* may still be on its way.  (base_relay.cpp:29-71, raw_tcp.cpp:98-126)    *)
Pipe == INSTANCE OrderedPipe WITH in <- given, out <- wire, closed <- sock = "closed"
ImplementsPipe == Pipe!Spec

(* Every buffer handed to the relay of a live session is written or the    *)
(* relay stops: a peer that takes nothing is cut off by the idle timer.    *)
(* (base_relay.cpp:54-63, relay_manager.cpp:214-222)                       *)
DeliveredOrStopped ==
  \A d \in Data :
    (entry = "listed" /\ down = NotCalled /\ \E i \in DOMAIN given : given[i] = d)
      ~> (state = "STOP" \/ \E i \in DOMAIN wire : wire[i] = d)

(* The timer erases the entry of every relay that falls silent.            *)
Reclaimed == <>[](entry # "listed")

(* Neither data nor the entry of a relay is kept for ever by a peer that   *)
(* takes and sends nothing.  (base_relay.cpp:81-89,                        *)
(* relay_manager.cpp:214-222)                                              *)
Served == DeliveredOrStopped /\ Reclaimed
=============================================================================
