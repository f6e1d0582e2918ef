---------------------------- MODULE RawTcpTproxy ----------------------------
(***************************************************************************)
(* A raw_tcp relay of a local server in transparent mode.                  *)
(* impl_start_transparent() is no coroutine: it runs in the manager's      *)
(* strand, asks the remote server for the destination the client dialled,  *)
(* spawns the read coroutine, and posts to the relay's strand the handler  *)
(* that sets RELAY_INIT.  That handler and the reader are two entries of   *)
(* one queue, and what the reader does first may already be to stop.       *)
(***************************************************************************)
EXTENDS RawTcp

VARIABLES
  started    \* impl_start_transparent has run

tproxyVars == <<baseVars, rawVars, started>>

TproxyTypeOK == RawTypeOK /\ started \in BOOLEAN

TproxyInit ==
  /\ RawInit
  /\ sock = "open"
  /\ started = FALSE

-----------------------------------------------------------------------------
InitHandler == [run |-> "init", buf |-> NoBuf]

(* The start goes through ...                                              *)
StartTransparent ==
  /\ ~ started
  /\ started' = TRUE
  /\ Request("START_TCP")
  /\ reader' = "spawned"
  /\ posted' = Append(posted, InitHandler)
  /\ UNCHANGED <<baseVars, sock, entry, given, wire>>

(* ... or the destination cannot be read off the socket.                   *)
StartFails ==
  /\ ~ started
  /\ started' = TRUE
  /\ Request("STOP_TCP")
  /\ posted' = Append(posted, Stop)
  /\ UNCHANGED <<baseVars, sock, reader, entry, given, wire>>

(* The posted handler: whatever state the reader has left is overwritten.  *)
RunInit ==
  /\ posted # <<>>
  /\ Head(posted) = InitHandler
  /\ posted' = Tail(posted)
  /\ state' = "INIT"
  /\ coros' = StartSend(coros)
  /\ UNCHANGED <<bufs, timeout, down, accepted,
                 sock, reader, entry, requests, given, wire, started>>

-----------------------------------------------------------------------------
Asked == \E i \in DOMAIN requests : requests[i] = "START_TCP"

TproxyManagerStep ==
  \/ started /\ TimerStep
  \/ Asked /\ (ManagerStop \/ \E d \in Data : ManagerData(d))

TproxyNext ==
  \/ StartTransparent \/ StartFails \/ RunInit
  \/ /\ StrandStep \/ NetworkStep \/ TproxyManagerStep
     /\ UNCHANGED started

TproxyFairness ==
  /\ WF_tproxyVars(StartTransparent \/ StartFails)
  /\ WF_tproxyVars(RunInit)
  /\ WF_tproxyVars(StrandStep /\ UNCHANGED started)
  /\ WF_tproxyVars(Aborts /\ UNCHANGED started)
  /\ WF_tproxyVars(started /\ TimerStep /\ UNCHANGED started)

TproxySpec == TproxyInit /\ [][TproxyNext]_tproxyVars /\ TproxyFairness

-----------------------------------------------------------------------------
(* A session the manager has let go of, by whatever way, ends with its     *)
(* client's socket closed, even if RELAY_INIT is set after the stop.       *)
(* (raw_tcp.cpp:196-201, relay_manager.cpp:148-157, 214-222)               *)
ErasedIsClosed == entry # "listed" ~> [](sock = "closed")

(* When the client's socket is closed, for whatever reason, the remote     *)
(* server is told and every coroutine of the relay ends.                   *)
TproxyFinished ==
  /\ reader \in {"off", "done"}
  /\ \A i \in DOMAIN coros : coros[i].pc = "done"
TproxyAnnounced ==
  sock = "closed" ~>
    [](TproxyFinished /\ \E i \in DOMAIN requests : requests[i] = "STOP_TCP")

(* However a relay ends, its client's socket is closed, and once that is   *)
(* closed the other side is told and nothing of the relay goes on.         *)
(* (raw_tcp.cpp:66-74, 98-112, relay_manager.cpp:148-168, 214-222)         *)
EndsClosed == ErasedIsClosed /\ TproxyAnnounced

(* The types; one coroutine writes at a time, and pops what it wrote; and  *)
(* no buffer waits in the queue of an idle relay, whether the posted       *)
(* handler or the reader was first.  (base_relay.cpp:39-71,                *)
(* raw_tcp.cpp:194-205)                                                    *)
QueueInv == TproxyTypeOK /\ OneWriter /\ NoLostWakeup
=============================================================================
