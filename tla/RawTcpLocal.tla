---------------------------- MODULE RawTcpLocal -----------------------------
(***************************************************************************)
(* A raw_tcp relay of a local server in socks5 mode.  impl_start_local()   *)
(* shakes hands with the client, then either asks the remote server to     *)
(* reach a blocked host, or connects _sock_remote to the host itself and   *)
(* copies between the two sockets (impl_local_relay).                      *)
(***************************************************************************)
EXTENDS RawTcp

VARIABLES
  starter,     \* the coroutine of impl_start_local
  sockRemote,  \* _sock_remote
  copier,      \* the two coroutines of impl_local_relay
  moved        \* history: a chunk was copied since the last timer tick

localVars == <<starter, sockRemote, copier, moved>>
vars == <<baseVars, rawVars, localVars>>

StarterPc == {"spawned", "greeting", "greeted", "accepting", "accepted",
              "asking", "asked", "resolving", "resolved", "connecting",
              "connected", "replying", "replied", "failed", "done"}

(* "up" copies from the client to the host, "down" from the host to the    *)
(* client: dir = false and dir = true of impl_local_relay.                 *)
Dir == {"up", "down"}
CopierPc == {"off", "spawned", "reading", "got", "writing", "written", "failed", "done"}

TypeOK ==
  /\ RawTypeOK
  /\ starter \in StarterPc
  /\ sockRemote \in {"unopened", "open"}
  /\ copier \in [Dir -> CopierPc]
  /\ moved \in BOOLEAN

(* add_local_raw_tcp(): the relay is in _relays, its starter is spawned.   *)
Init ==
  /\ RawInit
  /\ sock = "open"
  /\ starter = "spawned"
  /\ sockRemote = "unopened"
  /\ copier = [d \in Dir |-> "off"]
  /\ moved = FALSE

-----------------------------------------------------------------------------
(* The starter's steps that only start the next operation.                 *)
StarterWaits ==
  /\ \/ starter = "spawned" /\ starter' = "greeting"
     \/ starter = "greeted" /\ starter' = "accepting"
     \/ starter = "accepted" /\ starter' = "asking"
     \/ starter = "replied" /\ starter' = "done"
  /\ UNCHANGED <<baseVars, rawVars, sockRemote, copier, moved>>

(* The client's greeting, our two bytes, its command, our final reply.     *)
ClientOperation ==
  /\ \/ starter = "greeting" /\ starter' = "greeted"
     \/ starter = "accepting" /\ starter' = "accepted"
     \/ starter = "asking" /\ starter' = "asked"
     \/ starter = "replying" /\ starter' = "replied"
  /\ sock = "open"
  /\ UNCHANGED <<baseVars, rawVars, sockRemote, copier, moved>>

ClientOperationFails ==
  /\ starter \in {"greeting", "accepting", "asking", "replying"}
  /\ starter' = "failed"
  /\ UNCHANGED <<baseVars, rawVars, sockRemote, copier, moved>>

(* state = RELAY_INIT; start_send(); and the final reply is under way.     *)
StarterServes ==
  /\ state' = "INIT"
  /\ coros' = StartSend(coros)
  /\ starter' = "replying"
  /\ UNCHANGED <<bufs, timeout, down, accepted, posted, entry, given, wire>>

(* A fault: the session is served while the reply still waits for a name.  *)
StarterTunnelsUnreplied ==
  /\ starter = "asked"
  /\ Request("START_TCP")
  /\ reader' = "spawned"
  /\ state' = "INIT"
  /\ coros' = StartSend(coros)
  /\ starter' = "resolving"
  /\ UNCHANGED <<bufs, timeout, down, accepted, posted, entry, given, wire,
                 sock, sockRemote, copier, moved>>

(* A connect command for a blocked host is passed on.                      *)
StarterTunnels ==
  /\ starter = "asked"
  /\ Request("START_TCP")
  /\ reader' = "spawned"
  /\ StarterServes
  /\ UNCHANGED <<sock, sockRemote, copier, moved>>

(* For any other host the name is resolved here.                           *)
StarterResolves ==
  /\ starter = "asked"
  /\ starter' = "resolving"
  /\ UNCHANGED <<baseVars, rawVars, sockRemote, copier, moved>>

(* Not a connect command, or too short a one.                              *)
StarterRefuses ==
  /\ starter = "asked"
  /\ starter' = "failed"
  /\ UNCHANGED <<baseVars, rawVars, sockRemote, copier, moved>>

ResolveCompletes ==
  /\ starter = "resolving"
  /\ starter' \in {"resolved", "failed"}
  /\ UNCHANGED <<baseVars, rawVars, sockRemote, copier, moved>>

StarterConnects ==
  /\ starter = "resolved"
  /\ starter' = "connecting"
  /\ sockRemote' = "open"
  /\ UNCHANGED <<baseVars, rawVars, copier, moved>>

ConnectCompletes ==
  /\ starter = "connecting"
  /\ starter' \in {"connected", "failed"}
  /\ UNCHANGED <<baseVars, rawVars, sockRemote, copier, moved>>

StarterCopies ==
  /\ starter = "connected"
  /\ copier' = [d \in Dir |-> "spawned"]
  /\ StarterServes
  /\ UNCHANGED <<sock, reader, requests, sockRemote, moved>>

StarterCatches ==
  /\ starter = "failed"
  /\ starter' = "done"
  /\ StopAndTellManager
  /\ UNCHANGED <<bufs, coros, timeout, down, accepted,
                 reader, posted, entry, given, wire, sockRemote, copier, moved>>

-----------------------------------------------------------------------------
(* impl_local_relay: read from one socket, write to the other, never       *)
(* touching the idle counter.  stop_relay() closes _sock only.             *)

Step(d, from, to) ==
  /\ copier[d] = from
  /\ copier' = [copier EXCEPT ![d] = to]
  /\ UNCHANGED <<baseVars, rawVars, starter, sockRemote>>

CopierReads(d) ==
  /\ Step(d, "spawned", "reading") \/ Step(d, "written", "reading")
  /\ UNCHANGED moved
CopierWrites(d) == Step(d, "got", "writing") /\ UNCHANGED moved

Open(d, source) == IF (d = "up") = source THEN sock = "open" ELSE sockRemote = "open"

CopierReadSucceeds(d) ==
  /\ Open(d, TRUE)
  /\ Step(d, "reading", "got")
  /\ UNCHANGED moved

(* Writes to _sock complete in the order they were started, and the final  *)
(* reply was started first.                                                *)
CopierWriteSucceeds(d) ==
  /\ Open(d, FALSE)
  /\ d = "down" => starter # "replying"
  /\ Step(d, "writing", "written")
  /\ moved' = TRUE

CopierFails(d) ==
  /\ Step(d, "reading", "failed") \/ Step(d, "writing", "failed")
  /\ UNCHANGED moved

CopierCatches(d) ==
  /\ copier[d] = "failed"
  /\ copier' = [copier EXCEPT ![d] = "done"]
  /\ StopAndTellManager
  /\ UNCHANGED <<bufs, coros, timeout, down, accepted, reader,
                 posted, entry, given, wire, starter, sockRemote, moved>>

-----------------------------------------------------------------------------
(* The remote server sends for a session only once it has been asked to    *)
(* start it.                                                               *)
Asked == \E i \in DOMAIN requests : requests[i] = "START_TCP"

LocalManagerStep ==
  /\ Asked
  /\ ManagerStop \/ \E d \in Data : ManagerData(d)
  /\ UNCHANGED localVars

LocalTimerStep ==
  /\ TimerStep
  /\ moved' = (moved /\ down.at # "loaded")
  /\ UNCHANGED <<starter, sockRemote, copier>>

(* Writes to _sock complete in the order they were started.                *)
LocalNetworkStep ==
  \/ \E i \in DOMAIN coros : starter # "replying" /\ WriteSucceeds(i)
  \/ \E i \in DOMAIN coros : WriteFails(i)
  \/ ReadSucceeds \/ ReadFails

StarterStep ==
  \/ StarterWaits \/ StarterTunnels \/ StarterResolves \/ StarterRefuses
  \/ StarterConnects \/ StarterCopies \/ StarterCatches

CopierStep(d) == CopierReads(d) \/ CopierWrites(d) \/ CopierCatches(d)

Next ==
  \/ StarterStep
  \/ ClientOperation \/ ClientOperationFails \/ ResolveCompletes \/ ConnectCompletes
  \/ \E d \in Dir : CopierStep(d) \/ CopierReadSucceeds(d)
                      \/ CopierWriteSucceeds(d) \/ CopierFails(d)
  \/ (StrandStep \/ LocalNetworkStep) /\ UNCHANGED localVars
  \/ LocalManagerStep \/ LocalTimerStep

(* Operations pending on _sock are aborted when it is closed.              *)
ClientAborts ==
  /\ sock = "closed"
  /\ \/ ClientOperationFails
     \/ copier["up"] = "reading" /\ CopierFails("up")
     \/ copier["down"] = "writing" /\ CopierFails("down")

Fairness ==
  /\ WF_vars(StarterStep)
  /\ WF_vars(ResolveCompletes)
  /\ WF_vars(ConnectCompletes)
  /\ \A d \in Dir : WF_vars(CopierStep(d))
  /\ WF_vars(StrandStep /\ UNCHANGED localVars)
  /\ WF_vars(Aborts /\ UNCHANGED localVars)
  /\ WF_vars(ClientAborts)
  /\ WF_vars(LocalTimerStep)

Spec == Init /\ [][Next]_vars /\ Fairness

-----------------------------------------------------------------------------
(* The client reads the socks5 reply before anything that was relayed to   *)
(* it, though start_send() is called first.  (raw_tcp.cpp:273-280)         *)
ReplyFirst ==
  wire # <<>> \/ copier["down"] = "written" => starter \in {"replied", "done", "failed"}

(* The remote server sees the START_TCP of a session before its data.      *)
(* (raw_tcp.cpp:252-257)                                                   *)
StartFirst ==
  \A i \in DOMAIN requests : requests[i] = "DATA_TCP" =>
    \E j \in 1 .. i - 1 : requests[j] = "START_TCP"

(* A session the manager has let go of, by whatever way, ends with its     *)
(* client's socket closed, at every point of the handshake.                *)
(* (relay_manager.cpp:148-157, 214-222)                                    *)
ErasedIsClosed == entry # "listed" ~> [](sock = "closed")

(* When the client's socket is closed, for whatever reason, no coroutine   *)
(* goes on waiting for it, and if the remote server was asked for the      *)
(* session it is told to stop it.  (raw_tcp.cpp:66-74, 282-290)            *)
ClientIsLeft ==
  /\ starter = "done"
  /\ reader \in {"off", "done"}
  /\ \A i \in DOMAIN coros : coros[i].pc = "done"
  /\ copier["up"] # "reading"
  /\ copier["down"] # "writing"
ClosedIsAnnounced ==
  sock = "closed" ~>
    [](ClientIsLeft /\ (Asked => \E i \in DOMAIN requests : requests[i] = "STOP_TCP"))

(* What raw_tcp.cpp:272 says, "start_send for local relay too, use timer   *)
(* to stop when timeout": only a direct relay that copied nothing since    *)
(* the last tick is stopped.                                               *)
StopsOnlyWhenIdle == [][down'.at = "stopping" => ~ moved]_down

(* However a relay ends, its client's socket is closed, and once that is   *)
(* closed the other side is told and nothing of the relay goes on.         *)
(* (raw_tcp.cpp:66-74, 98-112, relay_manager.cpp:148-168, 214-222)         *)
EndsClosed == ErasedIsClosed /\ ClosedIsAnnounced

(* Each side sees the beginning first: the client the reply, the remote    *)
(* server START_TCP.  (raw_tcp.cpp:252-280)                                *)
HandshakeInOrder == ReplyFirst /\ StartFirst

(* The types; one coroutine writes at a time, and pops what it wrote; and  *)
(* no buffer waits in the queue of an idle relay, however the handshake    *)
(* goes.  (base_relay.cpp:39-71, raw_tcp.cpp:273-290)                      *)
QueueInv == TypeOK /\ OneWriter /\ NoLostWakeup
=============================================================================
