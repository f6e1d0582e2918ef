---------------------------- MODULE RawTcpRemote ----------------------------
(***************************************************************************)
(* A raw_tcp relay of the remote server, from the START_TCP command that   *)
(* makes the manager create it to its end: impl_start_remote() resolves    *)
(* the destination and connects to it while buffers and STOP_TCP may       *)
(* already arrive for the session.                                         *)
(***************************************************************************)
EXTENDS RawTcp

VARIABLES
  starter    \* the coroutine of impl_start_remote

vars == <<baseVars, rawVars, starter>>

StarterPc == {"spawned", "resolving", "resolved",
              "connecting", "connected", "failed", "done"}

TypeOK == RawTypeOK /\ starter \in StarterPc

(* add_remote_raw_tcp(): the relay is in _relays, its starter is spawned.  *)
Init ==
  /\ RawInit
  /\ sock = "unopened"
  /\ starter = "spawned"

-----------------------------------------------------------------------------
StarterEnters ==
  /\ starter = "spawned"
  /\ starter' = "resolving"
  /\ UNCHANGED <<baseVars, rawVars>>

(* The resolver is an object of its own: stop_relay() does not cancel it.  *)
ResolveCompletes ==
  /\ starter = "resolving"
  /\ starter' \in {"resolved", "failed"}
  /\ UNCHANGED <<baseVars, rawVars>>

(* async_connect on the resolved addresses opens _sock.                    *)
StarterConnects ==
  /\ starter = "resolved"
  /\ starter' = "connecting"
  /\ sock' = "open"
  /\ UNCHANGED <<baseVars, reader, posted, entry, requests, given, wire>>

ConnectSucceeds ==
  /\ starter = "connecting"
  /\ sock = "open"
  /\ starter' = "connected"
  /\ UNCHANGED <<baseVars, rawVars>>

ConnectFails ==
  /\ starter = "connecting"
  /\ starter' = "failed"
  /\ UNCHANGED <<baseVars, rawVars>>

(* async_connect looks at the socket again before it reports success: one  *)
(* that stop_relay() closed meanwhile is operation_aborted.                *)
StarterRelays ==
  /\ starter = "connected"
  /\ sock = "open"
  /\ starter' = "done"
  /\ state' = "INIT"
  /\ coros' = StartSend(coros)
  /\ reader' = "spawned"
  /\ UNCHANGED <<bufs, timeout, down, accepted,
                 sock, posted, entry, requests, given, wire>>

StarterCatches ==
  /\ \/ starter = "failed"
     \/ starter = "connected" /\ sock = "closed"
  /\ starter' = "done"
  /\ StopAndTellManager
  /\ UNCHANGED <<bufs, coros, timeout, down, accepted,
                 reader, posted, entry, given, wire>>

-----------------------------------------------------------------------------
StarterStep ==
  \/ StarterEnters \/ StarterConnects \/ StarterRelays \/ StarterCatches

Next ==
  \/ StarterStep \/ ResolveCompletes \/ ConnectSucceeds \/ ConnectFails
  \/ /\ StrandStep \/ NetworkStep \/ ManagerStep
     /\ UNCHANGED starter

(* Resolving and connecting end by themselves, in success or in failure.   *)
Fairness ==
  /\ WF_vars(StarterStep)
  /\ WF_vars(ResolveCompletes)
  /\ WF_vars(ConnectSucceeds \/ ConnectFails)
  /\ WF_vars(StrandStep /\ UNCHANGED starter)
  /\ WF_vars(Aborts /\ UNCHANGED starter)
  /\ WF_vars(TimerStep /\ UNCHANGED starter)

Spec == Init /\ [][Next]_vars /\ Fairness

-----------------------------------------------------------------------------
(* When the socket is closed, for whatever reason, the other side of the   *)
(* tunnel is told and every coroutine of the relay ends.                   *)
Finished ==
  /\ starter = "done"
  /\ reader \in {"off", "done"}
  /\ \A i \in DOMAIN coros : coros[i].pc = "done"
ClosedIsAnnounced ==
  sock = "closed" ~>
    [](Finished /\ \E i \in DOMAIN requests : requests[i] = "STOP_TCP")

=============================================================================
