---------------------------- MODULE RemoteServer ----------------------------
(***************************************************************************)
(* The remote server as a process: server_start() and its threads, the     *)
(* accept loop, the manager each accepted link is given, and who keeps a   *)
(* manager alive.  The relays hold it by a weak pointer only, so it lives  *)
(* while it waits for its link, while its timer runs, and while a handler  *)
(* posted to its strand has not run; then it is freed, and what is still   *)
(* going on must do without it.                                            *)
(*                                                                         *)
(* A handler dispatched to a strand that is free runs at once, in the      *)
(* coroutine that posted it, and so does its exception; one that another   *)
(* thread finds busy is queued, and its exception leaves io.run().         *)
(*                                                                         *)
(* A link (SslRelay) and the relay of a session (RawTcpRemote, RemoteUdp)  *)
(* are reduced to their phases.  Each link carries one session.            *)
(***************************************************************************)
EXTENDS Integers, Sequences

CONSTANTS
  MaxLinks,  \* links accepted between two starts of the server
  MaxQueue,  \* handlers waiting for one strand
  Workers    \* thread_num: threads in io.run() next to the main one

ASSUME RemoteServerAssumption ==
  /\ MaxLinks \in Nat \ {0}
  /\ MaxQueue \in Nat
  /\ Workers \in Nat

Links == 1 .. MaxLinks

VARIABLES
  mode,      \* of the process
  acceptor,  \* the coroutine of remote_accept()
  next,      \* the manager in _manager: that of the link to come
  link,      \* the ssl_relay of each link
  timer,     \* the coroutine of each manager's start_timer()
  mstate,    \* _state of each manager
  inbox,     \* handlers queued for each manager's strand
  kind,      \* of the relay of the link's session
  conn,      \* that relay's coroutine
  listed,    \* it is in _relays
  stray      \* history: it was told to stop in vain, or will not be told

managers == <<timer, mstate, inbox>>
relays == <<kind, conn, listed, stray>>
serverVars == <<mode, acceptor, next, link, managers, relays>>

Requests == {"start", "udp", "stop", "request"}

ServerTypeOK ==
  /\ mode \in {"running", "restarting", "crashed"}
  /\ acceptor \in {"waiting", "ended"}
  /\ next \in 1 .. MaxLinks + 1
  /\ link \in [Links -> {"none", "serving", "stopping", "ended"}]
  /\ timer \in [Links -> {"off", "waiting", "done"}]
  /\ mstate \in [Links -> {"START", "STOP"}]
  /\ inbox \in [Links -> Seq(Requests)]
  /\ \A n \in Links : Len(inbox[n]) <= MaxQueue
  /\ kind \in [Links -> {"none", "tcp", "udp"}]
  /\ conn \in [Links -> {"none", "starting", "reading", "got", "last", "stopping", "ended"}]
  /\ listed \in [Links -> BOOLEAN]
  /\ stray \in [Links -> BOOLEAN]
  /\ \A n \in Links : n >= next => link[n] = "none" /\ timer[n] = "off"

(* server_start() makes a relay_acceptor, and start_accept() a manager.    *)
ServerInit ==
  /\ mode = "running"
  /\ acceptor = "waiting"
  /\ next = 1
  /\ link = [n \in Links |-> "none"]
  /\ timer = [n \in Links |-> "off"]
  /\ mstate = [n \in Links |-> "START"]
  /\ inbox = [n \in Links |-> <<>>]
  /\ kind = [n \in Links |-> "none"]
  /\ conn = [n \in Links |-> "none"]
  /\ listed = [n \in Links |-> FALSE]
  /\ stray = [n \in Links |-> FALSE]

(* manager.lock() finds the manager of link n.                             *)
Alive(n) == n = next \/ timer[n] = "waiting" \/ inbox[n] # <<>>

-----------------------------------------------------------------------------
(* remote_accept().                                                        *)

(* A fault: the next manager takes its place before the timer is started.  *)
AcceptsReplacedFirst ==
  /\ mode = "running"
  /\ acceptor = "waiting"
  /\ next \in Links
  /\ link' = [link EXCEPT ![next] = "serving"]
  /\ next' = next + 1
  /\ timer' = [n \in Links |-> IF n = next + 1 THEN "waiting" ELSE timer[n]]
  /\ UNCHANGED <<mode, acceptor, mstate, inbox, relays>>

Accepts ==
  /\ mode = "running"
  /\ acceptor = "waiting"
  /\ next \in Links
  /\ link' = [link EXCEPT ![next] = "serving"]
  /\ timer' = [timer EXCEPT ![next] = "waiting"]
  /\ next' = next + 1
  /\ UNCHANGED <<mode, acceptor, mstate, inbox, relays>>

(* bind, listen or accept has failed: the exception of a detached          *)
(* coroutine reaches nobody, and the loop has ended.                       *)
AcceptFails ==
  /\ mode = "running"
  /\ acceptor = "waiting"
  /\ acceptor' = "ended"
  /\ UNCHANGED <<mode, next, link, managers, relays>>

-----------------------------------------------------------------------------
(* The handlers of a manager's strand.                                     *)

(* stop_relay() of a relay that is listed: while it resolves it may not    *)
(* notice, and a chunk it has been sent is passed on first.                *)
StopListed(n) ==
  /\ \/ /\ listed[n]
        /\ conn[n] = "starting"
        /\ stray' = [stray EXCEPT ![n] = TRUE]
        /\ UNCHANGED conn
     \/ /\ conn' = [conn EXCEPT ![n] =
                      CASE ~ listed[n] -> @
                        [] @ \in {"starting", "reading"} -> "stopping"
                        [] @ = "got" -> "last"
                        [] OTHER -> @]
        /\ UNCHANGED stray
  /\ listed' = [listed EXCEPT ![n] = FALSE]

StopManager(n) ==
  /\ StopListed(n)
  /\ mstate' = [mstate EXCEPT ![n] = "STOP"]

(* add_response(START_TCP), and the first DATA_UDP of a session, which     *)
(* makes its relay on a socket that is bound at once.                      *)
Makes(n, k) ==
  /\ kind' = [kind EXCEPT ![n] = k]
  /\ conn' = [conn EXCEPT ![n] = IF k = "tcp" THEN "starting" ELSE "reading"]
  /\ listed' = [listed EXCEPT ![n] = TRUE]
  /\ stray' = [stray EXCEPT ![n] = mstate[n] = "STOP"]

(* The effect of handler h, when the relays' coroutines are as given.      *)
Handles(n, h) ==
  \/ h = "start" /\ Makes(n, "tcp") /\ UNCHANGED mstate
  \/ h = "udp" /\ Makes(n, "udp") /\ UNCHANGED mstate
  \/ h = "stop" /\ StopListed(n) /\ UNCHANGED <<mstate, kind>>

(* add_request(): a link that has stopped stops the manager.               *)
HandlesRequest(n) ==
  \/ link[n] = "serving" /\ UNCHANGED <<mstate, conn, listed, stray>>
  \/ link[n] # "serving" /\ StopManager(n)

(* The strand is free, or another thread is in it.                         *)
Free(n) == inbox[n] = <<>>
Queues(n, h) ==
  /\ Workers > 0
  /\ Len(inbox[n]) < MaxQueue
  /\ inbox' = [inbox EXCEPT ![n] = Append(@, h)]

RunsHandler(n) ==
  /\ mode = "running"
  /\ inbox[n] # <<>>
  /\ inbox' = [inbox EXCEPT ![n] = Tail(@)]
  /\ \/ Handles(n, Head(inbox[n]))
     \/ Head(inbox[n]) = "request" /\ HandlesRequest(n) /\ UNCHANGED kind
  /\ UNCHANGED <<mode, acceptor, next, link, timer>>

(* No socket can be had for a udp relay.  The main thread catches what     *)
(* leaves its io.run() and starts the server anew; from any other thread   *)
(* it ends the process.                                                    *)
HandlerThrows(n) ==
  /\ mode = "running"
  /\ inbox[n] # <<>>
  /\ Head(inbox[n]) = "udp"
  /\ mode' \in {"restarting", "crashed"}
  /\ inbox' = [inbox EXCEPT ![n] = Tail(@)]
  /\ UNCHANGED <<acceptor, next, link, timer, mstate, relays>>

-----------------------------------------------------------------------------
(* The link.                                                               *)

(* The first message makes the session's relay, a STOP_TCP may follow.  A  *)
(* message of a link whose manager is gone is dropped.                     *)
Sends(n, h) ==
  \/ h \in {"start", "udp"} /\ kind[n] = "none"
  \/ h = "stop" /\ kind[n] = "tcp" /\ listed[n]

LinkDelivers(n) ==
  /\ mode = "running"
  /\ link[n] \in {"serving", "stopping"}
  /\ Alive(n)
  /\ \E h \in {"start", "udp", "stop"} :
       /\ Sends(n, h)
       /\ \A i \in DOMAIN inbox[n] : inbox[n][i] \notin {"start", "udp"}
       /\ \/ Free(n) /\ Handles(n, h) /\ UNCHANGED inbox
          \/ Queues(n, h) /\ UNCHANGED <<mstate, relays>>
  /\ UNCHANGED <<mode, acceptor, next, link, timer>>

(* No socket can be had, and the handler runs in the link's reader, which  *)
(* catches the exception and stops the link.                               *)
LinkCatches(n) ==
  /\ mode = "running"
  /\ link[n] \in {"serving", "stopping"}
  /\ Alive(n)
  /\ Free(n)
  /\ Sends(n, "udp")
  /\ link' = [link EXCEPT ![n] = "stopping"]
  /\ UNCHANGED <<mode, acceptor, next, managers, relays>>

LinkStops(n) ==
  /\ mode = "running"
  /\ link[n] = "serving"
  /\ link' = [link EXCEPT ![n] = "stopping"]
  /\ UNCHANGED <<mode, acceptor, next, managers, relays>>

LinkEnds(n) ==
  /\ mode = "running"
  /\ link[n] = "stopping"
  /\ link' = [link EXCEPT ![n] = "ended"]
  /\ UNCHANGED <<mode, acceptor, next, managers, relays>>

-----------------------------------------------------------------------------
(* start_timer().                                                          *)

(* A tick: the relay may be found idle; a manager that has stopped ends.   *)
TimerTicks(n) ==
  /\ mode = "running"
  /\ timer[n] = "waiting"
  /\ StopListed(n) \/ UNCHANGED <<conn, listed, stray>>
  /\ timer' = [timer EXCEPT ![n] = IF mstate[n] = "STOP" THEN "done" ELSE "waiting"]
  /\ UNCHANGED <<mode, acceptor, next, link, mstate, inbox, kind>>

(* A fault: the manager ends and leaves its relays alone.                  *)
TimerExpiresAlone(n) ==
  /\ mode = "running"
  /\ timer[n] = "waiting"
  /\ link' = [link EXCEPT ![n] = IF @ = "serving" THEN "stopping" ELSE @]
  /\ timer' = [timer EXCEPT ![n] = "done"]
  /\ UNCHANGED <<mode, acceptor, next, inbox, mstate, relays>>

(* A fault: a link that has stopped already is not counted down.           *)
TimerExpiresServing(n) ==
  /\ mode = "running"
  /\ timer[n] = "waiting"
  /\ link[n] = "serving"
  /\ link' = [link EXCEPT ![n] = "stopping"]
  /\ StopManager(n)
  /\ timer' = [timer EXCEPT ![n] = "done"]
  /\ UNCHANGED <<mode, acceptor, next, inbox, kind>>

(* The link's counter is zero, and timeout_down() has stopped the link.    *)
TimerExpires(n) ==
  /\ mode = "running"
  /\ timer[n] = "waiting"
  /\ link' = [link EXCEPT ![n] = IF @ = "serving" THEN "stopping" ELSE @]
  /\ StopManager(n)
  /\ timer' = [timer EXCEPT ![n] = "done"]
  /\ UNCHANGED <<mode, acceptor, next, inbox, kind>>

-----------------------------------------------------------------------------
(* The relay.                                                              *)

RelayStarts(n) ==
  /\ mode = "running"
  /\ conn[n] = "starting"
  /\ conn' = [conn EXCEPT ![n] = "reading"]
  /\ UNCHANGED <<mode, acceptor, next, link, managers, kind, listed, stray>>

(* The destination is not reached, or the host closes.                     *)
RelayFails(n) ==
  /\ mode = "running"
  /\ conn[n] \in {"starting", "reading"}
  /\ conn' = [conn EXCEPT ![n] = "stopping"]
  /\ UNCHANGED <<mode, acceptor, next, link, managers, kind, listed, stray>>

HostSends(n) ==
  /\ mode = "running"
  /\ conn[n] = "reading"
  /\ conn' = [conn EXCEPT ![n] = "got"]
  /\ UNCHANGED <<mode, acceptor, next, link, managers, kind, listed, stray>>

(* The reader passes a chunk on to a manager it does not test for null.    *)
RelayCrashes(n) ==
  /\ mode = "running"
  /\ conn[n] \in {"got", "last"}
  /\ ~ Alive(n)
  /\ mode' = "crashed"
  /\ UNCHANGED <<acceptor, next, link, managers, relays>>

(* The coroutine goes on to pc once its request has been posted; when the  *)
(* handler runs at once it may stop the relay.                             *)
Posts(n, pc) ==
  \/ /\ Free(n)
     /\ UNCHANGED inbox
     /\ \/ /\ link[n] = "serving"
           /\ conn' = [conn EXCEPT ![n] = pc]
           /\ UNCHANGED <<mstate, listed, stray>>
        \/ /\ link[n] # "serving"
           /\ conn' = [conn EXCEPT ![n] = IF listed[n] /\ pc = "reading" THEN "stopping" ELSE pc]
           /\ listed' = [listed EXCEPT ![n] = FALSE]
           /\ mstate' = [mstate EXCEPT ![n] = "STOP"]
           /\ UNCHANGED stray
  \/ /\ Queues(n, "request")
     /\ conn' = [conn EXCEPT ![n] = pc]
     /\ UNCHANGED <<mstate, listed, stray>>

RelayResumes(n) ==
  /\ mode = "running"
  /\ Alive(n)
  /\ \/ conn[n] = "got" /\ Posts(n, "reading")
     \/ conn[n] = "last" /\ Posts(n, "stopping")
  /\ UNCHANGED <<mode, acceptor, next, link, timer, kind>>

(* The catch clauses: a tcp relay says it has ended, if it has a manager.  *)
RelayCatches(n) ==
  /\ mode = "running"
  /\ conn[n] = "stopping"
  /\ \/ kind[n] = "tcp" /\ Alive(n) /\ Posts(n, "ended")
     \/ /\ kind[n] = "udp" \/ ~ Alive(n)
        /\ conn' = [conn EXCEPT ![n] = "ended"]
        /\ UNCHANGED <<inbox, mstate, listed, stray>>
  /\ UNCHANGED <<mode, acceptor, next, link, timer, kind>>

-----------------------------------------------------------------------------
(* server_start().                                                         *)

(* A manager, a link and a relay that wait for nothing more.               *)
Quiet(n) ==
  /\ timer[n] # "waiting"
  /\ inbox[n] = <<>>
  /\ link[n] \in {"none", "ended"}
  /\ conn[n] \in {"none", "ended"}

(* io.run() has no work left and returns in every thread.                  *)
RunsOut ==
  /\ mode = "running"
  /\ acceptor = "ended"
  /\ \A n \in Links : Quiet(n)
  /\ mode' = "restarting"
  /\ UNCHANGED <<acceptor, next, link, managers, relays>>

(* Everything is destroyed and made anew.                                  *)
Restarts ==
  /\ mode = "restarting"
  /\ mode' = "running"
  /\ acceptor' = "waiting"
  /\ next' = 1
  /\ link' = [n \in Links |-> "none"]
  /\ timer' = [n \in Links |-> "off"]
  /\ mstate' = [n \in Links |-> "START"]
  /\ inbox' = [n \in Links |-> <<>>]
  /\ kind' = [n \in Links |-> "none"]
  /\ conn' = [n \in Links |-> "none"]
  /\ listed' = [n \in Links |-> FALSE]
  /\ stray' = [n \in Links |-> FALSE]

-----------------------------------------------------------------------------
ServerNext ==
  \/ Accepts \/ AcceptFails \/ RunsOut \/ Restarts
  \/ \E n \in Links :
       \/ RunsHandler(n) \/ HandlerThrows(n)
       \/ LinkDelivers(n) \/ LinkCatches(n) \/ LinkStops(n) \/ LinkEnds(n)
       \/ TimerTicks(n) \/ TimerExpires(n)
       \/ RelayStarts(n) \/ RelayFails(n) \/ HostSends(n)
       \/ RelayCrashes(n) \/ RelayResumes(n) \/ RelayCatches(n)

(* Handlers and coroutines run; a link that has stopped comes to an end    *)
(* and its counter to zero; resolving and connecting come to an end.       *)
(* Nobody need connect, send or leave.                                     *)
ServerFairness ==
  /\ WF_serverVars(RunsOut)
  /\ WF_serverVars(Restarts)
  /\ \A n \in Links :
       /\ WF_serverVars(RunsHandler(n) \/ HandlerThrows(n))
       /\ WF_serverVars(LinkEnds(n))
       /\ WF_serverVars(link[n] # "serving" /\ TimerExpires(n))
       /\ WF_serverVars(conn[n] = "starting" /\ (RelayStarts(n) \/ RelayFails(n)))
       /\ WF_serverVars(RelayCrashes(n) \/ RelayResumes(n))
       /\ WF_serverVars(RelayCatches(n))

ServerSpec == ServerInit /\ [][ServerNext]_serverVars /\ ServerFairness

-----------------------------------------------------------------------------
(* A link that serves has a manager: what it receives is not dropped.      *)
(* (relay_acceptor.cpp:74-77, ssl_relay.cpp:69-74, relay_manager.cpp:190)  *)
HeldWhileServing ==
  \A n \in Links : link[n] = "serving" => Alive(n) /\ mstate[n] = "START"

(* The types, and a manager for each link that serves, through the         *)
(* handover from the acceptor to the timer.  (relay_acceptor.cpp:73-76)    *)
ManagerInv == ServerTypeOK /\ HeldWhileServing

(* When a link has ended its manager is freed, whatever is queued for it,  *)
(* and its relay ends, unless that was told to stop in vain or started by  *)
(* a manager that had stopped.  (relay_manager.cpp:164-172, 182-195)       *)
EndsWithLink ==
  \A n \in Links :
    link[n] = "ended"
      ~> \/ ~ Alive(n) /\ (conn[n] \in {"none", "ended"} \/ stray[n])
         \/ mode # "running"
         \/ link[n] = "none"

(* A server whose accept loop has ended is not deaf for ever: once its     *)
(* links are gone io.run() returns and the server starts anew, unless a    *)
(* relay that nobody lists keeps it.  (relay_acceptor.cpp:78-80,           *)
(* main.cpp:48-82)                                                         *)
AcceptsAgain ==
  []<>(\/ acceptor = "waiting"
       \/ mode = "crashed"
       \/ \E n \in Links : link[n] = "serving" \/ stray[n])

(* A reader that passes on a chunk has a manager: raw_tcp.cpp:60-62 says   *)
(* of a null manager that it should not happen.                            *)
ManagerNotNull == \A n \in Links : conn[n] \in {"got", "last"} => Alive(n)
=============================================================================
