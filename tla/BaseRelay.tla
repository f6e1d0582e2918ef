------------------------------ MODULE BaseRelay ------------------------------
(***************************************************************************)
(* The sending half every relay inherits from base_relay: the queue of     *)
(* buffers, the send coroutine that empties it, and the idle counter.      *)
(* This module has no specification of its own: raw_tcp, raw_udp and       *)
(* ssl_relay differ in how they start, write and stop, and the modules     *)
(* that model them build their actions from the operators below.           *)
(*                                                                         *)
(* A send coroutine is a frame in `coros'.  start_send() may be called     *)
(* while an earlier frame is still alive, so frames are kept apart and     *)
(* "only one of them ever writes" is something to check.  co_spawn posts   *)
(* the frame's first step to the strand (or, in newer Boost releases, runs *)
(* it at once); a frame in "spawned" may take that step at any later time, *)
(* which allows both.                                                      *)
(***************************************************************************)
EXTENDS Naturals, Sequences

CONSTANTS
  Data,      \* buffers handed to send_data
  NoBuf,     \* content of a frame that holds no buffer
  TIMEOUT    \* timer ticks without activity before a relay is stopped

ASSUME BaseAssumption ==
  /\ NoBuf \notin Data
  /\ TIMEOUT \in Nat \ {0}

VARIABLES
  state,     \* relay_state_t
  bufs,      \* _impl->_bufs, the front first
  coros,     \* the send coroutines spawned so far, in order
  timeout,   \* _impl->_timeout
  down,      \* how far the timer's call of timeout_down() has come
  accepted   \* history: every buffer send_data has pushed

baseVars == <<state, bufs, coros, timeout, down, accepted>>

RelayState == {"UNINIT", "INIT", "START", "STOP"}

(* A frame waits for its first step, is suspended in internal_send_data    *)
(* with the write pending, finished or failed, or has returned.            *)
Frame == [pc : {"spawned", "writing", "written", "failed", "done"},
          buf : Data \cup {NoBuf}]

Spawned == [pc |-> "spawned", buf |-> NoBuf]
Returned == [pc |-> "done", buf |-> NoBuf]
Writing(d) == [pc |-> "writing", buf |-> d]

(* timeout_down() runs in the manager's strand and _timeout is a plain int *)
(* that the relay's strand also writes, so the load and the store of its   *)
(* decrement, and the load of its return value, are separate steps.        *)
Down == [at : {"out", "stopping"}, value : {0}]
          \cup [at : {"loaded"}, value : 1 .. TIMEOUT]
NotCalled == [at |-> "out", value |-> 0]

BaseTypeOK ==
  /\ state \in RelayState
  /\ bufs \in Seq(Data)
  /\ coros \in Seq(Frame)
  /\ timeout \in 0 .. TIMEOUT
  /\ down \in Down
  /\ accepted \in Seq(Data)

BaseInit ==
  /\ state = "UNINIT"
  /\ bufs = <<>>
  /\ coros = <<>>
  /\ timeout = TIMEOUT
  /\ down = NotCalled
  /\ accepted = <<>>

(* start_send(): co_spawn of the send coroutine on the relay's strand.     *)
StartSend(cs) == Append(cs, Spawned)

(* A fault: the queue is tested after the buffer has been pushed.          *)
SendDataTestsLate(d) ==
  /\ \/ /\ state = "STOP"
        /\ UNCHANGED <<bufs, coros, accepted>>
     \/ /\ state # "STOP"
        /\ bufs' = Append(bufs, d)
        /\ accepted' = Append(accepted, d)
        /\ coros' = IF state = "INIT" /\ bufs' = <<>>
                    THEN StartSend(coros)
                    ELSE coros
  /\ UNCHANGED <<state, timeout>>

(* The handler send_data dispatches to the relay's strand.                 *)
SendData(d) ==
  /\ \/ /\ state = "STOP"
        /\ UNCHANGED <<bufs, coros, accepted>>
     \/ /\ state # "STOP"
        /\ bufs' = Append(bufs, d)
        /\ accepted' = Append(accepted, d)
        /\ coros' = IF state = "INIT" /\ bufs = <<>>
                    THEN StartSend(coros)
                    ELSE coros
  /\ UNCHANGED <<state, timeout>>

(* A fault: leaving the loop does not set RELAY_INIT.                      *)
SendLoopStaysStarted(i, q, s) ==
  \/ /\ q = <<>> \/ s = "STOP"
     /\ state' = s
     /\ coros' = [coros EXCEPT ![i] = Returned]
     /\ UNCHANGED timeout
  \/ /\ q # <<>>
     /\ s # "STOP"
     /\ state' = s
     /\ coros' = [coros EXCEPT ![i] = Writing(Head(q))]
     /\ timeout' = TIMEOUT

(* One turn of the while loop of start_send, taken by frame i when the     *)
(* queue is q and the relay's state is s.  The emptiness test comes before *)
(* the RELAY_STOP test, and leaving the loop sets RELAY_INIT.              *)
SendLoop(i, q, s) ==
  \/ /\ q = <<>>
     /\ state' = "INIT"
     /\ coros' = [coros EXCEPT ![i] = Returned]
     /\ UNCHANGED timeout
  \/ /\ q # <<>>
     /\ s = "STOP"
     /\ state' = s
     /\ coros' = [coros EXCEPT ![i] = Returned]
     /\ UNCHANGED timeout
  \/ /\ q # <<>>
     /\ s # "STOP"
     /\ state' = s
     /\ coros' = [coros EXCEPT ![i] = Writing(Head(q))]
     /\ timeout' = TIMEOUT

(* A fault: start_send() does not ask whether another is sending.          *)
EnterSendUnguarded(i) ==
  /\ coros[i].pc = "spawned"
  /\ SendLoop(i, bufs, "START")
  /\ UNCHANGED <<bufs, accepted>>

(* A fault: RELAY_START is never set.                                      *)
EnterSendUnmarked(i) ==
  /\ coros[i].pc = "spawned"
  /\ \/ /\ state # "INIT"
        /\ coros' = [coros EXCEPT ![i] = Returned]
        /\ UNCHANGED <<state, timeout>>
     \/ /\ state = "INIT"
        /\ SendLoop(i, bufs, state)
  /\ UNCHANGED <<bufs, accepted>>

(* The first step of a spawned send coroutine.                             *)
EnterSend(i) ==
  /\ coros[i].pc = "spawned"
  /\ \/ /\ state # "INIT"
        /\ coros' = [coros EXCEPT ![i] = Returned]
        /\ UNCHANGED <<state, timeout>>
     \/ /\ state = "INIT"
        /\ SendLoop(i, bufs, "START")
  /\ UNCHANGED <<bufs, accepted>>

(* A fault: the buffer that was written is left at the front.              *)
ResumeSendKeepsFront(i) ==
  /\ coros[i].pc = "written"
  /\ SendLoop(i, bufs, state)
  /\ UNCHANGED <<bufs, accepted>>

(* The coroutine resumes after a successful write: pop, then loop.         *)
ResumeSend(i) ==
  /\ coros[i].pc = "written"
  /\ bufs' = Tail(bufs)
  /\ SendLoop(i, Tail(bufs), state)
  /\ UNCHANGED accepted

(* Frames suspended inside internal_send_data.                             *)
Suspended(i) == coros[i].pc \in {"writing", "written", "failed"}

(* timeout_down() finds a counter above zero and loads it to decrement it. *)
(* One that finds zero returns it and changes nothing: of a listed relay   *)
(* and of a remote server's link there is no such call, since the one that *)
(* made it zero was the last; a local server goes on asking a link that    *)
(* has timed out, and forgets its udp sources each time (LocalUdp).        *)
TimeoutLoad ==
  /\ down = NotCalled
  /\ timeout > 0
  /\ down' = [at |-> "loaded", value |-> timeout]
  /\ UNCHANGED timeout

(* A decrement to zero stops the relay.                                    *)
TimeoutStops == down.value = 1

(* It stores the decremented value; a stored zero is about to stop the     *)
(* relay, any other value ends the call.                                   *)
TimeoutStore ==
  /\ down.at = "loaded"
  /\ timeout' = down.value - 1
  /\ down' = IF TimeoutStops THEN [at |-> "stopping", value |-> 0] ELSE NotCalled

(* It has called stop_relay() and loads the counter again to return it.    *)
TimeoutReturn ==
  /\ down.at = "stopping"
  /\ down' = NotCalled
  /\ UNCHANGED timeout

-----------------------------------------------------------------------------
(* What every relay has to keep, however it starts and stops.            *)

(* A send coroutine may be spawned while another lives, yet only one is    *)
(* ever inside internal_send_data, and the buffer it pops when it resumes  *)
(* is the buffer it wrote.  (base_relay.cpp:39, 50 and 62)                 *)
OneWriter ==
  \A i \in DOMAIN coros : Suspended(i) =>
    /\ bufs # <<>>
    /\ Head(bufs) = coros[i].buf
    /\ \A j \in DOMAIN coros : Suspended(j) => i = j

(* A queue with buffers in it is never left behind by the last coroutine:  *)
(* a relay that says it is idle has one about to look at the queue, and a  *)
(* relay that says it is sending has one inside internal_send_data.        *)
(* (base_relay.cpp:39-41 and 54-64)                                        *)
NoLostWakeup ==
  /\ state = "INIT" /\ bufs # <<>> =>
       \E i \in DOMAIN coros : coros[i].pc = "spawned"
  /\ state = "START" => \E i \in DOMAIN coros : Suspended(i)
=============================================================================
