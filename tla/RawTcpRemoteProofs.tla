------------------------- MODULE RawTcpRemoteProofs -------------------------
(***************************************************************************)
(* Theorems about RawTcpRemote: the lemmas of RawTcpProofs for the common  *)
(* steps, the steps of impl_start_remote, and the proof that the relay     *)
(* implements OrderedPipe.  And the same about RawTcpTproxy, whose start   *)
(* is one handler and another that it posts.                               *)
(***************************************************************************)
EXTENDS RawTcpRemote, RawTcpTproxy, RawTcpProofs

(* The first send coroutine is spawned by the starter's last step.         *)
NoFrameBeforeStart == starter # "done" => coros = <<>>

SenderIInv == TypeOK /\ SenderInv /\ NoFrameBeforeStart

LEMMA SenderIInvInit == Init => SenderIInv
<1> SUFFICES ASSUME Init PROVE SenderIInv
  OBVIOUS
<1>1. coros = <<>> /\ bufs = <<>> /\ state = "UNINIT"
  BY DEF Init, RawInit, BaseInit
<1>2. \A S : <<>> \in Seq(S)
  BY EmptySeq
<1>3. RawTypeOK
  BY <1>2, BaseAssumption, DownTypes
     DEF Init, RawInit, BaseInit, RawTypeOK, BaseTypeOK, RelayState
<1>4. SenderInv
  BY <1>1 DEF SenderInv, WriterInv, OneWriter, BusyIsNotInit, NoneBeforeStart, NoLostWakeup
<1> QED
  BY <1>1, <1>3, <1>4 DEF SenderIInv, TypeOK, Init, StarterPc, NoFrameBeforeStart

(* The steps of the starter.                                               *)
LEMMA StarterPreserves ==
  ASSUME SenderIInv,
         StarterStep \/ ResolveCompletes \/ ConnectSucceeds \/ ConnectFails
  PROVE  SenderIInv'
<1> USE DEF SenderIInv, TypeOK, RawTypeOK, BaseTypeOK, StarterPc
<1>1. ASSUME StarterEnters \/ ResolveCompletes \/ StarterConnects
             \/ ConnectSucceeds \/ ConnectFails
      PROVE  SenderIInv'
  <2>1. UNCHANGED <<state, bufs, coros>> /\ starter # "done"
    BY <1>1 DEF StarterEnters, ResolveCompletes, StarterConnects, ConnectSucceeds,
                ConnectFails, baseVars
  <2>2. SenderInv' /\ NoFrameBeforeStart'
    BY <2>1, SenderUntouched DEF NoFrameBeforeStart, SenderInv, SenderKept
  <2>3. TypeOK'
    BY <1>1 DEF StarterEnters, ResolveCompletes, StarterConnects, ConnectSucceeds,
                ConnectFails, baseVars, rawVars
  <2> QED
    BY <2>2, <2>3
<1>2. ASSUME StarterRelays PROVE SenderIInv'
  <2>1. coros = <<>> /\ coros' = StartSend(coros) /\ state' = "INIT" /\ starter' = "done"
    BY <1>2 DEF StarterRelays, NoFrameBeforeStart
  <2>2. SenderInv' /\ coros' \in Seq(Frame)
    BY <1>2, <2>1, StartSender DEF StarterRelays
  <2>3. TypeOK'
    BY <1>2, <2>1, <2>2 DEF StarterRelays, RelayState
  <2> QED
    BY <2>1, <2>2, <2>3 DEF NoFrameBeforeStart
<1>3. ASSUME StarterCatches PROVE SenderIInv'
  <2>1. requests' \in Seq({"START_TCP", "DATA_TCP", "STOP_TCP"})
    BY <1>3, AppendProperties DEF StarterCatches, StopAndTellManager, Request
  <2>2. TypeOK'
    BY <1>3, <2>1 DEF StarterCatches, StopAndTellManager, StopRelay, RelayState
  <2>3. SenderInv'
    BY <1>3, SenderUntouched
       DEF StarterCatches, StopAndTellManager, StopRelay, SenderInv, SenderKept
  <2> QED
    BY <1>3, <2>2, <2>3 DEF StarterCatches, NoFrameBeforeStart
<1> QED
  BY <1>1, <1>2, <1>3 DEF StarterStep

LEMMA SenderIInvNext == SenderIInv /\ [Next]_vars => SenderIInv'
<1> SUFFICES ASSUME SenderIInv, [Next]_vars PROVE SenderIInv'
  OBVIOUS
<1>1. CASE StarterStep \/ ResolveCompletes \/ ConnectSucceeds \/ ConnectFails
  BY <1>1, StarterPreserves
<1>2. CASE RawStep /\ UNCHANGED starter
  <2>1. RawTypeOK' /\ SenderInv'
    BY <1>2, RawTypePreserved, SenderPreserved DEF SenderIInv, TypeOK, SenderInv, WriterInv
  <2>2. coros = <<>> => coros' = <<>>
    BY <1>2, RawSpawnsNone DEF SenderIInv
  <2> QED
    BY <1>2, <2>1, <2>2 DEF SenderIInv, TypeOK, NoFrameBeforeStart
<1>3. CASE UNCHANGED vars
  BY <1>3 DEF vars, baseVars, rawVars, SenderIInv, TypeOK, RawTypeOK, BaseTypeOK, SenderInv,
              WriterInv, OneWriter, BusyIsNotInit, NoneBeforeStart, NoLostWakeup, Suspended,
              NoFrameBeforeStart
<1> QED
  BY <1>1, <1>2, <1>3 DEF Next, RawStep

LEMMA SenderIInvAlways == Spec => []SenderIInv
BY SenderIInvInit, SenderIInvNext, PTL DEF Spec

(* Every variable keeps its type.                                          *)
THEOREM TypeCorrect == Spec => []TypeOK
BY SenderIInvAlways, PTL DEF SenderIInv

(* At most one send coroutine is inside internal_send_data, and what it    *)
(* pops is what it wrote, however often start_send() is called and         *)
(* whenever the relay is stopped.  (base_relay.cpp:39, 50 and 62)          *)
THEOREM RemoteOneWriter == Spec => []OneWriter
BY SenderIInvAlways, PTL DEF SenderIInv, SenderInv, WriterInv

(* No interleaving leaves buffers in the queue of an idle relay.           *)
(* (base_relay.cpp:39-41 and 54-64)                                        *)
THEOREM RemoteNoLostWakeup == Spec => []NoLostWakeup
BY SenderIInvAlways, PTL DEF SenderIInv, SenderInv

-----------------------------------------------------------------------------
(* The relay implements OrderedPipe.  What makes it hard is the time       *)
(* before the socket is opened: a stop that arrives then does not end the  *)
(* relay, which may still connect, so that the buffers handed over before  *)
(* and after have to be accounted for until the socket is closed.          *)

(* The socket is opened by the starter's connect, and until then nothing   *)
(* runs that could reset the idle counter or close it.                     *)
Unopened ==
  /\ starter \in {"spawned", "resolving", "resolved"} => sock = "unopened"
  /\ starter \in {"connecting", "connected"} => sock # "unopened"
  /\ sock = "unopened" => coros = <<>> /\ reader = "off"
  /\ down # NotCalled => entry = "listed"
  /\ \A k \in 1 .. Len(posted) : posted[k].run # "init"

(* No write will succeed any more.                                         *)
Over ==
  \/ sock = "closed"
  \/ starter \in {"failed", "done"} /\ coros = <<>>

AllSends(n) == \A j \in 1 .. n : posted[j].run = "send"

(* Until then no buffer is lost on its way to the queue: the handlers up   *)
(* to the first stop carry the buffers given but not yet accepted.         *)
NothingLost ==
  /\ Len(accepted) <= Len(given)
  /\ \A k \in 1 .. Len(accepted) : accepted[k] = given[k]
  /\ \A k \in 1 .. Len(posted) : AllSends(k) =>
       /\ Len(accepted) + k <= Len(given)
       /\ posted[k].buf = given[Len(accepted) + k]
  /\ AllSends(Len(posted)) => Len(given) = Len(accepted) + Len(posted)
  /\ posted # <<>> /\ AllSends(Len(posted) - 1) /\ posted[Len(posted)] = Stop =>
       Len(given) = Len(accepted) + Len(posted) - 1

(* A stop posted before the socket is opened is the last handler posted    *)
(* until it has run: the manager has let go of the relay, or is about to.  *)
StopIsLast ==
  sock = "unopened" /\ state # "STOP" =>
    /\ AllSends(Len(posted) - 1)
    /\ posted # <<>> /\ posted[Len(posted)] = Stop =>
         entry # "listed" \/ (down.at = "stopping" /\ timeout = 0)

(* A relay stopped before its socket is opened has dropped no buffer, and  *)
(* is given none as long as it stays stopped.                              *)
StoppedEarly ==
  state = "STOP" =>
    /\ \A k \in 1 .. Len(posted) : posted[k] = Stop
    /\ Len(given) = Len(accepted)

Live == NothingLost /\ StopIsLast /\ StoppedEarly

DeliveryInv ==
  /\ Unopened
  /\ Over \/ Live
  /\ Pipe!Prefix

IInv == SenderIInv /\ WireInv /\ DeliveryInv

-----------------------------------------------------------------------------
(* The parts of a common step that the delivery invariant is about.        *)

LEMMA EmptyStaysEmpty ==
  ASSUME SenderIInv, coros = <<>>, [Next]_vars
  PROVE  coros' = <<>> \/ StarterRelays
<1>1. CASE RawStep
  BY <1>1, RawSpawnsNone DEF SenderIInv
<1>2. CASE ~ RawStep
  BY <1>2 DEF Next, RawStep, StarterStep, StarterEnters, StarterConnects, StarterCatches,
              ResolveCompletes, ConnectSucceeds, ConnectFails, baseVars, vars
<1> QED
  BY <1>1, <1>2

(* What a stop appended to the posted handlers changes.                    *)
LEMMA PostedStop ==
  ASSUME SenderIInv, posted' = Append(posted, Stop)
  PROVE  /\ Len(posted') = Len(posted) + 1
         /\ posted' # <<>>
         /\ posted'[Len(posted')] = Stop
         /\ \A k \in 1 .. Len(posted) : posted'[k] = posted[k]
         /\ posted' \in Seq(Handler)
BY HandlerTypes, AppendProperties DEF SenderIInv, TypeOK, RawTypeOK

(* Popping a posted handler shifts the others by one.                      *)
LEMMA PostedTail ==
  ASSUME SenderIInv, posted # <<>>, posted' = Tail(posted)
  PROVE  /\ Len(posted') = Len(posted) - 1
         /\ Head(posted) = posted[1]
         /\ \A k \in 1 .. Len(posted') : posted'[k] = posted[k + 1]
         /\ Len(posted) >= 1
BY HeadTailProperties, EmptySeq DEF SenderIInv, TypeOK, RawTypeOK

(* The socket is closed once and for all.                                  *)
LEMMA UnopenedPreserved ==
  ASSUME SenderIInv, Unopened, [Next]_vars
  PROVE  Unopened' /\ (sock = "closed" => sock' = "closed")
<1> USE DEF SenderIInv, TypeOK, RawTypeOK, BaseTypeOK, StarterPc
<1>0. posted \in Seq(Handler) /\ Len(posted) \in Nat /\ Len(coros) \in Nat
  BY LenProperties
<1>1. ASSUME StarterStep \/ ResolveCompletes \/ ConnectSucceeds \/ ConnectFails
      PROVE  Unopened' /\ (sock = "closed" => sock' = "closed")
  BY <1>1 DEF Unopened, StarterStep, StarterEnters, StarterConnects, StarterRelays,
              StarterCatches, StopAndTellManager, StopRelay, ResolveCompletes,
              ConnectSucceeds, ConnectFails, NoFrameBeforeStart, baseVars, rawVars
<1>2. ASSUME RawStep, UNCHANGED starter
      PROVE  Unopened' /\ (sock = "closed" => sock' = "closed")
  <2>1. sock = "unopened" => coros' = <<>>
    BY <1>2, EmptyStaysEmpty DEF Unopened, Next, RawStep, StarterRelays
  <2>2. UNCHANGED sock \/ StopRelay
    BY <1>2 DEF RawStep, StrandStep, NetworkStep, ManagerStep, RunSend, RunStop,
                SenderEnters, SenderResumes, SenderCatches, WriteSucceeds, WriteFails,
                ReaderEnters, ReadSucceeds, ReadFails, ReaderResumes, ReaderCatches,
                StopAndTellManager, ManagerData, ManagerStop, TimerStep, TimerLoads,
                TimerStores, TimerReturns, rawVars
  <2>3. /\ sock' = "unopened" => sock = "unopened"
        /\ sock = "unopened" => sock' = "unopened"
        /\ sock = "closed" => sock' = "closed"
    BY <2>2 DEF StopRelay
  <2>4. reader = "off" => reader' = "off"
    BY <1>2 DEF RawStep, StrandStep, NetworkStep, ManagerStep, RunSend, RunStop,
                SenderEnters, SenderResumes, SenderCatches, WriteSucceeds, WriteFails,
                ReaderEnters, ReadSucceeds, ReadFails, ReaderResumes, ReaderCatches,
                ManagerData, ManagerStop, TimerStep, TimerLoads,
                TimerStores, TimerReturns, rawVars
  <2>5. down' # NotCalled => entry' = "listed"
    <3>1. CASE ManagerStep
      BY <3>1 DEF Unopened, ManagerStep, ManagerData, ManagerStop, TimerStep, TimerLoads,
                  TimerStores, TimerReturns, TimeoutLoad, TimeoutStore, TimeoutReturn,
                  NotCalled, baseVars, rawVars
    <3>2. CASE StrandStep \/ NetworkStep
      BY <3>2 DEF Unopened, StrandStep, NetworkStep, RunSend, RunStop,
                  SenderEnters, SenderResumes, SenderCatches, WriteSucceeds, WriteFails,
                  ReaderEnters, ReadSucceeds, ReadFails, ReaderResumes, ReaderCatches,
                  baseVars, rawVars
    <3> QED
      BY <1>2, <3>1, <3>2 DEF RawStep
  <2>6. \A k \in 1 .. Len(posted') : posted'[k].run # "init"
    <3>1. CASE UNCHANGED posted
      BY <3>1 DEF Unopened
    <3>2. CASE posted # <<>> /\ posted' = Tail(posted)
      BY <3>2, <1>0, PostedTail DEF Unopened
    <3>3. CASE posted' = Append(posted, Stop)
      BY <3>3, <1>0, PostedStop DEF Unopened, Stop
    <3>4. ASSUME NEW d \in Data, posted' = Append(posted, Send(d))
          PROVE  \A k \in 1 .. Len(posted') : posted'[k].run # "init"
      <4>1. /\ Len(posted') = Len(posted) + 1
            /\ \A k \in 1 .. Len(posted) : posted'[k] = posted[k]
            /\ posted'[Len(posted) + 1] = Send(d)
        BY <3>4, HandlerTypes, AppendProperties
      <4> QED
        BY <1>0, <4>1 DEF Unopened, Send
    <3> QED
      BY <1>2, <3>1, <3>2, <3>3, <3>4
         DEF RawStep, StrandStep, NetworkStep, ManagerStep, RunSend, RunStop,
             SenderEnters, SenderResumes, SenderCatches, WriteSucceeds, WriteFails,
             ReaderEnters, ReadSucceeds, ReadFails, ReaderResumes, ReaderCatches,
             ManagerData, ManagerStop, TimerStep, TimerLoads,
             TimerStores, TimerReturns, rawVars
  <2> QED
    BY <1>2, <2>1, <2>3, <2>4, <2>5, <2>6 DEF Unopened
<1>3. ASSUME UNCHANGED vars
      PROVE  Unopened' /\ (sock = "closed" => sock' = "closed")
  BY <1>3 DEF Unopened, vars, baseVars, rawVars
<1> QED
  BY <1>1, <1>2, <1>3 DEF Next, RawStep

LEMMA OverPreserved ==
  ASSUME SenderIInv, Unopened, Over, [Next]_vars
  PROVE  Over'
<1>1. CASE sock = "closed"
  BY <1>1, UnopenedPreserved DEF Over
<1>2. CASE starter \in {"failed", "done"} /\ coros = <<>>
  <2>1. coros' = <<>> \/ StarterRelays
    BY <1>2, EmptyStaysEmpty
  <2>2. starter' \in {"failed", "done"} /\ ~ StarterRelays
    BY <1>2 DEF Next, StarterStep, StarterEnters, StarterConnects, StarterRelays,
                StarterCatches, ResolveCompletes, ConnectSucceeds, ConnectFails, vars
  <2> QED
    BY <2>1, <2>2 DEF Over
<1> QED
  BY <1>1, <1>2 DEF Over

(* Steps that leave the handlers and the buffers alone and do not stop the *)
(* relay, nor touch what StopIsLast says while the socket is unopened.     *)
LEMMA LiveUntouched ==
  ASSUME Live, UNCHANGED <<given, accepted, posted>>,
         state' = "STOP" => state = "STOP",
         sock' = "unopened" =>
           UNCHANGED <<sock, state>> /\ (entry # "listed" => entry' # "listed")
             /\ (down.at = "stopping" /\ timeout = 0 =>
                   entry' # "listed" \/ (down'.at = "stopping" /\ timeout' = 0))
  PROVE  Live'
BY DEF Live, NothingLost, StopIsLast, StoppedEarly, AllSends

(* A buffer handed to a relay that is not stopped is pushed ...            *)
LEMMA LiveRunSend ==
  ASSUME SenderIInv, Unopened, Live, RunSend, UNCHANGED starter
  PROVE  Live'
<1> USE DEF SenderIInv, TypeOK, RawTypeOK, BaseTypeOK
<1> DEFINE d == Head(posted).buf
<1>0. /\ Len(posted) \in Nat /\ Len(accepted) \in Nat /\ Len(given) \in Nat
  BY LenProperties
<1>1. /\ Len(posted') = Len(posted) - 1
      /\ Head(posted) = posted[1]
      /\ \A k \in 1 .. Len(posted') : posted'[k] = posted[k + 1]
      /\ Len(posted) >= 1
  BY PostedTail DEF RunSend
<1>2. posted[1].run = "send" /\ d \in Data
  BY <1>1, HeadTailProperties, HandlerTypes DEF RunSend
<1>3. state # "STOP"
  BY <1>1, <1>2 DEF Live, StoppedEarly, Stop
<1>4. accepted' = Append(accepted, d) /\ UNCHANGED <<state, sock, given, entry, down, timeout>>
  BY <1>3 DEF RunSend, SendData
<1>5. /\ Len(accepted') = Len(accepted) + 1
      /\ \A k \in 1 .. Len(accepted) : accepted'[k] = accepted[k]
      /\ accepted'[Len(accepted) + 1] = d
  BY <1>2, <1>4, AppendProperties
<1>6. /\ Len(accepted) + 1 <= Len(given)
      /\ d = given[Len(accepted) + 1]
  BY <1>0, <1>1, <1>2 DEF Live, NothingLost, AllSends
<1>7. \A n \in Nat : n < Len(posted) /\ (\A j \in 1 .. n : posted'[j].run = "send")
                        => AllSends(n + 1)
  <2> SUFFICES ASSUME NEW n \in Nat, \A j \in 1 .. n : posted'[j].run = "send",
                      n < Len(posted), NEW j \in 1 .. n + 1
               PROVE  posted[j].run = "send"
    BY DEF AllSends
  <2>1. CASE j = 1
    BY <2>1, <1>2
  <2>2. CASE j # 1
    <3>1. j - 1 \in 1 .. n /\ j - 1 \in 1 .. Len(posted')
      BY <2>2, <1>0, <1>1
    <3>2. posted'[j - 1] = posted[j]
      BY <3>1, <1>1
    <3> QED
      BY <3>1, <3>2 DEF AllSends
  <2> QED
    BY <2>1, <2>2
<1>8. NothingLost'
  <2>1. \A k \in 1 .. Len(accepted') : accepted'[k] = given'[k]
    BY <1>0, <1>4, <1>5, <1>6 DEF Live, NothingLost
  <2>2. ASSUME NEW k \in 1 .. Len(posted'), AllSends(k)'
        PROVE  /\ Len(accepted') + k <= Len(given')
               /\ posted'[k].buf = given'[Len(accepted') + k]
    <3>1. k + 1 \in 1 .. Len(posted) /\ AllSends(k + 1)
      <4>1. k \in Nat /\ k < Len(posted) /\ k + 1 \in 1 .. Len(posted)
        BY <1>0, <1>1
      <4>2. \A j \in 1 .. k : posted'[j].run = "send"
        BY <2>2 DEF AllSends
      <4> QED
        BY <4>1, <4>2, <1>7
    <3>2. /\ Len(accepted) + (k + 1) <= Len(given)
          /\ posted[k + 1].buf = given[Len(accepted) + (k + 1)]
      BY <3>1 DEF Live, NothingLost
    <3>3. Len(accepted') + k = Len(accepted) + (k + 1)
      BY <1>0, <1>5
    <3> QED
      BY <3>2, <3>3, <1>1, <1>4
  <2>3. ASSUME AllSends(Len(posted))' PROVE Len(given') = Len(accepted') + Len(posted')
    <3>1. AllSends(Len(posted))
      <4>1. /\ Len(posted) - 1 \in Nat /\ Len(posted) - 1 < Len(posted)
            /\ (Len(posted) - 1) + 1 = Len(posted)
        BY <1>0, <1>1
      <4>2. \A j \in 1 .. Len(posted) - 1 : posted'[j].run = "send"
        BY <2>3, <1>0, <1>1 DEF AllSends
      <4> QED
        BY <4>1, <4>2, <1>7
    <3>2. Len(given) = Len(accepted) + Len(posted)
      BY <3>1 DEF Live, NothingLost
    <3> QED
      <4>1. given' = given /\ Len(accepted') + Len(posted') = Len(accepted) + Len(posted)
        BY <1>0, <1>1, <1>4, <1>5
      <4> QED
        BY <3>2, <4>1
  <2>4. ASSUME posted' # <<>>, AllSends(Len(posted) - 1)', posted'[Len(posted')] = Stop
        PROVE  Len(given') = Len(accepted') + Len(posted') - 1
    <3>1. posted' \in Seq(Handler)
      BY HeadTailProperties DEF RunSend
    <3>2. Len(posted') >= 1
      BY <2>4, <3>1, EmptySeq
    <3>3. AllSends(Len(posted) - 1) /\ posted[Len(posted)] = Stop /\ posted # <<>>
      <4>1. /\ Len(posted) - 2 \in Nat /\ Len(posted) - 2 < Len(posted)
            /\ (Len(posted) - 2) + 1 = Len(posted) - 1
        BY <3>2, <1>0, <1>1
      <4>2. \A j \in 1 .. Len(posted) - 2 : posted'[j].run = "send"
        BY <2>4, <1>0, <1>1 DEF AllSends
      <4>3. AllSends(Len(posted) - 1)
        BY <4>1, <4>2, <1>7
      <4> QED
        BY <4>3, <2>4, <3>2, <1>0, <1>1 DEF RunSend
    <3> QED
      BY <3>3, <1>0, <1>1, <1>4, <1>5 DEF Live, NothingLost
  <2> QED
    BY <2>1, <2>2, <2>3, <2>4, <1>4, <1>5, <1>6 DEF NothingLost
<1>9. StopIsLast'
  <2> SUFFICES ASSUME sock = "unopened"
               PROVE  /\ AllSends(Len(posted) - 1)'
                      /\ posted' # <<>> /\ posted'[Len(posted')] = Stop =>
                           entry # "listed" \/ (down.at = "stopping" /\ timeout = 0)
    BY <1>3, <1>4 DEF StopIsLast
  <2>1. AllSends(Len(posted) - 1)
    BY <1>3 DEF Live, StopIsLast
  <2>2. AllSends(Len(posted) - 1)'
    <3>1. SUFFICES ASSUME NEW j \in 1 .. Len(posted') - 1
                   PROVE  posted'[j].run = "send"
      BY DEF AllSends
    <3>2. j \in 1 .. Len(posted') /\ j + 1 \in 1 .. Len(posted) - 1
      BY <1>0, <1>1
    <3>3. posted[j + 1].run = "send"
      BY <2>1, <3>2 DEF AllSends
    <3> QED
      BY <3>2, <3>3, <1>1
  <2>3. ASSUME posted' # <<>>, posted'[Len(posted')] = Stop
        PROVE  posted # <<>> /\ posted[Len(posted)] = Stop
    <3>1. posted' \in Seq(Handler)
      BY HeadTailProperties DEF RunSend
    <3> QED
      BY <2>3, <3>1, <1>0, <1>1, EmptySeq DEF RunSend
  <2> QED
    BY <2>2, <2>3, <1>3 DEF Live, StopIsLast
<1>10. StoppedEarly'
  BY <1>3, <1>4 DEF StoppedEarly
<1> QED
  BY <1>8, <1>9, <1>10 DEF Live

(* ... a stop that runs closes an open socket, and one that runs before    *)
(* the socket is opened is the last handler ...                            *)
LEMMA LiveRunStop ==
  ASSUME SenderIInv, Unopened, Live, ~ Over, RunStop, UNCHANGED starter
  PROVE  Over' \/ Live'
<1> USE DEF SenderIInv, TypeOK, RawTypeOK, BaseTypeOK
<1>0. /\ Len(posted) \in Nat /\ Len(accepted) \in Nat /\ Len(given) \in Nat
  BY LenProperties
<1>1. /\ Len(posted') = Len(posted) - 1
      /\ Head(posted) = posted[1]
      /\ \A k \in 1 .. Len(posted') : posted'[k] = posted[k + 1]
      /\ Len(posted) >= 1
      /\ posted' \in Seq(Handler)
  BY PostedTail, HeadTailProperties DEF RunStop
<1>2. posted[1] = Stop
  BY <1>1, HeadTailProperties DEF RunStop, Handler, Stop
<1>3. state' = "STOP" /\ UNCHANGED <<given, accepted>>
  BY DEF RunStop, StopRelay
<1>4. CASE state # "STOP" /\ sock = "open"
  BY <1>4 DEF RunStop, StopRelay, Over
<1>5. CASE ~ (state # "STOP" /\ sock = "open")
  <2>1. /\ \A k \in 1 .. Len(posted') : posted'[k] = Stop
        /\ Len(given) = Len(accepted)
    <3>1. CASE state = "STOP"
      <4>1. /\ \A k \in 1 .. Len(posted) : posted[k] = Stop
            /\ Len(given) = Len(accepted)
        BY <3>1 DEF Live, StoppedEarly
      <4>2. \A k \in 1 .. Len(posted') : k + 1 \in 1 .. Len(posted)
        BY <1>0, <1>1
      <4>3. \A k \in 1 .. Len(posted') : posted'[k] = Stop
        BY <4>1, <4>2, <1>1
      <4> QED
        BY <4>1, <4>3
    <3>2. CASE state # "STOP"
      <4>1. sock = "unopened"
        BY <3>2, <1>5 DEF Over
      <4>2. Len(posted) = 1
        <5>1. SUFFICES ASSUME Len(posted) # 1 PROVE FALSE
          OBVIOUS
        <5>2. 1 \in 1 .. Len(posted) - 1
          BY <5>1, <1>0, <1>1
        <5>3. posted[1].run = "send"
          BY <4>1, <3>2, <5>2 DEF Live, StopIsLast, AllSends
        <5> QED
          BY <5>3, <1>2 DEF Stop
      <4>3. Len(given) = Len(accepted) + Len(posted) - 1
        BY <4>2, <1>1, <1>2 DEF Live, NothingLost, AllSends, RunStop
      <4>4. Len(given) = Len(accepted)
        BY <4>2, <4>3, <1>0
      <4>5. Len(posted') = 0
        BY <4>2, <1>1
      <4> QED
        BY <4>4, <4>5
    <3> QED
      BY <3>1, <3>2
  <2>2. StoppedEarly' /\ StopIsLast'
    BY <2>1, <1>3 DEF StoppedEarly, StopIsLast
  <2>3. NothingLost'
    <3>1. \A k \in 1 .. Len(accepted) : accepted[k] = given[k]
      BY DEF Live, NothingLost
    <3>2. ASSUME NEW n \in 1 .. Len(posted'), AllSends(n)' PROVE FALSE
      <4>1. 1 \in 1 .. n /\ 1 \in 1 .. Len(posted')
        BY <1>0, <1>1
      <4>2. posted'[1].run = "send" /\ posted'[1] = Stop
        BY <3>2, <4>1, <2>1 DEF AllSends
      <4> QED
        BY <4>2 DEF Stop
    <3>3. ASSUME posted' # <<>>, AllSends(Len(posted) - 1)' PROVE Len(posted') = 1
      <4>1. Len(posted') >= 1
        BY <3>3, <1>1, EmptySeq
      <4>2. ASSUME Len(posted') # 1 PROVE FALSE
        <5>1. Len(posted') - 1 \in 1 .. Len(posted')
          BY <4>1, <4>2, <1>0, <1>1
        <5>2. 1 \in 1 .. Len(posted') - 1 /\ 1 \in 1 .. Len(posted')
          BY <4>1, <4>2, <1>0, <1>1
        <5>3. posted'[1].run = "send" /\ posted'[1] = Stop
          BY <3>3, <5>2, <2>1 DEF AllSends
        <5> QED
          BY <5>3 DEF Stop
      <4> QED
        BY <4>2
    <3>4. ASSUME AllSends(Len(posted))' PROVE Len(posted') = 0
      <4>1. ASSUME Len(posted') # 0 PROVE FALSE
        <5>1. 1 \in 1 .. Len(posted')
          BY <4>1, <1>0, <1>1
        <5>2. posted'[1].run = "send" /\ posted'[1] = Stop
          BY <3>4, <5>1, <2>1 DEF AllSends
        <5> QED
          BY <5>2 DEF Stop
      <4> QED
        BY <4>1
    <3>5. /\ Len(accepted) <= Len(given)
          /\ Len(posted') = 0 => Len(given) = Len(accepted) + Len(posted')
          /\ Len(posted') = 1 => Len(given) = Len(accepted) + Len(posted') - 1
      <4>1. Len(given) = Len(accepted) /\ Len(posted') \in Nat
        BY <2>1, <1>1, LenProperties
      <4>2. Len(accepted) <= Len(given)
        BY <4>1, <1>0
      <4>3. Len(posted') = 0 => Len(given) = Len(accepted) + Len(posted')
        BY <4>1, <1>0
      <4>4. Len(posted') = 1 => Len(given) = Len(accepted) + Len(posted') - 1
        BY <4>1, <1>0
      <4> QED
        BY <4>2, <4>3, <4>4
    <3> QED
      BY <3>1, <3>2, <3>3, <3>4, <3>5, <1>3 DEF NothingLost
  <2> QED
    BY <2>2, <2>3 DEF Live
<1> QED
  BY <1>4, <1>5

(* A handler appended to the others leaves what they are as it was, and    *)
(* while the manager still listens to an unopened relay all of them are    *)
(* buffers.                                                                *)
LEMMA PostedAppend ==
  ASSUME SenderIInv, NEW h \in Handler, posted' = Append(posted, h)
  PROVE  /\ Len(posted') = Len(posted) + 1
         /\ posted' # <<>>
         /\ \A k \in 1 .. Len(posted) : posted'[k] = posted[k]
         /\ posted'[Len(posted) + 1] = h
         /\ \A n \in 0 .. Len(posted) : AllSends(n)' <=> AllSends(n)
         /\ AllSends(Len(posted))' <=> AllSends(Len(posted)) /\ h.run = "send"
<1>0. posted \in Seq(Handler) /\ Len(posted) \in Nat
  BY LenProperties DEF SenderIInv, TypeOK, RawTypeOK
<1>1. /\ Len(posted') = Len(posted) + 1
      /\ posted' \in Seq(Handler)
      /\ \A k \in 1 .. Len(posted) : posted'[k] = posted[k]
      /\ posted'[Len(posted) + 1] = h
  BY <1>0, AppendProperties
<1>2. posted' # <<>>
  BY <1>0, <1>1, EmptySeq
<1>3. ASSUME NEW n \in 0 .. Len(posted) PROVE AllSends(n)' <=> AllSends(n)
  <2>1. \A j \in 1 .. n : j \in 1 .. Len(posted)
    BY <1>0
  <2> QED
    BY <2>1, <1>1 DEF AllSends
<1>4. AllSends(Len(posted))' <=> AllSends(Len(posted)) /\ h.run = "send"
  <2>1. \A j : j \in 1 .. Len(posted) + 1 <=> j \in 1 .. Len(posted) \/ j = Len(posted) + 1
    BY <1>0
  <2>2. AllSends(Len(posted))' <=>
          \A j \in 1 .. Len(posted) + 1 : posted'[j].run = "send"
    BY <1>0, <1>1 DEF AllSends
  <2> QED
    BY <2>1, <2>2, <1>1 DEF AllSends
<1> QED
  BY <1>1, <1>2, <1>3, <1>4

LEMMA UnopenedPostsBuffers ==
  ASSUME SenderIInv, Unopened, StopIsLast, sock = "unopened", state # "STOP",
         entry = "listed", down.at # "stopping"
  PROVE  AllSends(Len(posted))
<1>0. posted \in Seq(Handler) /\ Len(posted) \in Nat
  BY LenProperties DEF SenderIInv, TypeOK, RawTypeOK
<1> SUFFICES ASSUME NEW j \in 1 .. Len(posted) PROVE posted[j].run = "send"
  BY DEF AllSends
<1>1. CASE j \in 1 .. Len(posted) - 1
  BY <1>1 DEF StopIsLast, AllSends
<1>2. CASE j = Len(posted)
  <2>1. posted # <<>>
    BY <1>2, <1>0, EmptySeq
  <2>2. posted[j] # Stop
    BY <2>1, <1>2 DEF StopIsLast
  <2>3. posted[j] \in Handler /\ posted[j].run # "init"
    BY <1>0, ElementOfSeq DEF Unopened
  <2> QED
    BY <2>2, <2>3 DEF Handler, Stop
<1> QED
  BY <1>0, <1>1, <1>2

(* ... the manager hands over a buffer ...                                 *)
LEMMA LiveManagerData ==
  ASSUME SenderIInv, Unopened, Live, NEW d \in Data, ManagerData(d), UNCHANGED starter
  PROVE  Live'
<1>0. /\ posted \in Seq(Handler) /\ given \in Seq(Data)
      /\ Len(posted) \in Nat /\ Len(accepted) \in Nat /\ Len(given) \in Nat
  BY LenProperties DEF SenderIInv, TypeOK, RawTypeOK, BaseTypeOK
<1>1. /\ entry = "listed" /\ down.at # "stopping" /\ down' = down
      /\ UNCHANGED <<state, accepted, sock, timeout>>
  BY DEF ManagerData, NotCalled, baseVars
<1>2. CASE state = "STOP"
  <2>1. UNCHANGED <<posted, given>>
    BY <1>2 DEF ManagerData
  <2> QED
    BY <2>1, <1>1, LiveUntouched
<1>3. CASE state # "STOP"
  <2>1. posted' = Append(posted, Send(d)) /\ given' = Append(given, d) /\ entry' = entry
    BY <1>3 DEF ManagerData
  <2>2. /\ Len(posted') = Len(posted) + 1
        /\ \A k \in 1 .. Len(posted) : posted'[k] = posted[k]
        /\ posted'[Len(posted) + 1] = Send(d)
        /\ \A n \in 0 .. Len(posted) : AllSends(n)' <=> AllSends(n)
        /\ AllSends(Len(posted))' => AllSends(Len(posted))
    BY <2>1, HandlerTypes, PostedAppend
  <2>3. /\ Len(given') = Len(given) + 1
        /\ \A k \in 1 .. Len(given) : given'[k] = given[k]
        /\ given'[Len(given) + 1] = d
    BY <2>1, <1>0, AppendProperties
  <2>4. posted'[Len(posted')] # Stop
    BY <2>2 DEF Send, Stop
  <2>5. StoppedEarly'
    BY <1>1, <1>3 DEF StoppedEarly
  <2>6. StopIsLast'
    <3> SUFFICES ASSUME sock = "unopened" PROVE AllSends(Len(posted) - 1)'
      BY <1>1, <2>4 DEF StopIsLast
    <3>1. AllSends(Len(posted))
      BY <1>1, <1>3, UnopenedPostsBuffers DEF Live
    <3> QED
      BY <3>1, <2>2, <1>0 DEF AllSends
  <2>7. NothingLost'
    <3>1. Len(accepted') <= Len(given')
      BY <1>0, <1>1, <2>3 DEF Live, NothingLost
    <3>2. ASSUME NEW k \in 1 .. Len(accepted') PROVE accepted'[k] = given'[k]
      <4>1. k \in 1 .. Len(given) /\ k \in 1 .. Len(accepted)
        BY <1>0, <1>1 DEF Live, NothingLost
      <4> QED
        BY <4>1, <1>1, <2>3 DEF Live, NothingLost
    <3>3. AllSends(Len(posted)) => Len(given) = Len(accepted) + Len(posted)
      BY DEF Live, NothingLost
    <3>4. ASSUME NEW k \in 1 .. Len(posted'), AllSends(k)'
          PROVE  /\ Len(accepted') + k <= Len(given')
                 /\ posted'[k].buf = given'[Len(accepted') + k]
      <4>1. CASE k \in 1 .. Len(posted)
        <5>1. AllSends(k)
          BY <4>1, <3>4, <2>2, <1>0
        <5>2. Len(accepted) + k <= Len(given) /\ posted[k].buf = given[Len(accepted) + k]
          BY <4>1, <5>1 DEF Live, NothingLost
        <5>3. Len(accepted) + k \in 1 .. Len(given)
          BY <4>1, <5>2, <1>0
        <5>4. Len(accepted) + k <= Len(given')
          BY <5>3, <1>0, <2>3
        <5> QED
          BY <4>1, <5>2, <5>3, <5>4, <1>1, <2>2, <2>3
      <4>2. CASE k = Len(posted) + 1
        <5>1. Len(given) = Len(accepted) + Len(posted)
          <6>1. AllSends(Len(posted))'
            BY <4>2, <3>4, <2>2
          <6> QED
            BY <6>1, <3>3, <2>2
        <5>2. Len(accepted) + k = Len(given) + 1
          BY <4>2, <5>1, <1>0
        <5>3. posted'[k].buf = d
          BY <4>2, <2>2 DEF Send
        <5> QED
          BY <5>2, <5>3, <2>3, <1>0, <1>1
      <4> QED
        BY <4>1, <4>2, <1>0, <2>2
    <3>5. AllSends(Len(posted))' => Len(given') = Len(accepted') + Len(posted')
      <4>1. SUFFICES ASSUME AllSends(Len(posted))'
                     PROVE  Len(given') = Len(accepted') + Len(posted')
        OBVIOUS
      <4>2. Len(given) = Len(accepted) + Len(posted)
        BY <4>1, <3>3, <2>2
      <4> QED
        BY <4>2, <1>0, <1>1, <2>2, <2>3
    <3> QED
      BY <3>1, <3>2, <3>4, <3>5, <2>4 DEF NothingLost
  <2> QED
    BY <2>5, <2>6, <2>7 DEF Live
<1> QED
  BY <1>2, <1>3

(* ... or posts a stop.                                                    *)
LEMMA LivePostStop ==
  ASSUME SenderIInv, Unopened, Live, posted' = Append(posted, Stop),
         UNCHANGED <<given, accepted, state, sock>>,
         entry = "listed", down.at # "stopping",
         entry' # "listed" \/ (down'.at = "stopping" /\ timeout' = 0)
  PROVE  Live'
<1>0. /\ posted \in Seq(Handler)
      /\ Len(posted) \in Nat /\ Len(accepted) \in Nat /\ Len(given) \in Nat
  BY LenProperties DEF SenderIInv, TypeOK, RawTypeOK, BaseTypeOK
<1>1. /\ Len(posted') = Len(posted) + 1
      /\ \A k \in 1 .. Len(posted) : posted'[k] = posted[k]
      /\ posted'[Len(posted) + 1] = Stop
      /\ \A n \in 0 .. Len(posted) : AllSends(n)' <=> AllSends(n)
      /\ ~ AllSends(Len(posted))'
  BY HandlerTypes, PostedAppend DEF Stop
<1>2. StoppedEarly'
  BY <1>0, <1>1 DEF Live, StoppedEarly
<1>3. AllSends(Len(posted) - 1)' <=> AllSends(Len(posted))
  <2>1. AllSends(Len(posted) - 1)' <=> \A j \in 1 .. Len(posted) : posted'[j].run = "send"
    BY <1>0, <1>1 DEF AllSends
  <2> QED
    BY <2>1, <1>1 DEF AllSends
<1>4. StopIsLast'
  BY <1>3, UnopenedPostsBuffers DEF Live, StopIsLast
<1>5. NothingLost'
  <2>1. /\ Len(accepted) <= Len(given)
        /\ \A k \in 1 .. Len(accepted) : accepted[k] = given[k]
        /\ AllSends(Len(posted)) => Len(given) = Len(accepted) + Len(posted)
    BY DEF Live, NothingLost
  <2>2. ASSUME NEW k \in 1 .. Len(posted'), AllSends(k)'
        PROVE  /\ Len(accepted) + k <= Len(given)
               /\ posted'[k].buf = given[Len(accepted) + k]
    <3>1. k \in 1 .. Len(posted)
      <4>1. k # Len(posted')
        BY <2>2, <1>1
      <4> QED
        BY <4>1, <1>0, <1>1
    <3>2. AllSends(k)
      BY <3>1, <2>2, <1>0, <1>1
    <3> QED
      BY <3>1, <3>2, <1>1 DEF Live, NothingLost
  <2>3. ~ AllSends(Len(posted))'
    BY <1>1
  <2>4. AllSends(Len(posted) - 1)' => Len(given) = Len(accepted) + Len(posted') - 1
    BY <2>1, <1>0, <1>1, <1>3
  <2> QED
    BY <2>1, <2>2, <2>3, <2>4 DEF NothingLost
<1> QED
  BY <1>2, <1>4, <1>5 DEF Live

(* Every step keeps the account, or ends the writing for good.             *)
LEMMA LivePreserved ==
  ASSUME SenderIInv, Unopened, Live, ~ Over, [Next]_vars
  PROVE  Over' \/ Live'
<1>1. ASSUME StarterStep \/ ResolveCompletes \/ ConnectSucceeds \/ ConnectFails
      PROVE  Over' \/ Live'
  <2>1. CASE StarterCatches
    <3>1. starter' = "done" /\ coros' = <<>>
      BY <2>1 DEF StarterCatches, SenderIInv, NoFrameBeforeStart
    <3> QED
      BY <3>1 DEF Over
  <2>2. CASE StarterRelays
    BY <2>2, LiveUntouched DEF StarterRelays
  <2>3. CASE StarterEnters \/ StarterConnects \/ ResolveCompletes
             \/ ConnectSucceeds \/ ConnectFails
    BY <2>3, LiveUntouched
       DEF StarterEnters, StarterConnects, ResolveCompletes, ConnectSucceeds, ConnectFails,
           baseVars, rawVars
  <2> QED
    BY <1>1, <2>1, <2>2, <2>3 DEF StarterStep
<1>2. ASSUME RawStep, UNCHANGED starter PROVE Over' \/ Live'
  <2>1. CASE RunSend
    BY <1>2, <2>1, LiveRunSend
  <2>2. CASE RunStop
    BY <1>2, <2>2, LiveRunStop
  <2>3. ASSUME StopRelay, UNCHANGED <<given, accepted, posted>>, sock # "unopened"
        PROVE  Over' \/ Live'
    <3>1. CASE state # "STOP"
      BY <2>3, <3>1 DEF StopRelay, Over, SenderIInv, TypeOK, RawTypeOK
    <3>2. CASE state = "STOP"
      BY <2>3, <3>2, LiveUntouched DEF StopRelay
    <3> QED
      BY <3>1, <3>2
  <2>4. ASSUME NEW i \in DOMAIN coros,
               SenderEnters(i) \/ SenderResumes(i) \/ SenderCatches(i)
                 \/ WriteSucceeds(i) \/ WriteFails(i)
        PROVE  Over' \/ Live'
    <3>1. sock # "unopened"
      BY EmptySeq, LenProperties DEF Unopened
    <3>2. CASE SenderCatches(i)
      BY <2>3, <3>1, <3>2 DEF SenderCatches
    <3>3. CASE SenderEnters(i) \/ SenderResumes(i)
      <4>1. /\ UNCHANGED <<given, accepted, posted, sock>>
            /\ state' = "STOP" => state = "STOP"
        BY <3>3 DEF SenderEnters, EnterSend, SenderResumes, ResumeSend, SendLoop, rawVars
      <4> QED
        BY <3>1, <4>1, LiveUntouched
    <3>4. CASE WriteSucceeds(i) \/ WriteFails(i)
      BY <3>1, <3>4, LiveUntouched DEF WriteSucceeds, WriteFails, rawVars
    <3> QED
      BY <2>4, <3>2, <3>3, <3>4
  <2>5. CASE ReaderEnters \/ ReaderResumes \/ ReaderCatches \/ ReadSucceeds \/ ReadFails
    <3>1. sock # "unopened"
      BY <2>5 DEF Unopened, ReaderEnters, ReaderResumes, ReaderCatches, ReadSucceeds,
                  ReadFails
    <3>2. CASE ReaderCatches
      BY <2>3, <3>1, <3>2 DEF ReaderCatches, StopAndTellManager
    <3>3. CASE ReaderEnters \/ ReaderResumes \/ ReadSucceeds \/ ReadFails
      BY <3>1, <3>3, LiveUntouched
         DEF ReaderEnters, ReaderResumes, ReadSucceeds, ReadFails, baseVars
    <3> QED
      BY <2>5, <3>2, <3>3
  <2>6. CASE ManagerStep
    <3>1. ASSUME NEW d \in Data, ManagerData(d) PROVE Live'
      BY <1>2, <3>1, LiveManagerData
    <3>2. CASE ManagerStop
      <4>1. /\ posted' = Append(posted, Stop) /\ entry' # "listed"
            /\ UNCHANGED <<given, accepted, state, sock>>
            /\ entry = "listed" /\ down.at # "stopping"
        BY <3>2 DEF ManagerStop, NotCalled, baseVars
      <4> QED
        BY <4>1, LivePostStop
    <3>3. CASE TimerStores
      <4>1. /\ entry = "listed" /\ down.at = "loaded"
            /\ UNCHANGED <<given, accepted, state, sock, entry>>
        BY <3>3 DEF TimerStores, TimeoutStore, Unopened, NotCalled
      <4>2. CASE TimeoutStops
        <5>1. posted' = Append(posted, Stop) /\ timeout' = 0 /\ down'.at = "stopping"
          BY <3>3, <4>2 DEF TimerStores, TimeoutStore, TimeoutStops
        <5> QED
          BY <4>1, <5>1, LivePostStop
      <4>3. CASE ~ TimeoutStops
        <5>1. UNCHANGED posted
          BY <3>3, <4>3 DEF TimerStores
        <5> QED
          BY <4>1, <5>1, LiveUntouched
      <4> QED
        BY <4>2, <4>3
    <3>4. CASE TimerLoads
      BY <3>4, LiveUntouched DEF TimerLoads, TimeoutLoad, NotCalled, rawVars
    <3>5. CASE TimerReturns
      BY <3>5, LiveUntouched DEF TimerReturns, TimeoutReturn
    <3> QED
      BY <2>6, <3>1, <3>2, <3>3, <3>4, <3>5 DEF ManagerStep, TimerStep
  <2> QED
    BY <1>2, <2>1, <2>2, <2>4, <2>5, <2>6 DEF RawStep, StrandStep, NetworkStep
<1>3. ASSUME UNCHANGED vars PROVE Live'
  BY <1>3, LiveUntouched DEF vars, baseVars, rawVars
<1> QED
  BY <1>1, <1>2, <1>3 DEF Next, RawStep

-----------------------------------------------------------------------------
(* The starter leaves the queue and the wire alone.                        *)
LEMMA WireInvPreserved ==
  ASSUME SenderIInv, WireInv, [Next]_vars
  PROVE  WireInv'
<1>0. BaseTypeOK /\ OneWriter
  BY DEF SenderIInv, TypeOK, RawTypeOK, SenderInv, WriterInv
<1>1. CASE StarterRelays
  <2>1. QueueIsSuffix' /\ WrittenLen' = WrittenLen
    BY <1>0, <1>1, StartStream DEF StarterRelays, WireInv
  <2> QED
    BY <1>0, <1>1, <2>1, WireKept DEF StarterRelays
<1>2. CASE StarterEnters \/ StarterConnects \/ StarterCatches \/ ResolveCompletes
             \/ ConnectSucceeds \/ ConnectFails
  BY <1>2, WireUntouched
     DEF StarterEnters, StarterConnects, StarterCatches, ResolveCompletes, ConnectSucceeds,
         ConnectFails, baseVars, rawVars
<1>3. CASE RawStep
  BY <1>3, WirePreserved DEF SenderIInv, TypeOK
<1>4. CASE UNCHANGED vars
  BY <1>4, WireUntouched DEF vars, baseVars, rawVars
<1> QED
  BY <1>1, <1>2, <1>3, <1>4 DEF Next, StarterStep, RawStep

LEMMA WriteEmits ==
  ASSUME IInv, WireInv', NEW i \in DOMAIN coros, WriteSucceeds(i)
  PROVE  Pipe!Emit /\ Pipe!Prefix'
<1>0. /\ wire \in Seq(Data) /\ given \in Seq(Data) /\ accepted \in Seq(Data)
      /\ coros \in Seq(Frame)
      /\ Len(wire) \in Nat /\ Len(given) \in Nat /\ Len(accepted) \in Nat
  BY LenProperties DEF IInv, SenderIInv, TypeOK, RawTypeOK, BaseTypeOK
<1>1. /\ wire' = Append(wire, coros[i].buf) /\ sock = "open"
      /\ UNCHANGED <<given, accepted, bufs, sock>>
  BY DEF WriteSucceeds
<1>2. ~ Over
  BY <1>0, <1>1, EmptySeq, LenProperties DEF Over
<1>3. /\ Len(accepted) <= Len(given)
      /\ \A k \in 1 .. Len(accepted) : accepted[k] = given[k]
  BY <1>2 DEF IInv, DeliveryInv, Live, NothingLost
<1>4. coros[i].buf \in Data /\ WrittenLen' <= Len(accepted)
  BY WriteSucceedsStream
     DEF WriteSucceeds, IInv, SenderIInv, TypeOK, RawTypeOK, SenderInv, WriterInv, WireInv
<1>5. /\ wire' \in Seq(Data)
      /\ Len(wire') = Len(wire) + 1
      /\ wire'[Len(wire) + 1] = coros[i].buf
  BY <1>0, <1>1, <1>4, AppendProperties
<1>6. Len(wire) + 1 <= Len(accepted)
  BY <1>4, <1>5 DEF WireInv, IsWritten
<1>7. \A k \in 1 .. Len(wire') : wire'[k] = accepted[k]
  BY <1>1 DEF WireInv, IsWritten
<1>8. \A k \in 1 .. Len(wire) + 1 : wire'[k] = given[k]
  <2> SUFFICES ASSUME NEW k \in 1 .. Len(wire) + 1 PROVE wire'[k] = given[k]
    OBVIOUS
  <2>1. k \in 1 .. Len(wire') /\ k \in 1 .. Len(accepted)
    BY <1>0, <1>5, <1>6
  <2> QED
    BY <2>1, <1>3, <1>7
<1>9. Pipe!Prefix'
  BY <1>0, <1>1, <1>3, <1>5, <1>6, <1>8 DEF Pipe!Prefix, Pipe!IsPrefixOf
<1>10. Pipe!Emit
  <2>1. Len(wire) < Len(given)
    BY <1>0, <1>3, <1>6
  <2>2. coros[i].buf = given[Len(wire) + 1]
    <3>1. Len(wire) + 1 \in 1 .. Len(wire) + 1
      BY <1>0
    <3> QED
      BY <3>1, <1>5, <1>8
  <2> QED
    BY <1>1, <2>1, <2>2 DEF Pipe!Emit
<1> QED
  BY <1>9, <1>10

LEMMA DataAccepts ==
  ASSUME IInv, NEW d \in Data, ManagerData(d), state # "STOP"
  PROVE  Pipe!Accept /\ Pipe!Prefix'
<1>0. /\ wire \in Seq(Data) /\ given \in Seq(Data)
      /\ Len(wire) \in Nat /\ Len(given) \in Nat
  BY LenProperties DEF IInv, SenderIInv, TypeOK, RawTypeOK, BaseTypeOK
<1>1. given' = Append(given, d) /\ UNCHANGED <<wire, sock>>
  BY DEF ManagerData
<1>2. /\ Len(given') = Len(given) + 1
      /\ \A k \in 1 .. Len(given) : given'[k] = given[k]
  BY <1>0, <1>1, AppendProperties
<1>3. /\ Len(wire) <= Len(given)
      /\ \A k \in 1 .. Len(wire) : wire[k] = given[k]
  BY DEF IInv, DeliveryInv, Pipe!Prefix, Pipe!IsPrefixOf
<1>4. \A k \in 1 .. Len(wire) : k \in 1 .. Len(given)
  BY <1>0, <1>3
<1>5. Pipe!Prefix'
  BY <1>0, <1>1, <1>2, <1>3, <1>4 DEF Pipe!Prefix, Pipe!IsPrefixOf
<1> QED
  BY <1>1, <1>5 DEF Pipe!Accept

(* No other step hands over or writes a buffer.                            *)
LEMMA OtherSteps ==
  ASSUME [Next]_vars
  PROVE  \/ UNCHANGED <<given, wire>>
         \/ \E i \in DOMAIN coros : WriteSucceeds(i)
         \/ \E d \in Data : ManagerData(d) /\ state # "STOP"
BY DEF Next, StarterStep, StarterEnters, StarterConnects, StarterRelays, StarterCatches,
       ResolveCompletes, ConnectSucceeds, ConnectFails, StrandStep, NetworkStep,
       ManagerStep, RunSend, RunStop, SenderEnters, SenderResumes, SenderCatches,
       WriteFails, ReaderEnters, ReadSucceeds, ReadFails, ReaderResumes, ReaderCatches,
       ManagerData, ManagerStop, TimerStep, TimerLoads, TimerStores, TimerReturns,
       StopAndTellManager, rawVars, vars

LEMMA IInvInit == Init => IInv
<1> SUFFICES ASSUME Init PROVE IInv
  OBVIOUS
<1>1. /\ coros = <<>> /\ bufs = <<>> /\ accepted = <<>> /\ posted = <<>>
      /\ given = <<>> /\ wire = <<>> /\ sock = "unopened" /\ reader = "off"
      /\ down = NotCalled /\ starter = "spawned" /\ state = "UNINIT"
  BY DEF Init, RawInit, BaseInit
<1>2. SenderIInv
  BY SenderIInvInit
<1>3. Len(<<>>) = 0 /\ DOMAIN coros = {}
  BY <1>1, EmptySeq, LenProperties
<1>4. WireInv
  BY <1>1, <1>3 DEF WireInv, QueueIsSuffix, IsWritten, WrittenLen, Popped
<1>5. Unopened
  BY <1>1, <1>3 DEF Unopened
<1>6. Live
  BY <1>1, <1>3 DEF Live, NothingLost, StopIsLast, StoppedEarly, AllSends
<1>7. Pipe!Prefix
  BY <1>1, <1>3 DEF Pipe!Prefix, Pipe!IsPrefixOf
<1> QED
  BY <1>2, <1>4, <1>5, <1>6, <1>7 DEF IInv, DeliveryInv

LEMMA IInvNext == IInv /\ [Next]_vars => IInv'
<1> SUFFICES ASSUME IInv, [Next]_vars PROVE IInv'
  OBVIOUS
<1>1. SenderIInv'
  BY SenderIInvNext DEF IInv
<1>2. WireInv'
  BY WireInvPreserved DEF IInv
<1>3. Unopened'
  BY UnopenedPreserved DEF IInv, DeliveryInv
<1>4. Over' \/ Live'
  BY OverPreserved, LivePreserved DEF IInv, DeliveryInv
<1>5. Pipe!Prefix'
  <2>1. CASE UNCHANGED <<given, wire>>
    BY <2>1 DEF IInv, DeliveryInv, Pipe!Prefix, Pipe!IsPrefixOf
  <2>2. ASSUME NEW i \in DOMAIN coros, WriteSucceeds(i) PROVE Pipe!Prefix'
    BY <1>2, <2>2, WriteEmits
  <2>3. ASSUME NEW d \in Data, ManagerData(d), state # "STOP" PROVE Pipe!Prefix'
    BY <2>3, DataAccepts
  <2> QED
    BY <2>1, <2>2, <2>3, OtherSteps
<1> QED
  BY <1>1, <1>2, <1>3, <1>4, <1>5 DEF IInv, DeliveryInv

LEMMA IInvAlways == Spec => []IInv
BY IInvInit, IInvNext, PTL DEF Spec

LEMMA StepImplementsPipe ==
  ASSUME IInv, [Next]_vars
  PROVE  [Pipe!Next]_Pipe!vars
<1>1. CASE UNCHANGED <<given, wire>>
  <2>1. sock = "closed" => sock' = "closed"
    BY UnopenedPreserved DEF IInv, DeliveryInv
  <2>2. CASE sock' = "closed"
    BY <1>1, <2>2 DEF Pipe!Next, Pipe!Close
  <2>3. CASE sock' # "closed"
    BY <1>1, <2>1, <2>3 DEF Pipe!vars
  <2> QED
    BY <2>2, <2>3
<1>2. ASSUME NEW i \in DOMAIN coros, WriteSucceeds(i) PROVE Pipe!Next
  <2>1. WireInv'
    BY WireInvPreserved DEF IInv
  <2> QED
    BY <1>2, <2>1, WriteEmits DEF Pipe!Next
<1>3. ASSUME NEW d \in Data, ManagerData(d), state # "STOP" PROVE Pipe!Next
  BY <1>3, DataAccepts DEF Pipe!Next
<1> QED
  BY <1>1, <1>2, <1>3, OtherSteps

(* What a relay has written is the beginning of what it was handed.        *)
THEOREM RemotePrefix == Spec => []Pipe!Prefix
BY IInvAlways, PTL DEF IInv, DeliveryInv

(* The relay of a session implements OrderedPipe: its buffers are written  *)
(* in order, once each, and none after its socket is closed, whatever is   *)
(* stopped, restarted or timed out meanwhile.  (base_relay.cpp:29-71,      *)
(* raw_tcp.cpp:98-126 and 297-327)                                         *)
THEOREM RemoteImplementsPipe == Spec => ImplementsPipe
<1>1. Init => Pipe!Init
  BY DEF Init, RawInit, Pipe!Init
<1>2. IInv /\ [Next]_vars => [Pipe!Next]_Pipe!vars
  BY StepImplementsPipe
<1> QED
  BY <1>1, <1>2, IInvAlways, PTL DEF Spec, ImplementsPipe, Pipe!Spec
-----------------------------------------------------------------------------
(* The relay of a transparent server.  The manager serves it only once it  *)
(* has asked for its session.                                              *)
LEMMA TproxyNextCases ==
  ASSUME [TproxyNext]_tproxyVars, ~ started => requests = <<>>
  PROVE  \/ StartTransparent \/ StartFails \/ RunInit
         \/ RawStep /\ UNCHANGED started /\ (started \/ StrandStep \/ NetworkStep)
         \/ UNCHANGED <<baseVars, rawVars, started>>
<1>1. CASE TproxyNext
  <2>1. Asked => started
    BY EmptySeq DEF Asked
  <2> QED
    BY <1>1, <2>1 DEF TproxyNext, TproxyManagerStep, RawStep, ManagerStep
<1>2. CASE UNCHANGED tproxyVars
  BY <1>2 DEF tproxyVars
<1> QED
  BY <1>1, <1>2

(* Before the start there is nothing to run; RELAY_INIT is set by the      *)
(* first handler that is run, and no coroutine sends before.               *)
NothingYet ==
  ~ started => posted = <<>> /\ coros = <<>> /\ reader = "off" /\ requests = <<>>
InitFirst ==
  \A k \in DOMAIN posted : posted[k].run = "init" => k = 1 /\ coros = <<>>

TproxyInv ==
  /\ RawTypeOK /\ started \in BOOLEAN
  /\ SenderInv /\ NothingYet /\ InitFirst

(* What the start does, as far as the queue and the sender see it.         *)
LEMMA TproxyStarts ==
  ASSUME TproxyInv, StartTransparent \/ StartFails
  PROVE  /\ posted = <<>> /\ coros = <<>> /\ started' = TRUE
         /\ \E h \in Handler : h.run # "send" /\ posted' = Append(posted, h)
         /\ UNCHANGED <<baseVars, sock, entry, given, wire>>
         /\ reader' \in {reader, "spawned"}
         /\ \E cmd \in {"START_TCP", "STOP_TCP"} : requests' = Append(requests, cmd)
<1>1. InitHandler \in Handler /\ Stop \in Handler
  BY DEF InitHandler, Stop, Handler
<1> QED
  BY <1>1 DEF TproxyInv, NothingYet, StartTransparent, StartFails, Request, InitHandler,
              Stop

(* The posted handler finds no coroutine.                                  *)
LEMMA TproxyInits ==
  ASSUME TproxyInv, RunInit
  PROVE  /\ posted # <<>> /\ Head(posted).run = "init" /\ posted' = Tail(posted)
         /\ coros = <<>> /\ coros' = StartSend(coros) /\ state' = "INIT"
         /\ UNCHANGED <<bufs, timeout, down, accepted,
                        sock, reader, entry, requests, given, wire, started>>
<1>1. posted # <<>> /\ Head(posted).run = "init"
  BY DEF RunInit, InitHandler
<1>2. posted \in Seq(Handler)
  BY DEF TproxyInv, RawTypeOK
<1>3. posted[1].run = "init" /\ 1 \in DOMAIN posted
  BY <1>1, <1>2, QueuePops
<1>4. coros = <<>>
  BY <1>3 DEF TproxyInv, InitFirst
<1> QED
  BY <1>1, <1>4 DEF RunInit

LEMMA TproxyCases ==
  ASSUME TproxyInv, [TproxyNext]_tproxyVars
  PROVE  \/ StartTransparent \/ StartFails \/ RunInit
         \/ RawStep /\ UNCHANGED started /\ (started \/ StrandStep \/ NetworkStep)
         \/ UNCHANGED <<baseVars, rawVars, started>>
BY TproxyNextCases DEF TproxyInv, NothingYet

LEMMA TproxyTypeKept ==
  ASSUME TproxyInv, [TproxyNext]_tproxyVars
  PROVE  RawTypeOK' /\ started' \in BOOLEAN
<1>0. RawTypeOK /\ started \in BOOLEAN /\ SenderInv /\ OneWriter
  BY DEF TproxyInv, SenderInv, WriterInv
<1>1. CASE StartTransparent \/ StartFails
  <2>1. posted' \in Seq(Handler)
    <3>1. PICK h \in Handler : posted' = Append(posted, h)
      BY <1>1, TproxyStarts
    <3> QED
      BY <1>0, <3>1, AppendProperties DEF RawTypeOK
  <2>2. requests' \in Seq({"START_TCP", "DATA_TCP", "STOP_TCP"})
    <3>1. PICK cmd \in {"START_TCP", "STOP_TCP"} : requests' = Append(requests, cmd)
      BY <1>1, TproxyStarts
    <3> QED
      BY <1>0, <3>1, AppendProperties DEF RawTypeOK
  <2> QED
    BY <1>0, <1>1, <2>1, <2>2, TproxyStarts DEF RawTypeOK, BaseTypeOK, baseVars
<1>2. CASE RunInit
  <2>1. coros' \in Seq(Frame)
    BY <1>0, <1>2, TproxyInits, StartSender DEF RawTypeOK
  <2>2. posted' \in Seq(Handler)
    BY <1>0, <1>2, TproxyInits, QueuePops DEF RawTypeOK
  <2> QED
    BY <1>0, <1>2, <2>1, <2>2, TproxyInits DEF RawTypeOK, BaseTypeOK, RelayState
<1>3. CASE RawStep /\ UNCHANGED started
  BY <1>0, <1>3, RawTypePreserved
<1>4. CASE UNCHANGED <<baseVars, rawVars, started>>
  BY <1>0, <1>4 DEF RawTypeOK, BaseTypeOK, baseVars, rawVars
<1> QED
  BY <1>1, <1>2, <1>3, <1>4, TproxyCases

LEMMA TproxySenderKept ==
  ASSUME TproxyInv, [TproxyNext]_tproxyVars
  PROVE  SenderInv'
<1>0. RawTypeOK /\ BaseTypeOK /\ SenderInv /\ WriterInv
  BY DEF TproxyInv, SenderInv, RawTypeOK
<1>1. CASE UNCHANGED baseVars
  BY <1>0, <1>1, SenderUntouched DEF SenderKept, SenderInv, baseVars
<1>2. CASE RunInit
  BY <1>0, <1>2, TproxyInits, StartSender
<1>3. CASE RawStep
  BY <1>0, <1>3, SenderPreserved
<1> QED
  BY <1>1, <1>2, <1>3, TproxyCases, TproxyStarts

(* A common step leaves the queue of handlers, runs the first that is no   *)
(* start, or adds one that is none.                                        *)
LEMMA RawQueue ==
  ASSUME RawTypeOK, RawStep
  PROVE  \/ posted' = posted
         \/ posted # <<>> /\ Head(posted).run # "init" /\ posted' = Tail(posted)
         \/ \E h \in Handler : h.run # "init" /\ posted' = Append(posted, h)
<1>1. /\ Stop \in Handler /\ Stop.run # "init"
      /\ \A d \in Data : Send(d) \in Handler /\ Send(d).run # "init"
  BY HandlerTypes DEF Stop, Send
<1> QED
  BY <1>1
     DEF RawStep, StrandStep, NetworkStep, ManagerStep, RunSend, RunStop, SenderEnters,
         SenderResumes, SenderCatches, WriteSucceeds, WriteFails, ReaderEnters,
         ReadSucceeds, ReadFails, ReaderResumes, ReaderCatches, ManagerData, ManagerStop,
         TimerStep, TimerLoads, TimerStores, TimerReturns, rawVars

(* Once the first handler has run no start is left.                        *)
LEMMA NoneAfterTheFirst ==
  ASSUME InitFirst, posted \in Seq(Handler), posted # <<>>, posted' = Tail(posted)
  PROVE  /\ \A k \in DOMAIN posted' : posted'[k].run # "init"
         /\ posted' # <<>> => Head(posted').run # "init"
<1>1. ASSUME NEW k \in DOMAIN posted' PROVE posted'[k].run # "init"
  <2>1. k \in Nat /\ k # 0 /\ k + 1 \in DOMAIN posted /\ posted'[k] = posted[k + 1]
    BY QueuePops
  <2>2. k + 1 # 1
    BY <2>1
  <2> QED
    BY <2>1, <2>2 DEF InitFirst
<1>2. posted' \in Seq(Handler)
  BY QueuePops
<1>3. posted' # <<>> => Head(posted') = posted'[1] /\ 1 \in DOMAIN posted'
  BY <1>2, QueuePops
<1> QED
  BY <1>1, <1>3

LEMMA TproxyInitKept ==
  ASSUME TproxyInv, [TproxyNext]_tproxyVars
  PROVE  InitFirst' /\ NothingYet'
<1>0. RawTypeOK /\ posted \in Seq(Handler) /\ SenderInv /\ InitFirst /\ NothingYet
  BY DEF TproxyInv, RawTypeOK
<1>1. ASSUME posted # <<>>, posted' = Tail(posted) PROVE InitFirst'
  BY <1>0, <1>1, NoneAfterTheFirst DEF InitFirst
<1>2. CASE StartTransparent \/ StartFails
  <2>1. PICK h \in Handler : posted' = Append(posted, h)
    BY <1>2, TproxyStarts
  <2>2. DOMAIN posted' = {1} /\ coros' = <<>>
    <3>1. posted = <<>> /\ coros' = <<>>
      BY <1>2, TproxyStarts DEF baseVars
    <3>2. posted' = <<h>>
      BY <2>1, <3>1
    <3> QED
      BY <3>1, <3>2
  <2> QED
    BY <1>2, <2>2, TproxyStarts DEF InitFirst, NothingYet
<1>3. CASE RunInit
  BY <1>0, <1>1, <1>3, TproxyInits DEF NothingYet
<1>4. CASE RawStep /\ UNCHANGED started /\ (started \/ StrandStep \/ NetworkStep)
  <2>1. coros = <<>> => coros' = <<>>
    BY <1>0, <1>4, RawSpawnsNone
  <2>2. InitFirst'
    <3>1. CASE posted' = posted
      BY <1>0, <2>1, <3>1 DEF InitFirst
    <3>2. ASSUME NEW h \in Handler, h.run # "init", posted' = Append(posted, h)
          PROVE  InitFirst'
      BY <1>0, <2>1, <3>2, QueueGrows DEF InitFirst
    <3> QED
      BY <1>0, <1>1, <1>4, <3>1, <3>2, RawQueue
  <2>3. started
    <3> SUFFICES ASSUME ~ started PROVE FALSE
      OBVIOUS
    <3>1. posted = <<>> /\ DOMAIN coros = {} /\ reader = "off"
      BY <1>0, EmptySeq, LenProperties DEF NothingYet
    <3> QED
      BY <1>4, <3>1
         DEF StrandStep, NetworkStep, RunSend, RunStop, ReaderEnters, ReaderResumes,
             ReaderCatches, ReadSucceeds, ReadFails
  <2> QED
    BY <1>4, <2>2, <2>3 DEF NothingYet
<1>5. CASE UNCHANGED <<baseVars, rawVars, started>>
  BY <1>0, <1>5 DEF InitFirst, NothingYet, baseVars, rawVars
<1> QED
  BY <1>2, <1>3, <1>4, <1>5, TproxyCases

LEMMA TproxyInvInit == TproxyInit => TproxyInv
<1> SUFFICES ASSUME TproxyInit PROVE TproxyInv
  OBVIOUS
<1>0. RawInit /\ sock = "open" /\ started = FALSE
  BY DEF TproxyInit
<1>1. /\ coros = <<>> /\ bufs = <<>> /\ state = "UNINIT" /\ posted = <<>>
      /\ DOMAIN coros = {} /\ DOMAIN posted = {}
  BY <1>0, EmptySeq, LenProperties DEF RawInit, BaseInit
<1>2. \A S : <<>> \in Seq(S)
  BY EmptySeq
<1>3. RawTypeOK
  BY <1>0, <1>2, BaseAssumption, DownTypes
     DEF RawInit, BaseInit, RawTypeOK, BaseTypeOK, RelayState
<1>4. SenderInv
  BY <1>1 DEF SenderInv, WriterInv, OneWriter, BusyIsNotInit, NoneBeforeStart, NoLostWakeup
<1> QED
  BY <1>0, <1>1, <1>3, <1>4 DEF RawInit, TproxyInv, NothingYet, InitFirst

LEMMA TproxyInvNext == TproxyInv /\ [TproxyNext]_tproxyVars => TproxyInv'
<1> SUFFICES ASSUME TproxyInv, [TproxyNext]_tproxyVars PROVE TproxyInv'
  OBVIOUS
<1> QED
  BY TproxyTypeKept, TproxySenderKept, TproxyInitKept DEF TproxyInv

(* Though the start posts RELAY_INIT and the reader it has spawned may     *)
(* stop the relay first, one coroutine writes at a time, pops what it      *)
(* wrote, and no buffer waits in the queue of an idle relay.               *)
(* (base_relay.cpp:39-71, raw_tcp.cpp:194-205)                             *)
THEOREM TproxyQueueInv == TproxySpec => []QueueInv
<1>1. TproxyInv => QueueInv
  BY DEF TproxyInv, SenderInv, WriterInv, QueueInv, TproxyTypeOK
<1> QED
  BY <1>1, TproxyInvInit, TproxyInvNext, PTL DEF TproxySpec

-----------------------------------------------------------------------------
(* The handlers behind RELAY_INIT.                                         *)
Pending == IF posted # <<>> /\ Head(posted).run = "init" THEN Tail(posted) ELSE posted

(* The client's socket is open from the beginning; a stop closes it at     *)
(* once, and until then no buffer is lost on its way to the queue.         *)
TproxyFlow ==
  /\ sock # "unopened"
  /\ sock = "open" => state # "STOP" /\ Carries(Pending, accepted, given)

TproxyIInv == TproxyInv /\ WireInv /\ TproxyFlow

LEMMA PendingGrows ==
  ASSUME posted \in Seq(Handler), NEW h \in Handler, posted' = Append(posted, h),
         posted # <<>> \/ h.run # "init"
  PROVE  Pending \in Seq(Handler) /\ Pending' = Append(Pending, h)
<1>1. CASE posted = <<>>
  BY <1>1 DEF Pending
<1>2. CASE posted # <<>>
  <2>1. Head(posted') = Head(posted) /\ posted' # <<>>
    BY <1>2, HeadTailProperties, AppendProperties
  <2>2. Tail(posted') = Append(Tail(posted), h) /\ Tail(posted) \in Seq(Handler)
    BY <1>2, HeadTailProperties, AppendProperties
  <2> QED
    BY <2>1, <2>2 DEF Pending
<1> QED
  BY <1>1, <1>2

(* The queue behind the start is the whole queue when there is none.       *)
LEMMA FlowAfterInit ==
  ASSUME TproxyInv, TproxyFlow, RawStep, posted = <<>> \/ Head(posted).run # "init",
         sock = "open", sock' # "closed"
  PROVE  state' # "STOP" /\ Carries(Pending', accepted', given')
<1>0. RawTypeOK /\ posted \in Seq(Handler) /\ InitFirst
  BY DEF TproxyInv, RawTypeOK
<1>1. Pending = posted
  BY DEF Pending
<1>2. state' # "STOP" /\ Carries(posted', accepted', given')
  BY <1>0, <1>1, FlowKept DEF TproxyFlow
<1>3. Pending' = posted'
  <2>1. CASE posted' = posted
    BY <2>1 DEF Pending
  <2>2. CASE posted # <<>> /\ posted' = Tail(posted)
    BY <1>0, <2>2, NoneAfterTheFirst DEF Pending
  <2>3. ASSUME NEW h \in Handler, h.run # "init", posted' = Append(posted, h)
        PROVE  Pending' = posted'
    BY <1>0, <1>1, <2>3, PendingGrows
  <2> QED
    BY <1>0, <2>1, <2>2, <2>3, RawQueue
<1> QED
  BY <1>2, <1>3

(* As long as RELAY_INIT is not set, there is nothing but the manager, the *)
(* timer and the reader.                                                   *)
LEMMA FlowBeforeInit ==
  ASSUME TproxyInv, TproxyFlow, RawStep, posted # <<>>, Head(posted).run = "init",
         sock = "open", sock' # "closed"
  PROVE  state' # "STOP" /\ Carries(Pending', accepted', given')
<1>0. /\ posted \in Seq(Handler) /\ accepted \in Seq(Data) /\ given \in Seq(Data)
      /\ state # "STOP" /\ Carries(Pending, accepted, given) /\ ~ StopRelay
      /\ 1 \in DOMAIN posted /\ posted[1].run = "init" /\ InitFirst
  BY QueuePops DEF TproxyInv, TproxyFlow, RawTypeOK, BaseTypeOK, StopRelay
<1>1. DOMAIN coros = {}
  <2>1. coros = <<>>
    BY <1>0 DEF InitFirst
  <2> QED
    BY <2>1, EmptySeq, LenProperties
<1>2. CASE UNCHANGED <<posted, accepted, given, state>>
  BY <1>0, <1>2 DEF Pending
<1>3. CASE posted' = Append(posted, Stop) /\ UNCHANGED <<accepted, given, state>>
  <2>1. Stop \in Handler /\ Stop.run # "send"
    BY HandlerTypes DEF Stop
  <2>2. Pending \in Seq(Handler) /\ Pending' = Append(Pending, Stop)
    BY <1>0, <1>3, <2>1, PendingGrows
  <2>3. Carries(Append(Pending, Stop), accepted, given)
    BY <1>0, <2>1, <2>2, CarriesStop
  <2> QED
    BY <1>0, <1>3, <2>2, <2>3
<1>4. ASSUME NEW d \in Data, ManagerData(d)
      PROVE  state' # "STOP" /\ Carries(Pending', accepted', given')
  <2>1. /\ posted' = Append(posted, Send(d)) /\ given' = Append(given, d)
        /\ accepted' = accepted /\ state' = state
    BY <1>0, <1>4 DEF ManagerData, baseVars
  <2>2. Send(d) \in Handler /\ Send(d).run = "send" /\ Send(d).buf = d
    BY HandlerTypes DEF Send
  <2>3. Pending \in Seq(Handler) /\ Pending' = Append(Pending, Send(d))
    BY <1>0, <2>1, <2>2, PendingGrows
  <2>4. Carries(Append(Pending, Send(d)), accepted, Append(given, d))
    BY <1>0, <2>2, <2>3, CarriesGiven
  <2> QED
    BY <1>0, <2>1, <2>3, <2>4
<1>5. CASE StrandStep \/ NetworkStep
  <2>1. ~ RunSend /\ ~ RunStop /\ ~ ReaderCatches
    BY <1>0 DEF RunSend, RunStop, ReaderCatches, StopAndTellManager
  <2>2. UNCHANGED <<posted, accepted, given, state>>
    BY <1>1, <1>5, <2>1
       DEF StrandStep, NetworkStep, ReaderEnters, ReaderResumes, ReadSucceeds, ReadFails,
           baseVars
  <2> QED
    BY <1>2, <2>2
<1>6. CASE ManagerStop \/ TimerStep
  BY <1>2, <1>3, <1>6
     DEF ManagerStop, TimerStep, TimerLoads, TimerStores, TimerReturns, baseVars, rawVars
<1> QED
  BY <1>4, <1>5, <1>6 DEF RawStep, ManagerStep

LEMMA TproxySockKept ==
  ASSUME TproxyInv, TproxyFlow, [TproxyNext]_tproxyVars
  PROVE  sock' # "unopened" /\ (sock = "closed" => sock' = "closed")
<1>1. sock' = sock \/ StopRelay
  BY TproxyCases, TproxyStarts, TproxyInits, SockOrStop DEF rawVars
<1> QED
  BY <1>1 DEF TproxyFlow, StopRelay

LEMMA TproxyFlowKept ==
  ASSUME TproxyInv, TproxyFlow, [TproxyNext]_tproxyVars
  PROVE  TproxyFlow'
<1>1. sock' # "unopened" /\ (sock = "closed" => sock' = "closed")
  BY TproxySockKept
<1>2. /\ posted \in Seq(Handler) /\ accepted \in Seq(Data) /\ given \in Seq(Data)
      /\ sock \in {"unopened", "open", "closed"} /\ InitFirst
  BY DEF TproxyInv, RawTypeOK, BaseTypeOK
<1>3. SUFFICES ASSUME sock' = "open"
               PROVE  state' # "STOP" /\ Carries(Pending', accepted', given')
  BY <1>1 DEF TproxyFlow
<1>4. sock = "open" /\ state # "STOP" /\ Carries(Pending, accepted, given)
  BY <1>1, <1>2, <1>3 DEF TproxyFlow
<1>5. CASE StartTransparent \/ StartFails
  <2>1. /\ posted = <<>> /\ UNCHANGED <<accepted, given, state>>
        /\ \E h \in Handler : h.run # "send" /\ posted' = Append(posted, h)
    BY <1>5, TproxyStarts DEF baseVars
  <2>2. PICK h \in Handler : h.run # "send" /\ posted' = Append(posted, h)
    BY <2>1
  <2>3. Pending = <<>> /\ posted' = <<h>>
    BY <2>1, <2>2 DEF Pending
  <2>4. CASE h.run = "init"
    <3>1. Pending' = <<>>
      BY <2>3, <2>4 DEF Pending
    <3> QED
      BY <1>4, <2>1, <2>3, <3>1
  <2>5. CASE h.run # "init"
    <3>1. Pending \in Seq(Handler) /\ Pending' = Append(Pending, h)
      BY <1>2, <2>2, <2>5, PendingGrows
    <3>2. Carries(Append(Pending, h), accepted, given)
      BY <1>2, <1>4, <2>2, <3>1, CarriesStop
    <3> QED
      BY <1>4, <2>1, <3>1, <3>2
  <2> QED
    BY <2>4, <2>5
<1>6. CASE RunInit
  <2>1. posted # <<>> /\ posted' = Tail(posted) /\ Pending = Tail(posted)
    BY <1>6, TproxyInits DEF Pending
  <2>2. Pending' = Tail(posted)
    BY <1>2, <2>1, NoneAfterTheFirst DEF Pending
  <2> QED
    BY <1>4, <1>6, <2>1, <2>2, TproxyInits
<1>7. CASE RawStep
  BY <1>3, <1>4, <1>7, FlowBeforeInit, FlowAfterInit
<1>8. CASE UNCHANGED <<baseVars, rawVars, started>>
  BY <1>4, <1>8 DEF Pending, baseVars, rawVars
<1> QED
  BY <1>5, <1>6, <1>7, <1>8, TproxyCases

LEMMA TproxyWireKept ==
  ASSUME TproxyInv, WireInv, [TproxyNext]_tproxyVars
  PROVE  WireInv'
<1>0. RawTypeOK /\ BaseTypeOK /\ SenderInv /\ OneWriter /\ QueueIsSuffix
  BY DEF TproxyInv, RawTypeOK, SenderInv, WriterInv, WireInv
<1>1. CASE RawStep
  BY <1>0, <1>1, WirePreserved
<1>2. CASE UNCHANGED <<baseVars, wire>>
  BY <1>2, WireUntouched DEF baseVars
<1>3. CASE RunInit
  <2>1. QueueIsSuffix' /\ WrittenLen' = WrittenLen
    BY <1>0, <1>3, TproxyInits, StartStream
  <2> QED
    BY <1>0, <1>3, <2>1, TproxyInits, WireKept
<1> QED
  BY <1>1, <1>2, <1>3, TproxyCases, TproxyStarts DEF rawVars

LEMMA TproxyIInvInit == TproxyInit => TproxyIInv /\ Pipe!Init
<1> SUFFICES ASSUME TproxyInit PROVE TproxyIInv /\ Pipe!Init
  OBVIOUS
<1>1. /\ coros = <<>> /\ bufs = <<>> /\ accepted = <<>> /\ posted = <<>>
      /\ given = <<>> /\ wire = <<>> /\ sock = "open" /\ state = "UNINIT"
  BY DEF TproxyInit, RawInit, BaseInit
<1>2. Len(<<>>) = 0 /\ DOMAIN coros = {}
  BY <1>1, EmptySeq, LenProperties
<1>3. WireInv
  BY <1>1, <1>2 DEF WireInv, QueueIsSuffix, IsWritten, WrittenLen, Popped
<1>4. TproxyFlow
  BY <1>1, <1>2 DEF TproxyFlow, Pending, Carries
<1> QED
  BY <1>1, <1>3, <1>4, TproxyInvInit DEF TproxyIInv, Pipe!Init

LEMMA TproxyIInvNext == TproxyIInv /\ [TproxyNext]_tproxyVars => TproxyIInv'
<1> SUFFICES ASSUME TproxyIInv, [TproxyNext]_tproxyVars PROVE TproxyIInv'
  OBVIOUS
<1> QED
  BY TproxyInvNext, TproxyWireKept, TproxyFlowKept DEF TproxyIInv

LEMMA TproxyStepOfPipe ==
  ASSUME TproxyIInv, [TproxyNext]_tproxyVars
  PROVE  [Pipe!Next]_Pipe!vars
<1>0. sock = "closed" => sock' = "closed"
  BY TproxySockKept DEF TproxyIInv
<1>1. CASE RawStep
  <2>1. RawTypeOK /\ OneWriter /\ WireInv
    BY DEF TproxyIInv, TproxyInv, SenderInv, WriterInv
  <2>2. sock = "open" => /\ Len(accepted) <= Len(given)
                         /\ \A k \in 1 .. Len(accepted) : accepted[k] = given[k]
    BY DEF TproxyIInv, TproxyFlow, Carries
  <2> QED
    BY <1>0, <1>1, <2>1, <2>2, RawStepOfPipe
<1>2. CASE UNCHANGED <<given, wire, sock>>
  BY <1>2 DEF Pipe!vars
<1> QED
  BY <1>1, <1>2, TproxyCases, TproxyStarts, TproxyInits DEF TproxyIInv, rawVars

(* The relay of a transparent server's client implements OrderedPipe, even *)
(* when RELAY_INIT overwrites the RELAY_STOP the reader has set: what the  *)
(* manager hands over is written in order, once each, and nothing after    *)
(* the client's socket is closed.  (base_relay.cpp:29-71,                  *)
(* raw_tcp.cpp:98-126, 182-205)                                            *)
THEOREM TproxyImplementsPipe == TproxySpec => ImplementsPipe
<1>1. TproxyIInv /\ [TproxyNext]_tproxyVars => [Pipe!Next]_Pipe!vars
  BY TproxyStepOfPipe
<1> QED
  BY <1>1, TproxyIInvInit, TproxyIInvNext, PTL DEF TproxySpec, ImplementsPipe, Pipe!Spec
=============================================================================
