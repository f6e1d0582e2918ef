--------------------------- MODULE RemoteUdpProofs ---------------------------
(***************************************************************************)
(* Theorems about RemoteUdp: one coroutine sends at a time, no datagram is *)
(* left behind, and the relay implements OrderedPipe, although RELAY_INIT  *)
(* is posted and may overwrite RELAY_STOP.                                 *)
(***************************************************************************)
EXTENDS RemoteUdp, BaseRelayProofs

(* The steps of the send coroutines, and those that leave them, the queue  *)
(* and what was sent alone.                                                *)
SenderStep ==
  \E i \in DOMAIN coros : SenderEnters(i) \/ SenderResumes(i) \/ SenderCatches(i)

ReceiverStep ==
  \/ ReceiverEnters \/ ReceiverResumes \/ ReceiverCatches
  \/ ReceiveSucceeds \/ ReceiveFails

Aside == RunStop \/ ReceiverStep \/ ManagerStep \/ UNCHANGED vars

LEMMA NextCases ==
  ASSUME [Next]_vars
  PROVE  RunStart \/ RunSend \/ SenderStep \/ SendCompletes \/ Aside
BY DEF Next, StrandStep, NetworkStep, SenderStep, ReceiverStep, Aside

LEMMA AsideLeaves ==
  ASSUME Aside
  PROVE  /\ UNCHANGED <<bufs, coros, accepted, wire>>
         /\ UNCHANGED <<state, sock>> \/ StopRelay
BY DEF Aside, RunStop, ReceiverStep, ReceiverEnters, ReceiverResumes, ReceiverCatches,
       ReceiveSucceeds, ReceiveFails, ManagerStep, ManagerCreates, ManagerData, ManagerStop,
       TimerStep, TimerLoads, TimerStores, TimerReturns, baseVars, udpVars, vars

LEMMA HandlerTypes ==
  /\ Stop \in Handler /\ Stop.run = "stop"
  /\ Start \in Handler /\ Start.run = "init"
  /\ \A d \in Data : Send(d) \in Handler /\ Send(d).run = "send" /\ Send(d).buf = d
  /\ \A h \in Handler : h.run = "send" => h.buf \in Data
BY DEF Handler, Stop, Start, Send

-----------------------------------------------------------------------------
(* Before the session has a relay there is nothing.                        *)
NothingYet ==
  entry = "none" =>
    /\ posted = <<>> /\ given = <<>> /\ accepted = <<>> /\ coros = <<>>
    /\ state = "UNINIT" /\ sock = "open" /\ receiver = "off" /\ down = NotCalled

(* RELAY_INIT is set once, by the first handler, and no coroutine has been *)
(* spawned before.                                                         *)
StartFirst ==
  \A k \in DOMAIN posted : posted[k].run = "init" => k = 1 /\ coros = <<>>

(* A datagram that has come is one more than those passed on, and counts   *)
(* in the bound.                                                           *)
ReceiveFits == receiver = "got" => received < MaxReceived

UdpInv ==
  /\ TypeOK /\ ReceiveFits
  /\ SenderInv /\ NothingYet /\ StartFirst

LEMMA NoFrameSteps ==
  ASSUME coros = <<>>
  PROVE  ~ SenderStep /\ ~ SendCompletes
<1>1. DOMAIN coros = {}
  OBVIOUS
<1> QED
  BY <1>1 DEF SenderStep, SendCompletes

LEMMA AsideTypes ==
  ASSUME UdpInv, Aside
  PROVE  TypeOK' /\ ReceiveFits'
<1>0. TypeOK /\ ReceiveFits
  BY DEF UdpInv
<1>1. CASE RunStop
  <2>1. posted' \in Seq(Handler)
    BY <1>0, <1>1, QueuePops DEF RunStop, TypeOK
  <2> QED
    BY <1>0, <1>1, <2>1
       DEF RunStop, StopRelay, TypeOK, BaseTypeOK, RelayState, ReceiveFits
<1>2. CASE ReceiverStep
  <2>1. CASE ReceiverResumes
    <3>1. received' \in 0 .. MaxReceived
      BY <1>0, <2>1, RemoteUdpAssumption DEF ReceiverResumes, ReceiveFits, TypeOK
    <3> QED
      BY <1>0, <2>1, <3>1 DEF ReceiverResumes, TypeOK, BaseTypeOK, baseVars, ReceiveFits
  <2>2. CASE ~ ReceiverResumes
    BY <1>0, <1>2, <2>2
       DEF ReceiverStep, ReceiverEnters, ReceiverCatches, ReceiveSucceeds, ReceiveFails,
           StopRelay, TypeOK, BaseTypeOK, RelayState, baseVars, ReceiveFits
  <2> QED
    BY <2>1, <2>2
<1>3. ASSUME NEW d \in Data, ManagerCreates(d) PROVE TypeOK' /\ ReceiveFits'
  <2>1. <<Start, Send(d)>> \in Seq(Handler) /\ <<d>> \in Seq(Data)
    BY HandlerTypes
  <2>2. posted' \in Seq(Handler) /\ given' \in Seq(Data) /\ receiver' = "spawned"
    BY <1>3, <2>1 DEF ManagerCreates
  <2> QED
    BY <1>0, <1>3, <2>2 DEF ManagerCreates, TypeOK, BaseTypeOK, baseVars, ReceiveFits
<1>4. ASSUME NEW d \in Data, ManagerData(d) PROVE TypeOK' /\ ReceiveFits'
  <2>1. Append(posted, Send(d)) \in Seq(Handler) /\ Append(given, d) \in Seq(Data)
    BY <1>0, HandlerTypes, AppendProperties DEF TypeOK
  <2>2. posted' \in Seq(Handler) /\ given' \in Seq(Data)
    BY <1>0, <1>4, <2>1 DEF ManagerData, TypeOK
  <2> QED
    BY <1>0, <1>4, <2>2 DEF ManagerData, TypeOK, BaseTypeOK, baseVars, ReceiveFits
<1>5. CASE ManagerStop \/ TimerStep
  <2>1. Append(posted, Stop) \in Seq(Handler)
    BY <1>0, HandlerTypes, AppendProperties DEF TypeOK
  <2>2. posted' \in Seq(Handler)
    BY <1>0, <1>5, <2>1
       DEF ManagerStop, TimerStep, TimerLoads, TimerStores, TimerReturns, udpVars, TypeOK
  <2>3. down' \in Down /\ timeout' \in 0 .. TIMEOUT
    BY <1>0, <1>5, TimerTypes
       DEF ManagerStop, TimerStep, TimerLoads, TimerStores, TimerReturns, TypeOK, BaseTypeOK,
           baseVars
  <2> QED
    BY <1>0, <1>5, <2>2, <2>3
       DEF ManagerStop, TimerStep, TimerLoads, TimerStores, TimerReturns, TypeOK, BaseTypeOK,
           baseVars, udpVars, ReceiveFits
<1>6. CASE UNCHANGED vars
  BY <1>0, <1>6 DEF vars, baseVars, udpVars, TypeOK, BaseTypeOK, ReceiveFits
<1> QED
  BY <1>1, <1>2, <1>3, <1>4, <1>5, <1>6 DEF Aside, ManagerStep

LEMMA TypeKept ==
  ASSUME UdpInv, [Next]_vars
  PROVE  TypeOK' /\ ReceiveFits'
<1>0. TypeOK /\ BaseTypeOK /\ OneWriter /\ ReceiveFits
  BY DEF UdpInv, SenderInv, WriterInv, TypeOK
<1>1. CASE RunStart
  <2>1. posted' \in Seq(Handler)
    BY <1>0, <1>1, QueuePops DEF RunStart, TypeOK
  <2>2. coros' \in Seq(Frame)
    BY <1>0, <1>1, FrameTypes, AppendProperties DEF RunStart, StartSend, BaseTypeOK
  <2> QED
    BY <1>0, <1>1, <2>1, <2>2 DEF RunStart, TypeOK, BaseTypeOK, RelayState, ReceiveFits
<1>2. CASE RunSend
  <2>1. Head(posted).buf \in Data /\ posted' \in Seq(Handler)
    BY <1>0, <1>2, HandlerTypes, QueuePops DEF RunSend, TypeOK
  <2>2. BaseTypeOK'
    BY <1>0, <1>2, <2>1, SendDataTypes DEF RunSend
  <2> QED
    BY <1>0, <1>2, <2>1, <2>2 DEF RunSend, TypeOK, ReceiveFits
<1>3. ASSUME NEW i \in DOMAIN coros, SenderEnters(i) \/ SenderResumes(i)
      PROVE  TypeOK' /\ ReceiveFits'
  <2>1. BaseTypeOK'
    BY <1>0, <1>3, EnterSendTypes, ResumeSendTypes DEF SenderEnters, SenderResumes
  <2> QED
    BY <1>0, <1>3, <2>1 DEF SenderEnters, SenderResumes, TypeOK, udpVars, ReceiveFits
<1>4. ASSUME NEW i \in DOMAIN coros, SenderCatches(i) PROVE TypeOK' /\ ReceiveFits'
  <2>1. coros' \in Seq(Frame)
    BY <1>0, <1>4, FrameReturns DEF SenderCatches
  <2> QED
    BY <1>0, <1>4, <2>1
       DEF SenderCatches, StopRelay, TypeOK, BaseTypeOK, RelayState, ReceiveFits
<1>5. ASSUME NEW i \in DOMAIN coros, SendSucceeds(i) PROVE TypeOK' /\ ReceiveFits'
  <2>1. coros' \in Seq(Frame)
    BY <1>0, <1>5, WriteEnds DEF SendSucceeds
  <2>2. coros[i].buf \in Data
    BY <1>0, <1>5, HeadTailProperties DEF SendSucceeds, OneWriter, Suspended, BaseTypeOK
  <2>3. wire' \in Seq(Data)
    BY <1>0, <1>5, <2>2, AppendProperties DEF SendSucceeds, TypeOK
  <2> QED
    BY <1>0, <1>5, <2>1, <2>3 DEF SendSucceeds, TypeOK, BaseTypeOK, ReceiveFits
<1>6. ASSUME NEW i \in DOMAIN coros, SendFails(i) PROVE TypeOK' /\ ReceiveFits'
  <2>1. coros' \in Seq(Frame)
    BY <1>0, <1>6, WriteEnds DEF SendFails
  <2> QED
    BY <1>0, <1>6, <2>1 DEF SendFails, TypeOK, BaseTypeOK, udpVars, ReceiveFits
<1> QED
  BY <1>1, <1>2, <1>3, <1>4, <1>5, <1>6, AsideTypes, NextCases DEF SenderStep, SendCompletes

(* No start is left when the first handler has run.                        *)
LEMMA PostedStart ==
  ASSUME StartFirst, posted \in Seq(Handler), posted # <<>>, posted' = Tail(posted)
  PROVE  /\ \A k \in DOMAIN posted' : posted'[k].run # "init"
         /\ posted' # <<>> => Head(posted').run # "init"
<1>1. ASSUME NEW k \in DOMAIN posted' PROVE posted'[k].run # "init"
  <2>1. k \in Nat /\ k # 0 /\ k + 1 \in DOMAIN posted /\ posted'[k] = posted[k + 1]
    BY QueuePops
  <2>2. k + 1 # 1
    BY <2>1
  <2> QED
    BY <2>1, <2>2 DEF StartFirst
<1>2. posted' # <<>> => Head(posted') = posted'[1] /\ 1 \in DOMAIN posted'
  <2>1. posted' \in Seq(Handler)
    BY QueuePops
  <2> QED
    BY <2>1, QueuePops
<1> QED
  BY <1>1, <1>2

(* A handler that is posted is no start, unless the manager has just made  *)
(* the relay.                                                              *)
LEMMA PostedKept ==
  ASSUME UdpInv, [Next]_vars
  PROVE  StartFirst'
<1>0. posted \in Seq(Handler) /\ StartFirst /\ NothingYet /\ WriterInv
  BY DEF UdpInv, TypeOK, SenderInv
<1>1. ASSUME posted # <<>>, posted' = Tail(posted) PROVE StartFirst'
  BY <1>0, <1>1, PostedStart DEF StartFirst
<1>2. ASSUME NEW h \in Handler, h.run # "init", posted' = Append(posted, h), coros' = coros
      PROVE  StartFirst'
  BY <1>0, <1>2, QueueGrows DEF StartFirst
<1>3. ASSUME posted' = posted, coros = <<>> => coros' = <<>> PROVE StartFirst'
  BY <1>0, <1>3 DEF StartFirst
<1>4. CASE RunStart \/ RunSend \/ RunStop
  BY <1>1, <1>4 DEF RunStart, RunSend, RunStop
<1>5. CASE SenderStep \/ SendCompletes
  <2>1. coros # <<>> /\ posted' = posted
    BY <1>5, NoFrameSteps
       DEF SenderStep, SenderEnters, SenderResumes, SenderCatches, SendCompletes,
           SendSucceeds, SendFails, udpVars
  <2> QED
    BY <1>3, <2>1
<1>6. CASE ReceiverStep \/ UNCHANGED vars
  <2>1. posted' = posted
    BY <1>6 DEF ReceiverStep, ReceiverEnters, ReceiverResumes, ReceiverCatches,
                ReceiveSucceeds, ReceiveFails, vars, udpVars
  <2> QED
    BY <1>3, <1>6, <2>1, AsideLeaves DEF Aside
<1>7. ASSUME NEW d \in Data, ManagerCreates(d) PROVE StartFirst'
  <2>1. coros' = <<>> /\ posted' = <<Start, Send(d)>>
    BY <1>0, <1>7 DEF ManagerCreates, NothingYet, baseVars
  <2>2. DOMAIN posted' = 1 .. 2 /\ posted'[2].run = "send"
    BY <2>1, HandlerTypes
  <2> QED
    BY <2>1, <2>2 DEF StartFirst
<1>8. CASE TimerStep \/ ManagerStop \/ \E d \in Data : ManagerData(d)
  <2>1. posted' = posted \/ \E h \in Handler : h.run # "init" /\ posted' = Append(posted, h)
    BY <1>8, HandlerTypes
       DEF ManagerData, ManagerStop, TimerStep, TimerLoads, TimerStores, TimerReturns, udpVars
  <2>2. coros' = coros
    BY <1>8, AsideLeaves DEF Aside, ManagerStep
  <2> QED
    BY <1>2, <1>3, <2>1, <2>2
<1> QED
  BY <1>4, <1>5, <1>6, <1>7, <1>8, NextCases DEF Aside, ManagerStep

(* The manager makes a relay once; everything else needs one.              *)
LEMMA NothingYetKept ==
  ASSUME UdpInv, [Next]_vars
  PROVE  NothingYet'
<1> SUFFICES ASSUME entry' = "none" PROVE NothingYet'
  BY DEF NothingYet
<1>1. entry = "none"
  BY NextCases
     DEF RunStart, RunSend, SenderStep, SenderEnters, SenderResumes, SenderCatches,
         SendCompletes, SendSucceeds, SendFails, Aside, RunStop, ReceiverStep,
         ReceiverEnters, ReceiverResumes, ReceiverCatches, ReceiveSucceeds, ReceiveFails,
         ManagerStep, ManagerCreates, ManagerData, ManagerStop, TimerStep, TimerLoads,
         TimerStores, TimerReturns, udpVars, vars
<1>2. /\ posted = <<>> /\ given = <<>> /\ accepted = <<>> /\ coros = <<>>
      /\ state = "UNINIT" /\ sock = "open" /\ receiver = "off" /\ down = NotCalled
  BY <1>1 DEF UdpInv, NothingYet
<1>3. ~ RunStart /\ ~ RunSend /\ ~ RunStop /\ ~ SenderStep /\ ~ SendCompletes
  BY <1>2, NoFrameSteps DEF RunStart, RunSend, RunStop
<1>4. ~ ReceiverStep
  BY <1>2 DEF ReceiverStep, ReceiverEnters, ReceiverResumes, ReceiverCatches,
              ReceiveSucceeds, ReceiveFails
<1>5. ~ ManagerStep
  BY <1>1, <1>2
     DEF ManagerStep, ManagerCreates, ManagerData, ManagerStop, TimerStep, TimerLoads,
         TimerStores, TimerReturns, TimeoutStore, TimeoutReturn, NotCalled
<1>6. UNCHANGED vars
  BY <1>3, <1>4, <1>5, NextCases DEF Aside
<1> QED
  BY <1>2, <1>6 DEF NothingYet, vars, baseVars, udpVars

LEMMA SenderInvKept ==
  ASSUME UdpInv, [Next]_vars
  PROVE  SenderInv'
<1>0. /\ TypeOK /\ BaseTypeOK /\ posted \in Seq(Handler)
      /\ SenderInv /\ WriterInv /\ NoLostWakeup /\ StartFirst
  BY DEF UdpInv, SenderInv, TypeOK
<1>1. CASE RunStart
  <2>1. posted[1].run = "init" /\ 1 \in DOMAIN posted
    BY <1>0, <1>1, QueuePops DEF RunStart
  <2>2. coros = <<>>
    BY <1>0, <2>1 DEF StartFirst
  <2> QED
    BY <1>0, <1>1, <2>2, StartSender DEF RunStart
<1>2. CASE RunSend
  <2>1. Head(posted).buf \in Data
    BY <1>0, <1>2, HandlerTypes, QueuePops DEF RunSend
  <2> QED
    BY <1>0, <1>2, <2>1, SendDataSender DEF RunSend, SenderKept, SenderInv
<1>3. ASSUME NEW i \in DOMAIN coros, SenderEnters(i) \/ SenderResumes(i) PROVE SenderInv'
  BY <1>0, <1>3, EnterSendSender, ResumeSendSender
     DEF SenderEnters, SenderResumes, SenderKept, SenderInv
<1>4. ASSUME NEW i \in DOMAIN coros, SenderCatches(i) PROVE SenderInv'
  BY <1>0, <1>4, CaughtSender DEF SenderCatches, StopRelay, SenderInv
<1>5. ASSUME NEW i \in DOMAIN coros, SendSucceeds(i) \/ SendFails(i) PROVE SenderInv'
  <2>1. CASE SendSucceeds(i)
    BY <1>0, <2>1, WriteEndsSender DEF SendSucceeds, SenderKept, SenderInv
  <2>2. CASE SendFails(i)
    BY <1>0, <2>2, WriteEndsSender DEF SendFails, SenderKept, SenderInv
  <2> QED
    BY <1>5, <2>1, <2>2
<1>6. CASE Aside
  <2>1. UNCHANGED <<bufs, coros>> /\ (state' = state \/ state' = "STOP")
    BY <1>6, AsideLeaves DEF StopRelay
  <2> QED
    BY <1>0, <2>1, SenderUntouched DEF SenderKept, SenderInv
<1> QED
  BY <1>1, <1>2, <1>3, <1>4, <1>5, <1>6, NextCases DEF SenderStep, SendCompletes

LEMMA UdpInvInit == Init => UdpInv
<1> SUFFICES ASSUME Init PROVE UdpInv
  OBVIOUS
<1>1. /\ coros = <<>> /\ bufs = <<>> /\ state = "UNINIT" /\ posted = <<>>
      /\ DOMAIN coros = {} /\ DOMAIN posted = {}
  BY EmptySeq, LenProperties DEF Init, BaseInit
<1>2. BaseTypeOK
  BY EmptySeq, BaseAssumption, DownTypes DEF Init, BaseInit, BaseTypeOK, RelayState
<1>3. TypeOK
  <2>1. posted \in Seq(Handler) /\ given \in Seq(Data) /\ wire \in Seq(Data)
    BY EmptySeq DEF Init
  <2>2. received \in 0 .. MaxReceived
    BY RemoteUdpAssumption DEF Init
  <2> QED
    BY <1>2, <2>1, <2>2 DEF Init, TypeOK
<1>4. SenderInv
  BY <1>1
     DEF SenderInv, WriterInv, OneWriter, BusyIsNotInit, NoneBeforeStart, NoLostWakeup
<1> QED
  BY <1>1, <1>3, <1>4 DEF Init, BaseInit, UdpInv, ReceiveFits, NothingYet, StartFirst

LEMMA UdpInvNext == UdpInv /\ [Next]_vars => UdpInv'
<1> SUFFICES ASSUME UdpInv, [Next]_vars PROVE UdpInv'
  OBVIOUS
<1> QED
  BY TypeKept, SenderInvKept, NothingYetKept, PostedKept DEF UdpInv

(* Although RELAY_INIT is posted and the receiver, a failed send, the      *)
(* manager and its timer may stop the relay before it is set, one          *)
(* coroutine sends at a time, pops what it sent, and no datagram waits in  *)
(* the queue of an idle relay.                                             *)
(* (base_relay.cpp:29-71, raw_udp.cpp:97-116 and 177-189)                  *)
THEOREM RemoteUdpQueueInv == Spec => []QueueInv
<1>1. UdpInv => QueueInv
  BY DEF UdpInv, SenderInv, WriterInv, QueueInv
<1> QED
  BY <1>1, UdpInvInit, UdpInvNext, PTL DEF Spec

-----------------------------------------------------------------------------
(* What has been sent is what send_data has accepted, as far as the        *)
(* coroutine has got.                                                      *)
WireInv == QueueIsSuffix /\ IsWritten(wire)

LEMMA WireKept ==
  ASSUME UdpInv, WireInv, QueueIsSuffix', WrittenLen' = WrittenLen, wire' = wire,
         accepted' = accepted \/ \E d \in Data : accepted' = Append(accepted, d)
  PROVE  WireInv'
<1>1. BaseTypeOK /\ OneWriter
  BY DEF UdpInv, TypeOK, SenderInv, WriterInv
<1>2. /\ Len(wire) = WrittenLen'
      /\ \A k \in 1 .. Len(wire) : wire[k] = accepted'[k]
  BY <1>1, RecordKept DEF WireInv
<1> QED
  BY <1>2 DEF WireInv, IsWritten

LEMMA WireInvKept ==
  ASSUME UdpInv, WireInv, [Next]_vars
  PROVE  WireInv'
<1>0. BaseTypeOK /\ OneWriter /\ QueueIsSuffix /\ posted \in Seq(Handler)
  BY DEF UdpInv, TypeOK, SenderInv, WriterInv, WireInv
<1>1. CASE RunStart
  <2>1. QueueIsSuffix' /\ WrittenLen' = WrittenLen
    BY <1>0, <1>1, StartStream DEF RunStart
  <2> QED
    BY <1>1, <2>1, WireKept DEF RunStart
<1>2. CASE RunSend
  <2>1. Head(posted).buf \in Data /\ SendData(Head(posted).buf) /\ wire' = wire
    BY <1>0, <1>2, HandlerTypes, QueuePops DEF RunSend
  <2>2. /\ QueueIsSuffix' /\ WrittenLen' = WrittenLen
        /\ accepted' = accepted \/ accepted' = Append(accepted, Head(posted).buf)
    BY <1>0, <2>1, SendDataStream
  <2> QED
    BY <2>1, <2>2, WireKept
<1>3. ASSUME NEW i \in DOMAIN coros, SenderEnters(i) PROVE WireInv'
  BY <1>0, <1>3, EnterSendStream, WireKept DEF SenderEnters, EnterSend, udpVars
<1>4. ASSUME NEW i \in DOMAIN coros, SenderResumes(i) PROVE WireInv'
  BY <1>0, <1>4, ResumeSendStream, WireKept DEF SenderResumes, ResumeSend, udpVars
<1>5. ASSUME NEW i \in DOMAIN coros, SenderCatches(i) PROVE WireInv'
  BY <1>0, <1>5, CaughtStream, WireKept DEF SenderCatches
<1>6. ASSUME NEW i \in DOMAIN coros, SendFails(i) PROVE WireInv'
  BY <1>0, <1>6, WriteFailsStream, WireKept DEF SendFails, udpVars
<1>7. ASSUME NEW i \in DOMAIN coros, SendSucceeds(i) PROVE WireInv'
  <2> DEFINE b == coros[i].buf
  <2>1. /\ QueueIsSuffix' /\ WrittenLen' = WrittenLen + 1
        /\ b \in Data /\ b = accepted[WrittenLen + 1]
    BY <1>0, <1>7, WriteSucceedsStream DEF SendSucceeds
  <2>2. wire' = Append(wire, b) /\ wire \in Seq(Data) /\ accepted' = accepted
    BY <1>7 DEF SendSucceeds, UdpInv, TypeOK
  <2>3. /\ Len(wire') = WrittenLen'
        /\ \A k \in 1 .. Len(wire') : wire'[k] = accepted'[k]
    BY <2>1, <2>2, RecordGrows DEF WireInv
  <2> QED
    BY <2>1, <2>3 DEF WireInv, IsWritten
<1>8. CASE Aside
  <2>1. UNCHANGED <<bufs, coros, accepted, wire>>
    BY <1>8, AsideLeaves
  <2> QED
    BY <2>1 DEF WireInv, QueueIsSuffix, IsWritten, WrittenLen, Popped
<1> QED
  BY <1>1, <1>2, <1>3, <1>4, <1>5, <1>6, <1>7, <1>8, NextCases
     DEF SenderStep, SendCompletes

-----------------------------------------------------------------------------
(* The handlers behind the start.                                          *)
Pending == IF posted # <<>> /\ Head(posted).run = "init" THEN Tail(posted) ELSE posted

(* The socket is open from the beginning and a stop closes it at once: as  *)
(* long as it is open every datagram handed over is accepted or pending.   *)
FlowInv == sock = "open" => state # "STOP" /\ Carries(Pending, accepted, given)

LEMMA PendingGrows ==
  ASSUME posted \in Seq(Handler), NEW h \in Handler, h.run # "init",
         posted' = Append(posted, h)
  PROVE  Pending \in Seq(Handler) /\ Pending' = Append(Pending, h)
<1>1. CASE posted = <<>>
  BY <1>1 DEF Pending
<1>2. CASE posted # <<>>
  <2>1. Head(posted') = Head(posted) /\ posted' # <<>>
    BY <1>2, HeadTailProperties, AppendProperties
  <2>2. Tail(posted') = Append(Tail(posted), h) /\ Tail(posted) \in Seq(Handler)
    BY <1>2, HeadTailProperties, AppendProperties
  <2> QED
    BY <2>1, <2>2 DEF Pending
<1> QED
  BY <1>1, <1>2

LEMMA FlowInvKept ==
  ASSUME UdpInv, FlowInv, [Next]_vars
  PROVE  FlowInv' /\ (sock = "closed" => sock' = "closed")
<1>0. /\ TypeOK /\ posted \in Seq(Handler) /\ accepted \in Seq(Data) /\ given \in Seq(Data)
      /\ StartFirst /\ NothingYet /\ sock \in {"open", "closed"}
  BY DEF UdpInv, TypeOK, BaseTypeOK
<1>1. sock' = sock \/ StopRelay
  BY NextCases, AsideLeaves
     DEF RunStart, RunSend, SenderStep, SenderEnters, SenderResumes, SenderCatches,
         SendCompletes, SendSucceeds, SendFails, udpVars
<1>2. SUFFICES ASSUME sock' = "open"
               PROVE  state' # "STOP" /\ Carries(Pending', accepted', given')
  BY <1>0, <1>1 DEF FlowInv, StopRelay
<1>3. sock = "open" /\ ~ StopRelay /\ state # "STOP" /\ Carries(Pending, accepted, given)
  BY <1>0, <1>1, <1>2 DEF FlowInv, StopRelay
<1>4. CASE RunStart
  <2>1. Tail(posted) = Pending /\ posted' = Tail(posted) /\ posted # <<>>
    BY <1>4 DEF RunStart, Pending
  <2>2. posted' # <<>> => Head(posted').run # "init"
    BY <1>0, <2>1, PostedStart
  <2> QED
    BY <1>3, <1>4, <2>1, <2>2 DEF RunStart, Pending
<1>5. CASE RunSend
  <2>1. /\ posted # <<>> /\ Head(posted).run = "send" /\ posted' = Tail(posted)
        /\ accepted' = Append(accepted, Head(posted).buf) /\ given' = given
        /\ state' = state
    BY <1>3, <1>5 DEF RunSend, SendData
  <2>2. Pending = posted /\ Head(posted).buf \in Data
    BY <1>0, <2>1, QueuePops, HandlerTypes DEF Pending
  <2>3. posted' # <<>> => Head(posted').run # "init"
    BY <1>0, <2>1, PostedStart
  <2>4. Pending' = Tail(posted)
    BY <2>1, <2>3 DEF Pending
  <2>5. Carries(Tail(posted), Append(accepted, Head(posted).buf), given)
    BY <1>0, <1>3, <2>1, <2>2, CarriesAccepted
  <2> QED
    BY <1>3, <2>1, <2>4, <2>5
<1>6. CASE SenderStep \/ SendCompletes
  <2>1. UNCHANGED <<posted, given, accepted>>
    BY <1>6 DEF SenderStep, SenderEnters, SenderResumes, SenderCatches, EnterSend,
                ResumeSend, SendCompletes, SendSucceeds, SendFails, udpVars
  <2>2. state' # "STOP"
    BY <1>3, <1>6 DEF SenderStep, SenderEnters, SenderResumes, SenderCatches, EnterSend,
                      ResumeSend, SendLoop, SendCompletes, SendSucceeds, SendFails
  <2> QED
    BY <1>3, <2>1, <2>2 DEF Pending
<1>7. ASSUME NEW d \in Data, ManagerCreates(d)
      PROVE  state' # "STOP" /\ Carries(Pending', accepted', given')
  <2>1. posted' = <<Start, Send(d)>> /\ given' = <<d>> /\ accepted' = <<>> /\ state' = state
    BY <1>0, <1>7 DEF ManagerCreates, NothingYet, baseVars
  <2>2. Pending' = <<Send(d)>>
    BY <2>1, HandlerTypes DEF Pending
  <2>3. Carries(<<Send(d)>>, <<>>, <<d>>)
    BY HandlerTypes DEF Carries, OnlySends
  <2> QED
    BY <1>3, <2>1, <2>2, <2>3
<1>8. ASSUME NEW d \in Data, ManagerData(d)
      PROVE  state' # "STOP" /\ Carries(Pending', accepted', given')
  <2>1. /\ posted' = Append(posted, Send(d)) /\ given' = Append(given, d)
        /\ accepted' = accepted /\ state' = state
    BY <1>3, <1>8 DEF ManagerData, baseVars
  <2>2. Send(d) \in Handler /\ Send(d).run = "send" /\ Send(d).buf = d
    BY HandlerTypes
  <2>3. Pending \in Seq(Handler) /\ Pending' = Append(Pending, Send(d))
    BY <1>0, <2>1, <2>2, PendingGrows
  <2>4. Carries(Append(Pending, Send(d)), accepted, Append(given, d))
    BY <1>0, <1>3, <2>2, <2>3, CarriesGiven
  <2> QED
    BY <1>3, <2>1, <2>3, <2>4
<1>9. CASE posted' = Append(posted, Stop) /\ UNCHANGED <<accepted, given, state>>
  <2>1. Stop \in Handler /\ Stop.run # "send" /\ Stop.run # "init"
    BY HandlerTypes
  <2>2. Pending \in Seq(Handler) /\ Pending' = Append(Pending, Stop)
    BY <1>0, <1>9, <2>1, PendingGrows
  <2>3. Carries(Append(Pending, Stop), accepted, given)
    BY <1>0, <1>3, <2>1, <2>2, CarriesStop
  <2> QED
    BY <1>3, <1>9, <2>2, <2>3
<1>10. CASE UNCHANGED <<posted, accepted, given, state>>
  BY <1>3, <1>10 DEF Pending
<1>11. CASE RunStop \/ ReceiverStep \/ ManagerStop \/ TimerStep \/ UNCHANGED vars
  BY <1>3, <1>9, <1>10, <1>11
     DEF RunStop, ReceiverStep, ReceiverEnters, ReceiverResumes, ReceiverCatches,
         ReceiveSucceeds, ReceiveFails, ManagerStop, TimerStep, TimerLoads, TimerStores,
         TimerReturns, baseVars, udpVars, vars
<1> QED
  BY <1>4, <1>5, <1>6, <1>7, <1>8, <1>11, NextCases DEF Aside, ManagerStep

IInv == UdpInv /\ WireInv /\ FlowInv

LEMMA IInvInit == Init => IInv /\ Pipe!Init
<1> SUFFICES ASSUME Init PROVE IInv /\ Pipe!Init
  OBVIOUS
<1>1. /\ coros = <<>> /\ bufs = <<>> /\ accepted = <<>> /\ posted = <<>>
      /\ given = <<>> /\ wire = <<>> /\ sock = "open" /\ state = "UNINIT"
  BY DEF Init, BaseInit
<1>2. Len(<<>>) = 0 /\ DOMAIN coros = {}
  BY <1>1, EmptySeq, LenProperties
<1>3. WireInv
  BY <1>1, <1>2 DEF WireInv, QueueIsSuffix, IsWritten, WrittenLen, Popped
<1>4. FlowInv
  BY <1>1, <1>2 DEF FlowInv, Pending, Carries
<1> QED
  BY <1>1, <1>3, <1>4, UdpInvInit DEF IInv, Pipe!Init

LEMMA IInvNext == IInv /\ [Next]_vars => IInv'
<1> SUFFICES ASSUME IInv, [Next]_vars PROVE IInv'
  OBVIOUS
<1> QED
  BY UdpInvNext, WireInvKept, FlowInvKept DEF IInv

(* What is sent next has been handed over: it was accepted, and the socket *)
(* is open.                                                                *)
LEMMA SendEmits ==
  ASSUME IInv, NEW i \in DOMAIN coros, SendSucceeds(i)
  PROVE  Pipe!Emit
<1>0. /\ BaseTypeOK /\ OneWriter /\ QueueIsSuffix /\ Len(wire) = WrittenLen
      /\ Len(given) \in Nat /\ sock = "open"
  BY LenProperties
     DEF IInv, UdpInv, TypeOK, SenderInv, WriterInv, WireInv, IsWritten, SendSucceeds
<1>1. /\ WrittenLen' = WrittenLen + 1 /\ WrittenLen' <= Len(accepted)
      /\ coros[i].buf = accepted[WrittenLen + 1]
  BY <1>0, WriteSucceedsStream DEF SendSucceeds
<1>2. /\ Len(accepted) <= Len(given)
      /\ \A k \in 1 .. Len(accepted) : accepted[k] = given[k]
  BY <1>0 DEF IInv, FlowInv, Carries
<1>3. WrittenLen \in Nat /\ Len(accepted) \in Nat
  BY <1>0, WrittenWasAccepted, BaseLengths
<1>4. Len(wire) < Len(given) /\ Len(wire) + 1 \in 1 .. Len(accepted)
  BY <1>0, <1>1, <1>2, <1>3
<1>5. coros[i].buf = given[Len(wire) + 1]
  BY <1>0, <1>1, <1>2, <1>4
<1> QED
  BY <1>0, <1>4, <1>5 DEF SendSucceeds, Pipe!Emit

LEMMA StepImplementsPipe ==
  ASSUME IInv, [Next]_vars
  PROVE  [Pipe!Next]_Pipe!vars
<1>0. /\ sock = "closed" => sock' = "closed"
      /\ NothingYet /\ sock \in {"open", "closed"} /\ sock' \in {"open", "closed"}
  BY FlowInvKept, TypeKept DEF IInv, UdpInv, TypeOK
<1>1. CASE UNCHANGED <<given, wire>>
  <2>1. CASE sock' = "closed"
    BY <1>1, <2>1 DEF Pipe!Next, Pipe!Close
  <2>2. CASE sock' # "closed"
    BY <1>0, <1>1, <2>2 DEF Pipe!vars
  <2> QED
    BY <2>1, <2>2
<1>2. CASE SendCompletes /\ ~ UNCHANGED <<given, wire>>
  BY <1>2, SendEmits DEF SendCompletes, SendFails, udpVars, Pipe!Next
<1>3. ASSUME NEW d \in Data, ManagerCreates(d) PROVE Pipe!Next
  <2>1. given' = Append(given, d)
    BY <1>0, <1>3 DEF ManagerCreates, NothingYet
  <2> QED
    BY <1>3, <2>1 DEF ManagerCreates, Pipe!Next, Pipe!Accept
<1>4. ASSUME NEW d \in Data, ManagerData(d), ~ UNCHANGED <<given, wire>> PROVE Pipe!Next
  BY <1>4 DEF ManagerData, Pipe!Next, Pipe!Accept
<1>5. ASSUME ~ SendCompletes, \A d \in Data : ~ ManagerCreates(d) /\ ~ ManagerData(d)
      PROVE  UNCHANGED <<given, wire>>
  BY <1>5, NextCases
     DEF RunStart, RunSend, SenderStep, SenderEnters, SenderResumes, SenderCatches, Aside,
         RunStop, ReceiverStep, ReceiverEnters, ReceiverResumes, ReceiverCatches,
         ReceiveSucceeds, ReceiveFails, ManagerStep, ManagerStop, TimerStep, TimerLoads,
         TimerStores, TimerReturns, udpVars, vars
<1> QED
  BY <1>1, <1>2, <1>3, <1>4, <1>5

(* The relay of a udp session implements OrderedPipe: the datagrams handed *)
(* to it leave in order, once each, and none after its socket is closed,   *)
(* even when RELAY_INIT overwrites the RELAY_STOP that closed it.          *)
(* (base_relay.cpp:29-71, raw_udp.cpp:97-116 and 177-189)                  *)
THEOREM RemoteUdpImplementsPipe == Spec => ImplementsPipe
<1>1. IInv /\ [Next]_vars => [Pipe!Next]_Pipe!vars
  BY StepImplementsPipe
<1> QED
  BY <1>1, IInvInit, IInvNext, PTL DEF Spec, ImplementsPipe, Pipe!Spec
=============================================================================
