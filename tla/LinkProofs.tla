------------------------------ MODULE LinkProofs ------------------------------
(***************************************************************************)
(* Theorems about a link.  SslRelay: one coroutine writes on it at a time, *)
(* no request is left behind or skipped, and it implements OrderedPipe,    *)
(* however its start, its reader and its stops interleave.  RemoteServer:  *)
(* the process that accepts it keeps a manager for it while it serves.     *)
(* Requests: the destinations and datagrams that cross it are those the    *)
(* client asked and sent.                                                  *)
(***************************************************************************)
EXTENDS SslRelay, RemoteServer, Requests, BaseRelayProofs

(* The steps of the send coroutines, of the handlers of send_data, and all *)
(* others.                                                                 *)
WriteCompletes == \E i \in DOMAIN coros : WriteSucceeds(i) \/ WriteFails(i)

StartOrStop ==
  \/ StarterResolves \/ StarterConnects \/ StarterShakes \/ StarterCatches
  \/ ResolveCompletes \/ ConnectCompletes \/ HandshakeSucceeds \/ HandshakeFails
  \/ StopEnters \/ StopCloses

ReadOrManage ==
  \/ ReaderStep \/ ReadSucceeds \/ ReadFails \/ TimerStep
  \/ \E d \in Data : ManagerRequest(d)

LEMMA NextCases ==
  ASSUME [Next]_vars
  PROVE  \/ StartOrStop \/ StarterServes \/ RunSend \/ SenderStep \/ WriteCompletes
         \/ ReadOrManage \/ UNCHANGED vars
BY DEF Next, StarterStep, StartOrStop, WriteCompletes, ReadOrManage

-----------------------------------------------------------------------------
(* Types.                                                                  *)
LEMMA StopsTypes ==
  ASSUME TypeOK
  PROVE  /\ StopRelay => /\ stops' \in [spawned : Nat, waiting : Nat]
                         /\ stops'.spawned # 0
         /\ stops.spawned > 0 =>
              [spawned |-> stops.spawned - 1, waiting |-> stops.waiting + 1]
                \in [spawned : Nat, waiting : Nat]
         /\ stops.waiting > 0 =>
              /\ [stops EXCEPT !.waiting = @ - 1] \in [spawned : Nat, waiting : Nat]
              /\ [stops EXCEPT !.waiting = @ - 1].spawned = stops.spawned
<1>1. /\ stops \in [spawned : Nat, waiting : Nat]
      /\ stops.spawned \in Nat /\ stops.waiting \in Nat
  BY DEF TypeOK
<1>2. ASSUME StopRelay
      PROVE  stops' \in [spawned : Nat, waiting : Nat] /\ stops'.spawned # 0
  <2>1. stops' = [stops EXCEPT !.spawned = stops.spawned + 1]
    BY <1>2 DEF StopRelay
  <2> QED
    BY <1>1, <2>1
<1>3. ASSUME stops.waiting > 0
      PROVE  /\ [stops EXCEPT !.waiting = @ - 1] \in [spawned : Nat, waiting : Nat]
             /\ [stops EXCEPT !.waiting = @ - 1].spawned = stops.spawned
  BY <1>1, <1>3
<1> QED
  BY <1>1, <1>2, <1>3

LEMMA StartOrStopTypes ==
  ASSUME TypeOK, StartOrStop
  PROVE  TypeOK'
<1> USE DEF TypeOK, BaseTypeOK
<1>1. CASE StarterResolves \/ StarterShakes \/ ResolveCompletes
  BY <1>1 DEF StarterResolves, StarterShakes, ResolveCompletes, baseVars
<1>6. CASE StarterConnects
  <2>1. missed' \in BOOLEAN
    BY <1>6 DEF StarterConnects
  <2> QED
    BY <1>6, <2>1 DEF StarterConnects, baseVars
<1>2. CASE ConnectCompletes \/ HandshakeSucceeds \/ HandshakeFails
  BY <1>2 DEF ConnectCompletes, HandshakeSucceeds, HandshakeFails, baseVars
<1>3. CASE StarterCatches
  BY <1>3, StopsTypes DEF StarterCatches, baseVars
<1>4. CASE StopEnters
  BY <1>4, StopsTypes DEF StopEnters, RelayState
<1>5. CASE StopCloses
  BY <1>5, StopsTypes DEF StopCloses, baseVars
<1> QED
  BY <1>1, <1>2, <1>3, <1>4, <1>5, <1>6 DEF StartOrStop

(* A chunk that has been read is one more than those passed on, and counts *)
(* in the bound.                                                           *)
ReadFits == reader = "got" => passed < MaxReads

LEMMA ReadOrManageTypes ==
  ASSUME TypeOK, ReadFits, ReadOrManage
  PROVE  TypeOK'
<1> USE DEF TypeOK, BaseTypeOK
<1>1. CASE ReaderEnters \/ ReadSucceeds \/ ReadFails
  BY <1>1 DEF ReaderEnters, ReadSucceeds, ReadFails, baseVars
<1>2. CASE ReaderResumes
  <2>1. timeout' \in 0 .. TIMEOUT /\ reader' \in {"reading", "done"}
    BY <1>2, BaseAssumption DEF ReaderResumes
  <2>2. passed' \in 0 .. MaxReads
    BY <1>2, SslAssumption DEF ReaderResumes, ReadFits
  <2> QED
    BY <1>2, <2>1, <2>2 DEF ReaderResumes
<1>3. CASE ReaderCatches
  BY <1>3, StopsTypes DEF ReaderCatches, baseVars
<1>4. CASE TimerStep
  <2>1. down' \in Down /\ timeout' \in 0 .. TIMEOUT
    BY <1>4, TimerTypes DEF TimerStep, TimerLoads, TimerStores, TimerReturns
  <2>2. stops' \in [spawned : Nat, waiting : Nat]
    BY <1>4, StopsTypes DEF TimerStep, TimerLoads, TimerStores, TimerReturns, sslVars
  <2>3. manager' \in {"holds", "replaced", "stopped"}
    BY <1>4 DEF TimerStep, TimerLoads, TimerStores, TimerReturns, Idle, sslVars
  <2> QED
    BY <1>4, <2>1, <2>2, <2>3
       DEF TimerStep, TimerLoads, TimerStores, TimerReturns, sslVars
<1>5. ASSUME NEW d \in Data, ManagerRequest(d) PROVE TypeOK'
  <2>1. Append(posted, d) \in Seq(Data) /\ Append(given, d) \in Seq(Data)
    BY AppendProperties
  <2>2. /\ posted' \in Seq(Data) /\ given' \in Seq(Data)
        /\ manager' \in {"holds", "replaced", "stopped"}
    BY <1>5, <2>1 DEF ManagerRequest
  <2> QED
    BY <1>5, <2>2 DEF ManagerRequest, baseVars
<1> QED
  BY <1>1, <1>2, <1>3, <1>4, <1>5 DEF ReadOrManage, ReaderStep

LEMMA SenderTypes ==
  ASSUME TypeOK, WriterInv, RunSend \/ SenderStep \/ WriteCompletes
  PROVE  TypeOK'
<1>0. BaseTypeOK /\ OneWriter
  BY DEF TypeOK, WriterInv
<1>1. CASE RunSend
  <2>1. Head(posted) \in Data /\ posted' \in Seq(Data)
    BY <1>1, HeadTailProperties DEF RunSend, TypeOK
  <2>2. BaseTypeOK'
    BY <1>0, <1>1, <2>1, SendDataTypes DEF RunSend
  <2> QED
    BY <1>1, <2>1, <2>2 DEF RunSend, TypeOK
<1>2. ASSUME NEW i \in DOMAIN coros, SenderSteps(i) PROVE TypeOK'
  <2>1. BaseTypeOK'
    BY <1>0, <1>2, EnterSendTypes, ResumeSendTypes DEF SenderSteps
  <2>2. late' \in BOOLEAN
    BY <1>2 DEF SenderSteps, TypeOK
  <2> QED
    BY <1>2, <2>1, <2>2 DEF SenderSteps, TypeOK
<1>3. ASSUME NEW i \in DOMAIN coros, SenderCatches(i) PROVE TypeOK'
  <2>1. coros' \in Seq(Frame)
    BY <1>0, <1>3, FrameReturns DEF SenderCatches
  <2> QED
    BY <1>3, <2>1, StopsTypes DEF SenderCatches, TypeOK, BaseTypeOK
<1>4. ASSUME NEW i \in DOMAIN coros, WriteSucceeds(i) PROVE TypeOK'
  <2>1. coros' \in Seq(Frame)
    BY <1>0, <1>4, WriteEnds DEF WriteSucceeds
  <2>2. coros[i].buf \in Data
    BY <1>0, <1>4, HeadTailProperties DEF WriteSucceeds, OneWriter, Suspended, BaseTypeOK
  <2>3. wire' \in Seq(Data)
    BY <1>4, <2>2, AppendProperties DEF WriteSucceeds, TypeOK
  <2> QED
    BY <1>4, <2>1, <2>3 DEF WriteSucceeds, TypeOK, BaseTypeOK
<1>5. ASSUME NEW i \in DOMAIN coros, WriteFails(i) PROVE TypeOK'
  <2>1. coros' \in Seq(Frame)
    BY <1>0, <1>5, WriteEnds DEF WriteFails
  <2> QED
    BY <1>5, <2>1 DEF WriteFails, TypeOK, BaseTypeOK, sslVars
<1> QED
  BY <1>1, <1>2, <1>3, <1>4, <1>5 DEF SenderStep, WriteCompletes

-----------------------------------------------------------------------------
(* The first send coroutine is spawned when the start is done, and nothing *)
(* is written before.                                                      *)
NotServed == starter # "done" => coros = <<>>

(* A link that serves and whose stream is secure has not been stopped: the *)
(* stop shuts the stream down, and no second handshake comes.              *)
SecureIsLive == coros # <<>> /\ sock = "secure" => state # "STOP"

SslInv ==
  /\ TypeOK /\ ReadFits
  /\ WriterInv /\ NoLostWakeupBeforeStop
  /\ NotServed /\ SecureIsLive

LEMMA NoFrameSteps ==
  ASSUME coros = <<>>
  PROVE  ~ SenderStep /\ ~ WriteCompletes
<1>1. DOMAIN coros = {}
  OBVIOUS
<1> QED
  BY <1>1 DEF SenderStep, WriteCompletes

LEMMA SslSenderKept ==
  ASSUME SslInv, [Next]_vars
  PROVE  WriterInv' /\ NoLostWakeupBeforeStop'
<1>0. BaseTypeOK /\ TypeOK /\ WriterInv /\ NoLostWakeupBeforeStop /\ NotServed
  BY DEF SslInv, TypeOK
<1>1. CASE StarterServes
  <2>1. coros = <<>>
    BY <1>0, <1>1 DEF StarterServes, NotServed
  <2> QED
    BY <1>0, <1>1, <2>1, StartSender DEF StarterServes, SenderInv, NoLostWakeupBeforeStop
<1>2. ASSUME NEW i \in DOMAIN coros, SenderCatches(i)
      PROVE  WriterInv' /\ NoLostWakeupBeforeStop'
  <2>1. WriterInv'
    BY <1>0, <1>2, CaughtSender DEF SenderCatches
  <2>2. stops'.spawned # 0
    BY <1>0, <1>2, StopsTypes DEF SenderCatches
  <2> QED
    BY <2>1, <2>2 DEF NoLostWakeupBeforeStop
<1>3. CASE StopEnters
  <2>1. WriterInv'
    BY <1>0, <1>3, SenderUntouched DEF StopEnters, SenderKept
  <2>2. NoLostWakeup'
    BY <1>3 DEF StopEnters, NoLostWakeup
  <2> QED
    BY <2>1, <2>2 DEF NoLostWakeupBeforeStop
<1>4. CASE SenderKept /\ (stops'.spawned = 0 => stops.spawned = 0)
  BY <1>0, <1>4 DEF SenderKept, NoLostWakeupBeforeStop
<1>5. CASE RunSend
  <2>1. Head(posted) \in Data
    BY <1>0, <1>5, HeadTailProperties DEF RunSend, TypeOK
  <2> QED
    BY <1>0, <1>4, <1>5, <2>1, SendDataSender DEF RunSend
<1>6. ASSUME NEW i \in DOMAIN coros, SenderSteps(i)
      PROVE  WriterInv' /\ NoLostWakeupBeforeStop'
  BY <1>0, <1>4, <1>6, EnterSendSender, ResumeSendSender DEF SenderSteps
<1>7. CASE WriteCompletes
  <2>1. ASSUME NEW i \in DOMAIN coros, WriteSucceeds(i)
        PROVE  SenderKept /\ stops' = stops
    BY <1>0, <2>1, WriteEndsSender DEF WriteSucceeds
  <2>2. ASSUME NEW i \in DOMAIN coros, WriteFails(i)
        PROVE  SenderKept /\ stops' = stops
    BY <1>0, <2>2, WriteEndsSender DEF WriteFails, sslVars
  <2> QED
    BY <1>4, <1>7, <2>1, <2>2 DEF WriteCompletes
<1>8. CASE (StartOrStop /\ ~ StopEnters) \/ ReadOrManage \/ UNCHANGED vars
  <2>1. UNCHANGED <<bufs, coros, state>>
    BY <1>8 DEF StartOrStop, StarterResolves, StarterConnects, StarterShakes, StarterCatches,
                ResolveCompletes, ConnectCompletes, HandshakeSucceeds, HandshakeFails,
                StopCloses, ReadOrManage, ReaderStep, ReaderEnters, ReaderResumes,
                ReaderCatches, ReadSucceeds, ReadFails, TimerStep, TimerLoads, TimerStores,
                TimerReturns, ManagerRequest, baseVars, vars
  <2>2. SenderKept
    BY <1>0, <2>1, SenderUntouched
  <2>3. StopRelay \/ StopCloses \/ stops' = stops
    BY <1>8 DEF StartOrStop, StarterResolves, StarterConnects, StarterShakes, StarterCatches,
                ResolveCompletes, ConnectCompletes, HandshakeSucceeds, HandshakeFails,
                StopCloses, ReadOrManage, ReaderStep, ReaderEnters, ReaderResumes,
                ReaderCatches, ReadSucceeds, ReadFails, TimerStep, TimerLoads, TimerStores,
                TimerReturns, ManagerRequest, sslVars, vars
  <2>4. StopCloses => stops'.spawned = stops.spawned
    BY <1>0, StopsTypes DEF StopCloses
  <2> QED
    BY <1>0, <1>4, <2>2, <2>3, <2>4, StopsTypes
<1> QED
  BY <1>1, <1>2, <1>3, <1>5, <1>6, <1>7, <1>8, NextCases DEF SenderStep

(* A link that has a send coroutine keeps one.                             *)
LEMMA FramesStay ==
  ASSUME SslInv, [Next]_vars, coros # <<>>
  PROVE  coros' # <<>>
<1>0. BaseTypeOK /\ OneWriter
  BY DEF SslInv, TypeOK, WriterInv
<1>1. Append(coros, Spawned) # <<>>
  BY <1>0, FrameTypes, AppendProperties DEF BaseTypeOK
<1>2. CASE StarterServes \/ RunSend
  BY <1>1, <1>2 DEF StarterServes, RunSend, SendData, StartSend
<1>3. ASSUME NEW i \in DOMAIN coros, SenderSteps(i) \/ SenderCatches(i)
      PROVE  coros' # <<>>
  BY <1>0, <1>3, StepSetsFrame DEF SenderSteps, SenderCatches
<1>4. ASSUME NEW i \in DOMAIN coros, WriteSucceeds(i) \/ WriteFails(i)
      PROVE  coros' # <<>>
  BY <1>0, <1>4, WriteEndsFrame DEF WriteSucceeds, WriteFails
<1>5. CASE StartOrStop \/ ReadOrManage \/ UNCHANGED vars
  BY <1>5 DEF StartOrStop, StarterResolves, StarterConnects, StarterShakes, StarterCatches,
              ResolveCompletes, ConnectCompletes, HandshakeSucceeds, HandshakeFails,
              StopEnters, StopCloses, ReadOrManage, ReaderStep, ReaderEnters, ReaderResumes,
              ReaderCatches, ReadSucceeds, ReadFails, TimerStep, TimerLoads, TimerStores,
              TimerReturns, ManagerRequest, baseVars, vars
<1> QED
  BY <1>2, <1>3, <1>4, <1>5, NextCases DEF SenderStep, WriteCompletes

(* The start's last step is the one that ends the wait for a coroutine.    *)
LEMMA SslTypeKept ==
  ASSUME SslInv, [Next]_vars
  PROVE  TypeOK' /\ ReadFits'
<1>0. TypeOK /\ ReadFits /\ WriterInv /\ NotServed
  BY DEF SslInv
<1>1. TypeOK'
  <2>1. CASE StarterServes
    <3>1. coros = <<>>
      BY <1>0, <2>1 DEF StarterServes, NotServed
    <3>2. coros' \in Seq(Frame)
      BY <1>0, <2>1, <3>1, StartSender DEF StarterServes, TypeOK
    <3>3. missed' \in BOOLEAN
      BY <1>0, <2>1 DEF StarterServes, TypeOK
    <3> QED
      BY <1>0, <2>1, <3>2, <3>3 DEF StarterServes, TypeOK, BaseTypeOK, RelayState
  <2>2. CASE UNCHANGED vars
    BY <1>0, <2>2 DEF TypeOK, BaseTypeOK, vars, baseVars, sslVars
  <2> QED
    BY <1>0, <2>1, <2>2, NextCases, StartOrStopTypes, ReadOrManageTypes, SenderTypes
<1>2. ReadFits'
  <2>1. CASE ReadOrManage
    BY <1>0, <2>1 DEF ReadFits, ReadOrManage, ReaderStep, ReaderEnters, ReaderResumes,
                ReaderCatches, ReadSucceeds, ReadFails, TimerStep, TimerLoads, TimerStores,
                TimerReturns, ManagerRequest, sslVars
  <2>2. CASE StarterServes
    BY <2>2 DEF ReadFits, StarterServes
  <2>3. CASE StartOrStop \/ RunSend \/ SenderStep \/ WriteCompletes \/ UNCHANGED vars
    <3>1. UNCHANGED <<reader, passed>>
      BY <2>3 DEF StartOrStop, StarterResolves, StarterConnects, StarterShakes,
                  StarterCatches, ResolveCompletes, ConnectCompletes, HandshakeSucceeds,
                  HandshakeFails, StopEnters, StopCloses, RunSend, SenderStep, SenderSteps,
                  SenderCatches, WriteCompletes, WriteSucceeds, WriteFails, vars, sslVars
    <3> QED
      BY <1>0, <3>1 DEF ReadFits
  <2> QED
    BY <2>1, <2>2, <2>3, NextCases
<1> QED
  BY <1>1, <1>2

(* Only the start makes the first coroutine, and its last step is behind   *)
(* it when a secure stream serves; a stop shuts that stream down.          *)
LEMMA ServedKept ==
  ASSUME SslInv, [Next]_vars
  PROVE  NotServed' /\ SecureIsLive'
<1>0. WriterInv /\ NotServed /\ SecureIsLive
  BY DEF SslInv
<1>1. CASE StarterServes
  BY <1>1 DEF StarterServes, NotServed, SecureIsLive
<1>2. CASE StartOrStop
  <2>1. coros' = coros /\ (starter' # "done" => starter # "done")
    BY <1>2 DEF StartOrStop, StarterResolves, StarterConnects, StarterShakes, StarterCatches,
                ResolveCompletes, ConnectCompletes, HandshakeSucceeds, HandshakeFails,
                StopEnters, StopCloses, baseVars
  <2>2. starter # "done" \/ StopEnters \/ StopCloses
    BY <1>2 DEF StartOrStop, StarterResolves, StarterConnects, StarterShakes, StarterCatches,
                ResolveCompletes, ConnectCompletes, HandshakeSucceeds, HandshakeFails
  <2>3. CASE StopEnters \/ StopCloses
    BY <1>0, <2>1, <2>3 DEF NotServed, SecureIsLive, StopEnters, StopCloses, baseVars
  <2> QED
    BY <1>0, <2>1, <2>2, <2>3 DEF NotServed, SecureIsLive
<1>3. CASE RunSend \/ SenderStep \/ WriteCompletes \/ ReadOrManage \/ UNCHANGED vars
  <2>1. UNCHANGED <<starter, sock>>
    BY <1>3 DEF RunSend, SenderStep, SenderSteps, SenderCatches, WriteCompletes,
                WriteSucceeds, WriteFails, ReadOrManage, ReaderStep, ReaderEnters,
                ReaderResumes, ReaderCatches, ReadSucceeds, ReadFails, TimerStep, TimerLoads,
                TimerStores, TimerReturns, ManagerRequest, vars, sslVars
  <2>2. coros = <<>> => coros' = <<>>
    BY <1>0, <1>3, NoFrameSteps, SendDataSpawnsNone
       DEF RunSend, ReadOrManage, ReaderStep, ReaderEnters,
           ReaderResumes, ReaderCatches, ReadSucceeds, ReadFails, TimerStep, TimerLoads,
           TimerStores, TimerReturns, ManagerRequest, vars, baseVars
  <2>3. state' = "STOP" => state = "STOP"
    BY <1>3 DEF RunSend, SendData, SenderStep, SenderSteps, EnterSend, ResumeSend, SendLoop,
                SenderCatches, WriteCompletes,
                WriteSucceeds, WriteFails, ReadOrManage, ReaderStep, ReaderEnters,
                ReaderResumes, ReaderCatches, ReadSucceeds, ReadFails, TimerStep, TimerLoads,
                TimerStores, TimerReturns, ManagerRequest, vars, baseVars
  <2> QED
    BY <1>0, <2>1, <2>2, <2>3 DEF NotServed, SecureIsLive
<1> QED
  BY <1>1, <1>2, <1>3, NextCases

LEMMA SslInvInit == Init => SslInv
<1> SUFFICES ASSUME Init PROVE SslInv
  OBVIOUS
<1>1. coros = <<>> /\ bufs = <<>> /\ state = "UNINIT" /\ DOMAIN coros = {}
  BY EmptySeq, LenProperties DEF Init, BaseInit
<1>2. BaseTypeOK
  BY EmptySeq, BaseAssumption, DownTypes DEF Init, BaseInit, BaseTypeOK, RelayState
<1>3. TypeOK
  <2>1. posted \in Seq(Data) /\ given \in Seq(Data) /\ wire \in Seq(Data)
    BY EmptySeq DEF Init
  <2>2. passed \in 0 .. MaxReads /\ stops \in [spawned : Nat, waiting : Nat]
    BY SslAssumption DEF Init
  <2>3. sock \in {"unopened", "open"}
    BY DEF Init
  <2> QED
    BY <1>2, <2>1, <2>2, <2>3 DEF Init, TypeOK
<1>4. WriterInv /\ NoLostWakeup
  BY <1>1 DEF WriterInv, OneWriter, BusyIsNotInit, NoneBeforeStart, NoLostWakeup
<1> QED
  BY <1>1, <1>3, <1>4
     DEF Init, SslInv, ReadFits, NoLostWakeupBeforeStop, NotServed, SecureIsLive

LEMMA SslInvNext ==
  ASSUME SslInv, [Next]_vars
  PROVE  SslInv'
BY SslTypeKept, SslSenderKept, ServedKept DEF SslInv

-----------------------------------------------------------------------------
(* What has been written is what send_data has accepted, as far as the     *)
(* coroutine has got, and nothing before there is a coroutine.             *)
WireInv == QueueIsSuffix /\ IsWritten(wire) /\ (coros = <<>> => wire = <<>>)

(* A step that writes nothing.                                             *)
LEMMA WireKept ==
  ASSUME SslInv, [Next]_vars, WireInv, QueueIsSuffix', WrittenLen' = WrittenLen, wire' = wire,
         accepted' = accepted \/ \E d \in Data : accepted' = Append(accepted, d)
  PROVE  WireInv'
<1>1. BaseTypeOK /\ OneWriter
  BY DEF SslInv, TypeOK, WriterInv
<1>2. /\ Len(wire) = WrittenLen'
      /\ \A k \in 1 .. Len(wire) : wire[k] = accepted'[k]
  BY <1>1, RecordKept DEF WireInv
<1>3. coros' = <<>> => wire' = <<>>
  BY FramesStay DEF WireInv
<1> QED
  BY <1>2, <1>3 DEF WireInv, IsWritten

LEMMA WirePreserved ==
  ASSUME SslInv, WireInv, [Next]_vars
  PROVE  WireInv'
<1>0. BaseTypeOK /\ OneWriter /\ QueueIsSuffix
  BY DEF SslInv, TypeOK, WriterInv, WireInv
<1>1. CASE RunSend
  <2>1. Head(posted) \in Data /\ SendData(Head(posted)) /\ wire' = wire
    BY <1>1, HeadTailProperties DEF RunSend, SslInv, TypeOK
  <2>2. /\ QueueIsSuffix' /\ WrittenLen' = WrittenLen
        /\ accepted' = accepted \/ accepted' = Append(accepted, Head(posted))
    BY <1>0, <2>1, SendDataStream
  <2> QED
    BY <2>1, <2>2, WireKept
<1>2. ASSUME NEW i \in DOMAIN coros, SenderSteps(i) PROVE WireInv'
  <2>1. CASE EnterSend(i)
    BY <1>0, <1>2, <2>1, EnterSendStream, WireKept DEF SenderSteps, EnterSend
  <2>2. CASE ResumeSend(i)
    BY <1>0, <1>2, <2>2, ResumeSendStream, WireKept DEF SenderSteps, ResumeSend
  <2> QED
    BY <1>2, <2>1, <2>2 DEF SenderSteps
<1>3. ASSUME NEW i \in DOMAIN coros, SenderCatches(i) PROVE WireInv'
  BY <1>0, <1>3, CaughtStream, WireKept DEF SenderCatches
<1>4. ASSUME NEW i \in DOMAIN coros, WriteFails(i) PROVE WireInv'
  BY <1>0, <1>4, WriteFailsStream, WireKept DEF WriteFails, sslVars
<1>5. ASSUME NEW i \in DOMAIN coros, WriteSucceeds(i) PROVE WireInv'
  <2> DEFINE b == coros[i].buf
  <2>1. /\ QueueIsSuffix' /\ WrittenLen' = WrittenLen + 1
        /\ b \in Data /\ b = accepted[WrittenLen + 1]
    BY <1>0, <1>5, WriteSucceedsStream DEF WriteSucceeds
  <2>2. wire' = Append(wire, b) /\ wire \in Seq(Data) /\ accepted' = accepted
    BY <1>5 DEF WriteSucceeds, SslInv, TypeOK
  <2>3. /\ Len(wire') = WrittenLen'
        /\ \A k \in 1 .. Len(wire') : wire'[k] = accepted'[k]
    BY <2>1, <2>2, RecordGrows DEF WireInv
  <2>4. coros' # <<>>
    BY <1>0, <1>5, WriteEndsFrame DEF WriteSucceeds
  <2> QED
    BY <2>1, <2>3, <2>4 DEF WireInv, IsWritten
<1>6. CASE StarterServes
  <2>1. QueueIsSuffix' /\ WrittenLen' = WrittenLen
    BY <1>0, <1>6, StartStream DEF StarterServes
  <2> QED
    BY <1>6, <2>1, WireKept DEF StarterServes
<1>7. CASE StartOrStop \/ ReadOrManage \/ UNCHANGED vars
  <2>1. UNCHANGED <<bufs, coros, accepted, wire>>
    BY <1>7
       DEF StartOrStop, StarterResolves, StarterConnects, StarterShakes, StarterCatches,
           ResolveCompletes, ConnectCompletes, HandshakeSucceeds, HandshakeFails,
           StopEnters, StopCloses, ReadOrManage, ReaderStep, ReaderEnters, ReaderResumes,
           ReaderCatches, ReadSucceeds, ReadFails, TimerStep, TimerLoads, TimerStores,
           TimerReturns, ManagerRequest, baseVars, vars, sslVars
  <2> QED
    BY <2>1 DEF WireInv, QueueIsSuffix, IsWritten, WrittenLen, Popped
<1> QED
  BY <1>1, <1>2, <1>3, <1>4, <1>5, <1>6, <1>7, NextCases DEF SenderStep, WriteCompletes

-----------------------------------------------------------------------------
(* While send_data takes what it is handed, the requests the manager has   *)
(* handed over are those accepted and, after them, those still posted.     *)
Joined == given = accepted \o posted

(* That is so before the start and while a secure stream serves.  A write  *)
(* begun on such a stream, which may complete after the stop, is of the    *)
(* request whose turn it is.                                               *)
WritesNext ==
  \A i \in DOMAIN coros : coros[i].pc = "writing" =>
    Len(wire) < Len(given) /\ given[Len(wire) + 1] = coros[i].buf
Clean ==
  /\ state = "UNINIT" => Joined
  /\ ~ missed => /\ coros # <<>> /\ sock = "secure" => Joined
                 /\ ~ late => WritesNext
                 /\ NoRequestSkipped

LEMMA JoinedGrows ==
  ASSUME TypeOK, Joined, NEW d \in Data
  PROVE  Append(given, d) = accepted \o Append(posted, d)
<1>1. posted \in Seq(Data) /\ accepted \in Seq(Data) /\ given \in Seq(Data)
  BY DEF TypeOK, BaseTypeOK
<1>2. Append(given, d) = given \o <<d>> /\ Append(posted, d) = posted \o <<d>>
  BY <1>1, QueueGrows
<1>3. <<d>> \in Seq(Data)
  OBVIOUS
<1> QED
  BY <1>1, <1>2, <1>3, ConcatAssociative DEF Joined

LEMMA JoinedMoves ==
  ASSUME TypeOK, Joined, posted # <<>>
  PROVE  given = Append(accepted, Head(posted)) \o Tail(posted)
<1> DEFINE d == Head(posted)
<1>1. posted \in Seq(Data) /\ accepted \in Seq(Data)
  BY DEF TypeOK, BaseTypeOK
<1>2. d \in Data /\ Tail(posted) \in Seq(Data) /\ <<d>> \in Seq(Data)
  BY <1>1, HeadTailProperties
<1>3. Append(accepted, d) = accepted \o <<d>>
  BY <1>1, <1>2, QueueGrows
<1>4. posted = <<d>> \o Tail(posted)
  BY <1>1, <1>2
<1> QED
  BY <1>1, <1>2, <1>3, <1>4, ConcatAssociative DEF Joined

(* What was accepted comes first among what was given.                     *)
LEMMA JoinedPrefix ==
  ASSUME TypeOK, Joined
  PROVE  /\ Len(accepted) <= Len(given)
         /\ \A k \in 1 .. Len(accepted) : given[k] = accepted[k]
<1>1. posted \in Seq(Data) /\ accepted \in Seq(Data)
  BY DEF TypeOK, BaseTypeOK
<1>2. Len(posted) \in Nat /\ Len(accepted) \in Nat
  BY <1>1, LenProperties
<1> QED
  BY <1>1, <1>2, ConcatProperties DEF Joined

(* Nothing comes between the manager and the queue unless the link is      *)
(* stopped.                                                                *)
LEMMA JoinedKept ==
  ASSUME SslInv, Joined, state # "STOP", [Next]_vars
  PROVE  Joined'
<1>0. TypeOK
  BY DEF SslInv
<1>1. CASE RunSend
  <2>1. posted # <<>> /\ posted' = Tail(posted) /\ given' = given
    BY <1>1 DEF RunSend
  <2>2. accepted' = Append(accepted, Head(posted))
    BY <1>1 DEF RunSend, SendData
  <2> QED
    BY <1>0, <2>1, <2>2, JoinedMoves DEF Joined
<1>2. ASSUME NEW d \in Data, ManagerRequest(d) PROVE Joined'
  <2>1. posted' = Append(posted, d) /\ given' = Append(given, d) /\ accepted' = accepted
    BY <1>2 DEF ManagerRequest, baseVars
  <2> QED
    BY <1>0, <2>1, JoinedGrows DEF Joined
<1>3. CASE ReadOrManage /\ ~ \E d \in Data : ManagerRequest(d)
  BY <1>3 DEF Joined, ReadOrManage, ReaderStep, ReaderEnters, ReaderResumes, ReaderCatches,
              ReadSucceeds, ReadFails, TimerStep, TimerLoads, TimerStores, TimerReturns,
              baseVars, sslVars
<1>4. CASE StartOrStop \/ StarterServes \/ SenderStep \/ WriteCompletes \/ UNCHANGED vars
  <2>1. UNCHANGED <<given, accepted, posted>>
    BY <1>4
       DEF StartOrStop, StarterResolves, StarterConnects, StarterShakes, StarterCatches,
           ResolveCompletes, ConnectCompletes, HandshakeSucceeds, HandshakeFails,
           StopEnters, StopCloses, StarterServes, SenderStep, SenderSteps, EnterSend,
           ResumeSend, SenderCatches, WriteCompletes, WriteSucceeds, WriteFails,
           baseVars, vars, sslVars
  <2> QED
    BY <2>1 DEF Joined
<1> QED
  BY <1>1, <1>2, <1>3, <1>4, NextCases

(* The front of the queue is the request after those written.              *)
LEMMA JoinedWritesNext ==
  TypeOK /\ OneWriter /\ WireInv /\ Joined => WritesNext
<1> SUFFICES ASSUME TypeOK, OneWriter, WireInv, Joined,
                    NEW i \in DOMAIN coros, coros[i].pc = "writing"
             PROVE  Len(wire) < Len(given) /\ given[Len(wire) + 1] = coros[i].buf
  BY DEF WritesNext
<1>0. BaseTypeOK /\ Len(given) \in Nat
  BY LenProperties DEF TypeOK
<1>1. /\ bufs # <<>> /\ Head(bufs) = coros[i].buf
      /\ \A j \in DOMAIN coros : coros[j].pc # "written"
  BY DEF OneWriter, Suspended
<1>2. Len(wire) = Popped /\ Popped \in Nat /\ Popped = Len(accepted) - Len(bufs)
  BY <1>1 DEF WireInv, IsWritten, WrittenLen, QueueIsSuffix, Popped
<1>3. Len(bufs) \in Nat /\ Len(bufs) # 0 /\ Len(accepted) \in Nat
  BY <1>0, <1>1, BaseLengths
<1>4. Head(bufs) = bufs[1] /\ bufs[1] = accepted[Popped + 1]
  BY <1>1, <1>2, <1>3 DEF WireInv, QueueIsSuffix
<1>5. Popped + 1 \in 1 .. Len(accepted)
  BY <1>2, <1>3
<1>6. Popped + 1 <= Len(given) /\ given[Popped + 1] = accepted[Popped + 1]
  BY <1>0, <1>3, <1>5, JoinedPrefix
<1> QED
  BY <1>0, <1>1, <1>2, <1>4, <1>6

(* A step that begins no write and ends none with success.                 *)
LEMMA WritesNextKept ==
  ASSUME TypeOK, WritesNext, wire' = wire,
         given' = given \/ \E d \in Data : given' = Append(given, d),
         \A j \in DOMAIN coros' : coros'[j].pc = "writing" =>
           j \in DOMAIN coros /\ coros'[j] = coros[j]
  PROVE  WritesNext'
<1> SUFFICES ASSUME NEW j \in DOMAIN coros', coros'[j].pc = "writing"
             PROVE  Len(wire) < Len(given') /\ given'[Len(wire) + 1] = coros'[j].buf
  BY DEF WritesNext
<1>1. Len(wire) < Len(given) /\ given[Len(wire) + 1] = coros'[j].buf
  BY DEF WritesNext
<1>2. Len(wire) \in Nat /\ Len(given) \in Nat /\ given \in Seq(Data)
  BY LenProperties DEF TypeOK
<1>3. Len(wire) + 1 \in 1 .. Len(given)
  BY <1>1, <1>2
<1>4. CASE given' = given
  BY <1>1, <1>4
<1>5. ASSUME NEW d \in Data, given' = Append(given, d)
      PROVE  Len(wire) < Len(given') /\ given'[Len(wire) + 1] = coros'[j].buf
  <2>1. Len(given') = Len(given) + 1 /\ given'[Len(wire) + 1] = given[Len(wire) + 1]
    BY <1>2, <1>3, <1>5, AppendProperties
  <2> QED
    BY <1>1, <1>2, <2>1
<1> QED
  BY <1>4, <1>5

LEMMA PrefixKept ==
  ASSUME TypeOK, Pipe!IsPrefixOf(wire, given), wire' = wire,
         given' = given \/ \E d \in Data : given' = Append(given, d)
  PROVE  Pipe!IsPrefixOf(wire, given)'
<1>1. Len(wire) \in Nat /\ Len(given) \in Nat /\ given \in Seq(Data)
  BY LenProperties DEF TypeOK
<1>2. CASE given' = given
  BY <1>2 DEF Pipe!IsPrefixOf
<1>3. ASSUME NEW d \in Data, given' = Append(given, d)
      PROVE  Pipe!IsPrefixOf(wire, given)'
  <2>1. /\ Len(given') = Len(given) + 1
        /\ \A k \in 1 .. Len(given) : given'[k] = given[k]
    BY <1>1, <1>3, AppendProperties
  <2>2. \A k \in 1 .. Len(wire) : k \in 1 .. Len(given)
    BY <1>1 DEF Pipe!IsPrefixOf
  <2> QED
    BY <1>1, <2>1, <2>2 DEF Pipe!IsPrefixOf
<1> QED
  BY <1>2, <1>3

(* What a step does to the requests and to the writes under way.           *)
LEMMA CleanSteps ==
  ASSUME SslInv, [Next]_vars
  PROVE  /\ given' = given \/ \E d \in Data : given' = Append(given, d)
         /\ wire' = wire \/ \E i \in DOMAIN coros : WriteSucceeds(i)
         /\ state' = "UNINIT" => state = "UNINIT"
         /\ missed /\ ~ missed' => StarterConnects
         /\ coros' # <<>> /\ coros = <<>> => StarterServes
         /\ coros # <<>> /\ sock' = "secure" => sock = "secure"
<1>0. NotServed /\ WriterInv
  BY DEF SslInv
<1>1. /\ given' = given \/ \E d \in Data : given' = Append(given, d)
      /\ wire' = wire \/ \E i \in DOMAIN coros : WriteSucceeds(i)
      /\ state' = "UNINIT" => state = "UNINIT"
  <2>1. CASE StartOrStop \/ StarterServes \/ UNCHANGED vars
    BY <2>1
       DEF StartOrStop, StarterResolves, StarterConnects, StarterShakes, StarterCatches,
           ResolveCompletes, ConnectCompletes, HandshakeSucceeds, HandshakeFails,
           StopEnters, StopCloses, StarterServes, baseVars, sslVars, vars
  <2>2. CASE RunSend \/ SenderStep
    BY <2>2 DEF RunSend, SendData, SenderStep, SenderSteps, EnterSend, ResumeSend, SendLoop,
                SenderCatches
  <2>3. CASE WriteCompletes
    BY <2>3 DEF WriteCompletes, WriteSucceeds, WriteFails, sslVars
  <2>4. CASE ReadOrManage
    BY <2>4
       DEF ReadOrManage, ReaderStep, ReaderEnters, ReaderResumes, ReaderCatches,
           ReadSucceeds, ReadFails, TimerStep, TimerLoads, TimerStores, TimerReturns,
           ManagerRequest, baseVars, sslVars
  <2> QED
    BY <2>1, <2>2, <2>3, <2>4, NextCases
<1>2. missed /\ ~ missed' => StarterConnects
  BY NextCases
     DEF StartOrStop, StarterResolves, StarterShakes, StarterCatches,
         ResolveCompletes, ConnectCompletes, HandshakeSucceeds, HandshakeFails, StopEnters,
         StopCloses, StarterServes, RunSend, SenderStep, SenderSteps,
         SenderCatches, WriteCompletes, WriteSucceeds, WriteFails, ReadOrManage,
         ReaderStep, ReaderEnters, ReaderResumes, ReaderCatches, ReadSucceeds, ReadFails,
         TimerStep, TimerLoads, TimerStores, TimerReturns, ManagerRequest, sslVars, vars
<1>3. ASSUME coros' # <<>>, coros = <<>> PROVE StarterServes
  <2>1. ~ SenderStep /\ ~ WriteCompletes /\ ~ RunSend
    BY <1>0, <1>3, NoFrameSteps, SendDataSpawnsNone DEF RunSend
  <2> QED
    BY <1>3, <2>1, NextCases
       DEF StartOrStop, StarterResolves, StarterConnects, StarterShakes, StarterCatches,
           ResolveCompletes, ConnectCompletes, HandshakeSucceeds, HandshakeFails, StopEnters,
           StopCloses, ReadOrManage, ReaderStep, ReaderEnters, ReaderResumes,
           ReaderCatches, ReadSucceeds, ReadFails, TimerStep, TimerLoads, TimerStores,
           TimerReturns, ManagerRequest, baseVars, vars
<1>4. ASSUME coros # <<>>, sock' = "secure" PROVE sock = "secure"
  <2>1. starter = "done"
    BY <1>0, <1>4 DEF NotServed
  <2> QED
    BY <1>4, <2>1, NextCases
       DEF StartOrStop, StarterResolves, StarterConnects, StarterShakes, StarterCatches,
           ResolveCompletes, ConnectCompletes, HandshakeSucceeds, HandshakeFails, StopEnters,
           StopCloses, StarterServes, RunSend, SenderStep, SenderSteps, SenderCatches,
           WriteCompletes, WriteSucceeds, WriteFails, ReadOrManage, ReaderStep,
           ReaderEnters, ReaderResumes, ReaderCatches, ReadSucceeds, ReadFails, TimerStep,
           TimerLoads, TimerStores, TimerReturns, ManagerRequest, sslVars, vars
<1> QED
  BY <1>1, <1>2, <1>3, <1>4

(* The writes under way after a step were under way before it, unless a    *)
(* send coroutine has taken the step.                                      *)
LEMMA WritesStay ==
  ASSUME SslInv, [Next]_vars, ~ \E i \in DOMAIN coros : SenderSteps(i)
  PROVE  /\ \A j \in DOMAIN coros' : coros'[j].pc = "writing" =>
              j \in DOMAIN coros /\ coros'[j] = coros[j]
         /\ late' = late
<1>0. BaseTypeOK /\ OneWriter /\ coros \in Seq(Frame)
  BY DEF SslInv, TypeOK, WriterInv, BaseTypeOK
<1>1. CASE coros' = Append(coros, Spawned) /\ late' = late
  BY <1>0, <1>1, FrameAdded, FramePcs
<1>2. CASE coros' = coros /\ late' = late
  BY <1>2
<1>3. CASE StarterServes \/ RunSend
  BY <1>1, <1>2, <1>3 DEF StarterServes, RunSend, SendData, StartSend
<1>4. ASSUME NEW i \in DOMAIN coros, SenderCatches(i)
      PROVE  /\ \A j \in DOMAIN coros' : coros'[j].pc = "writing" =>
                  j \in DOMAIN coros /\ coros'[j] = coros[j]
             /\ late' = late
  <2>1. coros' = [coros EXCEPT ![i] = Returned] /\ late' = late
    BY <1>4 DEF SenderCatches
  <2>2. /\ DOMAIN coros' = DOMAIN coros /\ coros'[i] = Returned
        /\ \A j \in DOMAIN coros : j # i => coros'[j] = coros[j]
    BY <1>0, <2>1, FrameSet, FrameTypes
  <2> QED
    BY <2>1, <2>2, FramePcs
<1>5. ASSUME NEW i \in DOMAIN coros, WriteSucceeds(i) \/ WriteFails(i)
      PROVE  /\ \A j \in DOMAIN coros' : coros'[j].pc = "writing" =>
                  j \in DOMAIN coros /\ coros'[j] = coros[j]
             /\ late' = late
  <2>1. CASE WriteSucceeds(i)
    BY <1>0, <2>1, WriteEndsFrame DEF WriteSucceeds
  <2>2. CASE WriteFails(i)
    BY <1>0, <2>2, WriteEndsFrame DEF WriteFails, sslVars
  <2> QED
    BY <1>5, <2>1, <2>2
<1>6. CASE StartOrStop \/ ReadOrManage \/ UNCHANGED vars
  <2>1. coros' = coros /\ late' = late
    BY <1>6
       DEF StartOrStop, StarterResolves, StarterConnects, StarterShakes, StarterCatches,
           ResolveCompletes, ConnectCompletes, HandshakeSucceeds, HandshakeFails,
           StopEnters, StopCloses, ReadOrManage, ReaderStep, ReaderEnters, ReaderResumes,
           ReaderCatches, ReadSucceeds, ReadFails, TimerStep, TimerLoads, TimerStores,
           TimerReturns, ManagerRequest, baseVars, vars, sslVars
  <2> QED
    BY <2>1, <1>2
<1> QED
  BY <1>3, <1>4, <1>5, <1>6, NextCases DEF SenderStep, WriteCompletes

LEMMA WriteSucceedsNext ==
  ASSUME SslInv, WireInv, WritesNext, NEW i \in DOMAIN coros, WriteSucceeds(i)
  PROVE  WritesNext' /\ (Pipe!IsPrefixOf(wire, given) => Pipe!IsPrefixOf(wire, given)')
<1>0. /\ BaseTypeOK /\ OneWriter /\ wire \in Seq(Data) /\ Len(wire) \in Nat
      /\ given \in Seq(Data) /\ Len(given) \in Nat
  BY LenProperties DEF SslInv, TypeOK, WriterInv
<1>1. \A j \in DOMAIN coros' : coros'[j].pc # "writing"
  BY <1>0, WriteEndsFrame DEF WriteSucceeds, OneWriter, Suspended
<1>2. Len(wire) < Len(given) /\ given[Len(wire) + 1] = coros[i].buf
  BY DEF WritesNext, WriteSucceeds
<1>3. coros[i].buf \in Data
  BY <1>0, HeadTailProperties DEF WriteSucceeds, OneWriter, Suspended, BaseTypeOK
<1>4. /\ Len(wire') = Len(wire) + 1
      /\ \A k \in 1 .. Len(wire) : wire'[k] = wire[k]
      /\ wire'[Len(wire) + 1] = coros[i].buf
      /\ given' = given
  BY <1>0, <1>3, AppendProperties DEF WriteSucceeds
<1>5. ASSUME Pipe!IsPrefixOf(wire, given) PROVE Pipe!IsPrefixOf(wire, given)'
  BY <1>0, <1>2, <1>4, <1>5 DEF Pipe!IsPrefixOf
<1> QED
  BY <1>1, <1>5 DEF WritesNext

LEMMA CleanPreserved ==
  ASSUME SslInv, WireInv, Clean, SslInv', WireInv', [Next]_vars
  PROVE  Clean'
<1>0. /\ TypeOK /\ BaseTypeOK /\ WriterInv /\ OneWriter /\ NotServed /\ SecureIsLive
      /\ TypeOK' /\ OneWriter' /\ Len(given') \in Nat
  BY LenProperties DEF SslInv, WriterInv, TypeOK
<1>1. state' = "UNINIT" => Joined'
  BY CleanSteps, JoinedKept DEF Clean
<1>2. CASE StarterConnects
  <2>1. /\ coros = <<>> /\ coros' = <<>> /\ wire' = <<>>
    BY <1>0, <1>2 DEF StarterConnects, NotServed, WireInv, baseVars
  <2>2. DOMAIN coros' = {} /\ Len(wire') = 0
    BY <2>1, EmptySeq
  <2> QED
    BY <1>0, <1>1, <2>1, <2>2 DEF Clean, WritesNext, NoRequestSkipped, Pipe!IsPrefixOf
<1>3. ASSUME ~ StarterConnects, ~ missed' PROVE Clean'
  <2>1. /\ ~ missed
        /\ coros # <<>> /\ sock = "secure" => Joined
        /\ ~ late => WritesNext
        /\ Pipe!IsPrefixOf(wire, given)
    BY <1>3, CleanSteps DEF Clean, NoRequestSkipped
  <2>2. coros' # <<>> /\ sock' = "secure" => Joined'
    <3> SUFFICES ASSUME coros' # <<>>, sock' = "secure" PROVE Joined'
      OBVIOUS
    <3>1. CASE coros # <<>>
      BY <1>0, <2>1, <3>1, CleanSteps, JoinedKept DEF SecureIsLive
    <3>2. CASE coros = <<>>
      <4>1. StarterServes
        BY <3>2, CleanSteps
      <4>2. state # "STOP"
        BY <1>3, <4>1 DEF StarterServes
      <4>3. Joined
        BY <1>0, <3>2, <4>2 DEF WriterInv, NoneBeforeStart, Clean
      <4> QED
        BY <4>2, <4>3, JoinedKept
    <3> QED
      BY <3>1, <3>2
  <2>3. CASE \E i \in DOMAIN coros : WriteSucceeds(i)
    <3>1. WritesNext' /\ Pipe!IsPrefixOf(wire, given)'
      BY <2>1, <2>3, WriteSucceedsNext DEF WriteSucceeds
    <3> QED
      BY <1>1, <2>2, <3>1 DEF Clean, NoRequestSkipped
  <2>4. CASE ~ \E i \in DOMAIN coros : WriteSucceeds(i)
    <3>1. wire' = wire /\ (given' = given \/ \E d \in Data : given' = Append(given, d))
      BY <2>4, CleanSteps
    <3>2. Pipe!IsPrefixOf(wire, given)'
      BY <1>0, <2>1, <3>1, PrefixKept
    <3>3. ~ late' => WritesNext'
      <4>1. ASSUME NEW i \in DOMAIN coros, SenderSteps(i), coros'[i].pc = "writing", ~ late'
            PROVE  WritesNext'
        <5>1. sock = "secure" /\ sock' = "secure"
          BY <4>1 DEF SenderSteps
        <5>2. coros # <<>>
          BY NoFrameSteps, <4>1 DEF SenderStep
        <5>3. Joined'
          BY <2>2, <5>1, <5>2, FramesStay
        <5>4. (TypeOK /\ OneWriter /\ WireInv /\ Joined => WritesNext)'
          BY JoinedWritesNext, PTL
        <5> QED
          BY <1>0, <5>3, <5>4
      <4>2. ASSUME NEW i \in DOMAIN coros, SenderSteps(i), coros'[i].pc # "writing", ~ late'
            PROVE  WritesNext'
        <5>1. ~ late
          BY <4>2 DEF SenderSteps
        <5>2. \A j \in DOMAIN coros' : coros'[j].pc = "writing" =>
                j \in DOMAIN coros /\ coros'[j] = coros[j]
          BY <1>0, <4>2, StepSetsFrame DEF SenderSteps
        <5> QED
          BY <1>0, <2>1, <3>1, <5>1, <5>2, WritesNextKept
      <4>3. CASE ~ \E i \in DOMAIN coros : SenderSteps(i)
        BY <1>0, <2>1, <3>1, <4>3, WritesStay, WritesNextKept
      <4> QED
        BY <4>1, <4>2, <4>3
    <3> QED
      BY <1>1, <2>2, <3>2, <3>3 DEF Clean, NoRequestSkipped
  <2> QED
    BY <2>3, <2>4
<1> QED
  BY <1>1, <1>2, <1>3 DEF Clean

QueueIInv == SslInv /\ WireInv /\ Clean

LEMMA QueueIInvInit == Init => QueueIInv
<1> SUFFICES ASSUME Init PROVE QueueIInv
  OBVIOUS
<1>1. /\ coros = <<>> /\ bufs = <<>> /\ accepted = <<>> /\ posted = <<>>
      /\ given = <<>> /\ wire = <<>>
  BY DEF Init, BaseInit
<1>2. Len(<<>>) = 0 /\ DOMAIN coros = {}
  BY <1>1, EmptySeq, LenProperties
<1>3. WireInv
  BY <1>1, <1>2 DEF WireInv, QueueIsSuffix, IsWritten, WrittenLen, Popped
<1>4. Joined
  BY <1>1, ConcatEmptySeq, EmptySeq DEF Joined
<1>5. Clean
  BY <1>1, <1>2, <1>4 DEF Clean, WritesNext, NoRequestSkipped, Pipe!IsPrefixOf
<1> QED
  BY <1>3, <1>5, SslInvInit DEF QueueIInv

LEMMA QueueIInvNext == QueueIInv /\ [Next]_vars => QueueIInv'
<1> SUFFICES ASSUME QueueIInv, [Next]_vars PROVE QueueIInv'
  OBVIOUS
<1>1. SslInv' /\ WireInv'
  BY SslInvNext, WirePreserved DEF QueueIInv
<1> QED
  BY <1>1, CleanPreserved DEF QueueIInv

(* Whatever the start, the reader, the timer and the stops do meanwhile,   *)
(* one coroutine writes on the link at a time and pops what it wrote, a    *)
(* queue with requests is left behind only by a stop, and no request is    *)
(* skipped on a link whose start noticed that it was stopped.              *)
(* (base_relay.cpp:29-71, ssl_relay.cpp:98-176, relay_manager.cpp:69-85)   *)
THEOREM SslQueueInv == Spec => []QueueInv
<1>1. QueueIInv => QueueInv
  BY DEF QueueIInv, SslInv, WriterInv, Clean, NoRequestSkipped, QueueInv
<1> QED
  BY <1>1, QueueIInvInit, QueueIInvNext, PTL DEF Spec

-----------------------------------------------------------------------------
(* A local link connects once, and before that has no socket to close: no  *)
(* socket that was closed is opened again.                                 *)
OpensOnce ==
  /\ starter \in {"resolving", "resolved", "connecting", "connected"} => role = "local"
  /\ role = "local" /\ starter \in {"spawned", "resolving", "resolved"} => sock = "unopened"

LEMMA OpensOncePreserved ==
  ASSUME OpensOnce, [Next]_vars
  PROVE  OpensOnce' /\ (sock = "closed" => sock' = "closed")
<1>1. CASE StartOrStop
  BY <1>1
     DEF OpensOnce, StartOrStop, StarterResolves, StarterConnects, StarterShakes,
         StarterCatches, ResolveCompletes, ConnectCompletes, HandshakeSucceeds,
         HandshakeFails, StopEnters, StopCloses
<1>2. CASE StarterServes
  BY <1>2 DEF OpensOnce, StarterServes
<1>3. CASE RunSend \/ SenderStep \/ WriteCompletes \/ ReadOrManage \/ UNCHANGED vars
  <2>1. UNCHANGED <<role, starter, sock>>
    BY <1>3 DEF RunSend, SenderStep, SenderSteps, SenderCatches, WriteCompletes,
                WriteSucceeds, WriteFails, ReadOrManage, ReaderStep, ReaderEnters,
                ReaderResumes, ReaderCatches, ReadSucceeds, ReadFails, TimerStep, TimerLoads,
                TimerStores, TimerReturns, ManagerRequest, vars, sslVars
  <2> QED
    BY <2>1 DEF OpensOnce
<1> QED
  BY <1>1, <1>2, <1>3, NextCases

(* No other step queues or writes a buffer.                                *)
LEMMA PipeSteps ==
  ASSUME [Next]_vars
  PROVE  \/ UNCHANGED <<accepted, wire>>
         \/ \E i \in DOMAIN coros : WriteSucceeds(i)
         \/ RunSend
<1>1. CASE StartOrStop \/ StarterServes \/ ReadOrManage \/ UNCHANGED vars
  BY <1>1
     DEF StartOrStop, StarterResolves, StarterConnects, StarterShakes, StarterCatches,
         ResolveCompletes, ConnectCompletes, HandshakeSucceeds, HandshakeFails,
         StopEnters, StopCloses, StarterServes, ReadOrManage, ReaderStep, ReaderEnters,
         ReaderResumes, ReaderCatches, ReadSucceeds, ReadFails, TimerStep, TimerLoads,
         TimerStores, TimerReturns, ManagerRequest, baseVars, vars, sslVars
<1>2. CASE SenderStep
  BY <1>2 DEF SenderStep, SenderSteps, EnterSend, ResumeSend, SenderCatches
<1>3. CASE WriteCompletes
  BY <1>3 DEF WriteCompletes, WriteFails, sslVars
<1> QED
  BY <1>1, <1>2, <1>3, NextCases

LEMMA WriteEmits ==
  ASSUME QueueIInv, NEW i \in DOMAIN coros, WriteSucceeds(i)
  PROVE  Pipe!Emit
<1>0. BaseTypeOK /\ OneWriter /\ QueueIsSuffix /\ Len(wire) = WrittenLen
  BY DEF QueueIInv, SslInv, TypeOK, WriterInv, WireInv, IsWritten
<1>1. /\ WrittenLen' = WrittenLen + 1 /\ WrittenLen' <= Len(accepted)
      /\ coros[i].buf = accepted[WrittenLen + 1]
  BY <1>0, WriteSucceedsStream DEF WriteSucceeds
<1>2. Len(wire) < Len(accepted)
  BY <1>0, <1>1, WrittenWasAccepted, BaseLengths
<1> QED
  BY <1>0, <1>1, <1>2 DEF WriteSucceeds, Pipe!Emit

LEMMA SendAccepts ==
  ASSUME QueueIInv, RunSend, ~ UNCHANGED <<accepted, wire>>
  PROVE  Pipe!Accept
<1>1. Head(posted) \in Data
  BY HeadTailProperties DEF RunSend, QueueIInv, SslInv, TypeOK
<1> QED
  BY <1>1 DEF RunSend, SendData, Pipe!Accept

LEMMA StepImplementsPipe ==
  ASSUME QueueIInv, OpensOnce, [Next]_vars
  PROVE  [Pipe!Next]_Pipe!vars
<1>1. CASE UNCHANGED <<accepted, wire>>
  <2>1. sock = "closed" => sock' = "closed"
    BY OpensOncePreserved
  <2>2. CASE sock' = "closed"
    BY <1>1, <2>2 DEF Pipe!Next, Pipe!Close
  <2>3. CASE sock' # "closed"
    BY <1>1, <2>1, <2>3 DEF Pipe!vars
  <2> QED
    BY <2>2, <2>3
<1>2. CASE \E i \in DOMAIN coros : WriteSucceeds(i)
  BY <1>2, WriteEmits DEF Pipe!Next
<1>3. CASE RunSend /\ ~ UNCHANGED <<accepted, wire>>
  BY <1>3, SendAccepts DEF Pipe!Next
<1> QED
  BY <1>1, <1>2, <1>3, PipeSteps

(* The link implements OrderedPipe: what is queued is written in order,    *)
(* once each, and nothing after its socket is closed, however many         *)
(* coroutines are stopping it, and no closed socket is opened again.       *)
(* (ssl_relay.cpp:98-110, 157-176, base_relay.cpp:29-71)                   *)
THEOREM SslImplementsPipe == Spec => ImplementsPipe
<1>1. Init => Pipe!Init /\ OpensOnce
  BY DEF Init, BaseInit, Pipe!Init, OpensOnce
<1>2. QueueIInv /\ OpensOnce /\ [Next]_vars => [Pipe!Next]_Pipe!vars
  BY StepImplementsPipe
<1>3. OpensOnce /\ [Next]_vars => OpensOnce'
  BY OpensOncePreserved
<1> QED
  BY <1>1, <1>2, <1>3, QueueIInvInit, QueueIInvNext, PTL
     DEF Spec, ImplementsPipe, Pipe!Spec

-----------------------------------------------------------------------------
(* The process that accepts the link.                                      *)
(* A link keeps its manager by the timer that was started when it was      *)
(* accepted, and only a manager whose link no longer serves is stopped.    *)
TimerWhileServing ==
  \A n \in Links :
    link[n] = "serving" => timer[n] = "waiting" /\ mstate[n] = "START"

(* Before a link is accepted nothing has happened to the manager that      *)
(* waits for it.                                                           *)
FreshManager ==
  \A n \in Links :
    n >= next => inbox[n] = <<>> /\ conn[n] = "none" /\ mstate[n] = "START"

ServerInv == ServerTypeOK /\ TimerWhileServing /\ FreshManager

(* What is queued for a strand stays a queue of handlers.                  *)
LEMMA ServerQueues ==
  ASSUME ServerTypeOK, NEW n \in Links
  PROVE  /\ inbox[n] \in Seq(Requests)
         /\ Len(inbox[n]) \in Nat
         /\ inbox[n] # <<>> =>
              /\ Tail(inbox[n]) \in Seq(Requests)
              /\ Len(Tail(inbox[n])) < Len(inbox[n])
         /\ \A h \in Requests :
              /\ Append(inbox[n], h) \in Seq(Requests)
              /\ Len(Append(inbox[n], h)) = Len(inbox[n]) + 1
BY DEF ServerTypeOK

LEMMA ServerInitInv ==
  ASSUME ServerInit
  PROVE  ServerInv
BY RemoteServerAssumption
   DEF ServerInit, ServerTypeOK, Links, Requests,
       ServerInv, TimerWhileServing, FreshManager

(* The steps of the accept loop and of the process.                        *)
LEMMA AcceptInv ==
  ASSUME ServerInv,
         Accepts \/ AcceptFails \/ RunsOut
  PROVE  ServerInv'
<1> USE RemoteServerAssumption
    DEF ServerInv, TimerWhileServing, FreshManager, ServerTypeOK, managers, relays
<1>1. CASE Accepts
  <2>1. /\ next \in Links /\ next' = next + 1
        /\ link' = [link EXCEPT ![next] = "serving"]
        /\ timer' = [timer EXCEPT ![next] = "waiting"]
        /\ UNCHANGED <<mode, acceptor, mstate, inbox, kind, conn, listed, stray>>
    BY <1>1 DEF Accepts
  <2>2. next + 1 \in 1 .. MaxLinks + 1 /\ \A k \in Links : k \in Int
    BY <2>1 DEF Links
  <2>3. \A k \in Links : k >= next + 1 => k >= next /\ k # next
    BY <2>2
  <2>4. ServerTypeOK'
    BY <2>1, <2>2, <2>3
  <2>5. TimerWhileServing'
    BY <2>1, <2>2
  <2>6. FreshManager'
    BY <2>1, <2>3
  <2> QED
    BY <2>4, <2>5, <2>6
<1>2. CASE AcceptFails \/ RunsOut
  BY <1>2 DEF AcceptFails, RunsOut
<1> QED
  BY <1>1, <1>2

(* A step of one accepted link, its manager or its relay: nothing of the   *)
(* other links changes, and a link that serves keeps what it needs.        *)
RelayStates == {"none", "starting", "reading", "got", "last", "stopping", "ended"}

RelayStep(n) ==
  /\ mstate' \in [Links -> {"START", "STOP"}]
  /\ kind' \in [Links -> {"none", "tcp", "udp"}]
  /\ conn' \in [Links -> RelayStates]
  /\ listed' \in [Links -> BOOLEAN]
  /\ stray' \in [Links -> BOOLEAN]
  /\ \A k \in Links \ {n} : mstate'[k] = mstate[k] /\ conn'[k] = conn[k]

QueueStep(n) ==
  /\ inbox' \in [Links -> Seq(Requests)]
  /\ Len(inbox'[n]) <= MaxQueue
  /\ \A k \in Links \ {n} : inbox'[k] = inbox[k]

LinkStep(n) ==
  /\ link' \in [Links -> {"none", "serving", "stopping", "ended"}]
  /\ timer' \in [Links -> {"off", "waiting", "done"}]
  /\ \A k \in Links \ {n} : link'[k] = link[k] /\ timer'[k] = timer[k]
  /\ link'[n] = "serving" => timer'[n] = "waiting" /\ mstate'[n] = "START"

StepOf(n) ==
  /\ n < next
  /\ next' = next
  /\ acceptor' = acceptor
  /\ mode' \in {"running", "restarting", "crashed"}
  /\ RelayStep(n)
  /\ QueueStep(n)
  /\ LinkStep(n)

LEMMA StepOfInv ==
  ASSUME ServerInv, NEW n \in Links, StepOf(n)
  PROVE  ServerInv'
<1> USE DEF ServerInv, StepOf
<1>0. n \in Nat /\ next \in Nat /\ \A k \in Links : k \in Nat
  BY DEF Links, ServerTypeOK
<1>1. ServerTypeOK'
  <2>1. \A k \in Links : Len(inbox'[k]) <= MaxQueue
    BY DEF QueueStep, ServerTypeOK
  <2>2. \A k \in Links : k >= next' => link'[k] = "none" /\ timer'[k] = "off"
    BY <1>0 DEF LinkStep, ServerTypeOK
  <2> QED
    BY <2>1, <2>2 DEF ServerTypeOK, RelayStep, QueueStep, LinkStep, RelayStates
<1>2. TimerWhileServing'
  BY DEF TimerWhileServing, LinkStep, RelayStep
<1>3. FreshManager'
  BY <1>0 DEF FreshManager, QueueStep, RelayStep
<1> QED
  BY <1>1, <1>2, <1>3

(* What a step leaves alone is as it was.                                  *)
LEMMA StepUnchanged ==
  ASSUME ServerInv, NEW n \in Links
  PROVE  /\ UNCHANGED relays /\ UNCHANGED mstate => RelayStep(n)
         /\ UNCHANGED inbox => QueueStep(n)
         /\ UNCHANGED <<link, timer>> /\ (link[n] = "serving" => mstate'[n] = mstate[n]) => LinkStep(n)
BY DEF ServerInv, TimerWhileServing, ServerTypeOK, relays, RelayStep, QueueStep, LinkStep,
       RelayStates

(* A link, a queue, a timer or a relay in use is that of an accepted link. *)
LEMMA InUse ==
  ASSUME ServerInv, NEW n \in Links,
         link[n] # "none" \/ timer[n] # "off" \/ inbox[n] # <<>> \/ conn[n] # "none"
  PROVE  n < next
<1>1. n \in Int /\ next \in Int
  BY DEF Links, ServerInv, ServerTypeOK
<1> QED
  BY <1>1 DEF ServerInv, FreshManager, ServerTypeOK

-----------------------------------------------------------------------------
(* The handlers.                                                           *)
LEMMA StopListedRelay ==
  ASSUME ServerTypeOK, NEW n \in Links, StopListed(n)
  PROVE  /\ conn' \in [Links -> RelayStates]
         /\ listed' \in [Links -> BOOLEAN]
         /\ stray' \in [Links -> BOOLEAN]
         /\ \A k \in Links \ {n} : conn'[k] = conn[k]
BY DEF ServerTypeOK, StopListed, RelayStates

LEMMA StopManagerRelay ==
  ASSUME ServerTypeOK, NEW n \in Links, StopManager(n), kind' = kind
  PROVE  RelayStep(n)
BY StopListedRelay DEF StopManager, ServerTypeOK, RelayStep

LEMMA HandlesRelay ==
  ASSUME ServerTypeOK, NEW n \in Links, NEW h, Handles(n, h)
  PROVE  RelayStep(n) /\ mstate' = mstate
<1>1. CASE Makes(n, "tcp") /\ mstate' = mstate
  BY <1>1 DEF Makes, ServerTypeOK, RelayStep, RelayStates
<1>2. CASE Makes(n, "udp") /\ mstate' = mstate
  BY <1>2 DEF Makes, ServerTypeOK, RelayStep, RelayStates
<1>3. CASE StopListed(n) /\ UNCHANGED <<mstate, kind>>
  BY <1>3, StopListedRelay DEF ServerTypeOK, RelayStep
<1> QED
  BY <1>1, <1>2, <1>3 DEF Handles

LEMMA HandlesRequestRelay ==
  ASSUME ServerTypeOK, NEW n \in Links, HandlesRequest(n), kind' = kind
  PROVE  RelayStep(n) /\ (link[n] = "serving" => mstate' = mstate)
<1>1. CASE link[n] = "serving" /\ UNCHANGED <<mstate, conn, listed, stray>>
  BY <1>1 DEF ServerTypeOK, RelayStep, RelayStates
<1>2. CASE link[n] # "serving" /\ StopManager(n)
  BY <1>2, StopManagerRelay
<1> QED
  BY <1>1, <1>2 DEF HandlesRequest

LEMMA QueuesStep ==
  ASSUME ServerTypeOK, NEW n \in Links,
         NEW h \in Requests, Queues(n, h)
  PROVE  QueueStep(n)
<1>1. inbox' = [inbox EXCEPT ![n] = Append(inbox[n], h)]
  BY DEF Queues
<1>2. /\ Append(inbox[n], h) \in Seq(Requests)
      /\ Len(Append(inbox[n], h)) = Len(inbox[n]) + 1 /\ Len(inbox[n]) \in Nat
  BY ServerQueues
<1>3. Len(inbox[n]) + 1 <= MaxQueue
  BY <1>2, RemoteServerAssumption DEF Queues
<1> QED
  BY <1>1, <1>2, <1>3 DEF QueueStep, ServerTypeOK

LEMMA TakesStep ==
  ASSUME ServerTypeOK, NEW n \in Links,
         inbox[n] # <<>>, inbox' = [inbox EXCEPT ![n] = Tail(@)]
  PROVE  QueueStep(n)
<1>1. /\ Tail(inbox[n]) \in Seq(Requests)
      /\ Len(Tail(inbox[n])) \in Nat /\ Len(inbox[n]) \in Nat
      /\ Len(Tail(inbox[n])) < Len(inbox[n])
  BY ServerQueues
<1>2. Len(Tail(inbox[n])) <= MaxQueue
  BY <1>1, RemoteServerAssumption DEF ServerTypeOK
<1> QED
  BY <1>1, <1>2 DEF QueueStep, ServerTypeOK

LEMMA PostsStep ==
  ASSUME ServerTypeOK, NEW n \in Links,
         NEW pc \in {"reading", "stopping", "ended"}, Posts(n, pc), kind' = kind
  PROVE  RelayStep(n) /\ QueueStep(n) /\ (link[n] = "serving" => mstate' = mstate)
<1>1. CASE Queues(n, "request") /\ conn' = [conn EXCEPT ![n] = pc]
             /\ UNCHANGED <<mstate, listed, stray>>
  <2>1. "request" \in Requests
    BY DEF Requests
  <2> QED
    BY <1>1, <2>1, QueuesStep DEF ServerTypeOK, RelayStep, RelayStates
<1>2. CASE Free(n) /\ inbox' = inbox
  <2>1. QueueStep(n)
    BY <1>2 DEF ServerTypeOK, QueueStep
  <2>2. CASE /\ link[n] = "serving"
             /\ conn' = [conn EXCEPT ![n] = pc]
             /\ UNCHANGED <<mstate, listed, stray>>
    BY <2>1, <2>2 DEF ServerTypeOK, RelayStep, RelayStates
  <2>3. CASE /\ link[n] # "serving"
             /\ conn' = [conn EXCEPT ![n] = IF listed[n] /\ pc = "reading" THEN "stopping" ELSE pc]
             /\ listed' = [listed EXCEPT ![n] = FALSE]
             /\ mstate' = [mstate EXCEPT ![n] = "STOP"]
             /\ UNCHANGED stray
    BY <2>1, <2>3 DEF ServerTypeOK, RelayStep, RelayStates
  <2>4. \/ /\ link[n] = "serving"
           /\ conn' = [conn EXCEPT ![n] = pc]
           /\ UNCHANGED <<mstate, listed, stray>>
        \/ /\ link[n] # "serving"
           /\ conn' = [conn EXCEPT ![n] = IF listed[n] /\ pc = "reading" THEN "stopping" ELSE pc]
           /\ listed' = [listed EXCEPT ![n] = FALSE]
           /\ mstate' = [mstate EXCEPT ![n] = "STOP"]
           /\ UNCHANGED stray
        \/ Queues(n, "request") /\ conn' = [conn EXCEPT ![n] = pc]
             /\ UNCHANGED <<mstate, listed, stray>>
    BY DEF Posts
  <2> QED
    BY <1>1, <2>2, <2>3, <2>4
<1> QED
  BY <1>1, <1>2 DEF Posts

-----------------------------------------------------------------------------
(* The actions.                                                            *)
LEMMA HandlerSteps ==
  ASSUME ServerInv, NEW n \in Links,
         RunsHandler(n) \/ HandlerThrows(n) \/ LinkDelivers(n)
  PROVE  StepOf(n)
<1> USE DEF ServerInv
<1>1. CASE RunsHandler(n)
  <2>1. n < next /\ QueueStep(n)
    BY <1>1, InUse, TakesStep DEF RunsHandler
  <2>2. RelayStep(n) /\ (link[n] = "serving" => mstate' = mstate)
    BY <1>1, HandlesRelay, HandlesRequestRelay DEF RunsHandler
  <2>3. LinkStep(n)
    BY <1>1, <2>2, StepUnchanged DEF RunsHandler
  <2> QED
    BY <1>1, <2>1, <2>2, <2>3 DEF StepOf, RunsHandler
<1>2. CASE HandlerThrows(n)
  <2>1. n < next /\ QueueStep(n)
    BY <1>2, InUse, TakesStep DEF HandlerThrows
  <2>2. RelayStep(n) /\ LinkStep(n)
    BY <1>2, StepUnchanged DEF HandlerThrows
  <2> QED
    BY <1>2, <2>1, <2>2 DEF StepOf, HandlerThrows
<1>3. CASE LinkDelivers(n)
  <2>1. n < next
    BY <1>3, InUse DEF LinkDelivers
  <2>2. PICK h \in {"start", "udp", "stop"} :
          \/ Handles(n, h) /\ UNCHANGED inbox
          \/ Queues(n, h) /\ UNCHANGED <<mstate, relays>>
    BY <1>3 DEF LinkDelivers
  <2>3. RelayStep(n) /\ mstate' = mstate
    BY <2>2, HandlesRelay, StepUnchanged
  <2>4. h \in Requests
    BY DEF Requests
  <2>5. QueueStep(n)
    BY <2>2, <2>4, QueuesStep, StepUnchanged
  <2>6. LinkStep(n)
    BY <1>3, <2>3, StepUnchanged DEF LinkDelivers
  <2> QED
    BY <1>3, <2>1, <2>3, <2>5, <2>6 DEF StepOf, LinkDelivers
<1> QED
  BY <1>1, <1>2, <1>3

LEMMA LinkSteps ==
  ASSUME ServerInv, NEW n \in Links,
         LinkCatches(n) \/ LinkStops(n) \/ LinkEnds(n)
  PROVE  StepOf(n)
<1> USE DEF ServerInv, LinkCatches, LinkStops, LinkEnds, managers
<1>1. n < next
  BY InUse
<1>2. RelayStep(n) /\ QueueStep(n)
  BY StepUnchanged
<1>3. LinkStep(n)
  BY DEF ServerTypeOK, LinkStep
<1> QED
  BY <1>1, <1>2, <1>3 DEF StepOf

LEMMA TimerSteps ==
  ASSUME ServerInv, NEW n \in Links, TimerTicks(n) \/ TimerExpires(n)
  PROVE  StepOf(n)
<1> USE DEF ServerInv
<1>1. n < next /\ QueueStep(n) /\ next' = next /\ acceptor' = acceptor
        /\ mode' \in {"running", "restarting", "crashed"}
  BY InUse, StepUnchanged DEF TimerTicks, TimerExpires
<1>2. CASE TimerTicks(n)
  <2>1. RelayStep(n)
    BY <1>2, StopListedRelay DEF TimerTicks, ServerTypeOK, RelayStep, RelayStates
  <2>2. LinkStep(n)
    BY <1>2 DEF TimerTicks, ServerTypeOK, TimerWhileServing, LinkStep
  <2> QED
    BY <1>1, <2>1, <2>2 DEF StepOf
<1>3. CASE TimerExpires(n)
  <2>1. RelayStep(n)
    BY <1>3, StopManagerRelay DEF TimerExpires
  <2>2. LinkStep(n)
    BY <1>3 DEF TimerExpires, ServerTypeOK, LinkStep
  <2> QED
    BY <1>1, <2>1, <2>2 DEF StepOf
<1> QED
  BY <1>2, <1>3

LEMMA RelaySteps ==
  ASSUME ServerInv, NEW n \in Links,
         \/ RelayStarts(n) \/ RelayFails(n) \/ HostSends(n)
         \/ RelayCrashes(n) \/ RelayResumes(n) \/ RelayCatches(n)
  PROVE  StepOf(n)
<1> USE DEF ServerInv
<1>1. CASE RelayStarts(n) \/ RelayFails(n) \/ HostSends(n)
  <2> USE DEF RelayStarts, RelayFails, HostSends, managers
  <2>1. n < next /\ QueueStep(n) /\ LinkStep(n)
    BY <1>1, InUse, StepUnchanged
  <2>2. RelayStep(n)
    BY <1>1 DEF ServerTypeOK, RelayStep, RelayStates
  <2> QED
    BY <1>1, <2>1, <2>2 DEF StepOf
<1>2. CASE RelayCrashes(n)
  <2>1. n < next /\ QueueStep(n) /\ LinkStep(n) /\ RelayStep(n)
    BY <1>2, InUse, StepUnchanged DEF RelayCrashes, managers
  <2> QED
    BY <1>2, <2>1 DEF StepOf, RelayCrashes
<1>3. CASE RelayResumes(n) \/ RelayCatches(n)
  <2> USE DEF RelayResumes, RelayCatches
  <2>1. n < next
    BY <1>3, InUse
  <2>2. CASE \E pc \in {"reading", "stopping", "ended"} : Posts(n, pc)
    <3>1. RelayStep(n) /\ QueueStep(n) /\ (link[n] = "serving" => mstate' = mstate)
      BY <1>3, <2>2, PostsStep
    <3>2. LinkStep(n)
      BY <1>3, <3>1, StepUnchanged
    <3> QED
      BY <1>3, <2>1, <3>1, <3>2 DEF StepOf
  <2>3. CASE conn' = [conn EXCEPT ![n] = "ended"] /\ UNCHANGED <<inbox, mstate, listed, stray>>
    <3>1. QueueStep(n) /\ LinkStep(n)
      BY <1>3, <2>3, StepUnchanged
    <3>2. RelayStep(n)
      BY <1>3, <2>3 DEF ServerTypeOK, RelayStep, RelayStates
    <3> QED
      BY <1>3, <2>1, <3>1, <3>2 DEF StepOf
  <2> QED
    BY <1>3, <2>2, <2>3
<1> QED
  BY <1>1, <1>2, <1>3

LEMMA ServerNextInv ==
  ASSUME ServerInv, [ServerNext]_serverVars
  PROVE  ServerInv'
<1>1. CASE Accepts \/ AcceptFails \/ RunsOut
  BY <1>1, AcceptInv
<1>2. CASE Restarts
  BY <1>2, RemoteServerAssumption
     DEF Restarts, ServerTypeOK, Links, Requests, ServerInv, TimerWhileServing, FreshManager
<1>3. CASE \E n \in Links : StepOf(n)
  BY <1>3, StepOfInv
<1>4. CASE UNCHANGED serverVars
  BY <1>4 DEF serverVars, managers, relays, ServerTypeOK, ServerInv,
              TimerWhileServing, FreshManager
<1> QED
  BY <1>1, <1>2, <1>3, <1>4, HandlerSteps, LinkSteps, TimerSteps, RelaySteps DEF ServerNext

(* Whatever its links, threads and queues, a link of the remote server     *)
(* that serves has a manager, which has not stopped.                       *)
(* (relay_acceptor.cpp:73-76, relay_manager.cpp:164-195)                   *)
THEOREM ManagerHeld == ServerSpec => []ManagerInv
<1>1. ServerInit => ServerInv
  BY ServerInitInv
<1>2. ServerInv /\ [ServerNext]_serverVars => ServerInv'
  BY ServerNextInv
<1>3. ServerInv => ManagerInv
  BY DEF ServerInv, TimerWhileServing, ManagerInv, HeldWhileServing, Alive
<1> QED
  BY <1>1, <1>2, <1>3, PTL DEF ServerSpec

-----------------------------------------------------------------------------
(* What crosses the link.  The bytes of a destination are its type, for a  *)
(* name their number, the host and the two bytes of the port; an array     *)
(* that begins with them all is read back as the destination, and one of   *)
(* which fewer are known is refused.  The lemmas take the assumptions on   *)
(* the constants under one name.                                           *)
Assumed ==
  RequestsAssumption /\ AskedAssumption /\ PayloadsAssumption

Lead(a) == IF a.type = 3 THEN <<3, Len(a.host)>> ELSE <<a.type>>

Bytes(a) == Lead(a) \o a.host \o <<a.port \div 256, a.port % 256>>

(* The lengths of the two first parts.                                     *)
LeadLen(a) == IF a.type = 3 THEN 2 ELSE 1
HostLen(a) == Len(a.host)

LEMMA AskedTypes ==
  ASSUME Assumed, NEW a \in Asked
  PROVE  /\ a.type \in {1, 3, 4}
         /\ a.host \in Seq(Int)
         /\ HostLen(a) \in Nat
         /\ a.type = 1 => HostLen(a) = 4
         /\ a.type = 4 => HostLen(a) = 16
         /\ a.type = 3 => HostLen(a) <= 255
         /\ LeadLen(a) \in {1, 2}
         /\ a.type = 3 => LeadLen(a) = 2
         /\ a.type # 3 => LeadLen(a) = 1
         /\ a.port \in Nat
<1>1. /\ a \in [type : {1, 3, 4}, host : Seq(Byte), port : Nat]
      /\ a.type = 1 => HostLen(a) = 4
      /\ a.type = 4 => HostLen(a) = 16
      /\ a.type = 3 => HostLen(a) \in Byte
  BY SMT DEF Assumed, AskedAssumption, HostLen
<1>2. Byte \subseteq Int /\ \A b \in Byte : b <= 255
  BY SMT DEF Byte
<1>3. a.host \in Seq(Int)
  BY <1>1, <1>2, SeqMonotonic
<1>4. HostLen(a) \in Nat
  BY <1>3, LenProperties DEF HostLen
<1>5. a.type = 3 => HostLen(a) <= 255
  BY <1>1, <1>2
<1>6. LeadLen(a) \in {1, 2} /\ (a.type = 3 => LeadLen(a) = 2) /\ (a.type # 3 => LeadLen(a) = 1)
  BY DEF LeadLen
<1>7. a.type \in {1, 3, 4} /\ a.port \in Nat
  BY <1>1
<1> QED
  BY <1>1, <1>3, <1>4, <1>5, <1>6, <1>7, Zenon

LEMMA AskedRecord ==
  ASSUME Assumed, NEW a \in Asked, NEW t, NEW h, NEW p, t = a.type, h = a.host, p = a.port
  PROVE  [type |-> t, host |-> h, port |-> p] = a
<1>1. a \in [type : {1, 3, 4}, host : Seq(Byte), port : Nat]
  BY SMT DEF Assumed, AskedAssumption
<1> QED
  BY <1>1

(* Two facts about sequences of bytes, in the form they are used in.       *)
LEMMA JoinedBytes ==
  ASSUME NEW s \in Seq(Int), NEW t \in Seq(Int)
  PROVE  /\ s \o t \in Seq(Int)
         /\ Len(s \o t) = Len(s) + Len(t)
         /\ \A i \in 1 .. Len(s) : (s \o t)[i] = s[i]
         /\ \A i \in 1 .. Len(t) : (s \o t)[Len(s) + i] = t[i]
<1> DEFINE m == Len(s)
           n == Len(t)
<1>1. /\ s \o t \in Seq(Int)
      /\ Len(s \o t) = Len(s) + Len(t)
      /\ \A i \in 1 .. Len(s) + Len(t) :
           (s \o t)[i] = IF i <= Len(s) THEN s[i] ELSE t[i - Len(s)]
  BY ConcatProperties
<1>2. /\ m \in Nat /\ n \in Nat
      /\ \A i \in 1 .. m + n : (s \o t)[i] = IF i <= m THEN s[i] ELSE t[i - m]
  BY <1>1, LenProperties
<1> HIDE DEF m, n
<1>3. ASSUME NEW i \in 1 .. m
      PROVE  (s \o t)[i] = s[i]
  <2>1. i \in 1 .. m + n /\ i <= m
    BY <1>2, <1>3
  <2> QED
    BY <1>2, <2>1
<1>4. ASSUME NEW i \in 1 .. n
      PROVE  (s \o t)[m + i] = t[i]
  <2>1. m + i \in 1 .. m + n /\ ~ (m + i <= m) /\ (m + i) - m = i
    BY <1>2, <1>4
  <2> QED
    BY <1>2, <2>1
<1> QED
  BY <1>1, <1>3, <1>4 DEF m, n

LEMMA PartOfBytes ==
  ASSUME NEW s \in Seq(Int), NEW m \in Nat, NEW n \in Nat, m + n <= Len(s)
  PROVE  /\ SubSeq(s, m + 1, m + n) \in Seq(Int)
         /\ Len(SubSeq(s, m + 1, m + n)) = n
         /\ \A i \in 1 .. n : SubSeq(s, m + 1, m + n)[i] = s[m + i]
<1> DEFINE from == m + 1
           to == m + n
<1>1. from \in Int /\ to \in Int /\ to - from + 1 = n /\ Len(s) \in Nat
  BY LenProperties
<1>2. \A i \in from .. to : s[i] \in Int
  <2>1. \A i \in from .. to : i \in 1 .. Len(s)
    BY <1>1
  <2> QED
    BY <2>1, ElementOfSeq
<1>3. (from <= to) <=> (n # 0)
  OBVIOUS
<1>4. \A i \in 1 .. n : from + i - 1 = m + i
  OBVIOUS
<1> HIDE DEF from, to
<1>5. /\ SubSeq(s, from, to) \in Seq(Int)
      /\ Len(SubSeq(s, from, to)) = IF from <= to THEN to - from + 1 ELSE 0
      /\ \A i \in 1 .. to - from + 1 : SubSeq(s, from, to)[i] = s[from + i - 1]
  BY <1>1, <1>2, SubSeqProperties
<1>6. Len(SubSeq(s, from, to)) = n
  BY <1>1, <1>3, <1>5
<1>7. \A i \in 1 .. n : SubSeq(s, from, to)[i] = s[m + i]
  BY <1>1, <1>4, <1>5
<1> QED
  BY <1>5, <1>6, <1>7 DEF from, to

LEMMA BytesAre ==
  ASSUME Assumed, NEW a \in Asked
  PROVE  /\ Bytes(a) \in Seq(Int)
         /\ Len(Bytes(a)) = LeadLen(a) + HostLen(a) + 2
         /\ Bytes(a)[1] = a.type
         /\ a.type = 3 => Bytes(a)[2] = HostLen(a)
         /\ \A i \in 1 .. HostLen(a) : Bytes(a)[LeadLen(a) + i] = a.host[i]
         /\ (Bytes(a)[LeadLen(a) + HostLen(a) + 1] * 256)
              + Bytes(a)[LeadLen(a) + HostLen(a) + 2] = a.port
<1> DEFINE w == LeadLen(a)
           h == HostLen(a)
           front == Lead(a) \o a.host
           end == <<a.port \div 256, a.port % 256>>
<1>1. /\ a.type \in {1, 3, 4} /\ a.host \in Seq(Int) /\ h \in Nat /\ a.port \in Nat
      /\ w \in Nat /\ w >= 1 /\ (a.type = 3 => w = 2)
  BY AskedTypes
<1>2. /\ Lead(a) \in Seq(Int) /\ Len(Lead(a)) = w
      /\ Lead(a)[1] = a.type /\ (a.type = 3 => Lead(a)[2] = h)
  <2>1. CASE a.type = 3
    <3>1. Lead(a) = <<3, h>> /\ w = 2
      BY <2>1 DEF Lead, HostLen, LeadLen
    <3> QED
      BY <1>1, <2>1, <3>1
  <2>2. CASE a.type # 3
    <3>1. Lead(a) = <<a.type>> /\ w = 1
      BY <2>2 DEF Lead, LeadLen
    <3> QED
      BY <1>1, <2>2, <3>1
  <2> QED
    BY <2>1, <2>2
<1>3. /\ end \in Seq(Int) /\ Len(end) = 2
      /\ end[1] = a.port \div 256 /\ end[2] = a.port % 256
  <2>1. a.port \div 256 \in Int /\ a.port % 256 \in Int
    BY <1>1
  <2> QED
    BY <2>1
<1>4. (a.port \div 256) * 256 + (a.port % 256) = a.port
  BY <1>1
<1>5. h = Len(a.host)
  BY DEF HostLen
<1> HIDE DEF w, h, end
<1>6. /\ front \in Seq(Int) /\ Len(front) = w + h
      /\ \A i \in 1 .. w : front[i] = Lead(a)[i]
      /\ \A i \in 1 .. h : front[w + i] = a.host[i]
  <2>1. /\ front \in Seq(Int) /\ Len(front) = Len(Lead(a)) + Len(a.host)
        /\ \A i \in 1 .. Len(Lead(a)) : front[i] = Lead(a)[i]
        /\ \A i \in 1 .. Len(a.host) : front[Len(Lead(a)) + i] = a.host[i]
    BY <1>1, <1>2, JoinedBytes
  <2> QED
    BY <1>2, <1>5, <2>1
<1> HIDE DEF front
<1>7. /\ Bytes(a) \in Seq(Int) /\ Len(Bytes(a)) = w + h + 2
      /\ \A i \in 1 .. w + h : Bytes(a)[i] = front[i]
      /\ \A i \in 1 .. 2 : Bytes(a)[w + h + i] = end[i]
  <2>1. Bytes(a) = front \o end
    BY DEF Bytes, front, end
  <2>2. front \in Seq(Int) /\ end \in Seq(Int)
    BY <1>3, <1>6
  <2>3. /\ front \o end \in Seq(Int) /\ Len(front \o end) = Len(front) + Len(end)
        /\ \A i \in 1 .. Len(front) : (front \o end)[i] = front[i]
        /\ \A i \in 1 .. Len(end) : (front \o end)[Len(front) + i] = end[i]
    BY <2>2, JoinedBytes
  <2> QED
    BY <1>3, <1>6, <2>1, <2>3
<1>8. Bytes(a)[1] = a.type /\ (a.type = 3 => Bytes(a)[2] = h)
  <2>1. 1 \in 1 .. w /\ 1 \in 1 .. w + h
    BY <1>1
  <2>2. a.type = 3 => 2 \in 1 .. w /\ 2 \in 1 .. w + h
    BY <1>1
  <2> QED
    BY <1>2, <1>6, <1>7, <2>1, <2>2
<1>9. \A i \in 1 .. h : Bytes(a)[w + i] = a.host[i]
  <2>1. \A i \in 1 .. h : w + i \in 1 .. w + h
    BY <1>1
  <2> QED
    BY <1>6, <1>7, <2>1
<1>10. Bytes(a)[w + h + 1] = a.port \div 256 /\ Bytes(a)[w + h + 2] = a.port % 256
  BY <1>3, <1>7
<1>11. (Bytes(a)[w + h + 1] * 256) + Bytes(a)[w + h + 2] = a.port
  BY <1>4, <1>10
<1> QED
  BY <1>7, <1>8, <1>9, <1>11, SMT DEF w, h

(* The bytes of a socks5 request after the first three, and those that     *)
(* parse_addr() makes of an address.                                       *)
LEMMA RequestIs ==
  ASSUME Assumed, NEW a \in Asked
  PROVE  /\ Request(a) \in Seq(Int)
         /\ Len(Request(a)) = 3 + Len(Bytes(a))
         /\ \A i \in 1 .. Len(Bytes(a)) : Request(a)[3 + i] = Bytes(a)[i]
         /\ a.type # 3 => ParseAddr(a) = Bytes(a)
<1>1. a.type # 3 => ParseAddr(a) = Bytes(a)
  BY SMT DEF ParseAddr, Bytes, Lead
<1> DEFINE first == <<5, 1, 0>>
<1>2. Request(a) = first \o Bytes(a)
  <2>1. CASE a.type = 3
    BY <2>1, SMT DEF Request, Bytes, Lead
  <2>2. CASE a.type # 3
    BY <1>1, <2>2, SMT DEF Request
  <2> QED
    BY <2>1, <2>2
<1>3. first \in Seq(Int) /\ Len(first) = 3
  OBVIOUS
<1>4. Bytes(a) \in Seq(Int)
  BY BytesAre
<1> HIDE DEF first
<1>5. /\ first \o Bytes(a) \in Seq(Int)
      /\ Len(first \o Bytes(a)) = Len(first) + Len(Bytes(a))
      /\ \A i \in 1 .. Len(Bytes(a)) : (first \o Bytes(a))[Len(first) + i] = Bytes(a)[i]
  BY <1>3, <1>4, JoinedBytes
<1> QED
  BY <1>1, <1>2, <1>3, <1>5

(* The first k bytes of an array are those of a destination.               *)
Begins(data, k, a) ==
  /\ data \in Seq(Int)
  /\ k <= Len(data)
  /\ \A i \in 1 .. k : i <= Len(Bytes(a)) => data[i] = Bytes(a)[i]

LEMMA HostRead ==
  ASSUME Assumed, NEW a \in Asked, NEW data, Begins(data, Len(Bytes(a)), a)
  PROVE  /\ SubSeq(data, LeadLen(a) + 1, LeadLen(a) + HostLen(a)) = a.host
         /\ Port(data, LeadLen(a) + HostLen(a) + 1) = a.port
<1> DEFINE w == LeadLen(a)
           h == HostLen(a)
<1>1. a.host \in Seq(Int) /\ h \in Nat /\ w \in Nat
  BY AskedTypes
<1>2. /\ Bytes(a) \in Seq(Int) /\ Len(Bytes(a)) = w + h + 2
      /\ \A i \in 1 .. h : Bytes(a)[w + i] = a.host[i]
      /\ (Bytes(a)[w + h + 1] * 256) + Bytes(a)[w + h + 2] = a.port
  BY BytesAre
<1>3. h = Len(a.host)
  BY DEF HostLen
<1> HIDE DEF w, h
<1>4. /\ data \in Seq(Int) /\ w + h + 2 <= Len(data) /\ Len(data) \in Nat
      /\ \A i \in 1 .. w + h + 2 : data[i] = Bytes(a)[i]
  <2>1. /\ data \in Seq(Int) /\ Len(Bytes(a)) <= Len(data)
        /\ \A i \in 1 .. Len(Bytes(a)) : i <= Len(Bytes(a)) => data[i] = Bytes(a)[i]
    BY DEF Begins
  <2>2. Len(data) \in Nat
    BY <2>1, LenProperties
  <2> QED
    BY <1>1, <1>2, <2>1, <2>2
<1>5. SubSeq(data, w + 1, w + h) = a.host
  <2>1. w + h <= Len(data)
    BY <1>1, <1>4
  <2>2. /\ SubSeq(data, w + 1, w + h) \in Seq(Int)
        /\ Len(SubSeq(data, w + 1, w + h)) = h
        /\ \A i \in 1 .. h : SubSeq(data, w + 1, w + h)[i] = data[w + i]
    BY <1>1, <1>4, <2>1, PartOfBytes
  <2>3. \A i \in 1 .. h : w + i \in 1 .. w + h + 2
    BY <1>1
  <2>4. \A i \in 1 .. h : SubSeq(data, w + 1, w + h)[i] = a.host[i]
    BY <1>2, <1>4, <2>2, <2>3
  <2> QED
    BY <1>1, <1>3, <2>2, <2>4, SeqEqual
<1>6. Port(data, w + h + 1) = a.port
  <2>1. w + h + 1 \in 1 .. w + h + 2 /\ w + h + 2 \in 1 .. w + h + 2 /\ w + h + 1 + 1 = w + h + 2
    BY <1>1
  <2>2. Port(data, w + h + 1) = (data[w + h + 1] * 256) + data[w + h + 2]
    BY <2>1, SMT DEF Port
  <2> QED
    BY <1>2, <1>4, <2>1, <2>2
<1> QED
  BY <1>5, <1>6 DEF w, h

(* parse_address() of an array of which k bytes are known.                 *)
LEMMA Parsed ==
  ASSUME Assumed, NEW a \in Asked,
         NEW data, NEW k \in 3 .. Len(Bytes(a)), Begins(data, k, a)
  PROVE  ParseAddress(data, k) = IF k = Len(Bytes(a)) THEN a ELSE Refused
<1> DEFINE size == CASE data[1] = 1 -> 4 [] data[1] = 4 -> 16 [] OTHER -> data[2]
           start == IF data[1] = 3 THEN 3 ELSE 2
           w == LeadLen(a)
           h == HostLen(a)
           n == Len(Bytes(a))
           t == a.type
<1>1. /\ t \in {1, 3, 4} /\ h \in Nat /\ w \in {1, 2}
      /\ (t = 1 => h = 4) /\ (t = 4 => h = 16) /\ (t = 3 => w = 2) /\ (t # 3 => w = 1)
  BY AskedTypes
<1>2. /\ n = w + h + 2 /\ Bytes(a)[1] = t /\ (t = 3 => Bytes(a)[2] = h)
  BY BytesAre
<1>3. \A i \in 1 .. k : i <= n => data[i] = Bytes(a)[i]
  BY DEF Begins
<1>4. k \in 3 .. n
  OBVIOUS
<1>5. ParseAddress(data, k) =
        IF data[1] \notin {1, 3, 4} \/ k < size + start + 1
        THEN Refused
        ELSE [type |-> data[1],
              host |-> SubSeq(data, start, start + size - 1),
              port |-> Port(data, start + size)]
  BY DEF ParseAddress
<1>6. ASSUME k = n
      PROVE  SubSeq(data, w + 1, w + h) = a.host /\ Port(data, w + h + 1) = a.port
  BY <1>6, HostRead
<1>7. t = a.type
  OBVIOUS
<1> HIDE DEF w, h, n, t
<1>8. data[1] = t /\ data[2] = Bytes(a)[2]
  <2>1. 1 \in 1 .. k /\ 2 \in 1 .. k /\ 1 <= n /\ 2 <= n
    BY <1>1, <1>2, <1>4
  <2> QED
    BY <1>2, <1>3, <2>1
<1>9. size = h /\ start = w + 1
  <2>1. CASE t = 1
    BY <1>1, <1>8, <2>1
  <2>2. CASE t = 4
    BY <1>1, <1>8, <2>2
  <2>3. CASE t = 3
    BY <1>1, <1>2, <1>8, <2>3
  <2> QED
    BY <1>1, <2>1, <2>2, <2>3
<1> HIDE DEF size, start
<1>10. CASE k = n
  <2>1. /\ ~ (k < size + start + 1) /\ start + size - 1 = w + h /\ start + size = w + h + 1
    BY <1>1, <1>2, <1>9, <1>10
  <2>2. ParseAddress(data, k) =
          [type |-> t, host |-> SubSeq(data, w + 1, w + h), port |-> Port(data, w + h + 1)]
    BY <1>1, <1>5, <1>8, <1>9, <2>1
  <2>3. ParseAddress(data, k) = a
    BY <1>6, <1>7, <1>10, <2>2, AskedRecord
  <2> QED
    BY <1>10, <2>3 DEF n
<1>11. CASE k # n
  <2>1. k < size + start + 1
    BY <1>1, <1>2, <1>4, <1>9, <1>11
  <2> QED
    BY <1>5, <1>11, <2>1 DEF n
<1> QED
  BY <1>10, <1>11

(* get_data_addr() of the bytes of an address.                             *)
LEMMA AddressRead ==
  ASSUME Assumed, NEW a \in Asked, a.type # 3,
         NEW data, Begins(data, Len(Bytes(a)), a)
  PROVE  GetDataAddr(data) = a
<1> DEFINE h == HostLen(a)
           t == a.type
<1>1. t \in {1, 4} /\ h \in Nat /\ (t = 1 => h = 4) /\ (t = 4 => h = 16) /\ LeadLen(a) = 1
  BY AskedTypes
<1>2. Len(Bytes(a)) = 1 + h + 2 /\ Bytes(a)[1] = t
  BY <1>1, BytesAre
<1>3. SubSeq(data, 1 + 1, 1 + h) = a.host /\ Port(data, 1 + h + 1) = a.port
  BY <1>1, HostRead
<1>4. t = a.type
  OBVIOUS
<1> HIDE DEF h, t
<1>5. data[1] = t
  <2>1. 1 \in 1 .. Len(Bytes(a)) /\ 1 <= Len(Bytes(a))
    BY <1>1, <1>2
  <2> QED
    BY <1>2, <2>1 DEF Begins
<1>6. CASE t = 1
  <2>1. 1 + 1 = 2 /\ 1 + h = 4 + 1 /\ 1 + h + 1 = 4 + 2
    BY <1>1, <1>6
  <2>2. SubSeq(data, 2, 4 + 1) = a.host /\ Port(data, 4 + 2) = a.port
    BY <1>3, <2>1
  <2>3. GetDataAddr(data) =
          [type |-> t, host |-> SubSeq(data, 2, 4 + 1), port |-> Port(data, 4 + 2)]
    BY <1>5, <1>6 DEF GetDataAddr
  <2> QED
    BY <1>4, <2>2, <2>3, AskedRecord
<1>7. CASE t = 4
  <2>1. 1 + 1 = 2 /\ 1 + h = 16 + 1 /\ 1 + h + 1 = 16 + 2
    BY <1>1, <1>7
  <2>2. SubSeq(data, 2, 16 + 1) = a.host /\ Port(data, 16 + 2) = a.port
    BY <1>3, <2>1
  <2>3. GetDataAddr(data) =
          [type |-> t, host |-> SubSeq(data, 2, 16 + 1), port |-> Port(data, 16 + 2)]
    BY <1>5, <1>7 DEF GetDataAddr
  <2> QED
    BY <1>4, <2>2, <2>3, AskedRecord
<1> QED
  BY <1>1, <1>6, <1>7

(* Arrays.                                                                 *)
LEMMA ArrayIs ==
  ASSUME NEW s \in Seq(Int), NEW size \in Nat
  PROVE  /\ Array(s, size) \in Seq(Int)
         /\ Len(Array(s, size)) = size
         /\ \A i \in 1 .. size : i <= Len(s) => Array(s, size)[i] = s[i]
<1>1. Len(s) \in Nat /\ \A i \in 1 .. Len(s) : s[i] \in Int
  BY LenProperties, ElementOfSeq
<1>2. Array(s, size) = [i \in 1 .. size |-> IF i <= Len(s) THEN s[i] ELSE 0]
  BY DEF Array
<1>3. \A i \in 1 .. size : (IF i <= Len(s) THEN s[i] ELSE 0) \in Int
  BY <1>1
<1>4. Array(s, size) \in [1 .. size -> Int]
  BY <1>2, <1>3
<1>5. Array(s, size) \in Seq(Int) /\ Len(Array(s, size)) = size
  BY <1>4
<1>6. \A i \in 1 .. size : i <= Len(s) => Array(s, size)[i] = s[i]
  BY <1>2
<1> QED
  BY <1>5, <1>6

(* The frame of a request that begins with k bytes of a destination.       *)
LEMMA StartFrame ==
  ASSUME Assumed, NEW a \in Asked, NEW k \in Nat, NEW data, Begins(data, k, a), NEW len,
         k <= READ_BUFFER_SIZE
  PROVE  Begins(Message("START_TCP", len, data).data, k, a)
<1>1. data \in Seq(Int) /\ READ_BUFFER_SIZE \in Nat /\ k <= Len(data)
      /\ \A i \in 1 .. k : i <= Len(Bytes(a)) => data[i] = Bytes(a)[i]
  BY DEF Begins, Assumed, RequestsAssumption
<1>2. /\ Array(data, READ_BUFFER_SIZE) \in Seq(Int)
      /\ Len(Array(data, READ_BUFFER_SIZE)) = READ_BUFFER_SIZE
      /\ \A i \in 1 .. READ_BUFFER_SIZE :
           i <= Len(data) => Array(data, READ_BUFFER_SIZE)[i] = data[i]
  BY <1>1, ArrayIs
<1>3. Len(data) \in Nat
  BY <1>1, LenProperties
<1>4. \A i \in 1 .. k : i \in 1 .. READ_BUFFER_SIZE /\ i <= Len(data)
  BY <1>1, <1>3
<1>5. Message("START_TCP", len, data).data = Array(data, READ_BUFFER_SIZE)
  BY DEF Message
<1> QED
  BY <1>1, <1>2, <1>4, <1>5 DEF Begins

(* The frame of a datagram.                                                *)
LEMMA DatagramFrame ==
  ASSUME Assumed, NEW a \in Asked, a.type # 3, NEW p \in Seq(Int),
         Offset + Len(p) <= READ_BUFFER_SIZE
  PROVE  LET f == Datagram(Bytes(a), p, Len(p)) IN
         /\ f.what = "DATA_UDP"
         /\ f.len = Offset + Len(p)
         /\ Begins(f.data, Len(Bytes(a)), a)
         /\ Len(f.data) = READ_BUFFER_SIZE
         /\ \A i \in 1 .. Len(p) : f.data[Offset + i] = p[i]
<1> DEFINE n == Len(p)
           address == Array(Bytes(a), 19)
           whole == address \o p
           data == Array(whole, READ_BUFFER_SIZE)
<1>1. /\ READ_BUFFER_SIZE \in Nat /\ Width \in Nat /\ READ_BUFFER_SIZE < Width
      /\ n \in Nat /\ 19 + n <= READ_BUFFER_SIZE
  BY LenProperties DEF Assumed, RequestsAssumption, Offset
<1>2. Bytes(a) \in Seq(Int) /\ Len(Bytes(a)) \in Nat /\ Len(Bytes(a)) <= 19
  <2>1. /\ a.type \in {1, 4} /\ LeadLen(a) = 1
        /\ (a.type = 1 => HostLen(a) = 4) /\ (a.type = 4 => HostLen(a) = 16)
    BY AskedTypes
  <2>2. HostLen(a) = 4 \/ HostLen(a) = 16
    BY <2>1
  <2>3. Bytes(a) \in Seq(Int) /\ Len(Bytes(a)) = 1 + HostLen(a) + 2
    BY <2>1, BytesAre
  <2> QED
    BY <2>2, <2>3
<1>3. /\ address \in Seq(Int) /\ Len(address) = 19
      /\ \A i \in 1 .. 19 : i <= Len(Bytes(a)) => address[i] = Bytes(a)[i]
  <2>1. 19 \in Nat
    OBVIOUS
  <2> QED
    BY <1>2, <2>1, ArrayIs
<1>4. n = Len(p)
  OBVIOUS
<1>5. /\ Datagram(Bytes(a), p, n).what = "DATA_UDP"
      /\ Datagram(Bytes(a), p, n).len = (n + 19) % Width
      /\ Datagram(Bytes(a), p, n).data = data
  BY DEF Datagram, Message, ResizeUdp, Offset
<1> HIDE DEF n, address
<1>6. /\ whole \in Seq(Int) /\ Len(whole) = 19 + n
      /\ \A i \in 1 .. 19 : whole[i] = address[i]
      /\ \A i \in 1 .. n : whole[19 + i] = p[i]
  <2>1. /\ address \o p \in Seq(Int) /\ Len(address \o p) = Len(address) + Len(p)
        /\ \A i \in 1 .. Len(address) : (address \o p)[i] = address[i]
        /\ \A i \in 1 .. Len(p) : (address \o p)[Len(address) + i] = p[i]
    BY <1>3, JoinedBytes
  <2> QED
    BY <1>3, <1>4, <2>1
<1> HIDE DEF whole
<1>7. /\ data \in Seq(Int) /\ Len(data) = READ_BUFFER_SIZE
      /\ \A i \in 1 .. READ_BUFFER_SIZE : i <= Len(whole) => data[i] = whole[i]
  BY <1>1, <1>6, ArrayIs
<1> HIDE DEF data
<1>8. \A i \in 1 .. 19 + n : data[i] = whole[i]
  <2>1. \A i \in 1 .. 19 + n : i \in 1 .. READ_BUFFER_SIZE /\ i <= 19 + n
    BY <1>1
  <2> QED
    BY <1>6, <1>7, <2>1
<1>9. Begins(data, Len(Bytes(a)), a)
  <2>1. \A i \in 1 .. Len(Bytes(a)) : i \in 1 .. 19 /\ i \in 1 .. 19 + n
    BY <1>1, <1>2
  <2>2. Len(Bytes(a)) <= READ_BUFFER_SIZE
    BY <1>1, <1>2
  <2> QED
    BY <1>3, <1>6, <1>7, <1>8, <2>1, <2>2 DEF Begins
<1>10. \A i \in 1 .. n : data[19 + i] = p[i]
  <2>1. \A i \in 1 .. n : 19 + i \in 1 .. 19 + n
    BY <1>1
  <2> QED
    BY <1>6, <1>8, <2>1
<1>11. (n + 19) % Width = 19 + n
  <2>1. n + 19 \in Nat /\ n + 19 < Width
    BY <1>1
  <2> QED
    BY <1>1, <2>1
<1> QED
  BY <1>4, <1>5, <1>7, <1>9, <1>10, <1>11 DEF Offset

-----------------------------------------------------------------------------
(* What the frame on the link holds: the whole of a destination, of which  *)
(* the client's bytes were all read; a datagram that was received, cut to  *)
(* the buffer; or the length that a failed receive leaves.                 *)
StartCarried ==
  /\ frame.what = "START_TCP"
  /\ asked.what = "connect"
  /\ asked.to \in Asked
  /\ asked.whole = TRUE
  /\ frame.len = Len(Bytes(asked.to))
  /\ frame.len <= READ_BUFFER_SIZE => Begins(frame.data, frame.len, asked.to)

Kept(p) == Min({Len(p), READ_BUFFER_SIZE - Offset})

DatagramCarried ==
  /\ frame.what = "DATA_UDP"
  /\ asked.what = "datagram"
  /\ asked.to \in Asked
  /\ asked.to.type # 3
  /\ asked.payload \in Payloads
  /\ frame.len = Offset + Kept(asked.payload)
  /\ frame.data \in Seq(Int)
  /\ Len(frame.data) = READ_BUFFER_SIZE
  /\ Begins(frame.data, Len(Bytes(asked.to)), asked.to)
  /\ \A i \in 1 .. Kept(asked.payload) : frame.data[Offset + i] = asked.payload[i]

FailureCarried ==
  /\ frame.what = "DATA_UDP"
  /\ asked.what = "failure"
  /\ frame.len = Offset - 1

NoFrame == frame = Nothing

MessageInv ==
  /\ NoFrame \/ StartCarried \/ DatagramCarried \/ FailureCarried
  /\ ~ NoFrame => outcome = Nothing
  /\ asked = Nothing => NoFrame /\ outcome = Nothing
  /\ DestinationIsAsked
  /\ DatagramIntact

(* How much of a payload is kept.                                          *)
LEMMA KeptIs ==
  ASSUME Assumed, NEW p \in Payloads
  PROVE  /\ p \in Seq(Int)
         /\ Len(p) \in Nat
         /\ Kept(p) \in Nat
         /\ Kept(p) <= Len(p)
         /\ Offset + Kept(p) <= READ_BUFFER_SIZE
         /\ READ_BUFFER_SIZE \in Nat
         /\ READ_BUFFER_SIZE < Width
         /\ Width \in Nat
         /\ Kept(p) <= READ_BUFFER_SIZE - Offset
<1>1. p \in Seq(Byte)
  BY SMT DEF Assumed, PayloadsAssumption
<1>2. Byte \subseteq Int
  BY SMT DEF Byte
<1>3. p \in Seq(Int)
  BY <1>1, <1>2, SeqMonotonic
<1>4. Len(p) \in Nat
  BY <1>3, LenProperties
<1>5. READ_BUFFER_SIZE \in Nat /\ READ_BUFFER_SIZE < Width /\ Width \in Nat /\ 19 <= READ_BUFFER_SIZE
  BY DEF Assumed, RequestsAssumption, Offset
<1> DEFINE room == READ_BUFFER_SIZE - 19
<1>6. room \in Nat
  BY <1>5
<1>7. Kept(p) = Min({Len(p), room})
  BY DEF Kept, Offset
<1> HIDE DEF room
<1>8. Kept(p) = IF Len(p) <= room THEN Len(p) ELSE room
  BY <1>4, <1>6, <1>7 DEF Min
<1> QED
  BY <1>3, <1>4, <1>5, <1>6, <1>8 DEF room, Offset

LEMMA Lengths ==
  ASSUME Assumed
  PROVE  /\ ResizeUdp(-1) = Offset - 1
         /\ UdpDataSize(Offset - 1) > READ_BUFFER_SIZE - Offset
         /\ UdpDataSize(READ_BUFFER_SIZE) = READ_BUFFER_SIZE - Offset
         /\ \A n \in Nat : n < Width => UdpDataSize(Offset + n) = n
<1>1. READ_BUFFER_SIZE \in Nat /\ READ_BUFFER_SIZE < Width /\ Width \in Nat /\ 19 <= READ_BUFFER_SIZE
  BY DEF Assumed, RequestsAssumption, Offset
<1>2. (-1) + 19 = 18 /\ 18 % Width = 18
  BY <1>1
<1>3. 18 - 19 = -1 /\ (-1) % Width = Width - 1
  BY <1>1
<1>4. (READ_BUFFER_SIZE - 19) % Width = READ_BUFFER_SIZE - 19
  BY <1>1
<1>5. ASSUME NEW n \in Nat, n < Width
      PROVE  (19 + n - 19) % Width = n
  BY <1>1, <1>5
<1> QED
  BY <1>1, <1>2, <1>3, <1>4, <1>5 DEF ResizeUdp, UdpDataSize, Offset

(* The messages that mean that nothing has become of a request yet.        *)
LEMMA NothingSaid ==
  /\ Nothing.what = "nothing"
  /\ outcome = Nothing => DestinationIsAsked /\ DatagramIntact
<1>1. Nothing.what = "nothing"
  BY DEF Nothing
<1>2. ASSUME outcome = Nothing
      PROVE  DestinationIsAsked /\ DatagramIntact
  <2>1. outcome.what = "nothing"
    BY <1>1, <1>2
  <2> QED
    BY <2>1 DEF DestinationIsAsked, DatagramIntact
<1> QED
  BY <1>1, <1>2

(* What impl_start_local() makes of the first len bytes of a request.      *)
LEMMA SocksParsed ==
  ASSUME Assumed, NEW a \in Asked, NEW len \in 1 .. Len(Request(a))
  PROVE  LET data == Array(SubSeq(Request(a), 4, len), 509)
             d == IF len < 6 THEN Refused ELSE ParseAddress(data, len - 3) IN
         /\ d = IF len = 3 + Len(Bytes(a)) THEN a ELSE Refused
         /\ len >= 6 => Begins(data, len - 3, a)
         /\ a # Refused
<1> DEFINE s == Request(a)
           n == Len(Bytes(a))
           k == len - 3
           part == SubSeq(s, 3 + 1, 3 + k)
           data == Array(part, 509)
<1>1. n \in Nat /\ 4 <= n /\ n <= 509
  <2>1. /\ a.type \in {1, 3, 4} /\ HostLen(a) \in Nat /\ LeadLen(a) \in {1, 2}
        /\ (a.type = 1 => HostLen(a) = 4) /\ (a.type = 4 => HostLen(a) = 16)
        /\ (a.type = 3 => HostLen(a) <= 255) /\ (a.type = 3 => LeadLen(a) = 2)
    BY AskedTypes
  <2>2. n = LeadLen(a) + HostLen(a) + 2
    BY BytesAre
  <2>3. HostLen(a) <= 255 /\ 2 <= LeadLen(a) + HostLen(a)
    BY <2>1, SMT
  <2> HIDE DEF n
  <2> QED
    BY <2>1, <2>2, <2>3, SMT
<1>2. /\ s \in Seq(Int) /\ Len(s) = 3 + n
      /\ \A i \in 1 .. n : s[3 + i] = Bytes(a)[i]
  BY RequestIs
<1>3. len \in Nat /\ 1 <= len /\ len <= 3 + n /\ k \in Int /\ 3 + k = len
  BY <1>1, <1>2
<1>4. a # Refused
  BY AskedTypes DEF Refused
<1>5. part = SubSeq(s, 4, len)
  BY <1>3
<1> DEFINE d == IF len < 6 THEN Refused ELSE ParseAddress(data, len - 3)
<1>6. CASE len < 6
  <2>1. len # 3 + n
    BY <1>1, <1>3, <1>6
  <2> QED
    BY <1>3, <1>4, <1>6, <2>1, SMT
<1>7. CASE len >= 6
  <2>1. k \in Nat /\ 3 <= k /\ k <= n /\ 3 + k <= Len(s) /\ ~ (len < 6)
    BY <1>1, <1>2, <1>3, <1>7
  <2>2. 3 \in Nat
    OBVIOUS
  <2> HIDE DEF s, k, n
  <2>3. part \in Seq(Int) /\ Len(part) = k /\ \A i \in 1 .. k : part[i] = s[3 + i]
    BY <1>2, <2>1, <2>2, PartOfBytes
  <2> HIDE DEF part
  <2> DEFINE size == 509
  <2>4. size \in Nat /\ n <= size /\ data = Array(part, size)
    BY <1>1, SMT
  <2> HIDE DEF size, data
  <2>5. data \in Seq(Int) /\ Len(data) = size /\ \A i \in 1 .. size : i <= Len(part) => data[i] = part[i]
    <3>1. part \in Seq(Int)
      BY <2>3
    <3> QED
      BY <2>4, <3>1, ArrayIs
  <2>6. Begins(data, k, a)
    <3>1. \A i \in 1 .. k : i \in 1 .. size /\ i <= k /\ i \in 1 .. n /\ i <= n
      BY <1>1, <2>1, <2>4
    <3>2. \A i \in 1 .. k : data[i] = part[i]
      BY <2>3, <2>5, <3>1
    <3>3. \A i \in 1 .. k : part[i] = Bytes(a)[i]
      BY <1>2, <2>3, <3>1
    <3>4. k <= Len(data)
      BY <1>1, <2>1, <2>4, <2>5
    <3> QED
      BY <2>5, <3>2, <3>3, <3>4 DEF Begins
  <2>7. ParseAddress(data, k) = IF k = Len(Bytes(a)) THEN a ELSE Refused
    <3>1. k \in 3 .. Len(Bytes(a))
      BY <1>1, <2>1 DEF n
    <3> QED
      BY <2>6, <3>1, Parsed
  <2>8. k = Len(Bytes(a)) <=> len = 3 + Len(Bytes(a))
    BY <1>1, <1>3 DEF n
  <2>9. d = IF len = 3 + Len(Bytes(a)) THEN a ELSE Refused
    BY <2>1, <2>7, <2>8 DEF k
  <2> QED
    BY <1>4, <1>5, <2>6, <2>9, SMT DEF k, data, s
<1> QED
  BY <1>3, <1>6, <1>7

LEMMA SocksInv ==
  ASSUME Assumed, MessageInv, NEW a \in Asked, NEW len \in 1 .. Len(Request(a)),
         AsksSocks(a, len)
  PROVE  MessageInv'
<1> DEFINE data == Array(SubSeq(Request(a), 4, len), 509)
           d == IF len < 6 THEN Refused ELSE ParseAddress(data, len - 3)
           whole == len = Len(Request(a))
<1>1. /\ asked = Nothing /\ frame = Nothing /\ outcome = Nothing
  BY DEF MessageInv, NoFrame, AsksSocks
<1>2. /\ d = IF len = 3 + Len(Bytes(a)) THEN a ELSE Refused
      /\ len >= 6 => Begins(data, len - 3, a)
      /\ a # Refused
  BY SocksParsed
<1>3. /\ asked' = [what |-> "connect", to |-> a, whole |-> whole]
      /\ \/ d = Refused /\ outcome' = [what |-> "refused"] /\ frame' = frame
         \/ d # Refused /\ outcome' = [what |-> "direct", to |-> d] /\ frame' = frame
         \/ /\ d # Refused
            /\ frame' = Message("START_TCP", len - 3, data)
            /\ outcome' = outcome
  BY SMT DEF AsksSocks
<1>4. Len(Request(a)) = 3 + Len(Bytes(a)) /\ Len(Bytes(a)) \in Nat
  BY RequestIs, BytesAre, LenProperties
<1>5. (d = a <=> whole) /\ (d = Refused <=> ~ whole)
  BY <1>2, <1>4
<1>6. d = Refused => len < 6 \/ len # 3 + Len(Bytes(a))
  BY <1>2
<1>7. whole => len - 3 = Len(Bytes(a)) /\ len >= 6
  <2>1. len < 6 => d = Refused
    OBVIOUS
  <2>2. len \in Nat
    BY <1>4
  <2> HIDE DEF d
  <2> QED
    BY <1>4, <1>5, <2>1, <2>2, <1>2
<1> HIDE DEF data, d, whole
<1>8. CASE d = Refused /\ outcome' = [what |-> "refused"] /\ frame' = frame
  <2>1. asked'.whole = whole /\ ~ whole /\ outcome'.what = "refused" /\ asked' # Nothing
    BY <1>3, <1>5, <1>8 DEF Nothing
  <2> QED
    BY <1>1, <1>8, <2>1 DEF MessageInv, NoFrame, DestinationIsAsked, DatagramIntact
<1>9. CASE d # Refused /\ outcome' = [what |-> "direct", to |-> d] /\ frame' = frame
  <2>1. /\ asked'.whole = whole /\ whole /\ asked'.to = a /\ asked' # Nothing
        /\ outcome'.what = "direct" /\ outcome'.to = a
    BY <1>3, <1>5, <1>9 DEF Nothing
  <2> QED
    BY <1>1, <1>9, <2>1 DEF MessageInv, NoFrame, DestinationIsAsked, DatagramIntact
<1>10. CASE /\ d # Refused
            /\ frame' = Message("START_TCP", len - 3, data)
            /\ outcome' = outcome
  <2>1. /\ asked'.whole = whole /\ whole = TRUE /\ asked'.to = a /\ asked'.what = "connect"
        /\ asked' # Nothing
    BY <1>3, <1>5, <1>10 DEF Nothing
  <2>2. frame'.what = "START_TCP" /\ frame'.len = len - 3 /\ frame'.len = Len(Bytes(a))
    BY <1>7, <1>10, <2>1 DEF Message
  <2>3. frame'.len <= READ_BUFFER_SIZE => Begins(frame'.data, frame'.len, a)
    <3>1. Begins(data, Len(Bytes(a)), a)
      BY <1>2, <1>7, <2>1
    <3>2. Len(Bytes(a)) <= READ_BUFFER_SIZE =>
            Begins(Message("START_TCP", len - 3, data).data, Len(Bytes(a)), a)
      BY <1>4, <3>1, StartFrame
    <3> QED
      BY <1>10, <2>2, <3>2
  <2>4. StartCarried'
    BY <2>1, <2>2, <2>3 DEF StartCarried
  <2>5. DestinationIsAsked' /\ DatagramIntact'
    <3>1. outcome'.what = "nothing"
      BY <1>1, <1>10, NothingSaid
    <3> QED
      BY <3>1 DEF DestinationIsAsked, DatagramIntact
  <2> QED
    BY <1>1, <1>10, <2>1, <2>4, <2>5 DEF MessageInv, NoFrame
<1> QED
  BY <1>3, <1>8, <1>9, <1>10

(* The frame that a handler has made, for a request it has begun.          *)
LEMMA FrameMade ==
  ASSUME MessageInv, asked = Nothing, asked' # Nothing, outcome' = outcome,
         StartCarried' \/ DatagramCarried' \/ FailureCarried'
  PROVE  MessageInv'
<1>1. outcome' = Nothing
  BY DEF MessageInv
<1>2. outcome'.what = "nothing"
  BY <1>1, NothingSaid
<1>3. DestinationIsAsked' /\ DatagramIntact'
  BY <1>2 DEF DestinationIsAsked, DatagramIntact
<1> QED
  BY <1>1, <1>3 DEF MessageInv

LEMMA TransparentInv ==
  ASSUME Assumed, MessageInv, NEW a \in Asked, a.type # 3, AsksTransparent(a)
  PROVE  MessageInv'
<1>1. /\ ParseAddr(a) = Bytes(a) /\ Bytes(a) \in Seq(Int)
      /\ Len(Bytes(a)) \in Nat
  BY RequestIs, BytesAre, LenProperties
<1>2. Begins(Bytes(a), Len(Bytes(a)), a)
  BY <1>1 DEF Begins
<1>3. /\ asked = Nothing /\ outcome' = outcome
      /\ asked' = [what |-> "connect", to |-> a, whole |-> TRUE]
      /\ frame' = Message("START_TCP", Len(Bytes(a)), Bytes(a))
  BY <1>1 DEF AsksTransparent
<1>4. asked' # Nothing /\ asked'.what = "connect" /\ asked'.to = a /\ asked'.whole = TRUE
  BY <1>3 DEF Nothing
<1>5. frame'.what = "START_TCP" /\ frame'.len = Len(Bytes(a))
  BY <1>3 DEF Message
<1>6. frame'.len <= READ_BUFFER_SIZE => Begins(frame'.data, frame'.len, a)
  BY <1>1, <1>2, <1>3, <1>5, StartFrame
<1>7. StartCarried'
  BY <1>4, <1>5, <1>6 DEF StartCarried
<1> QED
  BY <1>3, <1>4, <1>7, FrameMade

LEMMA DatagramInv ==
  ASSUME Assumed, MessageInv, NEW a \in Asked, a.type # 3, NEW p \in Payloads,
         SendsDatagram(a, p)
  PROVE  MessageInv'
<1> DEFINE n == Kept(p)
           part == SubSeq(p, 1, n)
<1>1. /\ p \in Seq(Int) /\ Len(p) \in Nat /\ n \in Nat /\ n <= Len(p)
      /\ Offset + n <= READ_BUFFER_SIZE
  BY KeptIs
<1>2. ParseAddr(a) = Bytes(a)
  BY RequestIs
<1>3. n = Min({Len(p), UdpDataSize(READ_BUFFER_SIZE)})
  BY Lengths DEF Kept
<1>4. /\ asked = Nothing /\ outcome' = outcome
      /\ asked' = [what |-> "datagram", to |-> a, payload |-> p]
      /\ frame' = Datagram(Bytes(a), part, n)
  BY <1>2, <1>3 DEF SendsDatagram
<1> HIDE DEF n
<1>5. part \in Seq(Int) /\ Len(part) = n /\ \A i \in 1 .. n : part[i] = p[i]
  <2>1. SubSeq(p, 0 + 1, 0 + n) = part
    BY <1>1
  <2>2. 0 \in Nat /\ 0 + n <= Len(p)
    BY <1>1
  <2>3. /\ SubSeq(p, 0 + 1, 0 + n) \in Seq(Int) /\ Len(SubSeq(p, 0 + 1, 0 + n)) = n
        /\ \A i \in 1 .. n : SubSeq(p, 0 + 1, 0 + n)[i] = p[0 + i]
    BY <1>1, <2>2, PartOfBytes
  <2> QED
    BY <1>1, <2>1, <2>3
<1> HIDE DEF part
<1>6. /\ frame'.what = "DATA_UDP"
      /\ frame'.len = Offset + n
      /\ Begins(frame'.data, Len(Bytes(a)), a)
      /\ Len(frame'.data) = READ_BUFFER_SIZE
      /\ \A i \in 1 .. n : frame'.data[Offset + i] = part[i]
  BY <1>1, <1>4, <1>5, DatagramFrame
<1>7. \A i \in 1 .. n : frame'.data[Offset + i] = p[i]
  BY <1>5, <1>6
<1>8. /\ asked' # Nothing /\ asked'.what = "datagram" /\ asked'.to = a
      /\ asked'.payload = p
  BY <1>4 DEF Nothing
<1>9. frame'.data \in Seq(Int)
  BY <1>6 DEF Begins
<1>10. DatagramCarried'
  BY <1>6, <1>7, <1>8, <1>9 DEF DatagramCarried, n, Kept
<1> QED
  BY <1>4, <1>8, <1>10, FrameMade

LEMMA FailureInv ==
  ASSUME Assumed, MessageInv, NEW a \in Asked, ReceivesNothing(a)
  PROVE  MessageInv'
<1>1. /\ asked = Nothing /\ outcome' = outcome /\ asked' = [what |-> "failure"]
      /\ \E addr \in {<<>>, ParseAddr(a)} : frame' = Datagram(addr, <<>>, -1)
  BY DEF ReceivesNothing
<1>2. frame'.what = "DATA_UDP" /\ frame'.len = ResizeUdp(-1)
  BY <1>1 DEF Datagram, Message
<1>3. asked' # Nothing /\ asked'.what = "failure"
  BY <1>1 DEF Nothing
<1>4. FailureCarried'
  BY <1>2, <1>3, Lengths DEF FailureCarried
<1> QED
  BY <1>1, <1>3, <1>4, FrameMade

-----------------------------------------------------------------------------
(* The other side.                                                         *)
LEMMA RemoteStartsInv ==
  ASSUME Assumed, MessageInv, RemoteStarts
  PROVE  MessageInv'
<1>1. /\ frame # Nothing /\ frame.len <= READ_BUFFER_SIZE /\ frame.what = "START_TCP"
      /\ frame' = Nothing /\ asked' = asked
  BY DEF RemoteStarts, Fits
<1>2. StartCarried
  BY <1>1 DEF MessageInv, NoFrame, DatagramCarried, FailureCarried
<1>3. /\ asked.to \in Asked /\ asked.whole = TRUE /\ asked.what = "connect"
      /\ frame.len = Len(Bytes(asked.to))
      /\ Begins(frame.data, frame.len, asked.to)
  BY <1>1, <1>2 DEF StartCarried
<1>4. ParseAddress(frame.data, frame.len) = asked.to
  <2>1. frame.len \in 3 .. Len(Bytes(asked.to))
    <3>1. LeadLen(asked.to) \in {1, 2} /\ HostLen(asked.to) \in Nat
          /\ LeadLen(asked.to) + HostLen(asked.to) >= 1
      BY <1>3, AskedTypes
    <3>2. Len(Bytes(asked.to)) = LeadLen(asked.to) + HostLen(asked.to) + 2
      BY <1>3, BytesAre
    <3> QED
      BY <1>3, <3>1, <3>2
  <2> QED
    BY <1>3, <2>1, Parsed
<1>5. asked.to # Refused
  BY <1>3, AskedTypes DEF Refused
<1>6. outcome' = [what |-> "remote", to |-> asked.to]
  BY <1>4, <1>5 DEF RemoteStarts
<1>7. outcome'.what = "remote" /\ outcome'.to = asked.to
  BY <1>6
<1>8. asked' # Nothing
  BY <1>1, <1>3 DEF Nothing
<1>9. DestinationIsAsked' /\ DatagramIntact'
  BY <1>1, <1>3, <1>7 DEF DestinationIsAsked, DatagramIntact
<1> QED
  BY <1>1, <1>8, <1>9 DEF MessageInv, NoFrame

LEMMA SendsOnInv ==
  ASSUME Assumed, MessageInv, SendsOn
  PROVE  MessageInv'
<1> DEFINE size == UdpDataSize(frame.len)
<1>1. /\ frame # Nothing /\ frame.what = "DATA_UDP"
      /\ frame' = Nothing /\ asked' = asked
      /\ outcome' = IF size > READ_BUFFER_SIZE - Offset
                    THEN [what |-> "failed", size |-> size]
                    ELSE [what |-> "sent", size |-> size, to |-> GetDataAddr(frame.data),
                          bytes |-> SubSeq(frame.data, Offset + 1, Offset + size)]
  BY DEF SendsOn, Fits
<1>2. CASE FailureCarried
  <2>1. asked.what = "failure" /\ size > READ_BUFFER_SIZE - Offset
    BY <1>2, Lengths DEF FailureCarried
  <2>2. outcome'.what = "failed" /\ asked' # Nothing
    BY <1>1, <2>1 DEF Nothing
  <2>3. DestinationIsAsked' /\ DatagramIntact'
    BY <1>1, <2>1, <2>2 DEF DestinationIsAsked, DatagramIntact
  <2> QED
    BY <1>1, <2>2, <2>3 DEF MessageInv, NoFrame
<1>3. CASE DatagramCarried
  <2> DEFINE p == asked.payload
             n == Kept(p)
             a == asked.to
  <2>1. /\ asked.what = "datagram" /\ a \in Asked /\ a.type # 3 /\ p \in Payloads
        /\ frame.len = Offset + n
        /\ frame.data \in Seq(Int) /\ Len(frame.data) = READ_BUFFER_SIZE
        /\ Begins(frame.data, Len(Bytes(a)), a)
        /\ \A i \in 1 .. n : frame.data[Offset + i] = p[i]
    BY <1>3 DEF DatagramCarried
  <2>2. /\ p \in Seq(Int) /\ Len(p) \in Nat /\ n \in Nat /\ n <= Len(p)
        /\ Offset + n <= READ_BUFFER_SIZE /\ n < Width
        /\ n <= READ_BUFFER_SIZE - Offset /\ READ_BUFFER_SIZE - Offset \in Int
    <3>1. /\ p \in Seq(Int) /\ Len(p) \in Nat /\ n \in Nat /\ n <= Len(p)
          /\ Offset + n <= READ_BUFFER_SIZE
          /\ READ_BUFFER_SIZE \in Nat /\ READ_BUFFER_SIZE < Width /\ Width \in Nat
          /\ n <= READ_BUFFER_SIZE - Offset
      BY <2>1, KeptIs
    <3> HIDE DEF n
    <3> QED
      BY <3>1 DEF Offset
  <2>3. size = n
    BY <2>1, <2>2, Lengths
  <2>4. GetDataAddr(frame.data) = a
    BY <2>1, AddressRead
  <2>5. n = Min({Len(p), READ_BUFFER_SIZE - Offset})
    BY DEF Kept
  <2> HIDE DEF n
  <2>6. SubSeq(frame.data, Offset + 1, Offset + n) = SubSeq(p, 1, n)
    <3>1. Offset \in Nat
      BY DEF Offset
    <3>2. /\ SubSeq(frame.data, Offset + 1, Offset + n) \in Seq(Int)
          /\ Len(SubSeq(frame.data, Offset + 1, Offset + n)) = n
          /\ \A i \in 1 .. n :
               SubSeq(frame.data, Offset + 1, Offset + n)[i] =
                 frame.data[Offset + i]
      BY <2>1, <2>2, <3>1, PartOfBytes
    <3>3. SubSeq(p, 0 + 1, 0 + n) = SubSeq(p, 1, n)
      BY <2>2
    <3>4. 0 \in Nat /\ 0 + n <= Len(p)
      BY <2>2
    <3>5. /\ SubSeq(p, 0 + 1, 0 + n) \in Seq(Int) /\ Len(SubSeq(p, 0 + 1, 0 + n)) = n
          /\ \A i \in 1 .. n : SubSeq(p, 0 + 1, 0 + n)[i] = p[0 + i]
      BY <2>2, <3>4, PartOfBytes
    <3>6. /\ SubSeq(p, 1, n) \in Seq(Int) /\ Len(SubSeq(p, 1, n)) = n
          /\ \A i \in 1 .. n : SubSeq(p, 1, n)[i] = p[i]
      BY <3>3, <3>5
    <3>7. \A i \in 1 .. n :
            SubSeq(frame.data, Offset + 1, Offset + n)[i] = SubSeq(p, 1, n)[i]
      BY <2>1, <3>2, <3>6
    <3> QED
      BY <3>2, <3>6, <3>7, SeqEqual
  <2>7. ~ (size > READ_BUFFER_SIZE - Offset)
    BY <2>2, <2>3
  <2>8. outcome' = [what |-> "sent", size |-> n, to |-> a, bytes |-> SubSeq(p, 1, n)]
    BY <1>1, <2>3, <2>4, <2>6, <2>7
  <2>9. /\ outcome'.what = "sent" /\ outcome'.to = asked.to
        /\ outcome'.bytes = SubSeq(asked.payload, 1, n)
    BY <2>8
  <2>10. asked' # Nothing
    BY <1>1, <2>1 DEF Nothing
  <2>11. DestinationIsAsked' /\ DatagramIntact'
    BY <1>1, <2>1, <2>5, <2>9 DEF DestinationIsAsked, DatagramIntact
  <2> QED
    BY <1>1, <2>10, <2>11 DEF MessageInv, NoFrame
<1>4. FailureCarried \/ DatagramCarried
  BY <1>1 DEF MessageInv, NoFrame, StartCarried
<1> QED
  BY <1>2, <1>3, <1>4

LEMMA MessageNextInv ==
  ASSUME Assumed, MessageInv, [MessageNext]_messageVars
  PROVE  MessageInv'
<1>1. CASE UNCHANGED <<asked, frame, outcome>>
  BY <1>1 DEF MessageInv, NoFrame, StartCarried, DatagramCarried, FailureCarried, Kept,
              DestinationIsAsked, DatagramIntact
<1>2. CASE \E rule \in Rules : LoadLine(rule)
  BY <1>1, <1>2 DEF LoadLine
<1>3. CASE LoadEnds
  BY <1>1, <1>3 DEF LoadEnds
<1>4. CASE Forgets
  <2>1. outcome # Nothing /\ asked' = Nothing /\ outcome' = Nothing
        /\ frame' = frame
    BY <1>4 DEF Forgets
  <2>2. frame = Nothing
    BY <2>1 DEF MessageInv, NoFrame
  <2>3. outcome'.what = "nothing"
    BY <2>1, NothingSaid
  <2>4. DestinationIsAsked' /\ DatagramIntact'
    BY <2>3 DEF DestinationIsAsked, DatagramIntact
  <2> QED
    BY <2>1, <2>2, <2>4 DEF MessageInv, NoFrame
<1>5. CASE UNCHANGED messageVars
  BY <1>1, <1>5 DEF messageVars
<1> QED
  BY <1>2, <1>3, <1>4, <1>5, SocksInv, TransparentInv, DatagramInv, FailureInv,
     RemoteStartsInv, SendsOnInv DEF MessageNext

LEMMA MessageInvHolds == MessageSpec => []MessageInv
<1>0. Assumed
  BY RequestsAssumption, AskedAssumption, PayloadsAssumption DEF Assumed
<1>1. MessageInit => MessageInv
  BY <1>0, NothingSaid DEF MessageInit, MessageInv, NoFrame
<1>2. MessageInv /\ [MessageNext]_messageVars => MessageInv'
  BY <1>0, MessageNextInv
<1> QED
  BY <1>1, <1>2, PTL DEF MessageSpec

(* For every destination, however its request was cut when it was read,    *)
(* and every size of the buffers: a connection is made to the destination  *)
(* the client asked, a part of a request is refused, and the remote server *)
(* refuses nothing that the local one took.                                *)
(* (raw_tcp.cpp:240-258, utils.cpp:40-77)                                  *)
THEOREM DestinationAsked == MessageSpec => []DestinationIsAsked
<1>1. MessageInv => DestinationIsAsked
  BY DEF MessageInv
<1> QED
  BY <1>1, MessageInvHolds, PTL

(* For every address, payload and size of the buffers: what is sent on is  *)
(* a datagram that was received, to its address and with its bytes as far  *)
(* as the buffer holds them, and a failed receive sends nothing.           *)
(* (relay_acceptor.cpp:108-139, raw_udp.cpp:110-127, relay_data.hpp:68-88) *)
THEOREM DatagramKept == MessageSpec => []DatagramIntact
<1>1. MessageInv => DatagramIntact
  BY DEF MessageInv
<1> QED
  BY <1>1, MessageInvHolds, PTL
===============================================================================
