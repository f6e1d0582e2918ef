---------------------------- MODULE RawTcpProofs ----------------------------
(***************************************************************************)
(* What the steps common to the three kinds of raw_tcp preserve, for any   *)
(* set of buffers and any TIMEOUT.  The theorems about a kind of relay are *)
(* in the module of its own and add the steps of its start.                *)
(***************************************************************************)
EXTENDS RawTcp, BaseRelayProofs

RawStep == StrandStep \/ NetworkStep \/ ManagerStep

(* Handlers are well typed when they are made.                             *)
LEMMA HandlerTypes ==
  /\ Stop \in Handler
  /\ \A d \in Data : Send(d) \in Handler
  /\ \A h \in Handler : h.run = "send" => h.buf \in Data
BY DEF Handler, Stop, Send

(* Every common step keeps the variables well typed; a coroutine that pops *)
(* a buffer needs OneWriter to find one.                                   *)
LEMMA RawTypePreserved ==
  ASSUME RawTypeOK, OneWriter, RawStep
  PROVE  RawTypeOK'
<1>1. ASSUME NEW h \in Handler
      PROVE  Append(posted, h) \in Seq(Handler)
  BY <1>1, AppendProperties DEF RawTypeOK
<1>2. ASSUME NEW cmd \in {"START_TCP", "DATA_TCP", "STOP_TCP"}, Request(cmd)
      PROVE  requests' \in Seq({"START_TCP", "DATA_TCP", "STOP_TCP"})
  BY <1>2, AppendProperties DEF Request, RawTypeOK
<1>3. ASSUME StopRelay
      PROVE  state' \in RelayState /\ sock' \in {"unopened", "open", "closed"}
  BY <1>3 DEF StopRelay, RelayState, RawTypeOK, BaseTypeOK
<1>4. posted # <<>> => Head(posted) \in Handler /\ Tail(posted) \in Seq(Handler)
  BY HeadTailProperties DEF RawTypeOK
<1>5. ASSUME RunSend PROVE RawTypeOK'
  <2>1. Head(posted).buf \in Data /\ posted' \in Seq(Handler)
    BY <1>5, HandlerTypes, HeadTailProperties DEF RunSend, RawTypeOK
  <2>2. BaseTypeOK'
    BY <1>5, <2>1, SendDataTypes DEF RunSend, RawTypeOK
  <2> QED
    BY <1>5, <2>1, <2>2 DEF RunSend, RawTypeOK
<1>6. ASSUME RunStop PROVE RawTypeOK'
  BY <1>6, <1>3, <1>4 DEF RunStop, RawTypeOK, BaseTypeOK
<1>7. ASSUME NEW i \in DOMAIN coros, SenderEnters(i) PROVE RawTypeOK'
  <2>1. BaseTypeOK'
    BY <1>7, EnterSendTypes DEF SenderEnters, RawTypeOK
  <2> QED
    BY <1>7, <2>1 DEF SenderEnters, RawTypeOK, rawVars
<1>8. ASSUME NEW i \in DOMAIN coros, SenderResumes(i) PROVE RawTypeOK'
  <2>1. BaseTypeOK'
    BY <1>8, ResumeSendTypes DEF SenderResumes, RawTypeOK
  <2> QED
    BY <1>8, <2>1 DEF SenderResumes, RawTypeOK, rawVars
<1>9. ASSUME NEW i \in DOMAIN coros, SenderCatches(i) PROVE RawTypeOK'
  <2>1. coros' \in Seq(Frame)
    BY <1>9, FrameReturns DEF SenderCatches, RawTypeOK
  <2> QED
    BY <1>9, <2>1, <1>3 DEF SenderCatches, RawTypeOK, BaseTypeOK
<1>10. ASSUME NEW i \in DOMAIN coros, WriteSucceeds(i) PROVE RawTypeOK'
  <2>1. coros' \in Seq(Frame)
    BY <1>10, WriteEnds DEF WriteSucceeds, RawTypeOK
  <2>2. coros[i].buf \in Data
    BY <1>10, HeadTailProperties
       DEF WriteSucceeds, OneWriter, Suspended, RawTypeOK, BaseTypeOK
  <2>3. wire' \in Seq(Data)
    BY <1>10, <2>2, AppendProperties DEF WriteSucceeds, RawTypeOK
  <2> QED
    BY <1>10, <2>1, <2>3 DEF WriteSucceeds, RawTypeOK, BaseTypeOK
<1>11. ASSUME NEW i \in DOMAIN coros, WriteFails(i) PROVE RawTypeOK'
  <2>1. coros' \in Seq(Frame)
    BY <1>11, WriteEnds DEF WriteFails, RawTypeOK
  <2> QED
    BY <1>11, <2>1 DEF WriteFails, RawTypeOK, BaseTypeOK, rawVars
<1> USE DEF RawTypeOK, BaseTypeOK
<1>12. ASSUME ReaderEnters \/ ReadSucceeds \/ ReadFails PROVE RawTypeOK'
  BY <1>12 DEF ReaderEnters, ReadSucceeds, ReadFails, baseVars
<1>13. ASSUME ReaderResumes PROVE RawTypeOK'
  BY <1>13, <1>2, BaseAssumption DEF ReaderResumes
<1>14. ASSUME ReaderCatches PROVE RawTypeOK'
  BY <1>14, <1>2, <1>3 DEF ReaderCatches, StopAndTellManager
<1>15. ASSUME NEW d \in Data, ManagerData(d) PROVE RawTypeOK'
  <2>1. Append(given, d) \in Seq(Data)
    BY AppendProperties
  <2>2. Append(posted, Send(d)) \in Seq(Handler)
    BY <1>1, HandlerTypes
  <2>3. CASE state = "STOP"
    BY <1>15, <2>3 DEF ManagerData, baseVars
  <2>4. CASE state # "STOP"
    BY <1>15, <2>1, <2>2, <2>4 DEF ManagerData, baseVars
  <2> QED
    BY <2>3, <2>4
<1>16. ASSUME ManagerStop PROVE RawTypeOK'
  BY <1>16, <1>1, HandlerTypes DEF ManagerStop, baseVars
<1>17. ASSUME TimerStep PROVE RawTypeOK'
  <2>1. down' \in Down /\ timeout' \in 0 .. TIMEOUT
    BY <1>17, TimerTypes DEF TimerStep, TimerLoads, TimerStores, TimerReturns
  <2>2. posted' \in Seq(Handler)
    BY <1>17, <1>1, HandlerTypes
       DEF TimerStep, TimerLoads, TimerStores, TimerReturns, rawVars
  <2> QED
    BY <1>17, <2>1, <2>2 DEF TimerStep, TimerLoads, TimerStores, TimerReturns, rawVars
<1> QED
  BY <1>5, <1>6, <1>7, <1>8, <1>9, <1>10, <1>11, <1>12, <1>13, <1>14,
     <1>15, <1>16, <1>17 DEF RawStep, StrandStep, NetworkStep, ManagerStep

-----------------------------------------------------------------------------
(* Every common step keeps the sender's invariant.                         *)
LEMMA SenderPreserved ==
  ASSUME RawTypeOK, SenderInv, RawStep
  PROVE  SenderInv'
<1>0. BaseTypeOK /\ WriterInv /\ NoLostWakeup
  BY DEF RawTypeOK, SenderInv
<1>1. ASSUME RunSend PROVE SenderKept
  <2>1. Head(posted).buf \in Data
    BY <1>1, HeadTailProperties, HandlerTypes DEF RunSend, RawTypeOK
  <2> QED
    BY <1>0, <1>1, <2>1, SendDataSender DEF RunSend
<1>2. ASSUME NEW i \in DOMAIN coros, SenderEnters(i) PROVE SenderKept
  BY <1>0, <1>2, EnterSendSender DEF SenderEnters
<1>3. ASSUME NEW i \in DOMAIN coros, SenderResumes(i) PROVE SenderKept
  BY <1>0, <1>3, ResumeSendSender DEF SenderResumes
<1>4. ASSUME NEW i \in DOMAIN coros, SenderCatches(i) PROVE SenderKept
  BY <1>0, <1>4, CaughtSender DEF SenderCatches, StopRelay, SenderKept
<1>5. ASSUME NEW i \in DOMAIN coros, WriteSucceeds(i) PROVE SenderKept
  BY <1>0, <1>5, WriteEndsSender DEF WriteSucceeds
<1>6. ASSUME NEW i \in DOMAIN coros, WriteFails(i) PROVE SenderKept
  BY <1>0, <1>6, WriteEndsSender DEF WriteFails
<1>7. ASSUME RunStop \/ ReaderEnters \/ ReadSucceeds \/ ReadFails
             \/ ReaderResumes \/ ReaderCatches
      PROVE  SenderKept
  BY <1>0, <1>7, SenderUntouched
     DEF RunStop, ReaderEnters, ReadSucceeds, ReadFails, ReaderResumes, ReaderCatches,
         StopAndTellManager, StopRelay, baseVars
<1>8. ASSUME ManagerStep PROVE SenderKept
  BY <1>0, <1>8, SenderUntouched
     DEF ManagerStep, ManagerData, ManagerStop, TimerStep, TimerLoads, TimerStores,
         TimerReturns, baseVars
<1> QED
  BY <1>0, <1>1, <1>2, <1>3, <1>4, <1>5, <1>6, <1>7, <1>8
     DEF RawStep, StrandStep, NetworkStep, SenderKept, SenderInv

(* None of them spawns the first send coroutine: the start does.           *)
LEMMA RawSpawnsNone ==
  ASSUME SenderInv, coros = <<>>, RawStep
  PROVE  coros' = <<>>
<1>1. DOMAIN coros = {} /\ WriterInv
  BY EmptySeq, LenProperties DEF SenderInv
<1> QED
  BY <1>1, SendDataSpawnsNone
     DEF RawStep, StrandStep, NetworkStep, ManagerStep, RunSend, RunStop,
         ReaderEnters, ReadSucceeds, ReadFails, ReaderResumes, ReaderCatches,
         ManagerData, ManagerStop, TimerStep, TimerLoads, TimerStores, TimerReturns,
         baseVars

-----------------------------------------------------------------------------
(* What the relay has written is what send_data has accepted, as far as it *)
(* has got.                                                                *)
WireInv == QueueIsSuffix /\ IsWritten(wire)

LEMMA WireUntouched ==
  ASSUME WireInv, UNCHANGED <<bufs, coros, accepted, wire>>
  PROVE  WireInv'
BY DEF WireInv, QueueIsSuffix, IsWritten, WrittenLen, Popped

(* A step of the sender that writes nothing.                               *)
LEMMA WireKept ==
  ASSUME BaseTypeOK, OneWriter, WireInv, QueueIsSuffix', WrittenLen' = WrittenLen, wire' = wire,
         accepted' = accepted \/ \E d \in Data : accepted' = Append(accepted, d)
  PROVE  WireInv'
<1>1. /\ Len(wire) = WrittenLen'
      /\ \A k \in 1 .. Len(wire) : wire[k] = accepted'[k]
  BY RecordKept DEF WireInv
<1> QED
  BY <1>1 DEF WireInv, IsWritten

LEMMA WirePreserved ==
  ASSUME RawTypeOK, SenderInv, WireInv, RawStep
  PROVE  WireInv'
<1>0. BaseTypeOK /\ OneWriter /\ QueueIsSuffix
  BY DEF RawTypeOK, SenderInv, WriterInv, WireInv
<1>1. ASSUME RunSend PROVE WireInv'
  <2> DEFINE d == Head(posted).buf
  <2>1. d \in Data /\ SendData(d) /\ wire' = wire
    BY <1>1, HeadTailProperties, HandlerTypes DEF RunSend, RawTypeOK
  <2>2. /\ QueueIsSuffix' /\ WrittenLen' = WrittenLen
        /\ accepted' = accepted \/ accepted' = Append(accepted, d)
    BY <1>0, <2>1, SendDataStream
  <2> QED
    BY <1>0, <2>1, <2>2, WireKept
<1>2. ASSUME NEW i \in DOMAIN coros, SenderEnters(i) PROVE WireInv'
  BY <1>0, <1>2, EnterSendStream, WireKept DEF SenderEnters, EnterSend, rawVars
<1>3. ASSUME NEW i \in DOMAIN coros, SenderResumes(i) PROVE WireInv'
  BY <1>0, <1>3, ResumeSendStream, WireKept DEF SenderResumes, ResumeSend, rawVars
<1>4. ASSUME NEW i \in DOMAIN coros, SenderCatches(i) PROVE WireInv'
  BY <1>0, <1>4, CaughtStream, WireKept DEF SenderCatches
<1>5. ASSUME NEW i \in DOMAIN coros, WriteFails(i) PROVE WireInv'
  BY <1>0, <1>5, WriteFailsStream, WireKept DEF WriteFails, rawVars
<1>6. ASSUME NEW i \in DOMAIN coros, WriteSucceeds(i) PROVE WireInv'
  <2> DEFINE b == coros[i].buf
  <2>1. /\ QueueIsSuffix' /\ WrittenLen' = WrittenLen + 1
        /\ b \in Data /\ b = accepted[WrittenLen + 1]
    BY <1>0, <1>6, WriteSucceedsStream DEF WriteSucceeds
  <2>2. wire' = Append(wire, b) /\ wire \in Seq(Data) /\ accepted' = accepted
    BY <1>6 DEF WriteSucceeds, RawTypeOK
  <2>3. /\ Len(wire') = WrittenLen'
        /\ \A k \in 1 .. Len(wire') : wire'[k] = accepted'[k]
    BY <2>1, <2>2, RecordGrows DEF WireInv
  <2> QED
    BY <2>1, <2>3 DEF WireInv, IsWritten
<1>7. ASSUME RunStop \/ ReaderEnters \/ ReadSucceeds \/ ReadFails
             \/ ReaderResumes \/ ReaderCatches
      PROVE  WireInv'
  BY <1>7, WireUntouched
     DEF RunStop, ReaderEnters, ReadSucceeds, ReadFails, ReaderResumes, ReaderCatches,
         baseVars
<1>8. ASSUME ManagerStep PROVE WireInv'
  BY <1>8, WireUntouched
     DEF ManagerStep, ManagerData, ManagerStop, TimerStep, TimerLoads, TimerStores,
         TimerReturns, baseVars, rawVars
<1> QED
  BY <1>1, <1>2, <1>3, <1>4, <1>5, <1>6, <1>7, <1>8 DEF RawStep, StrandStep, NetworkStep

-----------------------------------------------------------------------------
(* A common step leaves the socket alone or stops the relay.               *)
LEMMA SockOrStop ==
  ASSUME RawStep
  PROVE  sock' = sock \/ StopRelay
BY DEF RawStep, StrandStep, NetworkStep, ManagerStep, RunSend, RunStop,
       SenderEnters, SenderResumes, SenderCatches, WriteSucceeds, WriteFails,
       ReaderEnters, ReadSucceeds, ReadFails, ReaderResumes, ReaderCatches,
       StopAndTellManager, ManagerData, ManagerStop, TimerStep, TimerLoads,
       TimerStores, TimerReturns, rawVars

(* A relay whose socket stays open is not stopped and loses no buffer.     *)
LEMMA FlowKept ==
  ASSUME RawTypeOK, sock = "open", state # "STOP", Carries(posted, accepted, given),
         RawStep, sock' # "closed"
  PROVE  state' # "STOP" /\ Carries(posted', accepted', given')
<1>0. /\ posted \in Seq(Handler) /\ accepted \in Seq(Data) /\ given \in Seq(Data)
      /\ ~ StopRelay
  BY DEF RawTypeOK, BaseTypeOK, StopRelay
<1>1. CASE RunSend
  <2>1. /\ posted # <<>> /\ Head(posted).run = "send" /\ posted' = Tail(posted)
        /\ accepted' = Append(accepted, Head(posted).buf) /\ given' = given
        /\ state' = state
    BY <1>1 DEF RunSend, SendData
  <2>2. Head(posted).buf \in Data
    BY <1>0, <2>1, QueuePops, HandlerTypes
  <2> QED
    BY <1>0, <2>1, <2>2, CarriesAccepted
<1>2. CASE \E d \in Data : ManagerData(d)
  <2>1. PICK d \in Data : ManagerData(d)
    BY <1>2
  <2>2. /\ posted' = Append(posted, Send(d)) /\ given' = Append(given, d)
        /\ accepted' = accepted /\ state' = state
    BY <2>1 DEF ManagerData, baseVars
  <2>3. Send(d) \in Handler /\ Send(d).run = "send" /\ Send(d).buf = d
    BY HandlerTypes DEF Send
  <2>4. Carries(posted', accepted, given')
    BY <1>0, <2>2, <2>3, CarriesGiven
  <2> QED
    BY <2>2, <2>4
<1>3. CASE posted' = Append(posted, Stop) /\ UNCHANGED <<accepted, given, state>>
  <2>1. Stop \in Handler /\ Stop.run # "send"
    BY HandlerTypes DEF Stop
  <2>2. Carries(posted', accepted, given)
    BY <1>0, <1>3, <2>1, CarriesStop
  <2> QED
    BY <1>3, <2>2
<1>4. CASE UNCHANGED <<posted, accepted, given>> /\ state' # "STOP"
  BY <1>4
<1>5. CASE StrandStep \/ NetworkStep
  <2>1. ~ RunStop /\ ~ ReaderCatches /\ \A i \in DOMAIN coros : ~ SenderCatches(i)
    BY <1>0 DEF RunStop, ReaderCatches, StopAndTellManager, SenderCatches
  <2>2. CASE ~ RunSend
    <3>1. UNCHANGED <<posted, accepted, given>>
      BY <1>5, <2>1, <2>2
         DEF StrandStep, NetworkStep, SenderEnters, SenderResumes, EnterSend, ResumeSend,
             WriteSucceeds, WriteFails, ReaderEnters, ReadSucceeds, ReadFails,
             ReaderResumes, baseVars, rawVars
    <3>2. state' # "STOP"
      BY <1>5, <2>1, <2>2
         DEF StrandStep, NetworkStep, SenderEnters, SenderResumes, EnterSend, ResumeSend,
             SendLoop, WriteSucceeds, WriteFails, ReaderEnters, ReadSucceeds, ReadFails,
             ReaderResumes, baseVars
    <3> QED
      BY <1>4, <3>1, <3>2
  <2> QED
    BY <1>1, <2>2
<1>6. CASE ManagerStop \/ TimerStep
  <2>1. posted' = posted \/ posted' = Append(posted, Stop)
    BY <1>6 DEF ManagerStop, TimerStep, TimerLoads, TimerStores, TimerReturns, rawVars
  <2>2. UNCHANGED <<accepted, given, state>>
    BY <1>6 DEF ManagerStop, TimerStep, TimerLoads, TimerStores, TimerReturns, baseVars,
                rawVars
  <2> QED
    BY <1>3, <1>4, <2>1, <2>2
<1> QED
  BY <1>2, <1>5, <1>6 DEF RawStep, ManagerStep

(* As long as the relay loses no buffer, a common step is one of the pipe. *)
LEMMA RawStepOfPipe ==
  ASSUME RawTypeOK, OneWriter, WireInv, RawStep,
         sock = "closed" => sock' = "closed",
         sock = "open" => /\ Len(accepted) <= Len(given)
                          /\ \A k \in 1 .. Len(accepted) : accepted[k] = given[k]
  PROVE  [Pipe!Next]_Pipe!vars
<1>1. CASE UNCHANGED <<given, wire>>
  <2>1. CASE sock' = "closed"
    BY <1>1, <2>1 DEF Pipe!Next, Pipe!Close
  <2>2. CASE sock' # "closed"
    BY <1>1, <2>2 DEF Pipe!vars
  <2> QED
    BY <2>1, <2>2
<1>2. ASSUME NEW i \in DOMAIN coros, WriteSucceeds(i) PROVE Pipe!Next
  <2>0. BaseTypeOK /\ QueueIsSuffix /\ Len(wire) = WrittenLen /\ sock = "open"
    BY <1>2 DEF RawTypeOK, WireInv, IsWritten, WriteSucceeds
  <2>1. /\ WrittenLen' = WrittenLen + 1 /\ WrittenLen' <= Len(accepted)
        /\ coros[i].buf = accepted[WrittenLen + 1]
    BY <1>2, <2>0, WriteSucceedsStream DEF WriteSucceeds
  <2>2. /\ WrittenLen \in Nat /\ Len(accepted) \in Nat /\ Len(given) \in Nat
    BY <2>0, WrittenWasAccepted, LenProperties DEF RawTypeOK, BaseTypeOK
  <2>3. WrittenLen + 1 \in 1 .. Len(accepted)
    BY <2>1, <2>2
  <2>4. Len(wire) < Len(given) /\ coros[i].buf = given[Len(wire) + 1]
    BY <2>0, <2>1, <2>2, <2>3
  <2> QED
    BY <1>2, <2>0, <2>4 DEF WriteSucceeds, Pipe!Next, Pipe!Emit
<1>3. ASSUME NEW d \in Data, ManagerData(d), state # "STOP" PROVE Pipe!Next
  BY <1>3 DEF ManagerData, Pipe!Next, Pipe!Accept
<1>4. CASE StrandStep \/ NetworkStep
  BY <1>1, <1>2, <1>4
     DEF StrandStep, NetworkStep, RunSend, RunStop, SenderEnters, SenderResumes,
         SenderCatches, WriteFails, ReaderEnters, ReadSucceeds, ReadFails, ReaderResumes,
         ReaderCatches, StopAndTellManager, rawVars
<1>5. CASE ManagerStep
  BY <1>1, <1>3, <1>5
     DEF ManagerStep, ManagerData, ManagerStop, TimerStep, TimerLoads, TimerStores,
         TimerReturns, rawVars
<1> QED
  BY <1>4, <1>5 DEF RawStep
=============================================================================
