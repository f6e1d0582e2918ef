------------------------- MODULE RawTcpLocalProofs -------------------------
(***************************************************************************)
(* Theorems about RawTcpLocal: the lemmas of RawTcpProofs for the common   *)
(* steps, and here those of the socks5 handshake, of the two coroutines    *)
(* that copy, and of the order in which client and remote server see them. *)
(***************************************************************************)
EXTENDS RawTcpLocal, RawTcpProofs

(* Nothing is served while the handshake goes on.                          *)
Unserved == {"spawned", "greeting", "greeted", "accepting", "accepted", "asking",
             "asked", "resolving", "resolved", "connecting", "connected"}
NotServed ==
  starter \in Unserved => coros = <<>> /\ \A d \in Dir : copier[d] = "off"

(* There is a reader only of a session that the remote server is asked to  *)
(* start.                                                                  *)
ReaderAsked == reader # "off" => Asked

LocalIInv ==
  /\ TypeOK /\ SenderInv
  /\ NotServed /\ ReaderAsked /\ HandshakeInOrder

(* The steps of the starter, of the copiers, and those common to every     *)
(* raw_tcp.                                                                *)
StartStep ==
  StarterStep \/ ClientOperation \/ ClientOperationFails \/ ResolveCompletes
    \/ ConnectCompletes
CopyStep ==
  \E d \in Dir : CopierStep(d) \/ CopierReadSucceeds(d) \/ CopierWriteSucceeds(d)
                   \/ CopierFails(d)
CommonStep ==
  \/ StrandStep /\ UNCHANGED localVars
  \/ LocalNetworkStep /\ UNCHANGED localVars
  \/ LocalManagerStep \/ LocalTimerStep

LEMMA NextCases ==
  ASSUME [Next]_vars
  PROVE  StartStep \/ CopyStep \/ CommonStep \/ UNCHANGED vars
BY DEF Next, StartStep, CopyStep, CommonStep

LEMMA CommonIsRaw ==
  ASSUME CommonStep
  PROVE  RawStep /\ UNCHANGED <<starter, sockRemote, copier>>
BY DEF CommonStep, LocalNetworkStep, LocalManagerStep, LocalTimerStep, RawStep, StrandStep,
       NetworkStep, ManagerStep, localVars

-----------------------------------------------------------------------------
(* Types.                                                                  *)
LEMMA RequestTypes ==
  ASSUME TypeOK, NEW cmd \in {"START_TCP", "DATA_TCP", "STOP_TCP"}, Request(cmd)
  PROVE  requests' \in Seq({"START_TCP", "DATA_TCP", "STOP_TCP"})
BY AppendProperties DEF Request, TypeOK, RawTypeOK

LEMMA StartTypes ==
  ASSUME LocalIInv, StartStep
  PROVE  TypeOK'
<1> USE DEF LocalIInv, TypeOK, RawTypeOK, BaseTypeOK, StarterPc
<1>1. CASE StarterWaits \/ StarterResolves \/ StarterRefuses \/ StarterConnects
             \/ ClientOperation \/ ClientOperationFails \/ ResolveCompletes
             \/ ConnectCompletes
  BY <1>1 DEF StarterWaits, StarterResolves, StarterRefuses, StarterConnects,
              ClientOperation, ClientOperationFails, ResolveCompletes, ConnectCompletes,
              baseVars, rawVars
<1>2. CASE StarterTunnels \/ StarterCopies
  <2>1. coros = <<>> /\ coros' = StartSend(coros) /\ state' = "INIT" /\ bufs' = bufs
    BY <1>2 DEF StarterTunnels, StarterCopies, StarterServes, NotServed, Unserved
  <2>2. coros' \in Seq(Frame)
    BY <2>1, StartSender
  <2>3. requests' \in Seq({"START_TCP", "DATA_TCP", "STOP_TCP"})
    BY <1>2, RequestTypes DEF StarterTunnels, StarterCopies
  <2>4. copier' \in [Dir -> CopierPc]
    BY <1>2 DEF StarterTunnels, StarterCopies, CopierPc
  <2>5. reader' \in {"off", "spawned", "reading", "got", "failed", "done"}
    BY <1>2 DEF StarterTunnels, StarterCopies
  <2> QED
    BY <1>2, <2>1, <2>2, <2>3, <2>4, <2>5
       DEF StarterTunnels, StarterCopies, StarterServes, RelayState
<1>3. CASE StarterCatches
  BY <1>3, RequestTypes DEF StarterCatches, StopAndTellManager, StopRelay, RelayState
<1> QED
  BY <1>1, <1>2, <1>3 DEF StartStep, StarterStep

LEMMA CopyTypes ==
  ASSUME LocalIInv, CopyStep
  PROVE  TypeOK'
<1> USE DEF LocalIInv, TypeOK, RawTypeOK, BaseTypeOK, CopierPc
<1>1. PICK d \in Dir : CopierStep(d) \/ CopierReadSucceeds(d) \/ CopierWriteSucceeds(d)
                         \/ CopierFails(d)
  BY DEF CopyStep
<1>2. \A pc \in CopierPc : [copier EXCEPT ![d] = pc] \in [Dir -> CopierPc]
  OBVIOUS
<1>3. CASE CopierCatches(d)
  BY <1>2, <1>3, RequestTypes DEF CopierCatches, StopAndTellManager, StopRelay, RelayState
<1>4. ASSUME NEW from, NEW to \in CopierPc, Step(d, from, to), moved' \in BOOLEAN
      PROVE  TypeOK'
  BY <1>2, <1>4 DEF Step, baseVars, rawVars
<1> QED
  BY <1>1, <1>3, <1>4 DEF CopierStep, CopierReads, CopierWrites, CopierReadSucceeds,
                          CopierWriteSucceeds, CopierFails

LEMMA TypeKept ==
  ASSUME LocalIInv, [Next]_vars
  PROVE  TypeOK'
<1>1. CASE CommonStep
  <2>1. RawTypeOK'
    BY <1>1, CommonIsRaw, RawTypePreserved DEF LocalIInv, TypeOK, SenderInv, WriterInv
  <2>2. moved' \in BOOLEAN
    BY <1>1 DEF LocalIInv, TypeOK, CommonStep, LocalManagerStep, LocalTimerStep, localVars
  <2> QED
    BY <1>1, <2>1, <2>2, CommonIsRaw DEF LocalIInv, TypeOK
<1>2. CASE UNCHANGED vars
  BY <1>2 DEF LocalIInv, TypeOK, RawTypeOK, BaseTypeOK, vars, baseVars, rawVars, localVars
<1> QED
  BY <1>1, <1>2, NextCases, StartTypes, CopyTypes

-----------------------------------------------------------------------------
(* The sender.                                                             *)
LEMMA SenderInvKept ==
  ASSUME LocalIInv, [Next]_vars
  PROVE  SenderInv'
<1>0. BaseTypeOK /\ SenderInv /\ WriterInv /\ NoLostWakeup /\ NotServed
  BY DEF LocalIInv, TypeOK, RawTypeOK, SenderInv
<1>1. CASE StarterTunnels \/ StarterCopies
  <2>1. coros = <<>> /\ coros' = StartSend(coros) /\ state' = "INIT" /\ bufs' = bufs
    BY <1>0, <1>1 DEF StarterTunnels, StarterCopies, StarterServes, NotServed, Unserved
  <2> QED
    BY <1>0, <2>1, StartSender
<1>2. CASE CommonStep
  BY <1>2, CommonIsRaw, SenderPreserved DEF LocalIInv, TypeOK
<1>3. CASE UNCHANGED <<bufs, coros>> /\ (state' = state \/ state' = "STOP")
  BY <1>0, <1>3, SenderUntouched DEF SenderKept, SenderInv
<1>4. CASE StartStep
  BY <1>1, <1>3, <1>4
     DEF StartStep, StarterStep, StarterWaits, StarterResolves, StarterRefuses,
         StarterConnects, StarterCatches, StopAndTellManager, StopRelay, ClientOperation,
         ClientOperationFails, ResolveCompletes, ConnectCompletes, baseVars
<1>5. CASE CopyStep
  BY <1>3, <1>5
     DEF CopyStep, CopierStep, CopierReads, CopierWrites, CopierReadSucceeds,
         CopierWriteSucceeds, CopierFails, CopierCatches, Step, StopAndTellManager,
         StopRelay, baseVars
<1>6. CASE UNCHANGED vars
  BY <1>3, <1>6 DEF vars, baseVars
<1> QED
  BY <1>2, <1>4, <1>5, <1>6, NextCases

-----------------------------------------------------------------------------
(* The order of the handshake.                                             *)

(* No common step starts a coroutine that was not started.                 *)
LEMMA CommonServesNone ==
  ASSUME LocalIInv, CommonStep
  PROVE  /\ coros = <<>> => coros' = <<>>
         /\ reader = "off" => reader' = "off"
<1>1. RawStep /\ SenderInv
  BY CommonIsRaw DEF LocalIInv
<1>2. reader = "off" => reader' = "off"
  BY <1>1 DEF RawStep, StrandStep, NetworkStep, ManagerStep, RunSend, RunStop,
              SenderEnters, SenderResumes, SenderCatches, WriteSucceeds, WriteFails,
              ReaderEnters, ReadSucceeds, ReadFails, ReaderResumes, ReaderCatches,
              ManagerData, ManagerStop, TimerStep, TimerLoads, TimerStores, TimerReturns,
              rawVars
<1> QED
  BY <1>1, <1>2, RawSpawnsNone

LEMMA NotServedKept ==
  ASSUME LocalIInv, [Next]_vars
  PROVE  NotServed'
<1>0. NotServed /\ copier \in [Dir -> CopierPc]
  BY DEF LocalIInv, TypeOK
<1>1. CASE StartStep
  BY <1>0, <1>1
     DEF NotServed, Unserved, StartStep, StarterStep, StarterWaits, StarterTunnels,
         StarterCopies, StarterServes, StarterResolves, StarterRefuses,
         StarterConnects, StarterCatches, ClientOperation,
         ClientOperationFails, ResolveCompletes, ConnectCompletes, baseVars
<1>2. CASE CopyStep
  <2>1. PICK d \in Dir : CopierStep(d) \/ CopierReadSucceeds(d) \/ CopierWriteSucceeds(d)
                           \/ CopierFails(d)
    BY <1>2 DEF CopyStep
  <2>2. copier[d] # "off" /\ starter' = starter
    BY <2>1 DEF CopierStep, CopierReads, CopierWrites, CopierReadSucceeds,
                CopierWriteSucceeds, CopierFails, CopierCatches, Step
  <2> QED
    BY <1>0, <2>2 DEF NotServed
<1>3. CASE CommonStep
  BY <1>0, <1>3, CommonServesNone, CommonIsRaw DEF NotServed
<1>4. CASE UNCHANGED vars
  BY <1>0, <1>4 DEF NotServed, vars, baseVars, localVars
<1> QED
  BY <1>1, <1>2, <1>3, <1>4, NextCases

(* What a step adds to the requests.                                       *)
LEMMA RequestsGrow ==
  ASSUME TypeOK, [Next]_vars
  PROVE  \/ requests' = requests
         \/ requests' = Append(requests, "START_TCP") \/ requests' = Append(requests, "STOP_TCP")
         \/ requests' = Append(requests, "DATA_TCP") /\ reader # "off"
<1>1. CASE StartStep
  BY <1>1
     DEF StartStep, StarterStep, StarterWaits, StarterTunnels,
         StarterCopies, StarterServes, StarterResolves, StarterRefuses,
         StarterConnects, StarterCatches, StopAndTellManager, Request, ClientOperation,
         ClientOperationFails, ResolveCompletes, ConnectCompletes, rawVars
<1>2. CASE CopyStep
  BY <1>2 DEF CopyStep, CopierStep, CopierReads, CopierWrites, CopierReadSucceeds,
              CopierWriteSucceeds, CopierFails, CopierCatches, StopAndTellManager, Request,
              Step, rawVars
<1>3. CASE CommonStep
  BY <1>3, CommonIsRaw
     DEF RawStep, StrandStep, NetworkStep, ManagerStep, RunSend, RunStop,
         SenderEnters, SenderResumes, SenderCatches, WriteSucceeds, WriteFails,
         ReaderEnters, ReadSucceeds, ReadFails, ReaderResumes, ReaderCatches,
         StopAndTellManager, Request, ManagerData, ManagerStop, TimerStep, TimerLoads,
         TimerStores, TimerReturns, rawVars
<1> QED
  BY <1>1, <1>2, <1>3, NextCases DEF vars, rawVars

LEMMA StartFirstKept ==
  ASSUME LocalIInv, [Next]_vars
  PROVE  StartFirst' /\ ReaderAsked'
<1>0. /\ requests \in Seq({"START_TCP", "DATA_TCP", "STOP_TCP"})
      /\ StartFirst /\ ReaderAsked
      /\ Len(requests) \in Nat /\ DOMAIN requests = 1 .. Len(requests)
  BY LenProperties DEF LocalIInv, TypeOK, RawTypeOK, HandshakeInOrder
<1>1. ASSUME NEW cmd \in {"START_TCP", "DATA_TCP", "STOP_TCP"},
             requests' = Append(requests, cmd)
      PROVE  /\ DOMAIN requests' = 1 .. Len(requests) + 1
             /\ \A k \in 1 .. Len(requests) : requests'[k] = requests[k]
             /\ requests'[Len(requests) + 1] = cmd
  <2>1. /\ requests' \in Seq({"START_TCP", "DATA_TCP", "STOP_TCP"})
        /\ Len(requests') = Len(requests) + 1
    BY <1>0, <1>1, AppendProperties
  <2> QED
    BY <1>0, <1>1, <2>1, AppendProperties, LenProperties
<1>2. Asked => Asked'
  BY <1>0, <1>1, RequestsGrow DEF Asked, LocalIInv
<1>3. ReaderAsked'
  <2>1. CASE StarterTunnels
    <3>1. requests' = Append(requests, "START_TCP")
      BY <2>1 DEF StarterTunnels, Request
    <3> QED
      BY <3>1, <1>0, <1>1 DEF ReaderAsked, Asked
  <2>2. CASE CommonStep
    BY <2>2, <1>0, <1>2, CommonServesNone DEF ReaderAsked
  <2>3. CASE reader' = reader
    BY <2>3, <1>0, <1>2 DEF ReaderAsked
  <2>4. CASE StartStep
    BY <2>1, <2>3, <2>4
       DEF StartStep, StarterStep, StarterWaits,
           StarterCopies, StarterServes, StarterResolves, StarterRefuses,
           StarterConnects, StarterCatches, ClientOperation,
           ClientOperationFails, ResolveCompletes, ConnectCompletes, rawVars
  <2>5. CASE CopyStep
    BY <2>3, <2>5 DEF CopyStep, CopierStep, CopierReads, CopierWrites, CopierReadSucceeds,
              CopierWriteSucceeds, CopierFails, CopierCatches, Step, rawVars
  <2> QED
    BY <2>2, <2>3, <2>4, <2>5, NextCases DEF vars, rawVars
<1>4. StartFirst'
  <2>1. CASE requests' = requests
    BY <2>1, <1>0 DEF StartFirst
  <2>2. ASSUME NEW cmd \in {"START_TCP", "DATA_TCP", "STOP_TCP"},
               requests' = Append(requests, cmd), cmd = "DATA_TCP" => Asked
        PROVE  StartFirst'
    <3> SUFFICES ASSUME NEW k \in DOMAIN requests', requests'[k] = "DATA_TCP"
                 PROVE  \E j \in 1 .. k - 1 : requests'[j] = "START_TCP"
      BY DEF StartFirst
    <3>1. CASE k = Len(requests) + 1
      <4>1. PICK j \in DOMAIN requests : requests[j] = "START_TCP"
        BY <3>1, <2>2, <1>1 DEF Asked
      <4> QED
        BY <4>1, <3>1, <2>2, <1>0, <1>1
    <3>2. CASE k \in 1 .. Len(requests)
      <4>1. requests[k] = "DATA_TCP" /\ k \in DOMAIN requests
        BY <3>2, <2>2, <1>0, <1>1
      <4>2. PICK j \in 1 .. k - 1 : requests[j] = "START_TCP"
        BY <4>1, <1>0 DEF StartFirst
      <4>3. j \in 1 .. Len(requests)
        BY <3>2, <1>0
      <4> QED
        BY <4>2, <4>3, <2>2, <1>1
    <3> QED
      BY <3>1, <3>2, <2>2, <1>0, <1>1
  <2>3. reader # "off" => Asked
    BY <1>0 DEF ReaderAsked
  <2> QED
    BY <2>1, <2>2, <2>3, RequestsGrow DEF LocalIInv
<1> QED
  BY <1>3, <1>4

LEMMA WireIsWritten ==
  ASSUME [Next]_vars
  PROVE  wire' = wire \/ \E i \in DOMAIN coros : starter # "replying" /\ WriteSucceeds(i)
                                                   /\ UNCHANGED localVars
<1>1. CASE StartStep
  BY <1>1
     DEF StartStep, StarterStep, StarterWaits, StarterTunnels,
         StarterCopies, StarterServes, StarterResolves, StarterRefuses,
         StarterConnects, StarterCatches, ClientOperation,
         ClientOperationFails, ResolveCompletes, ConnectCompletes, rawVars
<1>2. CASE CopyStep
  BY <1>2 DEF CopyStep, CopierStep, CopierReads, CopierWrites, CopierReadSucceeds,
              CopierWriteSucceeds, CopierFails, CopierCatches, Step, rawVars
<1>3. CASE CommonStep
  BY <1>3
     DEF CommonStep, StrandStep, LocalNetworkStep, LocalManagerStep, LocalTimerStep, RunSend,
         RunStop, SenderEnters, SenderResumes, SenderCatches, WriteFails,
         ReaderEnters, ReadSucceeds, ReadFails, ReaderResumes, ReaderCatches,
         ManagerData, ManagerStop, TimerStep, TimerLoads, TimerStores, TimerReturns,
         rawVars
<1> QED
  BY <1>1, <1>2, <1>3, NextCases DEF vars, rawVars

LEMMA ReplyFirstKept ==
  ASSUME LocalIInv, [Next]_vars
  PROVE  ReplyFirst'
<1> DEFINE Replied == {"replied", "done", "failed"}
<1>0. NotServed /\ ReplyFirst /\ TypeOK
  BY DEF LocalIInv, HandshakeInOrder
<1>1. starter \in Replied => starter' \in Replied
  BY NextCases, CommonIsRaw
     DEF StartStep, StarterStep, StarterWaits, StarterTunnels, StarterCopies, StarterServes,
         StarterResolves, StarterRefuses, StarterConnects, StarterCatches, ClientOperation,
         ClientOperationFails, ResolveCompletes, ConnectCompletes, CopyStep, CopierStep,
         CopierReads, CopierWrites, CopierReadSucceeds, CopierWriteSucceeds, CopierFails,
         CopierCatches, Step, vars, localVars
<1>2. CASE wire # <<>> \/ copier["down"] = "written"
  BY <1>0, <1>1, <1>2 DEF ReplyFirst
<1>3. ASSUME wire = <<>>, copier["down"] # "written",
             wire' # <<>> \/ copier'["down"] = "written"
      PROVE  starter' \in Replied
  <2>1. CASE wire' # <<>>
    <3>1. PICK i \in DOMAIN coros : starter # "replying" /\ starter' = starter
      BY <1>3, <2>1, WireIsWritten DEF localVars
    <3>2. coros # <<>>
      BY <3>1, EmptySeq, LenProperties
    <3>3. starter \notin Unserved
      BY <1>0, <3>2 DEF NotServed
    <3> QED
      BY <1>0, <3>1, <3>3 DEF TypeOK, StarterPc, Unserved
  <2>2. CASE copier'["down"] = "written"
    <3>1. copier' # copier
      BY <1>3, <2>2
    <3>2. ~ StartStep
      BY <2>2, <3>1 DEF StartStep, StarterStep, StarterWaits, StarterTunnels, StarterCopies,
         StarterServes, StarterResolves, StarterRefuses, StarterConnects, StarterCatches,
         ClientOperation, ClientOperationFails, ResolveCompletes, ConnectCompletes, Dir
    <3>3. CopyStep
      BY <3>1, <3>2, NextCases, CommonIsRaw DEF vars, localVars
    <3>4. PICK d \in Dir : CopierStep(d) \/ CopierReadSucceeds(d) \/ CopierWriteSucceeds(d)
                             \/ CopierFails(d)
      BY <3>3 DEF CopyStep
    <3>5. CopierWriteSucceeds(d) /\ d = "down"
      <4>1. ASSUME NEW pc, copier' = [copier EXCEPT ![d] = pc] PROVE d = "down" /\ pc = "written"
        BY <1>0, <1>3, <2>2, <4>1 DEF TypeOK, Dir
      <4>2. ~ (CopierStep(d) \/ CopierReadSucceeds(d) \/ CopierFails(d))
        BY <4>1 DEF CopierStep, CopierReads, CopierWrites, CopierReadSucceeds, CopierFails,
                    CopierCatches, Step
      <4>3. CopierWriteSucceeds(d)
        BY <3>4, <4>2
      <4> QED
        BY <4>1, <4>3 DEF CopierWriteSucceeds, Step
    <3>6. copier["down"] = "writing" /\ starter # "replying" /\ starter' = starter
      BY <3>5 DEF CopierWriteSucceeds, Step
    <3>7. starter \notin Unserved
      BY <1>0, <3>6 DEF NotServed, Dir
    <3> QED
      BY <1>0, <3>6, <3>7 DEF TypeOK, StarterPc, Unserved
  <2> QED
    BY <1>3, <2>1, <2>2
<1> QED
  BY <1>2, <1>3 DEF ReplyFirst

LEMMA LocalIInvInit == Init => LocalIInv
<1> SUFFICES ASSUME Init PROVE LocalIInv
  OBVIOUS
<1>1. /\ coros = <<>> /\ bufs = <<>> /\ state = "UNINIT" /\ requests = <<>>
      /\ DOMAIN coros = {} /\ DOMAIN requests = {}
  BY EmptySeq, LenProperties DEF Init, RawInit, BaseInit
<1>2. \A S : <<>> \in Seq(S)
  BY EmptySeq
<1>3. RawTypeOK
  BY <1>2, BaseAssumption, DownTypes
     DEF Init, RawInit, BaseInit, RawTypeOK, BaseTypeOK, RelayState
<1>4. TypeOK
  BY <1>3 DEF Init, TypeOK, StarterPc, CopierPc
<1>5. SenderInv
  BY <1>1 DEF SenderInv, WriterInv, OneWriter, BusyIsNotInit, NoneBeforeStart, NoLostWakeup
<1>6. HandshakeInOrder
  BY <1>1 DEF Init, RawInit, HandshakeInOrder, ReplyFirst, StartFirst, Dir
<1> QED
  BY <1>1, <1>4, <1>5, <1>6 DEF Init, RawInit, LocalIInv, NotServed, ReaderAsked

LEMMA LocalIInvNext == LocalIInv /\ [Next]_vars => LocalIInv'
<1> SUFFICES ASSUME LocalIInv, [Next]_vars PROVE LocalIInv'
  OBVIOUS
<1> QED
  BY TypeKept, SenderInvKept, NotServedKept, StartFirstKept, ReplyFirstKept
     DEF LocalIInv, HandshakeInOrder

(* The types; one coroutine writes at a time, and pops what it wrote; and  *)
(* no buffer waits in the queue of an idle relay, however the handshake    *)
(* goes and whatever stops it.  (base_relay.cpp:39-71, raw_tcp.cpp:273-290)*)
THEOREM LocalQueueInv == Spec => []QueueInv
<1>1. LocalIInv => QueueInv
  BY DEF LocalIInv, SenderInv, WriterInv, QueueInv
<1> QED
  BY <1>1, LocalIInvInit, LocalIInvNext, PTL DEF Spec

(* The client reads the reply to its command before anything relayed to    *)
(* it, and the remote server START_TCP before the data of the session,     *)
(* though both are under way before the handshake ends.                    *)
(* (raw_tcp.cpp:252-280)                                                   *)
THEOREM LocalHandshakeInOrder == Spec => []HandshakeInOrder
<1>1. LocalIInv => HandshakeInOrder
  BY DEF LocalIInv
<1> QED
  BY <1>1, LocalIInvInit, LocalIInvNext, PTL DEF Spec

-----------------------------------------------------------------------------
(* The relay implements OrderedPipe.  A stop during the handshake may be   *)
(* overwritten by RELAY_INIT, but the socket it has closed is not opened   *)
(* again; until then no buffer is lost on its way to the queue.            *)
FlowInv ==
  /\ sock # "unopened"
  /\ sock = "open" => state # "STOP" /\ Carries(posted, accepted, given)

IInv == LocalIInv /\ WireInv /\ FlowInv

LEMMA SockKept ==
  ASSUME LocalIInv, FlowInv, [Next]_vars
  PROVE  sock' # "unopened" /\ (sock = "closed" => sock' = "closed")
<1>1. sock' = sock \/ StopRelay
  BY NextCases, CommonIsRaw, SockOrStop
     DEF StartStep, StarterStep, StarterWaits, StarterTunnels, StarterCopies, StarterServes,
         StarterResolves, StarterRefuses, StarterConnects, StarterCatches,
         StopAndTellManager, ClientOperation, ClientOperationFails, ResolveCompletes,
         ConnectCompletes, CopyStep, CopierStep, CopierReads, CopierWrites,
         CopierReadSucceeds, CopierWriteSucceeds, CopierFails, CopierCatches, Step, vars,
         rawVars
<1> QED
  BY <1>1 DEF FlowInv, StopRelay

(* The start and the copiers leave the queue and what was given alone.     *)
LEMMA StartOrCopy ==
  ASSUME StartStep \/ CopyStep \/ UNCHANGED vars
  PROVE  /\ UNCHANGED <<bufs, accepted, posted, given, wire>>
         /\ coros' = coros \/ (coros' = StartSend(coros) /\ starter \in Unserved)
         /\ state' = state \/ state' = "INIT" \/ StopRelay
<1>1. CASE StartStep
  <2>1. CASE StarterTunnels \/ StarterCopies
    BY <2>1 DEF StarterTunnels, StarterCopies, StarterServes, Unserved
  <2>2. CASE StarterCatches
    BY <2>2 DEF StarterCatches, StopAndTellManager
  <2>3. CASE ~ (StarterTunnels \/ StarterCopies \/ StarterCatches)
    BY <1>1, <2>3
       DEF StartStep, StarterStep, StarterWaits, StarterResolves, StarterRefuses,
           StarterConnects, ClientOperation, ClientOperationFails, ResolveCompletes,
           ConnectCompletes, baseVars, rawVars
  <2> QED
    BY <2>1, <2>2, <2>3
<1>2. CASE CopyStep
  BY <1>2 DEF CopyStep, CopierStep, CopierReads, CopierWrites, CopierReadSucceeds,
              CopierWriteSucceeds, CopierFails, CopierCatches, StopAndTellManager, Step,
              baseVars, rawVars
<1> QED
  BY <1>1, <1>2 DEF vars, baseVars, rawVars

LEMMA FlowInvKept ==
  ASSUME LocalIInv, FlowInv, [Next]_vars
  PROVE  FlowInv'
<1>1. sock' # "unopened" /\ (sock = "closed" => sock' = "closed")
  BY SockKept
<1>2. RawTypeOK /\ RawTypeOK'
  BY TypeKept DEF LocalIInv, TypeOK
<1>3. SUFFICES ASSUME sock' = "open"
               PROVE  state' # "STOP" /\ Carries(posted', accepted', given')
  BY <1>1 DEF FlowInv
<1>4. sock = "open" /\ state # "STOP" /\ Carries(posted, accepted, given)
  BY <1>1, <1>2, <1>3 DEF FlowInv, RawTypeOK
<1>5. CASE CommonStep
  BY <1>2, <1>3, <1>4, <1>5, CommonIsRaw, FlowKept
<1>6. CASE StartStep \/ CopyStep \/ UNCHANGED vars
  <2>1. ~ StopRelay
    BY <1>3, <1>4 DEF StopRelay
  <2> QED
    BY <1>4, <1>6, <2>1, StartOrCopy
<1> QED
  BY <1>5, <1>6, NextCases

LEMMA WireInvKept ==
  ASSUME LocalIInv, WireInv, [Next]_vars
  PROVE  WireInv'
<1>0. RawTypeOK /\ BaseTypeOK /\ SenderInv /\ OneWriter /\ QueueIsSuffix
  BY DEF LocalIInv, TypeOK, RawTypeOK, SenderInv, WriterInv, WireInv
<1>1. CASE CommonStep
  BY <1>0, <1>1, CommonIsRaw, WirePreserved
<1>2. CASE StartStep \/ CopyStep \/ UNCHANGED vars
  <2>1. CASE coros' = coros
    BY <1>2, <2>1, StartOrCopy, WireUntouched
  <2>2. CASE coros' = StartSend(coros)
    <3>1. QueueIsSuffix' /\ WrittenLen' = WrittenLen
      BY <1>0, <1>2, <2>2, StartOrCopy, StartStream
    <3> QED
      BY <1>0, <1>2, <3>1, StartOrCopy, WireKept
  <2> QED
    BY <1>2, <2>1, <2>2, StartOrCopy
<1> QED
  BY <1>1, <1>2, NextCases

LEMMA IInvInit == Init => IInv /\ Pipe!Init
<1> SUFFICES ASSUME Init PROVE IInv /\ Pipe!Init
  OBVIOUS
<1>1. /\ coros = <<>> /\ bufs = <<>> /\ accepted = <<>> /\ posted = <<>>
      /\ given = <<>> /\ wire = <<>> /\ sock = "open" /\ state = "UNINIT"
  BY DEF Init, RawInit, BaseInit
<1>2. Len(<<>>) = 0 /\ DOMAIN coros = {}
  BY <1>1, EmptySeq, LenProperties
<1>3. WireInv
  BY <1>1, <1>2 DEF WireInv, QueueIsSuffix, IsWritten, WrittenLen, Popped
<1>4. FlowInv
  BY <1>1, <1>2 DEF FlowInv, Carries
<1> QED
  BY <1>1, <1>3, <1>4, LocalIInvInit DEF IInv, Pipe!Init

LEMMA IInvNext == IInv /\ [Next]_vars => IInv'
<1> SUFFICES ASSUME IInv, [Next]_vars PROVE IInv'
  OBVIOUS
<1> QED
  BY LocalIInvNext, WireInvKept, FlowInvKept DEF IInv

LEMMA StepImplementsPipe ==
  ASSUME IInv, [Next]_vars
  PROVE  [Pipe!Next]_Pipe!vars
<1>0. sock = "closed" => sock' = "closed"
  BY SockKept DEF IInv
<1>1. CASE CommonStep
  <2>1. RawTypeOK /\ OneWriter /\ WireInv /\ RawStep
    BY <1>1, CommonIsRaw DEF IInv, LocalIInv, TypeOK, SenderInv, WriterInv
  <2>2. sock = "open" => /\ Len(accepted) <= Len(given)
                         /\ \A k \in 1 .. Len(accepted) : accepted[k] = given[k]
    BY DEF IInv, FlowInv, Carries
  <2> QED
    BY <1>0, <2>1, <2>2, RawStepOfPipe
<1>2. CASE StartStep \/ CopyStep \/ UNCHANGED vars
  <2>1. UNCHANGED <<given, wire>>
    BY <1>2, StartOrCopy
  <2>2. CASE sock' = "closed"
    BY <2>1, <2>2 DEF Pipe!Next, Pipe!Close
  <2>3. CASE sock' # "closed"
    BY <1>0, <2>1, <2>3 DEF Pipe!vars
  <2> QED
    BY <2>2, <2>3
<1> QED
  BY <1>1, <1>2, NextCases

(* The relay of a client implements OrderedPipe from its first byte to the *)
(* end, also when it is stopped in the middle of the handshake: what the   *)
(* manager hands over is written in order, once each, and nothing after    *)
(* the client's socket is closed.  (base_relay.cpp:29-71,                  *)
(* raw_tcp.cpp:98-126, 208-290)                                            *)
THEOREM LocalImplementsPipe == Spec => ImplementsPipe
<1>1. IInv /\ [Next]_vars => [Pipe!Next]_Pipe!vars
  BY StepImplementsPipe
<1> QED
  BY <1>1, IInvInit, IInvNext, PTL DEF Spec, ImplementsPipe, Pipe!Spec
=============================================================================
