--------------------------- MODULE LocalUdpProofs ---------------------------
(***************************************************************************)
(* Theorems about LocalUdp: the reply relay's queue is served through all  *)
(* its restarts, the three tables agree, and replies go to the source that *)
(* opened their session.                                                   *)
(***************************************************************************)
EXTENDS LocalUdp, BaseRelayProofs

LEMMA HandlerTypes ==
  /\ Start \in Handler
  /\ \A d \in Data : Send(d) \in Handler
  /\ \A s \in Ids, c \in Srcs : AddPeer(s, c) \in Handler
  /\ \A ids \in SUBSET (0 .. MaxSession) : DelPeers(ids) \in Handler
  /\ \A h \in Handler : /\ h.run = "send" => h.buf \in Data
                        /\ h.run = "add" => h.id \in Ids /\ h.peer \in Srcs
                        /\ h.run = "del" => h.ids \in SUBSET (0 .. MaxSession)
BY DEF Handler, Start, Send, AddPeer, DelPeers

LEMMA HandlerRuns ==
  /\ Start.run = "init"
  /\ \A d : Send(d).run = "send" /\ Send(d).buf = d
  /\ \A s, c : AddPeer(s, c).run = "add" /\ AddPeer(s, c).id = s /\ AddPeer(s, c).peer = c
  /\ \A ids : DelPeers(ids).run = "del" /\ DelPeers(ids).ids = ids
BY DEF Start, Send, AddPeer, DelPeers

LEMMA ReplyTypes ==
  /\ \A d \in Data : d.session \in Ids /\ d.from \in Dests
  /\ \A s \in Ids : s \in 0 .. MaxSession /\ s # 0
  /\ 1 \in Ids /\ 0 \in 0 .. MaxSession
  /\ NoEntry \in Entry /\ NoEntry.session = 0 /\ NoEntry.timeout = 0
  /\ TIMEOUT \in 0 .. TIMEOUT /\ TIMEOUT > 0
  /\ NoSrc \notin Srcs /\ NoSrc \in Endpoint /\ Srcs \subseteq Endpoint
BY LocalUdpAssumption, BaseAssumption DEF Ids, Entry, NoEntry, Endpoint

-----------------------------------------------------------------------------
(* What the relay's start needs: the posted handler that sets RELAY_INIT   *)
(* is the first to run, and no send coroutine has been spawned before.     *)
StartIsFirst ==
  \A k \in DOMAIN posted : posted[k].run = "init" => k = 1 /\ coros = <<>>

(* A reply is being sent from the socket bound to its address.             *)
BoundToReply ==
  \A i \in DOMAIN coros : coros[i].pc = "writing" => local = coros[i].buf.from

RelayInv == SenderInv /\ StartIsFirst /\ BoundToReply

RelayTypeOK ==
  /\ BaseTypeOK
  /\ peers \in [Ids -> Endpoint]
  /\ local \in Dests \cup {NoDest}
  /\ dst \in Endpoint
  /\ posted \in Seq(Handler)

(* The manager posts a handler to the relay, or to one that takes the      *)
(* place of a stopped one.                                                 *)
LEMMA PostRelay ==
  ASSUME RelayTypeOK, RelayInv, NEW h \in Handler, h.run # "init", PostToUdpSend(<<h>>)
  PROVE  RelayTypeOK' /\ RelayInv'
<1>1. CASE state = "STOP" /\ StartLocalUdp(<<h>>)
  <2>1. posted' \in Seq(Handler) /\ \A k \in DOMAIN posted' : posted'[k].run = "init" => k = 1
    <3>1. <<Start>> \in Seq(Handler) /\ <<Start>>[1] = Start /\ Len(<<Start>>) = 1
      BY HandlerTypes
    <3>2. posted' = <<Start>> \o <<h>>
      BY <1>1 DEF StartLocalUdp
    <3>3. DOMAIN <<Start>> = {1}
      BY <3>1, LenProperties
    <3> HIDE DEF Start
    <3>4. /\ posted' \in Seq(Handler)
          /\ DOMAIN posted' = {1, 2}
          /\ posted'[2] = h
      <4> DEFINE q == <<Start>>
      <4>1. q \in Seq(Handler) /\ Len(q) = 1 /\ DOMAIN q = {1}
        BY <3>1, <3>3
      <4> HIDE DEF q
      <4>2. /\ Append(q, h) \in Seq(Handler)
            /\ DOMAIN Append(q, h) = {1} \cup {1 + 1}
            /\ Append(q, h)[1 + 1] = h
            /\ q \o <<h>> = Append(q, h)
        BY <4>1, QueueGrows
      <4>3. posted' = q \o <<h>>
        BY <3>2 DEF q
      <4> QED
        BY <4>2, <4>3
    <3> QED
      BY <3>4
  <2>2. /\ state' = "UNINIT" /\ bufs' = <<>> /\ coros' = <<>> /\ timeout' = TIMEOUT
        /\ accepted' = <<>> /\ down' = down
        /\ peers' = [s \in Ids |-> NoSrc] /\ local' = NoDest /\ dst' = NoSrc
    BY <1>1 DEF StartLocalUdp, PostToUdpSend
  <2>3. \A S : <<>> \in Seq(S)
    BY EmptySeq
  <2>4. RelayTypeOK'
    BY <2>1, <2>2, <2>3, ReplyTypes DEF RelayTypeOK, BaseTypeOK, RelayState
  <2>5. DOMAIN coros' = {}
    BY <2>2
  <2>6. RelayInv'
    BY <2>1, <2>2, <2>5
       DEF RelayInv, StartIsFirst, BoundToReply, SenderInv, WriterInv, OneWriter,
           BusyIsNotInit, NoneBeforeStart, NoLostWakeup
  <2> QED
    BY <2>4, <2>6
<1>2. CASE /\ posted' = posted \o <<h>>
           /\ UNCHANGED <<state, bufs, coros, timeout, down, accepted, peers, local, dst>>
  <2>1. posted' = Append(posted, h) /\ posted' \in Seq(Handler)
    BY <1>2, QueueGrows DEF RelayTypeOK
  <2>2. RelayTypeOK'
    BY <1>2, <2>1 DEF RelayTypeOK, BaseTypeOK
  <2>3. SenderInv'
    BY <1>2, SenderUntouched DEF RelayInv, SenderInv, SenderKept
  <2>4. StartIsFirst'
    BY <1>2, <2>1, QueueGrows DEF RelayInv, StartIsFirst, RelayTypeOK
  <2> QED
    BY <1>2, <2>2, <2>3, <2>4 DEF RelayInv, BoundToReply
<1> QED
  BY <1>1, <1>2 DEF PostToUdpSend

(* The timer posts a handler to the relay as it is.                        *)
LEMMA TickRelay ==
  ASSUME RelayTypeOK, RelayInv, NEW h \in Handler, h.run # "init",
         posted' = posted \/ posted' = Append(posted, h),
         UNCHANGED <<baseVars, peers, local, dst>>
  PROVE  RelayTypeOK' /\ RelayInv'
<1>1. posted' \in Seq(Handler)
  BY QueueGrows DEF RelayTypeOK
<1>2. RelayTypeOK'
  BY <1>1 DEF RelayTypeOK, BaseTypeOK, baseVars
<1>3. SenderInv'
  BY SenderUntouched DEF RelayInv, SenderInv, SenderKept, baseVars
<1>4. StartIsFirst'
  BY QueueGrows DEF RelayInv, StartIsFirst, RelayTypeOK, baseVars
<1> QED
  BY <1>2, <1>3, <1>4 DEF RelayInv, BoundToReply, baseVars

(* The posted handlers run.                                                *)
LEMMA HandlerRelay ==
  ASSUME RelayTypeOK, RelayInv, HandlerStep
  PROVE  RelayTypeOK' /\ RelayInv'
<1>0. BaseTypeOK /\ WriterInv /\ NoLostWakeup /\ posted \in Seq(Handler)
  BY DEF RelayTypeOK, RelayInv, SenderInv
<1>1. posted # <<>> /\ posted' = Tail(posted)
  BY DEF HandlerStep, RunStart, RunSend, RunAddPeer, RunDelPeer
<1>2. /\ posted' \in Seq(Handler)
      /\ Head(posted) \in Handler
      /\ Head(posted) = posted[1] /\ 1 \in DOMAIN posted
      /\ \A k \in DOMAIN posted' : k + 1 \in DOMAIN posted /\ posted'[k] = posted[k + 1]
      /\ \A k \in DOMAIN posted' : k \in Nat /\ k # 0
  BY <1>0, <1>1, QueuePops
<1>3. StartIsFirst'
  <2> SUFFICES ASSUME NEW k \in DOMAIN posted', posted'[k].run = "init" PROVE FALSE
    BY DEF StartIsFirst
  <2>1. k + 1 = 1
    BY <1>2 DEF RelayInv, StartIsFirst
  <2> QED
    BY <1>2, <2>1
<1>4. ASSUME RunStart PROVE RelayTypeOK' /\ RelayInv'
  <2>1. coros = <<>> /\ coros' = StartSend(coros) /\ state' = "INIT" /\ bufs' = bufs
    BY <1>2, <1>4 DEF RunStart, RelayInv, StartIsFirst
  <2>2. SenderInv' /\ coros' \in Seq(Frame)
    BY <1>0, <2>1, StartSender
  <2>3. RelayTypeOK'
    BY <1>2, <1>4, <2>1, <2>2 DEF RunStart, RelayTypeOK, BaseTypeOK, RelayState
  <2>4. BoundToReply'
    <3>1. \A i \in DOMAIN coros' : coros'[i] = Spawned
      BY <1>0, <2>1, FrameAdded, EmptySeq, LenProperties DEF BaseTypeOK, StartSend
    <3> QED
      BY <3>1, FramePcs DEF BoundToReply
  <2> QED
    BY <1>3, <2>2, <2>3, <2>4 DEF RelayInv
<1>5. ASSUME RunSend PROVE RelayTypeOK' /\ RelayInv'
  <2>1. Head(posted).buf \in Data
    BY <1>2, <1>5, HandlerTypes DEF RunSend
  <2>2. BaseTypeOK' /\ SenderKept
    BY <1>0, <1>5, <2>1, SendDataTypes, SendDataSender DEF RunSend
  <2>3. RelayTypeOK'
    BY <1>2, <1>5, <2>2 DEF RunSend, RelayTypeOK
  <2>4. BoundToReply'
    <3>1. \/ coros' = coros
          \/ /\ DOMAIN coros' = DOMAIN coros \cup {Len(coros) + 1}
             /\ coros'[Len(coros) + 1] = Spawned
             /\ \A j \in DOMAIN coros : coros'[j] = coros[j]
      BY <1>0, <1>5, FrameAdded DEF BaseTypeOK, RunSend, SendData, StartSend
    <3> QED
      BY <1>5, <3>1, FramePcs DEF RelayInv, BoundToReply, RunSend
  <2> QED
    BY <1>0, <1>3, <2>2, <2>3, <2>4 DEF RelayInv, SenderKept, SenderInv
<1>6. ASSUME RunAddPeer \/ RunDelPeer PROVE RelayTypeOK' /\ RelayInv'
  <2>1. peers' \in [Ids -> Endpoint]
    <3>1. CASE RunAddPeer
      BY <1>2, <3>1, HandlerTypes, ReplyTypes DEF RunAddPeer, RelayTypeOK
    <3>2. CASE RunDelPeer
      BY <3>2, ReplyTypes DEF RunDelPeer, RelayTypeOK
    <3> QED
      BY <1>6, <3>1, <3>2
  <2>2. UNCHANGED <<baseVars, local, dst>>
    BY <1>6 DEF RunAddPeer, RunDelPeer
  <2>3. RelayTypeOK'
    BY <1>2, <2>1, <2>2 DEF RelayTypeOK, BaseTypeOK, baseVars
  <2>4. SenderInv'
    BY <1>0, <2>2, SenderUntouched DEF SenderInv, SenderKept, baseVars
  <2> QED
    BY <1>3, <2>2, <2>3, <2>4 DEF RelayInv, BoundToReply, baseVars
<1> QED
  BY <1>4, <1>5, <1>6 DEF HandlerStep

(* The send coroutine.                                                     *)
LEMMA SenderRelay ==
  ASSUME RelayTypeOK, RelayInv, SenderStep
  PROVE  RelayTypeOK' /\ RelayInv'
<1>0. BaseTypeOK /\ WriterInv /\ NoLostWakeup /\ OneWriter
  BY DEF RelayTypeOK, RelayInv, SenderInv, WriterInv
<1>1. PICK i \in DOMAIN coros : SenderEnters(i) \/ SenderResumes(i) \/ SenderCatches(i)
  BY DEF SenderStep
<1>2. posted' = posted /\ peers' = peers /\ down' = down
  BY <1>1 DEF SenderEnters, SenderResumes, SenderCatches, relayVars
<1>3. StartIsFirst'
  <2>1. coros # <<>>
    BY <1>0, EmptySeq, LenProperties
  <2> QED
    BY <1>2, <2>1 DEF RelayInv, StartIsFirst
<1>4. CASE SenderEnters(i) \/ SenderResumes(i)
  <2>1. BaseTypeOK'
    BY <1>0, <1>2, <1>4, EnterSendTypes, ResumeSendTypes DEF SenderEnters, SenderResumes
  <2>2. SenderKept
    BY <1>0, <1>4, EnterSendSender, ResumeSendSender DEF SenderEnters, SenderResumes
  <2>3. GetSendDataAddr(i)
    BY <1>4 DEF SenderEnters, SenderResumes
  <2>4. /\ DOMAIN coros' = DOMAIN coros
        /\ \A j \in DOMAIN coros : j # i => coros'[j] = coros[j]
    <3>1. PICK f \in Frame : coros' = [coros EXCEPT ![i] = f]
      <4>1. CASE SenderEnters(i)
        BY <1>0, <4>1, FrameTypes, SendLoopWritten DEF SenderEnters, EnterSend, BaseTypeOK
      <4>2. CASE SenderResumes(i)
        <5>1. bufs # <<>>
          BY <1>0, <4>2 DEF SenderResumes, ResumeSend, OneWriter, Suspended
        <5>2. Tail(bufs) \in Seq(Data)
          BY <1>0, <5>1, HeadTailProperties DEF BaseTypeOK
        <5> QED
          BY <1>0, <4>2, <5>2, SendLoopWritten DEF SenderResumes, ResumeSend, BaseTypeOK
      <4> QED
        BY <1>4, <4>1, <4>2
    <3> QED
      BY <1>0, <3>1, FrameSet DEF BaseTypeOK
  <2>5. OneWriter'
    BY <2>2 DEF SenderKept, WriterInv
  <2>6. local' \in Dests \cup {NoDest} /\ dst' \in Endpoint
    <3>1. CASE coros'[i].pc = "writing"
      <4>1. bufs' # <<>> /\ Head(bufs') = coros'[i].buf
        BY <2>4, <2>5, <3>1 DEF OneWriter, Suspended
      <4>2. coros'[i].buf \in Data
        BY <2>1, <4>1, HeadTailProperties DEF BaseTypeOK
      <4> QED
        BY <2>3, <3>1, <4>2, ReplyTypes DEF GetSendDataAddr, RelayTypeOK
    <3>2. CASE coros'[i].pc # "writing"
      BY <2>3, <3>2 DEF GetSendDataAddr, RelayTypeOK
    <3> QED
      BY <3>1, <3>2
  <2>7. BoundToReply'
    <3> SUFFICES ASSUME NEW j \in DOMAIN coros', coros'[j].pc = "writing"
                 PROVE  local' = coros'[j].buf.from
      BY DEF BoundToReply
    <3>1. CASE j = i
      BY <2>3, <3>1 DEF GetSendDataAddr
    <3>2. CASE j # i
      <4>1. coros'[i].pc # "writing"
        BY <2>4, <2>5, <3>2 DEF OneWriter, Suspended
      <4>2. local' = local /\ coros'[j] = coros[j] /\ j \in DOMAIN coros
        BY <2>3, <2>4, <3>2, <4>1 DEF GetSendDataAddr
      <4> QED
        BY <4>2 DEF RelayInv, BoundToReply
    <3> QED
      BY <3>1, <3>2
  <2>8. RelayTypeOK'
    BY <1>2, <2>1, <2>6 DEF RelayTypeOK
  <2> QED
    BY <1>0, <1>3, <2>2, <2>7, <2>8 DEF RelayInv, SenderKept, SenderInv
<1>5. CASE SenderCatches(i)
  <2>1. /\ coros' = [coros EXCEPT ![i] = Returned] /\ state' = "STOP"
        /\ UNCHANGED <<bufs, timeout, down, accepted, local, dst>>
    BY <1>5 DEF SenderCatches, relayVars
  <2>2. coros' \in Seq(Frame) /\ SenderInv'
    BY <1>0, <2>1, FrameReturns, CaughtSender DEF SenderInv
  <2>3. RelayTypeOK'
    BY <1>2, <2>1, <2>2 DEF RelayTypeOK, BaseTypeOK, RelayState
  <2>4. BoundToReply'
    BY <1>0, <2>1, FrameSet, FrameTypes, FramePcs DEF RelayInv, BoundToReply, BaseTypeOK
  <2> QED
    BY <1>3, <2>2, <2>3, <2>4 DEF RelayInv
<1> QED
  BY <1>1, <1>4, <1>5

(* A datagram is sent, or refused.                                         *)
LEMMA CompletionRelay ==
  ASSUME RelayTypeOK, RelayInv, SendCompletes
  PROVE  RelayTypeOK' /\ RelayInv'
<1>0. BaseTypeOK /\ WriterInv /\ NoLostWakeup
  BY DEF RelayTypeOK, RelayInv, SenderInv
<1>1. PICK i \in DOMAIN coros : SendSucceeds(i) \/ SendFails(i)
  BY DEF SendCompletes
<1>2. /\ coros[i].pc = "writing"
      /\ UNCHANGED <<state, bufs, timeout, down, accepted, peers, local, dst, posted>>
  BY <1>1 DEF SendSucceeds, SendFails, relayVars
<1>3. /\ coros' \in Seq(Frame) /\ coros' # <<>> /\ DOMAIN coros' = DOMAIN coros
      /\ coros'[i].pc # "writing"
      /\ \A j \in DOMAIN coros : j # i => coros'[j] = coros[j]
      /\ SenderKept
  <2>1. CASE SendSucceeds(i)
    <3>1. coros' = [coros EXCEPT ![i].pc = "written"]
      BY <2>1 DEF SendSucceeds
    <3> QED
      BY <1>0, <1>2, <3>1, WriteEndsFrame, WriteEndsSender
  <2>2. CASE SendFails(i)
    <3>1. coros' = [coros EXCEPT ![i].pc = "failed"]
      BY <2>2 DEF SendFails
    <3> QED
      BY <1>0, <1>2, <3>1, WriteEndsFrame, WriteEndsSender
  <2> QED
    BY <1>1, <2>1, <2>2
<1>4. coros # <<>>
  BY <1>1, EmptySeq, LenProperties
<1>5. RelayTypeOK'
  BY <1>2, <1>3 DEF RelayTypeOK, BaseTypeOK
<1>6. StartIsFirst'
  BY <1>2, <1>4 DEF RelayInv, StartIsFirst
<1>7. BoundToReply'
  BY <1>2, <1>3 DEF RelayInv, BoundToReply
<1> QED
  BY <1>0, <1>3, <1>5, <1>6, <1>7 DEF RelayInv, SenderKept, SenderInv

-----------------------------------------------------------------------------
(* The manager's tables and the histories are well typed.                  *)
TableTypeOK ==
  /\ session \in Ids
  /\ srcs \in [Endpoint -> Entry]
  /\ udpSrcs \in [Ids -> Endpoint]
  /\ requests \in Seq([session : Ids, src : Srcs])
  /\ given \subseteq Data
  /\ delivered \in Seq([reply : Data, to : Srcs, from : Dests])

LEMMA TypeParts == TypeOK <=> RelayTypeOK /\ TableTypeOK
BY DEF TypeOK, RelayTypeOK, TableTypeOK

(* The session a datagram is numbered with is one of those modelled.       *)
LEMMA SessionNumbers ==
  ASSUME TableTypeOK, NEW c \in Srcs, SessionOf(c) <= MaxSession
  PROVE  SessionOf(c) \in Ids
<1>1. srcs[c] \in Entry /\ session \in Ids
  BY ReplyTypes DEF TableTypeOK
<1>2. srcs[c].session \in 0 .. MaxSession
  BY <1>1 DEF Entry
<1> QED
  BY <1>1, <1>2, LocalUdpAssumption DEF SessionOf, NewSession, Ids

LEMMA CountedDownTypes ==
  ASSUME NEW e \in Entry
  PROVE  CountedDown(e) \in Entry
<1>1. e.session \in 0 .. MaxSession /\ e.timeout \in 0 .. TIMEOUT
  BY DEF Entry
<1>2. CASE e.timeout <= 1
  BY <1>2, ReplyTypes DEF CountedDown
<1>3. CASE ~ (e.timeout <= 1)
  <2>1. CountedDown(e) = [e EXCEPT !.timeout = e.timeout - 1]
    BY <1>3 DEF CountedDown
  <2>2. e.timeout - 1 \in 0 .. TIMEOUT
    BY <1>1, <1>3, BaseAssumption
  <2> QED
    BY <2>1, <2>2 DEF Entry
<1> QED
  BY <1>2, <1>3

LEMMA ManagerTypes ==
  ASSUME TypeOK, ManagerStep
  PROVE  TableTypeOK'
<1>0. TableTypeOK
  BY TypeParts
<1>1. ASSUME NEW c \in Srcs, SendUdpData(c) PROVE TableTypeOK'
  <2> DEFINE s == SessionOf(c)
  <2>1. s \in Ids
    BY <1>0, <1>1, SessionNumbers DEF SendUdpData
  <2>2. [session |-> s, timeout |-> TIMEOUT] \in Entry
    BY <2>1, ReplyTypes DEF Entry
  <2>3. session' \in Ids /\ udpSrcs' \in [Ids -> Endpoint]
    BY <1>0, <1>1, <2>1, ReplyTypes DEF SendUdpData, TableTypeOK
  <2>4. srcs' \in [Endpoint -> Entry]
    BY <1>0, <1>1, <2>2, ReplyTypes DEF SendUdpData, TableTypeOK
  <2>5. requests' \in Seq([session : Ids, src : Srcs])
    BY <1>0, <1>1, <2>1, AppendProperties DEF SendUdpData, TableTypeOK
  <2> QED
    BY <1>0, <1>1, <2>3, <2>4, <2>5 DEF SendUdpData, TableTypeOK
<1>2. ASSUME NEW d \in Data, Response(d) PROVE TableTypeOK'
  <2>1. \A e \in Entry : [e EXCEPT !.timeout = TIMEOUT] \in Entry
    BY ReplyTypes DEF Entry
  <2>2. udpSrcs[d.session] \in Endpoint
    BY <1>0, ReplyTypes DEF TableTypeOK
  <2>3. srcs' \in [Endpoint -> Entry]
    BY <1>0, <1>2, <2>1, <2>2 DEF Response, TableTypeOK
  <2> QED
    BY <1>0, <1>2, <2>3 DEF Response, TableTypeOK
<1>3. ASSUME TickIdle PROVE TableTypeOK'
  BY <1>0, <1>3, ReplyTypes DEF TickIdle, TableTypeOK, history
<1>4. ASSUME Tick PROVE TableTypeOK'
  <2>1. srcs' \in [Endpoint -> Entry]
    BY <1>0, <1>4, CountedDownTypes DEF Tick, TableTypeOK
  <2> QED
    BY <1>0, <1>4, <2>1, ReplyTypes DEF Tick, TableTypeOK, history
<1> QED
  BY <1>1, <1>2, <1>3, <1>4 DEF ManagerStep

(* The manager's steps, as the reply relay sees them.                      *)
LEMMA ManagerRelay ==
  ASSUME TypeOK, RelayInv, ManagerStep
  PROVE  RelayTypeOK' /\ RelayInv'
<1>0. RelayTypeOK /\ TableTypeOK /\ \A ids : DelPeers(ids).run # "init"
  BY TypeParts, HandlerRuns
<1>1. ASSUME NEW c \in Srcs, SendUdpData(c) PROVE RelayTypeOK' /\ RelayInv'
  <2>1. CASE NewSession(c)
    <3>1. SessionOf(c) \in Ids
      BY <1>0, <1>1, SessionNumbers DEF SendUdpData
    <3>2. AddPeer(SessionOf(c), c) \in Handler /\ AddPeer(SessionOf(c), c).run # "init"
      BY <3>1, HandlerTypes, HandlerRuns
    <3> QED
      BY <1>0, <1>1, <2>1, <3>2, PostRelay DEF SendUdpData
  <2>2. CASE ~ NewSession(c)
    <3>1. UNCHANGED <<baseVars, relayVars>>
      BY <1>1, <2>2 DEF SendUdpData
    <3>2. DelPeers({}) \in Handler
      BY HandlerTypes
    <3> QED
      BY <1>0, <3>1, <3>2, TickRelay DEF relayVars
  <2> QED
    BY <2>1, <2>2
<1>2. ASSUME NEW d \in Data, Response(d) PROVE RelayTypeOK' /\ RelayInv'
  <2>1. Send(d) \in Handler /\ Send(d).run # "init"
    BY HandlerTypes, HandlerRuns
  <2> QED
    BY <1>0, <1>2, <2>1, PostRelay DEF Response
<1>3. ASSUME TickIdle PROVE RelayTypeOK' /\ RelayInv'
  <2>1. DelPeers({0}) \in Handler
    BY HandlerTypes, ReplyTypes
  <2> QED
    BY <1>0, <1>3, <2>1, TickRelay DEF TickIdle
<1>4. ASSUME Tick PROVE RelayTypeOK' /\ RelayInv'
  <2>1. ExpiringIds \in SUBSET (0 .. MaxSession)
    BY <1>0 DEF ExpiringIds, Expiring, TableTypeOK, Entry
  <2>2. DelPeers(ExpiringIds) \in Handler
    BY <2>1, HandlerTypes
  <2> QED
    BY <1>0, <1>4, <2>2, TickRelay DEF Tick
<1> QED
  BY <1>1, <1>2, <1>3, <1>4 DEF ManagerStep

(* The relay's own steps leave the tables; one that sends a datagram adds  *)
(* it to those delivered.                                                  *)
LEMMA RelayTypes ==
  ASSUME TypeOK, RelayInv, HandlerStep \/ SenderStep \/ SendCompletes
  PROVE  TableTypeOK'
<1>0. TableTypeOK
  BY TypeParts
<1>1. CASE UNCHANGED <<tableVars, history>>
  BY <1>0, <1>1 DEF TableTypeOK, tableVars, history
<1>2. ASSUME NEW i \in DOMAIN coros, SendSucceeds(i) PROVE TableTypeOK'
  <2>1. coros[i].buf \in Data /\ local = coros[i].buf.from
    <3>1. bufs # <<>> /\ Head(bufs) = coros[i].buf /\ local = coros[i].buf.from
      BY <1>2 DEF SendSucceeds, RelayInv, SenderInv, WriterInv, OneWriter, Suspended,
                  BoundToReply
    <3> QED
      BY <3>1, HeadTailProperties DEF TypeOK, BaseTypeOK
  <2>2. [reply |-> coros[i].buf, to |-> dst, from |-> local]
          \in [reply : Data, to : Srcs, from : Dests]
    BY <1>2, <2>1, ReplyTypes DEF SendSucceeds, TypeOK, Endpoint
  <2>3. delivered' \in Seq([reply : Data, to : Srcs, from : Dests])
    BY <1>2, <2>2, AppendProperties DEF SendSucceeds, TypeOK
  <2> QED
    BY <1>0, <1>2, <2>3 DEF SendSucceeds, TableTypeOK, tableVars
<1>3. ASSUME NEW i \in DOMAIN coros, SendFails(i) PROVE UNCHANGED <<tableVars, history>>
  BY <1>3 DEF SendFails
<1>4. HandlerStep => UNCHANGED <<tableVars, history>>
  BY DEF HandlerStep, RunStart, RunSend, RunAddPeer, RunDelPeer
<1>5. SenderStep => UNCHANGED <<tableVars, history>>
  BY DEF SenderStep, SenderEnters, SenderResumes, SenderCatches
<1> QED
  BY <1>1, <1>2, <1>3, <1>4, <1>5 DEF SendCompletes

-----------------------------------------------------------------------------
(* The inductive invariant of the reply relay.                             *)
QueueIInv == TypeOK /\ RelayInv

LEMMA QueueInit == Init => QueueIInv
<1> SUFFICES ASSUME Init PROVE QueueIInv
  OBVIOUS
<1>1. \A S : <<>> \in Seq(S)
  BY EmptySeq
<1>2. <<Start>> \in Seq(Handler) /\ DOMAIN <<Start>> = {1}
  <2>1. <<Start>> \in Seq(Handler) /\ Len(<<Start>>) = 1
    BY HandlerTypes
  <2> QED
    BY <2>1, LenProperties
<1>3. BaseTypeOK
  BY <1>1, DownTypes, BaseAssumption DEF Init, BaseInit, BaseTypeOK, RelayState
<1>4. TypeOK
  BY <1>1, <1>2, <1>3, ReplyTypes DEF Init, TypeOK
<1>5. DOMAIN coros = {} /\ coros = <<>> /\ state = "UNINIT" /\ bufs = <<>>
  BY DEF Init, BaseInit
<1>6. RelayInv
  BY <1>2, <1>5 DEF Init, RelayInv, StartIsFirst, BoundToReply, SenderInv, WriterInv,
                    OneWriter, BusyIsNotInit, NoneBeforeStart, NoLostWakeup
<1> QED
  BY <1>4, <1>6 DEF QueueIInv

LEMMA QueueStep == QueueIInv /\ [Next]_vars => QueueIInv'
<1> SUFFICES ASSUME QueueIInv, [Next]_vars PROVE QueueIInv'
  OBVIOUS
<1>0. TypeOK /\ RelayInv /\ RelayTypeOK
  BY TypeParts DEF QueueIInv
<1>1. CASE ManagerStep
  BY <1>0, <1>1, ManagerTypes, ManagerRelay, TypeParts DEF QueueIInv, TypeOK, RelayTypeOK, TableTypeOK, BaseTypeOK
<1>2. CASE HandlerStep
  BY <1>0, <1>2, RelayTypes, HandlerRelay DEF QueueIInv, TypeOK, RelayTypeOK, TableTypeOK, BaseTypeOK
<1>3. CASE SenderStep
  BY <1>0, <1>3, RelayTypes, SenderRelay DEF QueueIInv, TypeOK, RelayTypeOK, TableTypeOK, BaseTypeOK
<1>4. CASE SendCompletes
  BY <1>0, <1>4, RelayTypes, CompletionRelay DEF QueueIInv, TypeOK, RelayTypeOK, TableTypeOK, BaseTypeOK
<1>5. CASE UNCHANGED vars
  BY <1>5 DEF QueueIInv, TypeOK, BaseTypeOK, RelayInv, StartIsFirst, BoundToReply, SenderInv,
              WriterInv, OneWriter, BusyIsNotInit, NoneBeforeStart, NoLostWakeup, Suspended,
              vars, baseVars, tableVars, relayVars, history
<1> QED
  BY <1>1, <1>2, <1>3, <1>4, <1>5 DEF Next

(* The reply relay is well typed, one coroutine of it writes at a time and *)
(* pops what it wrote, and no reply waits in the queue of an idle relay,   *)
(* through every restart of the relay.  (base_relay.cpp:39-71,             *)
(* relay_manager.cpp:89-92)                                                *)
THEOREM LocalUdpQueueInv == Spec => []QueueInv
<1>1. QueueIInv => QueueInv
  BY DEF QueueIInv, QueueInv, RelayInv, SenderInv, WriterInv
<1> QED
  BY <1>1, QueueInit, QueueStep, PTL DEF Spec

-----------------------------------------------------------------------------
(* The handlers that are still posted, of any kind but one, are those of   *)
(* before or of the relay's restart, plus the one posted now.              *)
LEMMA PostedAfterPost ==
  ASSUME RelayTypeOK, NEW h \in Handler, PostToUdpSend(<<h>>)
  PROVE  \/ /\ state = "STOP" /\ posted' = <<Start>> \o <<h>>
            /\ DOMAIN posted' = {1, 2} /\ posted'[1] = Start /\ posted'[2] = h
            /\ peers' = [s \in Ids |-> NoSrc] /\ coros' = <<>>
         \/ /\ posted' = Append(posted, h)
            /\ UNCHANGED <<coros, peers, local, dst>>
            /\ DOMAIN posted' = DOMAIN posted \cup {Len(posted) + 1}
            /\ \A k \in DOMAIN posted : k \in Nat /\ k < Len(posted) + 1 /\ posted'[k] = posted[k]
            /\ posted'[Len(posted) + 1] = h
<1>1. CASE state = "STOP" /\ StartLocalUdp(<<h>>)
  <2> DEFINE q == <<Start>>
  <2>1. q \in Seq(Handler) /\ Len(q) = 1 /\ q[1] = Start
    BY HandlerTypes
  <2>2. DOMAIN q = {1}
    BY <2>1, LenProperties
  <2> HIDE DEF q
  <2>3. /\ DOMAIN Append(q, h) = {1} \cup {1 + 1}
        /\ Append(q, h)[1 + 1] = h
        /\ Append(q, h)[1] = Start
        /\ q \o <<h>> = Append(q, h)
    BY <2>1, <2>2, QueueGrows
  <2>4. posted' = q \o <<h>> /\ q = <<Start>>
    BY <1>1 DEF StartLocalUdp, q
  <2> HIDE DEF Start
  <2> QED
    BY <1>1, <2>3, <2>4 DEF StartLocalUdp
<1>2. CASE posted' = posted \o <<h>> /\ UNCHANGED <<coros, peers, local, dst>>
  BY <1>2, QueueGrows DEF RelayTypeOK
<1> QED
  BY <1>1, <1>2 DEF PostToUdpSend

-----------------------------------------------------------------------------
(* RepliesToOwner rests on the first datagram of each session: whoever the *)
(* tables, a posted add_peer, the pending send or a datagram that was sent *)
(* names for a session is the source that opened it, and no other did.     *)
Opened(q, s, c) == \E j \in DOMAIN q : q[j] = [session |-> s, src |-> c]

Numbered ==
  \A j \in DOMAIN requests :
    /\ requests[j].session <= session
    /\ \A i \in DOMAIN requests :
         requests[i].session = requests[j].session => requests[i].src = requests[j].src
SourcesOpened ==
  /\ srcs[NoSrc].session = 0
  /\ \A c \in Srcs : srcs[c].session # 0 => Opened(requests, srcs[c].session, c)
  /\ \A s \in Ids : udpSrcs[s] # NoSrc => Opened(requests, s, udpSrcs[s])
PeersOpened ==
  /\ \A s \in Ids : peers[s] # NoSrc => Opened(requests, s, peers[s])
  /\ \A k \in DOMAIN posted :
       posted[k].run = "add" => Opened(requests, posted[k].id, posted[k].peer)
SendOpened ==
  \A i \in DOMAIN coros :
    coros[i].pc = "writing" /\ dst # NoSrc => Opened(requests, coros[i].buf.session, dst)
DeliveredOpened ==
  \A i \in DOMAIN delivered :
    /\ delivered[i].from = delivered[i].reply.from
    /\ Opened(requests, delivered[i].reply.session, delivered[i].to)
OwnerInv ==
  Numbered /\ SourcesOpened /\ PeersOpened /\ SendOpened /\ DeliveredOpened

(* A session that was opened stays so.                                     *)
LEMMA OpenedKept ==
  ASSUME TableTypeOK, NEW s, NEW c, Opened(requests, s, c),
         \/ requests' = requests
         \/ \E r \in [session : Ids, src : Srcs] : requests' = Append(requests, r)
  PROVE  Opened(requests', s, c)
<1>1. CASE requests' = requests
  BY <1>1 DEF Opened
<1>2. ASSUME NEW r \in [session : Ids, src : Srcs], requests' = Append(requests, r)
      PROVE  Opened(requests', s, c)
  BY <1>2, QueueGrows DEF Opened, TableTypeOK
<1> QED
  BY <1>1, <1>2

LEMMA OpenedByRequest ==
  ASSUME TableTypeOK, NEW s \in Ids, NEW c \in Srcs,
         requests' = Append(requests, [session |-> s, src |-> c])
  PROVE  Opened(requests', s, c)
<1>1. [session |-> s, src |-> c] \in [session : Ids, src : Srcs]
  OBVIOUS
<1> QED
  BY <1>1, QueueGrows DEF Opened, TableTypeOK

(* A datagram's session is its source's own or has not been used before.   *)
LEMMA RequestNumbered ==
  ASSUME QueueIInv, OwnerInv, NEW c \in Srcs, SendUdpData(c)
  PROVE  /\ SessionOf(c) \in Ids
         /\ requests' = Append(requests, [session |-> SessionOf(c), src |-> c])
         /\ Numbered'
<1> DEFINE s == SessionOf(c)
           r == [session |-> s, src |-> c]
<1>0. TypeOK /\ TableTypeOK /\ srcs[c] \in Entry /\ session \in Nat
  BY TypeParts, ReplyTypes DEF QueueIInv, TableTypeOK, Ids
<1>1. s \in Ids
  BY <1>0, SessionNumbers DEF SendUdpData
<1>2. requests' = Append(requests, r)
  BY DEF SendUdpData
<1>3. r \in [session : Ids, src : Srcs]
  BY <1>1
<1>4. \A j \in DOMAIN requests : requests[j] \in [session : Ids, src : Srcs]
  BY <1>0, ElementOfSeq, LenProperties DEF TableTypeOK
<1>5. /\ s <= session'
      /\ session <= session' /\ session' \in Nat
      /\ \A j \in DOMAIN requests : requests[j].session = s => requests[j].src = c
  <2>1. CASE NewSession(c)
    <3>1. s = session + 1 /\ session' = s
      BY <2>1 DEF SendUdpData, SessionOf
    <3>2. \A j \in DOMAIN requests : requests[j].session \in Nat
      BY <1>4 DEF Ids
    <3> QED
      BY <1>0, <3>1, <3>2 DEF OwnerInv, Numbered
  <2>2. CASE ~ NewSession(c)
    <3>1. s = srcs[c].session /\ s # 0 /\ session' = session
      BY <2>2 DEF SendUdpData, SessionOf, NewSession
    <3>2. PICK j \in DOMAIN requests : requests[j] = [session |-> s, src |-> c]
      BY <3>1 DEF OwnerInv, SourcesOpened, Opened
    <3> QED
      BY <1>0, <3>1, <3>2 DEF OwnerInv, Numbered
  <2> QED
    BY <2>1, <2>2
<1>6. /\ DOMAIN requests' = DOMAIN requests \cup {Len(requests) + 1}
      /\ \A j \in DOMAIN requests : requests'[j] = requests[j]
      /\ requests'[Len(requests) + 1] = r
  BY <1>0, <1>2, <1>3, QueueGrows DEF TableTypeOK
<1>7. r.session = s /\ r.src = c
  OBVIOUS
<1> HIDE DEF r, s
<1>8. \A j \in DOMAIN requests' : requests'[j].session <= session'
  <2>1. \A j \in DOMAIN requests : requests[j].session <= session'
    <3>1. \A j \in DOMAIN requests : requests[j].session \in Nat
      BY <1>4 DEF Ids
    <3> QED
      BY <1>0, <1>5, <3>1 DEF OwnerInv, Numbered
  <2> QED
    BY <1>5, <1>6, <1>7, <2>1
<1>9. \A i, j \in DOMAIN requests' :
        requests'[i].session = requests'[j].session => requests'[i].src = requests'[j].src
  BY <1>5, <1>6, <1>7 DEF OwnerInv, Numbered
<1> QED
  BY <1>1, <1>2, <1>8, <1>9 DEF Numbered, s, r

(* A step that leaves the requests and the numbering, restarts the relay   *)
(* or posts handlers to it that add no peer, and takes entries away.       *)
LEMMA PostKeepsPeers ==
  ASSUME QueueIInv, OwnerInv, NEW h \in Handler,
         \/ PostToUdpSend(<<h>>)
         \/ UNCHANGED <<coros, peers, dst>> /\ posted' = posted
         \/ UNCHANGED <<coros, peers, dst>> /\ posted' = Append(posted, h),
         h.run = "add" => Opened(requests', h.id, h.peer),
         \A s, c : Opened(requests, s, c) => Opened(requests', s, c)
  PROVE  PeersOpened' /\ SendOpened'
<1>0. RelayTypeOK /\ PeersOpened /\ SendOpened
  BY TypeParts DEF QueueIInv, OwnerInv
<1>1. \/ /\ DOMAIN posted' = {1, 2} /\ posted'[1] = Start /\ posted'[2] = h
         /\ peers' = [s \in Ids |-> NoSrc] /\ coros' = <<>>
      \/ /\ UNCHANGED <<coros, peers, dst>>
         /\ \/ posted' = posted
            \/ /\ DOMAIN posted' = DOMAIN posted \cup {Len(posted) + 1}
               /\ \A k \in DOMAIN posted : posted'[k] = posted[k]
               /\ posted'[Len(posted) + 1] = h
  <2>1. CASE PostToUdpSend(<<h>>)
    BY <1>0, <2>1, PostedAfterPost
  <2>2. CASE UNCHANGED <<coros, peers, dst>> /\ posted' = posted
    BY <2>2
  <2>3. CASE UNCHANGED <<coros, peers, dst>> /\ posted' = Append(posted, h)
    BY <1>0, <2>3, QueueGrows DEF RelayTypeOK
  <2> QED
    BY <2>1, <2>2, <2>3
<1>2. PeersOpened'
  <2>1. \A s \in Ids : peers'[s] # NoSrc => Opened(requests', s, peers'[s])
    BY <1>0, <1>1 DEF PeersOpened
  <2>2. \A k \in DOMAIN posted' :
          posted'[k].run = "add" => Opened(requests', posted'[k].id, posted'[k].peer)
    BY <1>0, <1>1, HandlerRuns DEF PeersOpened
  <2> QED
    BY <2>1, <2>2 DEF PeersOpened
<1>3. SendOpened'
  <2>1. coros' = <<>> => DOMAIN coros' = {}
    OBVIOUS
  <2>2. \A i \in DOMAIN coros' : coros'[i].pc = "writing" /\ dst' # NoSrc =>
          Opened(requests', coros'[i].buf.session, dst')
    BY <1>0, <1>1, <2>1 DEF SendOpened
  <2> QED
    BY <2>2 DEF SendOpened
<1> QED
  BY <1>2, <1>3

LEMMA ManagerOwner ==
  ASSUME QueueIInv, OwnerInv, ManagerStep
  PROVE  OwnerInv'
<1>0. /\ TypeOK /\ TableTypeOK /\ RelayTypeOK
      /\ Numbered /\ SourcesOpened /\ PeersOpened /\ SendOpened /\ DeliveredOpened
  BY TypeParts DEF QueueIInv, OwnerInv
<1>1. ASSUME NEW c \in Srcs, SendUdpData(c) PROVE OwnerInv'
  <2> DEFINE s == SessionOf(c)
  <2>1. /\ s \in Ids
        /\ requests' = Append(requests, [session |-> s, src |-> c])
        /\ Numbered'
    BY <1>1, RequestNumbered
  <2>2. Opened(requests', s, c)
    BY <1>0, <2>1, OpenedByRequest
  <2>3. \A t, e : Opened(requests, t, e) => Opened(requests', t, e)
    <3>1. [session |-> s, src |-> c] \in [session : Ids, src : Srcs]
      BY <2>1
    <3> QED
      BY <1>0, <2>1, <3>1, OpenedKept
  <2>4. srcs' = [srcs EXCEPT ![c] = [session |-> s, timeout |-> TIMEOUT]]
    BY <1>1 DEF SendUdpData
  <2>5. udpSrcs' = udpSrcs \/ udpSrcs' = [udpSrcs EXCEPT ![s] = c]
    BY <1>1 DEF SendUdpData
  <2>6. SourcesOpened'
    <3> HIDE DEF s
    <3>1. srcs'[NoSrc].session = 0
      BY <1>0, <2>4, ReplyTypes DEF TableTypeOK, SourcesOpened
    <3>2. \A e \in Srcs : srcs'[e].session # 0 => Opened(requests', srcs'[e].session, e)
      <4>1. srcs'[c].session = s
        BY <1>0, <2>4, ReplyTypes DEF TableTypeOK
      <4>2. \A e \in Srcs : e # c => srcs'[e] = srcs[e]
        BY <1>0, <2>4, ReplyTypes DEF TableTypeOK
      <4> QED
        BY <1>0, <2>2, <2>3, <4>1, <4>2 DEF SourcesOpened
    <3>3. \A t \in Ids : udpSrcs'[t] # NoSrc => Opened(requests', t, udpSrcs'[t])
      <4>1. \A t \in Ids : udpSrcs'[t] = udpSrcs[t] \/ (t = s /\ udpSrcs'[t] = c)
        BY <1>0, <2>1, <2>5 DEF TableTypeOK
      <4> QED
        BY <1>0, <2>2, <2>3, <4>1 DEF SourcesOpened
    <3> QED
      BY <3>1, <3>2, <3>3 DEF SourcesOpened
  <2>7. PeersOpened' /\ SendOpened'
    <3>1. AddPeer(s, c) \in Handler
      BY <2>1, HandlerTypes
    <3>2. AddPeer(s, c).run = "add" /\ AddPeer(s, c).id = s /\ AddPeer(s, c).peer = c
      BY HandlerRuns
    <3>3. \/ PostToUdpSend(<<AddPeer(s, c)>>)
          \/ UNCHANGED <<coros, peers, dst>> /\ posted' = posted
      BY <1>1 DEF SendUdpData, baseVars, relayVars
    <3> QED
      BY <2>2, <2>3, <3>1, <3>2, <3>3, PostKeepsPeers
  <2>8. DeliveredOpened'
    <3>1. delivered' = delivered
      BY <1>1 DEF SendUdpData
    <3> QED
      BY <1>0, <2>3, <3>1 DEF DeliveredOpened
  <2> QED
    BY <2>1, <2>6, <2>7, <2>8 DEF OwnerInv
<1>2. SUFFICES ASSUME ~ \E c \in Srcs : SendUdpData(c) PROVE OwnerInv'
  BY <1>1
<1>3. (\E d \in Data : Response(d)) \/ TickIdle \/ Tick
  BY <1>2 DEF ManagerStep
<1>4. UNCHANGED <<session, requests, delivered>>
  BY <1>3 DEF Response, TickIdle, Tick, history
<1>5. Numbered' /\ DeliveredOpened' /\ \A s, c : Opened(requests, s, c) => Opened(requests', s, c)
  BY <1>0, <1>4 DEF Numbered, DeliveredOpened, Opened
<1>6. /\ \A c \in Endpoint : srcs'[c].session \in {0, srcs[c].session}
      /\ \A s \in Ids : udpSrcs'[s] \in {NoSrc, udpSrcs[s]}
  <2>1. ASSUME NEW d \in Data, Response(d)
        PROVE  \A c \in Endpoint : srcs'[c].session = srcs[c].session
    <3>1. \A e \in Entry : [e EXCEPT !.timeout = TIMEOUT].session = e.session
      BY DEF Entry
    <3> QED
      BY <1>0, <2>1, <3>1 DEF Response, TableTypeOK
  <2>2. TickIdle => \A c \in Endpoint : srcs'[c].session = 0
    BY ReplyTypes DEF TickIdle
  <2>3. Tick => \A c \in Endpoint : srcs'[c].session \in {0, srcs[c].session}
    <3>1. \A e \in Entry : CountedDown(e).session \in {0, e.session}
      BY ReplyTypes DEF Entry, CountedDown
    <3> QED
      BY <1>0, <3>1 DEF Tick, TableTypeOK
  <2>4. \A s \in Ids : udpSrcs'[s] \in {NoSrc, udpSrcs[s]}
    BY <1>3 DEF Response, TickIdle, Tick
  <2> QED
    BY <1>3, <2>1, <2>2, <2>3, <2>4
<1>7. SourcesOpened'
  BY <1>0, <1>5, <1>6, ReplyTypes DEF SourcesOpened
<1>8. PeersOpened' /\ SendOpened'
  <2>1. ASSUME NEW d \in Data, Response(d) PROVE PeersOpened' /\ SendOpened'
    <3>1. Send(d) \in Handler /\ Send(d).run = "send" /\ PostToUdpSend(<<Send(d)>>)
      BY <2>1, HandlerTypes, HandlerRuns DEF Response
    <3> QED
      BY <1>5, <3>1, PostKeepsPeers
  <2>2. ASSUME TickIdle PROVE PeersOpened' /\ SendOpened'
    <3>1. DelPeers({0}) \in Handler /\ DelPeers({0}).run = "del"
      BY HandlerTypes, HandlerRuns, ReplyTypes
    <3>2. UNCHANGED <<coros, peers, dst>> /\ posted' = Append(posted, DelPeers({0}))
      BY <2>2 DEF TickIdle, baseVars
    <3> QED
      BY <1>5, <3>1, <3>2, PostKeepsPeers
  <2>3. ASSUME Tick PROVE PeersOpened' /\ SendOpened'
    <3>1. ExpiringIds \in SUBSET (0 .. MaxSession)
      BY <1>0 DEF ExpiringIds, Expiring, TableTypeOK, Entry
    <3>2. DelPeers(ExpiringIds) \in Handler /\ DelPeers(ExpiringIds).run = "del"
      BY <3>1, HandlerTypes, HandlerRuns
    <3>3. /\ UNCHANGED <<coros, peers, dst>>
          /\ posted' = posted \/ posted' = Append(posted, DelPeers(ExpiringIds))
      BY <2>3 DEF Tick, baseVars
    <3> QED
      BY <1>5, <3>2, <3>3, PostKeepsPeers
  <2> QED
    BY <1>3, <2>1, <2>2, <2>3
<1> QED
  BY <1>5, <1>7, <1>8 DEF OwnerInv

(* The posted handlers change the table of peers only.                     *)
LEMMA HandlerOwner ==
  ASSUME QueueIInv, OwnerInv, HandlerStep
  PROVE  OwnerInv'
<1>0. /\ BaseTypeOK /\ posted \in Seq(Handler) /\ TableTypeOK /\ peers \in [Ids -> Endpoint]
      /\ Numbered /\ SourcesOpened /\ PeersOpened /\ SendOpened /\ DeliveredOpened
  BY TypeParts DEF QueueIInv, OwnerInv, RelayTypeOK
<1>1. /\ posted # <<>> /\ posted' = Tail(posted)
      /\ UNCHANGED <<session, srcs, udpSrcs, requests, delivered, local, dst>>
  BY DEF HandlerStep, RunStart, RunSend, RunAddPeer, RunDelPeer, tableVars, history
<1>2. /\ Head(posted) \in Handler /\ Head(posted) = posted[1] /\ 1 \in DOMAIN posted
      /\ \A k \in DOMAIN posted' : k + 1 \in DOMAIN posted /\ posted'[k] = posted[k + 1]
  BY <1>0, <1>1, QueuePops
<1>3. Numbered' /\ SourcesOpened' /\ DeliveredOpened'
  BY <1>0, <1>1 DEF Numbered, SourcesOpened, DeliveredOpened
<1>4. \A s \in Ids : peers'[s] # NoSrc => Opened(requests', s, peers'[s])
  <2>1. CASE RunAddPeer
    <3>1. Head(posted).id \in Ids /\ Opened(requests, Head(posted).id, Head(posted).peer)
      BY <1>0, <1>2, <2>1, HandlerTypes DEF RunAddPeer, PeersOpened
    <3>2. \A s \in Ids : \/ peers'[s] = peers[s]
                         \/ s = Head(posted).id /\ peers'[s] = Head(posted).peer
      BY <1>0, <2>1, <3>1 DEF RunAddPeer
    <3> QED
      BY <1>0, <1>1, <3>1, <3>2 DEF PeersOpened
  <2>2. CASE RunDelPeer
    BY <1>0, <1>1, <2>2 DEF RunDelPeer, PeersOpened
  <2>3. CASE RunStart \/ RunSend
    <3>1. peers' = peers
      BY <2>3 DEF RunStart, RunSend
    <3> QED
      BY <1>0, <1>1, <3>1 DEF PeersOpened
  <2> QED
    BY <2>1, <2>2, <2>3 DEF HandlerStep
<1>5. PeersOpened'
  BY <1>0, <1>1, <1>2, <1>4 DEF PeersOpened
<1>6. SendOpened'
  <2>1. coros' = coros \/ coros' = StartSend(coros)
    BY DEF HandlerStep, RunStart, RunSend, RunAddPeer, RunDelPeer, SendData, baseVars
  <2>2. \A i \in DOMAIN coros' : coros'[i].pc = "writing" =>
          i \in DOMAIN coros /\ coros'[i] = coros[i]
    BY <1>0, <2>1, FrameAdded, FramePcs DEF BaseTypeOK, StartSend
  <2> QED
    BY <1>0, <1>1, <2>2 DEF SendOpened
<1> QED
  BY <1>3, <1>5, <1>6 DEF OwnerInv

(* A coroutine about to send has just looked its peer up; one that was     *)
(* sending before has been left alone.                                     *)
LEMMA SenderLooksUp ==
  ASSUME QueueIInv, SenderStep, QueueIInv'
  PROVE  /\ UNCHANGED <<tableVars, peers, posted, history>>
         /\ \A j \in DOMAIN coros' : coros'[j].pc = "writing" =>
              \/ dst' = peers[coros'[j].buf.session] /\ coros'[j].buf \in Data
              \/ j \in DOMAIN coros /\ coros'[j] = coros[j] /\ dst' = dst
<1>1. PICK i \in DOMAIN coros : SenderEnters(i) \/ SenderResumes(i) \/ SenderCatches(i)
  BY DEF SenderStep
<1>2. UNCHANGED <<tableVars, peers, posted, history>>
  BY <1>1 DEF SenderEnters, SenderResumes, SenderCatches, relayVars
<1>3. BaseTypeOK /\ OneWriter /\ BaseTypeOK' /\ OneWriter'
  BY DEF QueueIInv, TypeOK, RelayInv, SenderInv, WriterInv
<1>4. /\ DOMAIN coros' = DOMAIN coros
      /\ \A j \in DOMAIN coros : j # i => coros'[j] = coros[j]
  BY <1>1, <1>3, StepSetsFrame DEF SenderEnters, SenderResumes, SenderCatches
<1>5. SUFFICES ASSUME NEW j \in DOMAIN coros', coros'[j].pc = "writing"
      PROVE  \/ dst' = peers[coros'[j].buf.session] /\ coros'[j].buf \in Data
             \/ j \in DOMAIN coros /\ coros'[j] = coros[j] /\ dst' = dst
  BY <1>2
<1>6. CASE j = i
  <2>1. GetSendDataAddr(i)
    <3>1. ~ SenderCatches(i)
      BY <1>3, <1>5, <1>6, FrameSet, FrameTypes, FramePcs DEF SenderCatches, BaseTypeOK
    <3> QED
      BY <1>1, <3>1 DEF SenderEnters, SenderResumes
  <2>2. bufs' # <<>> /\ Head(bufs') = coros'[j].buf
    BY <1>3, <1>5 DEF OneWriter, Suspended
  <2> QED
    BY <1>3, <1>5, <1>6, <2>1, <2>2, HeadTailProperties DEF GetSendDataAddr, BaseTypeOK
<1>7. CASE j # i
  <2>1. coros'[i].pc # "writing"
    BY <1>3, <1>4, <1>5, <1>7 DEF OneWriter, Suspended
  <2> QED
    BY <1>1, <1>4, <1>5, <1>7, <2>1
       DEF SenderEnters, SenderResumes, SenderCatches, GetSendDataAddr, relayVars
<1> QED
  BY <1>6, <1>7

LEMMA SenderOwner ==
  ASSUME QueueIInv, OwnerInv, SenderStep, QueueIInv'
  PROVE  OwnerInv'
<1>0. /\ TypeOK /\ Numbered /\ SourcesOpened /\ PeersOpened /\ SendOpened /\ DeliveredOpened
  BY DEF QueueIInv, OwnerInv
<1>1. UNCHANGED <<session, srcs, udpSrcs, requests, delivered, peers, posted>>
  BY SenderLooksUp DEF tableVars, history
<1>2. Numbered' /\ SourcesOpened' /\ PeersOpened' /\ DeliveredOpened'
  BY <1>0, <1>1 DEF Numbered, SourcesOpened, PeersOpened, DeliveredOpened
<1>3. \A j \in DOMAIN coros' : coros'[j].pc = "writing" /\ dst' # NoSrc =>
        Opened(requests, coros'[j].buf.session, dst')
  BY <1>0, SenderLooksUp, ReplyTypes DEF PeersOpened, SendOpened
<1>4. SendOpened'
  BY <1>1, <1>3 DEF SendOpened
<1> QED
  BY <1>2, <1>4 DEF OwnerInv

LEMMA CompletionOwner ==
  ASSUME QueueIInv, OwnerInv, SendCompletes
  PROVE  OwnerInv'
<1>0. /\ TypeOK /\ BaseTypeOK /\ BoundToReply /\ OneWriter
      /\ Numbered /\ SourcesOpened /\ PeersOpened /\ SendOpened /\ DeliveredOpened
  BY DEF QueueIInv, TypeOK, RelayInv, SenderInv, WriterInv, OwnerInv
<1>1. PICK i \in DOMAIN coros : SendSucceeds(i) \/ SendFails(i)
  BY DEF SendCompletes
<1>2. UNCHANGED <<session, srcs, udpSrcs, requests, peers, posted, local, dst>>
  BY <1>1 DEF SendSucceeds, SendFails, tableVars, relayVars, history
<1>3. Numbered' /\ SourcesOpened' /\ PeersOpened'
  BY <1>0, <1>2 DEF Numbered, SourcesOpened, PeersOpened
<1>4. SendOpened'
  <2>1. /\ DOMAIN coros' = DOMAIN coros
        /\ coros'[i].pc # "writing"
        /\ \A j \in DOMAIN coros : j # i => coros'[j] = coros[j]
    BY <1>0, <1>1, WriteEndsFrame DEF SendSucceeds, SendFails
  <2> QED
    BY <1>0, <1>2, <2>1 DEF SendOpened
<1>5. DeliveredOpened'
  <2>1. CASE SendFails(i)
    BY <1>0, <1>2, <2>1 DEF SendFails, history, DeliveredOpened
  <2>2. CASE SendSucceeds(i)
    <3> DEFINE r == [reply |-> coros[i].buf, to |-> dst, from |-> local]
    <3>1. /\ r.from = r.reply.from
          /\ Opened(requests, r.reply.session, r.to)
          /\ coros[i].pc = "writing" /\ dst # NoSrc
      BY <1>0, <2>2 DEF SendSucceeds, SendOpened, BoundToReply
    <3>2. coros[i].buf \in Data
      BY <1>0, <3>1, HeadTailProperties DEF OneWriter, Suspended, BaseTypeOK
    <3>3. r \in [reply : Data, to : Srcs, from : Dests]
      BY <1>0, <3>1, <3>2, ReplyTypes DEF TypeOK, Endpoint, BoundToReply
    <3>4. delivered' = Append(delivered, r)
      BY <2>2 DEF SendSucceeds
    <3> HIDE DEF r
    <3>5. /\ DOMAIN delivered' = DOMAIN delivered \cup {Len(delivered) + 1}
          /\ \A k \in DOMAIN delivered : delivered'[k] = delivered[k]
          /\ delivered'[Len(delivered) + 1] = r
      BY <1>0, <3>3, <3>4, QueueGrows DEF TypeOK
    <3> QED
      BY <1>0, <1>2, <3>1, <3>5 DEF DeliveredOpened
  <2> QED
    BY <1>1, <2>1, <2>2
<1> QED
  BY <1>3, <1>4, <1>5 DEF OwnerInv

LEMMA OwnerInit == Init => OwnerInv
<1> SUFFICES ASSUME Init PROVE OwnerInv
  OBVIOUS
<1>1. /\ requests = <<>> /\ delivered = <<>> /\ coros = <<>>
      /\ srcs = [c \in Endpoint |-> NoEntry]
      /\ udpSrcs = [s \in Ids |-> NoSrc] /\ peers = [s \in Ids |-> NoSrc]
      /\ DOMAIN posted = {1} /\ posted[1] = Start
  <2>1. <<Start>> \in Seq(Handler) /\ Len(<<Start>>) = 1 /\ <<Start>>[1] = Start
    BY HandlerTypes
  <2>2. DOMAIN <<Start>> = {1}
    BY <2>1, LenProperties
  <2> HIDE DEF Start
  <2> QED
    BY <2>1, <2>2 DEF Init, BaseInit
<1> QED
  BY <1>1, HandlerRuns, ReplyTypes
     DEF OwnerInv, Numbered, SourcesOpened, PeersOpened, SendOpened, DeliveredOpened

LEMMA OwnerStep == QueueIInv /\ OwnerInv /\ [Next]_vars => OwnerInv'
<1> SUFFICES ASSUME QueueIInv, OwnerInv, [Next]_vars PROVE OwnerInv'
  OBVIOUS
<1>1. QueueIInv'
  BY QueueStep
<1>2. CASE UNCHANGED vars
  BY <1>2 DEF OwnerInv, Numbered, SourcesOpened, PeersOpened, SendOpened, DeliveredOpened,
              vars, baseVars, tableVars, relayVars, history
<1> QED
  BY <1>1, <1>2, ManagerOwner, HandlerOwner, SenderOwner, CompletionOwner DEF Next

(* A reply goes to the source whose datagram opened its session and to no  *)
(* other, however late it comes, and leaves from the address it came from. *)
(* (raw_udp.cpp:134-175, relay_manager.cpp:285-294)                        *)
THEOREM LocalUdpRepliesToOwner == Spec => []RepliesToOwner
<1>1. OwnerInv => RepliesToOwner
  <2> SUFFICES ASSUME OwnerInv, NEW i \in DOMAIN delivered
               PROVE  /\ delivered[i].from = delivered[i].reply.from
                      /\ \A j \in DOMAIN requests :
                           requests[j].session = delivered[i].reply.session =>
                             requests[j].src = delivered[i].to
    BY DEF RepliesToOwner
  <2>1. PICK m \in DOMAIN requests :
          requests[m] = [session |-> delivered[i].reply.session, src |-> delivered[i].to]
    BY DEF OwnerInv, DeliveredOpened, Opened
  <2> QED
    BY <2>1 DEF OwnerInv, DeliveredOpened, Numbered
<1> QED
  BY <1>1, QueueInit, QueueStep, OwnerInit, OwnerStep, PTL DEF Spec

-----------------------------------------------------------------------------
(* TablesAgree relates tables that two strands change, so what is posted   *)
(* has to agree as well: an add_peer on its way names the source listed    *)
(* for its session, or is followed by the handler that removes the peer.   *)
DeletedAfter(q, k, s) ==
  \E m \in DOMAIN q : m > k /\ q[m].run = "del" /\ Deleted(q[m].ids, s)

SourcesAgree ==
  /\ \A c \in Srcs : Listed(c) <=> srcs[c].session # 0
  /\ \A c \in Srcs : Listed(c) => udpSrcs[srcs[c].session] = c
  /\ \A s \in Ids : udpSrcs[s] # NoSrc =>
       Listed(udpSrcs[s]) /\ srcs[udpSrcs[s]].session = s
PeersAgree ==
  /\ \A s \in Ids : peers[s] \in {NoSrc, udpSrcs[s]} \/ DeletedAfter(posted, 0, s)
  /\ \A k \in DOMAIN posted : posted[k].run = "add" =>
       udpSrcs[posted[k].id] = posted[k].peer \/ DeletedAfter(posted, k, posted[k].id)
AgreeInv == SourcesAgree /\ PeersAgree

LEMMA AgreeIsAgree == QueueIInv /\ AgreeInv => TablesAgree
<1> SUFFICES ASSUME QueueIInv, AgreeInv PROVE TablesAgree
  OBVIOUS
<1>1. \A c \in Srcs : Listed(c) => srcs[c].session \in Ids
  <2> SUFFICES ASSUME NEW c \in Srcs, Listed(c) PROVE srcs[c].session \in Ids
    OBVIOUS
  <2>1. srcs[c].session \in 0 .. MaxSession /\ srcs[c].session # 0
    BY ReplyTypes DEF QueueIInv, TypeOK, AgreeInv, SourcesAgree, Entry
  <2> QED
    BY <2>1, LocalUdpAssumption DEF Ids
<1> QED
  BY <1>1 DEF AgreeInv, SourcesAgree, PeersAgree, DeletedAfter, TablesAgree

(* What follows in the queue goes on to follow when a handler is added or  *)
(* the first one has run.                                                  *)
LEMMA DeletedKept ==
  ASSUME NEW q \in Seq(Handler), NEW h \in Handler, NEW k, NEW s, DeletedAfter(q, k, s)
  PROVE  DeletedAfter(Append(q, h), k, s)
<1>1. /\ DOMAIN Append(q, h) = DOMAIN q \cup {Len(q) + 1}
      /\ \A m \in DOMAIN q : Append(q, h)[m] = q[m]
  BY QueueGrows
<1> QED
  BY <1>1 DEF DeletedAfter

LEMMA DeletedByLast ==
  ASSUME NEW q \in Seq(Handler), NEW h \in Handler, h.run = "del", NEW s,
         Deleted(h.ids, s), NEW k \in DOMAIN q \cup {0}
  PROVE  DeletedAfter(Append(q, h), k, s)
<1>1. /\ DOMAIN Append(q, h) = DOMAIN q \cup {Len(q) + 1}
      /\ Append(q, h)[Len(q) + 1] = h
      /\ \A m \in DOMAIN q : m < Len(q) + 1
  BY QueueGrows
<1>2. Len(q) \in Nat /\ DOMAIN q = 1 .. Len(q)
  BY LenProperties
<1>3. Len(q) + 1 > k
  BY <1>2
<1> QED
  BY <1>1, <1>3 DEF DeletedAfter

LEMMA DeletedShifts ==
  ASSUME NEW q \in Seq(Handler), q # <<>>, NEW s, NEW k \in Nat, k # 0,
         DeletedAfter(q, k, s)
  PROVE  DeletedAfter(Tail(q), k - 1, s)
<1>1. PICK m \in DOMAIN q : m > k /\ q[m].run = "del" /\ Deleted(q[m].ids, s)
  BY DEF DeletedAfter
<1>2. m \in Nat /\ m # 1
  BY <1>1, LenProperties
<1>3. m - 1 \in DOMAIN Tail(q) /\ Tail(q)[m - 1] = q[m]
  BY <1>2, QueuePops
<1>4. m - 1 > k - 1
  BY <1>1, <1>2
<1> QED
  BY <1>1, <1>3, <1>4 DEF DeletedAfter

(* Handlers that run: the table of peers comes to agree.                   *)
LEMMA HandlerAgrees ==
  ASSUME QueueIInv, AgreeInv, HandlerStep
  PROVE  AgreeInv'
<1>0. posted \in Seq(Handler) /\ peers \in [Ids -> Endpoint] /\ SourcesAgree /\ PeersAgree
  BY DEF QueueIInv, TypeOK, AgreeInv
<1>1. /\ posted # <<>> /\ posted' = Tail(posted)
      /\ UNCHANGED <<session, srcs, udpSrcs>>
  BY DEF HandlerStep, RunStart, RunSend, RunAddPeer, RunDelPeer, tableVars
<1>2. /\ Head(posted) \in Handler /\ Head(posted) = posted[1] /\ 1 \in DOMAIN posted
      /\ \A k \in DOMAIN posted' :
           k \in Nat /\ k # 0 /\ k + 1 \in DOMAIN posted /\ posted'[k] = posted[k + 1]
      /\ \A k \in DOMAIN posted : k # 1 =>
           k - 1 \in DOMAIN posted' /\ posted'[k - 1] = posted[k]
  BY <1>0, <1>1, QueuePops
<1>3. SourcesAgree'
  BY <1>0, <1>1 DEF SourcesAgree, Listed
<1>4. ASSUME NEW s, DeletedAfter(posted, 1, s) PROVE DeletedAfter(posted', 0, s)
  <2>1. DeletedAfter(posted', 1 - 1, s)
    BY <1>0, <1>1, <1>4, DeletedShifts
  <2> QED
    BY <2>1
<1>5. ASSUME NEW s, DeletedAfter(posted, 0, s)
      PROVE  \/ DeletedAfter(posted', 0, s)
             \/ Head(posted).run = "del" /\ Deleted(Head(posted).ids, s)
  <2>1. PICK m \in DOMAIN posted : m > 0 /\ posted[m].run = "del" /\ Deleted(posted[m].ids, s)
    BY <1>5 DEF DeletedAfter
  <2>2. CASE m = 1
    BY <1>2, <2>1, <2>2
  <2>3. CASE m # 1
    <3>1. m \in Nat /\ m > 1
      BY <1>0, <2>1, <2>3, LenProperties
    <3>2. DeletedAfter(posted, 1, s)
      BY <2>1, <3>1 DEF DeletedAfter
    <3> QED
      BY <1>4, <3>2
  <2> QED
    BY <2>2, <2>3
<1>6. \A k \in DOMAIN posted' : posted'[k].run = "add" =>
        udpSrcs'[posted'[k].id] = posted'[k].peer \/ DeletedAfter(posted', k, posted'[k].id)
  <2> SUFFICES ASSUME NEW k \in DOMAIN posted', posted'[k].run = "add",
                      udpSrcs[posted[k + 1].id] # posted[k + 1].peer
               PROVE  DeletedAfter(posted', k, posted'[k].id)
    BY <1>1, <1>2
  <2>1. k \in Nat /\ k + 1 \in DOMAIN posted /\ posted'[k] = posted[k + 1]
    BY <1>2
  <2>2. DeletedAfter(posted, k + 1, posted[k + 1].id)
    BY <1>0, <2>1 DEF PeersAgree
  <2>3. DeletedAfter(posted', (k + 1) - 1, posted[k + 1].id)
    BY <1>0, <1>1, <2>1, <2>2, DeletedShifts
  <2>4. (k + 1) - 1 = k
    BY <2>1
  <2> QED
    BY <2>1, <2>3, <2>4
<1>7. \A s \in Ids : peers'[s] \in {NoSrc, udpSrcs'[s]} \/ DeletedAfter(posted', 0, s)
  <2> SUFFICES ASSUME NEW s \in Ids, ~ DeletedAfter(posted', 0, s)
               PROVE  peers'[s] \in {NoSrc, udpSrcs[s]}
    BY <1>1
  <2>1. CASE RunAddPeer
    <3>1. ~ DeletedAfter(posted, 0, s) /\ Head(posted).id \in Ids
      BY <1>2, <1>5, <2>1, HandlerTypes DEF RunAddPeer
    <3>2. CASE s = Head(posted).id
      <4>1. peers'[s] = Head(posted).peer
        BY <1>0, <2>1, <3>1, <3>2 DEF RunAddPeer
      <4>2. udpSrcs[s] = Head(posted).peer
        BY <1>0, <1>2, <1>4, <2>1, <3>2 DEF RunAddPeer, PeersAgree
      <4> QED
        BY <4>1, <4>2
    <3>3. CASE s # Head(posted).id
      BY <1>0, <2>1, <3>1, <3>3 DEF RunAddPeer, PeersAgree
    <3> QED
      BY <3>2, <3>3
  <2>2. CASE RunDelPeer
    BY <1>0, <1>5, <2>2 DEF RunDelPeer, PeersAgree
  <2>3. CASE RunStart \/ RunSend
    BY <1>0, <1>5, <2>3 DEF RunStart, RunSend, PeersAgree
  <2> QED
    BY <2>1, <2>2, <2>3 DEF HandlerStep
<1> QED
  BY <1>3, <1>6, <1>7 DEF AgreeInv, PeersAgree

(* A handler is posted, and the table of sources may have changed: the     *)
(* peers go on to agree if every entry the new table lacks is covered by   *)
(* the handler.                                                            *)
LEMMA PostAgrees ==
  ASSUME QueueIInv, PeersAgree, NEW h \in Handler,
         \/ PostToUdpSend(<<h>>)
         \/ UNCHANGED <<coros, peers, dst>> /\ posted' = Append(posted, h),
         h.run = "add" => h.id \in Ids /\ udpSrcs'[h.id] = h.peer,
         \A s \in Ids : \/ udpSrcs'[s] = udpSrcs[s]
                        \/ h.run = "del" /\ Deleted(h.ids, s)
                        \/ /\ peers[s] = NoSrc
                           /\ \A k \in DOMAIN posted :
                                posted[k].run = "add" => posted[k].id # s
  PROVE  PeersAgree'
<1>0. RelayTypeOK /\ posted \in Seq(Handler)
  BY TypeParts DEF QueueIInv, RelayTypeOK
<1>1. CASE posted' = Append(posted, h) /\ peers' = peers
  <2>1. /\ DOMAIN posted' = DOMAIN posted \cup {Len(posted) + 1}
        /\ \A k \in DOMAIN posted : posted'[k] = posted[k]
        /\ posted'[Len(posted) + 1] = h
    BY <1>0, <1>1, QueueGrows
  <2>2. \A k, s : DeletedAfter(posted, k, s) => DeletedAfter(posted', k, s)
    BY <1>0, <1>1, DeletedKept
  <2>3. \A k \in DOMAIN posted \cup {0} : \A s :
          h.run = "del" /\ Deleted(h.ids, s) => DeletedAfter(posted', k, s)
    BY <1>0, <1>1, DeletedByLast
  <2>4. \A s \in Ids : peers'[s] \in {NoSrc, udpSrcs'[s]} \/ DeletedAfter(posted', 0, s)
    BY <1>1, <2>2, <2>3 DEF PeersAgree
  <2>5. ASSUME NEW k \in DOMAIN posted', posted'[k].run = "add"
        PROVE  \/ udpSrcs'[posted'[k].id] = posted'[k].peer
               \/ DeletedAfter(posted', k, posted'[k].id)
    <3>1. CASE k \in DOMAIN posted
      <4>1. posted[k] \in Handler /\ posted'[k] = posted[k]
        BY <1>0, <2>1, <3>1, ElementOfSeq, LenProperties
      <4>2. posted[k].id \in Ids
        BY <2>5, <4>1, HandlerTypes
      <4>3. \/ udpSrcs[posted[k].id] = posted[k].peer
            \/ DeletedAfter(posted, k, posted[k].id)
        BY <2>5, <3>1, <4>1 DEF PeersAgree
      <4> QED
        BY <2>2, <2>3, <2>5, <3>1, <4>1, <4>2, <4>3
    <3>2. CASE k = Len(posted) + 1
      BY <2>1, <2>5, <3>2
    <3> QED
      BY <2>1, <2>5, <3>1, <3>2
  <2> QED
    BY <2>4, <2>5 DEF PeersAgree
<1>2. CASE /\ DOMAIN posted' = {1, 2} /\ posted'[1] = Start /\ posted'[2] = h
           /\ peers' = [s \in Ids |-> NoSrc]
  BY <1>2, HandlerRuns DEF PeersAgree
<1> QED
  BY <1>0, <1>1, <1>2, PostedAfterPost

(* A source that has no session: nothing is known of the one it gets.      *)
LEMMA NewSessionUnknown ==
  ASSUME QueueIInv, OwnerInv, NEW c \in Srcs, SendUdpData(c), NewSession(c)
  PROVE  LET s == SessionOf(c) IN
         /\ \A e \in Srcs : srcs[e].session # s
         /\ peers[s] = NoSrc
         /\ \A k \in DOMAIN posted : posted[k].run = "add" => posted[k].id # s
<1> DEFINE s == SessionOf(c)
<1>1. s = session + 1 /\ s \in Ids /\ session \in Nat
  <2>1. session \in Nat
    BY TypeParts DEF QueueIInv, TableTypeOK, Ids
  <2>2. s \in Ids
    BY RequestNumbered
  <2>3. s = session + 1
    BY DEF SessionOf
  <2> QED
    BY <2>1, <2>2, <2>3
<1>2. \A e : ~ Opened(requests, s, e)
  <2> SUFFICES ASSUME NEW e, Opened(requests, s, e) PROVE FALSE
    OBVIOUS
  <2>1. PICK j \in DOMAIN requests : requests[j] = [session |-> s, src |-> e]
    BY DEF Opened
  <2>2. s <= session
    BY <2>1 DEF OwnerInv, Numbered
  <2> QED
    BY <1>1, <2>2
<1> HIDE DEF s
<1>3. s # 0
  BY <1>1, ReplyTypes
<1> QED
  BY <1>1, <1>2, <1>3 DEF OwnerInv, SourcesOpened, PeersOpened, s

LEMMA RequestAgrees ==
  ASSUME QueueIInv, OwnerInv, AgreeInv, NEW c \in Srcs, SendUdpData(c)
  PROVE  AgreeInv'
<1> DEFINE s == SessionOf(c)
<1>0. /\ TableTypeOK /\ SourcesAgree /\ PeersAgree /\ s \in Ids /\ s # 0
      /\ \A e \in Srcs : e \in Endpoint /\ e # NoSrc
  BY RequestNumbered, TypeParts, ReplyTypes DEF QueueIInv, AgreeInv
<1>1. /\ srcs'[c] = [session |-> s, timeout |-> TIMEOUT]
      /\ \A e \in Endpoint : e # c => srcs'[e] = srcs[e]
  BY <1>0 DEF SendUdpData, TableTypeOK
<1>2. Listed(c)' /\ srcs'[c].session = s /\ \A e \in Srcs : e # c => (Listed(e)' <=> Listed(e))
  BY <1>0, <1>1, ReplyTypes DEF Listed
<1>3. CASE NewSession(c)
  <2>1. udpSrcs' = [udpSrcs EXCEPT ![s] = c] /\ PostToUdpSend(<<AddPeer(s, c)>>)
    BY <1>3 DEF SendUdpData
  <2>2. /\ \A e \in Srcs : srcs[e].session # s
        /\ peers[s] = NoSrc
        /\ \A k \in DOMAIN posted : posted[k].run = "add" => posted[k].id # s
    BY <1>3, NewSessionUnknown
  <2>3. srcs[c].session = 0
    BY <1>3 DEF NewSession
  <2> HIDE DEF s
  <2>4. udpSrcs'[s] = c /\ \A t \in Ids : t # s => udpSrcs'[t] = udpSrcs[t]
    BY <1>0, <2>1 DEF TableTypeOK
  <2>5. \A t \in Ids : udpSrcs[t] # NoSrc => udpSrcs[t] \in Srcs /\ udpSrcs[t] # c
    BY <1>0, <2>3, ReplyTypes DEF SourcesAgree, TableTypeOK, Endpoint
  <2>6. \A e \in Srcs : Listed(e) => srcs[e].session \in Ids
    BY AgreeIsAgree DEF TablesAgree
  <2>7. SourcesAgree'
    <3>1. \A e \in Srcs : Listed(e)' <=> srcs'[e].session # 0
      BY <1>0, <1>1, <1>2 DEF SourcesAgree
    <3>2. \A e \in Srcs : Listed(e)' => udpSrcs'[srcs'[e].session] = e
      BY <1>0, <1>1, <1>2, <2>2, <2>4, <2>6 DEF SourcesAgree
    <3>3. \A t \in Ids : udpSrcs'[t] # NoSrc =>
            srcs'[udpSrcs'[t]].timeout > 0 /\ srcs'[udpSrcs'[t]].session = t
      BY <1>0, <1>1, <1>2, <2>4, <2>5 DEF SourcesAgree, Listed
    <3> QED
      BY <3>1, <3>2, <3>3 DEF SourcesAgree, Listed
  <2>8. PeersAgree'
    <3>1. AddPeer(s, c) \in Handler /\ AddPeer(s, c).run = "add"
          /\ AddPeer(s, c).id = s /\ AddPeer(s, c).peer = c
      BY <1>0, HandlerTypes, HandlerRuns
    <3> HIDE DEF AddPeer
    <3> QED
      BY <1>0, <2>1, <2>2, <2>4, <3>1, PostAgrees
  <2> QED
    BY <2>7, <2>8 DEF AgreeInv
<1>4. CASE ~ NewSession(c)
  <2>1. udpSrcs' = udpSrcs /\ peers' = peers /\ posted' = posted /\ s = srcs[c].session
    BY <1>4 DEF SendUdpData, relayVars, SessionOf
  <2>2. srcs'[c].session = srcs[c].session /\ Listed(c)
    BY <1>0, <1>2, <2>1 DEF SourcesAgree
  <2> HIDE DEF s
  <2>3. \A e \in Srcs : (Listed(e)' <=> Listed(e)) /\ srcs'[e].session = srcs[e].session
    <3>1. \A e \in Srcs : e # c => srcs'[e].session = srcs[e].session
      BY <1>0, <1>1
    <3> QED
      BY <1>2, <2>2, <3>1
  <2>5. \A t \in Ids : udpSrcs[t] # NoSrc => udpSrcs[t] \in Srcs
    BY <1>0 DEF TableTypeOK, Endpoint
  <2>4. \A t \in Ids : udpSrcs[t] # NoSrc => srcs'[udpSrcs[t]].timeout > 0
    BY <1>0, <2>3, <2>5 DEF SourcesAgree, Listed
  <2> QED
    BY <1>0, <2>1, <2>3, <2>4, <2>5 DEF AgreeInv, SourcesAgree, PeersAgree, Listed
<1> QED
  BY <1>3, <1>4

LEMMA ResponseAgrees ==
  ASSUME QueueIInv, OwnerInv, AgreeInv, NEW d \in Data, Response(d)
  PROVE  AgreeInv'
<1> DEFINE e == udpSrcs[d.session]
<1>0. /\ TableTypeOK /\ SourcesAgree /\ PeersAgree /\ d.session \in Ids /\ e \in Endpoint
      /\ \A c \in Srcs : c \in Endpoint
  BY TypeParts, ReplyTypes DEF QueueIInv, AgreeInv, TableTypeOK
<1>1. udpSrcs' = udpSrcs /\ srcs' = [srcs EXCEPT ![e].timeout = TIMEOUT]
  BY DEF Response
<1>2. e \in Srcs => Listed(e)
  BY <1>0, ReplyTypes DEF SourcesAgree
<1>3. ASSUME NEW c \in Srcs
      PROVE  (srcs'[c].timeout > 0 <=> Listed(c)) /\ srcs'[c].session = srcs[c].session
  <2>1. c \in Endpoint /\ srcs[c] \in Entry /\ srcs[e] \in Entry
    BY <1>0 DEF TableTypeOK
  <2>2. CASE c = e
    <3>1. srcs'[c] = [srcs[c] EXCEPT !.timeout = TIMEOUT]
      BY <1>0, <1>1, <2>2 DEF TableTypeOK
    <3>2. srcs'[c].timeout = TIMEOUT /\ srcs'[c].session = srcs[c].session
      BY <2>1, <3>1 DEF Entry
    <3> QED
      BY <1>2, <2>2, <3>2, ReplyTypes
  <2>3. CASE c # e
    <3>1. srcs'[c] = srcs[c]
      BY <1>0, <1>1, <2>1, <2>3 DEF TableTypeOK
    <3> QED
      BY <3>1 DEF Listed
  <2> QED
    BY <2>2, <2>3
<1>4. \A t \in Ids : udpSrcs[t] # NoSrc => udpSrcs[t] \in Srcs
  BY <1>0 DEF TableTypeOK, Endpoint
<1>5. SourcesAgree'
  <2>1. \A c \in Srcs : Listed(c)' <=> srcs'[c].session # 0
    BY <1>0, <1>3 DEF SourcesAgree, Listed
  <2>2. \A c \in Srcs : Listed(c)' => udpSrcs'[srcs'[c].session] = c
    BY <1>0, <1>1, <1>3 DEF SourcesAgree, Listed
  <2>3. \A t \in Ids : udpSrcs'[t] # NoSrc =>
          srcs'[udpSrcs'[t]].timeout > 0 /\ srcs'[udpSrcs'[t]].session = t
    BY <1>0, <1>1, <1>3, <1>4 DEF SourcesAgree
  <2> QED
    BY <2>1, <2>2, <2>3 DEF SourcesAgree, Listed
<1>6. PeersAgree'
  <2>1. Send(d) \in Handler /\ Send(d).run = "send" /\ PostToUdpSend(<<Send(d)>>)
    BY HandlerTypes, HandlerRuns DEF Response
  <2> QED
    BY <1>0, <1>1, <2>1, PostAgrees
<1> QED
  BY <1>5, <1>6 DEF AgreeInv

LEMMA TickIdleAgrees ==
  ASSUME QueueIInv, AgreeInv, TickIdle
  PROVE  AgreeInv'
<1>1. SourcesAgree'
  BY ReplyTypes DEF TickIdle, SourcesAgree, Listed
<1>2. PeersAgree'
  <2> DEFINE h == DelPeers({0})
  <2>1. h \in Handler /\ h.run = "del" /\ \A s : Deleted(h.ids, s)
    BY HandlerTypes, HandlerRuns, ReplyTypes DEF Deleted
  <2>2. UNCHANGED <<coros, peers, dst>> /\ posted' = Append(posted, h)
    BY DEF TickIdle, baseVars
  <2> HIDE DEF h
  <2> QED
    BY <2>1, <2>2, PostAgrees DEF AgreeInv
<1> QED
  BY <1>1, <1>2 DEF AgreeInv

(* A source that a tick erases takes its session with it, and no other's.  *)
LEMMA TickAgrees ==
  ASSUME QueueIInv, OwnerInv, AgreeInv, Tick
  PROVE  AgreeInv'
<1>0. /\ TableTypeOK /\ SourcesAgree /\ PeersAgree /\ posted \in Seq(Handler)
      /\ \A c \in Srcs : c \in Endpoint /\ c # NoSrc
  BY TypeParts, ReplyTypes DEF QueueIInv, AgreeInv, RelayTypeOK
<1>1. \A c \in Srcs : Listed(c) => srcs[c].session \in Ids /\ udpSrcs[srcs[c].session] = c
  BY AgreeIsAgree DEF TablesAgree
<1>2. \A c \in Srcs : Listed(c) /\ srcs[c].session \in ExpiringIds => srcs[c].timeout = 1
  <2> SUFFICES ASSUME NEW c \in Srcs, Listed(c), srcs[c].session \in ExpiringIds
               PROVE  srcs[c].timeout = 1
    OBVIOUS
  <2>1. PICK e \in Endpoint : srcs[e].timeout = 1 /\ srcs[e].session = srcs[c].session
    BY DEF ExpiringIds, Expiring
  <2>2. e \in Srcs
    BY <1>1, <2>1, ReplyTypes DEF OwnerInv, SourcesOpened, Endpoint
  <2>3. Listed(e)
    BY <2>1 DEF Listed
  <2> QED
    BY <1>1, <2>1, <2>2, <2>3
<1>3. ASSUME NEW c \in Srcs
      PROVE  \/ /\ srcs[c].timeout <= 1
                /\ srcs'[c].timeout = 0 /\ srcs'[c].session = 0
             \/ /\ srcs[c].timeout > 1 /\ Listed(c)
                /\ srcs'[c].timeout > 0 /\ srcs'[c].session = srcs[c].session
  <2>1. srcs[c] \in Entry /\ srcs'[c] = CountedDown(srcs[c])
    BY <1>0 DEF Tick, TableTypeOK
  <2>2. srcs[c].timeout \in Nat
    BY <2>1, BaseAssumption DEF Entry
  <2>3. CASE srcs[c].timeout <= 1
    BY <2>1, <2>3, ReplyTypes DEF CountedDown
  <2>4. CASE ~ (srcs[c].timeout <= 1)
    <3>1. srcs'[c] = [srcs[c] EXCEPT !.timeout = srcs[c].timeout - 1]
      BY <2>1, <2>4 DEF CountedDown
    <3>2. srcs'[c].timeout = srcs[c].timeout - 1 /\ srcs'[c].session = srcs[c].session
      BY <2>1, <3>1 DEF Entry
    <3> QED
      BY <2>2, <2>4, <3>2 DEF Listed
  <2> QED
    BY <2>3, <2>4
<1>4. \A s \in Ids : udpSrcs'[s] = IF s \in ExpiringIds THEN NoSrc ELSE udpSrcs[s]
  BY DEF Tick
<1>5. ASSUME NEW c \in Srcs, srcs[c].timeout > 1, Listed(c)
      PROVE  srcs[c].session \notin ExpiringIds
  BY <1>2, <1>5
<1>6. \A t \in Ids : udpSrcs[t] # NoSrc => udpSrcs[t] \in Srcs
  BY <1>0 DEF TableTypeOK, Endpoint
<1>7. SourcesAgree'
  <2>1. \A c \in Srcs : srcs'[c].timeout > 0 <=> srcs'[c].session # 0
    BY <1>0, <1>3 DEF SourcesAgree
  <2>2. \A c \in Srcs : srcs'[c].timeout > 0 => udpSrcs'[srcs'[c].session] = c
    BY <1>1, <1>3, <1>4, <1>5
  <2>3. ASSUME NEW t \in Ids, udpSrcs'[t] # NoSrc
        PROVE  srcs'[udpSrcs'[t]].timeout > 0 /\ srcs'[udpSrcs'[t]].session = t
    <3>1. t \notin ExpiringIds /\ udpSrcs'[t] = udpSrcs[t]
      BY <1>4, <2>3
    <3>2. /\ udpSrcs[t] \in Srcs /\ Listed(udpSrcs[t]) /\ srcs[udpSrcs[t]].session = t
      BY <1>0, <1>6, <2>3, <3>1 DEF SourcesAgree
    <3>3. srcs[udpSrcs[t]].timeout # 1
      BY <1>0, <3>1, <3>2 DEF ExpiringIds, Expiring
    <3>4. ~ (srcs[udpSrcs[t]].timeout <= 1)
      <4>1. srcs[udpSrcs[t]].timeout \in Nat
        BY <1>0, <3>2, BaseAssumption DEF TableTypeOK, Entry
      <4> QED
        BY <3>2, <3>3, <4>1 DEF Listed
    <3>5. srcs'[udpSrcs[t]].timeout > 0 /\ srcs'[udpSrcs[t]].session = t
      BY <1>3, <3>2, <3>4
    <3> QED
      BY <3>1, <3>5
  <2> QED
    BY <2>1, <2>2, <2>3 DEF SourcesAgree, Listed
<1>8. PeersAgree'
  <2>1. CASE Expiring = {}
    <3>1. posted' = posted /\ peers' = peers /\ ExpiringIds = {}
      BY <2>1 DEF Tick, ExpiringIds
    <3>2. \A s \in Ids : udpSrcs'[s] = udpSrcs[s]
      BY <1>4, <3>1
    <3>3. \A k \in DOMAIN posted : posted[k].run = "add" => posted[k].id \in Ids
      BY <1>0, ElementOfSeq, LenProperties, HandlerTypes
    <3> QED
      BY <1>0, <3>1, <3>2, <3>3 DEF PeersAgree
  <2>2. CASE Expiring # {}
    <3> DEFINE h == DelPeers(ExpiringIds)
    <3>1. ExpiringIds \in SUBSET (0 .. MaxSession)
      BY <1>0 DEF ExpiringIds, Expiring, TableTypeOK, Entry
    <3>2. h \in Handler /\ h.run = "del" /\ h.ids = ExpiringIds
      BY <3>1, HandlerTypes, HandlerRuns
    <3>3. UNCHANGED <<coros, peers, dst>> /\ posted' = Append(posted, h)
      BY <2>2 DEF Tick, baseVars
    <3> HIDE DEF h
    <3>4. \A s \in Ids : udpSrcs'[s] = udpSrcs[s] \/ Deleted(h.ids, s)
      BY <1>4, <3>2 DEF Deleted
    <3> QED
      BY <1>0, <3>2, <3>3, <3>4, PostAgrees
  <2> QED
    BY <2>1, <2>2
<1> QED
  BY <1>7, <1>8 DEF AgreeInv

(* The three tables agree: a listed source has a session, which leads back *)
(* to it and to no other, and a peer the reply relay still knows is that   *)
(* of a session the manager lists, or the handler that removes it is on    *)
(* its way.  (relay_manager.cpp:142, 197-213, 284-295; raw_udp.cpp:31-48)  *)
THEOREM LocalUdpTablesAgree == Spec => []TablesAgree
<1> DEFINE IInv == QueueIInv /\ OwnerInv /\ AgreeInv
<1>1. Init => IInv
  <2> SUFFICES ASSUME Init PROVE IInv
    OBVIOUS
  <2>1. /\ srcs = [c \in Endpoint |-> NoEntry]
        /\ udpSrcs = [s \in Ids |-> NoSrc] /\ peers = [s \in Ids |-> NoSrc]
        /\ DOMAIN posted = {1} /\ posted[1].run = "init"
    <3>1. <<Start>> \in Seq(Handler) /\ Len(<<Start>>) = 1 /\ <<Start>>[1].run = "init"
      BY HandlerTypes, HandlerRuns
    <3>2. DOMAIN <<Start>> = {1}
      BY <3>1, LenProperties
    <3> HIDE DEF Start
    <3> QED
      BY <3>1, <3>2 DEF Init
  <2>2. AgreeInv
    BY <2>1, ReplyTypes DEF AgreeInv, SourcesAgree, PeersAgree, Listed
  <2> QED
    BY <2>2, QueueInit, OwnerInit
<1>2. IInv /\ [Next]_vars => IInv'
  <2> SUFFICES ASSUME IInv, [Next]_vars PROVE IInv'
    OBVIOUS
  <2>1. QueueIInv' /\ OwnerInv'
    BY QueueStep, OwnerStep
  <2>2. CASE ManagerStep
    BY <2>2, RequestAgrees, ResponseAgrees, TickIdleAgrees, TickAgrees, <2>1 DEF ManagerStep
  <2>3. CASE HandlerStep
    BY <2>1, <2>3, HandlerAgrees
  <2>4. CASE SenderStep \/ SendCompletes \/ UNCHANGED vars
    <3>1. UNCHANGED <<srcs, udpSrcs, peers, posted>>
      BY <2>1, <2>4, SenderLooksUp
         DEF SendCompletes, SendSucceeds, SendFails, tableVars, relayVars, vars
    <3> QED
      BY <2>1, <3>1 DEF AgreeInv, SourcesAgree, PeersAgree, Listed, DeletedAfter
  <2> QED
    BY <2>2, <2>3, <2>4 DEF Next
<1>3. IInv => TablesAgree
  BY AgreeIsAgree
<1> QED
  BY <1>1, <1>2, <1>3, PTL DEF Spec
=============================================================================
