--------------------------- MODULE BaseRelayProofs ---------------------------
(***************************************************************************)
(* What the operators of BaseRelay preserve, for any set of buffers and    *)
(* any TIMEOUT.  The theorems about a relay are in the module of its own:  *)
(* they cite these lemmas for the steps it takes with those operators.     *)
(***************************************************************************)
EXTENDS BaseRelay, SequenceTheorems, TLAPS

(* Frames and requests are well typed when they are made.                  *)
LEMMA FrameTypes ==
  /\ Spawned \in Frame
  /\ Returned \in Frame
  /\ \A d \in Data : Writing(d) \in Frame
  /\ \A f \in Frame : /\ [f EXCEPT !.pc = "written"] \in Frame
                      /\ [f EXCEPT !.pc = "failed"] \in Frame
BY DEF Frame, Spawned, Returned, Writing

LEMMA DownTypes ==
  /\ NotCalled \in Down
  /\ \A n \in 1 .. TIMEOUT : [at |-> "loaded", value |-> n] \in Down
  /\ [at |-> "stopping", value |-> 0] \in Down
BY BaseAssumption DEF NotCalled, Down

(* What an assignment to one frame, and a new frame, leave alone.          *)
LEMMA FrameSet ==
  ASSUME coros \in Seq(Frame), NEW i \in DOMAIN coros, NEW f \in Frame,
         coros' = [coros EXCEPT ![i] = f]
  PROVE  /\ DOMAIN coros' = DOMAIN coros
         /\ coros' # <<>>
         /\ coros'[i] = f
         /\ \A j \in DOMAIN coros : j # i => coros'[j] = coros[j]
<1>1. i \in 1 .. Len(coros) /\ DOMAIN coros = 1 .. Len(coros)
  BY LenProperties
<1>2. coros' \in Seq(Frame) /\ Len(coros') = Len(coros)
  BY <1>1, ExceptSeq
<1>3. DOMAIN coros' = 1 .. Len(coros')
  BY <1>2, LenProperties
<1>4. coros' # <<>>
  BY <1>1, <1>2, EmptySeq
<1> QED
  BY <1>1, <1>2, <1>3, <1>4, ExceptSeq

LEMMA FrameAdded ==
  ASSUME coros \in Seq(Frame), coros' = Append(coros, Spawned)
  PROVE  /\ DOMAIN coros' = DOMAIN coros \cup {Len(coros) + 1}
         /\ coros' # <<>>
         /\ coros'[Len(coros) + 1] = Spawned
         /\ \A j \in DOMAIN coros : coros'[j] = coros[j]
<1>1. DOMAIN coros = 1 .. Len(coros) /\ Len(coros) \in Nat
  BY LenProperties
<1>2. coros' \in Seq(Frame) /\ Len(coros') = Len(coros) + 1
  BY FrameTypes, AppendProperties
<1>3. DOMAIN coros' = 1 .. Len(coros')
  BY <1>2, LenProperties
<1> QED
  BY <1>1, <1>2, <1>3, FrameTypes, AppendProperties

LEMMA FramePcs ==
  /\ Spawned.pc = "spawned"
  /\ Returned.pc = "done"
  /\ \A d : Writing(d).pc = "writing" /\ Writing(d).buf = d
BY DEF Spawned, Returned, Writing

(* One turn of the send loop keeps its variables well typed.               *)
LEMMA SendLoopTypes ==
  ASSUME BaseTypeOK, NEW i \in DOMAIN coros, NEW q \in Seq(Data),
         NEW s \in RelayState, SendLoop(i, q, s)
  PROVE  state' \in RelayState /\ coros' \in Seq(Frame) /\ timeout' \in 0 .. TIMEOUT
<1>1. i \in 1 .. Len(coros)
  BY LenProperties DEF BaseTypeOK
<1>2. \A f \in Frame : [coros EXCEPT ![i] = f] \in Seq(Frame)
  BY <1>1, ExceptSeq DEF BaseTypeOK
<1>3. q # <<>> => Writing(Head(q)) \in Frame
  BY HeadTailProperties, FrameTypes
<1>4. TIMEOUT \in 0 .. TIMEOUT
  BY BaseAssumption
<1>5. CASE q = <<>>
  BY <1>2, <1>5, FrameTypes DEF SendLoop, BaseTypeOK, RelayState
<1>6. CASE q # <<>> /\ s = "STOP"
  BY <1>2, <1>6, FrameTypes DEF SendLoop, BaseTypeOK, RelayState
<1>7. CASE q # <<>> /\ s # "STOP"
  <2>1. coros' = [coros EXCEPT ![i] = Writing(Head(q))] /\ timeout' = TIMEOUT /\ state' = s
    BY <1>7 DEF SendLoop
  <2> QED
    BY <2>1, <1>2, <1>3, <1>4, <1>7
<1> QED
  BY <1>5, <1>6, <1>7

(* The handler of send_data, the steps of a send coroutine and those of    *)
(* timeout_down() keep the variables well typed; a coroutine that pops a   *)
(* buffer needs OneWriter to find one.                                     *)
LEMMA SendDataTypes ==
  ASSUME BaseTypeOK, NEW d \in Data, SendData(d), UNCHANGED down
  PROVE  BaseTypeOK'
<1>1. Append(bufs, d) \in Seq(Data) /\ Append(accepted, d) \in Seq(Data)
  BY AppendProperties DEF BaseTypeOK
<1>2. Append(coros, Spawned) \in Seq(Frame)
  BY FrameTypes, AppendProperties DEF BaseTypeOK
<1> QED
  BY <1>1, <1>2 DEF BaseTypeOK, SendData, StartSend

LEMMA EnterSendTypes ==
  ASSUME BaseTypeOK, NEW i \in DOMAIN coros, EnterSend(i), UNCHANGED down
  PROVE  BaseTypeOK'
<1>1. CASE state # "INIT"
  <2>1. i \in 1 .. Len(coros)
    BY LenProperties DEF BaseTypeOK
  <2>2. [coros EXCEPT ![i] = Returned] \in Seq(Frame)
    BY <2>1, ExceptSeq, FrameTypes DEF BaseTypeOK
  <2> QED
    BY <1>1, <2>2 DEF EnterSend, BaseTypeOK
<1>2. CASE state = "INIT"
  <2>1. SendLoop(i, bufs, "START")
    BY <1>2 DEF EnterSend
  <2>2. state' \in RelayState /\ coros' \in Seq(Frame) /\ timeout' \in 0 .. TIMEOUT
    BY <2>1, SendLoopTypes DEF RelayState, BaseTypeOK
  <2> QED
    BY <2>2 DEF EnterSend, BaseTypeOK
<1> QED
  BY <1>1, <1>2

LEMMA ResumeSendTypes ==
  ASSUME BaseTypeOK, OneWriter, NEW i \in DOMAIN coros, ResumeSend(i), UNCHANGED down
  PROVE  BaseTypeOK'
<1>1. Tail(bufs) \in Seq(Data)
  BY HeadTailProperties DEF BaseTypeOK, ResumeSend, OneWriter, Suspended
<1>2. state' \in RelayState /\ coros' \in Seq(Frame) /\ timeout' \in 0 .. TIMEOUT
  BY <1>1, SendLoopTypes DEF BaseTypeOK, ResumeSend
<1> QED
  BY <1>1, <1>2 DEF BaseTypeOK, ResumeSend

LEMMA TimerTypes ==
  ASSUME BaseTypeOK, TimeoutLoad \/ TimeoutStore \/ TimeoutReturn
  PROVE  down' \in Down /\ timeout' \in 0 .. TIMEOUT
<1>1. CASE TimeoutLoad
  BY <1>1, DownTypes, BaseAssumption DEF BaseTypeOK, TimeoutLoad
<1>2. CASE TimeoutStore
  <2>1. down.value \in 1 .. TIMEOUT
    BY <1>2 DEF BaseTypeOK, TimeoutStore, Down
  <2>2. down' \in Down
    BY <1>2, DownTypes DEF TimeoutStore
  <2> QED
    BY <1>2, <2>1, <2>2, BaseAssumption DEF TimeoutStore
<1>3. CASE TimeoutReturn
  BY <1>3, DownTypes DEF BaseTypeOK, TimeoutReturn
<1> QED
  BY <1>1, <1>2, <1>3

(* A queue of handlers: one is added at the end, or the first is run.      *)
LEMMA QueueGrows ==
  ASSUME NEW S, NEW q \in Seq(S), NEW h \in S
  PROVE  /\ Append(q, h) \in Seq(S)
         /\ Append(q, h) # <<>>
         /\ DOMAIN Append(q, h) = DOMAIN q \cup {Len(q) + 1}
         /\ \A k \in DOMAIN q : k \in Nat /\ k # 0 /\ k < Len(q) + 1
         /\ \A k \in DOMAIN q : Append(q, h)[k] = q[k]
         /\ Append(q, h)[Len(q) + 1] = h
         /\ q \o <<h>> = Append(q, h)
<1>1. /\ Len(q) \in Nat /\ DOMAIN q = 1 .. Len(q)
      /\ Append(q, h) \in Seq(S) /\ Len(Append(q, h)) = Len(q) + 1
      /\ \A k \in 1 .. Len(q) : Append(q, h)[k] = q[k]
      /\ Append(q, h)[Len(q) + 1] = h
  BY LenProperties, AppendProperties
<1>2. DOMAIN Append(q, h) = 1 .. Len(q) + 1
  BY <1>1, LenProperties
<1>3. q \o <<h>> = Append(q, h)
  <2>1. <<h>> \in Seq(S) /\ Len(<<h>>) = 1 /\ <<h>>[1] = h
    OBVIOUS
  <2>2. /\ q \o <<h>> \in Seq(S) /\ Len(q \o <<h>>) = Len(q) + 1
        /\ \A k \in 1 .. Len(q) + 1 : (q \o <<h>>)[k] = IF k <= Len(q) THEN q[k] ELSE h
    BY <1>1, <2>1, ConcatProperties
  <2> QED
    BY <1>1, <2>2, SeqEqual
<1>4. Append(q, h) # <<>>
  BY <1>1, EmptySeq
<1> QED
  BY <1>1, <1>2, <1>3, <1>4

LEMMA QueuePops ==
  ASSUME NEW S, NEW q \in Seq(S), q # <<>>
  PROVE  /\ Head(q) = q[1] /\ Head(q) \in S /\ 1 \in DOMAIN q
         /\ Tail(q) \in Seq(S)
         /\ \A k \in DOMAIN Tail(q) :
              k \in Nat /\ k # 0 /\ k + 1 \in DOMAIN q /\ Tail(q)[k] = q[k + 1]
         /\ \A k \in DOMAIN q : k # 1 =>
              k - 1 \in DOMAIN Tail(q) /\ Tail(q)[k - 1] = q[k]
<1>1. /\ Len(q) \in Nat /\ DOMAIN q = 1 .. Len(q) /\ Len(q) >= 1
      /\ Tail(q) \in Seq(S) /\ Len(Tail(q)) = Len(q) - 1
      /\ \A k \in 1 .. Len(Tail(q)) : Tail(q)[k] = q[k + 1]
      /\ Head(q) \in S
  BY LenProperties, EmptySeq, HeadTailProperties
<1>2. DOMAIN Tail(q) = 1 .. Len(q) - 1
  BY <1>1, LenProperties
<1>3. Head(q) = q[1]
  BY <1>1
<1> QED
  BY <1>1, <1>2, <1>3

(* A pending write ends in one of two ways, and nothing else of its frame  *)
(* changes.                                                                *)
LEMMA WriteEnds ==
  ASSUME BaseTypeOK, NEW i \in DOMAIN coros, NEW p \in {"written", "failed"},
         coros' = [coros EXCEPT ![i].pc = p]
  PROVE  /\ coros' \in Seq(Frame)
         /\ \E f \in Frame : /\ coros' = [coros EXCEPT ![i] = f]
                            /\ f.pc = p
                            /\ f.buf = coros[i].buf
<1>1. coros[i] \in Frame /\ i \in 1 .. Len(coros)
  BY LenProperties, ElementOfSeq DEF BaseTypeOK
<1>2. PICK f \in Frame : /\ coros' = [coros EXCEPT ![i] = f]
                         /\ f.pc = p
                         /\ f.buf = coros[i].buf
  <2>1. CASE p = "written"
    <3>1. coros' = [coros EXCEPT ![i].pc = "written"]
      BY <2>1
    <3> QED
      BY <1>1, <2>1, <3>1 DEF Frame
  <2>2. CASE p = "failed"
    <3>1. coros' = [coros EXCEPT ![i].pc = "failed"]
      BY <2>2
    <3> QED
      BY <1>1, <2>2, <3>1 DEF Frame
  <2> QED
    BY <2>1, <2>2
<1>3. coros' \in Seq(Frame)
  BY <1>1, <1>2, ExceptSeq DEF BaseTypeOK
<1> QED
  BY <1>2, <1>3

LEMMA WriteEndsFrame ==
  ASSUME BaseTypeOK, NEW i \in DOMAIN coros, NEW p \in {"written", "failed"},
         coros' = [coros EXCEPT ![i].pc = p]
  PROVE  /\ coros' \in Seq(Frame) /\ coros' # <<>> /\ DOMAIN coros' = DOMAIN coros
         /\ coros'[i].pc = p /\ coros'[i].buf = coros[i].buf
         /\ \A j \in DOMAIN coros : j # i => coros'[j] = coros[j]
<1>1. PICK f \in Frame :
        coros' = [coros EXCEPT ![i] = f] /\ f.pc = p /\ f.buf = coros[i].buf
  BY WriteEnds
<1> QED
  BY <1>1, WriteEnds, FrameSet DEF BaseTypeOK

(* A coroutine returns.                                                    *)
LEMMA FrameReturns ==
  ASSUME BaseTypeOK, NEW i \in DOMAIN coros, coros' = [coros EXCEPT ![i] = Returned]
  PROVE  coros' \in Seq(Frame)
BY LenProperties, ExceptSeq, FrameTypes DEF BaseTypeOK

-----------------------------------------------------------------------------
(* OneWriter is not inductive by itself: a coroutine goes on to write only *)
(* from RELAY_INIT, so none may be writing in that state, nor may one have *)
(* been spawned before the relay is started and sets RELAY_INIT.           *)
BusyIsNotInit ==
  \A i \in DOMAIN coros : Suspended(i) => state \in {"START", "STOP"}
NoneBeforeStart ==
  coros = <<>> => state \in {"UNINIT", "STOP"}
WriterInv == OneWriter /\ BusyIsNotInit /\ NoneBeforeStart
SenderInv == WriterInv /\ NoLostWakeup

(* What a step of the sender does: WriterInv goes on to hold, and so does  *)
(* NoLostWakeup where it held.                                             *)
SenderKept == WriterInv' /\ (NoLostWakeup => NoLostWakeup')

(* A step that touches neither the frames nor the queue, and leaves the    *)
(* state or stops the relay.                                               *)
LEMMA SenderUntouched ==
  ASSUME WriterInv, UNCHANGED <<bufs, coros>>, state' = state \/ state' = "STOP"
  PROVE  SenderKept
BY DEF SenderKept, WriterInv, OneWriter, BusyIsNotInit, NoneBeforeStart, NoLostWakeup,
       Suspended

(* One turn of the loop taken by a coroutine when no other is suspended.   *)
LEMMA SendLoopSender ==
  ASSUME BaseTypeOK, NEW i \in DOMAIN coros, NEW s \in {"START", "STOP"},
         bufs' \in Seq(Data), SendLoop(i, bufs', s),
         \A j \in DOMAIN coros : Suspended(j) => j = i
  PROVE  SenderInv'
<1> USE DEF SenderInv, WriterInv
<1> DEFINE q == bufs'
<1>0. coros \in Seq(Frame)
  BY DEF BaseTypeOK
<1>1. CASE q = <<>>
  <2>1. coros' = [coros EXCEPT ![i] = Returned] /\ state' = "INIT"
    BY <1>1 DEF SendLoop
  <2>2. /\ DOMAIN coros' = DOMAIN coros
        /\ coros' # <<>>
        /\ \A j \in DOMAIN coros' : ~ Suspended(j)'
    BY <1>0, <2>1, FrameSet, FrameTypes, FramePcs DEF Suspended
  <2> QED
    BY <1>1, <2>1, <2>2 DEF OneWriter, BusyIsNotInit, NoneBeforeStart, NoLostWakeup
<1>2. CASE q # <<>> /\ s = "STOP"
  <2>1. coros' = [coros EXCEPT ![i] = Returned] /\ state' = "STOP"
    BY <1>2 DEF SendLoop
  <2>2. /\ DOMAIN coros' = DOMAIN coros
        /\ \A j \in DOMAIN coros' : ~ Suspended(j)'
    BY <1>0, <2>1, FrameSet, FrameTypes, FramePcs DEF Suspended
  <2> QED
    BY <2>1, <2>2 DEF OneWriter, BusyIsNotInit, NoneBeforeStart, NoLostWakeup
<1>3. CASE q # <<>> /\ s # "STOP"
  <2>1. coros' = [coros EXCEPT ![i] = Writing(Head(q))] /\ state' = "START"
    BY <1>3 DEF SendLoop
  <2>2. Writing(Head(q)) \in Frame
    BY <1>3, HeadTailProperties, FrameTypes
  <2>3. /\ DOMAIN coros' = DOMAIN coros
        /\ coros' # <<>>
        /\ coros'[i].buf = Head(q)
        /\ Suspended(i)'
        /\ \A j \in DOMAIN coros' : Suspended(j)' => j = i
    BY <1>0, <2>1, <2>2, FrameSet, FramePcs DEF Suspended
  <2> QED
    BY <1>3, <2>1, <2>3 DEF OneWriter, BusyIsNotInit, NoneBeforeStart, NoLostWakeup
<1> QED
  BY <1>1, <1>2, <1>3

(* The first coroutine, spawned by the relay's start: none is suspended.   *)
LEMMA StartSender ==
  ASSUME BaseTypeOK, coros = <<>>, coros' = StartSend(coros), state' = "INIT",
         UNCHANGED bufs
  PROVE  SenderInv' /\ coros' \in Seq(Frame) /\ coros' # <<>>
<1>1. DOMAIN coros = {} /\ coros \in Seq(Frame)
  BY EmptySeq, LenProperties DEF BaseTypeOK
<1>2. /\ \A i \in DOMAIN coros' : coros'[i] = Spawned
      /\ \E i \in DOMAIN coros' : coros'[i] = Spawned
      /\ coros' # <<>>
  BY <1>1, FrameAdded DEF StartSend
<1>3. coros' \in Seq(Frame)
  BY <1>1, FrameTypes, AppendProperties DEF StartSend
<1> QED
  BY <1>2, <1>3, FramePcs
     DEF SenderInv, WriterInv, OneWriter, BusyIsNotInit, NoneBeforeStart, NoLostWakeup,
         Suspended

LEMMA SendDataSender ==
  ASSUME BaseTypeOK, WriterInv, NEW d \in Data, SendData(d)
  PROVE  SenderKept
<1> USE DEF SenderKept, WriterInv
<1>1. CASE state = "STOP"
  BY <1>1, SenderUntouched DEF SendData
<1>2. CASE state # "STOP"
  <2>1. bufs' = Append(bufs, d) /\ state' = state
    BY <1>2 DEF SendData
  <2>2. bufs' # <<>> /\ (bufs # <<>> => Head(bufs') = Head(bufs))
    BY <2>1, HeadTailAppend, AppendProperties DEF BaseTypeOK
  <2>3. CASE state = "INIT" /\ bufs = <<>>
    <3>1. coros' = Append(coros, Spawned)
      BY <1>2, <2>3 DEF SendData, StartSend
    <3>2. \A i \in DOMAIN coros : ~ Suspended(i)
      BY <2>3 DEF BusyIsNotInit
    <3>3. /\ \A i \in DOMAIN coros' : ~ Suspended(i)'
          /\ coros' # <<>>
          /\ \E i \in DOMAIN coros' : coros'[i].pc = "spawned"
      BY <3>1, <3>2, FrameAdded, FramePcs DEF Suspended, BaseTypeOK
    <3> QED
      BY <2>1, <2>3, <3>3 DEF OneWriter, BusyIsNotInit, NoneBeforeStart, NoLostWakeup
  <2>4. CASE ~ (state = "INIT" /\ bufs = <<>>)
    <3>1. coros' = coros
      BY <1>2, <2>4 DEF SendData
    <3> QED
      BY <2>1, <2>2, <2>4, <3>1
         DEF OneWriter, BusyIsNotInit, NoneBeforeStart, NoLostWakeup, Suspended
  <2> QED
    BY <2>3, <2>4
<1> QED
  BY <1>1, <1>2

LEMMA EnterSendSender ==
  ASSUME BaseTypeOK, WriterInv, NEW i \in DOMAIN coros, EnterSend(i)
  PROVE  SenderKept
<1> USE DEF SenderKept, WriterInv
<1>1. CASE state # "INIT"
  <2>1. coros' = [coros EXCEPT ![i] = Returned] /\ UNCHANGED <<bufs, state>>
    BY <1>1 DEF EnterSend
  <2>2. /\ DOMAIN coros' = DOMAIN coros
        /\ coros' # <<>>
        /\ ~ Suspended(i)'
        /\ \A j \in DOMAIN coros : j # i => coros'[j] = coros[j]
    BY <2>1, FrameSet, FrameTypes, FramePcs DEF Suspended, BaseTypeOK
  <2>3. ~ Suspended(i)
    BY DEF EnterSend, Suspended
  <2>4. NoneBeforeStart' /\ (NoLostWakeup => NoLostWakeup')
    BY <1>1, <2>1, <2>2, <2>3 DEF NoneBeforeStart, NoLostWakeup, Suspended
  <2>5. OneWriter' /\ BusyIsNotInit'
    BY <2>1, <2>2 DEF OneWriter, BusyIsNotInit, Suspended
  <2> QED
    BY <2>4, <2>5
<1>2. CASE state = "INIT"
  <2>1. SendLoop(i, bufs', "START") /\ bufs' \in Seq(Data)
    BY <1>2 DEF EnterSend, BaseTypeOK
  <2>2. \A j \in DOMAIN coros : ~ Suspended(j)
    BY <1>2 DEF BusyIsNotInit
  <2> QED
    BY <2>1, <2>2, SendLoopSender DEF SenderInv
<1> QED
  BY <1>1, <1>2

LEMMA ResumeSendSender ==
  ASSUME BaseTypeOK, WriterInv, NEW i \in DOMAIN coros, ResumeSend(i)
  PROVE  SenderKept
<1>1. Suspended(i)
  BY DEF ResumeSend, Suspended
<1>2. /\ bufs # <<>>
      /\ \A j \in DOMAIN coros : Suspended(j) => j = i
      /\ state \in {"START", "STOP"}
  BY <1>1 DEF WriterInv, OneWriter, BusyIsNotInit
<1>3. bufs' \in Seq(Data) /\ SendLoop(i, bufs', state)
  BY <1>2, HeadTailProperties DEF BaseTypeOK, ResumeSend
<1> QED
  BY <1>2, <1>3, SendLoopSender DEF SenderKept, SenderInv

LEMMA WriteEndsSender ==
  ASSUME BaseTypeOK, WriterInv, NEW i \in DOMAIN coros, coros[i].pc = "writing",
         NEW p \in {"written", "failed"}, coros' = [coros EXCEPT ![i].pc = p],
         UNCHANGED <<bufs, state>>
  PROVE  SenderKept
<1> USE DEF SenderKept, WriterInv
<1>1. PICK f \in Frame :
        coros' = [coros EXCEPT ![i] = f] /\ f.pc = p /\ f.buf = coros[i].buf
  BY WriteEnds
<1>2. /\ DOMAIN coros' = DOMAIN coros
      /\ coros' # <<>>
      /\ coros'[i] = f
      /\ \A j \in DOMAIN coros : j # i => coros'[j] = coros[j]
  BY <1>1, FrameSet DEF BaseTypeOK
<1>3. Suspended(i)
  BY DEF Suspended
<1>4. OneWriter' /\ BusyIsNotInit'
  BY <1>1, <1>2, <1>3 DEF OneWriter, BusyIsNotInit, Suspended
<1>5. NoneBeforeStart' /\ (NoLostWakeup => NoLostWakeup')
  BY <1>1, <1>2, <1>3 DEF BusyIsNotInit, NoneBeforeStart, NoLostWakeup, Suspended
<1> QED
  BY <1>4, <1>5

(* A coroutine whose write failed returns; the relay is stopped at once,   *)
(* or by another coroutine later.                                          *)
LEMMA CaughtSender ==
  ASSUME BaseTypeOK, WriterInv, NEW i \in DOMAIN coros,
         coros' = [coros EXCEPT ![i] = Returned],
         UNCHANGED bufs, state' = state \/ state' = "STOP"
  PROVE  WriterInv' /\ (state' = "STOP" => NoLostWakeup')
<1>1. /\ DOMAIN coros' = DOMAIN coros
      /\ coros' # <<>>
      /\ ~ Suspended(i)'
      /\ \A j \in DOMAIN coros : j # i => coros'[j] = coros[j]
  BY FrameSet, FrameTypes, FramePcs DEF Suspended, BaseTypeOK
<1> QED
  BY <1>1 DEF WriterInv, OneWriter, BusyIsNotInit, NoneBeforeStart, NoLostWakeup, Suspended

(* No step of the sender spawns the first coroutine.                       *)
LEMMA SendDataSpawnsNone ==
  ASSUME WriterInv, coros = <<>>, NEW d, SendData(d)
  PROVE  coros' = <<>>
BY DEF WriterInv, NoneBeforeStart, SendData

-----------------------------------------------------------------------------
(* Where a buffer is once send_data has pushed it: popped, or in the queue *)
(* at its place.  What has been written is what has been popped, plus the  *)
(* front of the queue while its writer has not been resumed.               *)
Popped == Len(accepted) - Len(bufs)
QueueIsSuffix ==
  /\ Popped \in Nat
  /\ \A k \in 1 .. Len(bufs) : bufs[k] = accepted[Popped + k]
WrittenLen ==
  IF \E i \in DOMAIN coros : coros[i].pc = "written" THEN Popped + 1 ELSE Popped

(* What was written, as a relay records it.                                *)
IsWritten(w) ==
  /\ Len(w) = WrittenLen
  /\ \A k \in 1 .. Len(w) : w[k] = accepted[k]

LEMMA BaseLengths ==
  ASSUME BaseTypeOK
  PROVE  /\ Len(bufs) \in Nat /\ Len(accepted) \in Nat /\ Len(coros) \in Nat
         /\ DOMAIN coros = 1 .. Len(coros)
         /\ (bufs = <<>> <=> Len(bufs) = 0)
BY LenProperties, EmptySeq DEF BaseTypeOK

(* A buffer is written after it was accepted.                              *)
LEMMA WrittenWasAccepted ==
  ASSUME BaseTypeOK, OneWriter, QueueIsSuffix
  PROVE  WrittenLen \in Nat /\ WrittenLen <= Len(accepted)
<1>1. CASE \E i \in DOMAIN coros : coros[i].pc = "written"
  <2>1. bufs # <<>>
    BY <1>1 DEF OneWriter, Suspended
  <2> QED
    BY <1>1, <2>1, BaseLengths DEF WrittenLen, Popped, QueueIsSuffix
<1>2. CASE ~ \E i \in DOMAIN coros : coros[i].pc = "written"
  BY <1>2, BaseLengths DEF WrittenLen, Popped, QueueIsSuffix
<1> QED
  BY <1>1, <1>2

(* A step that leaves the queue and what was accepted alone and neither    *)
(* makes a frame "written" nor ends one that is.                           *)
LEMMA StreamUntouched ==
  ASSUME QueueIsSuffix, UNCHANGED <<bufs, accepted>>,
         (\E i \in DOMAIN coros : coros[i].pc = "written")
           <=> (\E i \in DOMAIN coros' : coros'[i].pc = "written")
  PROVE  QueueIsSuffix' /\ WrittenLen' = WrittenLen
BY DEF QueueIsSuffix, WrittenLen, Popped

(* A frame that is not "written" is set to another that is not.            *)
LEMMA FrameSetStream ==
  ASSUME coros \in Seq(Frame), NEW i \in DOMAIN coros, NEW f \in Frame,
         coros' = [coros EXCEPT ![i] = f], coros[i].pc # "written", f.pc # "written",
         QueueIsSuffix, UNCHANGED <<bufs, accepted>>
  PROVE  QueueIsSuffix' /\ WrittenLen' = WrittenLen
<1>1. (\E j \in DOMAIN coros : coros[j].pc = "written")
        <=> (\E j \in DOMAIN coros' : coros'[j].pc = "written")
  BY FrameSet
<1> QED
  BY <1>1, StreamUntouched

(* A turn of the loop leaves frame i not "written".                        *)
LEMMA SendLoopWritten ==
  ASSUME coros \in Seq(Frame), NEW i \in DOMAIN coros, NEW q \in Seq(Data),
         NEW s, SendLoop(i, q, s)
  PROVE  \E f \in Frame : coros' = [coros EXCEPT ![i] = f] /\ f.pc # "written"
<1>1. q # <<>> => Writing(Head(q)) \in Frame
  BY HeadTailProperties, FrameTypes
<1> QED
  BY <1>1, FrameTypes, FramePcs DEF SendLoop

(* A step of coroutine i changes its own frame only.                       *)
LEMMA StepSetsFrame ==
  ASSUME BaseTypeOK, OneWriter, NEW i \in DOMAIN coros,
         \/ EnterSend(i) \/ ResumeSend(i)
         \/ coros' = [coros EXCEPT ![i] = Returned]
  PROVE  /\ DOMAIN coros' = DOMAIN coros /\ coros' # <<>>
         /\ \A j \in DOMAIN coros : j # i => coros'[j] = coros[j]
         /\ coros'[i].pc # "written"
<1>1. \E f \in Frame : coros' = [coros EXCEPT ![i] = f] /\ f.pc # "written"
  <2>1. CASE EnterSend(i)
    BY <2>1, SendLoopWritten, FrameTypes, FramePcs DEF EnterSend, BaseTypeOK
  <2>2. CASE ResumeSend(i)
    <3>1. bufs # <<>>
      BY <2>2 DEF ResumeSend, OneWriter, Suspended
    <3>2. Tail(bufs) \in Seq(Data)
      BY <3>1, HeadTailProperties DEF BaseTypeOK
    <3> QED
      BY <2>2, <3>2, SendLoopWritten DEF ResumeSend, BaseTypeOK
  <2>3. CASE coros' = [coros EXCEPT ![i] = Returned]
    BY <2>3, FrameTypes, FramePcs
  <2> QED
    BY <2>1, <2>2, <2>3
<1> QED
  BY <1>1, FrameSet DEF BaseTypeOK

(* The handler of send_data adds to what was accepted, and the queue ...   *)
LEMMA SendDataStream ==
  ASSUME BaseTypeOK, QueueIsSuffix, NEW d \in Data, SendData(d)
  PROVE  /\ QueueIsSuffix'
         /\ WrittenLen' = WrittenLen
         /\ accepted' = accepted \/ accepted' = Append(accepted, d)
<1>0. coros \in Seq(Frame)
  BY DEF BaseTypeOK
<1>1. (\E i \in DOMAIN coros : coros[i].pc = "written")
        <=> (\E i \in DOMAIN coros' : coros'[i].pc = "written")
  <2>1. CASE coros' = coros
    BY <2>1
  <2>2. CASE coros' = Append(coros, Spawned)
    BY <2>2, <1>0, FrameAdded, FramePcs
  <2> QED
    BY <2>1, <2>2 DEF SendData, StartSend
<1>2. CASE UNCHANGED <<bufs, accepted>>
  BY <1>1, <1>2, StreamUntouched
<1>3. CASE bufs' = Append(bufs, d) /\ accepted' = Append(accepted, d)
  <2>1. /\ Len(bufs') = Len(bufs) + 1
        /\ \A k \in 1 .. Len(bufs) : bufs'[k] = bufs[k]
        /\ bufs'[Len(bufs) + 1] = d
    BY <1>3, AppendProperties DEF BaseTypeOK
  <2>2. /\ Len(accepted') = Len(accepted) + 1
        /\ \A k \in 1 .. Len(accepted) : accepted'[k] = accepted[k]
        /\ accepted'[Len(accepted) + 1] = d
    BY <1>3, AppendProperties DEF BaseTypeOK
  <2>3. Popped' = Popped /\ Popped \in Nat
    BY <2>1, <2>2, BaseLengths DEF Popped, QueueIsSuffix
  <2>4. QueueIsSuffix'
    <3> SUFFICES ASSUME NEW k \in 1 .. Len(bufs') PROVE bufs'[k] = accepted'[Popped + k]
      BY <2>3 DEF QueueIsSuffix
    <3>1. CASE k = Len(bufs) + 1
      BY <3>1, <2>1, <2>2, BaseLengths DEF Popped
    <3>2. CASE k \in 1 .. Len(bufs)
      <4>1. Popped + k \in 1 .. Len(accepted)
        BY <3>2, <2>3, BaseLengths DEF Popped
      <4> QED
        BY <4>1, <3>2, <2>1, <2>2 DEF QueueIsSuffix
    <3> QED
      BY <3>1, <3>2, <2>1, BaseLengths
  <2> QED
    BY <1>1, <1>3, <2>3, <2>4 DEF WrittenLen
<1> QED
  BY <1>2, <1>3 DEF SendData

(* ... the coroutine pops what it has written ...                          *)
LEMMA EnterSendStream ==
  ASSUME BaseTypeOK, QueueIsSuffix, NEW i \in DOMAIN coros, EnterSend(i)
  PROVE  QueueIsSuffix' /\ WrittenLen' = WrittenLen
<1>1. PICK f \in Frame : coros' = [coros EXCEPT ![i] = f] /\ f.pc # "written"
  BY SendLoopWritten, FrameTypes, FramePcs DEF EnterSend, BaseTypeOK
<1>2. UNCHANGED <<bufs, accepted>> /\ coros[i].pc # "written"
  BY DEF EnterSend
<1> QED
  BY <1>1, <1>2, FrameSetStream DEF BaseTypeOK

LEMMA ResumeSendStream ==
  ASSUME BaseTypeOK, OneWriter, QueueIsSuffix, NEW i \in DOMAIN coros, ResumeSend(i)
  PROVE  QueueIsSuffix' /\ WrittenLen' = WrittenLen
<1>1. /\ coros[i].pc = "written" /\ bufs' = Tail(bufs)
      /\ SendLoop(i, Tail(bufs), state) /\ accepted' = accepted
  BY DEF ResumeSend
<1>2. bufs # <<>> /\ \A j \in DOMAIN coros : coros[j].pc = "written" => j = i
  BY <1>1 DEF OneWriter, Suspended
<1>3. /\ bufs' \in Seq(Data)
      /\ Len(bufs') = Len(bufs) - 1
      /\ \A k \in 1 .. Len(bufs') : bufs'[k] = bufs[k + 1]
  BY <1>1, <1>2, HeadTailProperties DEF BaseTypeOK
<1>4. \A j \in DOMAIN coros' : coros'[j].pc # "written"
  <2>1. PICK f \in Frame : coros' = [coros EXCEPT ![i] = f] /\ f.pc # "written"
    BY <1>1, <1>3, SendLoopWritten DEF BaseTypeOK
  <2> QED
    BY <1>2, <2>1, FrameSet DEF BaseTypeOK
<1>5. Popped' = Popped + 1 /\ Popped \in Nat
  BY <1>1, <1>3, BaseLengths DEF Popped, QueueIsSuffix
<1>6. QueueIsSuffix'
  BY <1>1, <1>3, <1>5, BaseLengths DEF QueueIsSuffix
<1> QED
  BY <1>1, <1>4, <1>5, <1>6 DEF WrittenLen

(* ... and a write that succeeds writes the buffer after those written.    *)
LEMMA WriteSucceedsStream ==
  ASSUME BaseTypeOK, OneWriter, QueueIsSuffix, NEW i \in DOMAIN coros,
         coros[i].pc = "writing", coros' = [coros EXCEPT ![i].pc = "written"],
         UNCHANGED <<bufs, accepted>>
  PROVE  /\ QueueIsSuffix'
         /\ WrittenLen' = WrittenLen + 1
         /\ WrittenLen' <= Len(accepted)
         /\ coros[i].buf \in Data
         /\ coros[i].buf = accepted[WrittenLen + 1]
<1>1. /\ bufs # <<>> /\ Head(bufs) = coros[i].buf
      /\ \A j \in DOMAIN coros : coros[j].pc # "written"
  BY DEF OneWriter, Suspended
<1>2. coros[i].buf \in Data /\ coros[i].buf = bufs[1] /\ Len(bufs) >= 1
  BY <1>1, HeadTailProperties, BaseLengths DEF BaseTypeOK
<1>3. \E j \in DOMAIN coros' : coros'[j].pc = "written"
  <2>1. PICK f \in Frame : coros' = [coros EXCEPT ![i] = f] /\ f.pc = "written"
    BY WriteEnds
  <2> QED
    BY <2>1, FrameSet DEF BaseTypeOK
<1>4. Popped' = Popped /\ Popped \in Nat /\ WrittenLen = Popped /\ WrittenLen' = Popped + 1
  BY <1>1, <1>3 DEF Popped, QueueIsSuffix, WrittenLen
<1>5. bufs[1] = accepted[Popped + 1] /\ Popped + 1 <= Len(accepted)
  BY <1>2, BaseLengths DEF QueueIsSuffix, Popped
<1> QED
  BY <1>2, <1>4, <1>5 DEF QueueIsSuffix

LEMMA WriteFailsStream ==
  ASSUME BaseTypeOK, QueueIsSuffix, NEW i \in DOMAIN coros,
         coros[i].pc = "writing", coros' = [coros EXCEPT ![i].pc = "failed"],
         UNCHANGED <<bufs, accepted>>
  PROVE  QueueIsSuffix' /\ WrittenLen' = WrittenLen
<1>1. PICK f \in Frame : coros' = [coros EXCEPT ![i] = f] /\ f.pc = "failed"
  BY WriteEnds
<1> QED
  BY <1>1, FrameSetStream DEF BaseTypeOK

LEMMA CaughtStream ==
  ASSUME BaseTypeOK, QueueIsSuffix, NEW i \in DOMAIN coros, coros[i].pc = "failed",
         coros' = [coros EXCEPT ![i] = Returned], UNCHANGED <<bufs, accepted>>
  PROVE  QueueIsSuffix' /\ WrittenLen' = WrittenLen
BY FrameSetStream, FrameTypes, FramePcs DEF BaseTypeOK

LEMMA StartStream ==
  ASSUME BaseTypeOK, QueueIsSuffix, coros' = StartSend(coros),
         UNCHANGED <<bufs, accepted>>
  PROVE  QueueIsSuffix' /\ WrittenLen' = WrittenLen
<1>1. (\E i \in DOMAIN coros : coros[i].pc = "written")
        <=> (\E i \in DOMAIN coros' : coros'[i].pc = "written")
  BY FrameAdded, FramePcs DEF BaseTypeOK, StartSend
<1> QED
  BY <1>1, StreamUntouched

(* What a relay has recorded as written still is after a step that writes  *)
(* nothing ...                                                             *)
LEMMA RecordKept ==
  ASSUME BaseTypeOK, OneWriter, QueueIsSuffix, NEW w, IsWritten(w),
         WrittenLen' = WrittenLen,
         accepted' = accepted \/ \E d \in Data : accepted' = Append(accepted, d)
  PROVE  /\ Len(w) = WrittenLen'
         /\ \A k \in 1 .. Len(w) : w[k] = accepted'[k]
<1>1. WrittenLen \in Nat /\ WrittenLen <= Len(accepted)
  BY WrittenWasAccepted
<1>2. \A k \in 1 .. Len(accepted) : accepted'[k] = accepted[k]
  BY AppendProperties DEF BaseTypeOK
<1>3. \A k \in 1 .. WrittenLen : k \in 1 .. Len(accepted)
  BY <1>1, BaseLengths
<1> QED
  BY <1>2, <1>3 DEF IsWritten

(* ... and with the buffer that is written is again.                       *)
LEMMA RecordGrows ==
  ASSUME NEW w \in Seq(Data), IsWritten(w), NEW b \in Data,
         WrittenLen' = WrittenLen + 1, b = accepted[WrittenLen + 1], UNCHANGED accepted
  PROVE  /\ Append(w, b) \in Seq(Data)
         /\ Len(Append(w, b)) = WrittenLen'
         /\ \A k \in 1 .. Len(Append(w, b)) : Append(w, b)[k] = accepted'[k]
<1>1. /\ Append(w, b) \in Seq(Data)
      /\ Len(Append(w, b)) = Len(w) + 1
      /\ \A k \in 1 .. Len(w) : Append(w, b)[k] = w[k]
      /\ Append(w, b)[Len(w) + 1] = b
  BY AppendProperties
<1> QED
  BY <1>1, LenProperties DEF IsWritten

-----------------------------------------------------------------------------
(* The buffers given to the relay (g) begin with those accepted (a), and   *)
(* the handlers up to the first that is not a send (q) carry the ones that *)
(* follow.  That is so as long as send_data takes every buffer.            *)
OnlySends(q, n) == \A j \in 1 .. n : q[j].run = "send"
Carries(q, a, g) ==
  /\ Len(a) <= Len(g)
  /\ \A k \in 1 .. Len(a) : a[k] = g[k]
  /\ \A k \in 1 .. Len(q) : OnlySends(q, k) =>
       Len(a) + k <= Len(g) /\ q[k].buf = g[Len(a) + k]
  /\ OnlySends(q, Len(q)) => Len(g) = Len(a) + Len(q)

(* A buffer is given and its handler posted, ...                           *)
LEMMA CarriesGiven ==
  ASSUME NEW H, NEW q \in Seq(H), NEW a \in Seq(Data), NEW g \in Seq(Data),
         NEW d \in Data, NEW s \in H, s.run = "send", s.buf = d, Carries(q, a, g)
  PROVE  Carries(Append(q, s), a, Append(g, d))
<1> DEFINE p == Append(q, s)
           h == Append(g, d)
<1>0. Len(q) \in Nat /\ Len(a) \in Nat /\ Len(g) \in Nat
  BY LenProperties
<1>1. /\ Len(p) = Len(q) + 1
      /\ \A k \in 1 .. Len(q) : p[k] = q[k]
      /\ p[Len(q) + 1] = s
  BY AppendProperties
<1>2. /\ Len(h) = Len(g) + 1
      /\ \A k \in 1 .. Len(g) : h[k] = g[k]
      /\ h[Len(g) + 1] = d
  BY AppendProperties
<1>3. /\ Len(a) <= Len(h)
      /\ \A k \in 1 .. Len(a) : a[k] = h[k]
  BY <1>0, <1>2 DEF Carries
<1>4. \A k \in 1 .. Len(q) : OnlySends(p, k) <=> OnlySends(q, k)
  BY <1>0, <1>1 DEF OnlySends
<1>5. ASSUME OnlySends(p, Len(p))
      PROVE  Len(g) = Len(a) + Len(q) /\ Len(h) = Len(a) + Len(p)
  <2>1. OnlySends(q, Len(q))
    BY <1>0, <1>1, <1>5 DEF OnlySends
  <2> QED
    BY <2>1, <1>0, <1>1, <1>2 DEF Carries
<1>6. ASSUME NEW k \in 1 .. Len(p), OnlySends(p, k)
      PROVE  Len(a) + k <= Len(h) /\ p[k].buf = h[Len(a) + k]
  <2>1. CASE k = Len(p)
    BY <2>1, <1>0, <1>1, <1>2, <1>5, <1>6
  <2>2. CASE k \in 1 .. Len(q)
    <3>1. Len(a) + k <= Len(g) /\ q[k].buf = g[Len(a) + k]
      BY <2>2, <1>4, <1>6 DEF Carries
    <3>2. Len(a) + k \in 1 .. Len(g)
      BY <3>1, <2>2, <1>0
    <3> QED
      BY <3>1, <3>2, <2>2, <1>0, <1>1, <1>2
  <2> QED
    BY <2>1, <2>2, <1>0, <1>1
<1> HIDE DEF p, h
<1>7. Carries(p, a, h)
  BY <1>3, <1>5, <1>6 DEF Carries
<1> QED
  BY <1>7 DEF p, h

(* ... a stop is posted, ...                                               *)
LEMMA CarriesStop ==
  ASSUME NEW H, NEW q \in Seq(H), NEW a \in Seq(Data), NEW g \in Seq(Data),
         NEW s \in H, s.run # "send", Carries(q, a, g)
  PROVE  Carries(Append(q, s), a, g)
<1> DEFINE p == Append(q, s)
<1>0. Len(q) \in Nat /\ Len(a) \in Nat /\ Len(g) \in Nat
  BY LenProperties
<1>1. /\ Len(p) = Len(q) + 1
      /\ \A k \in 1 .. Len(q) : p[k] = q[k]
      /\ p[Len(q) + 1] = s
  BY AppendProperties
<1>2. ~ OnlySends(p, Len(p))
  BY <1>0, <1>1 DEF OnlySends
<1>3. \A k \in 1 .. Len(q) : OnlySends(p, k) <=> OnlySends(q, k)
  BY <1>0, <1>1 DEF OnlySends
<1>4. ASSUME NEW k \in 1 .. Len(p), OnlySends(p, k)
      PROVE  Len(a) + k <= Len(g) /\ p[k].buf = g[Len(a) + k]
  <2>1. k \in 1 .. Len(q)
    BY <1>0, <1>1, <1>2, <1>4
  <2> QED
    BY <2>1, <1>1, <1>3, <1>4 DEF Carries
<1> HIDE DEF p
<1>5. Carries(p, a, g)
  BY <1>2, <1>4 DEF Carries
<1> QED
  BY <1>5 DEF p

(* ... or the first handler pushes its buffer.                             *)
LEMMA CarriesAccepted ==
  ASSUME NEW H, NEW q \in Seq(H), NEW a \in Seq(Data), NEW g \in Seq(Data),
         q # <<>>, Head(q).run = "send", Head(q).buf \in Data, Carries(q, a, g)
  PROVE  Carries(Tail(q), Append(a, Head(q).buf), g)
<1> DEFINE p == Tail(q)
           d == Head(q).buf
           b == Append(a, d)
<1>0. /\ Len(q) \in Nat /\ Len(a) \in Nat /\ Len(g) \in Nat /\ Len(q) # 0
      /\ d \in Data
  BY LenProperties, EmptySeq
<1>1. /\ Len(p) = Len(q) - 1 /\ Head(q) = q[1]
      /\ \A k \in 1 .. Len(p) : p[k] = q[k + 1]
  BY HeadTailProperties
<1>2. /\ Len(b) = Len(a) + 1
      /\ \A k \in 1 .. Len(a) : b[k] = a[k]
      /\ b[Len(a) + 1] = d
  BY <1>0, AppendProperties
<1>3. Len(a) + 1 <= Len(g) /\ d = g[Len(a) + 1]
  <2>1. OnlySends(q, 1) /\ 1 \in 1 .. Len(q)
    BY <1>0, <1>1 DEF OnlySends
  <2> QED
    BY <2>1, <1>1 DEF Carries
<1>4. /\ Len(b) <= Len(g)
      /\ \A k \in 1 .. Len(b) : b[k] = g[k]
  BY <1>0, <1>2, <1>3 DEF Carries
<1>5. ASSUME NEW k \in 0 .. Len(p), OnlySends(p, k) PROVE OnlySends(q, k + 1)
  <2> SUFFICES ASSUME NEW j \in 1 .. k + 1 PROVE q[j].run = "send"
    BY DEF OnlySends
  <2>1. CASE j = 1
    BY <2>1, <1>1
  <2>2. CASE j # 1
    <3>1. j - 1 \in 1 .. k /\ j - 1 \in 1 .. Len(p) /\ (j - 1) + 1 = j
      BY <2>2, <1>0, <1>1
    <3> QED
      BY <3>1, <1>1, <1>5 DEF OnlySends
  <2> QED
    BY <2>1, <2>2
<1>6. ASSUME NEW k \in 1 .. Len(p), OnlySends(p, k)
      PROVE  Len(b) + k <= Len(g) /\ p[k].buf = g[Len(b) + k]
  <2>1. k \in 0 .. Len(p) /\ k + 1 \in 1 .. Len(q)
    BY <1>0, <1>1
  <2>2. Len(a) + (k + 1) <= Len(g) /\ q[k + 1].buf = g[Len(a) + (k + 1)]
    BY <2>1, <1>5, <1>6 DEF Carries
  <2>3. Len(b) + k = Len(a) + (k + 1)
    BY <1>0, <1>2
  <2> QED
    BY <2>2, <2>3, <1>1
<1>7. ASSUME OnlySends(p, Len(p)) PROVE Len(g) = Len(b) + Len(p)
  <2>1. Len(p) \in 0 .. Len(p) /\ Len(p) + 1 = Len(q)
    BY <1>0, <1>1
  <2>2. OnlySends(q, Len(q))
    BY <2>1, <1>5, <1>7
  <2>3. Len(g) = Len(a) + Len(q)
    BY <2>2 DEF Carries
  <2> QED
    BY <2>1, <2>3, <1>0, <1>2
<1> HIDE DEF p, b
<1>8. Carries(p, b, g)
  BY <1>4, <1>6, <1>7 DEF Carries
<1> QED
  BY <1>8 DEF p, b
=============================================================================
