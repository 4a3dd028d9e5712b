------------------------ MODULE MqStreamPipe_proofs ------------------------
(***************************************************************************)
(* For any queue, messages and numbers of calls: thread U and thread W of a*)
(* message-queue stream pass the queue handle to and fro, and no wake-up is*)
(* lost; and the stream implements MessagePipe.                            *)
(*                                                                         *)
(* The two properties speak of a moment between calls, or of one thing     *)
(* about to be done.  WaitInv adds what holds at each point of a call, and *)
(* that W is never interrupted while its object lives.                     *)
(*                                                                         *)
(* TransferInv looks at the payloads under way as one line: those in the   *)
(* queue, then those queued in the sender, then those of the call that is  *)
(* writing.  As long as the receiver reads, its messages continue what was *)
(* received, each escape is followed by its number, and the end of sending *)
(* comes last.                                                             *)
(***************************************************************************)
EXTENDS MqStreamPipe, SequenceTheorems, TLAPS

Phases == {"alive", "joining", "gone"}
Number(b) == IF b THEN 1 ELSE 0

SndWaitTypes ==
  /\ nativeHandle \in BOOLEAN
  /\ sndQ \in Seq(MqPayload) /\ sndCur \in MqPayload /\ sndRest \in Seq(MqPayload)
  /\ sndErr \in BOOLEAN /\ sndEvWait \in BOOLEAN /\ sndIntr \in BOOLEAN
  /\ sndW \in {"idle", "waiting"} /\ sndReady \in Nat
  /\ sndPhase \in Phases /\ sndPc \in {"idle", "write", "flush", "ret"}

RcvWaitTypes ==
  /\ rcvPending \in BOOLEAN /\ rcvEvWait \in BOOLEAN /\ rcvIntr \in BOOLEAN
  /\ rcvW \in {"idle", "waiting"} /\ rcvReady \in Nat
  /\ rcvPhase \in Phases /\ rcvPc \in {"idle", "read", "done"}

(* While W waits, or its byte is unread, the event loop waits for its pipe;*)
(* it waits for W, or for the queue, as long as something is queued, but   *)
(* while the handler takes from the queue.                                 *)
SndWaitControl ==
  sndPhase = "alive" =>
    /\ ~sndIntr
    /\ sndW = "waiting" => sndEvWait /\ ~nativeHandle
    /\ ~nativeHandle => Number(sndEvWait) = sndReady + Number(sndW = "waiting")
    /\ sndPc # "flush" => (sndEvWait <=> sndQ # <<>> /\ ~sndErr)
    /\ sndPc = "flush" => ~sndEvWait /\ sndQ # <<>> /\ ~sndErr
    /\ sndPc = "write" => ~sndErr

(* The same of the receiver: nobody waits while a call reads.              *)
RcvWaitControl ==
  rcvPhase = "alive" =>
    /\ ~rcvIntr
    /\ rcvW = "waiting" => rcvEvWait /\ ~nativeHandle
    /\ ~nativeHandle => Number(rcvEvWait) = rcvReady + Number(rcvW = "waiting")
    /\ rcvPc # "idle" => ~rcvEvWait /\ rcvPending
    /\ rcvPc = "read" => ~RcvOver
    /\ rcvPc = "idle" => (rcvPending <=> rcvEvWait /\ ~RcvOver)

(* Before start_send_blob_ops() nothing runs, and nothing went wrong.       *)
StartedControl == ~sndStarted => sndPc = "idle" /\ ~sndErr /\ ~sndEvWait /\ ~pingEvWait

SndWaitInv == SndWaitTypes /\ SndWaitControl
RcvWaitInv == RcvWaitTypes /\ RcvWaitControl
WaitInv == StartedControl /\ SndWaitInv /\ RcvWaitInv

-----------------------------------------------------------------------------
(* What is written is a low-level payload.                                 *)
LEMMA PayloadTypes ==
  /\ Escape \in MqPayload /\ <<>> \in Seq(MqPayload)
  /\ <<Command(-1)>> \in Seq(MqPayload)
  /\ <<Command(S_END_SENDING)>> \in Seq(MqPayload)
  /\ <<Command(S_PING)>> \in Seq(MqPayload)
  /\ \A m \in Message : UserMsg(m) \in MqPayload
<1>1. Command(-1) \in MqPayload /\ Command(S_END_SENDING) \in MqPayload /\ Command(S_PING) \in MqPayload
  BY DEF MqPayload
<1>2. Escape \in MqPayload /\ \A m \in Message : UserMsg(m) \in MqPayload
  BY DEF MqPayload
<1> QED
  BY <1>1, <1>2

(* Nobody waits at first.                                                  *)
LEMMA InitWait == PipeInit => WaitInv
<1> SUFFICES ASSUME PipeInit PROVE WaitInv
  OBVIOUS
<1> USE DEF PipeInit, MqInit, SndInit, RcvInit, Phases, Number
<1>1. SndWaitTypes
  BY PayloadTypes DEF SndWaitTypes
<1>2. RcvWaitTypes
  BY DEF RcvWaitTypes
<1>3. SndWaitControl
  BY DEF SndWaitControl
<1>4. RcvWaitControl
  BY DEF RcvWaitControl, RcvOver
<1> QED
  BY <1>1, <1>2, <1>3, <1>4 DEF WaitInv, SndWaitInv, RcvWaitInv, StartedControl

-----------------------------------------------------------------------------
(* The sender.                                                             *)

(* A call begins, between calls.                                           *)
LEMMA SndUserWait == StartedControl /\ SndWaitInv /\ SndUser => SndWaitInv'
<1> SUFFICES ASSUME StartedControl, SndWaitInv, SndUser PROVE SndWaitInv'
  OBVIOUS
<1> USE PayloadTypes DEF SndWaitInv, SndWaitTypes, SndWaitControl, SndIdle, sndWaitVars, mqVars,
      sndCallVars, WriteCtlCmd, Write
<1>1. CASE StartSendBlobOps
  <2>1. sndCur' = Escape /\ sndRest' = <<Command(-1)>>
    BY <1>1, Zenon DEF StartSendBlobOps
  <2>2. sndCur' \in MqPayload /\ sndRest' \in Seq(MqPayload)
    BY <2>1, Zenon
  <2>3. sndPc = "idle" /\ sndPc' = "write" /\ ~sndErr
        /\ UNCHANGED <<nativeHandle, sndQ, sndErr, sndEvWait, sndW, sndReady, sndIntr, sndPhase>>
    BY <1>1 DEF StartSendBlobOps, StartedControl
  <2>4. SndWaitTypes'
    BY <2>2, <2>3
  <2>5. SndWaitControl'
    BY <2>2, <2>3
  <2> QED
    BY <2>4, <2>5
<1>2. CASE AutoPing
  BY <1>2 DEF AutoPing
<1>3. ASSUME NEW m \in Message, SendBlob(m) PROVE SndWaitInv'
  BY <1>3 DEF SendBlob
<1>4. ASSUME NEW op, EndSending(op) PROVE SndWaitInv'
  BY <1>4 DEF EndSending
<1> QED
  BY <1>1, <1>2, <1>3, <1>4 DEF SndUser

(* Every step of a call, every wait, comes after the start.                *)
LEMMA NextStarted == StartedControl /\ [SndNext]_sndVars => StartedControl'
<1> SUFFICES ASSUME StartedControl, [SndNext]_sndVars, ~sndStarted' PROVE StartedControl'
  BY DEF StartedControl
<1> USE DEF StartedControl, sndWaitVars, pingVars, sndCallVars
<1>1. CASE SndUser
  BY <1>1 DEF SndUser, StartSendBlobOps, SendBlob, AutoPing, EndSending
<1>2. CASE SndSteps
  BY <1>2 DEF SndSteps, SyncWrite, QueuePayload, FlushHead, ReturnStart, ReturnSend, ReturnEnd,
              ReturnPing, ReturnFlush, SndReturns, sndReturnFrame
<1>3. CASE SndEvents
  BY <1>3 DEF SndEvents, OnEvAutoPingNowTimerFired, OnEvMqSendable
<1>4. CASE SndThreads
  BY <1>4 DEF SndThreads, WaitSendableReturns, WaitSendableFails, WaitSendableEnds,
              WaitSendableInterrupted, sndNoWorkerVars, PingTimerExpires, PingTimerSignals,
              sndNoTimerVars
<1>5. CASE SndEnd
  BY <1>5 DEF SndEnd, SndDtor, SndDtorReturns, SndProcessEnds, SndGone
<1>6. CASE UNCHANGED sndVars
  BY <1>6 DEF sndVars
<1> QED
  BY <1>1, <1>2, <1>3, <1>4, <1>5, <1>6 DEF SndNext

(* A handler begins; that of the queue has the wait behind it.             *)
LEMMA SndEventWait == SndWaitInv /\ SndEvents => SndWaitInv'
<1> SUFFICES ASSUME SndWaitInv, SndEvents PROVE SndWaitInv'
  OBVIOUS
<1> USE PayloadTypes DEF SndWaitInv, SndWaitTypes, SndWaitControl, SndIdle, mqVars, Number
<1>1. CASE OnEvAutoPingNowTimerFired
  BY <1>1 DEF OnEvAutoPingNowTimerFired, sndWaitVars, sndCallVars, WriteCtlCmd, Write
<1>2. CASE OnEvMqSendable
  <2>1. sndPhase = "alive" /\ sndPc = "idle" /\ sndEvWait /\ sndEvWait' = FALSE /\ sndPc' = "flush"
        /\ UNCHANGED <<nativeHandle, sndQ, sndErr, sndW, sndIntr, sndPhase, sndCur, sndRest>>
    BY <1>2 DEF OnEvMqSendable
  <2>2. CASE nativeHandle
    <3>1. UNCHANGED sndReady
      BY <1>2, <2>2 DEF OnEvMqSendable
    <3>2. sndW # "waiting"
      BY <2>1, <2>2
    <3> QED
      BY <2>1, <2>2, <3>1, <3>2
  <2>3. CASE ~nativeHandle
    <3>1. sndReady > 0 /\ sndReady' = sndReady - 1
      BY <1>2, <2>3 DEF OnEvMqSendable
    <3>2. sndReady = 1 /\ sndW = "idle"
      BY <2>1, <2>3, <3>1
    <3>3. sndReady' = 0 /\ sndW' = "idle" /\ ~sndIntr'
      BY <2>1, <3>1, <3>2
    <3>4. SndWaitTypes'
      BY <2>1, <3>3
    <3>5. Number(sndEvWait') = sndReady' + Number(sndW' = "waiting")
      BY <2>1, <3>3
    <3>6. SndWaitControl'
      BY <2>1, <3>3, <3>5
    <3> QED
      BY <3>4, <3>6
  <2> QED
    BY <2>2, <2>3
<1> QED
  BY <1>1, <1>2 DEF SndEvents

(* The next step of a call, in any case, has a payload to write.           *)
LEMMA GoOnSteps ==
  ASSUME SndWaitTypes, NEW dropped \in BOOLEAN, sndErr' \in BOOLEAN, GoOn(dropped)
  PROVE  /\ sndPc' \in {"write", "ret"} /\ (sndPc' = "write" => ~sndErr')
         /\ sndCur' \in MqPayload /\ sndRest' \in Seq(MqPayload)
<1>1. CASE sndRest = <<>> \/ dropped \/ sndErr'
  BY <1>1 DEF GoOn, SndWaitTypes
<1>2. CASE ~(sndRest = <<>> \/ dropped \/ sndErr')
  <2>1. Head(sndRest) \in MqPayload /\ Tail(sndRest) \in Seq(MqPayload)
    BY <1>2 DEF SndWaitTypes
  <2> QED
    BY <1>2, <2>1 DEF GoOn
<1> QED
  BY <1>1, <1>2

(* A payload not sent is dropped, or queued with someone waiting.          *)
LEMMA NotSentWait ==
  ASSUME SndWaitInv, sndPhase = "alive", sndPc = "write", NotSent,
         UNCHANGED <<nativeHandle, sndErr, sndReady, sndIntr, sndPhase>>
  PROVE  SndWaitInv'
<1> USE DEF SndWaitInv, SndWaitTypes, SndWaitControl, Number
<1>1. CASE AvoidQing
  <2>1. GoOn(TRUE) /\ UNCHANGED <<sndQ, sndEvWait, sndW>>
    BY <1>1 DEF NotSent
  <2> QED
    BY <2>1, GoOnSteps
<1>2. CASE ~AvoidQing
  <2>1. GoOn(FALSE) /\ sndQ' = Append(sndQ, sndCur)
    BY <1>2 DEF NotSent
  <2>2. sndQ' \in Seq(MqPayload) /\ sndQ' # <<>>
    BY <2>1
  <2>3. CASE sndQ = <<>>
    <3>1. ~sndEvWait /\ sndEvWait' = TRUE /\ sndW' = IF nativeHandle THEN sndW ELSE "waiting"
      BY <1>2, <2>3 DEF NotSent, AsyncWriteQHead, AskWorker
    <3>2. ~nativeHandle => sndReady = 0
      BY <3>1
    <3>3. SndWaitTypes'
      BY <2>1, <2>2, <3>1, GoOnSteps
    <3>4. ~nativeHandle => Number(sndEvWait') = sndReady' + Number(sndW' = "waiting")
      BY <3>1, <3>2
    <3>5. sndPc' \in {"write", "ret"} /\ (sndPc' = "write" => ~sndErr')
      BY <2>1, GoOnSteps
    <3>6. SndWaitControl'
      BY <2>2, <3>1, <3>4, <3>5
    <3> QED
      BY <3>3, <3>6
  <2>4. CASE sndQ # <<>>
    <3>1. UNCHANGED <<sndEvWait, sndW>>
      BY <1>2, <2>4 DEF NotSent
    <3> QED
      BY <2>1, <2>2, <2>4, <3>1, GoOnSteps
  <2> QED
    BY <2>3, <2>4
<1> QED
  BY <1>1, <1>2

(* A step of a call or handler.                                            *)
LEMMA SndStepWait == SndWaitInv /\ SndSteps => SndWaitInv'
<1> SUFFICES ASSUME SndWaitInv, SndSteps PROVE SndWaitInv'
  OBVIOUS
<1>0. sndPhase = "alive"
  BY DEF SndSteps
<1> USE <1>0
<1>1. CASE SyncWrite
  <2>1. sndPc = "write" /\ sndQ = <<>>
        /\ UNCHANGED <<nativeHandle, sndReady, sndIntr, sndPhase>>
    BY <1>1 DEF SyncWrite, BehindOthers
  <2>2. CASE (TrySend(sndCur) \/ TrySendFails) /\ GoOn(FALSE) /\ UNCHANGED <<sndQ, sndEvWait, sndW>>
    <3>1. sndErr' \in BOOLEAN
      BY <2>2 DEF TrySend, TrySendFails, SndWaitInv, SndWaitTypes
    <3> QED
      BY <2>1, <2>2, <3>1, GoOnSteps DEF SndWaitInv, SndWaitTypes, SndWaitControl, Number
  <2>3. CASE TrySendWouldBlock /\ NotSent
    BY <2>1, <2>3, NotSentWait DEF TrySendWouldBlock
  <2> QED
    BY <1>1, <2>2, <2>3 DEF SyncWrite
<1>2. CASE QueuePayload
  BY <1>2, NotSentWait DEF QueuePayload, mqVars
<1>3. CASE FlushHead
  <2> USE DEF SndWaitInv, SndWaitTypes, SndWaitControl, Number
  <2>1. UNCHANGED <<nativeHandle, sndReady, sndIntr, sndPhase, sndCur, sndRest>>
        /\ sndPc = "flush" /\ ~sndEvWait /\ sndQ # <<>> /\ ~sndErr
    BY <1>3 DEF FlushHead
  <2>2. Tail(sndQ) \in Seq(MqPayload)
    BY <2>1
  <2>3. CASE /\ TrySend(Head(sndQ))
             /\ sndQ' = Tail(sndQ)
             /\ sndPc' = IF Tail(sndQ) = <<>> THEN "ret" ELSE "flush"
             /\ UNCHANGED <<sndEvWait, sndW>>
    BY <2>1, <2>2, <2>3 DEF TrySend
  <2>4. CASE TrySendFails /\ sndPc' = "ret" /\ UNCHANGED <<sndQ, sndEvWait, sndW>>
    BY <2>1, <2>4 DEF TrySendFails
  <2>5. CASE TrySendWouldBlock /\ sndPc' = "ret" /\ AsyncWriteQHead /\ UNCHANGED sndQ
    BY <2>1, <2>5 DEF TrySendWouldBlock, AsyncWriteQHead, AskWorker
  <2> QED
    BY <1>3, <2>3, <2>4, <2>5 DEF FlushHead
<1>4. CASE ReturnStart \/ ReturnSend \/ ReturnEnd \/ ReturnPing \/ ReturnFlush
  <2>1. sndPc = "ret" /\ CallEnds /\ UNCHANGED sndReturnFrame
    BY <1>4 DEF ReturnStart, ReturnSend, ReturnEnd, ReturnPing, ReturnFlush, SndReturns,
                sndReturnFrame
  <2> QED
    BY <2>1, PayloadTypes
       DEF CallEnds, sndReturnFrame, mqVars, sndWaitVars, SndWaitInv, SndWaitTypes, SndWaitControl
<1> QED
  BY <1>1, <1>2, <1>3, <1>4 DEF SndSteps

(* Thread W wakes the event loop exactly once.                             *)
LEMMA SndThreadWait == SndWaitInv /\ SndThreads => SndWaitInv'
<1> SUFFICES ASSUME SndWaitInv, SndThreads PROVE SndWaitInv'
  OBVIOUS
<1> USE DEF SndWaitInv, SndWaitTypes, SndWaitControl, Number
<1>1. CASE WaitSendableReturns \/ WaitSendableFails
  BY <1>1 DEF WaitSendableReturns, WaitSendableFails, WaitSendableEnds, sndNoWorkerVars, mqVars,
              sndCallVars
<1>2. CASE WaitSendableInterrupted
  BY <1>2 DEF WaitSendableInterrupted, sndNoWorkerVars, mqVars, sndCallVars
<1>3. CASE PingTimerExpires \/ PingTimerSignals
  BY <1>3 DEF PingTimerExpires, PingTimerSignals, sndNoTimerVars, mqVars, sndWaitVars, sndCallVars
<1> QED
  BY <1>1, <1>2, <1>3 DEF SndThreads

(* The sender or its process ends.                                         *)
LEMMA SndEndWait == SndWaitInv /\ SndEnd => SndWaitInv'
<1> SUFFICES ASSUME SndWaitInv, SndEnd PROVE SndWaitInv'
  OBVIOUS
<1> USE DEF SndWaitInv, SndWaitTypes, SndWaitControl, mqVars, Phases
<1>1. CASE SndDtor
  BY <1>1 DEF SndDtor, InterruptSends, sndCallVars
<1>2. CASE SndGone
  BY <1>2, PayloadTypes DEF SndGone
<1> QED
  BY <1>1, <1>2 DEF SndEnd, SndDtorReturns, SndProcessEnds

-----------------------------------------------------------------------------
(* The receiver.                                                           *)

(* A call or handler begins.                                               *)
LEMMA RcvCallWait == RcvWaitInv /\ (RcvUser \/ RcvEvents) => RcvWaitInv'
<1> SUFFICES ASSUME RcvWaitInv, RcvUser \/ RcvEvents PROVE RcvWaitInv'
  OBVIOUS
<1> USE DEF RcvWaitInv, RcvWaitTypes, RcvWaitControl, RcvIdle, RcvOver, mqVars
<1>1. CASE StartReceiveBlobOps
  BY <1>1 DEF StartReceiveBlobOps, rcvWaitVars, rcvCallVars
<1>2. CASE AsyncReceiveBlob
  BY <1>2 DEF AsyncReceiveBlob, rcvWaitVars
<1>3. CASE IdleTimerRun
  BY <1>3 DEF IdleTimerRun, rcvWaitVars, rcvCallVars
<1>4. CASE OnEvIdleTimerFired
  BY <1>4 DEF OnEvIdleTimerFired, CompletePending, RcvNoError, rcvWaitVars, rcvCallVars
<1>5. CASE OnEvMqReceivable
  <2> USE DEF Number
  <2>1. rcvPhase = "alive" /\ rcvPc = "idle" /\ rcvEvWait /\ rcvEvWait' = FALSE
        /\ rcvPc' = (IF RcvOver THEN "idle" ELSE "read")
        /\ UNCHANGED <<nativeHandle, rcvPending, rcvErr, rcvW, rcvIntr, rcvPhase>>
    BY <1>5 DEF OnEvMqReceivable
  <2>2. CASE nativeHandle
    <3>1. UNCHANGED rcvReady
      BY <1>5, <2>2 DEF OnEvMqReceivable
    <3>2. rcvW # "waiting"
      BY <2>1, <2>2
    <3> QED
      BY <2>1, <2>2, <3>1, <3>2
  <2>3. CASE ~nativeHandle
    <3>1. rcvReady > 0 /\ rcvReady' = rcvReady - 1
      BY <1>5, <2>3 DEF OnEvMqReceivable
    <3>2. rcvReady = 1 /\ rcvW = "idle"
      BY <2>1, <2>3, <3>1
    <3>3. rcvReady' = 0 /\ rcvW' = "idle" /\ ~rcvIntr'
      BY <2>1, <3>1, <3>2
    <3>4. RcvWaitTypes'
      BY <2>1, <3>3
    <3>5. Number(rcvEvWait') = rcvReady' + Number(rcvW' = "waiting")
      BY <2>1, <3>3
    <3>6. RcvWaitControl'
      BY <2>1, <3>3, <3>5
    <3> QED
      BY <3>4, <3>6
  <2> QED
    BY <2>2, <2>3
<1> QED
  BY <1>1, <1>2, <1>3, <1>4, <1>5 DEF RcvUser, RcvEvents

(* One turn of read_msg(): it reads on, or has a result.                   *)
LEMMA TurnEnds ==
  ASSUME ReadPayload
  PROVE  (rcvPc' = "read" /\ UNCHANGED rcvErr) \/ rcvPc' = "done"
<1>1. ASSUME NEW ver, Negotiate(ver) PROVE (rcvPc' = "read" /\ UNCHANGED rcvErr) \/ rcvPc' = "done"
  BY <1>1 DEF Negotiate, GoAgain, Fails, Emit
<1>2. CASE rcvControl
  <2>1. OnControlCmd(Head(mq))
    BY <1>2 DEF ReadPayload
  <2> QED
    BY <2>1, <1>1 DEF OnControlCmd, GoAgain, Fails, Emit
<1>3. CASE ~rcvControl
  <2>1. OnPlainMsg(Head(mq))
    BY <1>3 DEF ReadPayload
  <2> QED
    BY <2>1, <1>1 DEF OnPlainMsg, GoAgain, Emit
<1> QED
  BY <1>2, <1>3

(* A step of a call or handler.                                            *)
LEMMA RcvStepWait == RcvWaitInv /\ RcvSteps => RcvWaitInv'
<1> SUFFICES ASSUME RcvWaitInv, RcvSteps PROVE RcvWaitInv'
  OBVIOUS
<1> USE DEF RcvWaitInv, RcvWaitTypes, RcvWaitControl, RcvOver, mqVars
<1>1. CASE ReadPayload
  BY <1>1, TurnEnds DEF ReadPayload, rcvWaitVars
<1>2. CASE ReadWouldBlock
  BY <1>2 DEF ReadWouldBlock, AskWorkerRcv, Number
<1>3. CASE ReadFails
  BY <1>3 DEF ReadFails, Fails, Emit, rcvWaitVars
<1>4. CASE ReportResult
  BY <1>4 DEF ReportResult, CompletePending, rcvWaitVars
<1> QED
  BY <1>1, <1>2, <1>3, <1>4 DEF RcvSteps

(* Thread W wakes the event loop exactly once.                             *)
LEMMA RcvThreadWait == RcvWaitInv /\ RcvThreads => RcvWaitInv'
<1> SUFFICES ASSUME RcvWaitInv, RcvThreads PROVE RcvWaitInv'
  OBVIOUS
<1> USE DEF RcvWaitInv, RcvWaitTypes, RcvWaitControl, RcvOver, Number, mqVars, rcvCallVars
<1>1. CASE WaitReceivableReturns \/ WaitReceivableFails
  BY <1>1 DEF WaitReceivableReturns, WaitReceivableFails, WaitReceivableEnds, rcvNoWorkerVars
<1>2. CASE WaitReceivableInterrupted
  BY <1>2 DEF WaitReceivableInterrupted, rcvNoWorkerVars
<1>3. CASE IdleTimerExpires \/ IdleTimerSignals
  BY <1>3 DEF IdleTimerExpires, IdleTimerSignals, rcvNoTimerVars, rcvWaitVars
<1> QED
  BY <1>1, <1>2, <1>3 DEF RcvThreads

(* The receiver or its process ends.                                       *)
LEMMA RcvEndWait == RcvWaitInv /\ RcvEnd => RcvWaitInv'
<1> SUFFICES ASSUME RcvWaitInv, RcvEnd PROVE RcvWaitInv'
  OBVIOUS
<1> USE DEF RcvWaitInv, RcvWaitTypes, RcvWaitControl, mqVars, Phases
<1>1. CASE RcvDtor
  BY <1>1 DEF RcvDtor, InterruptReceives, rcvCallVars
<1>2. CASE RcvGone
  BY <1>2 DEF RcvGone
<1> QED
  BY <1>1, <1>2 DEF RcvEnd, RcvDtorReturns, RcvProcessEnds

-----------------------------------------------------------------------------
(* The queue's kind stays, and no end touches the other's waits.           *)
LEMMA KindStays == [PipeNext]_pipeVars => UNCHANGED nativeHandle
<1>1. SndNext => UNCHANGED nativeHandle
  BY DEF SndNext, SndUser, SndSteps, SndEvents, SndThreads, SndEnd, StartSendBlobOps, AutoPing,
         SendBlob, EndSending, SyncWrite, QueuePayload, FlushHead, ReturnStart, ReturnSend,
         ReturnEnd, ReturnPing, ReturnFlush, sndReturnFrame, OnEvAutoPingNowTimerFired,
         OnEvMqSendable, WaitSendableReturns, WaitSendableFails, WaitSendableEnds,
         WaitSendableInterrupted, sndNoWorkerVars, PingTimerExpires, PingTimerSignals,
         sndNoTimerVars, SndDtor, SndDtorReturns, SndProcessEnds, SndGone, mqVars
<1>2. RcvNext => UNCHANGED nativeHandle
  BY DEF RcvNext, RcvUser, RcvSteps, RcvEvents, RcvThreads, RcvEnd, StartReceiveBlobOps,
         AsyncReceiveBlob, IdleTimerRun, ReadPayload, ReadWouldBlock, ReadFails, ReportResult,
         OnEvIdleTimerFired, OnEvMqReceivable, WaitReceivableReturns, WaitReceivableFails,
         WaitReceivableEnds, WaitReceivableInterrupted, rcvNoWorkerVars, IdleTimerExpires,
         IdleTimerSignals, rcvNoTimerVars, RcvDtor, RcvDtorReturns, RcvProcessEnds, RcvGone, mqVars
<1> QED
  BY <1>1, <1>2 DEF PipeNext, pipeVars, mqVars

(* What the sender does not touch keeps its part, and the other way round. *)
LEMMA SndStays == SndWaitInv /\ UNCHANGED <<nativeHandle, sndVars>> => SndWaitInv'
BY DEF SndWaitInv, SndWaitTypes, SndWaitControl, sndVars, sndWaitVars, sndCallVars

(* The same of the receiver.                                               *)
LEMMA RcvStays == RcvWaitInv /\ UNCHANGED <<nativeHandle, rcvVars>> => RcvWaitInv'
BY DEF RcvWaitInv, RcvWaitTypes, RcvWaitControl, RcvOver, rcvVars, rcvWaitVars, rcvCallVars

(* The invariant is inductive.                                             *)
LEMMA NextWait == WaitInv /\ [PipeNext]_pipeVars => WaitInv'
<1> SUFFICES ASSUME WaitInv, [PipeNext]_pipeVars PROVE WaitInv'
  OBVIOUS
<1> USE DEF WaitInv
<1>0. StartedControl'
  BY NextStarted DEF PipeNext, pipeVars
<1>1. CASE SndNext /\ UNCHANGED rcvVars
  <2>1. SndWaitInv'
    BY <1>1, SndUserWait, SndStepWait, SndEventWait, SndThreadWait, SndEndWait DEF SndNext
  <2> QED
    BY <1>0, <1>1, <2>1, KindStays, RcvStays
<1>2. CASE RcvNext /\ UNCHANGED sndVars
  <2>1. RcvWaitInv'
    BY <1>2, RcvCallWait, RcvStepWait, RcvThreadWait, RcvEndWait DEF RcvNext
  <2> QED
    BY <1>0, <1>2, <2>1, KindStays, SndStays
<1>3. CASE UNCHANGED pipeVars
  BY <1>0, <1>3, SndStays, RcvStays DEF pipeVars, mqVars
<1> QED
  BY <1>1, <1>2, <1>3 DEF PipeNext

(* The state of the waits of both ends (async_write_q_head_payload(), the  *)
(* handlers of the queue's wait, thread W).                                *)
THEOREM WaitInvariant == PipeSpec => []WaitInv
BY InitWait, NextWait, PTL DEF PipeSpec

(* While thread W blocks in the queue, thread U leaves the queue alone.    *)
THEOREM WorkerAlone == PipeSpec => []WorkerHasQueueAlone
<1>1. WaitInv => WorkerHasQueueAlone
  BY DEF WaitInv, SndWaitInv, RcvWaitInv, SndWaitControl, RcvWaitControl, WorkerHasQueueAlone,
         AboutToTrySend, BehindOthers
<1> QED
  BY <1>1, WaitInvariant, PTL

(* The event loop waits for W's pipe as long as W has something to say or  *)
(* has said it, and does so as long as there is something to wait for.     *)
THEOREM OneWakeup == PipeSpec => []OneWakeupPerWait
<1>1. WaitInv => OneWakeupPerWait
  BY DEF WaitInv, SndWaitInv, RcvWaitInv, SndWaitControl, RcvWaitControl, OneWakeupPerWait, Number
<1> QED
  BY <1>1, WaitInvariant, PTL


-----------------------------------------------------------------------------
(* What is under way to the receiver.                                      *)

(* The payloads under way, first to last: in the queue, queued in the      *)
(* sender, and those of the call that is writing.                          *)
InCall == IF sndPc = "write" THEN <<sndCur>> \o sndRest ELSE <<>>
Line == mq \o (sndQ \o InCall)

(* A call that failed to send its message is about to emit the error.      *)
Dropped == sndPc = "ret" /\ sndOp = "send" /\ sndErr
Kept == IF Dropped THEN Len(sent) - 1 ELSE Len(sent)

(* The messages taken from the queue, the one just read included.          *)
Taken == IF rcvPc = "done" THEN Len(got) + 1 ELSE Len(got)

(* A payload that comes next is the number that the escape announced.      *)
Escaped(line, ctl, k) == IF k = 0 THEN ctl ELSE line[k].kind = "escape"

(* rank[k] messages were sent up to the k-th payload of the line: each is  *)
(* the one of its rank, and nothing follows the end of sending.            *)
Ranked(line, ctl, taken, s, fin, rank) ==
  /\ rank \in [0 .. Len(line) -> Nat]
  /\ rank[0] = taken
  /\ \A i, j \in 0 .. Len(line) : i <= j => rank[i] <= rank[j]
  /\ \A k \in 1 .. Len(line) :
       /\ line[k].kind = "command" <=> Escaped(line, ctl, k - 1)
       /\ rank[k] = IF line[k].kind = "message" THEN rank[k - 1] + 1 ELSE rank[k - 1]
       /\ line[k].kind = "message" => line[k].val = s[rank[k]]
       /\ line[k] = Command(S_END_SENDING) => fin /\ rank[k] = Len(s)

(* The line carries the messages that are kept: all of them if it is full, *)
(* and no escape is its last payload if more may follow.                   *)
Carried(line, ctl, taken, s, fin, kept, full, open) ==
  \E rank \in [0 .. Len(line) -> Nat] :
    /\ Ranked(line, ctl, taken, s, fin, rank)
    /\ rank[Len(line)] <= kept
    /\ full => rank[Len(line)] = kept
    /\ open => ~Escaped(line, ctl, Len(line))

(* What the receiver will see, as long as it reads.                        *)
LineControl ==
  rcvPhase = "alive" /\ ~RcvOver =>
    /\ Carried(Line, rcvControl, Taken, sent, sndFinished, Kept,
               sndPhase # "gone", sndPhase = "alive" /\ ~sndErr)
    /\ rcvPc = "done" => rcvMsg.kind = "message" /\ rcvMsg.val = sent[Taken]

(* A call writes its message, or the two payloads of a command; and it     *)
(* sends no message after the end.                                         *)
CallControl ==
  /\ sndPc # "idle" => sndPhase = "alive"
  /\ sndPc = "flush" => sndOp = "flush"
  /\ sndPc # "idle" /\ sndOp = "send" => ~sndFinished
  /\ sndPc = "write" =>
       IF sndOp = "send"
         THEN sndRest = <<>> /\ sndCur.kind = "message"
         ELSE \/ sndCur = Escape /\ \E c \in MqPayload : c.kind = "command" /\ sndRest = <<c>>
              \/ sndCur.kind = "command" /\ sndRest = <<>>

(* A message is not received while its call may still withdraw it.         *)
OwnMessageAhead ==
  sndOp = "send" /\ (sndPc = "write" \/ Dropped) => Len(got) < Len(sent)

HistoryTypes ==
  /\ mq \in Seq(MqPayload) /\ sent \in Seq(Message) /\ got \in Seq(Message)
  /\ sndOp \in SndOps /\ sndFinished \in BOOLEAN /\ rcvControl \in BOOLEAN
  /\ rcvMsg \in MqPayload

TransferInv ==
  /\ HistoryTypes /\ CallControl /\ LineControl /\ OwnMessageAhead
  /\ Abstract!ReceivedIsPrefixOfSent

-----------------------------------------------------------------------------
(* Payloads, and lines of them.                                            *)

LEMMA PayloadKinds ==
  ASSUME NEW p \in MqPayload
  PROVE  /\ p.kind \in {"escape", "command", "message"}
         /\ p = Escape <=> p.kind = "escape"
         /\ p.kind = "command" => p = Command(p.val) /\ p.val \in {-1, S_END_SENDING, S_PING}
         /\ p.kind = "message" => p.val \in Message
<1>1. CASE p = Escape
  BY <1>1 DEF Escape
<1>2. ASSUME NEW raw \in {-1, S_END_SENDING, S_PING}, p = Command(raw)
      PROVE  p.kind = "command" /\ p.val = raw /\ p # Escape
  BY <1>2 DEF Command, Escape
<1>3. ASSUME NEW m \in Message, p = UserMsg(m)
      PROVE  p.kind = "message" /\ p.val = m /\ p # Escape
  BY <1>3 DEF UserMsg, Escape
<1>4. \/ p = Escape
      \/ \E raw \in {-1, S_END_SENDING, S_PING} : p = Command(raw)
      \/ \E m \in Message : p = UserMsg(m)
  BY DEF MqPayload
<1> QED
  BY <1>1, <1>2, <1>3, <1>4

(* A payload moves on in the line and changes nothing in it.               *)
LEMMA LineMoves ==
  ASSUME NEW S, NEW a \in Seq(S), NEW b \in Seq(S), NEW c \in Seq(S), NEW x \in S
  PROVE  /\ Append(a, x) \o c = a \o (<<x>> \o c)
         /\ a \o (Append(b, x) \o c) = a \o (b \o (<<x>> \o c))
         /\ b # <<>> => Append(a, Head(b)) \o (Tail(b) \o c) = a \o (b \o c)
<1>1. ASSUME NEW e \in Seq(S), NEW y \in S PROVE Append(e, y) \o c = e \o (<<y>> \o c)
  <2>1. Append(e, y) = e \o <<y>> /\ <<y>> \in Seq(S)
    BY AppendIsConcat
  <2> QED
    BY <2>1, ConcatAssociative
<1>2. ASSUME NEW d \in Seq(S), NEW y \in S PROVE Append(a, y) \o d = a \o (<<y>> \o d)
  <2>1. Append(a, y) = a \o <<y>> /\ <<y>> \in Seq(S)
    BY AppendIsConcat
  <2> QED
    BY <2>1, ConcatAssociative
<1>3. ASSUME b # <<>> PROVE Append(a, Head(b)) \o (Tail(b) \o c) = a \o (b \o c)
  <2>1. Head(b) \in S /\ Tail(b) \in Seq(S)
    BY <1>3
  <2>2. Tail(b) \o c \in Seq(S)
    BY <2>1, ConcatProperties
  <2>3. Append(a, Head(b)) \o (Tail(b) \o c) = a \o (<<Head(b)>> \o (Tail(b) \o c))
    BY <1>2, <2>1, <2>2
  <2>4. <<Head(b)>> \o Tail(b) = b /\ <<Head(b)>> \in Seq(S)
    BY <1>3, <2>1
  <2>5. <<Head(b)>> \o (Tail(b) \o c) = b \o c
    BY <2>1, <2>4, ConcatAssociative
  <2> QED
    BY <2>3, <2>5
<1> QED
  BY <1>1, <1>3

(* What is left of a history whose last message is withdrawn.             *)
LEMMA LastCut ==
  ASSUME NEW S, NEW s \in Seq(S), Len(s) >= 1
  PROVE  /\ SubSeq(s, 1, Len(s) - 1) \in Seq(S)
         /\ Len(SubSeq(s, 1, Len(s) - 1)) = Len(s) - 1
         /\ \A i \in 1 .. Len(s) - 1 : SubSeq(s, 1, Len(s) - 1)[i] = s[i]
<1> DEFINE n == Len(s) - 1
<1>1. n \in Nat /\ 1 \in Int /\ \A i \in 1 .. n : s[i] \in S
  OBVIOUS
<1> HIDE DEF n
<1>2. /\ SubSeq(s, 1, n) \in Seq(S)
      /\ Len(SubSeq(s, 1, n)) = IF 1 <= n THEN n - 1 + 1 ELSE 0
      /\ \A i \in 1 .. n - 1 + 1 : SubSeq(s, 1, n)[i] = s[1 + i - 1]
  BY <1>1, SubSeqProperties
<1>3. /\ n - 1 + 1 = n /\ (~(1 <= n) => n = 0)
      /\ \A i \in 1 .. n : 1 + i - 1 = i
  BY <1>1
<1> QED
  BY <1>2, <1>3 DEF n

(* A line grows at the end, and is read at the beginning.                  *)
LEMMA LineEnds ==
  ASSUME NEW S, NEW a \in Seq(S), NEW b \in Seq(S), NEW c \in Seq(S), NEW x \in S
  PROVE  /\ a \o (b \o (c \o <<x>>)) = Append(a \o (b \o c), x)
         /\ a \o (b \o <<>>) = a \o b
         /\ a # <<>> => a \o b # <<>> /\ (a \o b)[1] = Head(a) /\ Tail(a) \o b = Tail(a \o b)
<1>1. b \o c \in Seq(S) /\ <<x>> \in Seq(S) /\ a \o (b \o c) \in Seq(S) /\ a \o b \in Seq(S)
  BY ConcatProperties
<1>2. a \o (b \o (c \o <<x>>)) = Append(a \o (b \o c), x)
  <2>1. b \o (c \o <<x>>) = (b \o c) \o <<x>>
    BY <1>1, ConcatAssociative
  <2>2. a \o ((b \o c) \o <<x>>) = (a \o (b \o c)) \o <<x>>
    BY <1>1, ConcatAssociative
  <2> QED
    BY <1>1, <2>1, <2>2, AppendIsConcat
<1>3. a \o (b \o <<>>) = a \o b
  BY ConcatEmptySeq
<1>4. ASSUME a # <<>>
      PROVE  a \o b # <<>> /\ (a \o b)[1] = Head(a) /\ Tail(a) \o b = Tail(a \o b)
  <2>1. Tail(a) \in Seq(S) /\ Head(a) \in S /\ Len(a) >= 1 /\ Head(a) = a[1]
    BY <1>4
  <2>2. Len(a \o b) = Len(a) + Len(b) /\ (a \o b)[1] = a[1]
    BY <2>1, ConcatProperties
  <2>3. a \o b # <<>>
    BY <2>1, <2>2, <1>1
  <2>4. a = <<Head(a)>> \o Tail(a) /\ <<Head(a)>> \in Seq(S)
    BY <1>4, <2>1
  <2>5. a \o b = <<Head(a)>> \o (Tail(a) \o b)
    BY <2>1, <2>4, ConcatAssociative
  <2>6. Tail(a) \o b \in Seq(S)
    BY <2>1, ConcatProperties
  <2>7. Tail(<<Head(a)>> \o (Tail(a) \o b)) = Tail(a) \o b
    BY <2>1, <2>6
  <2> QED
    BY <2>1, <2>2, <2>3, <2>5, <2>7
<1> QED
  BY <1>2, <1>3, <1>4

-----------------------------------------------------------------------------
(* What a line carries.                                                    *)

LEMMA RankedBound ==
  ASSUME NEW line \in Seq(MqPayload), NEW ctl \in BOOLEAN, NEW taken, NEW s, NEW fin, NEW rank,
         Ranked(line, ctl, taken, s, fin, rank)
  PROVE  /\ Len(line) \in Nat /\ taken \in Nat
         /\ \A k \in 0 .. Len(line) :
              rank[k] \in Nat /\ taken <= rank[k] /\ rank[k] <= rank[Len(line)]
<1> DEFINE n == Len(line)
<1>1. n \in Nat
  OBVIOUS
<1>2. /\ rank \in [0 .. n -> Nat] /\ rank[0] = taken
      /\ \A i, j \in 0 .. n : i <= j => rank[i] <= rank[j]
  BY DEF Ranked
<1>3. 0 \in 0 .. n /\ n \in 0 .. n /\ \A k \in 0 .. n : 0 <= k /\ k <= n
  BY <1>1
<1> HIDE DEF n
<1>4. taken \in Nat /\ \A k \in 0 .. n : rank[k] \in Nat /\ rank[0] <= rank[k] /\ rank[k] <= rank[n]
  BY <1>2, <1>3
<1> QED
  BY <1>1, <1>2, <1>4 DEF n

(* The history may change behind what the line carries, before the end.    *)
LEMMA RankedHistory ==
  ASSUME NEW line \in Seq(MqPayload), NEW ctl \in BOOLEAN, NEW taken, NEW s, NEW fin, NEW rank,
         Ranked(line, ctl, taken, s, fin, rank),
         NEW s2, NEW fin2, fin => fin2 /\ s2 = s,
         \A i \in 1 .. rank[Len(line)] : s2[i] = s[i]
  PROVE  Ranked(line, ctl, taken, s2, fin2, rank)
<1>1. ASSUME NEW k \in 1 .. Len(line), line[k].kind = "message"
      PROVE  line[k].val = s2[rank[k]]
  <2>1. rank[k] = rank[k - 1] + 1 /\ line[k].val = s[rank[k]]
    BY <1>1 DEF Ranked
  <2>2. k - 1 \in 0 .. Len(line) /\ k \in 0 .. Len(line) /\ Len(line) \in 0 .. Len(line)
    OBVIOUS
  <2>3. rank[k - 1] \in Nat /\ rank[k] \in Nat /\ rank[k] <= rank[Len(line)]
        /\ rank[Len(line)] \in Nat
    BY <2>2, RankedBound
  <2>4. rank[k] \in 1 .. rank[Len(line)]
    BY <2>1, <2>3
  <2> QED
    BY <2>1, <2>4
<1>2. \A k \in 1 .. Len(line) :
        line[k] = Command(S_END_SENDING) => fin2 /\ rank[k] = Len(s2)
  BY DEF Ranked
<1> QED
  BY <1>1, <1>2 DEF Ranked

(* A payload is put at the end of the line.                                *)
LEMMA RankedAppend ==
  ASSUME NEW line \in Seq(MqPayload), NEW ctl \in BOOLEAN, NEW taken, NEW s, NEW fin, NEW rank,
         Ranked(line, ctl, taken, s, fin, rank), NEW p \in MqPayload,
         p.kind = "command" <=> Escaped(line, ctl, Len(line)),
         p.kind = "message" => p.val = s[rank[Len(line)] + 1],
         p = Command(S_END_SENDING) => fin /\ rank[Len(line)] = Len(s)
  PROVE  \E r \in [0 .. Len(Append(line, p)) -> Nat] :
           /\ Ranked(Append(line, p), ctl, taken, s, fin, r)
           /\ r[Len(Append(line, p))] =
                IF p.kind = "message" THEN rank[Len(line)] + 1 ELSE rank[Len(line)]
<1> DEFINE n == Len(line)
           line2 == Append(line, p)
           last == IF p.kind = "message" THEN rank[n] + 1 ELSE rank[n]
           r == [k \in 0 .. n + 1 |-> IF k = n + 1 THEN last ELSE rank[k]]
<1>1. /\ n \in Nat /\ Len(line2) = n + 1 /\ line2[n + 1] = p
      /\ \A k \in 1 .. n : line2[k] = line[k]
  OBVIOUS
<1>2. /\ rank[n] \in Nat
      /\ \A k \in 0 .. n : rank[k] \in Nat /\ rank[k] <= rank[n]
  BY <1>1, RankedBound
<1>3. last \in Nat /\ last >= rank[n]
  BY <1>2
<1>4. /\ \A k \in 0 .. n + 1 : k \in 0 .. n \/ k = n + 1
      /\ \A k \in 1 .. n + 1 : (k \in 1 .. n /\ k # n + 1 /\ k - 1 \in 0 .. n) \/ k = n + 1
      /\ \A k \in 0 .. n : k # n + 1 /\ k \in 0 .. n + 1
      /\ n + 1 \in 0 .. n + 1
  BY <1>1
<1>5. r[n + 1] = last /\ \A k \in 0 .. n : r[k] = rank[k]
  BY <1>4
<1>6. r \in [0 .. n + 1 -> Nat] /\ r[0] = taken
  <2>1. rank[0] = taken /\ 0 \in 0 .. n
    BY <1>1 DEF Ranked
  <2> QED
    BY <1>2, <1>3, <1>4, <1>5, <2>1
<1>7. \A i, j \in 0 .. n + 1 : i <= j => r[i] <= r[j]
  <2> SUFFICES ASSUME NEW i \in 0 .. n + 1, NEW j \in 0 .. n + 1, i <= j PROVE r[i] <= r[j]
    OBVIOUS
  <2>1. CASE j = n + 1
    <3>1. CASE i \in 0 .. n
      <4> HIDE DEF last, r, n
      <4>1. r[i] \in Nat /\ r[i] <= rank[n] /\ r[j] = last
        BY <1>2, <1>5, <2>1, <3>1
      <4> QED
        BY <1>2, <1>3, <4>1
    <3>2. CASE i = n + 1
      BY <1>3, <1>5, <2>1, <3>2
    <3> QED
      BY <1>4, <3>1, <3>2
  <2>2. CASE j \in 0 .. n
    <3>1. i \in 0 .. n
      BY <1>1, <2>2
    <3>2. rank[i] <= rank[j]
      BY <2>2, <3>1 DEF Ranked
    <3> QED
      BY <1>5, <2>2, <3>1, <3>2
  <2> QED
    BY <1>4, <2>1, <2>2
<1>8. ASSUME NEW k \in 1 .. n + 1
      PROVE  /\ line2[k].kind = "command" <=> Escaped(line2, ctl, k - 1)
             /\ r[k] = IF line2[k].kind = "message" THEN r[k - 1] + 1 ELSE r[k - 1]
             /\ line2[k].kind = "message" => line2[k].val = s[r[k]]
             /\ line2[k] = Command(S_END_SENDING) => fin /\ r[k] = Len(s)
  <2>1. \A i \in 0 .. n : Escaped(line2, ctl, i) <=> Escaped(line, ctl, i)
    <3>1. \A i \in 0 .. n : i = 0 \/ i \in 1 .. n
      BY <1>1
    <3> QED
      BY <1>1, <3>1 DEF Escaped
  <2>2. CASE k = n + 1
    <3>1. k - 1 = n /\ n \in 0 .. n
      BY <1>1, <2>2
    <3> HIDE DEF r, n, line2
    <3>2. r[k] = last /\ r[k - 1] = rank[n] /\ line2[k] = p
      BY <1>1, <1>5, <2>2, <3>1
    <3>3. p.kind = "command" <=> Escaped(line2, ctl, k - 1)
      BY <2>1, <3>1 DEF n
    <3>4. p.kind = "message" => p.val = s[rank[n] + 1]
      BY DEF n
    <3>5. p = Command(S_END_SENDING) => p.kind # "message" /\ fin /\ rank[n] = Len(s)
      BY DEF n, Command
    <3> QED
      BY <3>2, <3>3, <3>4, <3>5
  <2>3. CASE k \in 1 .. n
    <3>1. k \in 0 .. n /\ k - 1 \in 0 .. n /\ line2[k] = line[k]
      BY <1>1, <2>3
    <3>2. r[k] = rank[k] /\ r[k - 1] = rank[k - 1]
      BY <1>5, <3>1
    <3>3. Escaped(line2, ctl, k - 1) <=> Escaped(line, ctl, k - 1)
      BY <2>1, <3>1
    <3>4. /\ line[k].kind = "command" <=> Escaped(line, ctl, k - 1)
          /\ rank[k] = IF line[k].kind = "message" THEN rank[k - 1] + 1 ELSE rank[k - 1]
          /\ line[k].kind = "message" => line[k].val = s[rank[k]]
          /\ line[k] = Command(S_END_SENDING) => fin /\ rank[k] = Len(s)
      BY <2>3 DEF Ranked
    <3> HIDE DEF r, n, line2
    <3> QED
      BY <3>1, <3>2, <3>3, <3>4
  <2> QED
    BY <1>4, <2>2, <2>3
<1>9. Ranked(line2, ctl, taken, s, fin, r)
  <2> HIDE DEF r, n, line2
  <2> QED
    BY <1>1, <1>6, <1>7, <1>8 DEF Ranked
<1> HIDE DEF r
<1> QED
  BY <1>1, <1>5, <1>6, <1>9

(* The end of the line is lost.                                            *)
LEMMA RankedCut ==
  ASSUME NEW line \in Seq(MqPayload), NEW x \in Seq(MqPayload), NEW ctl \in BOOLEAN,
         NEW taken, NEW s, NEW fin, NEW rank, Ranked(line \o x, ctl, taken, s, fin, rank)
  PROVE  \E r \in [0 .. Len(line) -> Nat] :
           /\ Ranked(line, ctl, taken, s, fin, r)
           /\ \A k \in 0 .. Len(line) : r[k] = rank[k]
           /\ r[Len(line)] <= rank[Len(line \o x)]
<1> DEFINE n == Len(line)
           long == line \o x
           r == [k \in 0 .. n |-> rank[k]]
<1>1. /\ n \in Nat /\ Len(long) \in Nat /\ n <= Len(long)
      /\ \A k \in 1 .. n : long[k] = line[k]
      /\ long \in Seq(MqPayload)
  BY ConcatProperties
<1>2. /\ \A k \in 0 .. n : k \in 0 .. Len(long)
      /\ \A k \in 1 .. n : k \in 1 .. Len(long) /\ k - 1 \in 0 .. n /\ k \in 0 .. n
      /\ \A i \in 0 .. n : i = 0 \/ i \in 1 .. n
  BY <1>1
<1>3. \A k \in 0 .. n : r[k] = rank[k]
  OBVIOUS
<1>4. \A k \in 0 .. Len(long) : rank[k] \in Nat /\ rank[k] <= rank[Len(long)]
  BY <1>1, RankedBound
<1> HIDE DEF long
<1>5. r \in [0 .. n -> Nat]
  BY <1>2, <1>4
<1>6. 0 \in 0 .. n /\ n \in 0 .. n
  BY <1>1
<1>7. /\ rank[0] = taken
      /\ \A i, j \in 0 .. Len(long) : i <= j => rank[i] <= rank[j]
      /\ \A k \in 1 .. Len(long) :
           /\ long[k].kind = "command" <=> Escaped(long, ctl, k - 1)
           /\ rank[k] = IF long[k].kind = "message" THEN rank[k - 1] + 1 ELSE rank[k - 1]
           /\ long[k].kind = "message" => long[k].val = s[rank[k]]
           /\ long[k] = Command(S_END_SENDING) => fin /\ rank[k] = Len(s)
  BY DEF Ranked, long
<1> HIDE DEF n, r
<1>8. \A i \in 0 .. n : Escaped(long, ctl, i) <=> Escaped(line, ctl, i)
  BY <1>1, <1>2 DEF Escaped
<1>9. \A i, j \in 0 .. n : i <= j => r[i] <= r[j]
  BY <1>2, <1>3, <1>7
<1>10. ASSUME NEW k \in 1 .. n
       PROVE  /\ line[k].kind = "command" <=> Escaped(line, ctl, k - 1)
              /\ r[k] = IF line[k].kind = "message" THEN r[k - 1] + 1 ELSE r[k - 1]
              /\ line[k].kind = "message" => line[k].val = s[r[k]]
              /\ line[k] = Command(S_END_SENDING) => fin /\ r[k] = Len(s)
  <2>1. long[k] = line[k] /\ r[k] = rank[k] /\ r[k - 1] = rank[k - 1] /\ k \in 1 .. Len(long)
    BY <1>1, <1>2, <1>3
  <2>2. Escaped(long, ctl, k - 1) <=> Escaped(line, ctl, k - 1)
    BY <1>2, <1>8
  <2> QED
    BY <1>7, <2>1, <2>2
<1>11. Ranked(line, ctl, taken, s, fin, r)
  BY <1>3, <1>5, <1>6, <1>7, <1>9, <1>10 DEF Ranked, n
<1>12. r[n] <= rank[Len(long)]
  BY <1>2, <1>3, <1>4, <1>6
<1> QED
  BY <1>3, <1>5, <1>11, <1>12 DEF n, long

(* The first payload is read.                                              *)
LEMMA RankedTail ==
  ASSUME NEW line \in Seq(MqPayload), line # <<>>, NEW ctl \in BOOLEAN,
         NEW taken, NEW s, NEW fin, NEW rank, Ranked(line, ctl, taken, s, fin, rank)
  PROVE  \E r \in [0 .. Len(Tail(line)) -> Nat] :
           /\ Ranked(Tail(line), line[1].kind = "escape", rank[1], s, fin, r)
           /\ r[Len(Tail(line))] = rank[Len(line)]
<1> DEFINE n == Len(line)
           rest == Tail(line)
           r == [k \in 0 .. n - 1 |-> rank[k + 1]]
<1>1. /\ n \in Nat \ {0} /\ Len(rest) = n - 1
      /\ \A k \in 1 .. n - 1 : rest[k] = line[k + 1]
  OBVIOUS
<1>2. /\ \A k \in 0 .. n - 1 : k + 1 \in 0 .. n
      /\ \A k \in 1 .. n - 1 : /\ k + 1 \in 1 .. n /\ k - 1 \in 0 .. n - 1 /\ k \in 0 .. n - 1
                               /\ (k - 1) + 1 = k /\ (k + 1) - 1 = k /\ k # 0
      /\ \A i \in 0 .. n - 1 : i = 0 \/ i \in 1 .. n - 1
      /\ 0 \in 0 .. n - 1 /\ n - 1 \in 0 .. n - 1 /\ (n - 1) + 1 = n /\ 0 + 1 = 1
  BY <1>1
<1>3. \A k \in 0 .. n - 1 : r[k] = rank[k + 1]
  OBVIOUS
<1>4. \A k \in 0 .. n : rank[k] \in Nat
  BY RankedBound
<1>5. /\ \A i, j \in 0 .. n : i <= j => rank[i] <= rank[j]
      /\ \A k \in 1 .. n :
           /\ line[k].kind = "command" <=> Escaped(line, ctl, k - 1)
           /\ rank[k] = IF line[k].kind = "message" THEN rank[k - 1] + 1 ELSE rank[k - 1]
           /\ line[k].kind = "message" => line[k].val = s[rank[k]]
           /\ line[k] = Command(S_END_SENDING) => fin /\ rank[k] = Len(s)
  BY DEF Ranked
<1>6. r \in [0 .. n - 1 -> Nat]
  BY <1>2, <1>4
<1>7. \A i, j \in 0 .. n - 1 : i <= j => r[i] <= r[j]
  <2> SUFFICES ASSUME NEW i \in 0 .. n - 1, NEW j \in 0 .. n - 1, i <= j PROVE r[i] <= r[j]
    OBVIOUS
  <2>1. i + 1 \in 0 .. n /\ j + 1 \in 0 .. n /\ i + 1 <= j + 1
    BY <1>1
  <2>2. rank[i + 1] <= rank[j + 1]
    BY <1>5, <2>1
  <2> QED
    BY <1>3, <2>2
<1> DEFINE ctl2 == line[1].kind = "escape"
<1> HIDE DEF n, r, rest
<1>8. \A i \in 0 .. n - 1 : Escaped(rest, ctl2, i) <=> line[i + 1].kind = "escape"
  BY <1>1, <1>2 DEF Escaped
<1>9. ASSUME NEW k \in 1 .. n - 1
      PROVE  /\ rest[k].kind = "command" <=> Escaped(rest, ctl2, k - 1)
             /\ r[k] = IF rest[k].kind = "message" THEN r[k - 1] + 1 ELSE r[k - 1]
             /\ rest[k].kind = "message" => rest[k].val = s[r[k]]
             /\ rest[k] = Command(S_END_SENDING) => fin /\ r[k] = Len(s)
  <2>1. /\ rest[k] = line[k + 1] /\ r[k] = rank[k + 1] /\ r[k - 1] = rank[k]
        /\ k + 1 \in 1 .. n /\ (k + 1) - 1 = k /\ k # 0
    BY <1>1, <1>2, <1>3
  <2>2. Escaped(rest, ctl2, k - 1) <=> line[k].kind = "escape"
    BY <1>2, <1>8
  <2>3. Escaped(line, ctl, k) <=> line[k].kind = "escape"
    BY <2>1 DEF Escaped
  <2> HIDE DEF ctl2
  <2> QED
    BY <1>5, <2>1, <2>2, <2>3
<1>10. r[0] = rank[1] /\ r[n - 1] = rank[n]
  BY <1>2, <1>3
<1>11. Ranked(rest, ctl2, rank[1], s, fin, r)
  <2> HIDE DEF ctl2
  <2> QED
    BY <1>1, <1>6, <1>7, <1>9, <1>10 DEF Ranked
<1> QED
  BY <1>1, <1>6, <1>10, <1>11 DEF n, rest

LEMMA CarriedBound ==
  ASSUME NEW line \in Seq(MqPayload), NEW ctl \in BOOLEAN, NEW taken, NEW s, NEW fin,
         NEW kept \in Int, NEW full, NEW open, Carried(line, ctl, taken, s, fin, kept, full, open)
  PROVE  taken \in Nat /\ taken <= kept
<1>1. PICK rank \in [0 .. Len(line) -> Nat] :
        Ranked(line, ctl, taken, s, fin, rank) /\ rank[Len(line)] <= kept
  BY DEF Carried
<1>2. taken \in Nat /\ Len(line) \in 0 .. Len(line) /\ rank[Len(line)] \in Nat
      /\ taken <= rank[Len(line)]
  BY <1>1, RankedBound
<1> QED
  BY <1>1, <1>2

LEMMA CarriedHistory ==
  ASSUME NEW line \in Seq(MqPayload), NEW ctl \in BOOLEAN, NEW taken, NEW s, NEW fin,
         NEW kept \in Int, NEW full, NEW open, Carried(line, ctl, taken, s, fin, kept, full, open),
         NEW s2, NEW fin2, NEW full2, NEW open2,
         fin => fin2 /\ s2 = s, full2 => full, open2 => open,
         \A i \in 1 .. kept : s2[i] = s[i]
  PROVE  Carried(line, ctl, taken, s2, fin2, kept, full2, open2)
<1>1. PICK rank \in [0 .. Len(line) -> Nat] :
        /\ Ranked(line, ctl, taken, s, fin, rank)
        /\ rank[Len(line)] <= kept
        /\ full => rank[Len(line)] = kept
        /\ open => ~Escaped(line, ctl, Len(line))
  BY DEF Carried
<1>2. rank[Len(line)] \in Nat
  BY <1>1, RankedBound
<1>3. \A i \in 1 .. rank[Len(line)] : s2[i] = s[i]
  BY <1>1, <1>2
<1>4. Ranked(line, ctl, taken, s2, fin2, rank)
  BY <1>1, <1>3, RankedHistory
<1> QED
  BY <1>1, <1>4 DEF Carried

(* A call begins to send a message.                                        *)
LEMMA CarriedSend ==
  ASSUME NEW line \in Seq(MqPayload), NEW ctl \in BOOLEAN, NEW taken, NEW s \in Seq(Message),
         NEW m \in Message, Carried(line, ctl, taken, s, FALSE, Len(s), TRUE, TRUE)
  PROVE  Carried(Append(line, UserMsg(m)), ctl, taken, Append(s, m), FALSE, Len(s) + 1, TRUE, TRUE)
<1>1. Len(s) \in Nat /\ \A i \in 1 .. Len(s) : Append(s, m)[i] = s[i]
  OBVIOUS
<1>2. PICK rank \in [0 .. Len(line) -> Nat] :
        /\ Ranked(line, ctl, taken, s, FALSE, rank)
        /\ rank[Len(line)] = Len(s)
        /\ ~Escaped(line, ctl, Len(line))
  BY DEF Carried
<1> DEFINE s2 == Append(s, m)
           p == UserMsg(m)
<1>3. p \in MqPayload /\ p.kind = "message" /\ p.val = m /\ p # Command(S_END_SENDING)
  BY PayloadTypes DEF UserMsg, Command
<1>4. s2[Len(s) + 1] = m
  OBVIOUS
<1>5. Ranked(line, ctl, taken, s2, FALSE, rank)
  <2> HIDE DEF s2
  <2>1. \A i \in 1 .. rank[Len(line)] : s2[i] = s[i]
    BY <1>1, <1>2 DEF s2
  <2> QED
    BY <1>2, <2>1, RankedHistory
<1> HIDE DEF s2, p
<1>6. \E r \in [0 .. Len(Append(line, p)) -> Nat] :
           /\ Ranked(Append(line, p), ctl, taken, s2, FALSE, r)
           /\ r[Len(Append(line, p))] =
                IF p.kind = "message" THEN rank[Len(line)] + 1 ELSE rank[Len(line)]
  <2>1. p.kind = "command" <=> Escaped(line, ctl, Len(line))
    BY <1>2, <1>3
  <2>2. p.kind = "message" => p.val = s2[rank[Len(line)] + 1]
    BY <1>2, <1>3, <1>4
  <2>3. p = Command(S_END_SENDING) => FALSE /\ rank[Len(line)] = Len(s2)
    BY <1>3
  <2> QED
    BY <1>3, <1>5, <2>1, <2>2, <2>3, RankedAppend
<1>7. Len(Append(line, p)) = Len(line) + 1 /\ Append(line, p)[Len(line) + 1] = p
  BY <1>3
<1>8. ~Escaped(Append(line, p), ctl, Len(Append(line, p)))
  <2>1. Len(line) + 1 # 0
    OBVIOUS
  <2> QED
    BY <1>3, <1>7, <2>1 DEF Escaped
<1>9. Carried(Append(line, p), ctl, taken, s2, FALSE, Len(s) + 1, TRUE, TRUE)
  <2>1. rank[Len(line)] + 1 <= Len(s) + 1 /\ rank[Len(line)] + 1 = Len(s) + 1
    BY <1>1, <1>2
  <2> QED
    BY <1>3, <1>6, <1>8, <2>1 DEF Carried
<1> QED
  BY <1>9 DEF s2, p

(* A call begins to send a command.                                        *)
LEMMA CarriedCommand ==
  ASSUME NEW line \in Seq(MqPayload), NEW ctl \in BOOLEAN, NEW taken, NEW s \in Seq(Message),
         NEW fin, NEW fin2, NEW raw \in {-1, S_END_SENDING, S_PING},
         Carried(line, ctl, taken, s, fin, Len(s), TRUE, TRUE),
         fin => fin2, raw = S_END_SENDING => fin2
  PROVE  Carried(Append(Append(line, Escape), Command(raw)), ctl, taken, s, fin2, Len(s), TRUE, TRUE)
<1> DEFINE c == Command(raw)
           one == Append(line, Escape)
           two == Append(one, c)
<1>1. PICK rank \in [0 .. Len(line) -> Nat] :
        /\ Ranked(line, ctl, taken, s, fin, rank)
        /\ rank[Len(line)] = Len(s)
        /\ ~Escaped(line, ctl, Len(line))
  BY DEF Carried
<1>2. Ranked(line, ctl, taken, s, fin2, rank)
  BY <1>1, RankedHistory
<1>3. /\ Escape \in MqPayload /\ Escape.kind = "escape" /\ Escape # Command(S_END_SENDING)
      /\ c \in MqPayload /\ c.kind = "command" /\ c.val = raw
  <2>1. c \in MqPayload
    BY PayloadTypes DEF MqPayload
  <2> QED
    BY <2>1, PayloadTypes DEF Escape, Command
<1>4. c = Command(S_END_SENDING) => fin2
  BY <1>3 DEF Command
<1> HIDE DEF c
<1>5. PICK r \in [0 .. Len(one) -> Nat] :
        Ranked(one, ctl, taken, s, fin2, r) /\ r[Len(one)] = Len(s)
  BY <1>1, <1>2, <1>3, RankedAppend
<1>6. one \in Seq(MqPayload) /\ Len(one) = Len(line) + 1 /\ one[Len(line) + 1] = Escape
  BY <1>3
<1>7. Escaped(one, ctl, Len(one))
  <2>1. Len(line) + 1 # 0
    OBVIOUS
  <2> QED
    BY <1>3, <1>6, <2>1 DEF Escaped
<1> HIDE DEF one
<1>8. PICK q \in [0 .. Len(two) -> Nat] :
        Ranked(two, ctl, taken, s, fin2, q) /\ q[Len(two)] = Len(s)
  <2>1. c.kind = "command" <=> Escaped(one, ctl, Len(one))
    BY <1>3, <1>7
  <2>2. c = Command(S_END_SENDING) => fin2 /\ r[Len(one)] = Len(s)
    BY <1>4, <1>5
  <2>3. c.kind # "message"
    BY <1>3
  <2> QED
    BY <1>3, <1>5, <1>6, <2>1, <2>2, <2>3, RankedAppend
<1>9. Len(two) = Len(one) + 1 /\ two[Len(one) + 1] = c /\ Len(one) + 1 # 0
  BY <1>3, <1>6
<1>10. ~Escaped(two, ctl, Len(two))
  BY <1>3, <1>9 DEF Escaped
<1>11. Len(s) <= Len(s)
  OBVIOUS
<1>12. Carried(two, ctl, taken, s, fin2, Len(s), TRUE, TRUE)
  <2> HIDE DEF two
  <2> QED
    BY <1>8, <1>10, <1>11 DEF Carried
<1> QED
  BY <1>12 DEF one, c

(* The last payload is dropped.                                            *)
LEMMA CarriedDrop ==
  ASSUME NEW line \in Seq(MqPayload), NEW p \in MqPayload, NEW ctl \in BOOLEAN, NEW taken, NEW s,
         NEW fin, NEW kept \in Int, NEW full, NEW open,
         Carried(Append(line, p), ctl, taken, s, fin, kept, full, open)
  PROVE  /\ p.kind = "message" =>
              Carried(line, ctl, taken, s, fin, kept - 1, full, p.kind # "command")
         /\ p.kind # "message" =>
              Carried(line, ctl, taken, s, fin, kept, full, p.kind # "command")
<1> DEFINE n == Len(line)
           long == line \o <<p>>
<1>1. /\ n \in Nat /\ long = Append(line, p) /\ <<p>> \in Seq(MqPayload)
      /\ Len(long) = n + 1 /\ long[n + 1] = p
      /\ \A k \in 1 .. n : long[k] = line[k]
  BY AppendIsConcat
<1>2. PICK rank \in [0 .. Len(long) -> Nat] :
        /\ Ranked(long, ctl, taken, s, fin, rank)
        /\ rank[Len(long)] <= kept
        /\ full => rank[Len(long)] = kept
  BY <1>1 DEF Carried
<1>3. PICK r \in [0 .. n -> Nat] :
        Ranked(line, ctl, taken, s, fin, r) /\ \A k \in 0 .. n : r[k] = rank[k]
  BY <1>1, <1>2, RankedCut
<1>4. n + 1 \in 1 .. n + 1 /\ (n + 1) - 1 = n /\ n \in 0 .. n
  BY <1>1
<1> HIDE DEF n, long
<1>5. /\ rank[n + 1] = IF p.kind = "message" THEN rank[n] + 1 ELSE rank[n]
      /\ p.kind = "command" <=> Escaped(long, ctl, n)
  BY <1>1, <1>2, <1>4 DEF Ranked
<1>6. Escaped(long, ctl, n) <=> Escaped(line, ctl, n)
  <2>1. n = 0 \/ n \in 1 .. n
    BY <1>1
  <2> QED
    BY <1>1, <2>1 DEF Escaped
<1>7. r[n] = rank[n] /\ r[n] \in Nat
  BY <1>3, <1>4
<1> DEFINE kept2 == IF p.kind = "message" THEN kept - 1 ELSE kept
<1>8. r[n] <= kept2 /\ (full => r[n] = kept2)
  <2>1. rank[n + 1] <= kept /\ (full => rank[n + 1] = kept)
    BY <1>1, <1>2
  <2>2. CASE p.kind = "message"
    <3>1. kept2 = kept - 1 /\ rank[n + 1] = r[n] + 1
      BY <1>5, <1>7, <2>2
    <3> HIDE DEF kept2
    <3> QED
      BY <1>7, <2>1, <3>1
  <2>3. CASE p.kind # "message"
    <3>1. kept2 = kept /\ rank[n + 1] = r[n]
      BY <1>5, <1>7, <2>3
    <3> HIDE DEF kept2
    <3> QED
      BY <1>7, <2>1, <3>1
  <2> QED
    BY <2>2, <2>3
<1>9. p.kind # "command" => ~Escaped(line, ctl, n)
  BY <1>5, <1>6
<1> HIDE DEF kept2
<1>10. Carried(line, ctl, taken, s, fin, kept2, full, p.kind # "command")
  BY <1>3, <1>8, <1>9 DEF Carried, n
<1> QED
  BY <1>10 DEF kept2

(* What is not yet in the queue is lost.                                   *)
LEMMA CarriedCut ==
  ASSUME NEW line \in Seq(MqPayload), NEW x \in Seq(MqPayload), NEW ctl \in BOOLEAN, NEW taken,
         NEW s, NEW fin, NEW kept \in Int, NEW full, NEW open,
         Carried(line \o x, ctl, taken, s, fin, kept, full, open),
         NEW kept2 \in Int, kept <= kept2
  PROVE  Carried(line, ctl, taken, s, fin, kept2, FALSE, FALSE)
<1>1. PICK rank \in [0 .. Len(line \o x) -> Nat] :
        Ranked(line \o x, ctl, taken, s, fin, rank) /\ rank[Len(line \o x)] <= kept
  BY DEF Carried
<1>2. PICK r \in [0 .. Len(line) -> Nat] :
        Ranked(line, ctl, taken, s, fin, r) /\ r[Len(line)] <= rank[Len(line \o x)]
  BY <1>1, RankedCut
<1>3. r[Len(line)] \in Nat
  BY <1>2, RankedBound
<1>4. line \o x \in Seq(MqPayload)
  BY ConcatProperties
<1>5. rank[Len(line \o x)] \in Nat
  BY <1>1, <1>4, RankedBound
<1>6. r[Len(line)] <= kept2
  BY <1>1, <1>2, <1>3, <1>5
<1> QED
  BY <1>2, <1>6 DEF Carried

(* The first payload is read.                                              *)
LEMMA CarriedRead ==
  ASSUME NEW line \in Seq(MqPayload), line # <<>>, NEW ctl \in BOOLEAN, NEW taken, NEW s, NEW fin,
         NEW kept \in Int, NEW full, NEW open, Carried(line, ctl, taken, s, fin, kept, full, open)
  PROVE  /\ Carried(Tail(line), line[1].kind = "escape",
                    IF line[1].kind = "message" THEN taken + 1 ELSE taken, s, fin, kept, full, open)
         /\ line[1].kind = "command" <=> ctl
         /\ line[1].kind = "message" => line[1].val = s[taken + 1]
         /\ line[1] = Command(S_END_SENDING) => fin /\ taken = Len(s)
<1> DEFINE n == Len(line)
           rest == Tail(line)
           ctl2 == line[1].kind = "escape"
<1>1. /\ n \in Nat /\ n >= 1 /\ rest \in Seq(MqPayload) /\ Len(rest) = n - 1
      /\ \A k \in 1 .. n - 1 : rest[k] = line[k + 1]
  OBVIOUS
<1>2. PICK rank \in [0 .. n -> Nat] :
        /\ Ranked(line, ctl, taken, s, fin, rank)
        /\ rank[n] <= kept
        /\ full => rank[n] = kept
        /\ open => ~Escaped(line, ctl, n)
  BY DEF Carried
<1>3. PICK r \in [0 .. Len(rest) -> Nat] :
        Ranked(rest, ctl2, rank[1], s, fin, r) /\ r[Len(rest)] = rank[n]
  BY <1>2, RankedTail
<1>4. 1 \in 1 .. n /\ 1 - 1 = 0
  BY <1>1
<1>5. /\ rank[0] = taken
      /\ line[1].kind = "command" <=> Escaped(line, ctl, 0)
      /\ rank[1] = IF line[1].kind = "message" THEN rank[0] + 1 ELSE rank[0]
      /\ line[1].kind = "message" => line[1].val = s[rank[1]]
      /\ line[1] = Command(S_END_SENDING) => fin /\ rank[1] = Len(s)
  BY <1>2, <1>4 DEF Ranked
<1>6. Escaped(line, ctl, 0) <=> ctl
  BY DEF Escaped
<1>7. Command(S_END_SENDING).kind # "message"
  BY DEF Command
<1>8. Escaped(rest, ctl2, Len(rest)) <=> Escaped(line, ctl, n)
  <2>1. CASE n = 1
    BY <1>1, <2>1 DEF Escaped
  <2>2. CASE n # 1
    <3>1. n - 1 \in 1 .. n - 1 /\ n - 1 # 0 /\ n # 0 /\ (n - 1) + 1 = n
      BY <1>1, <2>2
    <3> HIDE DEF n, rest, ctl2
    <3> QED
      BY <1>1, <3>1 DEF Escaped
  <2> QED
    BY <2>1, <2>2
<1> HIDE DEF n, rest, ctl2
<1>9. Carried(rest, ctl2, rank[1], s, fin, kept, full, open)
  BY <1>2, <1>3, <1>8 DEF Carried
<1> QED
  BY <1>5, <1>6, <1>7, <1>9 DEF rest, ctl2

-----------------------------------------------------------------------------
(* Steps of the sender.                                                    *)

LEMMA LineTypes ==
  ASSUME HistoryTypes, SndWaitTypes
  PROVE  /\ InCall \in Seq(MqPayload) /\ mq \o sndQ \in Seq(MqPayload)
         /\ sndQ \o InCall \in Seq(MqPayload) /\ Line \in Seq(MqPayload)
         /\ Len(sent) \in Nat /\ Len(got) \in Nat /\ Kept \in Int /\ Taken \in Nat
         /\ Kept <= Len(sent) /\ rcvControl \in BOOLEAN
<1> USE DEF HistoryTypes, SndWaitTypes
<1>1. <<sndCur>> \in Seq(MqPayload) /\ <<>> \in Seq(MqPayload)
  OBVIOUS
<1>2. InCall \in Seq(MqPayload)
  BY <1>1, ConcatProperties DEF InCall
<1>3. mq \o sndQ \in Seq(MqPayload) /\ sndQ \o InCall \in Seq(MqPayload)
  BY <1>2, ConcatProperties
<1>4. Line \in Seq(MqPayload)
  BY <1>3, ConcatProperties DEF Line
<1>5. Len(sent) \in Nat /\ Len(got) \in Nat
  OBVIOUS
<1>6. Kept \in Int /\ Taken \in Nat /\ Kept <= Len(sent)
  BY <1>5 DEF Kept, Taken
<1> QED
  BY <1>2, <1>3, <1>4, <1>6

(* The receiver will see the same if the line stays as it is.              *)
LEMMA SndLineSame ==
  ASSUME HistoryTypes, SndWaitTypes, LineControl, UNCHANGED rcvVars,
         Line' = Line, Kept' = Kept,
         sndFinished => sndFinished' /\ sent' = sent,
         \A i \in 1 .. Kept : sent'[i] = sent[i],
         sndPhase' # "gone" => sndPhase # "gone",
         sndPhase' = "alive" /\ ~sndErr' => sndPhase = "alive" /\ ~sndErr
  PROVE  LineControl'
<1> SUFFICES ASSUME rcvPhase = "alive", ~RcvOver PROVE LineControl'
  BY DEF LineControl, rcvVars, rcvWaitVars, RcvOver
<1>1. UNCHANGED <<rcvPhase, rcvErr, rcvControl, rcvPc, rcvMsg, got>>
  BY DEF rcvVars, rcvWaitVars, rcvCallVars, rcvHistVars
<1>2. Taken' = Taken
  BY <1>1 DEF Taken
<1>3. Carried(Line, rcvControl, Taken, sent, sndFinished, Kept,
              sndPhase # "gone", sndPhase = "alive" /\ ~sndErr)
  BY DEF LineControl
<1>4. Carried(Line, rcvControl, Taken, sent', sndFinished', Kept,
              sndPhase' # "gone", sndPhase' = "alive" /\ ~sndErr')
  BY <1>3, LineTypes, CarriedHistory
<1>5. rcvPc = "done" => sent'[Taken] = sent[Taken]
  <2>1. Taken <= Kept /\ Taken \in Nat /\ Kept \in Int
    BY <1>3, LineTypes, CarriedBound
  <2>2. rcvPc = "done" => Taken > 0
    BY DEF Taken, HistoryTypes
  <2> QED
    BY <2>1, <2>2
<1> QED
  BY <1>1, <1>2, <1>4, <1>5 DEF LineControl

(* A call that is to send a command puts two payloads at the end.          *)
LEMMA CommandLine ==
  ASSUME HistoryTypes, SndWaitTypes, LineControl, UNCHANGED rcvVars,
         sndPc = "idle", sndPhase = "alive", ~sndErr,
         UNCHANGED <<mq, sndQ, sndErr, sndPhase, sent>>,
         NEW op \in SndOps \ {"send"}, NEW raw \in {-1, S_END_SENDING, S_PING},
         WriteCtlCmd(op, raw),
         sndFinished => sndFinished', raw = S_END_SENDING => sndFinished'
  PROVE  LineControl'
<1> SUFFICES ASSUME rcvPhase = "alive", ~RcvOver PROVE LineControl'
  BY DEF LineControl, rcvVars, rcvWaitVars, RcvOver
<1>1. UNCHANGED <<rcvPhase, rcvErr, rcvControl, rcvPc, rcvMsg, got>>
  BY DEF rcvVars, rcvWaitVars, rcvCallVars, rcvHistVars
<1>2. Taken' = Taken /\ Kept' = Len(sent) /\ Kept = Len(sent)
  <2>1. sndPc' = "write"
    BY DEF WriteCtlCmd, Write
  <2> QED
    BY <1>1, <2>1 DEF Taken, Kept, Dropped
<1>3. Line' = Append(Append(Line, Escape), Command(raw))
  <2> DEFINE c == Command(raw)
  <2>1. InCall' = <<Escape>> \o <<c>>
    BY DEF InCall, WriteCtlCmd, Write
  <2>2. InCall = <<>>
    BY DEF InCall
  <2>3. Escape \in MqPayload /\ c \in MqPayload
    BY PayloadTypes DEF MqPayload
  <2> HIDE DEF c
  <2>4. <<Escape>> \in Seq(MqPayload) /\ <<>> \in Seq(MqPayload) /\ <<>> \o <<Escape>> = <<Escape>>
    BY <2>3
  <2>5. mq \in Seq(MqPayload) /\ sndQ \in Seq(MqPayload)
    BY DEF HistoryTypes, SndWaitTypes
  <2>6. mq \o (sndQ \o (<<Escape>> \o <<c>>)) = Append(mq \o (sndQ \o <<Escape>>), c)
    BY <2>3, <2>4, <2>5, LineEnds
  <2>7. mq \o (sndQ \o (<<>> \o <<Escape>>)) = Append(mq \o (sndQ \o <<>>), Escape)
    BY <2>3, <2>4, <2>5, LineEnds
  <2> QED
    BY <2>1, <2>2, <2>4, <2>6, <2>7 DEF Line, c
<1>4. Carried(Line, rcvControl, Taken, sent, sndFinished, Len(sent), TRUE, TRUE)
  <2>1. Carried(Line, rcvControl, Taken, sent, sndFinished, Kept,
                sndPhase # "gone", sndPhase = "alive" /\ ~sndErr)
    BY DEF LineControl
  <2> QED
    BY <1>2, <2>1, LineTypes, CarriedHistory
<1>5. Carried(Append(Append(Line, Escape), Command(raw)), rcvControl, Taken, sent, sndFinished',
              Len(sent), TRUE, TRUE)
  BY <1>4, LineTypes, CarriedCommand DEF HistoryTypes
<1>6. Carried(Append(Append(Line, Escape), Command(raw)), rcvControl, Taken, sent, sndFinished',
              Len(sent), sndPhase' # "gone", sndPhase' = "alive" /\ ~sndErr')
  <2>1. sndPhase' # "gone" /\ sndPhase' = "alive" /\ ~sndErr'
    OBVIOUS
  <2> QED
    BY <1>5, <2>1 DEF Carried
<1>7. rcvPc = "done" => rcvMsg.kind = "message" /\ rcvMsg.val = sent[Taken]
  BY DEF LineControl
<1> QED
  BY <1>1, <1>2, <1>3, <1>6, <1>7 DEF LineControl

(* A call or a handler begins.                                             *)
LEMMA SndCallLine ==
  ASSUME HistoryTypes, SndWaitInv, StartedControl, LineControl, UNCHANGED rcvVars,
         SndUser \/ OnEvAutoPingNowTimerFired
  PROVE  LineControl'
<1> USE DEF SndWaitInv
<1>1. ASSUME NEW m \in Message, SendBlob(m) PROVE LineControl'
  <2> SUFFICES ASSUME rcvPhase = "alive", ~RcvOver PROVE LineControl'
    BY DEF LineControl, rcvVars, rcvWaitVars, RcvOver
  <2>1. UNCHANGED <<rcvPhase, rcvErr, rcvControl, rcvPc, rcvMsg, got>>
    BY DEF rcvVars, rcvWaitVars, rcvCallVars, rcvHistVars
  <2>2. /\ sndPc = "idle" /\ sndPhase = "alive" /\ ~sndErr /\ ~sndFinished
        /\ sndPc' = "write" /\ sndOp' = "send" /\ sndCur' = UserMsg(m) /\ sndRest' = <<>>
        /\ sent' = Append(sent, m) /\ UNCHANGED <<mq, sndQ, sndErr, sndPhase, sndFinished>>
    BY <1>1 DEF SendBlob, SndIdle, Write, mqVars, sndWaitVars
  <2>3. Len(sent') = Len(sent) + 1
    BY <2>2 DEF HistoryTypes
  <2>4. Taken' = Taken /\ Kept' = Len(sent) + 1 /\ Kept = Len(sent)
    BY <2>1, <2>2, <2>3 DEF Taken, Kept, Dropped
  <2>5. Line' = Append(Line, UserMsg(m))
    <3> DEFINE p == UserMsg(m)
    <3>1. p \in MqPayload
      BY PayloadTypes
    <3> HIDE DEF p
    <3>2. <<>> \in Seq(MqPayload) /\ <<p>> \o <<>> = <<p>> /\ <<>> \o <<p>> = <<p>>
      BY <3>1
    <3>3. InCall' = <<p>> /\ InCall = <<>>
      BY <2>2, <3>2 DEF InCall, p
    <3>4. mq \o (sndQ \o (<<>> \o <<p>>)) = Append(mq \o (sndQ \o <<>>), p)
      BY <3>1, <3>2, LineEnds DEF HistoryTypes, SndWaitTypes
    <3> QED
      BY <2>2, <3>2, <3>3, <3>4 DEF Line, p
  <2>6. Carried(Line, rcvControl, Taken, sent, FALSE, Len(sent), TRUE, TRUE)
    <3>1. Carried(Line, rcvControl, Taken, sent, sndFinished, Kept,
                  sndPhase # "gone", sndPhase = "alive" /\ ~sndErr)
      BY DEF LineControl
    <3>2. sndFinished = FALSE
      BY <2>2 DEF HistoryTypes
    <3>3. Carried(Line, rcvControl, Taken, sent, FALSE, Kept,
                  sndPhase # "gone", sndPhase = "alive" /\ ~sndErr)
      BY <3>1, <3>2
    <3> QED
      BY <2>2, <2>4, <3>3, LineTypes, CarriedHistory
  <2>7. Carried(Append(Line, UserMsg(m)), rcvControl, Taken, Append(sent, m), FALSE,
                Len(sent) + 1, TRUE, TRUE)
    BY <2>6, LineTypes, CarriedSend DEF HistoryTypes
  <2>8. Carried(Append(Line, UserMsg(m)), rcvControl, Taken, sent', sndFinished',
                Len(sent) + 1, sndPhase' # "gone", sndPhase' = "alive" /\ ~sndErr')
    <3>1. sndFinished' = FALSE /\ sent' = Append(sent, m)
      BY <2>2 DEF HistoryTypes
    <3>2. sndPhase' # "gone" /\ sndPhase' = "alive" /\ ~sndErr'
      BY <2>2
    <3>3. Carried(Append(Line, UserMsg(m)), rcvControl, Taken, sent', sndFinished',
                  Len(sent) + 1, TRUE, TRUE)
      BY <2>7, <3>1
    <3> QED
      BY <3>2, <3>3 DEF Carried
  <2>9. rcvPc = "done" => rcvMsg.kind = "message" /\ rcvMsg.val = sent'[Taken]
    <3>1. Taken <= Len(sent) /\ Taken \in Nat
      <4>1. Carried(Line, rcvControl, Taken, sent, sndFinished, Kept,
                    sndPhase # "gone", sndPhase = "alive" /\ ~sndErr)
        BY DEF LineControl
      <4> QED
        BY <2>4, <4>1, LineTypes, CarriedBound
    <3>2. rcvPc = "done" => Taken > 0
      BY DEF Taken, HistoryTypes
    <3>3. rcvPc = "done" => sent'[Taken] = sent[Taken]
      BY <2>2, <3>1, <3>2 DEF HistoryTypes
    <3> QED
      BY <3>3 DEF LineControl
  <2> QED
    BY <2>1, <2>4, <2>5, <2>8, <2>9 DEF LineControl
<1>2. CASE StartSendBlobOps
  <2>1. "start" \in SndOps \ {"send"}
    BY DEF SndOps
  <2>2. /\ sndPc = "idle" /\ sndPhase = "alive" /\ WriteCtlCmd("start", -1)
        /\ UNCHANGED <<mq, sndQ, sndErr, sndPhase, sent, sndFinished>>
    BY <1>2 DEF StartSendBlobOps, SndIdle, mqVars, sndWaitVars, sndHistVars
  <2>3. ~sndErr
    BY <1>2 DEF StartSendBlobOps, StartedControl
  <2> QED
    BY <2>1, <2>2, <2>3, CommandLine DEF S_END_SENDING
<1>3. ASSUME NEW op \in {"end", "asyncEnd"}, EndSending(op) PROVE LineControl'
  <2>1. /\ sndPc = "idle" /\ sndPhase = "alive" /\ sndFinished' = TRUE
        /\ UNCHANGED <<mq, sndQ, sndErr, sndPhase, sent>>
        /\ IF sndErr THEN UNCHANGED sndCallVars ELSE WriteCtlCmd(op, S_END_SENDING)
    BY <1>3 DEF EndSending, SndIdle, mqVars, sndWaitVars
  <2>2. CASE sndErr
    <3>1. UNCHANGED <<sndPc, sndOp, sndCur, sndRest>>
      BY <2>1, <2>2 DEF sndCallVars
    <3>2. Line' = Line /\ Kept' = Kept
      BY <2>1, <3>1 DEF Line, InCall, Kept, Dropped
    <3> QED
      BY <2>1, <3>2, SndLineSame
  <2>3. CASE ~sndErr
    BY <2>1, <2>3, CommandLine DEF SndOps
  <2> QED
    BY <2>2, <2>3
<1>4. CASE AutoPing \/ OnEvAutoPingNowTimerFired
  <2>1. /\ sndPc = "idle" /\ sndPhase = "alive"
        /\ UNCHANGED <<mq, sndQ, sndErr, sndPhase, sent, sndFinished>>
        /\ \/ UNCHANGED sndCallVars
           \/ ~sndErr /\ WriteCtlCmd("ping", S_PING)
    BY <1>4 DEF AutoPing, OnEvAutoPingNowTimerFired, SndIdle, mqVars, sndWaitVars, sndHistVars
  <2>2. CASE UNCHANGED sndCallVars
    <3>1. Line' = Line /\ Kept' = Kept
      BY <2>1, <2>2 DEF Line, InCall, Kept, Dropped, sndCallVars
    <3> QED
      BY <2>1, <3>1, SndLineSame
  <2>3. CASE ~sndErr /\ WriteCtlCmd("ping", S_PING)
    BY <2>1, <2>3, CommandLine DEF SndOps, S_PING, S_END_SENDING
  <2> QED
    BY <2>1, <2>2, <2>3
<1> QED
  BY <1>1, <1>2, <1>3, <1>4 DEF SndUser

(* The call gives up the payloads it has not sent, or queued.              *)
LEMMA DropLine ==
  ASSUME HistoryTypes, SndWaitTypes, CallControl, UNCHANGED rcvVars, LineControl,
         sndPc = "write", sndPc' = "ret", ~sndErr, sndPhase = "alive",
         UNCHANGED <<mq, sndQ, sndPhase, sndOp, sent, sndFinished>>,
         sndErr' \/ (sndOp # "send" /\ sndCur = Escape)
  PROVE  LineControl'
<1> SUFFICES ASSUME rcvPhase = "alive", ~RcvOver PROVE LineControl'
  BY DEF LineControl, rcvVars, rcvWaitVars, RcvOver
<1> DEFINE base == mq \o sndQ
           full == sndPhase # "gone"
           open == sndPhase = "alive" /\ ~sndErr
<1>1. UNCHANGED <<rcvPhase, rcvErr, rcvControl, rcvPc, rcvMsg, got>>
  BY DEF rcvVars, rcvWaitVars, rcvCallVars, rcvHistVars
<1>2. Taken' = Taken /\ Kept = Len(sent)
  BY <1>1 DEF Taken, Kept, Dropped
<1>3. base \in Seq(MqPayload) /\ Line' = base
  <2>1. InCall' = <<>>
    BY DEF InCall
  <2>2. mq \o (sndQ \o <<>>) = mq \o sndQ
    BY ConcatEmptySeq DEF SndWaitTypes
  <2> QED
    BY <2>1, <2>2, LineTypes DEF Line
<1>4. Carried(Line, rcvControl, Taken, sent, sndFinished, Kept, full, open)
  BY DEF LineControl
<1> HIDE DEF full, open
<1>5. ASSUME NEW x \in MqPayload
      PROVE  /\ mq \o (sndQ \o <<x>>) = Append(base, x)
             /\ \A y \in MqPayload : mq \o (sndQ \o (<<x>> \o <<y>>)) = Append(Append(base, x), y)
  <2>1. mq \in Seq(MqPayload) /\ sndQ \in Seq(MqPayload) /\ <<>> \in Seq(MqPayload)
        /\ <<x>> \in Seq(MqPayload) /\ <<>> \o <<x>> = <<x>>
    BY DEF HistoryTypes, SndWaitTypes
  <2>2. mq \o (sndQ \o (<<>> \o <<x>>)) = Append(mq \o (sndQ \o <<>>), x)
    BY <2>1, LineEnds
  <2>3. mq \o (sndQ \o <<>>) = base
    BY <2>1, LineEnds
  <2>4. ASSUME NEW y \in MqPayload
        PROVE  mq \o (sndQ \o (<<x>> \o <<y>>)) = Append(mq \o (sndQ \o <<x>>), y)
    BY <2>1, LineEnds
  <2> QED
    BY <2>1, <2>2, <2>3, <2>4
<1> HIDE DEF base
<1>6. CASE sndOp = "send"
  <2>1. sndCur \in MqPayload /\ sndCur.kind = "message" /\ sndRest = <<>> /\ sndErr'
    BY <1>6, PayloadKinds DEF CallControl, SndWaitTypes, Escape
  <2>2. InCall = <<sndCur>>
    BY <2>1 DEF InCall
  <2>3. Line = Append(base, sndCur)
    BY <1>5, <2>1, <2>2 DEF Line
  <2>4. Carried(base, rcvControl, Taken, sent, sndFinished, Kept - 1, full,
                sndCur.kind # "command")
    BY <1>3, <1>4, <2>1, <2>3, LineTypes, CarriedDrop
  <2>5. Kept' = Kept - 1
    BY <1>2, <1>6, <2>1 DEF Kept, Dropped
  <2>6. Carried(base, rcvControl, Taken, sent, sndFinished, Kept - 1,
                sndPhase # "gone", sndPhase = "alive" /\ ~sndErr')
    BY <2>1, <2>4 DEF Carried, full
  <2>7. rcvPc = "done" => rcvMsg.kind = "message" /\ rcvMsg.val = sent[Taken]
    BY DEF LineControl
  <2> QED
    BY <1>1, <1>2, <1>3, <2>5, <2>6, <2>7 DEF LineControl
<1>7. CASE sndOp # "send"
  <2>1. Kept' = Kept
    BY <1>2, <1>7 DEF Kept, Dropped
  <2>2. ASSUME NEW o, Carried(base, rcvControl, Taken, sent, sndFinished, Kept, full, o),
               sndErr' \/ o
        PROVE  LineControl'
    <3>1. Carried(base, rcvControl, Taken, sent, sndFinished, Kept,
                  sndPhase # "gone", sndPhase = "alive" /\ ~sndErr')
      BY <2>2 DEF Carried, full
    <3>2. rcvPc = "done" => rcvMsg.kind = "message" /\ rcvMsg.val = sent[Taken]
      BY DEF LineControl
    <3> QED
      BY <1>1, <1>2, <1>3, <2>1, <3>1, <3>2 DEF LineControl
  <2>3. CASE sndCur = Escape /\ \E c \in MqPayload : c.kind = "command" /\ sndRest = <<c>>
    <3>1. PICK c \in MqPayload : c.kind = "command" /\ sndRest = <<c>>
      BY <2>3
    <3>2. Escape \in MqPayload /\ Escape.kind = "escape"
      BY PayloadTypes DEF Escape
    <3>3. InCall = <<Escape>> \o <<c>>
      BY <2>3, <3>1 DEF InCall
    <3>4. Line = Append(Append(base, Escape), c)
      BY <1>5, <3>2, <3>3 DEF Line
    <3>5. Append(base, Escape) \in Seq(MqPayload)
      BY <1>3, <3>2
    <3>6. Carried(Append(base, Escape), rcvControl, Taken, sent, sndFinished, Kept, full,
                  c.kind # "command")
      BY <1>4, <3>1, <3>4, <3>5, LineTypes, CarriedDrop
    <3>7. Carried(base, rcvControl, Taken, sent, sndFinished, Kept, full, Escape.kind # "command")
      BY <1>3, <3>2, <3>6, LineTypes, CarriedDrop
    <3> QED
      BY <2>2, <3>2, <3>7
  <2>4. CASE sndCur.kind = "command" /\ sndRest = <<>>
    <3>1. sndCur \in MqPayload /\ sndErr'
      BY <2>4 DEF SndWaitTypes, Escape
    <3>2. InCall = <<sndCur>>
      BY <2>4, <3>1 DEF InCall
    <3>3. Line = Append(base, sndCur)
      BY <1>5, <3>1, <3>2 DEF Line
    <3>4. Carried(base, rcvControl, Taken, sent, sndFinished, Kept, full, sndCur.kind # "command")
      BY <1>3, <1>4, <2>4, <3>1, <3>3, LineTypes, CarriedDrop
    <3> QED
      BY <2>2, <3>1, <3>4
  <2> QED
    BY <1>7, <2>3, <2>4 DEF CallControl
<1> QED
  BY <1>6, <1>7

(* After a payload was sent or queued, the others of the call are left.    *)
LEMMA GoOnRest ==
  ASSUME sndRest \in Seq(MqPayload), GoOn(FALSE), ~sndErr'
  PROVE  InCall' = sndRest
<1>1. CASE sndRest = <<>>
  BY <1>1 DEF GoOn, InCall
<1>2. CASE sndRest # <<>>
  <2>1. sndPc' = "write" /\ sndCur' = Head(sndRest) /\ sndRest' = Tail(sndRest)
    BY <1>2 DEF GoOn
  <2>2. <<Head(sndRest)>> \o Tail(sndRest) = sndRest
    BY <1>2
  <2> QED
    BY <2>1, <2>2 DEF InCall
<1> QED
  BY <1>1, <1>2

(* A payload not sent.                                                     *)
LEMMA NotSentLine ==
  ASSUME HistoryTypes, SndWaitTypes, CallControl, UNCHANGED rcvVars, LineControl,
         sndPc = "write", ~sndErr, sndPhase = "alive", NotSent,
         UNCHANGED <<mq, sndErr, sndPhase, sndOp, sent, sndFinished>>
  PROVE  LineControl'
<1>1. CASE AvoidQing
  <2>1. sndPc' = "ret" /\ UNCHANGED sndQ /\ sndOp # "send" /\ sndCur = Escape
    BY <1>1 DEF NotSent, GoOn, AvoidQing
  <2> QED
    BY <2>1, DropLine
<1>2. CASE ~AvoidQing
  <2>1. GoOn(FALSE) /\ sndQ' = Append(sndQ, sndCur)
    BY <1>2 DEF NotSent
  <2>2. InCall' = sndRest
    BY <2>1, GoOnRest DEF SndWaitTypes
  <2>3. mq \o (Append(sndQ, sndCur) \o sndRest) = mq \o (sndQ \o (<<sndCur>> \o sndRest))
    <3>1. /\ mq \in Seq(MqPayload) /\ sndQ \in Seq(MqPayload)
          /\ sndRest \in Seq(MqPayload) /\ sndCur \in MqPayload
      BY DEF HistoryTypes, SndWaitTypes
    <3>2. Append(sndQ, sndCur) \o sndRest = sndQ \o (<<sndCur>> \o sndRest)
      BY <3>1, LineMoves
    <3> QED
      BY <3>2
  <2>4. Line' = Line
    BY <2>1, <2>2, <2>3 DEF Line, InCall
  <2>5. Kept' = Kept
    BY DEF Kept, Dropped
  <2> QED
    BY <2>4, <2>5, SndLineSame
<1> QED
  BY <1>1, <1>2

(* A step of a call or handler.                                            *)
LEMMA SndStepLine ==
  ASSUME HistoryTypes, SndWaitInv, CallControl, UNCHANGED rcvVars, LineControl,
         OwnMessageAhead, SndSteps
  PROVE  LineControl'
<1>0. sndPhase = "alive" /\ SndWaitTypes
  BY DEF SndSteps, SndWaitInv
<1>1. CASE SyncWrite
  <2>1. /\ sndPc = "write" /\ sndQ = <<>> /\ ~sndErr
        /\ UNCHANGED <<sndPhase, sndOp, sent, sndFinished>>
    BY <1>0, <1>1 DEF SyncWrite, BehindOthers, SndWaitInv, SndWaitControl, sndHistVars
  <2>2. CASE TrySend(sndCur) /\ GoOn(FALSE) /\ UNCHANGED sndQ
    <3>1. mq' = Append(mq, sndCur) /\ ~sndErr'
      BY <2>1, <2>2 DEF TrySend
    <3>2. InCall' = sndRest
      BY <1>0, <2>2, <3>1, GoOnRest DEF SndWaitTypes
    <3>3. Append(mq, sndCur) \o (<<>> \o sndRest) = mq \o (<<>> \o (<<sndCur>> \o sndRest))
      <4>1. <<sndCur>> \o sndRest \in Seq(MqPayload)
        BY <1>0, LineTypes, <2>1 DEF InCall
      <4>2. <<>> \o sndRest = sndRest /\ <<>> \o (<<sndCur>> \o sndRest) = <<sndCur>> \o sndRest
        BY <1>0, <4>1, ConcatEmptySeq DEF SndWaitTypes
      <4>3. Append(mq, sndCur) \o sndRest = mq \o (<<sndCur>> \o sndRest)
        BY <1>0, LineMoves DEF HistoryTypes, SndWaitTypes
      <4> QED
        BY <4>2, <4>3
    <3>4. Line' = Line
      BY <2>1, <2>2, <3>1, <3>2, <3>3 DEF Line, InCall
    <3>5. Kept' = Kept
      BY <2>1, <3>1 DEF Kept, Dropped
    <3> QED
      BY <1>0, <2>1, <3>1, <3>4, <3>5, SndLineSame
  <2>3. CASE TrySendFails /\ GoOn(FALSE) /\ UNCHANGED sndQ
    <3>1. sndErr' /\ sndPc' = "ret" /\ UNCHANGED mq
      BY <2>3 DEF TrySendFails, GoOn
    <3> QED
      BY <1>0, <2>1, <2>3, <3>1, DropLine
  <2>4. CASE TrySendWouldBlock /\ NotSent
    BY <1>0, <2>1, <2>4, NotSentLine DEF TrySendWouldBlock
  <2> QED
    BY <1>1, <2>2, <2>3, <2>4 DEF SyncWrite
<1>2. CASE QueuePayload
  <2>1. /\ sndPc = "write" /\ ~sndErr /\ NotSent
        /\ UNCHANGED <<mq, sndErr, sndPhase, sndOp, sent, sndFinished>>
    BY <1>0, <1>2 DEF QueuePayload, SndWaitInv, SndWaitControl, mqVars, sndHistVars
  <2> QED
    BY <1>0, <2>1, NotSentLine
<1>3. CASE FlushHead
  <2>1. /\ sndPc = "flush" /\ sndPc' # "write" /\ sndOp = "flush" /\ sndQ # <<>> /\ ~sndErr
        /\ UNCHANGED <<sndPhase, sndOp, sent, sndFinished>>
    BY <1>0, <1>3 DEF FlushHead, SndWaitInv, SndWaitControl, sndHistVars, CallControl
  <2>2. InCall = <<>> /\ InCall' = <<>> /\ Kept' = Kept
    BY <2>1 DEF InCall, Kept, Dropped
  <2>3. Line' = Line
    <3>1. CASE UNCHANGED <<mq, sndQ>>
      BY <2>2, <3>1 DEF Line
    <3>2. CASE TrySend(Head(sndQ)) /\ sndQ' = Tail(sndQ)
      <4>1. Head(sndQ) \in MqPayload /\ <<>> \in Seq(MqPayload)
        BY <1>0, <2>1 DEF SndWaitTypes
      <4>2. Append(mq, Head(sndQ)) \o (Tail(sndQ) \o <<>>) = mq \o (sndQ \o <<>>)
        BY <1>0, <2>1, <4>1, LineMoves DEF HistoryTypes, SndWaitTypes
      <4> QED
        BY <2>2, <3>2, <4>2 DEF Line, TrySend
    <3> QED
      BY <1>3, <3>1, <3>2 DEF FlushHead, TrySendFails, TrySendWouldBlock
  <2> QED
    BY <1>0, <2>1, <2>2, <2>3, SndLineSame
<1>4. CASE ReturnStart \/ ReturnSend \/ ReturnEnd \/ ReturnPing \/ ReturnFlush
  <2>1. /\ sndPc = "ret" /\ sndPc' = "idle"
        /\ UNCHANGED <<mq, sndQ, sndErr, sndPhase, sndFinished>>
    BY <1>4 DEF ReturnStart, ReturnSend, ReturnEnd, ReturnPing, ReturnFlush, SndReturns, CallEnds,
                sndReturnFrame, sndWaitVars, mqVars
  <2>2. Line' = Line
    BY <2>1 DEF Line, InCall
  <2>3. CASE ReturnSend /\ sndErr
    <3>1. sndOp = "send" /\ sent' = SubSeq(sent, 1, Len(sent) - 1) /\ ~sndFinished
      BY <2>1, <2>3 DEF ReturnSend, SndReturns, CallControl
    <3>2. Kept = Len(sent) - 1 /\ Len(got) < Len(sent)
      BY <2>1, <2>3, <3>1 DEF Kept, Dropped, OwnMessageAhead
    <3>3. Len(sent') = Len(sent) - 1 /\ \A i \in 1 .. Len(sent) - 1 : sent'[i] = sent[i]
      <4>1. sent \in Seq(Message) /\ Len(sent) \in Nat /\ Len(got) \in Nat
        BY DEF HistoryTypes
      <4>2. Len(sent) >= 1
        BY <3>2, <4>1
      <4> QED
        BY <3>1, <4>1, <4>2, LastCut
    <3>4. Kept' = Kept
      BY <2>1, <3>2, <3>3 DEF Kept, Dropped
    <3> QED
      BY <1>0, <2>1, <2>2, <3>1, <3>2, <3>3, <3>4, SndLineSame
  <2>4. CASE ~(ReturnSend /\ sndErr)
    <3>1. UNCHANGED sent
      BY <1>4, <2>4 DEF ReturnStart, ReturnSend, ReturnEnd, ReturnPing, ReturnFlush, sndHistVars
    <3>2. ~Dropped
      BY <1>4, <2>4 DEF ReturnStart, ReturnEnd, ReturnPing, ReturnFlush, SndReturns, Dropped
    <3>3. Kept' = Kept
      BY <2>1, <3>1, <3>2 DEF Kept, Dropped
    <3> QED
      BY <1>0, <2>1, <2>2, <3>1, <3>3, SndLineSame
  <2> QED
    BY <1>4, <2>3, <2>4
<1> QED
  BY <1>1, <1>2, <1>3, <1>4 DEF SndSteps

(* Neither a thread nor the beginning of a handler touches the line; the   *)
(* end of the sender cuts off what is not in the queue.                    *)
LEMMA SndOtherLine ==
  ASSUME HistoryTypes, SndWaitTypes, UNCHANGED rcvVars, LineControl,
         SndThreads \/ OnEvMqSendable \/ SndEnd
  PROVE  LineControl'
<1>1. CASE SndThreads
  <2>1. /\ UNCHANGED <<mq, sndQ, sndErr, sndPhase, sent, sndFinished>>
        /\ UNCHANGED <<sndPc, sndOp, sndCur, sndRest>>
    BY <1>1 DEF SndThreads, WaitSendableReturns, WaitSendableFails, WaitSendableEnds,
                WaitSendableInterrupted, PingTimerExpires, PingTimerSignals, sndNoWorkerVars,
                sndNoTimerVars, mqVars, sndWaitVars, sndCallVars, sndHistVars
  <2>2. Line' = Line /\ Kept' = Kept
    BY <2>1 DEF Line, InCall, Kept, Dropped
  <2> QED
    BY <2>1, <2>2, SndLineSame
<1>2. CASE OnEvMqSendable
  <2>1. /\ UNCHANGED <<mq, sndQ, sndErr, sndPhase, sent, sndFinished>>
        /\ sndPc = "idle" /\ sndPc' = "flush"
    BY <1>2 DEF OnEvMqSendable, SndIdle, mqVars, sndHistVars
  <2>2. Line' = Line /\ Kept' = Kept
    BY <2>1 DEF Line, InCall, Kept, Dropped
  <2> QED
    BY <2>1, <2>2, SndLineSame
<1>3. CASE SndDtor
  <2>1. /\ UNCHANGED <<mq, sndQ, sndErr, sent, sndFinished>>
        /\ UNCHANGED <<sndPc, sndOp, sndCur, sndRest>>
        /\ sndPhase = "alive" /\ sndPhase' = "joining"
    BY <1>3 DEF SndDtor, SndIdle, mqVars, sndCallVars, sndHistVars
  <2>2. Line' = Line /\ Kept' = Kept
    BY <2>1 DEF Line, InCall, Kept, Dropped
  <2> QED
    BY <2>1, <2>2, SndLineSame
<1>4. CASE SndGone
  <2> SUFFICES ASSUME rcvPhase = "alive", ~RcvOver PROVE LineControl'
    BY DEF LineControl, rcvVars, rcvWaitVars, RcvOver
  <2>1. UNCHANGED <<rcvPhase, rcvErr, rcvControl, rcvPc, rcvMsg, got>>
    BY DEF rcvVars, rcvWaitVars, rcvCallVars, rcvHistVars
  <2>2. /\ UNCHANGED <<mq, sent, sndFinished>>
        /\ sndQ' = <<>> /\ sndPc' = "idle" /\ sndPhase' = "gone"
    BY <1>4 DEF SndGone, mqVars, sndHistVars
  <2>3. Taken' = Taken /\ Kept' = Len(sent)
    BY <2>1, <2>2 DEF Taken, Kept, Dropped
  <2>4. Line' = mq
    <3>1. InCall' = <<>> /\ <<>> \o <<>> = <<>> /\ mq \o <<>> = mq
      BY <2>2, ConcatEmptySeq DEF InCall, HistoryTypes
    <3> QED
      BY <2>2, <3>1 DEF Line
  <2>5. Carried(mq \o (sndQ \o InCall), rcvControl, Taken, sent, sndFinished, Kept,
                sndPhase # "gone", sndPhase = "alive" /\ ~sndErr)
    BY DEF LineControl, Line
  <2>6. mq \in Seq(MqPayload)
    BY DEF HistoryTypes
  <2>7. Carried(mq, rcvControl, Taken, sent, sndFinished, Len(sent), FALSE, FALSE)
    <3> DEFINE x == sndQ \o InCall
               full == sndPhase # "gone"
               open == sndPhase = "alive" /\ ~sndErr
               last == Len(sent)
    <3>1. x \in Seq(MqPayload) /\ Kept \in Int /\ last \in Int /\ Kept <= last
          /\ rcvControl \in BOOLEAN
      BY LineTypes
    <3>2. Carried(mq \o x, rcvControl, Taken, sent, sndFinished, Kept, full, open)
      BY <2>5
    <3> HIDE DEF x, full, open, last
    <3>3. Carried(mq, rcvControl, Taken, sent, sndFinished, last, FALSE, FALSE)
      BY <2>6, <3>1, <3>2, CarriedCut
    <3> QED
      BY <3>3 DEF last
  <2>8. Carried(mq, rcvControl, Taken, sent, sndFinished, Len(sent),
                sndPhase' # "gone", sndPhase' = "alive" /\ ~sndErr')
    <3>1. ~(sndPhase' # "gone") /\ ~(sndPhase' = "alive" /\ ~sndErr')
      BY <2>2
    <3> QED
      BY <2>7, <3>1 DEF Carried
  <2>9. rcvPc = "done" => rcvMsg.kind = "message" /\ rcvMsg.val = sent[Taken]
    BY DEF LineControl
  <2> QED
    BY <2>1, <2>2, <2>3, <2>4, <2>8, <2>9 DEF LineControl
<1> QED
  BY <1>1, <1>2, <1>3, <1>4 DEF SndEnd, SndDtorReturns, SndProcessEnds

LEMMA SndLine ==
  ASSUME HistoryTypes, SndWaitInv, StartedControl, CallControl, OwnMessageAhead, LineControl,
         SndNext, UNCHANGED rcvVars
  PROVE  LineControl'
<1>1. SndWaitTypes
  BY DEF SndWaitInv
<1> QED
  BY <1>1, SndCallLine, SndStepLine, SndOtherLine DEF SndNext, SndEvents

(* What a call writes, the sender's other steps leave alone.               *)
LEMMA SndCallSteps ==
  ASSUME HistoryTypes, SndWaitInv, CallControl, SndNext
  PROVE  CallControl'
<1> USE DEF CallControl
<1>1. CASE SndUser
  <2>1. ASSUME NEW op \in SndOps \ {"send"}, NEW raw \in {-1, S_END_SENDING, S_PING},
               WriteCtlCmd(op, raw), UNCHANGED sndPhase, sndPhase = "alive"
        PROVE  CallControl'
    <3> DEFINE c == Command(raw)
    <3>1. c \in MqPayload /\ c.kind = "command"
      BY DEF MqPayload, Command
    <3> HIDE DEF c
    <3>2. sndPc' = "write" /\ sndOp' = op /\ sndCur' = Escape /\ sndRest' = <<c>>
      BY <2>1 DEF WriteCtlCmd, Write, c
    <3> QED
      BY <2>1, <3>1, <3>2
  <2>2. ASSUME NEW m \in Message, SendBlob(m) PROVE CallControl'
    <3>1. UserMsg(m).kind = "message"
      BY DEF UserMsg
    <3> QED
      BY <2>2, <3>1 DEF SendBlob, SndIdle, Write, sndWaitVars
  <2>3. ASSUME UNCHANGED <<sndCallVars, sndPhase>>, sndPc = "idle" PROVE CallControl'
    BY <2>3 DEF sndCallVars
  <2>4. CASE StartSendBlobOps
    BY <2>1, <2>4 DEF StartSendBlobOps, SndIdle, sndWaitVars, SndOps
  <2>5. ASSUME NEW op \in {"end", "asyncEnd"}, EndSending(op) PROVE CallControl'
    BY <2>1, <2>3, <2>5 DEF EndSending, SndIdle, sndWaitVars, SndOps
  <2>6. CASE AutoPing
    BY <2>1, <2>3, <2>6 DEF AutoPing, SndIdle, sndWaitVars, SndOps
  <2> QED
    BY <1>1, <2>2, <2>4, <2>5, <2>6 DEF SndUser
<1>2. CASE SndEvents
  <2>1. CASE OnEvMqSendable
    BY <2>1 DEF OnEvMqSendable, SndIdle
  <2>2. CASE OnEvAutoPingNowTimerFired
    <3>1. CASE UNCHANGED sndCallVars
      BY <2>2, <3>1 DEF OnEvAutoPingNowTimerFired, SndIdle, sndCallVars
    <3>2. CASE WriteCtlCmd("ping", S_PING)
      <4> DEFINE c == Command(S_PING)
      <4>1. c \in MqPayload /\ c.kind = "command"
        BY DEF MqPayload, Command
      <4> HIDE DEF c
      <4>2. sndPc' = "write" /\ sndOp' = "ping" /\ sndCur' = Escape /\ sndRest' = <<c>>
            /\ sndPhase' = "alive"
        BY <2>2, <3>2 DEF OnEvAutoPingNowTimerFired, SndIdle, sndWaitVars, WriteCtlCmd, Write, c
      <4> QED
        BY <4>1, <4>2
    <3> QED
      BY <2>2, <3>1, <3>2 DEF OnEvAutoPingNowTimerFired
  <2> QED
    BY <1>2, <2>1, <2>2 DEF SndEvents
<1>3. CASE SndSteps
  <2>1. ASSUME NEW dropped \in BOOLEAN, GoOn(dropped), sndPc = "write",
               UNCHANGED <<sndPhase, sndOp, sndFinished>>
        PROVE  CallControl'
    <3>1. CASE sndPc' = "ret"
      BY <2>1, <3>1
    <3>2. CASE sndPc' # "ret"
      <4>1. /\ sndRest # <<>> /\ sndPc' = "write"
            /\ sndCur' = Head(sndRest) /\ sndRest' = Tail(sndRest)
        BY <2>1, <3>2 DEF GoOn
      <4>2. PICK c \in MqPayload : c.kind = "command" /\ sndRest = <<c>> /\ sndOp # "send"
        BY <2>1, <4>1
      <4>3. Head(<<c>>) = c /\ Tail(<<c>>) = <<>>
        OBVIOUS
      <4> QED
        BY <2>1, <4>1, <4>2, <4>3
    <3> QED
      BY <3>1, <3>2
  <2>2. CASE SyncWrite \/ QueuePayload
    BY <2>1, <2>2 DEF SyncWrite, QueuePayload, NotSent
  <2>3. CASE FlushHead
    BY <1>3, <2>3 DEF FlushHead, SndSteps
  <2>4. CASE ReturnStart \/ ReturnSend \/ ReturnEnd \/ ReturnPing \/ ReturnFlush
    BY <2>4 DEF ReturnStart, ReturnSend, ReturnEnd, ReturnPing, ReturnFlush, CallEnds
  <2> QED
    BY <1>3, <2>2, <2>3, <2>4 DEF SndSteps
<1>4. CASE SndThreads
  BY <1>4 DEF SndThreads, WaitSendableReturns, WaitSendableFails, WaitSendableEnds,
              WaitSendableInterrupted, PingTimerExpires, PingTimerSignals, sndNoWorkerVars,
              sndNoTimerVars, sndWaitVars, sndCallVars
<1>5. CASE SndEnd
  BY <1>5 DEF SndEnd, SndDtor, SndDtorReturns, SndProcessEnds, SndGone, SndIdle, sndCallVars
<1> QED
  BY <1>1, <1>2, <1>3, <1>4, <1>5 DEF SndNext

(* A step of the sender that neither accepts nor withdraws a message.      *)
LEMMA SndOwnSame ==
  ASSUME HistoryTypes, CallControl, OwnMessageAhead, SndNext, UNCHANGED <<sent, got>>
  PROVE  OwnMessageAhead'
<1> SUFFICES ASSUME sndOp' = "send" /\ (sndPc' = "write" \/ Dropped')
             PROVE  sndOp = "send" /\ (sndPc = "write" \/ Dropped)
  BY DEF OwnMessageAhead
<1> USE DEF Dropped
<1>1. CASE SndUser
  <2>1. ASSUME NEW m \in Message, SendBlob(m) PROVE FALSE
    <3>1. Len(sent') = Len(sent) + 1 /\ sent' = sent /\ Len(sent) \in Nat
      BY <2>1 DEF SendBlob, HistoryTypes
    <3> QED
      BY <3>1
  <2>2. CASE StartSendBlobOps
    BY <2>2 DEF StartSendBlobOps, WriteCtlCmd, Write
  <2>3. ASSUME NEW op \in {"end", "asyncEnd"}, EndSending(op)
        PROVE  sndOp = "send" /\ (sndPc = "write" \/ Dropped)
    BY <2>3 DEF EndSending, WriteCtlCmd, Write, SndIdle, sndCallVars
  <2>4. CASE AutoPing
    BY <2>4 DEF AutoPing, WriteCtlCmd, Write, SndIdle, sndCallVars
  <2> QED
    BY <1>1, <2>1, <2>2, <2>3, <2>4 DEF SndUser
<1>2. CASE SndEvents
  BY <1>2 DEF SndEvents, OnEvMqSendable, OnEvAutoPingNowTimerFired, WriteCtlCmd, Write, SndIdle,
              sndCallVars
<1>3. CASE SndSteps
  <2>1. CASE SyncWrite \/ QueuePayload
    BY <2>1 DEF SyncWrite, QueuePayload
  <2>2. CASE FlushHead
    BY <2>2 DEF FlushHead, CallControl
  <2>3. CASE ReturnStart \/ ReturnSend \/ ReturnEnd \/ ReturnPing \/ ReturnFlush
    BY <2>3 DEF ReturnStart, ReturnSend, ReturnEnd, ReturnPing, ReturnFlush, CallEnds
  <2> QED
    BY <1>3, <2>1, <2>2, <2>3 DEF SndSteps
<1>4. CASE SndThreads
  BY <1>4 DEF SndThreads, WaitSendableReturns, WaitSendableFails, WaitSendableEnds,
              WaitSendableInterrupted, PingTimerExpires, PingTimerSignals, sndNoWorkerVars,
              sndNoTimerVars, sndCallVars
<1>5. CASE SndEnd
  BY <1>5 DEF SndEnd, SndDtor, SndDtorReturns, SndProcessEnds, SndGone, SndIdle, sndCallVars
<1> QED
  BY <1>1, <1>2, <1>3, <1>4, <1>5 DEF SndNext

(* What a step of the sender does to the queue.                            *)
LEMMA SndQueue ==
  ASSUME HistoryTypes, SndWaitInv, SndNext
  PROVE  mq' \in Seq(MqPayload)
<1>1. mq \in Seq(MqPayload) /\ sndCur \in MqPayload /\ sndQ \in Seq(MqPayload)
  BY DEF HistoryTypes, SndWaitInv, SndWaitTypes
<1>2. CASE SndSteps
  <2>1. CASE SyncWrite
    <3>1. mq' = mq \/ mq' = Append(mq, sndCur)
      BY <2>1 DEF SyncWrite, TrySend, TrySendFails, TrySendWouldBlock
    <3> QED
      BY <1>1, <3>1
  <2>2. CASE FlushHead
    <3>1. sndQ # <<>>
      BY <1>2, <2>2 DEF SndSteps, FlushHead, SndWaitInv, SndWaitControl
    <3>2. Head(sndQ) \in MqPayload
      BY <1>1, <3>1
    <3>3. mq' = mq \/ mq' = Append(mq, Head(sndQ))
      BY <2>2 DEF FlushHead, TrySend, TrySendFails, TrySendWouldBlock
    <3> QED
      BY <1>1, <3>2, <3>3
  <2>3. CASE ~SyncWrite /\ ~FlushHead
    BY <1>1, <1>2, <2>3 DEF SndSteps, QueuePayload, ReturnStart, ReturnSend, ReturnEnd, ReturnPing,
                            ReturnFlush, sndReturnFrame, mqVars
  <2> QED
    BY <2>1, <2>2, <2>3
<1>3. CASE ~SndSteps
  BY <1>1, <1>3 DEF SndNext, SndUser, StartSendBlobOps, AutoPing, SendBlob, EndSending, SndEvents,
                    OnEvMqSendable, OnEvAutoPingNowTimerFired, SndThreads, WaitSendableReturns,
                    WaitSendableFails, WaitSendableEnds, WaitSendableInterrupted,
                    PingTimerExpires, PingTimerSignals, sndNoWorkerVars, sndNoTimerVars,
                    SndEnd, SndDtor, SndDtorReturns, SndProcessEnds, SndGone, mqVars
<1> QED
  BY <1>2, <1>3

(* What a step of the sender does to the history.                          *)
LEMMA SndSent ==
  ASSUME HistoryTypes, SndNext
  PROVE  /\ sndOp' \in SndOps /\ sndFinished' \in BOOLEAN
         /\ \/ UNCHANGED sent
            \/ \E m \in Message : SendBlob(m)
            \/ ReturnSend /\ sndErr
<1>1. CASE SndUser
  BY <1>1 DEF SndUser, StartSendBlobOps, AutoPing, SendBlob, EndSending, WriteCtlCmd, Write,
              sndCallVars, sndHistVars, HistoryTypes, SndOps
<1>2. CASE SndEvents
  BY <1>2 DEF SndEvents, OnEvMqSendable, OnEvAutoPingNowTimerFired, WriteCtlCmd, Write,
              sndCallVars, sndHistVars, HistoryTypes, SndOps
<1>3. CASE SndSteps
  BY <1>3 DEF SndSteps, SyncWrite, QueuePayload, FlushHead, ReturnStart, ReturnSend, ReturnEnd,
              ReturnPing, ReturnFlush, CallEnds, sndReturnFrame, sndHistVars, HistoryTypes, SndOps
<1>4. CASE SndThreads
  BY <1>4 DEF SndThreads, WaitSendableReturns, WaitSendableFails, WaitSendableEnds,
              WaitSendableInterrupted, PingTimerExpires, PingTimerSignals, sndNoWorkerVars,
              sndNoTimerVars, sndCallVars, sndHistVars, HistoryTypes
<1>5. CASE SndEnd
  BY <1>5 DEF SndEnd, SndDtor, SndDtorReturns, SndProcessEnds, SndGone, sndCallVars, sndHistVars,
              HistoryTypes, SndOps
<1> QED
  BY <1>1, <1>2, <1>3, <1>4, <1>5 DEF SndNext

(* The history of the sender's steps.                                      *)
LEMMA SndHistory ==
  ASSUME HistoryTypes, SndWaitInv, CallControl, OwnMessageAhead, Abstract!ReceivedIsPrefixOfSent,
         SndNext, UNCHANGED rcvVars
  PROVE  HistoryTypes' /\ OwnMessageAhead' /\ Abstract!ReceivedIsPrefixOfSent'
<1>1. UNCHANGED <<rcvControl, rcvMsg, got>>
  BY DEF rcvVars, rcvCallVars, rcvHistVars
<1>2. /\ sent \in Seq(Message) /\ got \in Seq(Message) /\ Len(sent) \in Nat /\ Len(got) \in Nat
      /\ Len(got) <= Len(sent) /\ \A i \in 1 .. Len(got) : got[i] = sent[i]
  BY DEF HistoryTypes, Abstract!ReceivedIsPrefixOfSent
<1>3. CASE UNCHANGED sent
  BY <1>1, <1>2, <1>3, SndOwnSame, SndQueue, SndSent
     DEF HistoryTypes, Abstract!ReceivedIsPrefixOfSent
<1>4. ASSUME NEW m \in Message, SendBlob(m)
      PROVE  HistoryTypes' /\ OwnMessageAhead' /\ Abstract!ReceivedIsPrefixOfSent'
  <2>1. sent' = Append(sent, m)
    BY <1>4 DEF SendBlob
  <2>2. /\ sent' \in Seq(Message) /\ Len(sent') = Len(sent) + 1
        /\ \A i \in 1 .. Len(sent) : sent'[i] = sent[i]
    BY <1>2, <2>1
  <2>3. \A i \in 1 .. Len(got) : i \in 1 .. Len(sent)
    BY <1>2
  <2> QED
    BY <1>1, <1>2, <2>2, <2>3, SndQueue, SndSent
       DEF HistoryTypes, OwnMessageAhead, Abstract!ReceivedIsPrefixOfSent
<1>5. CASE ReturnSend /\ sndErr
  <2>1. /\ sndPc = "ret" /\ sndOp = "send" /\ sndPc' = "idle"
        /\ sent' = SubSeq(sent, 1, Len(sent) - 1)
    BY <1>5 DEF ReturnSend, SndReturns, CallEnds
  <2>2. Len(got) < Len(sent)
    BY <1>5, <2>1 DEF OwnMessageAhead, Dropped
  <2>3. Len(sent) >= 1
    BY <1>2, <2>2
  <2>4. Len(sent') = Len(sent) - 1 /\ \A i \in 1 .. Len(sent) - 1 : sent'[i] = sent[i]
    BY <1>2, <2>1, <2>3, LastCut
  <2>5. \A i \in 1 .. Len(got) : i \in 1 .. Len(sent) - 1
    BY <1>2, <2>2
  <2>6. sent' \in Seq(Message)
    BY <1>2, <2>1, <2>3, LastCut
  <2> QED
    BY <1>1, <1>2, <2>1, <2>2, <2>4, <2>5, <2>6, SndQueue, SndSent
       DEF HistoryTypes, OwnMessageAhead, Dropped, Abstract!ReceivedIsPrefixOfSent
<1> QED
  BY <1>3, <1>4, <1>5, SndSent

-----------------------------------------------------------------------------
(* Steps of the receiver.                                                  *)

(* The sender's part of what is under way stays as it is.                  *)
LEMMA SenderStays ==
  ASSUME UNCHANGED sndVars
  PROVE  /\ UNCHANGED <<sndQ, sndErr, sndFinished, sndPhase, sndPc, sndOp, sndCur, sndRest, sent>>
         /\ InCall' = InCall /\ Kept' = Kept /\ Dropped' = Dropped
<1>1. UNCHANGED <<sndQ, sndErr, sndFinished, sndPhase, sndPc, sndOp, sndCur, sndRest, sent>>
  BY DEF sndVars, sndWaitVars, sndCallVars, sndHistVars
<1> QED
  BY <1>1 DEF InCall, Kept, Dropped

(* The receiver goes on, or stops, with the same ahead of it.              *)
LEMMA RcvLineSame ==
  ASSUME LineControl, UNCHANGED <<sndVars, mq>>,
         rcvPhase' = "alive" /\ ~RcvOver' =>
           /\ rcvPhase = "alive" /\ ~RcvOver
           /\ UNCHANGED <<rcvControl, got, rcvMsg>>
           /\ rcvPc' = "done" <=> rcvPc = "done"
  PROVE  LineControl'
<1> SUFFICES ASSUME rcvPhase' = "alive", ~RcvOver' PROVE LineControl'
  BY DEF LineControl
<1>1. /\ UNCHANGED <<sndQ, sndErr, sndFinished, sndPhase, sent>>
      /\ InCall' = InCall /\ Kept' = Kept
  BY SenderStays
<1>2. Line' = Line /\ Taken' = Taken
  BY <1>1 DEF Line, Taken
<1> QED
  BY <1>1, <1>2 DEF LineControl

(* One turn of the loop that meets no error: a number follows the escape,  *)
(* and nothing but a message ends the loop.                                *)
LEMMA TurnTakes ==
  ASSUME ReadPayload, ~RcvOver', rcvControl \in BOOLEAN,
         NEW p \in MqPayload, p = Head(mq), p.kind = "command" <=> rcvControl
  PROVE  /\ rcvControl' = (p.kind = "escape")
         /\ rcvPc' = IF p.kind = "message" THEN "done" ELSE "read"
         /\ mq' = Tail(mq) /\ rcvMsg' = p /\ UNCHANGED got
<1>1. /\ mq' = Tail(mq) /\ rcvMsg' = p /\ UNCHANGED got
      /\ IF rcvControl THEN OnControlCmd(p) ELSE OnPlainMsg(p)
  BY DEF ReadPayload, rcvHistVars
<1>2. ASSUME NEW e \in RcvErrors PROVE ~Fails(e)
  BY <1>2 DEF Fails, RcvOver, RcvErrors, RcvNoError, NegotiationErrors, OpposingVerInvalid,
              OpposingVerTooOld
<1>3. ASSUME NEW ver, Negotiate(ver)
      PROVE  GoAgain /\ NegotiationErr(LocalMinVer, LocalMaxVer, ver) = NoError
  <2>1. NegotiationErr(LocalMinVer, LocalMaxVer, ver) \in NegotiationErrors \cup {NoError}
    BY DEF NegotiationErr, NegotiationErrors
  <2>2. NegotiationErr(LocalMinVer, LocalMaxVer, ver) = NoError
    BY <1>2, <1>3, <2>1 DEF Negotiate, RcvErrors
  <2> QED
    BY <1>3, <2>2 DEF Negotiate
<1>4. CASE rcvControl
  <2>1. OnControlCmd(p) /\ p.kind = "command"
    BY <1>1, <1>4
  <2>2. rcvControl' = FALSE
    BY <2>1 DEF OnControlCmd
  <2>3. GoAgain
    BY <1>2, <1>3, <2>1 DEF OnControlCmd, RcvErrors
  <2> QED
    BY <1>1, <2>1, <2>2, <2>3 DEF GoAgain
<1>5. CASE ~rcvControl
  <2>1. OnPlainMsg(p) /\ p.kind # "command"
    BY <1>1, <1>5
  <2>2. CASE p = Escape
    BY <1>1, <2>1, <2>2, PayloadKinds DEF OnPlainMsg, GoAgain
  <2>3. CASE p # Escape
    <3>1. p.kind = "message" /\ rcvControl' = rcvControl
      BY <2>1, <2>3, PayloadKinds DEF OnPlainMsg
    <3>2. ~Negotiate(S_VER_UNKNOWN)
      BY <1>3 DEF NegotiationErr, NoError, OpposingVerInvalid, S_VER_UNKNOWN
    <3>3. rcvPc' = "done"
      BY <2>1, <2>3, <3>2 DEF OnPlainMsg, Emit
    <3> QED
      BY <1>1, <1>5, <3>1, <3>3
  <2> QED
    BY <2>2, <2>3
<1> QED
  BY <1>4, <1>5

(* What is at the head of the queue is the next of the line.               *)
LEMMA HeadNext ==
  ASSUME HistoryTypes, SndWaitInv, RcvWaitInv, LineControl, rcvPhase = "alive", ReadPayload
  PROVE  /\ Head(mq) \in MqPayload /\ rcvPc = "read" /\ ~RcvOver
         /\ Carried(Tail(mq) \o (sndQ \o InCall), Head(mq).kind = "escape",
                    IF Head(mq).kind = "message" THEN Len(got) + 1 ELSE Len(got),
                    sent, sndFinished, Kept, sndPhase # "gone", sndPhase = "alive" /\ ~sndErr)
         /\ Head(mq).kind = "command" <=> rcvControl
         /\ Head(mq).kind = "message" => Head(mq).val = sent[Len(got) + 1]
         /\ Head(mq) = Command(S_END_SENDING) => sndFinished /\ Len(got) = Len(sent)
<1> DEFINE full == sndPhase # "gone"
           open == sndPhase = "alive" /\ ~sndErr
           next == sndQ \o InCall
<1>1. rcvPc = "read" /\ mq # <<>> /\ ~RcvOver
  BY DEF ReadPayload, Receivable, RcvWaitInv, RcvWaitControl
<1>2. Taken = Len(got)
  BY <1>1 DEF Taken
<1>3. Carried(Line, rcvControl, Len(got), sent, sndFinished, Kept, full, open)
  BY <1>1, <1>2 DEF LineControl
<1>4. mq \in Seq(MqPayload) /\ next \in Seq(MqPayload)
  BY LineTypes DEF HistoryTypes, SndWaitInv
<1>5. Head(mq) \in MqPayload
  BY <1>1, <1>4
<1>6. Line = mq \o next
  BY DEF Line
<1>7. Kept \in Int /\ rcvControl \in BOOLEAN /\ Line \in Seq(MqPayload)
  BY LineTypes DEF SndWaitInv
<1> HIDE DEF full, open, next
<1>8. Line # <<>> /\ Line[1] = Head(mq) /\ Tail(mq) \o next = Tail(Line)
  BY <1>1, <1>4, <1>5, <1>6, LineEnds
<1>9. /\ Carried(Tail(Line), Line[1].kind = "escape",
                 IF Line[1].kind = "message" THEN Len(got) + 1 ELSE Len(got),
                 sent, sndFinished, Kept, full, open)
      /\ Line[1].kind = "command" <=> rcvControl
      /\ Line[1].kind = "message" => Line[1].val = sent[Len(got) + 1]
      /\ Line[1] = Command(S_END_SENDING) => sndFinished /\ Len(got) = Len(sent)
  BY <1>3, <1>7, <1>8, CarriedRead
<1> QED
  BY <1>1, <1>5, <1>8, <1>9 DEF full, open, next

(* A step of a call or handler.                                            *)
LEMMA RcvStepLine ==
  ASSUME HistoryTypes, SndWaitInv, RcvWaitInv, LineControl, UNCHANGED sndVars, RcvSteps
  PROVE  LineControl'
<1> SUFFICES ASSUME rcvPhase' = "alive", ~RcvOver' PROVE LineControl'
  BY DEF LineControl
<1>1. rcvPhase = "alive"
  BY DEF RcvSteps
<1>2. /\ UNCHANGED <<sndQ, sndErr, sndFinished, sndPhase, sent>>
      /\ InCall' = InCall /\ Kept' = Kept
  BY SenderStays
<1>3. CASE ReadPayload
  <2> DEFINE p == Head(mq)
             message == p.kind = "message"
  <2>1. /\ p \in MqPayload
        /\ Carried(Tail(mq) \o (sndQ \o InCall), p.kind = "escape",
                   IF message THEN Len(got) + 1 ELSE Len(got),
                   sent, sndFinished, Kept, sndPhase # "gone", sndPhase = "alive" /\ ~sndErr)
        /\ p.kind = "command" <=> rcvControl
        /\ message => p.val = sent[Len(got) + 1]
    BY <1>1, <1>3, HeadNext
  <2>2. rcvControl \in BOOLEAN
    BY DEF HistoryTypes
  <2> HIDE DEF p
  <2>3. /\ rcvControl' = (p.kind = "escape")
        /\ rcvPc' = IF message THEN "done" ELSE "read"
        /\ mq' = Tail(mq) /\ rcvMsg' = p /\ UNCHANGED got
    BY <1>3, <2>1, <2>2, TurnTakes DEF p
  <2>4. Line' = Tail(mq) \o (sndQ \o InCall)
    BY <1>2, <2>3 DEF Line
  <2>5. Taken' = IF message THEN Len(got) + 1 ELSE Len(got)
    BY <2>3 DEF Taken
  <2>6. Carried(Line', rcvControl', Taken', sent', sndFinished', Kept',
                sndPhase' # "gone", sndPhase' = "alive" /\ ~sndErr')
    BY <1>2, <2>1, <2>3, <2>4, <2>5
  <2>7. rcvPc' = "done" => rcvMsg'.kind = "message" /\ rcvMsg'.val = sent'[Taken']
    BY <1>2, <2>1, <2>3, <2>5
  <2> QED
    BY <2>6, <2>7 DEF LineControl
<1>4. CASE ReadWouldBlock
  BY <1>1, <1>4, RcvLineSame DEF ReadWouldBlock, RcvOver, mqVars, rcvHistVars
<1>5. CASE ReadFails
  BY <1>5 DEF ReadFails, Fails, RcvOver, RcvNoError
<1>6. CASE ReportResult
  <2>1. /\ rcvPc = "done" /\ ~RcvOver /\ rcvPc' = "idle" /\ got' = Append(got, rcvMsg.val)
        /\ UNCHANGED <<mq, rcvControl>>
    BY <1>6 DEF ReportResult, RcvOver, RcvNoError, mqVars
  <2>2. Len(got') = Len(got) + 1
    BY <2>1 DEF HistoryTypes
  <2>3. Line' = Line /\ Taken' = Taken
    BY <1>2, <2>1, <2>2 DEF Line, Taken
  <2> QED
    BY <1>1, <1>2, <2>1, <2>3 DEF LineControl
<1> QED
  BY <1>3, <1>4, <1>5, <1>6 DEF RcvSteps

LEMMA RcvLine ==
  ASSUME HistoryTypes, SndWaitInv, RcvWaitInv, LineControl, UNCHANGED sndVars, RcvNext
  PROVE  LineControl'
<1>1. CASE StartReceiveBlobOps \/ AsyncReceiveBlob \/ IdleTimerRun
  BY <1>1, RcvLineSame
     DEF StartReceiveBlobOps, AsyncReceiveBlob, IdleTimerRun, RcvIdle, RcvOver, mqVars, rcvWaitVars,
         rcvCallVars, rcvHistVars
<1>2. CASE OnEvIdleTimerFired \/ OnEvMqReceivable
  BY <1>2, RcvLineSame
     DEF OnEvIdleTimerFired, OnEvMqReceivable, RcvIdle, RcvOver, RcvNoError, mqVars, rcvWaitVars,
         rcvCallVars, rcvHistVars
<1>3. CASE RcvThreads
  BY <1>3, RcvLineSame
     DEF RcvThreads, WaitReceivableReturns, WaitReceivableFails, WaitReceivableEnds,
         WaitReceivableInterrupted, IdleTimerExpires, IdleTimerSignals, rcvNoWorkerVars,
         rcvNoTimerVars, RcvOver, mqVars, rcvWaitVars, rcvCallVars, rcvHistVars
<1>4. CASE RcvEnd
  BY <1>4, RcvLineSame
     DEF RcvEnd, RcvDtor, RcvDtorReturns, RcvProcessEnds, RcvGone, RcvOver, mqVars, rcvCallVars,
         rcvHistVars
<1> QED
  BY <1>1, <1>2, <1>3, <1>4, RcvStepLine DEF RcvNext, RcvUser, RcvEvents

-----------------------------------------------------------------------------
(* The history of the receiver's steps.                                    *)

(* The message reported is the next of those sent, and one that its call   *)
(* will not withdraw.                                                      *)
LEMMA NextReported ==
  ASSUME HistoryTypes, SndWaitInv, CallControl, LineControl, rcvPhase = "alive",
         ReportResult, ~RcvOver
  PROVE  /\ rcvMsg.val \in Message /\ got' = Append(got, rcvMsg.val)
         /\ Len(got) < Len(sent) /\ rcvMsg.val = sent[Len(got) + 1]
         /\ sndOp = "send" /\ (sndPc = "write" \/ Dropped) => Len(got) + 1 < Len(sent)
<1> DEFINE full == sndPhase # "gone"
           open == sndPhase = "alive" /\ ~sndErr
<1>1. rcvPc = "done" /\ got' = Append(got, rcvMsg.val) /\ Taken = Len(got) + 1
  BY DEF ReportResult, RcvOver, Taken
<1>2. /\ Carried(Line, rcvControl, Taken, sent, sndFinished, Kept, full, open)
      /\ rcvMsg.kind = "message" /\ rcvMsg.val = sent[Taken]
  BY <1>1 DEF LineControl
<1>3. rcvMsg.val \in Message
  BY <1>2, PayloadKinds DEF HistoryTypes
<1>4. /\ Line \in Seq(MqPayload) /\ rcvControl \in BOOLEAN /\ Kept \in Int /\ Kept <= Len(sent)
      /\ Len(sent) \in Nat /\ Len(got) \in Nat /\ mq \o sndQ \in Seq(MqPayload)
  BY LineTypes DEF SndWaitInv
<1> HIDE DEF full, open
<1>5. Taken <= Kept
  BY <1>2, <1>4, CarriedBound
<1>6. CASE sndOp = "send" /\ sndPc = "write"
  <2>1. sndRest = <<>> /\ sndCur.kind = "message" /\ sndCur \in MqPayload
    BY <1>6 DEF CallControl, SndWaitInv, SndWaitTypes
  <2>2. InCall = <<sndCur>>
    BY <1>6, <2>1 DEF InCall
  <2>3. Line = Append(mq \o sndQ, sndCur)
    <3>1. mq \in Seq(MqPayload) /\ sndQ \in Seq(MqPayload) /\ <<sndCur>> \in Seq(MqPayload)
      BY <2>1 DEF HistoryTypes, SndWaitInv, SndWaitTypes
    <3>2. mq \o (sndQ \o <<sndCur>>) = (mq \o sndQ) \o <<sndCur>>
      BY <3>1, ConcatAssociative
    <3>3. (mq \o sndQ) \o <<sndCur>> = Append(mq \o sndQ, sndCur)
      BY <1>4, <2>1, AppendIsConcat
    <3> QED
      BY <2>2, <3>2, <3>3 DEF Line
  <2>4. Carried(mq \o sndQ, rcvControl, Taken, sent, sndFinished, Kept - 1, full,
                sndCur.kind # "command")
    <3> DEFINE base == mq \o sndQ
    <3>1. base \in Seq(MqPayload)
      BY <1>4
    <3>2. Carried(Append(base, sndCur), rcvControl, Taken, sent, sndFinished, Kept, full, open)
      BY <1>2, <2>3
    <3> HIDE DEF base
    <3>3. Carried(base, rcvControl, Taken, sent, sndFinished, Kept - 1, full,
                  sndCur.kind # "command")
      BY <1>4, <2>1, <3>1, <3>2, CarriedDrop
    <3> QED
      BY <3>3 DEF base
  <2>5. Taken <= Kept - 1
    <3> DEFINE less == Kept - 1
               base == mq \o sndQ
               now == sndCur.kind # "command"
    <3>1. less \in Int /\ base \in Seq(MqPayload)
      BY <1>4
    <3>2. Carried(base, rcvControl, Taken, sent, sndFinished, less, full, now)
      BY <2>4
    <3> HIDE DEF less, base, now
    <3>3. Taken <= less
      BY <1>4, <3>1, <3>2, CarriedBound
    <3> QED
      BY <3>3 DEF less
  <2> QED
    BY <1>1, <1>2, <1>3, <1>4, <2>5
<1>7. CASE sndOp = "send" /\ Dropped
  <2>1. Kept = Len(sent) - 1
    BY <1>7 DEF Kept
  <2> QED
    BY <1>1, <1>2, <1>3, <1>4, <1>5, <2>1
<1>8. CASE ~(sndOp = "send" /\ (sndPc = "write" \/ Dropped))
  BY <1>1, <1>2, <1>3, <1>4, <1>5, <1>8
<1> QED
  BY <1>6, <1>7, <1>8

LEMMA RcvTypes ==
  ASSUME HistoryTypes, SndWaitInv, CallControl, LineControl, RcvWaitInv, UNCHANGED sndVars, RcvNext
  PROVE  /\ rcvControl' \in BOOLEAN /\ rcvMsg' \in MqPayload /\ mq' \in Seq(MqPayload)
         /\ UNCHANGED got \/ (RcvSteps /\ ReportResult /\ ~RcvOver)
<1> USE DEF HistoryTypes
<1>0. Escape \in MqPayload
  BY PayloadTypes
<1>1. CASE ReadPayload
  <2>1. mq # <<>> /\ mq' = Tail(mq) /\ rcvMsg' = Head(mq) /\ UNCHANGED got
    BY <1>1 DEF ReadPayload, Receivable, rcvHistVars
  <2>2. mq \in Seq(MqPayload)
    OBVIOUS
  <2>3. Head(mq) \in MqPayload /\ Tail(mq) \in Seq(MqPayload)
    BY <2>1, <2>2
  <2>4. rcvControl' \in BOOLEAN
    <3>1. CASE rcvControl
      BY <1>1, <3>1 DEF ReadPayload, OnControlCmd
    <3>2. CASE ~rcvControl
      BY <1>1, <3>2 DEF ReadPayload, OnPlainMsg
    <3> QED
      BY <3>1, <3>2
  <2> QED
    BY <2>1, <2>3, <2>4
<1>2. CASE ReportResult /\ RcvSteps
  BY <1>0, <1>2 DEF ReportResult, RcvOver, mqVars
<1>3. CASE ReadWouldBlock \/ ReadFails
  BY <1>3 DEF ReadWouldBlock, ReadFails, mqVars, rcvHistVars
<1>4. CASE RcvUser
  BY <1>4 DEF RcvUser, StartReceiveBlobOps, AsyncReceiveBlob, IdleTimerRun, mqVars, rcvCallVars,
              rcvHistVars
<1>5. CASE RcvEvents
  BY <1>5 DEF RcvEvents, OnEvIdleTimerFired, OnEvMqReceivable, mqVars, rcvCallVars, rcvHistVars
<1>6. CASE RcvThreads
  BY <1>6 DEF RcvThreads, WaitReceivableReturns, WaitReceivableFails, WaitReceivableEnds,
              WaitReceivableInterrupted, IdleTimerExpires, IdleTimerSignals, rcvNoWorkerVars,
              rcvNoTimerVars, mqVars, rcvCallVars, rcvHistVars
<1>7. CASE RcvEnd
  BY <1>0, <1>7 DEF RcvEnd, RcvDtor, RcvDtorReturns, RcvProcessEnds, RcvGone, mqVars, rcvCallVars,
                    rcvHistVars
<1> QED
  BY <1>1, <1>2, <1>3, <1>4, <1>5, <1>6, <1>7 DEF RcvNext, RcvSteps

LEMMA RcvHistory ==
  ASSUME HistoryTypes, SndWaitInv, RcvWaitInv, CallControl, LineControl, OwnMessageAhead,
         Abstract!ReceivedIsPrefixOfSent, RcvNext, UNCHANGED sndVars
  PROVE  HistoryTypes' /\ CallControl' /\ OwnMessageAhead' /\ Abstract!ReceivedIsPrefixOfSent'
<1>1. /\ UNCHANGED <<sndFinished, sndPhase, sndPc, sndOp, sndCur, sndRest, sent>>
      /\ Dropped' = Dropped
  BY SenderStays
<1>2. CallControl'
  BY <1>1 DEF CallControl
<1>3. /\ rcvControl' \in BOOLEAN /\ rcvMsg' \in MqPayload /\ mq' \in Seq(MqPayload)
      /\ UNCHANGED got \/ (RcvSteps /\ ReportResult /\ ~RcvOver)
  BY RcvTypes
<1>4. CASE UNCHANGED got
  BY <1>1, <1>2, <1>3, <1>4
     DEF HistoryTypes, OwnMessageAhead, Abstract!ReceivedIsPrefixOfSent
<1>5. CASE RcvSteps /\ ReportResult /\ ~RcvOver
  <2>1. /\ rcvMsg.val \in Message /\ got' = Append(got, rcvMsg.val)
        /\ Len(got) < Len(sent) /\ rcvMsg.val = sent[Len(got) + 1]
        /\ sndOp = "send" /\ (sndPc = "write" \/ Dropped) => Len(got) + 1 < Len(sent)
    BY <1>5, NextReported DEF RcvSteps
  <2>2. /\ got \in Seq(Message) /\ sent \in Seq(Message)
        /\ \A i \in 1 .. Len(got) : got[i] = sent[i]
    BY DEF HistoryTypes, Abstract!ReceivedIsPrefixOfSent
  <2>3. /\ got' \in Seq(Message) /\ Len(got') = Len(got) + 1
        /\ \A i \in 1 .. Len(got') : got'[i] = sent[i]
    BY <2>1, <2>2
  <2>4. Len(got) \in Nat /\ Len(sent) \in Nat
    BY <2>2
  <2>5. HistoryTypes'
    BY <1>1, <1>3, <2>3 DEF HistoryTypes
  <2>6. OwnMessageAhead'
    BY <1>1, <2>1, <2>3 DEF OwnMessageAhead
  <2>7. Abstract!ReceivedIsPrefixOfSent'
    BY <1>1, <2>1, <2>3, <2>4 DEF Abstract!ReceivedIsPrefixOfSent
  <2> QED
    BY <1>2, <2>5, <2>6, <2>7
<1> QED
  BY <1>3, <1>4, <1>5

-----------------------------------------------------------------------------
(* The invariant.                                                          *)

LEMMA InitTransfer == PipeInit => TransferInv
<1> SUFFICES ASSUME PipeInit PROVE TransferInv
  OBVIOUS
<1>1. /\ mq = <<>> /\ sndQ = <<>> /\ sndPc = "idle" /\ sndOp = "none" /\ sent = <<>>
      /\ sndFinished = FALSE /\ sndPhase = "alive" /\ sndErr = FALSE
      /\ rcvPc = "idle" /\ rcvControl = FALSE /\ got = <<>> /\ rcvMsg = Escape
  BY DEF PipeInit, MqInit, SndInit, RcvInit
<1>2. HistoryTypes
  <2>1. mq \in Seq(MqPayload) /\ sent \in Seq(Message) /\ got \in Seq(Message)
    BY <1>1
  <2>2. sndOp \in SndOps /\ sndFinished \in BOOLEAN /\ rcvControl \in BOOLEAN
    BY <1>1 DEF SndOps
  <2>3. rcvMsg \in MqPayload
    BY <1>1, PayloadTypes
  <2> QED
    BY <2>1, <2>2, <2>3 DEF HistoryTypes
<1>3. CallControl /\ OwnMessageAhead /\ Abstract!ReceivedIsPrefixOfSent
  <2>1. CallControl
    BY <1>1 DEF CallControl
  <2>2. OwnMessageAhead
    BY <1>1 DEF OwnMessageAhead, Dropped
  <2>3. Len(got) = 0 /\ Len(sent) = 0
    BY <1>1
  <2>4. Abstract!ReceivedIsPrefixOfSent
    BY <2>3 DEF Abstract!ReceivedIsPrefixOfSent
  <2> QED
    BY <2>1, <2>2, <2>4
<1>4. Line = <<>> /\ Taken = 0 /\ Kept = 0
  <2>1. <<>> \o (<<>> \o <<>>) = <<>> /\ Len(<<>>) = 0
    OBVIOUS
  <2> QED
    BY <1>1, <2>1 DEF Line, InCall, Taken, Kept, Dropped
<1>5. Carried(<<>>, FALSE, 0, sent, FALSE, 0, sndPhase # "gone", sndPhase = "alive" /\ ~sndErr)
  <2> DEFINE line == <<>>
             rank == [k \in 0 .. 0 |-> 0]
  <2>1. Len(line) = 0 /\ rank \in [0 .. 0 -> Nat] /\ rank[0] = 0
    OBVIOUS
  <2> HIDE DEF line, rank
  <2>2. Ranked(line, FALSE, 0, sent, FALSE, rank)
    BY <2>1 DEF Ranked
  <2>3. ~Escaped(line, FALSE, 0)
    BY DEF Escaped
  <2>4. Carried(line, FALSE, 0, sent, FALSE, 0, sndPhase # "gone", sndPhase = "alive" /\ ~sndErr)
    BY <2>1, <2>2, <2>3 DEF Carried
  <2> QED
    BY <2>4 DEF line
<1>6. LineControl
  <2>1. rcvPc # "done" /\ rcvControl = FALSE /\ sndFinished = FALSE
    BY <1>1
  <2>2. Carried(Line, rcvControl, Taken, sent, sndFinished, Kept,
                sndPhase # "gone", sndPhase = "alive" /\ ~sndErr)
    BY <1>4, <1>5, <2>1
  <2> QED
    BY <2>1, <2>2 DEF LineControl
<1> QED
  BY <1>2, <1>3, <1>6 DEF TransferInv

LEMMA NextTransfer == WaitInv /\ TransferInv /\ [PipeNext]_pipeVars => TransferInv'
<1> SUFFICES ASSUME WaitInv, TransferInv, [PipeNext]_pipeVars PROVE TransferInv'
  OBVIOUS
<1>1. CASE SndNext /\ UNCHANGED rcvVars
  BY <1>1, SndLine, SndHistory, SndCallSteps DEF WaitInv, TransferInv
<1>2. CASE RcvNext /\ UNCHANGED sndVars
  BY <1>2, RcvLine, RcvHistory DEF WaitInv, TransferInv
<1>3. CASE UNCHANGED pipeVars
  <2>1. UNCHANGED <<mqVars, sndVars, rcvVars>>
    BY <1>3 DEF pipeVars
  <2>2. UNCHANGED <<mq, got, rcvControl, rcvMsg, rcvPc, rcvPhase, rcvErr>>
    BY <2>1 DEF mqVars, rcvVars, rcvCallVars, rcvHistVars, rcvWaitVars
  <2>3. UNCHANGED <<sndQ, sndErr, sndFinished, sndPhase, sndPc, sndOp, sndCur, sndRest, sent>>
        /\ Dropped' = Dropped
    BY <2>1, SenderStays
  <2>4. LineControl'
    BY <2>1, <2>2, RcvLineSame DEF TransferInv, RcvOver
  <2> QED
    BY <2>2, <2>3, <2>4
       DEF TransferInv, HistoryTypes, CallControl, OwnMessageAhead, Abstract!ReceivedIsPrefixOfSent
<1> QED
  BY <1>1, <1>2, <1>3 DEF PipeNext

(* What is under way is what is still to be received, at all times.         *)
THEOREM TransferInvariant == PipeSpec => [](WaitInv /\ TransferInv)
  BY InitWait, NextWait, InitTransfer, NextTransfer, PTL DEF PipeSpec

-----------------------------------------------------------------------------
(* The stream keeps the promise of MessagePipe.                            *)

(* A call of the sender, as its users see it.                              *)
LEMMA SndStepSeen ==
  ASSUME TransferInv, SndNext, UNCHANGED rcvVars
  PROVE  [Abstract!Next]_(Abstract!vars)
<1>1. UNCHANGED <<got, rcvErr>>
  BY DEF rcvVars, rcvHistVars
<1>2. ASSUME NEW m \in Message, SendBlob(m) PROVE Abstract!Next
  <2>1. ~sndFinished /\ sent' = Append(sent, m) /\ UNCHANGED sndFinished
    BY <1>2 DEF SendBlob
  <2>2. Abstract!Send(m)
    BY <1>1, <2>1 DEF Abstract!Send
  <2> QED
    BY <2>2 DEF Abstract!Next
<1>3. ASSUME NEW op \in {"end", "asyncEnd"}, EndSending(op) PROVE Abstract!Next
  <2>1. ~sndFinished /\ sndFinished' = TRUE /\ UNCHANGED sent
    BY <1>3 DEF EndSending
  <2>2. Abstract!EndSending
    BY <1>1, <2>1 DEF Abstract!EndSending
  <2> QED
    BY <2>2 DEF Abstract!Next
<1>4. CASE ReturnSend /\ sndErr
  <2>1. /\ sndPc = "ret" /\ sndOp = "send" /\ UNCHANGED sndFinished
        /\ sent' = SubSeq(sent, 1, Len(sent) - 1)
    BY <1>4 DEF ReturnSend, SndReturns, sndReturnFrame
  <2>2. Len(got) < Len(sent)
    BY <1>4, <2>1 DEF TransferInv, OwnMessageAhead, Dropped
  <2>3. Abstract!Withdraw
    BY <1>1, <2>1, <2>2 DEF Abstract!Withdraw
  <2> QED
    BY <2>3 DEF Abstract!Next
<1>5. ASSUME UNCHANGED <<sent, sndFinished>> PROVE UNCHANGED Abstract!vars
  BY <1>1, <1>5 DEF Abstract!vars
<1>6. CASE StartSendBlobOps \/ AutoPing
  BY <1>5, <1>6 DEF StartSendBlobOps, AutoPing, sndHistVars
<1>7. CASE SndSteps /\ ~(ReturnSend /\ sndErr)
  BY <1>5, <1>7 DEF SndSteps, SyncWrite, QueuePayload, FlushHead, ReturnStart, ReturnSend,
                    ReturnEnd, ReturnPing, ReturnFlush, sndReturnFrame, sndHistVars
<1>8. CASE SndEvents
  BY <1>5, <1>8 DEF SndEvents, OnEvMqSendable, OnEvAutoPingNowTimerFired, sndHistVars
<1>9. CASE SndThreads
  BY <1>5, <1>9 DEF SndThreads, WaitSendableReturns, WaitSendableFails, WaitSendableEnds,
                    WaitSendableInterrupted, PingTimerExpires, PingTimerSignals,
                    sndNoWorkerVars, sndNoTimerVars, sndHistVars
<1>10. CASE SndEnd
  BY <1>5, <1>10 DEF SndEnd, SndDtor, SndDtorReturns, SndProcessEnds, SndGone, sndHistVars
<1> QED
  BY <1>2, <1>3, <1>4, <1>6, <1>7, <1>8, <1>9, <1>10 DEF SndNext, SndUser

(* An error stops the receiver once; and that of the end of sending comes  *)
(* after all messages.                                                     *)
LEMMA ErrorSeen ==
  ASSUME ~RcvOver, UNCHANGED <<sent, sndFinished, got>>,
         rcvErr' = "RECEIVES_FINISHED_CANNOT_RECEIVE" => sndFinished /\ got = sent
  PROVE  [Abstract!Next]_(Abstract!vars)
<1> USE DEF RcvOver, RcvNoError
<1>1. CASE rcvErr' = rcvErr
  BY <1>1 DEF Abstract!vars
<1>2. CASE rcvErr' = "RECEIVES_FINISHED_CANNOT_RECEIVE"
  <2>1. Abstract!ReceiveEnd
    BY <1>2 DEF Abstract!ReceiveEnd
  <2> QED
    BY <2>1 DEF Abstract!Next
<1>3. CASE rcvErr' # rcvErr /\ rcvErr' # "RECEIVES_FINISHED_CANNOT_RECEIVE"
  <2>1. Abstract!Fail
    BY <1>3 DEF Abstract!Fail
  <2> QED
    BY <2>1 DEF Abstract!Next
<1> QED
  BY <1>1, <1>2, <1>3

(* The end of sending is what its command says.                            *)
LEMMA FinishedByCommand ==
  ASSUME ReadPayload, ~RcvOver, NEW p \in MqPayload, p = Head(mq),
         rcvErr' = "RECEIVES_FINISHED_CANNOT_RECEIVE"
  PROVE  p = Command(S_END_SENDING)
<1>1. IF rcvControl THEN OnControlCmd(p) ELSE OnPlainMsg(p)
  BY DEF ReadPayload
<1>2. ASSUME NEW ver, Negotiate(ver) PROVE FALSE
  BY <1>2 DEF Negotiate, NegotiationErr, GoAgain, Fails, RcvOver, RcvNoError, NoError,
              OpposingVerInvalid, OpposingVerTooOld
<1>3. rcvControl /\ p.kind = "command" /\ p.val = S_END_SENDING
  BY <1>1, <1>2 DEF OnControlCmd, OnPlainMsg, GoAgain, Fails, RcvOver, RcvNoError
<1> QED
  BY <1>3, PayloadKinds

(* Two histories with one a prefix of the other, and as long, are the same.*)
LEMMA AllReceived ==
  ASSUME HistoryTypes, Abstract!ReceivedIsPrefixOfSent, Len(got) = Len(sent)
  PROVE  got = sent
<1>1. got \in Seq(Message) /\ sent \in Seq(Message) /\ \A i \in 1 .. Len(got) : got[i] = sent[i]
  BY DEF HistoryTypes, Abstract!ReceivedIsPrefixOfSent
<1> QED
  BY <1>1, SeqEqual

(* A step of the receiver, as its users see it.                            *)
LEMMA RcvStepSeen ==
  ASSUME WaitInv, TransferInv, RcvNext, UNCHANGED sndVars
  PROVE  [Abstract!Next]_(Abstract!vars)
<1> USE DEF WaitInv, TransferInv
<1>1. UNCHANGED <<sent, sndFinished>>
  BY SenderStays
<1>2. ASSUME UNCHANGED <<got, rcvErr>> PROVE UNCHANGED Abstract!vars
  BY <1>1, <1>2 DEF Abstract!vars
<1>3. CASE RcvSteps /\ ReadPayload
  <2>1. /\ ~RcvOver /\ Head(mq) \in MqPayload
        /\ Head(mq) = Command(S_END_SENDING) => sndFinished /\ Len(got) = Len(sent)
    BY <1>3, HeadNext DEF RcvSteps
  <2>2. rcvErr' = "RECEIVES_FINISHED_CANNOT_RECEIVE" => sndFinished /\ got = sent
    BY <1>3, <2>1, FinishedByCommand, AllReceived
  <2>3. UNCHANGED got
    BY <1>3 DEF ReadPayload, rcvHistVars
  <2> QED
    BY <1>1, <2>1, <2>2, <2>3, ErrorSeen
<1>4. CASE RcvSteps /\ ReadFails
  <2>1. ~RcvOver /\ UNCHANGED got /\ rcvErr' = "SYS_ERROR"
    BY <1>4 DEF RcvSteps, ReadFails, Fails, rcvHistVars, RcvWaitInv, RcvWaitControl
  <2> QED
    BY <1>1, <2>1, ErrorSeen
<1>5. CASE OnEvIdleTimerFired
  <2>1. CASE RcvOver
    BY <1>2, <1>5, <2>1 DEF OnEvIdleTimerFired
  <2>2. CASE ~RcvOver
    <3>1. UNCHANGED got /\ rcvErr' = "RECEIVER_IDLE_TIMEOUT"
      BY <1>5, <2>2 DEF OnEvIdleTimerFired
    <3> QED
      BY <1>1, <2>2, <3>1, ErrorSeen
  <2> QED
    BY <2>1, <2>2
<1>6. CASE RcvSteps /\ ReportResult
  <2>1. CASE RcvOver
    BY <1>2, <1>6, <2>1 DEF ReportResult, RcvOver
  <2>2. CASE ~RcvOver
    <3>1. /\ got' = Append(got, rcvMsg.val) /\ rcvMsg.val = sent[Len(got) + 1]
          /\ Len(got) < Len(sent)
      BY <1>6, <2>2, NextReported DEF RcvSteps
    <3>2. UNCHANGED rcvErr
      BY <1>6 DEF ReportResult
    <3>3. rcvErr = RcvNoError /\ got' = Append(got, sent[Len(got) + 1])
      BY <2>2, <3>1 DEF RcvOver
    <3>4. Abstract!Receive
      BY <1>1, <3>1, <3>2, <3>3 DEF Abstract!Receive, RcvNoError
    <3> QED
      BY <3>4 DEF Abstract!Next
  <2> QED
    BY <2>1, <2>2
<1>7. CASE RcvSteps /\ ReadWouldBlock
  BY <1>2, <1>7 DEF ReadWouldBlock, rcvHistVars
<1>8. CASE RcvUser \/ OnEvMqReceivable
  BY <1>2, <1>8 DEF RcvUser, StartReceiveBlobOps, AsyncReceiveBlob, IdleTimerRun,
                    OnEvMqReceivable, rcvHistVars
<1>9. CASE RcvThreads
  BY <1>2, <1>9 DEF RcvThreads, WaitReceivableReturns, WaitReceivableFails, WaitReceivableEnds,
                    WaitReceivableInterrupted, IdleTimerExpires, IdleTimerSignals,
                    rcvNoWorkerVars, rcvNoTimerVars, rcvHistVars
<1>10. CASE RcvEnd
  BY <1>2, <1>10 DEF RcvEnd, RcvDtor, RcvDtorReturns, RcvProcessEnds, RcvGone, rcvHistVars
<1> QED
  BY <1>3, <1>4, <1>5, <1>6, <1>7, <1>8, <1>9, <1>10 DEF RcvNext, RcvEvents, RcvSteps

(* The stream implements MessagePipe: whatever the queue, the threads, the *)
(* timers, errors and the end of either process do, each message given to  *)
(* the receiver is the next one sent, a withdrawn one never arrives, and   *)
(* the end of sending comes last.                                          *)
THEOREM ImplementsMessagePipeHolds == PipeSpec => ImplementsMessagePipe
<1>1. PipeInit => Abstract!Init
  BY DEF PipeInit, SndInit, RcvInit, Abstract!Init, RcvNoError
<1>2. WaitInv /\ TransferInv /\ [PipeNext]_pipeVars => [Abstract!Next]_(Abstract!vars)
  <2> SUFFICES ASSUME WaitInv, TransferInv, [PipeNext]_pipeVars
               PROVE  [Abstract!Next]_(Abstract!vars)
    OBVIOUS
  <2>1. CASE UNCHANGED pipeVars
    <3>1. UNCHANGED <<sent, sndFinished, got, rcvErr>>
      BY <2>1 DEF pipeVars, sndVars, sndHistVars, rcvVars, rcvHistVars
    <3> QED
      BY <3>1 DEF Abstract!vars
  <2> QED
    BY <2>1, SndStepSeen, RcvStepSeen DEF PipeNext
<1>3. PipeSpec => Abstract!Spec
  BY <1>1, <1>2, TransferInvariant, PTL DEF PipeSpec, Abstract!Spec
<1> QED
  BY <1>3 DEF ImplementsMessagePipe

-----------------------------------------------------------------------------
(* Consequences of MessagePipe, whatever implements it.                    *)

PromiseInv ==
  /\ sent \in Seq(Message) /\ got \in Seq(Message)
  /\ Abstract!ReceivedIsPrefixOfSent /\ Abstract!FinishedMeansAllReceived

(* Told of the end, the receiver has everything, and so it stays.          *)
LEMMA FinishedStays ==
  ASSUME Abstract!FinishedMeansAllReceived, [Abstract!Next]_(Abstract!vars)
  PROVE  Abstract!FinishedMeansAllReceived'
<1> DEFINE status == CASE rcvErr = RcvNoError -> "open"
                       [] rcvErr = "RECEIVES_FINISHED_CANNOT_RECEIVE" -> "finished"
                       [] OTHER -> "failed"
<1> SUFFICES ASSUME status = "finished" => sndFinished /\ got = sent
             PROVE  status' = "finished" => sndFinished' /\ got' = sent'
  BY DEF Abstract!FinishedMeansAllReceived
<1>1. \/ status' = status /\ UNCHANGED <<sent, got, sndFinished>>
      \/ ~sndFinished /\ UNCHANGED <<got, status>>
      \/ got # sent /\ UNCHANGED <<got, status, sndFinished>>
      \/ status = "open" /\ UNCHANGED status
      \/ sndFinished' /\ got' = sent'
      \/ status' = "failed"
  BY DEF Abstract!Next, Abstract!Send, Abstract!Withdraw, Abstract!EndSending, Abstract!Receive,
         Abstract!ReceiveEnd, Abstract!Fail, Abstract!vars
<1> HIDE DEF status
<1> QED
  BY <1>1

(* What was received stays a prefix of what was sent.                      *)
LEMMA PrefixStays ==
  ASSUME PromiseInv, [Abstract!Next]_(Abstract!vars)
  PROVE  sent' \in Seq(Message) /\ got' \in Seq(Message) /\ Abstract!ReceivedIsPrefixOfSent'
<1> USE DEF Abstract!ReceivedIsPrefixOfSent
<1>1. /\ sent \in Seq(Message) /\ got \in Seq(Message) /\ Len(got) \in Nat /\ Len(sent) \in Nat
      /\ Len(got) <= Len(sent) /\ \A i \in 1 .. Len(got) : got[i] = sent[i]
  BY DEF PromiseInv
<1>2. ASSUME NEW m \in Message, Abstract!Send(m)
      PROVE  sent' \in Seq(Message) /\ got' \in Seq(Message) /\ Abstract!ReceivedIsPrefixOfSent'
  <2>1. sent' = Append(sent, m) /\ got' = got
    BY <1>2 DEF Abstract!Send
  <2> QED
    BY <1>1, <2>1
<1>3. CASE Abstract!Withdraw
  <2>1. sent' = SubSeq(sent, 1, Len(sent) - 1) /\ got' = got /\ Len(got) < Len(sent)
    BY <1>3 DEF Abstract!Withdraw
  <2>2. /\ sent' \in Seq(Message) /\ Len(sent') = Len(sent) - 1
        /\ \A i \in 1 .. Len(sent) - 1 : sent'[i] = sent[i]
    BY <1>1, <2>1, LastCut
  <2>3. \A i \in 1 .. Len(got) : i \in 1 .. Len(sent) - 1
    BY <1>1, <2>1
  <2> QED
    BY <1>1, <2>1, <2>2, <2>3
<1>4. CASE Abstract!Receive
  <2>1. got' = Append(got, sent[Len(got) + 1]) /\ sent' = sent /\ Len(got) < Len(sent)
    BY <1>4 DEF Abstract!Receive
  <2>2. sent[Len(got) + 1] \in Message
    BY <1>1, <2>1
  <2> QED
    BY <1>1, <2>1, <2>2
<1>5. CASE UNCHANGED <<sent, got>>
  BY <1>1, <1>5
<1> QED
  BY <1>2, <1>3, <1>4, <1>5
     DEF Abstract!Next, Abstract!EndSending, Abstract!ReceiveEnd, Abstract!Fail, Abstract!vars

(* An implementation of MessagePipe gives the receiver a prefix of the     *)
(* messages sent, and reports the end after all of them.                   *)
THEOREM PromiseKept ==
  Abstract!Spec => [](Abstract!ReceivedIsPrefixOfSent /\ Abstract!FinishedMeansAllReceived)
<1>1. Abstract!Init => PromiseInv
  <2> SUFFICES ASSUME Abstract!Init PROVE PromiseInv
    OBVIOUS
  <2>1. sent = <<>> /\ got = <<>>
    BY DEF Abstract!Init
  <2>2. Len(sent) = 0 /\ Len(got) = 0 /\ sent \in Seq(Message) /\ got \in Seq(Message)
    BY <2>1
  <2>3. Abstract!ReceivedIsPrefixOfSent
    BY <2>2 DEF Abstract!ReceivedIsPrefixOfSent
  <2>4. Abstract!FinishedMeansAllReceived
    BY DEF Abstract!Init, Abstract!FinishedMeansAllReceived
  <2> QED
    BY <2>2, <2>3, <2>4 DEF PromiseInv
<1>2. PromiseInv /\ [Abstract!Next]_(Abstract!vars) => PromiseInv'
  BY FinishedStays, PrefixStays DEF PromiseInv
<1>3. PromiseInv => Abstract!ReceivedIsPrefixOfSent /\ Abstract!FinishedMeansAllReceived
  BY DEF PromiseInv
<1> QED
  BY <1>1, <1>2, <1>3, PTL DEF Abstract!Spec

(* The receiver of a message-queue stream has a prefix of the messages     *)
(* sent, whatever was withdrawn.                                           *)
THEOREM PrefixReceived == PipeSpec => []Abstract!ReceivedIsPrefixOfSent
  BY PromiseKept, ImplementsMessagePipeHolds, PTL DEF ImplementsMessagePipe

(* The receiver is told of the end of sending after everything it sent.    *)
THEOREM EndIsLast == PipeSpec => []Abstract!FinishedMeansAllReceived
  BY PromiseKept, ImplementsMessagePipeHolds, PTL DEF ImplementsMessagePipe
=============================================================================
