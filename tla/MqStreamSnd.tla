---------------------------- MODULE MqStreamSnd ----------------------------
(***************************************************************************)
(* sync_io::Blob_stream_mq_sender_impl (blob_stream_mq_snd_impl.hpp), over *)
(* a queue of either kind: one with a kernel-waitable handle               *)
(* (Posix_mq_handle), or one without (Bipc_mq_handle), for which a worker  *)
(* thread W blocks in wait_sendable() and then makes a pipe readable.      *)
(*                                                                         *)
(* Thread U runs one call or handler at a time, as a sequence of steps     *)
(* (sndPc) with at most one try_send() each; between two of them the other *)
(* process may take messages, and W may run:                               *)
(*   "write"  one sync_write_or_q_payload(): send or queue sndCur          *)
(*   "flush"  one try_send() of the head of the queue                      *)
(*   "ret"    what the caller does once that is over                       *)
(* A refused call changes nothing and is no step.                          *)
(***************************************************************************)
EXTENDS MqWire

CONSTANTS
  MaxSends,  \* bound: calls of send_blob() that are let through
  MaxPings   \* bound: expirations of the auto-ping timer

ASSUME MqSndAssumption == MaxSends \in Nat /\ MaxPings \in Nat

VARIABLES
  sndStarted,   \* start_send_blob_ops() was called
  sndQ,         \* m_pending_payloads_q
  sndErr,       \* m_pending_err_code is set
  sndFinished,  \* m_finished
  sndOnDone,    \* m_pending_on_last_send_done_func_or_empty is not empty
  sndEvWait,    \* the event loop waits for m_ev_wait_hndl_mq
  sndW,         \* thread W: "idle", or "waiting" in wait_sendable()
  sndReady,     \* bytes in the pipe that W writes
  sndIntr,      \* interrupt_sends() was called on m_mq
  sndPhase,     \* "alive", "joining" W in the destructor, "gone"
  pingOn,       \* m_auto_ping_period is not zero
  pingWaits, pingFired, pingBytes,   \* m_auto_ping_timer and its pipe
  pingEvWait,   \* the event loop waits for that pipe to be readable
  sndPc, sndOp, sndCur, sndRest,     \* the call in progress
  sent,         \* history: messages of accepted calls, in order
  endCall,      \* history: what became of async_end_sending()
  pings         \* history: expirations of the auto-ping timer

PingTimer == INSTANCE TimerEventEmitter
               WITH waits <- pingWaits, fired <- pingFired, bytes <- pingBytes

pingTimerVars == <<pingWaits, pingFired, pingBytes>>
pingVars == <<pingOn, pingTimerVars, pingEvWait, pings>>
sndCallVars == <<sndPc, sndOp, sndCur, sndRest>>
sndWaitVars == <<sndEvWait, sndW, sndReady, sndIntr, sndPhase>>
sndHistVars == <<sent, endCall>>
sndVars == <<sndStarted, sndQ, sndErr, sndFinished, sndOnDone, sndWaitVars,
             pingVars, sndCallVars, sndHistVars>>

SndOps == {"none", "start", "send", "end", "asyncEnd", "ping", "flush"}

(* Types of the sender.                                                    *)
SndTypeOK ==
  /\ MqTypeOK /\ sndStarted \in BOOLEAN
  /\ sndQ \in Seq(MqPayload)
  /\ sndErr \in BOOLEAN /\ sndFinished \in BOOLEAN /\ sndOnDone \in BOOLEAN
  /\ sndEvWait \in BOOLEAN /\ sndW \in {"idle", "waiting"} /\ sndReady \in Nat
  /\ sndIntr \in BOOLEAN /\ sndPhase \in {"alive", "joining", "gone"}
  /\ pingOn \in BOOLEAN /\ pingEvWait \in BOOLEAN /\ PingTimer!TypeOK
  /\ sndPc \in {"idle", "write", "flush", "ret"} /\ sndOp \in SndOps
  /\ sndCur \in MqPayload /\ sndRest \in Seq(MqPayload)
  /\ sent \in Seq(Message) /\ pings \in Nat
  /\ endCall \in {"none", "running", "sync", "wouldBlock", "called"}

SndInit ==
  /\ sndStarted = FALSE /\ sndQ = <<>> /\ sndErr = FALSE
  /\ sndFinished = FALSE /\ sndOnDone = FALSE
  /\ sndEvWait = FALSE /\ sndW = "idle" /\ sndReady = 0
  /\ sndIntr = FALSE /\ sndPhase = "alive"
  /\ pingOn = FALSE /\ PingTimer!Init /\ pingEvWait = FALSE /\ pings = 0
  /\ sndPc = "idle" /\ sndOp = "none" /\ sndCur = Escape /\ sndRest = <<>>
  /\ sent = <<>> /\ endCall = "none"

-----------------------------------------------------------------------------
(* Calls.                                                                  *)

SndIdle == sndPc = "idle" /\ sndPhase = "alive"

(* sync_write_or_q_payload() of `first`, then of those in `rest`.          *)
Write(op, first, rest) ==
  sndPc' = "write" /\ sndOp' = op /\ sndCur' = first /\ sndRest' = rest

(* sync_write_or_q_ctl_cmd_impl().                                         *)
WriteCtlCmd(op, raw) == Write(op, Escape, <<Command(raw)>>)

StartSendBlobOps ==
  /\ SndIdle /\ ~sndStarted
  /\ sndStarted' = TRUE
  /\ WriteCtlCmd("start", -1)
  /\ UNCHANGED <<mqVars, sndQ, sndErr, sndFinished, sndOnDone, sndWaitVars, pingVars, sndHistVars>>

SendBlob(m) ==
  /\ SndIdle /\ sndStarted /\ ~sndFinished /\ ~sndErr
  /\ Len(sent) < MaxSends
  /\ Write("send", UserMsg(m), <<>>)
  /\ sent' = Append(sent, m)
  /\ UNCHANGED <<mqVars, sndStarted, sndQ, sndErr, sndFinished, sndOnDone, sndWaitVars, pingVars,
                 endCall>>

(* end_sending() with op "end", async_end_sending() with "asyncEnd".       *)
EndSending(op) ==
  /\ SndIdle /\ sndStarted /\ ~sndFinished
  /\ sndFinished' = TRUE
  /\ IF sndErr
       THEN endCall' = "sync" /\ UNCHANGED sndCallVars
       ELSE endCall' = "running" /\ WriteCtlCmd(op, S_END_SENDING)
  /\ UNCHANGED <<mqVars, sndStarted, sndQ, sndErr, sndOnDone, sndWaitVars, pingVars, sent>>

AutoPing ==
  /\ SndIdle /\ sndStarted /\ ~sndFinished /\ ~pingOn
  /\ pingOn' = TRUE
  /\ IF sndErr THEN UNCHANGED sndCallVars ELSE WriteCtlCmd("ping", S_PING)
  /\ UNCHANGED <<mqVars, sndStarted, sndQ, sndErr, sndFinished, sndOnDone, sndWaitVars,
                 pingTimerVars, pingEvWait, pings, sndHistVars>>

-----------------------------------------------------------------------------
(* Handlers the event loop runs.                                           *)

OnEvAutoPingNowTimerFired ==
  /\ SndIdle /\ pingEvWait
  /\ PingTimer!Consume
  /\ pingEvWait' = FALSE
  /\ IF sndErr \/ sndFinished THEN UNCHANGED sndCallVars ELSE WriteCtlCmd("ping", S_PING)
  /\ UNCHANGED <<mqVars, sndStarted, sndQ, sndErr, sndFinished, sndOnDone, sndWaitVars,
                 pingOn, pings, sndHistVars>>

(* The wait is over: the queue's own handle is writable, or W's pipe is    *)
(* readable, whose byte is consumed.                                       *)
OnEvMqSendable ==
  /\ SndIdle /\ sndEvWait
  /\ IF nativeHandle THEN Sendable /\ UNCHANGED sndReady
                     ELSE sndReady > 0 /\ sndReady' = sndReady - 1
  /\ sndEvWait' = FALSE
  /\ sndPc' = "flush" /\ sndOp' = "flush" /\ UNCHANGED <<sndCur, sndRest>>
  /\ UNCHANGED <<mqVars, sndStarted, sndQ, sndErr, sndFinished, sndOnDone, sndW, sndIntr, sndPhase,
                 pingVars, sndHistVars>>

-----------------------------------------------------------------------------
(* Steps of a call or handler.                                             *)

(* try_send(): sent, would-block, or a system error.                       *)
TrySend(p) == Sendable /\ mq' = Append(mq, p) /\ UNCHANGED sndErr
TrySendWouldBlock == ~Sendable /\ UNCHANGED <<mq, sndErr>>
TrySendFails == sndErr' = TRUE /\ UNCHANGED mq

WorkerNotAsked == UNCHANGED sndW   \* mutant
AskWorker == sndW' = IF nativeHandle THEN sndW ELSE "waiting"

(* async_write_q_head_payload().                                           *)
AsyncWriteQHead == sndEvWait' = TRUE /\ AskWorker

(* Only payload 1 of a ping is dropped rather than queued.                 *)
AvoidQing == sndOp = "ping" /\ sndCur = Escape

(* The next payload of the call, unless there is an error or this one was  *)
(* dropped.                                                                *)
GoOn(dropped) ==
  IF sndRest = <<>> \/ dropped \/ sndErr'
    THEN sndPc' = "ret" /\ UNCHANGED <<sndCur, sndRest>>
    ELSE sndPc' = "write" /\ sndCur' = Head(sndRest) /\ sndRest' = Tail(sndRest)

NeverBehind == FALSE   \* mutant
BehindOthers == sndQ # <<>>

(* A payload not sent is dropped, or queued; the first one queued starts   *)
(* the wait.                                                               *)
NotSent ==
  IF AvoidQing
    THEN GoOn(TRUE) /\ UNCHANGED <<sndQ, sndEvWait, sndW>>
    ELSE /\ GoOn(FALSE)
         /\ sndQ' = Append(sndQ, sndCur)
         /\ IF sndQ = <<>> THEN AsyncWriteQHead ELSE UNCHANGED <<sndEvWait, sndW>>

(* sync_write_or_q_payload(), the queue being empty.                       *)
SyncWrite ==
  /\ sndPc = "write" /\ ~BehindOthers
  /\ \/ (TrySend(sndCur) \/ TrySendFails) /\ GoOn(FALSE) /\ UNCHANGED <<sndQ, sndEvWait, sndW>>
     \/ TrySendWouldBlock /\ NotSent
  /\ UNCHANGED <<nativeHandle, sndStarted, sndFinished, sndOnDone, sndReady, sndIntr, sndPhase, pingVars,
                 sndOp, sndHistVars>>

(* The same with others queued: no system call is made.                    *)
QueuePayload ==
  /\ sndPc = "write" /\ BehindOthers
  /\ UNCHANGED sndErr /\ NotSent
  /\ UNCHANGED <<mqVars, sndStarted, sndFinished, sndOnDone, sndReady, sndIntr, sndPhase, pingVars,
                 sndOp, sndHistVars>>

(* The next step of the call touches the queue.                            *)
AboutToTrySend == sndPc = "flush" \/ (sndPc = "write" /\ ~BehindOthers)

(* One turn of the loop of the sendable-handler.                           *)
FlushHead ==
  /\ sndPc = "flush"
  /\ \/ /\ TrySend(Head(sndQ))
        /\ sndQ' = Tail(sndQ)
        /\ sndPc' = IF Tail(sndQ) = <<>> THEN "ret" ELSE "flush"
        /\ UNCHANGED <<sndEvWait, sndW>>
     \/ TrySendFails /\ sndPc' = "ret" /\ UNCHANGED <<sndQ, sndEvWait, sndW>>
     \/ TrySendWouldBlock /\ sndPc' = "ret" /\ AsyncWriteQHead /\ UNCHANGED sndQ
  /\ UNCHANGED <<nativeHandle, sndStarted, sndFinished, sndOnDone, sndReady, sndIntr, sndPhase, pingVars,
                 sndOp, sndCur, sndRest, sndHistVars>>

SndReturns(ops) == sndPc = "ret" /\ sndOp \in ops
CallEnds == sndPc' = "idle" /\ sndOp' = "none" /\ sndCur' = Escape /\ sndRest' = <<>>
sndReturnFrame == <<mqVars, sndStarted, sndQ, sndErr, sndFinished, sndWaitVars>>

ReturnStart ==
  /\ SndReturns({"start"}) /\ CallEnds
  /\ UNCHANGED <<sndReturnFrame, sndOnDone, pingVars, sndHistVars>>

(* A message whose call emits an error does not count as sent.             *)
ReturnSend ==
  /\ SndReturns({"send"}) /\ CallEnds
  /\ IF pingOn /\ ~sndErr THEN PingTimer!Postpone ELSE UNCHANGED pingTimerVars
  /\ sent' = IF sndErr THEN SubSeq(sent, 1, Len(sent) - 1) ELSE sent
  /\ UNCHANGED <<sndReturnFrame, sndOnDone, pingOn, pingEvWait, pings, endCall>>

OnDoneForgotten == FALSE   \* mutant
OnDoneSaved == sndOp = "asyncEnd"

(* async_end_sending_impl() after the writes: the handler is saved only if *)
(* something is queued.                                                    *)
Qd == ~sndErr /\ sndQ # <<>>
ReturnEnd ==
  /\ SndReturns({"end", "asyncEnd"}) /\ CallEnds
  /\ IF Qd /\ sndOp = "asyncEnd"
       THEN sndOnDone' = OnDoneSaved /\ endCall' = "wouldBlock"
       ELSE UNCHANGED sndOnDone /\ endCall' = "sync"
  /\ UNCHANGED <<sndReturnFrame, pingVars, sent>>

ReturnPing ==
  /\ SndReturns({"ping"}) /\ CallEnds
  /\ IF sndErr THEN UNCHANGED <<pingEvWait, pingTimerVars>>
               ELSE pingEvWait' = TRUE /\ PingTimer!Schedule
  /\ UNCHANGED <<sndReturnFrame, sndOnDone, pingOn, pings, sndHistVars>>

ReturnFlush ==
  /\ SndReturns({"flush"}) /\ CallEnds
  /\ IF sndOnDone /\ (sndErr \/ sndQ = <<>>)
       THEN sndOnDone' = FALSE /\ endCall' = "called"
       ELSE UNCHANGED <<sndOnDone, endCall>>
  /\ UNCHANGED <<sndReturnFrame, pingVars, sent>>

-----------------------------------------------------------------------------
(* Threads W.                                                              *)

sndNoWorkerVars ==
  <<mqVars, sndStarted, sndQ, sndErr, sndFinished, sndOnDone, sndEvWait, sndIntr,
    sndPhase, pingVars, sndCallVars, sndHistVars>>

(* wait_sendable() returns, because there is room or with some error, and  *)
(* either way the pipe gets its byte; or because of interrupt_sends().     *)
WaitSendableEnds ==
  /\ sndPhase # "gone" /\ sndW = "waiting"
  /\ sndW' = "idle" /\ sndReady' = sndReady + 1
  /\ UNCHANGED sndNoWorkerVars

WaitSendableReturns == Sendable /\ WaitSendableEnds
WaitSendableFails == ~Sendable /\ WaitSendableEnds

WaitSendableInterrupted ==
  /\ sndPhase # "gone" /\ sndW = "waiting" /\ sndIntr
  /\ sndW' = "idle"
  /\ UNCHANGED <<sndReady, sndNoWorkerVars>>

sndNoTimerVars ==
  <<mqVars, sndStarted, sndQ, sndErr, sndFinished, sndOnDone, sndWaitVars, pingOn,
    pingEvWait, sndCallVars, sndHistVars>>

PingTimerExpires ==
  /\ sndPhase = "alive" /\ pings < MaxPings
  /\ PingTimer!Expire /\ pings' = pings + 1
  /\ UNCHANGED sndNoTimerVars

PingTimerSignals ==
  /\ sndPhase = "alive"
  /\ PingTimer!Signal
  /\ UNCHANGED <<pings, sndNoTimerVars>>

-----------------------------------------------------------------------------
(* The end of the sender.                                                  *)

NotInterrupted == UNCHANGED sndIntr   \* mutant
InterruptSends == sndIntr' = TRUE

(* ~Blob_stream_mq_sender_impl(): thread U joins W.                        *)
SndDtor ==
  /\ SndIdle
  /\ sndPhase' = "joining"
  /\ IF nativeHandle THEN UNCHANGED sndIntr ELSE InterruptSends
  /\ UNCHANGED <<mqVars, sndStarted, sndQ, sndErr, sndFinished, sndOnDone, sndEvWait, sndW, sndReady,
                 pingVars, sndCallVars, sndHistVars>>

(* The object's memory is gone, whatever was in it; the queue is not.      *)
SndGone ==
  /\ sndPhase' = "gone"
  /\ sndQ' = <<>> /\ sndOnDone' = FALSE
  /\ sndEvWait' = FALSE /\ sndW' = "idle" /\ sndReady' = 0 /\ sndIntr' = FALSE
  /\ pingOn' = FALSE /\ pingWaits' = 0 /\ pingFired' = 0 /\ pingBytes' = 0 /\ pingEvWait' = FALSE
  /\ sndPc' = "idle" /\ sndOp' = "none" /\ sndCur' = Escape /\ sndRest' = <<>>
  /\ UNCHANGED <<mqVars, sndStarted, sndErr, sndFinished, pings, sndHistVars>>

SndDtorReturns == sndPhase = "joining" /\ sndW = "idle" /\ SndGone

(* The process ends, at any point.                                         *)
SndProcessEnds == sndPhase # "gone" /\ SndGone

SndUser ==
  \/ StartSendBlobOps \/ AutoPing
  \/ \E m \in Message : SendBlob(m)
  \/ EndSending("end") \/ EndSending("asyncEnd")
SndSteps ==
  /\ sndPhase = "alive"
  /\ \/ SyncWrite \/ QueuePayload \/ FlushHead
     \/ ReturnStart \/ ReturnSend \/ ReturnEnd \/ ReturnPing \/ ReturnFlush
SndEvents == OnEvAutoPingNowTimerFired \/ OnEvMqSendable
SndThreads ==
  WaitSendableReturns \/ WaitSendableFails \/ WaitSendableInterrupted
  \/ PingTimerExpires \/ PingTimerSignals
SndEnd == SndDtor \/ SndDtorReturns \/ SndProcessEnds
SndNext == SndUser \/ SndSteps \/ SndEvents \/ SndThreads \/ SndEnd
=============================================================================
