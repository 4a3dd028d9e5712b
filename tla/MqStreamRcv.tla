---------------------------- MODULE MqStreamRcv ----------------------------
(***************************************************************************)
(* sync_io::Blob_stream_mq_receiver_impl (blob_stream_mq_rcv_impl.hpp).    *)
(* At most one async_receive_blob() is outstanding.  A call or handler of  *)
(* thread U is a sequence of steps (rcvPc), with at most one try_receive() *)
(* each:                                                                   *)
(*   "read"  one turn of the loop of read_msg()                            *)
(*   "done"  the result is reported, by return or through the handler      *)
(* A call that is refused, or that offers a buffer smaller than the        *)
(* queue's largest message (S_INVALID_ARGUMENT), changes nothing and is no *)
(* step.                                                                   *)
(***************************************************************************)
EXTENDS MqWire, ProtoVersion

CONSTANTS
  MaxReceives,     \* bound: calls of async_receive_blob()
  IdleTimerUsed    \* whether idle_timer_run() is ever called

ASSUME MqRcvAssumption == MaxReceives \in Nat /\ IdleTimerUsed \in BOOLEAN

VARIABLES
  rcvStarted,  \* start_receive_blob_ops() was called
  rcvPending,  \* m_user_request is set
  rcvErr,      \* m_pending_err_code
  rcvVer,      \* m_protocol_negotiator.negotiated_proto_ver()
  rcvControl,  \* m_control_state
  rcvEvWait,   \* the event loop waits for m_ev_wait_hndl_mq
  rcvW,        \* thread W: "idle", or "waiting" in wait_receivable()
  rcvReady,    \* bytes in the pipe that W writes
  rcvIntr,     \* interrupt_receives() was called on m_mq
  rcvPhase,    \* "alive", "joining" W in the destructor, "gone"
  idleOn,      \* m_idle_timeout is not zero
  idleWaits, idleFired, idleBytes,   \* m_idle_timer and its pipe
  idleEvWait,  \* the event loop waits for that pipe to be readable
  rcvPc, rcvMsg,         \* the call in progress, and the message it has read
  rcvCalls, rcvResults,  \* history: accepted calls, results reported
  got                    \* history: messages received, in order

IdleTimer == INSTANCE TimerEventEmitter
               WITH waits <- idleWaits, fired <- idleFired, bytes <- idleBytes

idleTimerVars == <<idleWaits, idleFired, idleBytes>>
idleVars == <<idleOn, idleTimerVars, idleEvWait>>
rcvWaitVars == <<rcvEvWait, rcvW, rcvReady, rcvIntr, rcvPhase>>
rcvCallVars == <<rcvPc, rcvMsg>>
rcvHistVars == <<rcvCalls, rcvResults, got>>
rcvVars == <<rcvStarted, rcvPending, rcvErr, rcvVer, rcvControl, rcvWaitVars, idleVars,
             rcvCallVars, rcvHistVars>>

RcvNoError == "ok"
RcvErrors == {"SYS_ERROR", "RECEIVES_FINISHED_CANNOT_RECEIVE", "RECEIVER_IDLE_TIMEOUT",
              "BLOB_STREAM_MQ_RECEIVER_BAD_CTL_CMD"} \cup NegotiationErrors
LocalMinVer == 1
LocalMaxVer == 1

(* Types of the receiver.                                                  *)
RcvTypeOK ==
  /\ rcvStarted \in BOOLEAN /\ rcvPending \in BOOLEAN
  /\ rcvErr \in RcvErrors \cup {RcvNoError}
  /\ rcvVer \in {S_VER_UNKNOWN, S_VER_UNSUPPORTED, LocalMaxVer}
  /\ rcvControl \in BOOLEAN
  /\ rcvEvWait \in BOOLEAN /\ rcvW \in {"idle", "waiting"} /\ rcvReady \in Nat
  /\ rcvIntr \in BOOLEAN /\ rcvPhase \in {"alive", "joining", "gone"}
  /\ idleOn \in BOOLEAN /\ idleEvWait \in BOOLEAN /\ IdleTimer!TypeOK
  /\ rcvPc \in {"idle", "read", "done"} /\ rcvMsg \in MqPayload
  /\ rcvCalls \in Nat /\ rcvResults \in Nat
  /\ got \in Seq(Message)

RcvInit ==
  /\ rcvStarted = FALSE /\ rcvPending = FALSE
  /\ rcvErr = RcvNoError /\ rcvVer = S_VER_UNKNOWN /\ rcvControl = FALSE
  /\ rcvEvWait = FALSE /\ rcvW = "idle" /\ rcvReady = 0
  /\ rcvIntr = FALSE /\ rcvPhase = "alive"
  /\ idleOn = FALSE /\ IdleTimer!Init /\ idleEvWait = FALSE
  /\ rcvPc = "idle" /\ rcvMsg = Escape
  /\ rcvCalls = 0 /\ rcvResults = 0 /\ got = <<>>

-----------------------------------------------------------------------------
(* Calls and handlers.                                                     *)

RcvIdle == rcvPc = "idle" /\ rcvPhase = "alive"
RcvOver == rcvErr # RcvNoError

StartReceiveBlobOps ==
  /\ RcvIdle /\ ~rcvStarted
  /\ rcvStarted' = TRUE
  /\ UNCHANGED <<mqVars, rcvPending, rcvErr, rcvVer, rcvControl, rcvWaitVars, idleVars,
                 rcvCallVars, rcvHistVars>>

AsyncReceiveBlob ==
  /\ RcvIdle /\ rcvStarted /\ ~rcvPending
  /\ rcvCalls < MaxReceives
  /\ rcvCalls' = rcvCalls + 1
  /\ IF RcvOver
       THEN rcvResults' = rcvResults + 1 /\ UNCHANGED <<rcvPending, rcvPc>>
       ELSE rcvPending' = TRUE /\ rcvPc' = "read" /\ UNCHANGED rcvResults
  /\ UNCHANGED <<mqVars, rcvStarted, rcvErr, rcvVer, rcvControl, rcvWaitVars, idleVars,
                 rcvMsg, got>>

IdleTimerRun ==
  /\ IdleTimerUsed /\ RcvIdle /\ rcvStarted /\ ~idleOn
  /\ idleOn' = TRUE
  /\ IF RcvOver
       THEN UNCHANGED <<idleTimerVars, idleEvWait>>
       ELSE idleEvWait' = TRUE /\ IdleTimer!Schedule
  /\ UNCHANGED <<mqVars, rcvStarted, rcvPending, rcvErr, rcvVer, rcvControl, rcvWaitVars,
                 rcvCallVars, rcvHistVars>>

(* Whoever is waiting is told.                                             *)
CompletePending ==
  /\ rcvPending' = FALSE
  /\ rcvResults' = IF rcvPending THEN rcvResults + 1 ELSE rcvResults

OnEvIdleTimerFired ==
  /\ RcvIdle /\ idleEvWait
  /\ IdleTimer!Consume
  /\ idleEvWait' = FALSE
  /\ IF RcvOver
       THEN UNCHANGED <<rcvErr, rcvPending, rcvResults>>
       ELSE rcvErr' = "RECEIVER_IDLE_TIMEOUT" /\ CompletePending
  /\ UNCHANGED <<mqVars, rcvStarted, rcvVer, rcvControl, rcvWaitVars, idleOn, rcvCallVars,
                 rcvCalls, got>>

(* The wait is over: the queue's own handle is readable, or W's pipe is,   *)
(* whose byte is consumed.  The idle timer may have fired in the meantime. *)
OnEvMqReceivable ==
  /\ RcvIdle /\ rcvEvWait
  /\ IF nativeHandle THEN Receivable /\ UNCHANGED rcvReady
                     ELSE rcvReady > 0 /\ rcvReady' = rcvReady - 1
  /\ rcvEvWait' = FALSE
  /\ rcvPc' = IF RcvOver THEN "idle" ELSE "read"
  /\ UNCHANGED <<mqVars, rcvStarted, rcvPending, rcvErr, rcvVer, rcvControl, rcvW, rcvIntr, rcvPhase,
                 idleVars, rcvMsg, rcvHistVars>>

-----------------------------------------------------------------------------
(* One turn of the loop of read_msg().                                     *)

NotIdle == IF idleOn THEN IdleTimer!Postpone ELSE UNCHANGED idleTimerVars
Negotiating == rcvVer = S_VER_UNKNOWN

Emit == rcvPc' = "done"
GoAgain == rcvPc' = "read" /\ UNCHANGED rcvErr
Fails(e) == rcvErr' = e /\ Emit

Negotiate(ver) ==
  LET err == NegotiationErr(LocalMinVer, LocalMaxVer, ver)
  IN /\ rcvVer' = NegotiatedVer(LocalMinVer, LocalMaxVer, ver)
     /\ IF err = NoError THEN GoAgain ELSE Fails(err)

(* In CONTROL state.  What is not as long as a command is bad; a negative  *)
(* number, when no version is awaited, is ignored.                         *)
OnControlCmd(p) ==
  /\ rcvControl' = FALSE
  /\ IF p.kind = "command"
       THEN IF Negotiating
              THEN Negotiate(-p.val) /\ UNCHANGED idleTimerVars
              ELSE /\ CASE p.val >= S_END_SENTINEL -> Fails("BLOB_STREAM_MQ_RECEIVER_BAD_CTL_CMD")
                        [] p.val = S_END_SENDING -> Fails("RECEIVES_FINISHED_CANNOT_RECEIVE")
                        [] OTHER -> GoAgain
                   /\ IF p.val = S_PING THEN NotIdle ELSE UNCHANGED idleTimerVars
                   /\ UNCHANGED rcvVer
       ELSE Fails("BLOB_STREAM_MQ_RECEIVER_BAD_CTL_CMD") /\ UNCHANGED <<rcvVer, idleTimerVars>>

(* Out of CONTROL state: the escape, or a message.                         *)
OnPlainMsg(p) ==
  IF p = Escape
    THEN rcvControl' = TRUE /\ GoAgain /\ UNCHANGED <<rcvVer, idleTimerVars>>
    ELSE /\ UNCHANGED rcvControl
         /\ IF Negotiating
              THEN Negotiate(S_VER_UNKNOWN) /\ UNCHANGED idleTimerVars
              ELSE NotIdle /\ Emit /\ UNCHANGED <<rcvErr, rcvVer>>

ReadPayload ==
  /\ rcvPc = "read" /\ Receivable
  /\ mq' = Tail(mq) /\ rcvMsg' = Head(mq)
  /\ IF rcvControl THEN OnControlCmd(Head(mq)) ELSE OnPlainMsg(Head(mq))
  /\ UNCHANGED <<nativeHandle, rcvStarted, rcvPending, rcvWaitVars, idleOn, idleEvWait, rcvHistVars>>

WorkerNotAskedRcv == UNCHANGED rcvW   \* mutant
AskWorkerRcv == rcvW' = IF nativeHandle THEN rcvW ELSE "waiting"

ReadWouldBlock ==
  /\ rcvPc = "read" /\ ~Receivable
  /\ rcvEvWait' = TRUE /\ AskWorkerRcv
  /\ rcvPc' = "idle"
  /\ UNCHANGED <<mqVars, rcvStarted, rcvPending, rcvErr, rcvVer, rcvControl, rcvReady, rcvIntr, rcvPhase,
                 idleVars, rcvMsg, rcvHistVars>>

ReadFails ==
  /\ rcvPc = "read"
  /\ Fails("SYS_ERROR")
  /\ UNCHANGED <<mqVars, rcvStarted, rcvPending, rcvVer, rcvControl, rcvWaitVars, idleVars,
                 rcvMsg, rcvHistVars>>

ReportResult ==
  /\ rcvPc = "done"
  /\ rcvPc' = "idle" /\ rcvMsg' = Escape
  /\ CompletePending
  /\ got' = IF rcvErr = RcvNoError THEN Append(got, rcvMsg.val) ELSE got
  /\ UNCHANGED <<mqVars, rcvStarted, rcvErr, rcvVer, rcvControl, rcvWaitVars, idleVars, rcvCalls>>

-----------------------------------------------------------------------------
(* Threads W.                                                              *)

rcvNoWorkerVars ==
  <<mqVars, rcvStarted, rcvPending, rcvErr, rcvVer, rcvControl, rcvEvWait, rcvIntr, rcvPhase,
    idleVars, rcvCallVars, rcvHistVars>>

WaitReceivableEnds ==
  /\ rcvPhase # "gone" /\ rcvW = "waiting"
  /\ rcvW' = "idle" /\ rcvReady' = rcvReady + 1
  /\ UNCHANGED rcvNoWorkerVars

WaitReceivableReturns == Receivable /\ WaitReceivableEnds
WaitReceivableFails == ~Receivable /\ WaitReceivableEnds

WaitReceivableInterrupted ==
  /\ rcvPhase # "gone" /\ rcvW = "waiting" /\ rcvIntr
  /\ rcvW' = "idle"
  /\ UNCHANGED <<rcvReady, rcvNoWorkerVars>>

rcvNoTimerVars ==
  <<mqVars, rcvStarted, rcvPending, rcvErr, rcvVer, rcvControl, rcvWaitVars, idleOn, idleEvWait,
    rcvCallVars, rcvHistVars>>

IdleTimerExpires == rcvPhase = "alive" /\ IdleTimer!Expire /\ UNCHANGED rcvNoTimerVars
IdleTimerSignals == rcvPhase = "alive" /\ IdleTimer!Signal /\ UNCHANGED rcvNoTimerVars

-----------------------------------------------------------------------------
(* The end of the receiver.                                                *)

InterruptReceives == rcvIntr' = TRUE

(* ~Blob_stream_mq_receiver_impl(): thread U joins W.                      *)
RcvDtor ==
  /\ RcvIdle
  /\ rcvPhase' = "joining"
  /\ IF nativeHandle THEN UNCHANGED rcvIntr ELSE InterruptReceives
  /\ UNCHANGED <<mqVars, rcvStarted, rcvPending, rcvErr, rcvVer, rcvControl, rcvEvWait, rcvW, rcvReady,
                 idleVars, rcvCallVars, rcvHistVars>>

(* The object's memory is gone, whatever was in it; the queue is not.      *)
RcvGone ==
  /\ rcvPhase' = "gone"
  /\ rcvPending' = FALSE /\ rcvControl' = FALSE
  /\ rcvEvWait' = FALSE /\ rcvW' = "idle" /\ rcvReady' = 0 /\ rcvIntr' = FALSE
  /\ idleOn' = FALSE /\ idleWaits' = 0 /\ idleFired' = 0 /\ idleBytes' = 0 /\ idleEvWait' = FALSE
  /\ rcvPc' = "idle" /\ rcvMsg' = Escape
  /\ UNCHANGED <<mqVars, rcvStarted, rcvErr, rcvVer, rcvHistVars>>

RcvDtorReturns == rcvPhase = "joining" /\ rcvW = "idle" /\ RcvGone

(* The process ends, at any point.                                         *)
RcvProcessEnds == rcvPhase # "gone" /\ RcvGone

RcvUser == StartReceiveBlobOps \/ AsyncReceiveBlob \/ IdleTimerRun
RcvSteps ==
  rcvPhase = "alive" /\ (ReadPayload \/ ReadWouldBlock \/ ReadFails \/ ReportResult)
RcvEvents == OnEvIdleTimerFired \/ OnEvMqReceivable
RcvThreads ==
  WaitReceivableReturns \/ WaitReceivableFails \/ WaitReceivableInterrupted
  \/ IdleTimerExpires \/ IdleTimerSignals
RcvEnd == RcvDtor \/ RcvDtorReturns \/ RcvProcessEnds
RcvNext == RcvUser \/ RcvSteps \/ RcvEvents \/ RcvThreads \/ RcvEnd
=============================================================================
