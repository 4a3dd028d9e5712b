--------------------------- MODULE SocketStreamSnd ---------------------------
(***************************************************************************)
(* The send direction of sync_io::Native_socket_stream::Impl in PEER state *)
(* (native_socket_stream_impl_snd.cpp).                                    *)
(*                                                                         *)
(* Send-ops and their on-active-event handlers run one at a time, in any   *)
(* thread; receive-ops of the same object may run concurrently, and share  *)
(* m_peer_socket under m_peer_socket_mutex.  A call is a sequence of steps *)
(* (sndPc), each containing at most one critical section of that mutex:    *)
(*   "write"  the non-blocking write of the current payload, or queuing it *)
(*   "flush"  the non-blocking write of the head of the queue              *)
(*   "wait"   registering the wait for writability                         *)
(*   "ret"    what the caller does once that is over                       *)
(* Between two steps the receive direction may find the connection broken  *)
(* and take m_peer_socket away, and the other endpoint may read or close.  *)
(*                                                                         *)
(* A refused call (before start_send_*_ops(), a second auto_ping(), a send *)
(* after *end_sending(), an oversized blob, any send once the error code   *)
(* is set) returns without changing state: it is no step.                  *)
(***************************************************************************)
EXTENDS StreamWire

CONSTANTS
  Message,   \* messages the user tries to send
  MaxSends,  \* bound: calls of send_native_handle() that are let through
  MaxPings   \* bound: expirations of the auto-ping timer

ASSUME MessageAssumption ==
  Message \subseteq {m \in Payload : m.h # NoHandle \/ m.b # <<>>}
ASSUME SndBoundsAssumption == MaxSends \in Nat /\ MaxPings \in Nat

VARIABLES
  sndSock,      \* m_peer_socket is not null
  sndStarted,   \* start_send_*_ops() was called
  sndQ,         \* m_snd_pending_payloads_q
  sndErr,       \* m_snd_pending_err_code
  sndFinished,  \* m_snd_finished
  sndOnDone,    \* m_snd_pending_on_last_send_done_func_or_empty is not empty
  sndEvWait,    \* the event loop waits for m_peer_socket to be writable
  pingOn,       \* m_snd_auto_ping_period is not zero
  pingWaits, pingFired, pingBytes,   \* m_snd_auto_ping_timer and its pipe
  pingEvWait,   \* the event loop waits for that pipe to be readable
  sndPc, sndOp, sndCur, sndRest,     \* the call in progress
  sent,         \* history: messages of accepted send calls, in order
  endCall,      \* history: what became of async_end_sending()
  pings         \* history: expirations of the auto-ping timer

PingTimer == INSTANCE TimerEventEmitter
               WITH waits <- pingWaits, fired <- pingFired, bytes <- pingBytes

pingTimerVars == <<pingWaits, pingFired, pingBytes>>
sndCallVars == <<sndPc, sndOp, sndCur, sndRest>>
sndCoreVars == <<sndSock, sndStarted, sndQ, sndErr, sndFinished, sndOnDone, sndEvWait>>
sndVars == <<sndCoreVars, pingOn, pingTimerVars, pingEvWait, sndCallVars,
             sent, endCall, pings>>

SndErrors == {"SYS_ERROR", "LOW_LVL_TRANSPORT_HOSED_CANNOT_SEND"}
SndNoError == "ok"
SndOps == {"none", "start", "send", "end", "asyncEnd", "ping", "tick", "flush"}
PingOps == {"ping", "tick"}
NoPayload == [h |-> NoHandle, b |-> <<>>]

(* endCall: "none" before the call; "running" during it; "sync" if the     *)
(* result was returned (or nobody asked for it); "wouldBlock" if           *)
(* S_SYNC_IO_WOULD_BLOCK was returned, so that the handler is to report;   *)
(* "called" when it has.                                                   *)
EndCalls == {"none", "running", "sync", "wouldBlock", "called"}

SndCallTypeOK ==
  /\ sndPc \in {"idle", "write", "flush", "wait", "ret", "aborted"}
  /\ sndOp \in SndOps
  /\ sndCur \in Payload
  /\ sndRest \in Seq(Payload)

(* Types of the send direction: whatever is queued or being written is a   *)
(* payload, whole or the rest of one.                                      *)
SndTypeOK ==
  /\ WireTypeOK
  /\ sndSock \in BOOLEAN /\ sndStarted \in BOOLEAN
  /\ sndQ \in Seq(Payload)
  /\ sndErr \in SndErrors \cup {SndNoError}
  /\ sndFinished \in BOOLEAN /\ sndOnDone \in BOOLEAN
  /\ sndEvWait \in BOOLEAN
  /\ pingOn \in BOOLEAN /\ pingEvWait \in BOOLEAN
  /\ PingTimer!TypeOK
  /\ SndCallTypeOK
  /\ sent \in Seq(Message)
  /\ endCall \in EndCalls
  /\ pings \in Nat

SndInit ==
  /\ sndSock = TRUE /\ sndStarted = FALSE
  /\ sndQ = <<>> /\ sndErr = SndNoError
  /\ sndFinished = FALSE /\ sndOnDone = FALSE /\ sndEvWait = FALSE
  /\ pingOn = FALSE /\ PingTimer!Init /\ pingEvWait = FALSE
  /\ sndPc = "idle" /\ sndOp = "none" /\ sndCur = NoPayload /\ sndRest = <<>>
  /\ sent = <<>> /\ endCall = "none" /\ pings = 0

-----------------------------------------------------------------------------
(* Calls.                                                                  *)

SndIdle == sndPc = "idle" /\ sndOpen

(* snd_sync_write_or_q_payload(first), and then those in `rest` one by one.*)
Write(op, first, rest) ==
  /\ sndPc' = "write" /\ sndOp' = op /\ sndCur' = first /\ sndRest' = rest

VersionZero == HeadPayload(NoHandle, 0)   \* mutant
VersionPayload == HeadPayload(NoHandle, 1)

(* The protocol version goes out first, in the place of a length.          *)
StartSendOps ==
  /\ SndIdle /\ ~sndStarted
  /\ sndStarted' = TRUE
  /\ Write("start", VersionPayload, <<>>)
  /\ UNCHANGED <<wireVars, sndSock, sndQ, sndErr, sndFinished, sndOnDone, sndEvWait,
                 pingOn, pingTimerVars, pingEvWait, sent, endCall, pings>>

MaySend(m) ==
  /\ ~sndFinished
  /\ Len(m.b) <= S_MAX_META_BLOB_LENGTH
  /\ sndErr = SndNoError

(* send_native_handle(), and send_blob() when m.h is null.                 *)
SendNativeHandle(m) ==
  /\ SndIdle /\ sndStarted
  /\ Len(sent) < MaxSends
  /\ MaySend(m)
  /\ Write("send", HeadPayload(m.h, Len(m.b)),
           IF m.b = <<>> THEN <<>> ELSE <<[h |-> NoHandle, b |-> m.b]>>)
  /\ sent' = Append(sent, m)
  /\ UNCHANGED <<wireVars, sndCoreVars, pingOn, pingTimerVars, pingEvWait, endCall, pings>>

FinishSends == sndFinished' = TRUE

(* end_sending() has no handler and op "end"; async_end_sending() has one  *)
(* and op "asyncEnd".  The handler is saved before the write.              *)
EndSending(op) ==
  /\ SndIdle /\ sndStarted /\ ~sndFinished
  /\ FinishSends
  /\ IF sndErr # SndNoError
       THEN /\ endCall' = "sync"
            /\ UNCHANGED <<sndOnDone, sndCallVars>>
       ELSE /\ sndOnDone' = (op = "asyncEnd")
            /\ endCall' = "running"
            /\ Write(op, HeadPayload(NoHandle, 0), <<>>)
  /\ UNCHANGED <<wireVars, sndSock, sndStarted, sndQ, sndErr, sndEvWait,
                 pingOn, pingTimerVars, pingEvWait, sent, pings>>

PingPayload == HeadPayload(NoHandle, S_META_BLOB_LENGTH_PING_SENTINEL)

AutoPing ==
  /\ SndIdle /\ sndStarted /\ ~sndFinished /\ ~pingOn
  /\ pingOn' = TRUE
  /\ IF sndErr # SndNoError
       THEN UNCHANGED sndCallVars
       ELSE Write("ping", PingPayload, <<>>)
  /\ UNCHANGED <<wireVars, sndCoreVars, pingTimerVars, pingEvWait, sent, endCall, pings>>

-----------------------------------------------------------------------------
(* Handlers the user's event loop runs.                                    *)

SendsOver == sndErr # SndNoError \/ sndFinished

(* snd_on_ev_auto_ping_now_timer_fired().                                  *)
OnEvAutoPingTimerFired ==
  /\ SndIdle /\ pingEvWait
  /\ PingTimer!Consume
  /\ pingEvWait' = FALSE
  /\ IF SendsOver
       THEN UNCHANGED sndCallVars
       ELSE Write("tick", PingPayload, <<>>)
  /\ UNCHANGED <<wireVars, sndCoreVars, pingOn, sent, endCall, pings>>

(* The kernel reports a socket writable if there is room, or if a write    *)
(* would fail at once.                                                     *)
Writable == Len(wire) < KernelCap \/ ~rcvOpen

(* snd_on_ev_peer_socket_writable_or_error(), up to its loop.              *)
OnEvPeerSocketWritable ==
  /\ SndIdle /\ sndEvWait /\ Writable
  /\ sndEvWait' = FALSE
  /\ sndPc' = "flush" /\ sndOp' = "flush" /\ UNCHANGED <<sndCur, sndRest>>
  /\ UNCHANGED <<wireVars, sndSock, sndStarted, sndQ, sndErr, sndFinished, sndOnDone,
                 pingOn, pingTimerVars, pingEvWait, sent, endCall, pings>>

-----------------------------------------------------------------------------
(* Steps of a call or handler.                                             *)

(* snd_nb_write_low_lvl_payload() in which no byte is written and an error *)
(* is emitted: the socket was taken away by the receive direction, or this *)
(* very write finds that the other endpoint is closed.                     *)
NbWriteFails ==
  /\ ~sndSock \/ ~rcvOpen
  /\ sndErr' = IF sndSock THEN "SYS_ERROR" ELSE "LOW_LVL_TRANSPORT_HOSED_CANNOT_SEND"
  /\ sndSock' = FALSE
  /\ UNCHANGED wireVars

(* snd_nb_write_low_lvl_payload() in which n bytes of p are written; none  *)
(* is would-block.                                                         *)
NbWrites(p, n) ==
  /\ sndSock /\ rcvOpen
  /\ n \in WriteSizes(p)
  /\ wire' = wire \o UnitsOf(p, n)
  /\ UNCHANGED <<sndSock, sndErr, sndOpen, rcvOpen>>

(* p without its first n bytes; the handle left with byte 1.               *)
Remainder(p, n) ==
  [h |-> IF n = 0 THEN p.h ELSE NoHandle, b |-> SubSeq(p.b, n + 1, Len(p.b))]

AvoidQing == sndOp \in PingOps

sndWriteFrame ==
  <<sndStarted, sndFinished, sndOnDone, sndEvWait, pingOn, pingTimerVars, pingEvWait,
    sndOp, sndCur, sndRest, sent, endCall, pings>>

NeverBehind == FALSE   \* mutant
BehindOthers == sndQ # <<>>

(* snd_sync_write_or_q_payload(), the queue being empty.  The queue was    *)
(* empty, so queuing anything is followed by registering the wait.         *)
SyncWrite ==
  /\ sndPc = "write" /\ ~BehindOthers
  /\ \/ /\ NbWriteFails
        /\ sndPc' = "ret"
        /\ UNCHANGED sndQ
     \/ \E n \in 0 .. Len(sndCur.b) :
          /\ NbWrites(sndCur, n)
          /\ IF n = Len(sndCur.b) \/ (AvoidQing /\ n = 0)
               THEN sndPc' = "ret" /\ UNCHANGED sndQ
               ELSE sndPc' = "wait" /\ sndQ' = <<Remainder(sndCur, n)>>
  /\ UNCHANGED sndWriteFrame

(* The same while other payloads are pending: no system call is made.      *)
QueuePayload ==
  /\ sndPc = "write" /\ BehindOthers
  /\ sndQ' = IF AvoidQing THEN sndQ ELSE Append(sndQ, sndCur)
  /\ sndPc' = "ret"
  /\ UNCHANGED <<wireVars, sndSock, sndErr, sndWriteFrame>>

(* One turn of the loop in snd_on_ev_peer_socket_writable_or_error().      *)
FlushHead ==
  /\ sndPc = "flush"
  /\ \/ /\ NbWriteFails
        /\ sndPc' = "ret"
        /\ UNCHANGED sndQ
     \/ \E n \in 0 .. Len(Head(sndQ).b) :
          /\ NbWrites(Head(sndQ), n)
          /\ IF n = Len(Head(sndQ).b)
               THEN /\ sndQ' = Tail(sndQ)
                    /\ sndPc' = IF Tail(sndQ) = <<>> THEN "ret" ELSE "flush"
               ELSE /\ sndQ' = <<Remainder(Head(sndQ), n)>> \o Tail(sndQ)
                    /\ sndPc' = "wait"
  /\ UNCHANGED sndWriteFrame

AwaitNothing == UNCHANGED sndEvWait   \* mutant
AwaitWritable == sndEvWait' = TRUE

(* snd_async_write_q_head_payload().                                       *)
AsyncWriteQHead ==
  /\ sndPc = "wait"
  /\ IF sndSock
       THEN AwaitWritable /\ UNCHANGED sndErr
       ELSE sndErr' = "LOW_LVL_TRANSPORT_HOSED_CANNOT_SEND" /\ UNCHANGED sndEvWait
  /\ sndPc' = "ret"
  /\ UNCHANGED <<wireVars, sndSock, sndStarted, sndQ, sndFinished, sndOnDone,
                 pingOn, pingTimerVars, pingEvWait, sndOp, sndCur, sndRest,
                 sent, endCall, pings>>

SndReturns(ops) == sndPc = "ret" /\ sndOp \in ops

CallEnds == sndPc' = "idle" /\ sndOp' = "none" /\ sndCur' = NoPayload /\ sndRest' = <<>>

ReturnStart ==
  /\ SndReturns({"start"})
  /\ CallEnds
  /\ UNCHANGED <<wireVars, sndCoreVars, pingOn, pingTimerVars, pingEvWait, sent, endCall, pings>>

(* send_native_handle() after a payload: go on to payload 2; or return,    *)
(* postponing the auto-ping unless an error is emitted.  A message whose   *)
(* call emitted an error does not count as sent.                           *)
ReturnSend ==
  /\ SndReturns({"send"})
  /\ IF sndErr = SndNoError /\ sndRest # <<>>
       THEN /\ Write("send", Head(sndRest), Tail(sndRest))
            /\ UNCHANGED <<pingTimerVars, sent>>
       ELSE /\ CallEnds
            /\ IF sndErr = SndNoError /\ pingOn
                 THEN PingTimer!Postpone
                 ELSE UNCHANGED pingTimerVars
            /\ sent' = IF sndErr = SndNoError THEN sent
                                              ELSE SubSeq(sent, 1, Len(sent) - 1)
  /\ UNCHANGED <<wireVars, sndCoreVars, pingOn, pingEvWait, endCall, pings>>

(* async_end_sending_impl() after the write.  snd_sync_write_or_q_payload()*)
(* returned false, setting qd, iff something is queued and there is no     *)
(* error.                                                                  *)
NeverQd == FALSE   \* mutant
Qd == sndErr = SndNoError /\ sndQ # <<>>

ReturnEnd ==
  /\ SndReturns({"end", "asyncEnd"})
  /\ ~(Qd /\ sndOp = "asyncEnd")
  /\ CallEnds
  /\ endCall' = "sync"
  /\ UNCHANGED <<wireVars, sndCoreVars, pingOn, pingTimerVars, pingEvWait, sent, pings>>

(* The would-block case saves the handler again, after asserting that none *)
(* is saved.  The handler was already moved from, so what is saved now is  *)
(* empty.  Where the assertion is compiled in and fails, the process ends. *)
ReturnAsyncEndWouldBlock ==
  /\ SndReturns({"asyncEnd"}) /\ Qd
  /\ \/ /\ CallEnds
        /\ sndOnDone' = FALSE
        /\ endCall' = "wouldBlock"
        /\ UNCHANGED sndOpen
     \/ /\ sndOnDone
        /\ sndPc' = "aborted" /\ UNCHANGED <<sndOp, sndCur, sndRest>>
        /\ sndOpen' = FALSE
        /\ UNCHANGED <<sndOnDone, endCall>>
  /\ UNCHANGED <<wire, rcvOpen, sndSock, sndStarted, sndQ, sndErr, sndFinished, sndEvWait,
                 pingOn, pingTimerVars, pingEvWait, sent, pings>>

(* auto_ping() and snd_on_ev_auto_ping_now_timer_fired() after the write.  *)
ReturnPing ==
  /\ SndReturns(PingOps)
  /\ CallEnds
  /\ IF sndErr = SndNoError
       THEN pingEvWait' = TRUE /\ PingTimer!Schedule
       ELSE UNCHANGED <<pingEvWait, pingTimerVars>>
  /\ UNCHANGED <<wireVars, sndCoreVars, pingOn, sent, endCall, pings>>

(* snd_on_ev_peer_socket_writable_or_error() after its loop: the handler   *)
(* of async_end_sending(), if saved, runs on an error or once all is sent. *)
ReturnFlush ==
  /\ SndReturns({"flush"})
  /\ CallEnds
  /\ LET invokeOnDone == sndOnDone /\ (sndErr # SndNoError \/ sndQ = <<>>)
     IN /\ sndOnDone' = (sndOnDone /\ ~invokeOnDone)
        /\ endCall' = IF invokeOnDone THEN "called" ELSE endCall
  /\ UNCHANGED <<wireVars, sndSock, sndStarted, sndQ, sndErr, sndFinished, sndEvWait,
                 pingOn, pingTimerVars, pingEvWait, sent, pings>>

-----------------------------------------------------------------------------
(* Thread W of the auto-ping timer.                                        *)

sndNoTimerVars == <<sndCoreVars, pingOn, pingEvWait, sndCallVars, sent, endCall>>

PingTimerExpires ==
  /\ sndOpen /\ pings < MaxPings
  /\ PingTimer!Expire
  /\ pings' = pings + 1
  /\ UNCHANGED <<wireVars, sndNoTimerVars>>

PingTimerSignals ==
  /\ sndOpen
  /\ PingTimer!Signal
  /\ UNCHANGED <<wireVars, sndNoTimerVars, pings>>

(* The receive direction of the same object met a socket error and moved   *)
(* m_peer_socket to m_peer_socket_hosed.                                   *)
SndSockHosedByReceiveOps ==
  /\ sndSock
  /\ sndSock' = FALSE
  /\ UNCHANGED <<wireVars, sndStarted, sndQ, sndErr, sndFinished, sndOnDone, sndEvWait,
                 pingOn, pingTimerVars, pingEvWait, sndCallVars, sent, endCall, pings>>

SndUser ==
  \/ StartSendOps
  \/ \E m \in Message : SendNativeHandle(m)
  \/ EndSending("end") \/ EndSending("asyncEnd")
  \/ AutoPing

SndSteps ==
  \/ SyncWrite \/ QueuePayload \/ FlushHead \/ AsyncWriteQHead
  \/ ReturnStart \/ ReturnSend \/ ReturnEnd \/ ReturnAsyncEndWouldBlock
  \/ ReturnPing \/ ReturnFlush

SndEvents == OnEvAutoPingTimerFired \/ OnEvPeerSocketWritable

SndTimerThread == PingTimerExpires \/ PingTimerSignals

(* The environment of the send direction on its own: the other endpoint    *)
(* reads some bytes, or is closed.                                         *)
KernelDrains ==
  /\ rcvOpen
  /\ \E n \in 1 .. Len(wire) : wire' = SubSeq(wire, n + 1, Len(wire))
  /\ UNCHANGED <<sndOpen, rcvOpen, sndVars>>

SndEnvironment ==
  \/ KernelDrains
  \/ SndSockHosedByReceiveOps
  \/ RcvEndpointCloses /\ UNCHANGED sndVars

SndNext == SndUser \/ SndSteps \/ SndEvents \/ SndTimerThread \/ SndEnvironment

sndAllVars == <<wireVars, sndVars>>

SndSystemInit == WireInit /\ SndInit
SndSpec == SndSystemInit /\ [][SndNext]_sndAllVars

-----------------------------------------------------------------------------
(* Properties.                                                             *)

(* Outside a call, payloads are queued without an error iff the event loop *)
(* waits for writability: nothing queued is forgotten, no wake-up comes    *)
(* with an empty queue or after an error (the handler's two assertions).   *)
QueuedIffWaiting ==
  sndPc = "idle" => (sndEvWait <=> (sndQ # <<>> /\ sndErr = SndNoError))

(* The assertions of the send path: the pipe is not pre-hosed when a write *)
(* is tried or a wait registered; a flush has something to flush; and an   *)
(* error met in a flush leaves a payload queued.                           *)
SndAssertions ==
  /\ sndPc \in {"write", "flush", "wait"} => sndErr = SndNoError
  /\ sndPc \in {"flush", "wait"} => sndQ # <<>>
  /\ sndPc = "ret" /\ sndOp = "flush" /\ sndErr # SndNoError => sndQ # <<>>

(* While auto-ping goes on, exactly one of these exists: a running timer,  *)
(* a handler of thread W about to signal, an unread signal.  So the timer  *)
(* never stops by itself, n_canceled is 0 or 1, and the pipe never fills;  *)
(* and auto-ping lives on until sending ends or fails.                     *)
PingTimerArmed ==
  /\ PingTimer!Outstanding <= 1
  /\ pingEvWait <=> PingTimer!Outstanding = 1
  /\ sndPc = "idle" /\ pingOn /\ ~sndFinished /\ sndErr = SndNoError
       => PingTimer!Outstanding = 1

(* A saved handler of async_end_sending() that the caller was told to wait *)
(* for: the member is documented to be empty otherwise.                    *)
OnDoneKeptWhileWouldBlock == endCall = "wouldBlock" => sndOnDone

(* The first error is the only one: neither another error nor success      *)
(* replaces it, and m_peer_socket never comes back.                        *)
SndErrorIsFinal ==
  [][/\ (sndErr # SndNoError => sndErr' = sndErr)
     /\ (~sndSock => ~sndSock')]_sndAllVars

(* After the graceful-close payload is handed over, nothing follows it: no *)
(* ping of a late timer signal, no message.                                *)
NothingAfterClose ==
  [][sndFinished /\ sndPc = "idle" => sndPc' \in {"idle", "flush"}]_sndAllVars

(* The outcome of async_end_sending() is reported once: when the call      *)
(* itself returned it, the handler, which stays saved all the same, never  *)
(* runs; when the handler ran, it does not run again.                      *)
EndReported == endCall \in {"sync", "called"}
EndReportedOnce == [][EndReported => endCall' = endCall]_sndAllVars
=============================================================================
