--------------------------- MODULE SocketStreamRcv ---------------------------
(***************************************************************************)
(* The receive direction of sync_io::Native_socket_stream::Impl in PEER    *)
(* state (native_socket_stream_impl_rcv.cpp).                              *)
(*                                                                         *)
(* At most one async_receive_*() is outstanding.  As in SocketStreamSnd, a *)
(* call or handler is a sequence of steps (rcvPc) with at most one critical*)
(* section of m_peer_socket_mutex each, and send-ops of the same object    *)
(* may take m_peer_socket away between two of them:                        *)
(*   "readMsg"   rcv_read_msg(): the non-blocking read of payload 1        *)
(*   "head"      rcv_on_head_payload(): payload 1 is complete              *)
(*   "readBlob"  rcv_read_blob(): the non-blocking read of what is left    *)
(*   "wait"      registering the wait for readability                      *)
(*   "done"      the result is reported, by return or through the handler  *)
(***************************************************************************)
EXTENDS StreamWire, ProtoVersion

CONSTANTS
  StorageSize,  \* sizes of the user's target_meta_blob
  MaxReceives   \* bound: calls of async_receive_*()

ASSUME RcvBoundsAssumption == StorageSize \subseteq Nat /\ MaxReceives \in Nat

VARIABLES
  rcvSock,     \* m_peer_socket is not null
  rcvStarted,  \* start_receive_*_ops() was called
  rcvPending,  \* m_rcv_user_request is set
  rcvTakesHandle,  \* its m_target_hndl_ptr is not null
  rcvSize,     \* the size of its m_target_meta_blob
  rcvHandle,   \* *m_target_hndl_ptr
  rcvBlob,     \* bytes of the message now in m_target_meta_blob
  rcvMeta,     \* bytes read into m_rcv_target_meta_length
  rcvErr,      \* m_rcv_pending_err_code
  rcvVer,      \* m_protocol_negotiator.negotiated_proto_ver()
  rcvEvWait,   \* the event loop waits for readability; its closure's msg_state
  rcvMsgState, rcvLeft,  \* msg_state and n_left of the read in progress
  idleOn,      \* m_rcv_idle_timeout is not zero
  idleWaits, idleFired, idleBytes,   \* m_rcv_idle_timer and its pipe
  idleEvWait,  \* the event loop waits for that pipe to be readable
  rcvPc,       \* the call or handler in progress
  rcvCalls,    \* history: accepted calls of async_receive_*()
  rcvResults,  \* history: results reported, by return or through the handler
  got          \* history: messages received, in order

IdleTimer == INSTANCE TimerEventEmitter
               WITH waits <- idleWaits, fired <- idleFired, bytes <- idleBytes

idleTimerVars == <<idleWaits, idleFired, idleBytes>>
idleVars == <<idleOn, idleTimerVars, idleEvWait>>
rcvReqVars == <<rcvPending, rcvTakesHandle, rcvSize>>
rcvDataVars == <<rcvHandle, rcvBlob, rcvMeta>>
rcvReadVars == <<rcvMsgState, rcvLeft>>
rcvHistVars == <<rcvCalls, rcvResults, got>>
rcvVars == <<rcvSock, rcvStarted, rcvReqVars, rcvDataVars, rcvErr, rcvVer, rcvEvWait,
             rcvReadVars, idleVars, rcvPc, rcvHistVars>>

RcvNoError == "ok"
RcvErrors == {"SYS_ERROR", "LOW_LVL_TRANSPORT_HOSED_CANNOT_RECEIVE",
              "RECEIVES_FINISHED_CANNOT_RECEIVE", "RECEIVER_IDLE_TIMEOUT",
              "BLOB_RECEIVER_GOT_NON_BLOB", "MESSAGE_SIZE_EXCEEDS_USER_STORAGE"}
             \cup NegotiationErrors
MsgState == {"MSG_START", "HEAD_PAYLOAD", "META_BLOB_PAYLOAD"}
NotWaiting == "none"
LocalMinVer == 1
LocalMaxVer == 1

(* Types of the receive direction: counts never run below zero, and the    *)
(* version is unknown, unsupported, or one this side speaks.               *)
RcvTypeOK ==
  /\ WireTypeOK
  /\ rcvSock \in BOOLEAN /\ rcvStarted \in BOOLEAN
  /\ rcvPending \in BOOLEAN /\ rcvTakesHandle \in BOOLEAN /\ rcvSize \in Nat
  /\ rcvHandle \in HandleOrNull
  /\ rcvBlob \in Blob /\ rcvMeta \in Blob
  /\ rcvErr \in RcvErrors \cup {RcvNoError}
  /\ rcvVer \in {S_VER_UNKNOWN, S_VER_UNSUPPORTED, LocalMaxVer}
  /\ rcvEvWait \in MsgState \cup {NotWaiting}
  /\ rcvMsgState \in MsgState /\ rcvLeft \in Nat
  /\ idleOn \in BOOLEAN /\ idleEvWait \in BOOLEAN
  /\ IdleTimer!TypeOK
  /\ rcvPc \in {"idle", "readMsg", "head", "readBlob", "wait", "done"}
  /\ rcvCalls \in Nat /\ rcvResults \in Nat
  /\ got \in Seq(Payload)

RcvInit ==
  /\ rcvSock = TRUE /\ rcvStarted = FALSE
  /\ rcvPending = FALSE /\ rcvTakesHandle = FALSE /\ rcvSize = 0
  /\ rcvHandle = NoHandle /\ rcvBlob = <<>> /\ rcvMeta = <<>>
  /\ rcvErr = RcvNoError /\ rcvVer = S_VER_UNKNOWN
  /\ rcvEvWait = NotWaiting /\ rcvMsgState = "MSG_START" /\ rcvLeft = 0
  /\ idleOn = FALSE /\ IdleTimer!Init /\ idleEvWait = FALSE
  /\ rcvPc = "idle"
  /\ rcvCalls = 0 /\ rcvResults = 0 /\ got = <<>>

-----------------------------------------------------------------------------
(* Calls and handlers.                                                     *)

RcvIdle == rcvPc = "idle" /\ rcvOpen

RcvOver == rcvErr # RcvNoError

StartReceiveOps ==
  /\ RcvIdle /\ ~rcvStarted
  /\ rcvStarted' = TRUE
  /\ UNCHANGED <<wireVars, rcvSock, rcvReqVars, rcvDataVars, rcvErr, rcvVer, rcvEvWait,
                 rcvReadVars, idleVars, rcvPc, rcvHistVars>>

(* async_receive_native_handle() if takesHandle, else async_receive_blob().*)
(* A call while another is outstanding is refused without effect.  Once an *)
(* error is known it is returned at once.                                  *)
AsyncReceive(takesHandle, size) ==
  /\ RcvIdle /\ rcvStarted /\ ~rcvPending
  /\ rcvCalls < MaxReceives
  /\ rcvCalls' = rcvCalls + 1
  /\ IF RcvOver
       THEN /\ rcvResults' = rcvResults + 1
            /\ UNCHANGED <<rcvReqVars, rcvPc>>
       ELSE /\ rcvPending' = TRUE /\ rcvTakesHandle' = takesHandle /\ rcvSize' = size
            /\ rcvPc' = "readMsg"
            /\ UNCHANGED rcvResults
  /\ UNCHANGED <<wireVars, rcvSock, rcvStarted, rcvDataVars, rcvErr, rcvVer, rcvEvWait,
                 rcvReadVars, idleVars, got>>

(* idle_timer_run().                                                       *)
IdleTimerRun ==
  /\ RcvIdle /\ rcvStarted /\ ~idleOn
  /\ idleOn' = TRUE
  /\ IF RcvOver
       THEN UNCHANGED <<idleTimerVars, idleEvWait>>
       ELSE idleEvWait' = TRUE /\ IdleTimer!Schedule
  /\ UNCHANGED <<wireVars, rcvSock, rcvStarted, rcvReqVars, rcvDataVars, rcvErr, rcvVer,
                 rcvEvWait, rcvReadVars, rcvPc, rcvHistVars>>

(* m_rcv_user_request.reset().  What was read for the request is the user's*)
(* now, or of no use to anyone; so is the position in the message.         *)
ResetRequest ==
  /\ rcvPending' = FALSE /\ rcvTakesHandle' = FALSE /\ rcvSize' = 0
  /\ rcvMeta' = <<>> /\ rcvBlob' = <<>>
  /\ rcvMsgState' = "MSG_START" /\ rcvLeft' = 0

(* Mutants of CompletePending.                                             *)
CompleteAlways == ResetRequest /\ rcvResults' = rcvResults + 1
CompleteNever == UNCHANGED <<rcvReqVars, rcvMeta, rcvBlob, rcvReadVars, rcvResults>>

(* Whoever is waiting is told.                                             *)
CompletePending ==
  /\ ResetRequest
  /\ rcvResults' = IF rcvPending THEN rcvResults + 1 ELSE rcvResults

(* rcv_on_ev_idle_timer_fired().                                           *)
OnEvIdleTimerFired ==
  /\ RcvIdle /\ idleEvWait
  /\ IdleTimer!Consume
  /\ idleEvWait' = FALSE
  /\ IF RcvOver
       THEN UNCHANGED <<rcvErr, rcvReqVars, rcvMeta, rcvBlob, rcvReadVars, rcvResults>>
       ELSE /\ rcvErr' = "RECEIVER_IDLE_TIMEOUT"
            /\ CompletePending
  /\ UNCHANGED <<wireVars, rcvSock, rcvStarted, rcvHandle, rcvVer, rcvEvWait,
                 idleOn, rcvPc, rcvCalls, got>>

(* rcv_on_ev_peer_socket_readable_or_error().  The kernel reports a socket *)
(* readable if there are bytes, or if the other endpoint is closed.        *)
Readable == wire # <<>> \/ ~sndOpen

OnEvPeerSocketReadable ==
  /\ RcvIdle /\ rcvEvWait # NotWaiting /\ Readable
  /\ rcvEvWait' = NotWaiting
  /\ rcvPc' = CASE RcvOver -> "idle"
                [] ~RcvOver /\ rcvEvWait = "MSG_START" -> "readMsg"
                [] OTHER -> "readBlob"
  /\ UNCHANGED <<wireVars, rcvSock, rcvStarted, rcvReqVars, rcvDataVars, rcvErr, rcvVer,
                 rcvReadVars, idleVars, rcvHistVars>>

-----------------------------------------------------------------------------
(* Steps.                                                                  *)

(* rcv_nb_read_low_lvl_payload() with an error: m_peer_socket was taken    *)
(* away by the send direction, or all was read and the other end is closed.*)
NbReadFails ==
  /\ ~rcvSock \/ (wire = <<>> /\ ~sndOpen)
  /\ rcvErr' = IF rcvSock THEN "SYS_ERROR" ELSE "LOW_LVL_TRANSPORT_HOSED_CANNOT_RECEIVE"
  /\ rcvSock' = FALSE
  /\ rcvPc' = "done"
  /\ UNCHANGED <<wire, rcvDataVars, rcvVer, rcvReadVars, idleTimerVars>>

RcvNotIdleReschedules == IF idleOn THEN IdleTimer!Schedule ELSE UNCHANGED idleTimerVars   \* mutant

(* rcv_not_idle().                                                         *)
RcvNotIdle == IF idleOn THEN IdleTimer!Postpone ELSE UNCHANGED idleTimerVars

(* The direction ends with error e.                                        *)
RcvFails(e) == rcvErr' = e /\ rcvPc' = "done"

(* The handle the kernel delivers with the first n bytes.                  *)
HandleAmong(n) ==
  IF \E i \in 1 .. n : wire[i].h # NoHandle
    THEN wire[CHOOSE i \in 1 .. n :
                wire[i].h # NoHandle /\ \A j \in 1 .. i - 1 : wire[j].h = NoHandle].h
    ELSE NoHandle

ConsumeWire(n) == wire' = SubSeq(wire, n + 1, Len(wire))
WireBytes(n) == BytesOf(SubSeq(wire, 1, n))

Negotiating == rcvVer = S_VER_UNKNOWN

(* rcv_on_handle_finalized(), n > 0 bytes of payload 1 having been read.   *)
OnHandleFinalized(hndl, n) ==
  CASE Negotiating /\ hndl # NoHandle ->
         /\ rcvVer' = NegotiatedVer(LocalMinVer, LocalMaxVer, S_VER_UNKNOWN)
         /\ RcvFails(NegotiationErr(LocalMinVer, LocalMaxVer, S_VER_UNKNOWN))
         /\ UNCHANGED <<rcvHandle, rcvReadVars>>
    [] ~Negotiating /\ hndl # NoHandle /\ ~rcvTakesHandle ->
         /\ RcvFails("BLOB_RECEIVER_GOT_NON_BLOB")
         /\ UNCHANGED <<rcvHandle, rcvVer, rcvReadVars>>
    [] OTHER ->
         /\ rcvHandle' = IF rcvTakesHandle /\ ~Negotiating THEN hndl ELSE rcvHandle
         /\ IF n = SizeofMetaLength
              THEN rcvPc' = "head" /\ UNCHANGED rcvReadVars
              ELSE /\ rcvPc' = "wait"
                   /\ rcvMsgState' = "HEAD_PAYLOAD"
                   /\ rcvLeft' = SizeofMetaLength - n
         /\ UNCHANGED <<rcvErr, rcvVer>>

ReadMsg ==
  /\ rcvPc = "readMsg"
  /\ \/ NbReadFails
     \/ /\ rcvSock
        /\ \E n \in ReadSizes(SizeofMetaLength) :
             /\ ConsumeWire(n)
             /\ rcvMeta' = WireBytes(n)
             /\ OnHandleFinalized(HandleAmong(n), n)
        /\ UNCHANGED <<rcvSock, rcvBlob, idleTimerVars>>
     \/ /\ rcvSock /\ wire = <<>> /\ sndOpen
        /\ rcvMsgState' = "MSG_START" /\ rcvLeft' = 0
        /\ rcvPc' = "wait"
        /\ UNCHANGED <<wire, rcvSock, rcvDataVars, rcvErr, rcvVer, idleTimerVars>>
  /\ UNCHANGED <<sndOpen, rcvOpen, rcvStarted, rcvReqVars, rcvEvWait, idleOn, idleEvWait,
                 rcvHistVars>>

(* Mutants of Fits.                                                        *)
FitsAlways(len) == TRUE
FitsWithOneToSpare(len) == len < rcvSize

(* The user's storage can take a meta-blob of that length.                 *)
Fits(len) == len <= rcvSize

(* rcv_on_head_payload() once the version is known: `len` is a message's   *)
(* length, a ping, or (0 and no handle) the graceful close.                *)
OnMetaLength(len) ==
  CASE len = S_META_BLOB_LENGTH_PING_SENTINEL ->
         /\ RcvNotIdle /\ rcvPc' = "readMsg"
         /\ UNCHANGED <<rcvErr, rcvReadVars>>
    [] len # 0 /\ len < S_META_BLOB_LENGTH_PING_SENTINEL /\ Fits(len) ->
         /\ rcvMsgState' = "META_BLOB_PAYLOAD" /\ rcvLeft' = len
         /\ rcvPc' = "readBlob"
         /\ UNCHANGED <<rcvErr, idleTimerVars>>
    [] len # 0 /\ len < S_META_BLOB_LENGTH_PING_SENTINEL /\ ~Fits(len) ->
         /\ RcvFails("MESSAGE_SIZE_EXCEEDS_USER_STORAGE")
         /\ UNCHANGED <<rcvReadVars, idleTimerVars>>
    [] len = 0 /\ rcvTakesHandle /\ rcvHandle # NoHandle ->
         /\ RcvNotIdle /\ rcvPc' = "done"
         /\ UNCHANGED <<rcvErr, rcvReadVars>>
    [] OTHER ->
         /\ RcvFails("RECEIVES_FINISHED_CANNOT_RECEIVE")
         /\ UNCHANGED <<rcvReadVars, idleTimerVars>>

OnHeadPayload ==
  /\ rcvPc = "head"
  /\ LET len == MetaLength(rcvMeta)
     IN IF Negotiating
          THEN /\ rcvVer' = NegotiatedVer(LocalMinVer, LocalMaxVer, len)
               /\ IF NegotiationErr(LocalMinVer, LocalMaxVer, len) = NoError
                    THEN rcvPc' = "readMsg" /\ RcvNotIdle /\ UNCHANGED rcvErr
                    ELSE /\ RcvFails(NegotiationErr(LocalMinVer, LocalMaxVer, len))
                         /\ UNCHANGED idleTimerVars
               /\ UNCHANGED rcvReadVars
          ELSE OnMetaLength(len) /\ UNCHANGED rcvVer
  /\ UNCHANGED <<wireVars, rcvSock, rcvStarted, rcvReqVars, rcvDataVars, rcvEvWait,
                 idleOn, idleEvWait, rcvHistVars>>

(* rcv_read_blob(): rcvLeft bytes of the head or of the meta-blob remain.  *)
ReadBlob ==
  /\ rcvPc = "readBlob"
  /\ \/ NbReadFails
     \/ /\ rcvSock
        /\ \E n \in ReadSizes(rcvLeft) :
             /\ ConsumeWire(n)
             /\ IF rcvMsgState = "HEAD_PAYLOAD"
                  THEN rcvMeta' = rcvMeta \o WireBytes(n) /\ UNCHANGED rcvBlob
                  ELSE rcvBlob' = rcvBlob \o WireBytes(n) /\ UNCHANGED rcvMeta
             /\ rcvLeft' = rcvLeft - n
             /\ IF n < rcvLeft
                  THEN rcvPc' = "wait" /\ UNCHANGED idleTimerVars
                  ELSE IF rcvMsgState = "HEAD_PAYLOAD"
                    THEN rcvPc' = "head" /\ UNCHANGED idleTimerVars
                    ELSE rcvPc' = "done" /\ RcvNotIdle
        /\ UNCHANGED <<rcvSock, rcvHandle, rcvErr, rcvVer, rcvMsgState>>
     \/ /\ rcvSock /\ wire = <<>> /\ sndOpen
        /\ rcvPc' = "wait"
        /\ UNCHANGED <<wire, rcvSock, rcvDataVars, rcvErr, rcvVer, rcvReadVars, idleTimerVars>>
  /\ UNCHANGED <<sndOpen, rcvOpen, rcvStarted, rcvReqVars, rcvEvWait, idleOn, idleEvWait,
                 rcvHistVars>>

RegisterNothing == UNCHANGED rcvEvWait   \* mutant
RegisterWait == rcvEvWait' = rcvMsgState

(* Registering the wait for readability and reporting would-block; unless  *)
(* the send direction has taken m_peer_socket away since the read.         *)
AwaitReadable ==
  /\ rcvPc = "wait"
  /\ IF rcvSock
       THEN RegisterWait /\ rcvPc' = "idle" /\ UNCHANGED rcvErr
       ELSE RcvFails("LOW_LVL_TRANSPORT_HOSED_CANNOT_RECEIVE") /\ UNCHANGED rcvEvWait
  /\ UNCHANGED <<wireVars, rcvSock, rcvStarted, rcvReqVars, rcvDataVars, rcvVer,
                 rcvReadVars, idleVars, rcvHistVars>>

(* The request is over: a synchronous result, or the completion handler.   *)
ReportResult ==
  /\ rcvPc = "done"
  /\ rcvPc' = "idle"
  /\ ResetRequest
  /\ rcvResults' = rcvResults + 1
  /\ got' = IF rcvErr = RcvNoError
              THEN Append(got, [h |-> IF rcvTakesHandle THEN rcvHandle ELSE NoHandle,
                                b |-> rcvBlob])
              ELSE got
  /\ UNCHANGED <<wireVars, rcvSock, rcvStarted, rcvHandle, rcvErr, rcvVer, rcvEvWait,
                 idleVars, rcvCalls>>

-----------------------------------------------------------------------------

rcvNoTimerVars == <<rcvSock, rcvStarted, rcvReqVars, rcvDataVars, rcvErr, rcvVer, rcvEvWait,
                    rcvReadVars, idleOn, idleEvWait, rcvPc, rcvHistVars>>

IdleTimerExpires ==
  rcvOpen /\ IdleTimer!Expire /\ UNCHANGED <<wireVars, rcvNoTimerVars>>
IdleTimerSignals ==
  rcvOpen /\ IdleTimer!Signal /\ UNCHANGED <<wireVars, rcvNoTimerVars>>

(* The send direction of the same object met a socket error.               *)
RcvSockHosedBySendOps ==
  /\ rcvSock
  /\ rcvSock' = FALSE
  /\ UNCHANGED <<wireVars, rcvStarted, rcvReqVars, rcvDataVars, rcvErr, rcvVer, rcvEvWait,
                 rcvReadVars, idleVars, rcvPc, rcvHistVars>>

RcvUser ==
  \/ StartReceiveOps
  \/ \E takesHandle \in BOOLEAN, size \in StorageSize : AsyncReceive(takesHandle, size)
  \/ IdleTimerRun

RcvSteps == ReadMsg \/ OnHeadPayload \/ ReadBlob \/ AwaitReadable \/ ReportResult

RcvEvents == OnEvIdleTimerFired \/ OnEvPeerSocketReadable

RcvTimerThread == IdleTimerExpires \/ IdleTimerSignals

(* The other endpoint, when only the receive direction is considered: any  *)
(* program, sending any bytes with any handles, and closing at any moment. *)
WireGetsByte ==
  /\ sndOpen /\ Len(wire) < KernelCap
  /\ \E u \in Unit : wire' = Append(wire, u)
  /\ UNCHANGED <<sndOpen, rcvOpen, rcvVars>>

RcvEnvironment ==
  \/ WireGetsByte
  \/ RcvSockHosedBySendOps
  \/ SndEndpointCloses /\ UNCHANGED rcvVars

RcvNext == RcvUser \/ RcvSteps \/ RcvEvents \/ RcvTimerThread \/ RcvEnvironment

rcvAllVars == <<wireVars, rcvVars>>

(* A call or handler that runs is not abandoned; the event loop serves     *)
(* what it waits for; thread W runs; a running timer expires.              *)
RcvFairness ==
  /\ WF_rcvAllVars(RcvSteps)
  /\ WF_rcvAllVars(OnEvPeerSocketReadable)
  /\ WF_rcvAllVars(OnEvIdleTimerFired)
  /\ WF_rcvAllVars(IdleTimerExpires)
  /\ WF_rcvAllVars(IdleTimerSignals)

RcvSystemInit == WireInit /\ RcvInit
RcvSpec == RcvSystemInit /\ [][RcvNext]_rcvAllVars
RcvFairSpec == RcvSpec /\ RcvFairness

-----------------------------------------------------------------------------
(* Properties.                                                             *)

(* Every accepted async_receive_*() gets exactly one result, whichever of  *)
(* the call itself, the readable-handler and the idle-timer-handler comes  *)
(* first; the request is kept exactly as long as its result is owed.       *)
OneResultPerReceive ==
  rcvCalls - rcvResults = (IF rcvPending THEN 1 ELSE 0)

(* The assertions of the receive path: outside a call a request is there   *)
(* iff somebody will serve it, a wait for readability.  After an idle      *)
(* timeout, the only error found while waiting, the wait may remain, but   *)
(* never with a request.  Inside a call there is a request, no wait, and   *)
(* no error unless the call has just found it.                             *)
PendingIffWaiting ==
  /\ rcvPc = "idle" =>
       /\ rcvPending => rcvEvWait # NotWaiting /\ rcvErr = RcvNoError
       /\ rcvEvWait # NotWaiting => rcvPending \/ rcvErr = "RECEIVER_IDLE_TIMEOUT"
  /\ rcvPc # "idle" => rcvPending
  /\ rcvPc \in {"readMsg", "head", "readBlob", "wait"} => rcvErr = RcvNoError
  /\ rcvPc # "idle" => rcvEvWait = NotWaiting

(* The user's storage is never overrun, neither the blob nor the two bytes *)
(* of the length, however the bytes are fragmented: what is asked of the   *)
(* kernel is what is missing.                                              *)
ReadsFitStorage ==
  /\ Len(rcvMeta) <= SizeofMetaLength
  /\ Len(rcvBlob) <= rcvSize
  /\ rcvPc \in {"readBlob", "wait"} /\ rcvMsgState = "META_BLOB_PAYLOAD" =>
       Len(rcvBlob) + rcvLeft = MetaLength(rcvMeta)
  /\ rcvPc \in {"readBlob", "wait"} /\ rcvMsgState = "HEAD_PAYLOAD" =>
       Len(rcvMeta) + rcvLeft = SizeofMetaLength

(* Until an error, the idle timer is running or its signal is on its way:  *)
(* an idle connection is always found out, and the pipe never fills.       *)
IdleTimerArmed ==
  /\ IdleTimer!Outstanding <= 1
  /\ idleEvWait <=> IdleTimer!Outstanding = 1
  /\ idleOn /\ rcvErr = RcvNoError => IdleTimer!Outstanding = 1

(* With the idle timer on, no request waits for ever on a peer that has    *)
(* fallen silent.                                                          *)
PeerFallsSilent == <>[][Len(wire') <= Len(wire)]_rcvAllVars
ReceiveCompletesIfSilent ==
  PeerFallsSilent => ((rcvPending /\ idleOn) ~> (~rcvPending \/ ~rcvOpen))
=============================================================================
