---------------------------- MODULE MqStreamPipe ----------------------------
(***************************************************************************)
(* A Blob_stream_mq_sender and the Blob_stream_mq_receiver at the other end*)
(* of the same queue.                                                      *)
(***************************************************************************)
EXTENDS MqStreamSnd, MqStreamRcv

pipeVars == <<mqVars, sndVars, rcvVars>>

PipeInit == MqInit /\ SndInit /\ RcvInit

PipeNext ==
  \/ SndNext /\ UNCHANGED rcvVars
  \/ RcvNext /\ UNCHANGED sndVars

PipeSpec == PipeInit /\ [][PipeNext]_pipeVars

(* Each process goes on: its calls in progress, event loop and thread W,   *)
(* and a destructor that has begun; and the receiving user asks for the    *)
(* next message whenever none is asked for (until MaxReceives).            *)
SndProgress ==
  /\ SndSteps \/ OnEvMqSendable \/ WaitSendableReturns \/ WaitSendableInterrupted \/ SndDtorReturns
  /\ UNCHANGED rcvVars
RcvProgress ==
  /\ \/ RcvSteps \/ OnEvMqReceivable
     \/ WaitReceivableReturns \/ WaitReceivableInterrupted \/ RcvDtorReturns
     \/ StartReceiveBlobOps \/ AsyncReceiveBlob
  /\ UNCHANGED sndVars
PipeFairness == WF_pipeVars(SndProgress) /\ WF_pipeVars(RcvProgress)

PipeFairSpec == PipeSpec /\ PipeFairness

-----------------------------------------------------------------------------
(* Properties.                                                             *)

(* Thread U and thread W never use a queue handle at once, which is not    *)
(* safe, although no lock is held: as long as W waits, thread U makes no   *)
(* try_send() or try_receive().                                            *)
WorkerHasQueueAlone ==
  /\ sndPhase = "alive" /\ sndW = "waiting" => ~AboutToTrySend
  /\ rcvPhase = "alive" /\ rcvW = "waiting" => rcvPc # "read"

(* No wake-up is lost or left over: the event loop waits for W's pipe      *)
(* exactly as long as W waits for the queue or its byte is unread; and it  *)
(* does exactly as long as something is queued, or a receive is pending (an*)
(* idle timeout answers the receive and leaves the wait).                  *)
OneWakeupPerWait ==
  /\ sndPhase = "alive" =>
       /\ ~nativeHandle =>
            (IF sndEvWait THEN 1 ELSE 0) = sndReady + (IF sndW = "waiting" THEN 1 ELSE 0)
       /\ sndPc = "idle" => (sndEvWait <=> sndQ # <<>> /\ ~sndErr)
  /\ rcvPhase = "alive" =>
       /\ ~nativeHandle =>
            (IF rcvEvWait THEN 1 ELSE 0) = rcvReady + (IF rcvW = "waiting" THEN 1 ELSE 0)
       /\ rcvPc = "idle" => (rcvPending <=> rcvEvWait /\ ~RcvOver)

(* Whatever a thread W waits for, a destructor comes to an end: at some    *)
(* time neither of the two is in one.                                      *)
Joining == sndPhase = "joining" \/ rcvPhase = "joining"
DestructionEnds == Joining ~> ~Joining

(* The two objects live and the receiver is asked again and again: the     *)
(* handler of async_end_sending() that was told would-block is called.     *)
BothAlive == sndPhase = "alive" /\ rcvPhase = "alive"
EndSendingReported ==
  endCall = "wouldBlock" ~> (endCall = "called" \/ ~BothAlive \/ RcvOver)

(* Once the sender ended its sending, the receiver is told, having received*)
(* everything; unless an end is destroyed or meets an error.  (MaxReceives *)
(* exceeds MaxSends.)                                                      *)
GracefulCloseArrives ==
  sndFinished ~>
    \/ rcvErr = "RECEIVES_FINISHED_CANNOT_RECEIVE" /\ got = sent
    \/ ~BothAlive \/ sndErr \/ rcvErr \in {"SYS_ERROR", "RECEIVER_IDLE_TIMEOUT"}

(* The stream as its users see it: the same promise as that of a           *)
(* direction of the socket stream.                                         *)
Abstract == INSTANCE MessagePipe
  WITH Msg <- Message, sent <- sent, received <- got, ended <- sndFinished,
       status <- CASE rcvErr = RcvNoError -> "open"
                   [] rcvErr = "RECEIVES_FINISHED_CANNOT_RECEIVE" -> "finished"
                   [] OTHER -> "failed"

ImplementsMessagePipe == Abstract!Spec
=============================================================================
