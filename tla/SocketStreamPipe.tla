-------------------------- MODULE SocketStreamPipe --------------------------
(***************************************************************************)
(* One direction of a connection: the send direction of the object at one  *)
(* end (SocketStreamSnd), the kernel's buffer (StreamWire), the receive    *)
(* direction of the object at the other end (SocketStreamRcv).  The other  *)
(* direction of each object is present in what it can do to this one: once *)
(* the other endpoint is closed its reads meet the end of the stream, or   *)
(* its writes a broken pipe, and it takes m_peer_socket away.              *)
(***************************************************************************)
EXTENDS SocketStreamSnd, SocketStreamRcv

pipeVars == <<wireVars, sndVars, rcvVars>>

SenderSteps ==
  /\ SndUser \/ SndSteps \/ SndEvents \/ SndTimerThread
  /\ UNCHANGED rcvVars

ReceiverSteps ==
  /\ RcvUser \/ RcvSteps \/ RcvEvents \/ RcvTimerThread
  /\ UNCHANGED sndVars

(* Destruction of an object, or the end of its process at any moment.      *)
EndpointCloses ==
  /\ SndEndpointCloses \/ RcvEndpointCloses
  /\ UNCHANGED <<sndVars, rcvVars>>

(* A process that ended takes no more steps: its threads are gone.         *)
OppositeDirectionHoses ==
  \/ ~rcvOpen /\ sndOpen /\ SndSockHosedByReceiveOps /\ UNCHANGED rcvVars
  \/ ~sndOpen /\ rcvOpen /\ RcvSockHosedBySendOps /\ UNCHANGED sndVars

PipeInit == WireInit /\ SndInit /\ RcvInit

PipeNext ==
  \/ sndOpen /\ SenderSteps
  \/ rcvOpen /\ ReceiverSteps
  \/ EndpointCloses
  \/ OppositeDirectionHoses

PipeSpec == PipeInit /\ [][PipeNext]_pipeVars

(* Each side's calls, event loop and timer thread run; the receiving user  *)
(* asks for the next message, with room for any and willing to take a      *)
(* handle, whenever none is asked for.                                     *)
PipeFairness ==
  /\ WF_pipeVars(sndOpen /\ SndSteps /\ UNCHANGED rcvVars)
  /\ WF_pipeVars(sndOpen /\ OnEvPeerSocketWritable /\ UNCHANGED rcvVars)
  /\ WF_pipeVars(rcvOpen /\ RcvSteps /\ UNCHANGED sndVars)
  /\ WF_pipeVars(rcvOpen /\ OnEvPeerSocketReadable /\ UNCHANGED sndVars)
  /\ WF_pipeVars(rcvOpen /\ StartReceiveOps /\ UNCHANGED sndVars)
  /\ WF_pipeVars(/\ rcvOpen /\ UNCHANGED sndVars
                 /\ \E size \in StorageSize :
                      AsyncReceive(TRUE, size) /\ size >= S_MAX_META_BLOB_LENGTH)

PipeFairSpec == PipeSpec /\ PipeFairness

-----------------------------------------------------------------------------
(* Properties.                                                             *)

(* Two objects of this code never find each other's version wanting, and   *)
(* meet a socket error only after an endpoint was closed.                  *)
NoSpuriousError ==
  /\ rcvErr \notin NegotiationErrors
  /\ rcvErr \in {"SYS_ERROR", "LOW_LVL_TRANSPORT_HOSED_CANNOT_RECEIVE"} => ~sndOpen
  /\ sndErr # SndNoError => ~rcvOpen

(* A message refused by the receive direction is the next one in order:    *)
(* it carries a handle nobody asked for, or is larger than the storage of  *)
(* the request that waits for it.                                          *)
RefusalIsAboutNextMessage ==
  [][LET next == sent[Len(got) + 1]
     IN rcvErr' # rcvErr /\ Len(got) < Len(sent) =>
          /\ rcvErr' = "BLOB_RECEIVER_GOT_NON_BLOB" => next.h # NoHandle /\ ~rcvTakesHandle
          /\ rcvErr' = "MESSAGE_SIZE_EXCEEDS_USER_STORAGE" => Len(next.b) > rcvSize]_pipeVars

(* Once the sender ended its sending, the receiver is told, having         *)
(* received everything; unless an endpoint is closed, the idle timer       *)
(* fires, or a message does not fit what the user offered.  (The user must *)
(* be let ask once more than messages are sent: MaxReceives > MaxSends.)   *)
GracefulCloseArrives ==
  sndFinished ~>
    \/ rcvErr = "RECEIVES_FINISHED_CANNOT_RECEIVE" /\ got = sent
    \/ ~sndOpen \/ ~rcvOpen
    \/ rcvErr \in {"RECEIVER_IDLE_TIMEOUT", "BLOB_RECEIVER_GOT_NON_BLOB",
                   "MESSAGE_SIZE_EXCEEDS_USER_STORAGE"}

(* The direction as its users see it.  However payloads are split by the   *)
(* kernel, queued behind others, mixed with pings, or cut off by an error, *)
(* the receiver sees a prefix of the messages sent, each whole and with    *)
(* its own handle; a length of zero is taken for the graceful close only   *)
(* if it is, and after everything that was sent.                           *)
Abstract == INSTANCE MessagePipe
  WITH Msg <- Message, sent <- sent, received <- got, ended <- sndFinished,
       status <- CASE rcvErr = RcvNoError -> "open"
                   [] rcvErr = "RECEIVES_FINISHED_CANNOT_RECEIVE" -> "finished"
                   [] OTHER -> "failed"

ImplementsMessagePipe == Abstract!Spec
=============================================================================
