---------------------------- MODULE AsyncStream ----------------------------
(***************************************************************************)
(* The async-I/O streams in PEER state: Native_socket_stream::Impl, which  *)
(* has both adapters over one core and one thread W, and the sender and    *)
(* the receiver over a message queue, which have one adapter each.  A      *)
(* socket stream may begin without adapters, in NULL state, where its      *)
(* operations return false at once.                                        *)
(***************************************************************************)
EXTENDS AsyncAdapterReceiver, AsyncAdapterSender

VARIABLE adapters   \* which there are: m_snd_sync_io_adapter, m_rcv_sync_io_adapter

vars == <<workerVars, rcvVars, sndVars, adapters>>

IsSocketStream == adapters \in {{}, Side}
IsMqSender == adapters = {"snd"}
IsMqReceiver == adapters = {"rcv"}

(* Types; a request that is posted or done has a result, never would-block,*)
(* and the handler of a call, never an empty one.                          *)
CompletionSet ==
  [side : {"rcv"}, call : 1 .. MaxRequests, res : 1 .. MaxMessages \cup {Failed, Aborted}]
    \cup [side : {"snd"}, call : Func, res : {Flushed, Failed, Aborted}]

TypeOK ==
  /\ adapters \subseteq Side
  /\ posted \in Seq([completion : CompletionSet, more : BOOLEAN])
  /\ looping \in BOOLEAN /\ inTask \in BOOLEAN /\ inHandler \in BOOLEAN
  /\ phase \in {"alive", "stopping", "polling", "abortHead", "abortQueue", "abortSnd", "gone"}
  /\ done \in [Side -> Seq(CompletionSet)]
  /\ userRequest \in 0 .. MaxRequests
  /\ pendingUserRequests \in Seq(1 .. MaxRequests)
  /\ coreBusy \in BOOLEAN /\ coreErr \in BOOLEAN /\ received \in 0 .. MaxMessages
  /\ issued \in 0 .. MaxRequests
  /\ onDoneFunc \in Func \cup {NoFunc}
  /\ coreKeepsHandler \in BOOLEAN /\ coreFinished \in BOOLEAN /\ coreFlushing \in BOOLEAN
  /\ calls \in 0 .. MaxCalls /\ accepted \subseteq Func

Init == WorkerInit /\ RcvInit /\ SndInit /\ adapters \in {{}, Side, {"snd"}, {"rcv"}}

(* sync_connect() that succeeds; until then there is nothing to call.      *)
SyncConnect ==
  /\ adapters = {} /\ phase = "alive"
  /\ adapters' = Side
  /\ UNCHANGED <<workerVars, rcvVars, sndVars>>

SocketStreamCalls ==
  /\ adapters = Side
  /\ (Receives /\ UNCHANGED sndVars) \/ (EndsSending /\ UNCHANGED rcvVars)

MqSenderCalls == IsMqSender /\ EndsSending /\ UNCHANGED rcvVars
MqReceiverCalls == IsMqReceiver /\ Receives /\ UNCHANGED sndVars

User ==
  /\ \/ SocketStreamCalls \/ MqSenderCalls \/ MqReceiverCalls
     \/ Destroy /\ UNCHANGED <<rcvVars, sndVars>>
  /\ UNCHANGED adapters

Worker ==
  /\ \/ ServeNext /\ UNCHANGED sndVars
     \/ (CallHandler \/ HandlerReturns) /\ UNCHANGED <<rcvVars, sndVars>>
  /\ UNCHANGED adapters

(* The destructors' own code; the adapters' destructors follow it.         *)
SocketStreamDtor == IsSocketStream /\ (WorkerStopped \/ PollReturns)
MqSenderDtor == IsMqSender /\ (WorkerStopped \/ PollReturns)
MqReceiverDtor == IsMqReceiver /\ (WorkerStopped \/ PollReturns)

Destructor ==
  /\ \/ /\ SocketStreamDtor \/ MqSenderDtor \/ MqReceiverDtor
        /\ UNCHANGED <<rcvVars, sndVars>>
     \/ RcvDtor /\ UNCHANGED sndVars
     \/ SndDtor /\ UNCHANGED rcvVars
  /\ UNCHANGED adapters

SndFlushes == CoreFlushed /\ UNCHANGED <<rcvVars, adapters>>

Next ==
  \/ SyncConnect \/ User \/ Worker \/ Destructor \/ SndFlushes
  \/ OnSyncIoRcvDone /\ UNCHANGED <<sndVars, adapters>>

(* Thread W and the destructor run; the user's handlers return; what is    *)
(* queued in the core gets out or an error is found.  Nothing is assumed   *)
(* of the peer: an answer to a receive that blocks may never come.         *)
Fairness == WF_vars(Worker) /\ WF_vars(Destructor) /\ WF_vars(SndFlushes)

Spec == Init /\ [][Next]_vars
FairSpec == Spec /\ Fairness

-----------------------------------------------------------------------------
(* Properties.                                                             *)

Ran == done["rcv"]
PostedOf(side) == {i \in 1 .. Len(posted) : posted[i].completion.side = side}
Waiting == (IF userRequest = NoRequest THEN <<>> ELSE <<userRequest>>) \o pendingUserRequests
Answered == issued - Len(Waiting)
BeforeAborts == phase \in {"alive", "stopping", "polling"}

(* Every request is in exactly one place, and they are in order through    *)
(* the places: handlers run, handlers posted, the head slot, the queue.    *)
RequestsInOrder ==
  BeforeAborts =>
    /\ \A i \in 1 .. Len(Ran) : Ran[i].call = i
    /\ {posted[i].completion.call : i \in PostedOf("rcv")} = Len(Ran) + 1 .. Answered
    /\ \A i, j \in PostedOf("rcv") :
         i < j => posted[i].completion.call < posted[j].completion.call
    /\ \A i \in 1 .. Len(Waiting) : Waiting[i] = Answered + i

(* The handlers of async_receive_*() run exactly as promised to the user,  *)
(* also when the object is destroyed with handlers posted, a task half run,*)
(* and requests queued.                                                    *)
Results == [i \in 1 .. Len(Ran) |-> IF Ran[i].call = i THEN Ran[i].res ELSE 99]
Abstract == INSTANCE OrderedCompletions
  WITH results <- Results,
       gone <- phase \in {"abortSnd", "gone"}
ImplementsOrderedCompletions == Abstract!Spec

(* After the core has failed no request is left waiting.                   *)
FailureAnswersAll == coreErr ~> Len(Ran) = issued

RunsOf(f) == {i \in 1 .. Len(done["snd"]) : done["snd"][i].call = f}

(* Whatever the kind of the core and whenever the object is destroyed: the *)
(* handler of the async_end_sending() that returned true runs at most once,*)
(* and has run when the destructor returns; no handler of a call that      *)
(* returned false ever runs.                                               *)
AcceptedHandlerRunsOnce ==
  /\ \A f \in Func : \A i, j \in RunsOf(f) : i = j
  /\ phase = "gone" => \A f \in accepted : RunsOf(f) # {}
  /\ \A f \in Func \ accepted : RunsOf(f) = {}

(* With a core that keeps the handler, the caller is told of the flush     *)
(* without having to destroy the object.                                   *)
FlushReported ==
  \A f \in Func :
    (coreKeepsHandler /\ f \in accepted) ~> RunsOf(f) # {}
=============================================================================
