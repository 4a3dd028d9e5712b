------------------------ MODULE AsyncAdapterReceiver ------------------------
(***************************************************************************)
(* sync_io::Async_adapter_receiver: the receive side of an async-I/O       *)
(* stream (Native_socket_stream, Blob_stream_mq_receiver), built from a    *)
(* sync_io core, the thread W of AsyncWorker and a mutex.                  *)
(*                                                                         *)
(* Whatever runs with m_mutex locked is one step, except the loop of       *)
(* on_sync_io_rcv_done(), which takes a step per request and keeps the     *)
(* lock (`looping').  The core is taken by what it promises its caller:    *)
(* a receive is answered at once, or would block and is answered later;    *)
(* an error is answered for ever after.                                    *)
(***************************************************************************)
EXTENDS AsyncWorker

CONSTANTS
  MaxRequests,   \* bound on the requests the user makes
  MaxMessages    \* messages that reach the core before it is hosed

ASSUME MaxRequestsAssumption == MaxRequests \in Nat
ASSUME MaxMessagesAssumption == MaxMessages \in Nat

NoRequest == 0

VARIABLES
  userRequest,          \* m_user_request, the head slot: a request or NoRequest
  pendingUserRequests,  \* m_pending_user_requests_q
  coreBusy,             \* the core owes an answer for userRequest
  coreErr,              \* the core is hosed
  received,             \* messages the core has given out
  issued                \* history: requests made

coreRcvVars == <<coreBusy, coreErr, received>>
slotVars == <<userRequest, pendingUserRequests>>
rcvVars == <<slotVars, coreRcvVars, issued>>

RcvInit ==
  /\ userRequest = NoRequest /\ pendingUserRequests = <<>>
  /\ coreBusy = FALSE /\ coreErr = FALSE /\ received = 0
  /\ issued = 0

(* Answers of the core to a receive, or to the event it waited for.        *)
Answer ==
  IF coreErr THEN {Failed}
  ELSE {Failed} \cup (IF received < MaxMessages THEN {received + 1} ELSE {})

CoreAnswers(res) ==
  /\ coreBusy' = FALSE
  /\ coreErr' = (res = Failed)
  /\ received' = IF res = Failed THEN received ELSE received + 1

(* The handlers one task of thread W is to run: that of the head request,  *)
(* and on an error those of all that queue behind it.                      *)
HeadCompletionOnly(head, queue, res) ==   \* mutant
  <<Task(Completion("rcv", head, res), FALSE)>>
Completions(head, queue, res) ==
  LET requests == <<head>> \o queue
  IN [i \in 1 .. Len(requests) |->
        Task(Completion("rcv", requests[i], res), i < Len(requests))]

Promoted(queue) == IF queue = <<>> THEN NoRequest ELSE Head(queue)
AfterPromotion(queue) == IF queue = <<>> THEN <<>> ELSE Tail(queue)

(* process_msg_or_error(), called when the request in the head slot has a  *)
(* result.                                                                 *)
ProcessMsgOrError(head, queue, res) ==
  IF res = Failed
    THEN /\ posted' = posted \o Completions(head, queue, res)
         /\ userRequest' = NoRequest
         /\ pendingUserRequests' = <<>>
    ELSE /\ posted' = posted \o Completions(head, <<>>, res)
         /\ userRequest' = Promoted(queue)
         /\ pendingUserRequests' = AfterPromotion(queue)

-----------------------------------------------------------------------------
(* async_receive_*(), by thread U or by a handler, which wait for m_mutex. *)
MayReceive ==
  issued < MaxRequests /\ ~looping /\ MayCall({"abortHead", "abortQueue"})

QueueRequest ==
  /\ MayReceive /\ userRequest # NoRequest
  /\ issued' = issued + 1
  /\ pendingUserRequests' = Append(pendingUserRequests, issued')
  /\ UNCHANGED <<userRequest, coreRcvVars, workerVars>>

ReceiveWouldBlock ==
  /\ MayReceive /\ userRequest = NoRequest
  /\ ~coreErr
  /\ issued' = issued + 1
  /\ userRequest' = issued'
  /\ coreBusy' = TRUE
  /\ UNCHANGED <<pendingUserRequests, coreErr, received, workerVars>>

ReceiveAtOnce ==
  /\ MayReceive /\ userRequest = NoRequest
  /\ issued' = issued + 1
  /\ \E res \in Answer :
       CoreAnswers(res) /\ ProcessMsgOrError(issued', pendingUserRequests, res)
  /\ UNCHANGED <<taskVars, inHandler, phase, done>>

-----------------------------------------------------------------------------
(* In thread W.                                                            *)

(* The event the core waits for: on_active_ev_func() with m_mutex locked,  *)
(* and on_sync_io_rcv_done() if it answers the receive.                    *)
OnSyncIoRcvDone ==
  /\ WorkerRuns /\ WorkerFree /\ coreBusy
  /\ \E res \in Answer :
       CoreAnswers(res) /\ ProcessMsgOrError(userRequest, pendingUserRequests, res)
  /\ looping' = (userRequest' # NoRequest)
  /\ UNCHANGED <<inTask, inHandler, phase, done, issued>>

(* The loop of on_sync_io_rcv_done(), while a request is in the head slot. *)
ServeNextAtOnce ==
  /\ looping
  /\ \E res \in Answer :
       CoreAnswers(res) /\ ProcessMsgOrError(userRequest, pendingUserRequests, res)
  /\ looping' = (userRequest' # NoRequest)
  /\ UNCHANGED <<inTask, inHandler, phase, done, issued>>

ServeNextWouldBlock ==
  /\ looping /\ ~coreErr
  /\ coreBusy' = TRUE
  /\ looping' = FALSE
  /\ UNCHANGED <<slotVars, coreErr, received, posted, inTask, inHandler, phase, done, issued>>

-----------------------------------------------------------------------------
(* ~Async_adapter_receiver(): the head slot stays as it is.                *)

AbortHead ==
  /\ phase = "abortHead" /\ userRequest # NoRequest
  /\ RunHandler(Completion("rcv", userRequest, Aborted))
  /\ UNCHANGED <<rcvVars, posted, taskVars, phase>>

AbortHeadReturns ==
  /\ phase = "abortHead" /\ inHandler
  /\ inHandler' = FALSE
  /\ phase' = "abortQueue"
  /\ UNCHANGED <<rcvVars, posted, taskVars, done>>

AbortQueued ==
  /\ phase = "abortQueue" /\ pendingUserRequests # <<>>
  /\ RunHandler(Completion("rcv", Head(pendingUserRequests), Aborted))
  /\ UNCHANGED <<rcvVars, posted, taskVars, phase>>

AbortQueuedReturns ==
  /\ phase = "abortQueue" /\ inHandler
  /\ inHandler' = FALSE
  /\ pendingUserRequests' = Tail(pendingUserRequests)
  /\ UNCHANGED <<userRequest, coreRcvVars, issued, posted, taskVars, phase, done>>

NoneAborted ==
  /\ \/ phase = "abortHead" /\ userRequest = NoRequest
     \/ phase = "abortQueue" /\ pendingUserRequests = <<>>
  /\ ~inHandler
  /\ phase' = "abortSnd"
  /\ UNCHANGED <<rcvVars, posted, taskVars, inHandler, done>>

-----------------------------------------------------------------------------
Receives == QueueRequest \/ ReceiveWouldBlock \/ ReceiveAtOnce
ServeNext == ServeNextAtOnce \/ ServeNextWouldBlock
RcvDtor ==
  AbortHead \/ AbortHeadReturns \/ AbortQueued \/ AbortQueuedReturns \/ NoneAborted
=============================================================================
