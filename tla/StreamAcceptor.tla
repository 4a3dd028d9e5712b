--------------------------- MODULE StreamAcceptor ---------------------------
(***************************************************************************)
(* Native_socket_stream_acceptor: connected peers as they come (surplus)   *)
(* and async_accept() requests as they are made (deficit), matched in      *)
(* thread W alone.  async_accept() only posts on W, also when called by a  *)
(* handler that W runs.                                                    *)
(*                                                                         *)
(* A step of W ends where a handler of the user is called or returns, as   *)
(* that is where the user can see or do anything.                          *)
(***************************************************************************)
EXTENDS Integers, Sequences

CONSTANTS
  MaxRequests,   \* bound on the calls of async_accept()
  MaxPeers,      \* bound on the peers that connect
  Backlog        \* connections the kernel keeps for accept() to take

ASSUME MaxRequestsAssumption == MaxRequests \in Nat
ASSUME MaxPeersAssumption == MaxPeers \in Nat
ASSUME BacklogAssumption == Backlog \in Nat \ {0}

Failed == 0
Aborted == -1

VARIABLES
  accepting,            \* m_acceptor is open, with its async_accept() under way
  pendingResults,       \* m_pending_results_q: peers, numbered, or Failed
  pendingUserRequests,  \* m_pending_user_requests_q
  posted,               \* requests posted on thread W by async_accept()
  feeding,              \* W feeds a result to the deficit: Idle, or what it feeds
  inHandler,            \* a handler of the user is running
  phase,                \* of the destructor
  arrived,              \* connections the kernel made (external)
  connected,            \* those that the acceptor took from the kernel
  issued, done          \* history: requests made; handlers run, in order

Idle == -2
queueVars == <<pendingResults, pendingUserRequests>>
accVars == <<accepting, queueVars, posted, feeding, inHandler, phase, arrived, connected, issued, done>>

Request == 1 .. MaxRequests
Peer == 1 .. MaxPeers

(* Types; the surplus holds peers and fatal errors only.                   *)
AccTypeOK ==
  /\ accepting \in BOOLEAN
  /\ pendingResults \in Seq(Peer \cup {Failed})
  /\ pendingUserRequests \in Seq(Request)
  /\ posted \in Seq(Request)
  /\ feeding \in Peer \cup {Failed, Idle}
  /\ inHandler \in BOOLEAN
  /\ phase \in {"alive", "stopping", "polling", "abort", "gone"}
  /\ arrived \in 0 .. MaxPeers /\ connected \in 0 .. arrived
  /\ issued \in 0 .. MaxRequests
  /\ done \in Seq([req : Request, res : Peer \cup {Failed, Aborted}])

(* The constructor may fail to listen; the object then exists if the error *)
(* went to an argument, with thread W running.                             *)
AccInit ==
  /\ accepting \in BOOLEAN
  /\ pendingResults = <<>> /\ pendingUserRequests = <<>>
  /\ posted = <<>> /\ feeding = Idle /\ inHandler = FALSE
  /\ phase = "alive" /\ arrived = 0 /\ connected = 0 /\ issued = 0 /\ done = <<>>

-----------------------------------------------------------------------------
(* async_accept(), by thread U or by a handler that runs with a result.    *)
(* (A handler that is told of the abort is asked to return at once; what   *)
(* it posted would never run.)                                             *)
AsyncAccept ==
  /\ issued < MaxRequests
  /\ phase = "alive" \/ (phase \in {"stopping", "polling"} /\ inHandler)
  /\ issued' = issued + 1
  /\ posted' = Append(posted, issued')
  /\ UNCHANGED <<accepting, queueVars, feeding, inHandler, phase, arrived, connected, done>>

-----------------------------------------------------------------------------
(* Thread W, and the transient thread that stands in for it in poll().     *)
WorkerRuns == phase \in {"alive", "polling"}
WorkerFree == feeding = Idle

(* A fatal error caps the surplus and never leaves it; a peer leaves it to *)
(* be fed.                                                                 *)
SurplusPopped(results) == Tail(results)   \* mutant
SurplusKept(results) == results           \* mutant
SurplusAfterFeed(results) ==
  IF Head(results) = Failed THEN results ELSE Tail(results)

(* The task posted by async_accept().                                      *)
OnAsyncAccept ==
  /\ WorkerRuns /\ WorkerFree /\ posted # <<>>
  /\ posted' = Tail(posted)
  /\ pendingUserRequests' = Append(pendingUserRequests, Head(posted))
  /\ IF pendingResults = <<>>
       THEN UNCHANGED <<pendingResults, feeding>>
       ELSE /\ feeding' = Head(pendingResults)
            /\ pendingResults' = SurplusAfterFeed(pendingResults)
  /\ UNCHANGED <<accepting, inHandler, phase, arrived, connected, issued, done>>

(* The result in front of a surplus of one is fed to a deficit there is.   *)
Finalize(results) ==
  IF pendingUserRequests = <<>>
    THEN pendingResults' = results /\ UNCHANGED feeding
    ELSE /\ feeding' = Head(results)
         /\ pendingResults' = SurplusAfterFeed(results)

(* on_next_peer_socket_or_error(): a new peer.  (accepting stays TRUE: the *)
(* next async_accept() of the acceptor starts before W is free again.)     *)
OnNextPeerSocket ==
  /\ WorkerRuns /\ WorkerFree /\ accepting /\ connected < arrived
  /\ connected' = connected + 1
  /\ Finalize(Append(pendingResults, connected'))
  /\ UNCHANGED <<accepting, pendingUserRequests, posted, inHandler, phase, arrived, issued, done>>

(* on_next_peer_socket_or_error(): a fatal error; the acceptor is closed.  *)
(* (connection_aborted changes nothing, nor does operation_aborted.)       *)
OnNextPeerError ==
  /\ WorkerRuns /\ WorkerFree /\ accepting
  /\ accepting' = FALSE
  /\ Finalize(Append(pendingResults, Failed))
  /\ UNCHANGED <<pendingUserRequests, posted, inHandler, phase, arrived, connected, issued, done>>

(* feed_*_result_to_deficit(): the handler is called while its request is  *)
(* still in front of the queue.                                            *)
CallHandler ==
  /\ ~WorkerFree /\ ~inHandler
  /\ done' = Append(done, [req |-> Head(pendingUserRequests), res |-> feeding])
  /\ inHandler' = TRUE
  /\ UNCHANGED <<accepting, queueVars, posted, feeding, phase, arrived, connected, issued>>

FeedGoesOn(requests) == feeding = Failed /\ requests # <<>>

HandlerReturns ==
  /\ ~WorkerFree /\ inHandler
  /\ inHandler' = FALSE
  /\ pendingUserRequests' = Tail(pendingUserRequests)
  /\ feeding' = IF FeedGoesOn(pendingUserRequests') THEN feeding ELSE Idle
  /\ UNCHANGED <<accepting, pendingResults, posted, phase, arrived, connected, issued, done>>

-----------------------------------------------------------------------------
Destroy ==
  /\ phase = "alive"
  /\ phase' = "stopping"
  /\ UNCHANGED <<accepting, queueVars, posted, feeding, inHandler, arrived, connected, issued, done>>

NoPolling == "abort"   \* mutant
PhaseAfterStop == "polling"

(* stop() returns once W is done with what it runs.                        *)
WorkerStopped ==
  /\ phase = "stopping" /\ WorkerFree
  /\ phase' = PhaseAfterStop
  /\ UNCHANGED <<accepting, queueVars, posted, feeding, inHandler, arrived, connected, issued, done>>

PollReturns ==
  /\ phase = "polling" /\ WorkerFree /\ posted = <<>>
  /\ phase' = "abort"
  /\ UNCHANGED <<accepting, queueVars, posted, feeding, inHandler, arrived, connected, issued, done>>

AbortRequest ==
  /\ phase = "abort" /\ ~inHandler
  /\ IF pendingUserRequests = <<>>
       THEN phase' = "gone" /\ UNCHANGED <<inHandler, done>>
       ELSE /\ done' = Append(done, [req |-> Head(pendingUserRequests), res |-> Aborted])
            /\ inHandler' = TRUE
            /\ UNCHANGED phase
  /\ UNCHANGED <<accepting, queueVars, posted, feeding, arrived, connected, issued>>

AbortReturns ==
  /\ phase = "abort" /\ inHandler
  /\ inHandler' = FALSE
  /\ pendingUserRequests' = Tail(pendingUserRequests)
  /\ UNCHANGED <<accepting, pendingResults, posted, feeding, phase, arrived, connected, issued, done>>

-----------------------------------------------------------------------------
(* The socket listens from the constructor to a fatal error or the end of  *)
(* the destructor; a connection is made without the acceptor's doing.      *)
Listening == accepting /\ phase # "gone"
BacklogFull == arrived - connected >= Backlog

PeerArrives ==
  /\ Listening /\ ~BacklogFull /\ arrived < MaxPeers
  /\ arrived' = arrived + 1
  /\ UNCHANGED <<accepting, queueVars, posted, feeding, inHandler, phase, connected, issued, done>>

Network == OnNextPeerSocket \/ OnNextPeerError
Worker == OnAsyncAccept \/ CallHandler \/ HandlerReturns
Destructor == WorkerStopped \/ PollReturns \/ AbortRequest \/ AbortReturns

-----------------------------------------------------------------------------
(* Properties.                                                             *)

(* In steady state there is no surplus with a deficit: no request waits    *)
(* while a peer waits for it, as the assertions of the matching require.   *)
(* A result is fed only to a request.  An error, once met, caps the        *)
(* surplus and stays, and the acceptor is closed.                          *)
SteadyState ==
  /\ ~WorkerFree => pendingUserRequests # <<>>
  /\ WorkerFree /\ phase # "abort" => pendingResults = <<>> \/ pendingUserRequests = <<>>
  /\ \A i \in 1 .. Len(pendingResults) :
       pendingResults[i] = Failed => i = Len(pendingResults) /\ ~accepting
  /\ \A i \in 1 .. Len(done) :
       done[i].res = Failed => pendingResults = <<Failed>>

(* No peer that connected is lost or given twice.  In the order of their   *)
(* connecting they are: those handed out, to the requests in their order,  *)
(* then the one being handed out, then the surplus.                        *)
Surplus ==
  IF pendingResults # <<>> /\ pendingResults[Len(pendingResults)] = Failed
    THEN Len(pendingResults) - 1 ELSE Len(pendingResults)
Leaving == IF feeding > 0 /\ ~inHandler THEN 1 ELSE 0
Handed == connected - Surplus - Leaving
PeersConserved ==
  /\ Handed \in 0 .. Len(done)
  /\ \A i \in 1 .. Handed : done[i].res = i
  /\ \A i \in Handed + 1 .. Len(done) : done[i].res \in {Failed, Aborted}
  /\ feeding > 0 => feeding = Handed + Leaving
  /\ \A i \in 1 .. Surplus : pendingResults[i] = Handed + Leaving + i

(* The handlers run exactly as promised to the user.                       *)
Abstract == INSTANCE OrderedCompletions
  WITH results <- [i \in 1 .. Len(done) |-> IF done[i].req = i THEN done[i].res ELSE 99],
       gone <- phase = "gone"
ImplementsOrderedCompletions == Abstract!Spec

=============================================================================
