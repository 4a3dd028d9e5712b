----------------------- MODULE StreamEstablish_proofs -----------------------
(***************************************************************************)
(* For any numbers of attempts, requests, peers and places in the backlog: *)
(* the stream that connects and the acceptor that it connects to.          *)
(***************************************************************************)
EXTENDS StreamEstablish, SequenceTheorems, TLAPS

(***************************************************************************)
(* The stream: whole, in NULL or in PEER state, whenever sync_connect() is *)
(* not running.                                                            *)
(*                                                                         *)
(* NullOrPeer is about the state between calls.  What makes it inductive   *)
(* is where the call is: which of the two threads owns the next step, and  *)
(* what each has done by then.                                             *)
(***************************************************************************)

(* Before a wait is registered: nothing but m_state has changed.           *)
ConnectControl ==
  uPc = "connect" =>
    state = "CONNECTING" /\ ~workerRuns /\ connWait = "none" /\ ~promise /\ errCode = "ok"

(* The wait is registered and thread C does not run.                       *)
BlockedControl ==
  uPc = "blocked" => state = "CONNECTING" /\ ~workerRuns /\ connWait # "none" /\ ~promise

(* U sleeps, C runs: before, and after, the writable event is handled.     *)
WaitControl ==
  uPc = "wait" =>
    /\ workerRuns
    /\ \/ state = "CONNECTING" /\ connWait # "none" /\ ~promise
       \/ state = "PEER" /\ connWait = "none" /\ creds # "unset" /\ (promise => errCode = "ok")

(* Connected, the parts of the connect not yet exchanged for the adapters. *)
ConnectedControl ==
  uPc = "connected" =>
    state = "PEER" /\ errCode = "ok" /\ creds # "unset" /\ ~workerRuns /\ connWait = "none"

PartsControl ==
  /\ uPc # "idle" => connParts /\ ~adapters
  /\ aborted => uPc = "idle" /\ ~workerRuns /\ connWait = "none"
  /\ workerRuns => uPc = "wait"

Control ==
  ConnectControl /\ BlockedControl /\ WaitControl /\ ConnectedControl /\ PartsControl /\ NullOrPeer

IInv == TypeOK /\ Control

(* The initial states, one for each constructor.                           *)
LEMMA InitIInv == Init => IInv
<1> SUFFICES ASSUME Init PROVE IInv
  OBVIOUS
<1> USE MaxAttemptsAssumption DEF Init
<1>1. /\ aborted \in BOOLEAN /\ nonBlocking \in BOOLEAN /\ sockHosed \in BOOLEAN
      /\ connParts \in BOOLEAN /\ workerRuns \in BOOLEAN /\ promise \in BOOLEAN /\ adapters \in BOOLEAN
  BY Zenon
<1>2. TypeOK
  BY <1>1 DEF TypeOK
<1> USE DEF IInv, Control, ConnectControl, BlockedControl, WaitControl, ConnectedControl,
            PartsControl, NullOrPeer, WholeInNull, WholeInPeer
<1>3. CASE state = "NULL"
  <2>1. connParts /\ ~adapters
    BY <1>3, Zenon
  <2> QED
    BY <1>2, <1>3, <2>1
<1>4. CASE state = "PEER"
  BY <1>2, <1>4
<1> QED
  BY <1>3, <1>4

(* Every step keeps the types.                                             *)
LEMMA NextTypeOK == TypeOK /\ [Next]_vars => TypeOK'
<1> SUFFICES ASSUME TypeOK, [Next]_vars PROVE TypeOK'
  OBVIOUS
<1> USE MaxAttemptsAssumption DEF TypeOK, connVars, buildVars
<1>1. CASE SyncConnect
  <2>1. promise' \in BOOLEAN
    BY <1>1, Zenon DEF SyncConnect
  <2> QED
    BY <1>1, <2>1 DEF SyncConnect
<1>2. CASE AssertNotNonBlocking
  BY <1>2 DEF AssertNotNonBlocking
<1>3. CASE ConnectFails
  BY <1>3 DEF ConnectFails
<1>4. CASE ConnectSucceeds
  BY <1>4 DEF ConnectSucceeds
<1>5. CASE ConnectWouldBlock
  BY <1>5 DEF ConnectWouldBlock
<1>6. CASE StartWorker
  BY <1>6 DEF StartWorker
<1>7. CASE SocketWritable
  BY <1>7 DEF SocketWritable
<1>8. CASE ConnOnEvPeerSocketWritable
  BY <1>8 DEF ConnOnEvPeerSocketWritable
<1>9. CASE FulfilPromise
  BY <1>9 DEF FulfilPromise
<1>10. CASE WakeUp
  <2>1. workerRuns' \in BOOLEAN
    BY <1>10, Zenon DEF WakeUp
  <2> QED
    BY <1>10, <2>1 DEF WakeUp
<1>11. CASE FinishConnect
  <2>1. connParts' \in BOOLEAN
    BY <1>11, Zenon DEF FinishConnect
  <2> QED
    BY <1>11, <2>1 DEF FinishConnect
<1>12. CASE OverrideCreds
  BY <1>12 DEF OverrideCreds
<1>13. CASE HoseSocket
  BY <1>13 DEF HoseSocket
<1>14. CASE UNCHANGED vars
  BY <1>14 DEF vars
<1> QED
  BY <1>1, <1>2, <1>3, <1>4, <1>5, <1>6, <1>7, <1>8, <1>9, <1>10, <1>11, <1>12, <1>13, <1>14
     DEF Next, ConnectSteps

(* Every step keeps the control invariant.                                 *)
LEMMA NextControl == IInv /\ [Next]_vars => Control'
<1> SUFFICES ASSUME IInv, [Next]_vars PROVE Control'
  OBVIOUS
<1> USE MaxAttemptsAssumption
    DEF IInv, Control, ConnectControl, BlockedControl, WaitControl, ConnectedControl, PartsControl,
        NullOrPeer, WholeInNull, WholeInPeer, TypeOK, connVars, buildVars
<1>1. CASE SyncConnect
  BY <1>1 DEF SyncConnect
<1>2. CASE AssertNotNonBlocking
  BY <1>2 DEF AssertNotNonBlocking
<1>3. CASE ConnectFails
  BY <1>3 DEF ConnectFails
<1>4. CASE ConnectSucceeds
  BY <1>4 DEF ConnectSucceeds
<1>5. CASE ConnectWouldBlock
  BY <1>5 DEF ConnectWouldBlock
<1>6. CASE StartWorker
  BY <1>6 DEF StartWorker
<1>7. CASE SocketWritable
  BY <1>7 DEF SocketWritable
<1>8. CASE ConnOnEvPeerSocketWritable
  BY <1>8 DEF ConnOnEvPeerSocketWritable
<1>9. CASE FulfilPromise
  BY <1>9 DEF FulfilPromise
<1>10. CASE WakeUp
  BY <1>10 DEF WakeUp
<1>11. CASE FinishConnect
  BY <1>11 DEF FinishConnect
<1>12. CASE OverrideCreds
  BY <1>12 DEF OverrideCreds
<1>13. CASE HoseSocket
  BY <1>13 DEF HoseSocket
<1>14. CASE UNCHANGED vars
  BY <1>14 DEF vars
<1> QED
  BY <1>1, <1>2, <1>3, <1>4, <1>5, <1>6, <1>7, <1>8, <1>9, <1>10, <1>11, <1>12, <1>13, <1>14
     DEF Next, ConnectSteps

LEMMA Inductive == Spec => []IInv
<1>1. IInv /\ [Next]_vars => IInv'
  BY NextTypeOK, NextControl DEF IInv
<1> QED
  BY InitIInv, <1>1, PTL DEF Spec

(* The types hold for any number of attempts.                              *)
THEOREM ConnectTypes == Spec => []TypeOK
<1>1. IInv => TypeOK
  BY DEF IInv
<1> QED
  BY Inductive, <1>1, PTL

(* Whenever the user may call something the stream is whole, in NULL or in *)
(* PEER state, and no thread or wait of sync_connect() is left over.       *)
THEOREM AlwaysNullOrPeer == Spec => []NullOrPeer
<1>1. IInv => NullOrPeer
  BY DEF IInv, Control
<1> QED
  BY Inductive, <1>1, PTL

(***************************************************************************)
(* The acceptor.                                                           *)
(*                                                                         *)
(* Thread W hands peers to requests.  The requests, in the order they were *)
(* made, are: those done, the deficit and those still posted.  The peers,  *)
(* in the order they connected, are: those handed out, the one being       *)
(* handed out and the surplus (PeersConserved).  What ties the two rows    *)
(* together is that W is at rest only if one of deficit and surplus is     *)
(* empty (SteadyState).                                                    *)
(***************************************************************************)

(* Requests done; the handler of the last may be running, the request then *)
(* still in front of the deficit.                                          *)
Finished == Len(done) - (IF inHandler THEN 1 ELSE 0)

RequestControl ==
  /\ Finished \in Nat
  /\ \A i \in 1 .. Len(done) : done[i].req = i
  /\ \A i \in 1 .. Len(pendingUserRequests) : pendingUserRequests[i] = Finished + i
  /\ \A i \in 1 .. Len(posted) : posted[i] = Finished + Len(pendingUserRequests) + i
  /\ issued = Finished + Len(pendingUserRequests) + Len(posted)
  /\ inHandler => pendingUserRequests # <<>>

PhaseControl ==
  /\ inHandler /\ WorkerFree => phase = "abort"
  /\ phase \in {"abort", "gone"} => WorkerFree /\ posted = <<>>
  /\ phase = "gone" => pendingUserRequests = <<>>
  /\ \A i \in 1 .. Len(done) : done[i].res = Aborted => phase \in {"abort", "gone"}

(* What W feeds.  A peer goes to the only request there is, or to the      *)
(* first of a deficit that only an error can follow.                       *)
FeedControl ==
  /\ feeding = Failed => pendingResults = <<Failed>>
  /\ feeding > 0 => pendingResults = <<>> \/ Len(pendingUserRequests) = 1
  /\ feeding > 0 => \A i \in 1 .. Len(done) : done[i].res # Failed

(* Through sync_io there is one request at a time: made by the user, done  *)
(* by W, or in the pipe.                                                   *)
SioControl ==
  IF wrapped
    THEN /\ readyBytes \in {0, 1}
         /\ issued = Len(reported) + (IF handlerSaved THEN 1 ELSE 0)
         /\ Len(reported) + readyBytes <= Len(done)
    ELSE readyBytes = 0

SioTypes ==
  /\ wrapped \in BOOLEAN /\ started \in BOOLEAN /\ handlerSaved \in BOOLEAN
  /\ target \in Peer \cup {Failed, Idle}
  /\ readyBytes \in Nat /\ readyWait \in BOOLEAN
  /\ reported \in Seq(Peer \cup {Failed, Idle})
  /\ mine \in 0 .. arrived

AcceptorControl ==
  /\ RequestControl /\ PhaseControl /\ FeedControl /\ SioControl
  /\ SteadyState /\ PeersConserved /\ AcceptReported

AcceptorInv == AccTypeOK /\ SioTypes /\ AcceptorControl

-----------------------------------------------------------------------------
(* Sequences that get longer at the end, and shorter in front.             *)
LEMMA Grown ==
  ASSUME NEW S, NEW s \in Seq(S), NEW e \in S
  PROVE  /\ Append(s, e) \in Seq(S) /\ Append(s, e) # <<>>
         /\ Len(s) \in Nat /\ Len(Append(s, e)) = Len(s) + 1
         /\ \A i \in 1 .. Len(s) : Append(s, e)[i] = s[i]
         /\ Append(s, e)[Len(s) + 1] = e
<1>1. Len(s) \in Nat
  BY LenProperties
<1> QED
  BY <1>1, AppendProperties

LEMMA Shrunk ==
  ASSUME NEW S, NEW s \in Seq(S), s # <<>>
  PROVE  /\ Tail(s) \in Seq(S) /\ Head(s) \in S /\ Head(s) = s[1]
         /\ Len(s) \in Nat /\ Len(s) >= 1 /\ Len(Tail(s)) = Len(s) - 1
         /\ \A i \in 1 .. Len(s) - 1 : Tail(s)[i] = s[i + 1]
<1>1. Len(s) \in Nat /\ Len(s) >= 1
  BY EmptySeq, LenProperties
<1>2. /\ Tail(s) \in Seq(S) /\ Head(s) \in S /\ Len(Tail(s)) = Len(s) - 1
      /\ \A i \in 1 .. Len(Tail(s)) : Tail(s)[i] = s[i + 1]
  BY HeadTailProperties
<1>3. Head(s) = s[1]
  OBVIOUS
<1> QED
  BY <1>1, <1>2, <1>3

LEMMA EmptyIffLen == ASSUME NEW S, NEW s \in Seq(S) PROVE s = <<>> <=> Len(s) = 0
BY EmptySeq

(* What a step does to the acceptor, whoever takes it.                     *)
AccStep ==
  \/ AsyncAccept \/ OnAsyncAccept \/ OnNextPeerSocket \/ OnNextPeerError
  \/ CallHandler \/ HandlerReturns \/ Destroy \/ WorkerStopped \/ PollReturns
  \/ AbortRequest \/ AbortReturns \/ PeerArrives \/ UNCHANGED accVars

LEMMA EstSteps == [EstNext]_estVars => [Next]_vars /\ AccStep
<1> SUFFICES ASSUME [EstNext]_estVars PROVE [Next]_vars /\ AccStep
  OBVIOUS
<1>1. CASE UNCHANGED estVars
  BY <1>1 DEF estVars, acceptorVars, AccStep
<1>2. CASE ClientConnects
  BY <1>2 DEF ClientConnects, Next, ConnectSteps, Arrives, NoArrival, acceptorVars, AccStep
<1>3. CASE ClientWritable
  BY <1>3 DEF ClientWritable, Next, Arrives, NoArrival, acceptorVars, AccStep
<1>4. CASE ClientOther
  BY <1>4 DEF ClientOther, Next, ConnectSteps, NoArrival, acceptorVars, AccStep
<1>5. CASE AcceptorStep
  BY <1>5 DEF AcceptorStep, AcceptorUser, StartAcceptOps, SioAsyncAccept, SioAcceptReturns, OnReadyReadable,
              CoreWorker, CoreCallsHandler, Network, Destructor, AccStep
<1> QED
  BY <1>1, <1>2, <1>3, <1>4, <1>5 DEF EstNext, Client

(* Results and requests are what their sequences hold.                     *)
LEMMA AccLengths ==
  ASSUME AccTypeOK
  PROVE  /\ Len(pendingResults) \in Nat /\ Len(pendingUserRequests) \in Nat
         /\ Len(posted) \in Nat /\ Len(done) \in Nat
         /\ pendingResults = <<>> <=> Len(pendingResults) = 0
         /\ pendingUserRequests = <<>> <=> Len(pendingUserRequests) = 0
         /\ posted = <<>> <=> Len(posted) = 0
         /\ connected \in Int /\ arrived \in Int /\ feeding \in Int /\ issued \in Nat
         /\ \A i \in 1 .. Len(pendingResults) : pendingResults[i] \in Peer \cup {Failed}
         /\ \A i \in 1 .. Len(done) : done[i].res \in Peer \cup {Failed, Aborted}
<1> USE MaxRequestsAssumption, MaxPeersAssumption DEF AccTypeOK, Peer, Request, Failed, Idle, Aborted
<1>1. Len(pendingResults) \in Nat /\ (pendingResults = <<>> <=> Len(pendingResults) = 0)
  BY LenProperties, EmptyIffLen
<1>2. Len(pendingUserRequests) \in Nat /\ (pendingUserRequests = <<>> <=> Len(pendingUserRequests) = 0)
  BY LenProperties, EmptyIffLen
<1>3. Len(posted) \in Nat /\ (posted = <<>> <=> Len(posted) = 0)
  BY LenProperties, EmptyIffLen
<1>4. Len(done) \in Nat
  BY LenProperties
<1>5. connected \in Int /\ arrived \in Int /\ feeding \in Int /\ issued \in Nat
  OBVIOUS
<1>6. \A i \in 1 .. Len(pendingResults) : pendingResults[i] \in Peer \cup {Failed}
  BY ElementOfSeq
<1>7. \A i \in 1 .. Len(done) : done[i] \in [req : Request, res : Peer \cup {Failed, Aborted}]
  BY ElementOfSeq
<1> QED
  BY <1>1, <1>2, <1>3, <1>4, <1>5, <1>6, <1>7

(* The acceptor's types.                                                   *)
LEMMA NextAccTypes ==
  ASSUME AccTypeOK, RequestControl, SteadyState, AccStep
  PROVE  AccTypeOK'
<1> USE MaxRequestsAssumption, MaxPeersAssumption DEF queueVars, Failed, Idle, Aborted
<1> DEFINE Res == Peer \cup {Failed}
           Outcome == [req : Request, res : Peer \cup {Failed, Aborted}]
<1>1. /\ accepting \in BOOLEAN /\ inHandler \in BOOLEAN
      /\ pendingResults \in Seq(Res) /\ pendingUserRequests \in Seq(Request) /\ posted \in Seq(Request)
      /\ feeding \in Peer \cup {Failed, Idle}
      /\ phase \in {"alive", "stopping", "polling", "abort", "gone"}
      /\ arrived \in 0 .. MaxPeers /\ connected \in 0 .. arrived /\ issued \in 0 .. MaxRequests
      /\ done \in Seq(Outcome)
  BY DEF AccTypeOK
<1>2. pendingUserRequests # <<>> =>
        /\ Tail(pendingUserRequests) \in Seq(Request) /\ Head(pendingUserRequests) \in Request
  BY <1>1, Shrunk
<1>3. pendingResults # <<>> => SurplusAfterFeed(pendingResults) \in Seq(Res) /\ Head(pendingResults) \in Res
  <2> SUFFICES ASSUME pendingResults # <<>>
               PROVE  SurplusAfterFeed(pendingResults) \in Seq(Res) /\ Head(pendingResults) \in Res
    OBVIOUS
  <2>1. Tail(pendingResults) \in Seq(Res) /\ Head(pendingResults) \in Res
    BY <1>1, Shrunk
  <2> QED
    BY <1>1, <2>1 DEF SurplusAfterFeed
<1>4. ASSUME NEW results \in Seq(Res), results # <<>>, Finalize(results)
      PROVE  pendingResults' \in Seq(Res) /\ feeding' \in Peer \cup {Failed, Idle}
  <2>1. Tail(results) \in Seq(Res) /\ Head(results) \in Res
    BY <1>4, Shrunk
  <2>2. SurplusAfterFeed(results) \in Seq(Res)
    BY <1>4, <2>1 DEF SurplusAfterFeed
  <2> QED
    BY <1>1, <1>4, <2>1, <2>2 DEF Finalize
<1>5. CASE AsyncAccept
  <2>1. issued' \in Request
    BY <1>1, <1>5 DEF AsyncAccept, Request
  <2>2. posted' \in Seq(Request)
    BY <1>1, <1>5, <2>1, Grown DEF AsyncAccept
  <2> QED
    BY <1>1, <1>5, <2>1, <2>2 DEF AsyncAccept, AccTypeOK, Request
<1>6. CASE OnAsyncAccept
  <2>1. posted' \in Seq(Request) /\ Head(posted) \in Request
    BY <1>1, <1>6, Shrunk DEF OnAsyncAccept
  <2>2. pendingUserRequests' \in Seq(Request)
    BY <1>1, <1>6, <2>1, Grown DEF OnAsyncAccept
  <2>3. pendingResults' \in Seq(Res) /\ feeding' \in Peer \cup {Failed, Idle}
    BY <1>1, <1>3, <1>6 DEF OnAsyncAccept
  <2> QED
    BY <1>1, <1>6, <2>1, <2>2, <2>3 DEF OnAsyncAccept, AccTypeOK
<1>7. CASE OnNextPeerSocket
  <2>1. connected' \in Res /\ connected' \in 0 .. arrived
    BY <1>1, <1>7 DEF OnNextPeerSocket, Peer
  <2>2. \A c \in Res : Append(pendingResults, c) \in Seq(Res) /\ Append(pendingResults, c) # <<>>
    BY <1>1, Grown
  <2>3. pendingResults' \in Seq(Res) /\ feeding' \in Peer \cup {Failed, Idle}
    BY <1>4, <1>7, <2>1, <2>2 DEF OnNextPeerSocket
  <2> QED
    BY <1>1, <1>7, <2>1, <2>3 DEF OnNextPeerSocket, AccTypeOK
<1>8. CASE OnNextPeerError
  <2>1. Append(pendingResults, Failed) \in Seq(Res) /\ Append(pendingResults, Failed) # <<>>
    BY <1>1, Grown
  <2>2. pendingResults' \in Seq(Res) /\ feeding' \in Peer \cup {Failed, Idle}
    BY <1>4, <1>8, <2>1 DEF OnNextPeerError
  <2> QED
    BY <1>1, <1>8, <2>2 DEF OnNextPeerError, AccTypeOK
<1>9. CASE CallHandler
  <2>1. [req |-> Head(pendingUserRequests), res |-> feeding] \in Outcome
    BY <1>1, <1>2, <1>9 DEF CallHandler, SteadyState, WorkerFree
  <2>2. done' \in Seq(Outcome)
    BY <1>1, <1>9, <2>1, Grown DEF CallHandler
  <2> QED
    BY <1>1, <1>9, <2>2 DEF CallHandler, AccTypeOK
<1>10. CASE HandlerReturns
  <2>1. pendingUserRequests' \in Seq(Request)
    BY <1>2, <1>10 DEF HandlerReturns, SteadyState
  <2>2. feeding' \in Peer \cup {Failed, Idle}
    BY <1>1, <1>10 DEF HandlerReturns
  <2> QED
    BY <1>1, <1>10, <2>1, <2>2 DEF HandlerReturns, AccTypeOK
<1>11. CASE Destroy
  BY <1>1, <1>11 DEF Destroy, AccTypeOK
<1>12. CASE WorkerStopped
  BY <1>1, <1>12 DEF WorkerStopped, PhaseAfterStop, AccTypeOK
<1>13. CASE PollReturns
  BY <1>1, <1>13 DEF PollReturns, AccTypeOK
<1>14. CASE AbortRequest
  <2>1. CASE pendingUserRequests = <<>>
    BY <1>1, <1>14, <2>1 DEF AbortRequest, AccTypeOK
  <2>2. CASE pendingUserRequests # <<>>
    <3>1. [req |-> Head(pendingUserRequests), res |-> Aborted] \in Outcome
      BY <1>1, <1>2, <2>2
    <3>2. Append(done, [req |-> Head(pendingUserRequests), res |-> Aborted]) \in Seq(Outcome)
      BY <1>1, <3>1, Grown
    <3> QED
      BY <1>1, <1>14, <2>2, <3>2 DEF AbortRequest, AccTypeOK
  <2> QED
    BY <2>1, <2>2
<1>15. CASE AbortReturns
  <2>1. pendingUserRequests' \in Seq(Request)
    BY <1>2, <1>15 DEF AbortReturns, RequestControl
  <2> QED
    BY <1>1, <1>15, <2>1 DEF AbortReturns, AccTypeOK
<1>16. CASE PeerArrives
  BY <1>1, <1>16 DEF PeerArrives, AccTypeOK
<1>17. CASE UNCHANGED accVars
  BY <1>1, <1>17 DEF accVars, AccTypeOK
<1> QED
  BY <1>5, <1>6, <1>7, <1>8, <1>9, <1>10, <1>11, <1>12, <1>13, <1>14, <1>15, <1>16, <1>17 DEF AccStep

(* A handler has been called.                                              *)
LEMMA DoneGrown ==
  ASSUME AccTypeOK, NEW q, NEW r, done' = Append(done, [req |-> q, res |-> r])
  PROVE  /\ Len(done) \in Nat /\ Len(done') = Len(done) + 1
         /\ done'[Len(done) + 1].req = q /\ done'[Len(done) + 1].res = r
         /\ \A i \in 1 .. Len(done) : done'[i] = done[i]
<1> DEFINE Outcome == [req : Request, res : Peer \cup {Failed, Aborted}]
           S == Outcome \cup {[req |-> q, res |-> r]}
<1>1. done \in Seq(S)
  <2>1. done \in Seq(Outcome)
    BY DEF AccTypeOK
  <2> QED
    BY <2>1, SeqMonotonic
<1> HIDE DEF S
<1>2. [req |-> q, res |-> r] \in S
  BY DEF S
<1> QED
  BY <1>1, <1>2, Grown

(* A sequence of one element.                                              *)
LEMMA Single ==
  ASSUME NEW S, NEW s \in Seq(S), Len(s) = 1
  PROVE  s = <<s[1]>>
OBVIOUS

LEMMA AppendToEmpty == \A x : Append(<<>>, x) = <<x>> /\ Tail(<<x>>) = <<>> /\ Head(<<x>>) = x
OBVIOUS

(* A request is fed at once, or joins the deficit.                         *)
LEMMA RequestMatched ==
  ASSUME AccTypeOK, PhaseControl, SteadyState, OnAsyncAccept
  PROVE  /\ posted # <<>> /\ pendingUserRequests' = Append(pendingUserRequests, Head(posted))
         /\ \/ pendingResults = <<>> /\ UNCHANGED <<pendingResults, feeding>>
            \/ /\ pendingUserRequests = <<>>
               /\ pendingResults = <<Failed>> /\ pendingResults' = <<Failed>> /\ feeding' = Failed
            \/ /\ pendingUserRequests = <<>>
               /\ pendingResults # <<>> /\ pendingResults[1] \in Peer
               /\ pendingResults' = Tail(pendingResults) /\ feeding' = pendingResults[1]
<1>1. /\ posted # <<>> /\ pendingUserRequests' = Append(pendingUserRequests, Head(posted))
      /\ WorkerFree /\ phase # "abort"
  BY DEF OnAsyncAccept, WorkerRuns
<1>2. CASE pendingResults = <<>>
  BY <1>1, <1>2 DEF OnAsyncAccept
<1>3. CASE pendingResults # <<>>
  <2>1. pendingUserRequests = <<>>
    BY <1>1, <1>3 DEF SteadyState
  <2>2. pendingResults' = SurplusAfterFeed(pendingResults) /\ feeding' = Head(pendingResults)
    BY <1>3 DEF OnAsyncAccept
  <2>3. /\ Head(pendingResults) \in Peer \cup {Failed} /\ Head(pendingResults) = pendingResults[1]
        /\ Len(pendingResults) >= 1 /\ Len(pendingResults) \in Nat
    BY <1>3, Shrunk DEF AccTypeOK
  <2>4. CASE Head(pendingResults) = Failed
    <3>1. 1 \in 1 .. Len(pendingResults)
      BY <2>3
    <3>2. Len(pendingResults) = 1
      BY <2>3, <2>4, <3>1 DEF SteadyState
    <3>3. pendingResults = <<Failed>>
      BY <2>3, <2>4, <3>2, Single DEF AccTypeOK
    <3> QED
      BY <1>1, <2>1, <2>2, <2>4, <3>3 DEF SurplusAfterFeed
  <2>5. CASE Head(pendingResults) # Failed
    BY <1>1, <1>3, <2>1, <2>2, <2>3, <2>5 DEF SurplusAfterFeed
  <2> QED
    BY <2>4, <2>5
<1> QED
  BY <1>2, <1>3

(* A result is fed at once, or joins the surplus.                          *)
LEMMA ResultMatched ==
  ASSUME AccTypeOK, SteadyState, WorkerFree, phase # "abort",
         NEW r \in Peer \cup {Failed}, Finalize(Append(pendingResults, r))
  PROVE  \/ pendingUserRequests = <<>> /\ pendingResults' = Append(pendingResults, r) /\ UNCHANGED feeding
         \/ /\ pendingUserRequests # <<>> /\ pendingResults = <<>>
            /\ pendingResults' = (IF r = Failed THEN <<Failed>> ELSE <<>>) /\ feeding' = r
<1>1. CASE pendingUserRequests = <<>>
  BY <1>1 DEF Finalize
<1>2. CASE pendingUserRequests # <<>>
  <2>1. pendingResults = <<>>
    BY <1>2 DEF SteadyState
  <2>2. Append(pendingResults, r) = <<r>> /\ Head(<<r>>) = r /\ Tail(<<r>>) = <<>>
    BY <2>1, AppendToEmpty
  <2> QED
    BY <1>2, <2>1, <2>2 DEF Finalize, SurplusAfterFeed
<1> QED
  BY <1>1, <1>2

(* Thread W is at rest only with no surplus or no deficit.                 *)
LEMMA NextSteady ==
  ASSUME AccTypeOK, RequestControl, PhaseControl, FeedControl, SteadyState, AccStep
  PROVE  SteadyState'
<1> USE DEF queueVars, Failed, Idle, Aborted
<1> DEFINE n == Len(pendingResults)
           Capped(results, open) ==
             \A i \in 1 .. Len(results) : results[i] = Failed => i = Len(results) /\ ~open
           Ended == \E i \in 1 .. Len(done) : done[i].res = Failed
<1>1. /\ n \in Nat /\ Len(pendingUserRequests) \in Nat /\ Len(done) \in Nat
      /\ pendingUserRequests = <<>> <=> Len(pendingUserRequests) = 0
      /\ pendingResults \in Seq(Peer \cup {Failed}) /\ pendingUserRequests \in Seq(Request)
      /\ Capped(pendingResults, accepting)
      /\ Ended => pendingResults = <<Failed>>
  BY AccLengths DEF AccTypeOK, SteadyState
<1>2. ASSUME WorkerFree, phase # "abort" PROVE pendingResults = <<>> \/ pendingUserRequests = <<>>
  BY <1>2 DEF SteadyState
<1>3. /\ Len(<<Failed>>) = 1 /\ <<Failed>>[1] = Failed /\ \A open : ~open => Capped(<<Failed>>, open)
      /\ \A open : Capped(<<>>, open)
  OBVIOUS
<1>4. ASSUME accepting PROVE ~Ended /\ \A i \in 1 .. n : pendingResults[i] \in Peer
  <2>1. \A i \in 1 .. n : pendingResults[i] # Failed /\ pendingResults[i] \in Peer \cup {Failed}
    BY <1>1, <1>4, AccLengths
  <2>2. pendingResults # <<Failed>>
    BY <1>1, <1>3, <1>4
  <2> QED
    BY <1>1, <2>1, <2>2
<1> SUFFICES /\ ~WorkerFree' => pendingUserRequests' # <<>>
             /\ WorkerFree' /\ phase' # "abort" => pendingResults' = <<>> \/ pendingUserRequests' = <<>>
             /\ Capped(pendingResults', accepting')
             /\ Ended' => pendingResults' = <<Failed>>
  BY DEF SteadyState
<1>5. CASE OnAsyncAccept
  <2>1. UNCHANGED <<accepting, done, phase>>
    BY <1>5 DEF OnAsyncAccept
  <2>2. pendingUserRequests' # <<>>
    <3>1. Head(posted) \in Request
      BY <1>5, RequestMatched, Shrunk DEF AccTypeOK
    <3> QED
      BY <1>1, <1>5, <3>1, RequestMatched, Grown
  <2>3. CASE pendingResults = <<>> /\ UNCHANGED <<pendingResults, feeding>>
    BY <1>1, <2>1, <2>2, <2>3
  <2>4. CASE pendingResults = <<Failed>> /\ pendingResults' = <<Failed>> /\ feeding' = Failed
    BY <1>1, <2>1, <2>2, <2>4 DEF WorkerFree
  <2>5. CASE /\ pendingResults # <<>> /\ pendingResults[1] \in Peer
             /\ pendingResults' = Tail(pendingResults) /\ feeding' = pendingResults[1]
    <3>1. ~WorkerFree'
      BY <2>5, MaxPeersAssumption DEF Peer, WorkerFree
    <3>2. ~Ended
      BY <1>1, <1>3, <2>5, MaxPeersAssumption DEF Peer
    <3>3. n >= 1 /\ Len(pendingResults') = n - 1 /\ \A i \in 1 .. n - 1 : pendingResults'[i] = pendingResults[i + 1]
      BY <1>1, <2>5, Shrunk
    <3>4. Capped(pendingResults', accepting')
      BY <1>1, <2>1, <3>3
    <3> QED
      BY <2>1, <2>2, <3>1, <3>2, <3>4
  <2> QED
    BY <1>5, <2>3, <2>4, <2>5, RequestMatched
<1>6. ASSUME NEW r \in Peer \cup {Failed}, WorkerFree, phase # "abort", Finalize(Append(pendingResults, r)),
             accepting, r = Failed => ~accepting', UNCHANGED <<pendingUserRequests, done, phase>>
      PROVE  /\ ~WorkerFree' => pendingUserRequests' # <<>>
             /\ WorkerFree' /\ phase' # "abort" => pendingResults' = <<>> \/ pendingUserRequests' = <<>>
             /\ Capped(pendingResults', accepting')
             /\ Ended' => pendingResults' = <<Failed>>
  <2>1. ~Ended'
    BY <1>4, <1>6
  <2>2. CASE /\ pendingUserRequests = <<>> /\ pendingResults' = Append(pendingResults, r)
             /\ UNCHANGED feeding
    <3>1. /\ Len(pendingResults') = n + 1 /\ pendingResults'[n + 1] = r
          /\ \A i \in 1 .. n : pendingResults'[i] = pendingResults[i]
      BY <1>1, <1>6, <2>2, Grown
    <3>2. Capped(pendingResults', accepting')
      BY <1>1, <1>4, <1>6, <3>1, MaxPeersAssumption DEF Peer
    <3> QED
      BY <1>6, <2>1, <2>2, <3>2 DEF WorkerFree
  <2>3. CASE /\ pendingUserRequests # <<>> /\ pendingResults = <<>>
             /\ pendingResults' = (IF r = Failed THEN <<Failed>> ELSE <<>>) /\ feeding' = r
    <3>1. ~WorkerFree'
      BY <1>6, <2>3, MaxPeersAssumption DEF Peer, WorkerFree
    <3> QED
      BY <1>3, <1>6, <2>1, <2>3, <3>1
  <2> QED
    BY <1>6, <2>2, <2>3, ResultMatched
<1>7. CASE OnNextPeerSocket
  <2>1. /\ connected' \in Peer /\ WorkerFree /\ phase # "abort" /\ accepting
        /\ Finalize(Append(pendingResults, connected')) /\ UNCHANGED <<pendingUserRequests, done, phase>>
    BY <1>7, MaxPeersAssumption DEF OnNextPeerSocket, WorkerRuns, AccTypeOK, Peer
  <2>2. connected' # Failed
    BY <2>1, MaxPeersAssumption DEF Peer
  <2> QED
    BY <1>6, <2>1, <2>2
<1>8. CASE OnNextPeerError
  BY <1>6, <1>8 DEF OnNextPeerError, WorkerRuns
<1>9. CASE CallHandler
  <2>1. UNCHANGED <<accepting, phase, pendingResults, pendingUserRequests, feeding>>
    BY <1>9 DEF CallHandler
  <2>2. ASSUME Ended' PROVE pendingResults' = <<Failed>>
    <3>1. /\ Len(done') = Len(done) + 1 /\ done'[Len(done) + 1].res = feeding
          /\ \A i \in 1 .. Len(done) : done'[i] = done[i]
      BY <1>1, <1>9 DEF CallHandler, AccTypeOK
    <3>2. Ended \/ feeding = Failed
      BY <1>1, <2>2, <3>1
    <3> QED
      BY <1>1, <2>1, <3>2 DEF FeedControl
  <2> QED
    BY <1>1, <2>1, <2>2 DEF SteadyState, WorkerFree
<1>10. CASE HandlerReturns
  <2>1. /\ UNCHANGED <<accepting, phase, pendingResults, done>>
        /\ pendingUserRequests' = Tail(pendingUserRequests) /\ ~WorkerFree
        /\ feeding' = IF feeding = Failed /\ pendingUserRequests' # <<>> THEN feeding ELSE Idle
    BY <1>10 DEF HandlerReturns, FeedGoesOn
  <2>2. feeding = Failed \/ feeding > 0
    BY <2>1, MaxPeersAssumption DEF AccTypeOK, Peer, WorkerFree
  <2>3. pendingUserRequests # <<>>
    BY <2>1 DEF SteadyState
  <2>4. Len(pendingUserRequests) = 1 => pendingUserRequests' = <<>>
    BY <1>1, <2>1, <2>3, Shrunk, EmptyIffLen
  <2>5. WorkerFree' => pendingResults' = <<>> \/ pendingUserRequests' = <<>>
    BY <2>1, <2>2, <2>4 DEF FeedControl, WorkerFree
  <2>6. ~WorkerFree' => pendingUserRequests' # <<>>
    BY <2>1 DEF WorkerFree
  <2> QED
    BY <1>1, <2>1, <2>5, <2>6
<1>11. CASE AbortRequest
  <2>1. /\ UNCHANGED <<accepting, pendingResults, pendingUserRequests, feeding>> /\ phase = "abort"
        /\ phase' # "abort" => pendingUserRequests = <<>>
    BY <1>11 DEF AbortRequest
  <2>2. Ended' => Ended
    <3>1. CASE done' = done
      BY <3>1
    <3>2. CASE done' # done
      <4>1. /\ Len(done') = Len(done) + 1 /\ done'[Len(done) + 1].res = Aborted
            /\ \A i \in 1 .. Len(done) : done'[i] = done[i]
        <5>1. done' = Append(done, [req |-> Head(pendingUserRequests), res |-> Aborted])
          BY <1>11, <3>2 DEF AbortRequest
        <5> QED
          BY <5>1, DoneGrown
      <4> QED
        BY <1>1, <4>1
    <3> QED
      BY <3>1, <3>2
  <2> QED
    BY <1>1, <2>1, <2>2 DEF PhaseControl, WorkerFree
<1>12. CASE AbortReturns
  <2>1. UNCHANGED <<accepting, pendingResults, feeding, done, phase>> /\ phase = "abort"
    BY <1>12 DEF AbortReturns
  <2> QED
    BY <1>1, <2>1 DEF PhaseControl, WorkerFree
<1>13. ASSUME UNCHANGED <<accepting, pendingResults, pendingUserRequests, feeding, done>>,
              phase = "abort" => phase' = "abort"
       PROVE  /\ ~WorkerFree' => pendingUserRequests' # <<>>
              /\ WorkerFree' /\ phase' # "abort" => pendingResults' = <<>> \/ pendingUserRequests' = <<>>
              /\ Capped(pendingResults', accepting')
              /\ Ended' => pendingResults' = <<Failed>>
  BY <1>1, <1>13 DEF SteadyState, WorkerFree
<1>14. CASE AsyncAccept \/ Destroy \/ WorkerStopped \/ PollReturns \/ PeerArrives \/ UNCHANGED accVars
  <2>1. UNCHANGED <<accepting, pendingResults, pendingUserRequests, feeding, done>> /\ (phase = "abort" => phase' = "abort")
    BY <1>14 DEF AsyncAccept, Destroy, WorkerStopped, PollReturns, PeerArrives, accVars
  <2> QED
    BY <1>13, <2>1
<1> QED
  BY <1>5, <1>7, <1>8, <1>9, <1>10, <1>11, <1>12, <1>14 DEF AccStep

(* What the phases of the destructor say of thread W.                      *)
LEMMA NextPhase ==
  ASSUME AccTypeOK, RequestControl, PhaseControl, SteadyState, AccStep
  PROVE  PhaseControl'
<1> USE DEF queueVars, Failed, Idle, Aborted, WorkerFree, PhaseControl
<1> DEFINE Told == \E i \in 1 .. Len(done) : done[i].res = Aborted
<1>1. Told => phase \in {"abort", "gone"}
  OBVIOUS
<1>2. ASSUME UNCHANGED done PROVE Told' => Told
  BY <1>2
<1>3. CASE AsyncAccept
  BY <1>3 DEF AsyncAccept
<1>4. CASE OnAsyncAccept
  BY <1>4 DEF OnAsyncAccept, WorkerRuns
<1>5. CASE OnNextPeerSocket
  BY <1>5 DEF OnNextPeerSocket, WorkerRuns
<1>6. CASE OnNextPeerError
  BY <1>6 DEF OnNextPeerError, WorkerRuns
<1>7. CASE CallHandler
  <2>1. /\ UNCHANGED <<phase, posted, pendingUserRequests, feeding>> /\ feeding # Idle
        /\ done' = Append(done, [req |-> Head(pendingUserRequests), res |-> feeding])
    BY <1>7 DEF CallHandler
  <2>2. feeding # Aborted
    BY <2>1, MaxPeersAssumption DEF AccTypeOK, Peer
  <2>3. Told' => Told
    BY <2>1, <2>2, DoneGrown
  <2> QED
    BY <2>1, <2>3
<1>8. CASE HandlerReturns
  <2>1. UNCHANGED <<phase, posted, done>> /\ ~inHandler' /\ feeding # Idle
    BY <1>8 DEF HandlerReturns
  <2>2. phase \notin {"abort", "gone"}
    BY <2>1
  <2> QED
    BY <2>1, <2>2
<1>9. CASE Destroy
  BY <1>9 DEF Destroy
<1>10. CASE WorkerStopped
  BY <1>10 DEF WorkerStopped, PhaseAfterStop
<1>11. CASE PollReturns
  BY <1>11 DEF PollReturns
<1>12. CASE AbortRequest
  <2>1. UNCHANGED <<posted, pendingUserRequests, feeding>> /\ phase = "abort" /\ phase' \in {"abort", "gone"}
    BY <1>12 DEF AbortRequest
  <2>2. phase' = "gone" => pendingUserRequests' = <<>> /\ inHandler' = inHandler /\ ~inHandler
    BY <1>12 DEF AbortRequest
  <2> QED
    BY <2>1, <2>2
<1>13. CASE AbortReturns
  BY <1>13 DEF AbortReturns
<1>14. CASE PeerArrives
  BY <1>14 DEF PeerArrives
<1>15. CASE UNCHANGED accVars
  BY <1>15 DEF accVars
<1> QED
  BY <1>3, <1>4, <1>5, <1>6, <1>7, <1>8, <1>9, <1>10, <1>11, <1>12, <1>13, <1>14, <1>15 DEF AccStep

(* What is being fed.                                                      *)
LEMMA NextFeed ==
  ASSUME AccTypeOK, RequestControl, PhaseControl, FeedControl, SteadyState, AccStep
  PROVE  FeedControl'
<1> USE DEF queueVars, Failed, Idle, Aborted
<1> DEFINE Ended == \E i \in 1 .. Len(done) : done[i].res = Failed
<1>1. /\ Ended => pendingResults = <<Failed>>
      /\ feeding = Failed => pendingResults = <<Failed>>
      /\ feeding > 0 => pendingResults = <<>> \/ Len(pendingUserRequests) = 1
      /\ feeding > 0 => ~Ended
  BY DEF SteadyState, FeedControl
<1>2. Len(<<Failed>>) = 1 /\ <<Failed>>[1] = Failed /\ <<Failed>> # <<>>
  OBVIOUS
<1>3. ASSUME feeding' = Idle PROVE FeedControl'
  BY <1>3 DEF FeedControl
<1>4. ASSUME UNCHANGED <<pendingResults, pendingUserRequests, feeding, done>> PROVE FeedControl'
  BY <1>1, <1>4 DEF FeedControl
<1>5. CASE OnAsyncAccept
  <2>1. UNCHANGED done /\ feeding = Idle
    BY <1>5 DEF OnAsyncAccept, WorkerFree
  <2>2. CASE UNCHANGED feeding
    BY <1>3, <2>1, <2>2
  <2>3. CASE pendingResults' = <<Failed>> /\ feeding' = Failed
    BY <2>3 DEF FeedControl
  <2>4. CASE pendingUserRequests = <<>> /\ pendingResults[1] \in Peer /\ feeding' = pendingResults[1]
    <3>1. ~Ended' /\ feeding' # Failed
      BY <1>1, <1>2, <2>1, <2>4, MaxPeersAssumption DEF Peer
    <3>2. Head(posted) \in Request
      BY <1>5, RequestMatched, Shrunk DEF AccTypeOK
    <3>3. Len(pendingUserRequests') = 1
      BY <1>5, <2>4, <3>2, RequestMatched, AppendToEmpty
    <3> QED
      BY <3>1, <3>3 DEF FeedControl
  <2> QED
    BY <1>5, <2>2, <2>3, <2>4, RequestMatched
<1>6. ASSUME NEW r \in Peer \cup {Failed}, WorkerFree, phase # "abort", Finalize(Append(pendingResults, r)),
             UNCHANGED done
      PROVE  FeedControl'
  <2>1. CASE UNCHANGED feeding
    BY <1>3, <1>6, <2>1 DEF WorkerFree
  <2>2. CASE /\ pendingResults = <<>> /\ feeding' = r
             /\ pendingResults' = (IF r = Failed THEN <<Failed>> ELSE <<>>)
    <3>1. ~Ended'
      BY <1>1, <1>2, <1>6, <2>2
    <3> QED
      BY <2>2, <3>1 DEF FeedControl
  <2> QED
    BY <1>6, <2>1, <2>2, ResultMatched
<1>7. CASE OnNextPeerSocket
  <2>1. /\ connected' \in Peer /\ WorkerFree /\ phase # "abort"
        /\ Finalize(Append(pendingResults, connected')) /\ UNCHANGED done
    BY <1>7, MaxPeersAssumption DEF OnNextPeerSocket, WorkerRuns, AccTypeOK, Peer
  <2> QED
    BY <1>6, <2>1
<1>8. CASE OnNextPeerError
  BY <1>6, <1>8 DEF OnNextPeerError, WorkerRuns
<1>9. CASE CallHandler
  <2>1. UNCHANGED <<pendingResults, pendingUserRequests, feeding>>
    BY <1>9 DEF CallHandler
  <2>2. feeding > 0 => ~Ended'
    <3>1. done' = Append(done, [req |-> Head(pendingUserRequests), res |-> feeding])
      BY <1>9 DEF CallHandler
    <3> QED
      BY <1>1, <3>1, DoneGrown
  <2> QED
    BY <1>1, <2>1, <2>2 DEF FeedControl
<1>10. CASE HandlerReturns
  <2>1. /\ UNCHANGED <<pendingResults, done>>
        /\ feeding' = IF feeding = Failed /\ pendingUserRequests' # <<>> THEN feeding ELSE Idle
    BY <1>10 DEF HandlerReturns, FeedGoesOn
  <2>2. feeding' = Idle \/ (feeding' = Failed /\ feeding = Failed)
    BY <2>1
  <2> QED
    BY <1>1, <2>1, <2>2 DEF FeedControl
<1>11. CASE AbortRequest \/ AbortReturns
  <2>1. feeding' = feeding /\ phase = "abort"
    BY <1>11 DEF AbortRequest, AbortReturns
  <2> QED
    BY <1>3, <2>1 DEF PhaseControl, WorkerFree
<1>12. CASE AsyncAccept \/ Destroy \/ WorkerStopped \/ PollReturns \/ PeerArrives \/ UNCHANGED accVars
  BY <1>4, <1>12 DEF AsyncAccept, Destroy, WorkerStopped, PollReturns, PeerArrives, accVars
<1> QED
  BY <1>5, <1>7, <1>8, <1>9, <1>10, <1>11, <1>12 DEF AccStep

(* Requests stay in the order they were made.                              *)
LEMMA NextRequests ==
  ASSUME AccTypeOK, RequestControl, PhaseControl, SteadyState, AccStep
  PROVE  RequestControl'
<1> DEFINE fin == Finished
           u == Len(pendingUserRequests)
           w == Len(posted)
<1>1. /\ fin \in Nat /\ u \in Nat /\ w \in Nat /\ issued \in Nat /\ Len(done) \in Nat
      /\ issued = fin + u + w
  BY AccLengths DEF RequestControl
<1>a. /\ pendingUserRequests = <<>> <=> u = 0
      /\ inHandler => pendingUserRequests # <<>>
      /\ pendingUserRequests \in Seq(Request) /\ posted \in Seq(Request)
  BY AccLengths DEF RequestControl, AccTypeOK
<1>b. fin = IF inHandler THEN Len(done) - 1 ELSE Len(done)
  BY AccLengths DEF Finished
<1>2. /\ \A i \in 1 .. Len(done) : done[i].req = i
      /\ \A i \in 1 .. u : pendingUserRequests[i] = fin + i
      /\ \A i \in 1 .. w : posted[i] = fin + u + i
  BY DEF RequestControl
<1> HIDE DEF fin, u, w
<1>3. ASSUME UNCHANGED <<inHandler, done, pendingUserRequests, posted, issued>> PROVE RequestControl'
  BY <1>3 DEF RequestControl, Finished
<1>4. ASSUME UNCHANGED <<inHandler, done>> PROVE Finished' = fin
  BY <1>4 DEF fin, Finished
<1>5. CASE AsyncAccept
  <2>1. /\ UNCHANGED <<inHandler, done, pendingUserRequests>> /\ issued' = issued + 1
        /\ posted' = Append(posted, issued + 1)
    BY <1>5 DEF AsyncAccept, queueVars
  <2>2. issued + 1 \in Request
    BY <1>1, <1>5, MaxRequestsAssumption DEF AsyncAccept, Request
  <2>3. \A c \in Request :
          /\ Len(Append(posted, c)) = w + 1 /\ Append(posted, c)[w + 1] = c
          /\ \A i \in 1 .. w : Append(posted, c)[i] = posted[i]
    BY <1>a, Grown DEF w
  <2>4. Len(posted') = w + 1 /\ posted'[w + 1] = fin + u + (w + 1)
    BY <1>1, <2>1, <2>2, <2>3
  <2>5. \A i \in 1 .. w : posted'[i] = fin + u + i
    BY <1>2, <2>1, <2>2, <2>3
  <2>6. \A i \in 1 .. Len(posted') : posted'[i] = fin + u + i
    <3>1. \A i \in 1 .. w + 1 : i \in 1 .. w \/ i = w + 1
      BY <1>1
    <3> QED
      BY <2>4, <2>5, <3>1
  <2>7. Finished' = fin /\ Len(pendingUserRequests') = u
    BY <1>4, <2>1 DEF u
  <2>8. issued' = fin + u + (w + 1)
    BY <1>1, <2>1
  <2>9. \A i \in 1 .. u : pendingUserRequests'[i] = fin + i
    BY <1>2, <2>1
  <2> QED
    BY <1>1, <1>2, <1>a, <2>1, <2>4, <2>6, <2>7, <2>8, <2>9 DEF RequestControl
<1>6. CASE OnAsyncAccept
  <2>1. /\ UNCHANGED <<inHandler, done, issued>> /\ posted # <<>> /\ posted' = Tail(posted)
        /\ pendingUserRequests' = Append(pendingUserRequests, Head(posted))
    BY <1>6 DEF OnAsyncAccept
  <2>2. /\ Head(posted) \in Request /\ Head(posted) = posted[1]
        /\ w >= 1 /\ Len(posted') = w - 1 /\ \A i \in 1 .. w - 1 : posted'[i] = posted[i + 1]
    BY <1>a, <2>1, Shrunk DEF w
  <2>3. /\ Len(pendingUserRequests') = u + 1 /\ pendingUserRequests'[u + 1] = Head(posted)
        /\ pendingUserRequests' # <<>>
        /\ \A i \in 1 .. u : pendingUserRequests'[i] = pendingUserRequests[i]
    BY <1>a, <2>1, <2>2, Grown DEF u
  <2>4. Head(posted) = fin + u + 1
    BY <1>1, <1>2, <2>2
  <2>5. \A i \in 1 .. Len(pendingUserRequests') : pendingUserRequests'[i] = fin + i
    <3>1. \A i \in 1 .. u + 1 : i \in 1 .. u \/ i = u + 1
      BY <1>1
    <3>2. pendingUserRequests'[u + 1] = fin + (u + 1)
      BY <1>1, <2>3, <2>4
    <3> QED
      BY <1>2, <2>3, <3>1, <3>2
  <2>6. \A i \in 1 .. Len(posted') : posted'[i] = fin + Len(pendingUserRequests') + i
    <3>1. \A i \in 1 .. w - 1 : i + 1 \in 1 .. w /\ fin + u + (i + 1) = fin + (u + 1) + i
      BY <1>1
    <3> QED
      BY <1>2, <2>2, <2>3, <3>1
  <2>7. Finished' = fin
    BY <1>4, <2>1
  <2>8. issued' = fin + (u + 1) + (w - 1)
    BY <1>1, <2>1
  <2> QED
    BY <1>1, <1>2, <2>1, <2>2, <2>3, <2>5, <2>6, <2>7, <2>8 DEF RequestControl
<1>7. ASSUME NEW r, ~inHandler, inHandler', pendingUserRequests # <<>>,
             done' = Append(done, [req |-> Head(pendingUserRequests), res |-> r]),
             UNCHANGED <<pendingUserRequests, posted, issued>>
      PROVE  RequestControl'
  <2>1. /\ Len(done') = Len(done) + 1 /\ done'[Len(done) + 1].req = Head(pendingUserRequests)
        /\ \A i \in 1 .. Len(done) : done'[i] = done[i]
    BY <1>7, DoneGrown
  <2>2. Head(pendingUserRequests) = fin + 1
    <3>1. Head(pendingUserRequests) = pendingUserRequests[1] /\ u >= 1
      BY <1>a, <1>7, Shrunk DEF u
    <3>2. 1 \in 1 .. u
      BY <1>1, <3>1
    <3> QED
      BY <1>2, <3>1, <3>2
  <2>3. fin = Len(done)
    BY <1>b, <1>7
  <2>4. \A i \in 1 .. Len(done') : done'[i].req = i
    <3>1. \A i \in 1 .. Len(done) + 1 : i \in 1 .. Len(done) \/ i = Len(done) + 1
      BY <1>1
    <3> QED
      BY <1>2, <2>1, <2>2, <2>3, <3>1
  <2>5. Finished' = fin
    BY <1>1, <1>7, <2>1, <2>3 DEF Finished
  <2>6. Len(pendingUserRequests') = u /\ Len(posted') = w /\ issued' = fin + u + w
    BY <1>1, <1>7 DEF u, w
  <2> QED
    BY <1>1, <1>2, <1>7, <2>4, <2>5, <2>6 DEF RequestControl
<1>8. ASSUME inHandler, inHandler' = FALSE, pendingUserRequests' = Tail(pendingUserRequests),
             UNCHANGED <<done, posted, issued>>
      PROVE  RequestControl'
  <2>1. /\ u >= 1 /\ Len(pendingUserRequests') = u - 1
        /\ \A i \in 1 .. u - 1 : pendingUserRequests'[i] = pendingUserRequests[i + 1]
    BY <1>a, <1>8, Shrunk DEF u
  <2>2. Finished' = fin + 1
    BY <1>1, <1>b, <1>8 DEF Finished
  <2>3. \A i \in 1 .. u - 1 : pendingUserRequests'[i] = (fin + 1) + i
    <3>1. \A i \in 1 .. u - 1 : i + 1 \in 1 .. u /\ fin + (i + 1) = (fin + 1) + i
      BY <1>1
    <3> QED
      BY <1>2, <2>1, <3>1
  <2>4. \A i \in 1 .. Len(posted') : posted'[i] = (fin + 1) + (u - 1) + i
    <3>1. \A i \in 1 .. w : fin + u + i = (fin + 1) + (u - 1) + i
      BY <1>1
    <3> QED
      BY <1>2, <1>8, <3>1 DEF w
  <2>5. fin + 1 \in Nat /\ issued' = (fin + 1) + (u - 1) + w /\ Len(posted') = w
    BY <1>1, <1>8, <2>1 DEF w
  <2> QED
    BY <1>2, <1>8, <2>1, <2>2, <2>3, <2>4, <2>5 DEF RequestControl
<1>9. CASE CallHandler
  BY <1>7, <1>9 DEF CallHandler, queueVars, SteadyState
<1>10. CASE HandlerReturns
  BY <1>8, <1>10 DEF HandlerReturns
<1>11. CASE AbortRequest
  <2>1. CASE pendingUserRequests = <<>>
    BY <1>3, <1>11, <2>1 DEF AbortRequest, queueVars
  <2>2. CASE pendingUserRequests # <<>>
    BY <1>7, <1>11, <2>2 DEF AbortRequest, queueVars
  <2> QED
    BY <2>1, <2>2
<1>12. CASE AbortReturns
  BY <1>8, <1>12 DEF AbortReturns
<1>13. CASE OnNextPeerSocket \/ OnNextPeerError \/ Destroy \/ WorkerStopped \/ PollReturns \/ PeerArrives
            \/ UNCHANGED accVars
  BY <1>3, <1>13 DEF OnNextPeerSocket, OnNextPeerError, Destroy, WorkerStopped, PollReturns, PeerArrives,
                     accVars, queueVars
<1> QED
  BY <1>5, <1>6, <1>9, <1>10, <1>11, <1>12, <1>13 DEF AccStep

(* How long the surplus is.                                                *)
LEMMA SurplusIs ==
  ASSUME AccTypeOK
  PROVE  /\ Surplus \in Nat /\ Surplus <= Len(pendingResults)
         /\ \/ pendingResults = <<>> /\ Surplus = 0
            \/ pendingResults # <<>> /\ pendingResults[Len(pendingResults)] = Failed
                 /\ Surplus = Len(pendingResults) - 1
            \/ pendingResults # <<>> /\ pendingResults[Len(pendingResults)] # Failed
                 /\ Surplus = Len(pendingResults)
BY AccLengths DEF Surplus

LEMMA SurplusOfNone == pendingResults = <<>> \/ pendingResults = <<Failed>> => Surplus = 0
<1>1. Len(<<>>) = 0 /\ Len(<<Failed>>) = 1 /\ <<Failed>>[1] = Failed /\ <<Failed>> # <<>>
  OBVIOUS
<1>2. CASE pendingResults = <<>>
  BY <1>1, <1>2 DEF Surplus
<1>3. CASE pendingResults = <<Failed>>
  BY <1>1, <1>3 DEF Surplus
<1> QED
  BY <1>2, <1>3

(* No peer is lost, and none handed out twice.                             *)
LEMMA NextPeers ==
  ASSUME AccTypeOK, AccTypeOK', RequestControl, PhaseControl, FeedControl, SteadyState, PeersConserved, AccStep
  PROVE  PeersConserved'
<1> DEFINE h == Handed
           n == Len(pendingResults)
           d == Len(done)
           HandedOut(seq, len) == /\ \A i \in 1 .. h : seq[i].res = i
                              /\ \A i \in h + 1 .. len : seq[i].res \in {Failed, Aborted}
<1>1. /\ h \in Nat /\ h <= d /\ d \in Nat /\ n \in Nat /\ connected \in Nat /\ feeding \in Int
      /\ Surplus \in Nat /\ Leaving \in {0, 1} /\ connected = h + Surplus + Leaving
      /\ Surplus <= n
  <2>1. /\ d \in Nat /\ n \in Nat /\ connected \in Nat /\ feeding \in Int
    BY AccLengths DEF AccTypeOK
  <2>2. Surplus \in Nat /\ Surplus <= n
    BY SurplusIs
  <2>3. Leaving \in {0, 1}
    BY DEF Leaving
  <2>4. h = connected - Surplus - Leaving /\ h \in 0 .. d
    BY DEF PeersConserved, Handed
  <2> QED
    BY <2>1, <2>2, <2>3, <2>4
<1>2. /\ HandedOut(done, d)
      /\ feeding > 0 => feeding = h + Leaving
      /\ \A i \in 1 .. Surplus : pendingResults[i] = h + Leaving + i
  BY DEF PeersConserved
<1>3. pendingResults \in Seq(Peer \cup {Failed})
  BY DEF AccTypeOK
<1> HIDE DEF h, n, d
<1>4. ASSUME Handed' = h, h <= Len(done'), HandedOut(done', Len(done')),
             feeding' > 0 => feeding' = h + Leaving',
             \A i \in 1 .. Surplus' : pendingResults'[i] = h + Leaving' + i
      PROVE  PeersConserved'
  <2>1. Handed' \in 0 .. Len(done') /\ h \in 0 .. Len(done')
    BY <1>1, <1>4, AccLengths
  <2> QED
    BY <1>4, <2>1 DEF PeersConserved
<1>5. ASSUME UNCHANGED done PROVE h <= Len(done') /\ HandedOut(done', Len(done'))
  BY <1>1, <1>2, <1>5 DEF d
<1>6. ASSUME UNCHANGED <<pendingResults, feeding, inHandler, connected>>
      PROVE  /\ Handed' = h /\ Surplus' = Surplus /\ Leaving' = Leaving
             /\ feeding' > 0 => feeding' = h + Leaving'
             /\ \A i \in 1 .. Surplus' : pendingResults'[i] = h + Leaving' + i
  <2>1. Surplus' = Surplus /\ Leaving' = Leaving
    BY <1>6 DEF Surplus, Leaving
  <2>2. Handed' = h
    BY <1>6, <2>1 DEF Handed, h
  <2> QED
    BY <1>2, <1>6, <2>1, <2>2
<1>7. ASSUME WorkerFree PROVE Leaving = 0 /\ (phase # "abort" => ~inHandler)
  BY <1>7 DEF WorkerFree, Leaving, Idle, PhaseControl
<1>8. CASE OnAsyncAccept
  <2>1. UNCHANGED <<inHandler, connected, done>> /\ Leaving = 0 /\ ~inHandler /\ ~inHandler'
    BY <1>7, <1>8 DEF OnAsyncAccept, WorkerRuns
  <2>2. CASE UNCHANGED <<pendingResults, feeding>>
    BY <1>4, <1>5, <1>6, <2>1, <2>2
  <2>3. CASE pendingResults = <<Failed>> /\ pendingResults' = <<Failed>> /\ feeding' = Failed
    <3>1. Surplus = 0 /\ Surplus' = 0 /\ Leaving' = 0 /\ ~(feeding' > 0)
      BY <2>3, SurplusOfNone DEF Leaving, Surplus, Failed
    <3>2. Handed' = h
      BY <1>1, <2>1, <3>1 DEF Handed
    <3> QED
      BY <1>4, <1>5, <2>1, <3>1, <3>2
  <2>4. CASE /\ pendingResults # <<>> /\ pendingResults[1] \in Peer
             /\ pendingResults' = Tail(pendingResults) /\ feeding' = pendingResults[1]
    <3>1. /\ n >= 1 /\ Len(pendingResults') = n - 1
          /\ \A i \in 1 .. n - 1 : pendingResults'[i] = pendingResults[i + 1]
      BY <1>3, <2>4, Shrunk DEF n
    <3>2. pendingResults[1] # Failed
      BY <2>4, MaxPeersAssumption DEF Peer, Failed
    <3>3. Surplus >= 1 /\ Surplus' = Surplus - 1
      <4>1. CASE n = 1
        <5>1. Surplus = 1
          BY <2>4, <3>2, <4>1 DEF Surplus, n
        <5>2. pendingResults' = <<>>
          BY <3>1, <4>1, AccLengths
        <5> QED
          BY <5>1, <5>2, <3>1, <4>1 DEF Surplus
      <4>2. CASE n # 1
        <5>1. n - 1 >= 1 /\ n - 1 \in 1 .. n - 1
          BY <1>1, <3>1, <4>2
        <5>2. pendingResults' # <<>> /\ pendingResults'[n - 1] = pendingResults[n]
          <6>1. (n - 1) + 1 = n /\ Len(<<>>) = 0
            BY <1>1
          <6> QED
            BY <3>1, <5>1, <6>1
        <5>3. Surplus = IF pendingResults[n] = Failed THEN n - 1 ELSE n
          BY <2>4 DEF Surplus, n
        <5>4. Surplus' = IF pendingResults'[n - 1] = Failed THEN (n - 1) - 1 ELSE n - 1
          BY <3>1, <5>2 DEF Surplus
        <5> QED
          BY <1>1, <5>1, <5>2, <5>3, <5>4
      <4> QED
        BY <4>1, <4>2
    <3>4. feeding' > 0 /\ Leaving' = 1
      BY <2>1, <2>4, MaxPeersAssumption DEF Leaving, Peer
    <3>5. Handed' = h
      BY <1>1, <2>1, <3>3, <3>4 DEF Handed
    <3>6. feeding' = h + 1
      <4>1. 1 \in 1 .. Surplus
        BY <1>1, <3>3
      <4> QED
        BY <1>1, <1>2, <2>1, <2>4, <4>1
    <3>7. \A i \in 1 .. Surplus' : pendingResults'[i] = h + 1 + i
      <4>1. \A i \in 1 .. Surplus' : i \in 1 .. n - 1 /\ i + 1 \in 1 .. Surplus /\ h + 0 + (i + 1) = h + 1 + i
        BY <1>1, <3>3
      <4> QED
        BY <1>2, <2>1, <3>1, <4>1
    <3> QED
      BY <1>4, <1>5, <2>1, <3>4, <3>5, <3>6, <3>7
  <2> QED
    BY <1>8, <2>2, <2>3, <2>4, RequestMatched
<1>9. ASSUME NEW r \in Peer \cup {Failed}, WorkerFree, phase # "abort", Finalize(Append(pendingResults, r)), accepting,
             UNCHANGED <<inHandler, done>>, connected' = IF r = Failed THEN connected ELSE connected + 1,
             r # Failed => r = connected + 1
      PROVE  PeersConserved'
  <2>1. Leaving = 0 /\ ~inHandler /\ ~inHandler'
    BY <1>7, <1>9
  <2>2. Surplus = n
    <3>1. pendingResults # <<>> => n \in 1 .. n
      BY <1>1, AccLengths DEF n
    <3>2. pendingResults # <<>> => pendingResults[n] # Failed
      BY <1>9, <3>1 DEF SteadyState, n
    <3> QED
      BY <3>2 DEF Surplus, n
  <2>3. r # Failed => r > 0
    BY <1>9, MaxPeersAssumption DEF Peer
  <2>4. CASE pendingResults' = Append(pendingResults, r) /\ UNCHANGED feeding
    <3>1. /\ Len(pendingResults') = n + 1 /\ pendingResults'[n + 1] = r /\ pendingResults' # <<>>
          /\ \A i \in 1 .. n : pendingResults'[i] = pendingResults[i]
      BY <1>3, <1>9, <2>4, Grown DEF n
    <3>2. Leaving' = 0 /\ ~(feeding' > 0)
      BY <1>9, <2>4 DEF Leaving, WorkerFree, Idle
    <3>3. Surplus' = IF r = Failed THEN n ELSE n + 1
      BY <1>1, <3>1 DEF Surplus
    <3>4. Handed' = h
      BY <1>1, <1>9, <2>1, <2>2, <3>2, <3>3 DEF Handed
    <3>5. \A i \in 1 .. Surplus' : pendingResults'[i] = h + 0 + i
      <4>1. \A i \in 1 .. n : pendingResults'[i] = h + 0 + i
        BY <1>2, <2>1, <2>2, <3>1
      <4>2. r # Failed => pendingResults'[n + 1] = h + 0 + (n + 1)
        BY <1>1, <1>9, <2>1, <2>2, <3>1
      <4>3. \A i \in 1 .. Surplus' : i \in 1 .. n \/ (r # Failed /\ i = n + 1)
        BY <1>1, <3>3
      <4> QED
        BY <4>1, <4>2, <4>3
    <3> QED
      BY <1>4, <1>5, <1>9, <3>2, <3>4, <3>5
  <2>5. CASE /\ pendingResults = <<>> /\ feeding' = r
             /\ pendingResults' = (IF r = Failed THEN <<Failed>> ELSE <<>>)
    <3>1. Surplus = 0 /\ Surplus' = 0
      <4>1. pendingResults' = <<>> \/ pendingResults' = <<Failed>>
        BY <2>5
      <4> QED
        BY <2>5, <4>1, SurplusOfNone DEF Surplus
    <3>2. Leaving' = IF r = Failed THEN 0 ELSE 1
      BY <2>1, <2>3, <2>5 DEF Leaving, Failed
    <3>3. Handed' = h
      BY <1>1, <1>9, <2>1, <3>1, <3>2 DEF Handed
    <3>4. feeding' > 0 => feeding' = h + Leaving'
      BY <1>1, <1>9, <2>1, <2>5, <3>1, <3>2 DEF Failed
    <3> QED
      BY <1>4, <1>5, <1>9, <3>1, <3>3, <3>4
  <2> QED
    BY <1>9, <2>4, <2>5, ResultMatched
<1>10. CASE OnNextPeerSocket
  <2>1. /\ connected' \in Peer /\ connected' = connected + 1 /\ WorkerFree /\ phase # "abort" /\ accepting
        /\ Finalize(Append(pendingResults, connected')) /\ UNCHANGED <<inHandler, done>>
    BY <1>10, MaxPeersAssumption DEF OnNextPeerSocket, WorkerRuns, AccTypeOK, Peer
  <2>2. connected' # Failed
    BY <2>1, MaxPeersAssumption DEF Peer, Failed
  <2> QED
    BY <1>9, <2>1, <2>2
<1>11. CASE OnNextPeerError
  BY <1>9, <1>11 DEF OnNextPeerError, WorkerRuns
<1>12. ASSUME NEW q, NEW r, done' = Append(done, [req |-> q, res |-> r])
       PROVE  /\ Len(done') = d + 1 /\ done'[d + 1].res = r
              /\ \A i \in 1 .. d : done'[i] = done[i]
  BY <1>12, DoneGrown DEF d
<1>13. CASE CallHandler
  <2>1. /\ UNCHANGED <<pendingResults, feeding, connected>> /\ ~WorkerFree /\ ~inHandler /\ inHandler'
        /\ done' = Append(done, [req |-> Head(pendingUserRequests), res |-> feeding])
    BY <1>13 DEF CallHandler, queueVars
  <2>2. Leaving' = 0 /\ Surplus' = Surplus
    BY <2>1 DEF Leaving, Surplus
  <2>3. /\ Len(done') = d + 1 /\ done'[d + 1].res = feeding
        /\ \A i \in 1 .. d : done'[i] = done[i]
    BY <1>12, <2>1
  <2>4. CASE feeding > 0
    <3>1. Leaving = 1
      BY <2>1, <2>4 DEF Leaving
    <3>2. \A i \in 1 .. d : done[i].res # Failed /\ done[i].res # Aborted
      BY <2>1, <2>4 DEF FeedControl, PhaseControl, d
    <3>3. h = d
      <4> SUFFICES ASSUME h # d PROVE FALSE
        OBVIOUS
      <4>1. d \in h + 1 .. d /\ d \in 1 .. d
        BY <1>1
      <4> QED
        BY <1>2, <3>2, <4>1
    <3>4. Handed' = h + 1 /\ feeding = h + 1
      BY <1>1, <1>2, <2>1, <2>2, <2>4, <3>1 DEF Handed
    <3>5. \A i \in 1 .. h + 1 : done'[i].res = i
      <4>1. \A i \in 1 .. h + 1 : i \in 1 .. h \/ i = h + 1
        BY <1>1
      <4> QED
        BY <1>2, <2>3, <3>3, <3>4, <4>1
    <3>6. \A i \in 1 .. Surplus' : pendingResults'[i] = (h + 1) + 0 + i
      <4>1. \A i \in 1 .. Surplus : h + 1 + i = (h + 1) + 0 + i
        BY <1>1
      <4> QED
        BY <1>2, <2>1, <2>2, <3>1, <4>1
    <3>7. h + 1 \in 0 .. Len(done') /\ \A i \in (h + 1) + 1 .. Len(done') : FALSE
      BY <1>1, <2>3, <3>3
    <3>8. feeding' = (h + 1) + 0
      BY <1>1, <2>1, <3>4
    <3> QED
      BY <2>2, <3>4, <3>5, <3>6, <3>7, <3>8 DEF PeersConserved
  <2>5. CASE ~(feeding > 0)
    <3>1. feeding = Failed
      BY <2>1, <2>5, MaxPeersAssumption DEF AccTypeOK, Peer, WorkerFree, Idle, Failed
    <3>2. Leaving = 0
      BY <2>5 DEF Leaving
    <3>3. Handed' = h
      BY <1>1, <2>1, <2>2, <3>2 DEF Handed
    <3>4. HandedOut(done', Len(done')) /\ h <= Len(done')
      <4>1. /\ \A i \in 1 .. h : i \in 1 .. d
            /\ \A i \in h + 1 .. d + 1 : (i \in h + 1 .. d /\ i \in 1 .. d) \/ i = d + 1
            /\ h <= d + 1
        BY <1>1
      <4> QED
        BY <1>2, <2>3, <3>1, <4>1
    <3> QED
      BY <1>2, <1>4, <2>1, <2>2, <2>5, <3>2, <3>3, <3>4
  <2> QED
    BY <2>4, <2>5
<1>14. CASE HandlerReturns
  <2>1. UNCHANGED <<pendingResults, connected, done>> /\ inHandler
    BY <1>14 DEF HandlerReturns
  <2>2. ~(feeding' > 0)
    BY <1>14 DEF HandlerReturns, FeedGoesOn, Idle, Failed
  <2>3. Leaving = 0 /\ Leaving' = 0 /\ Surplus' = Surplus
    BY <2>1, <2>2 DEF Leaving, Surplus
  <2>4. Handed' = h
    BY <2>1, <2>3 DEF Handed, h
  <2> QED
    BY <1>2, <1>4, <1>5, <2>1, <2>2, <2>3, <2>4
<1>15. CASE AbortRequest \/ AbortReturns
  <2>1. UNCHANGED <<pendingResults, feeding, connected>> /\ phase = "abort"
    BY <1>15 DEF AbortRequest, AbortReturns, queueVars
  <2>2. Leaving = 0 /\ Leaving' = 0 /\ ~(feeding' > 0) /\ Surplus' = Surplus
    BY <2>1 DEF PhaseControl, WorkerFree, Leaving, Surplus, Idle
  <2>3. Handed' = h
    BY <2>1, <2>2 DEF Handed, h
  <2>4. HandedOut(done', Len(done')) /\ h <= Len(done')
    <3>1. CASE UNCHANGED done
      BY <1>5, <3>1
    <3>2. CASE done' # done
      <4>1. done' = Append(done, [req |-> Head(pendingUserRequests), res |-> Aborted])
        BY <1>15, <3>2 DEF AbortRequest, AbortReturns
      <4>2. /\ Len(done') = d + 1 /\ done'[d + 1].res = Aborted
            /\ \A i \in 1 .. d : done'[i] = done[i]
        BY <1>12, <4>1
      <4>3. /\ \A i \in 1 .. h : i \in 1 .. d
            /\ \A i \in h + 1 .. d + 1 : (i \in h + 1 .. d /\ i \in 1 .. d) \/ i = d + 1
            /\ h <= d + 1
        BY <1>1
      <4> QED
        BY <1>2, <4>2, <4>3
    <3> QED
      BY <3>1, <3>2
  <2> QED
    BY <1>2, <1>4, <2>1, <2>2, <2>3, <2>4
<1>16. CASE AsyncAccept \/ Destroy \/ WorkerStopped \/ PollReturns \/ PeerArrives \/ UNCHANGED accVars
  <2>1. UNCHANGED <<pendingResults, feeding, inHandler, connected, done>>
    BY <1>16 DEF AsyncAccept, Destroy, WorkerStopped, PollReturns, PeerArrives, accVars, queueVars
  <2> QED
    BY <1>4, <1>5, <1>6, <2>1
<1> QED
  BY <1>8, <1>10, <1>11, <1>13, <1>14, <1>15, <1>16 DEF AccStep

(* A step of the acceptor's users and threads, through sync_io or not, as  *)
(* the wrapper sees it.                                                    *)
SioRequest ==
  /\ wrapped /\ ~handlerSaved /\ handlerSaved' /\ issued' = issued + 1
  /\ UNCHANGED <<done, wrapped, target, readyBytes, reported>>
SioReport ==
  /\ readyBytes > 0 /\ readyBytes' = readyBytes - 1 /\ handlerSaved' = FALSE
  /\ reported' = Append(reported, target)
  /\ UNCHANGED <<done, issued, wrapped, target>>
SioResult ==
  /\ CallHandler /\ UNCHANGED <<wrapped, handlerSaved, reported>>
  /\ wrapped => SignalResult(feeding)
  /\ ~wrapped => UNCHANGED <<target, readyBytes>>
SioAbort ==
  /\ AbortRequest /\ pendingUserRequests # <<>>
  /\ UNCHANGED <<wrapped, handlerSaved, target, readyBytes, reported>>
SioIdle ==
  /\ UNCHANGED <<done, wrapped, handlerSaved, target, readyBytes, reported>>
  /\ wrapped => UNCHANGED issued

LEMMA SioSteps ==
  ASSUME SioTypes, [EstNext]_estVars
  PROVE  SioRequest \/ SioReport \/ SioResult \/ SioAbort \/ SioIdle
<1> USE DEF sioVars
<1>1. CASE UNCHANGED estVars
  BY <1>1 DEF estVars, acceptorVars, accVars, SioIdle
<1>2. CASE Client
  <2>1. (PeerArrives /\ UNCHANGED sioVars) \/ UNCHANGED acceptorVars
    BY <1>2 DEF Client, ClientConnects, ClientWritable, ClientOther, Arrives, NoArrival
  <2> QED
    BY <2>1 DEF PeerArrives, acceptorVars, accVars, SioIdle
<1>3. CASE AcceptorUser
  <2>1. CASE StartAcceptOps
    BY <2>1 DEF StartAcceptOps, accVars, SioIdle
  <2>2. CASE SioAsyncAccept
    BY <2>2 DEF SioAsyncAccept, MayAccept, AsyncAccept, SioRequest
  <2>3. CASE ~wrapped /\ AsyncAccept /\ UNCHANGED sioVars
    BY <2>3 DEF AsyncAccept, SioIdle
  <2>4. CASE Destroy /\ UNCHANGED sioVars
    BY <2>4 DEF Destroy, SioIdle
  <2>5. CASE SioAcceptReturns
    BY <2>5 DEF SioAcceptReturns, accVars, SioIdle
  <2> QED
    BY <1>3, <2>1, <2>2, <2>3, <2>4, <2>5 DEF AcceptorUser
<1>4. CASE OnReadyReadable
  BY <1>4 DEF OnReadyReadable, accVars, SioReport
<1>5. CASE CoreWorker
  <2>1. CASE CoreCallsHandler
    BY <2>1 DEF CoreCallsHandler, SioTypes, SioResult
  <2>2. CASE (OnAsyncAccept \/ HandlerReturns) /\ UNCHANGED sioVars
    BY <2>2 DEF OnAsyncAccept, HandlerReturns, SioIdle
  <2> QED
    BY <1>5, <2>1, <2>2 DEF CoreWorker
<1>6. CASE (PeerArrives \/ Network \/ Destructor) /\ UNCHANGED sioVars
  <2>1. CASE AbortRequest
    <3>1. CASE pendingUserRequests = <<>>
      BY <1>6, <2>1, <3>1 DEF AbortRequest, SioIdle
    <3>2. CASE pendingUserRequests # <<>>
      BY <1>6, <2>1, <3>2 DEF SioAbort
    <3> QED
      BY <3>1, <3>2
  <2>2. CASE PeerArrives \/ OnNextPeerSocket \/ OnNextPeerError \/ WorkerStopped \/ PollReturns \/ AbortReturns
    BY <1>6, <2>2 DEF PeerArrives, OnNextPeerSocket, OnNextPeerError, WorkerStopped, PollReturns, AbortReturns,
                      SioIdle
  <2> QED
    BY <1>6, <2>1, <2>2 DEF Network, Destructor
<1> QED
  BY <1>1, <1>2, <1>3, <1>4, <1>5, <1>6 DEF EstNext, AcceptorStep

LEMMA NextMine ==
  ASSUME AccTypeOK, AccTypeOK', SioTypes, [EstNext]_estVars
  PROVE  mine' \in 0 .. arrived'
<1>1. arrived \in Nat /\ arrived' \in Nat /\ mine \in 0 .. arrived
  BY DEF AccTypeOK, SioTypes
<1>2. CASE Client
  <2>1. Arrives \/ NoArrival
    BY <1>2 DEF Client, ClientConnects, ClientWritable, ClientOther
  <2> QED
    BY <1>1, <2>1 DEF Arrives, NoArrival, acceptorVars, accVars
<1>3. CASE AcceptorStep
  <2>1. mine' = mine
    BY <1>3 DEF AcceptorStep
  <2>2. arrived' \in {arrived, arrived + 1}
    <3>1. AccStep
      BY EstSteps
    <3> QED
      BY <3>1 DEF AccStep, AsyncAccept, OnAsyncAccept, OnNextPeerSocket, OnNextPeerError, CallHandler,
                  HandlerReturns, Destroy, WorkerStopped, PollReturns, AbortRequest, AbortReturns, PeerArrives, accVars
  <2> QED
    BY <1>1, <2>1, <2>2
<1>4. CASE UNCHANGED estVars
  BY <1>1, <1>4 DEF estVars, acceptorVars, accVars
<1> QED
  BY <1>2, <1>3, <1>4 DEF EstNext

LEMMA NextSioTypes ==
  ASSUME AccTypeOK, AccTypeOK', SioTypes, [EstNext]_estVars
  PROVE  SioTypes'
<1> DEFINE Res == Peer \cup {Failed, Idle}
<1>1. /\ target \in Res /\ readyBytes \in Nat /\ reported \in Seq(Res)
      /\ wrapped \in BOOLEAN /\ started \in BOOLEAN /\ handlerSaved \in BOOLEAN /\ readyWait \in BOOLEAN
      /\ feeding \in Res
  BY DEF SioTypes, AccTypeOK
<1>2. Append(reported, target) \in Seq(Res)
  BY <1>1, Grown
<1>3. mine' \in 0 .. arrived'
  BY NextMine
<1>4. CASE Client
  <2>1. UNCHANGED sioVars
    BY <1>4 DEF Client, ClientConnects, ClientWritable, ClientOther, Arrives, NoArrival, acceptorVars
  <2> QED
    BY <1>1, <1>3, <2>1 DEF sioVars, SioTypes
<1>5. CASE AcceptorStep
  <2>1. CASE UNCHANGED sioVars
    BY <1>1, <1>3, <2>1 DEF sioVars, SioTypes
  <2>2. CASE StartAcceptOps
    BY <1>1, <1>3, <2>2 DEF StartAcceptOps, SioTypes
  <2>3. CASE SioAsyncAccept
    BY <1>1, <1>3, <2>3 DEF SioAsyncAccept, SioTypes
  <2>4. CASE OnReadyReadable
    <3>1. /\ target' = target /\ wrapped' = wrapped /\ started' = started
          /\ handlerSaved' = FALSE /\ readyWait' = FALSE
          /\ readyBytes > 0 /\ readyBytes' = readyBytes - 1 /\ reported' = Append(reported, target)
      BY <2>4 DEF OnReadyReadable
    <3>2. readyBytes' \in Nat
      BY <1>1, <3>1
    <3>3. handlerSaved' \in BOOLEAN /\ readyWait' \in BOOLEAN
      BY <3>1, Zenon
    <3>4. reported' \in Seq(Res) /\ target' \in Res
      BY <1>1, <1>2, <3>1
    <3> QED
      BY <1>1, <1>3, <3>1, <3>2, <3>3, <3>4 DEF SioTypes
  <2>5. CASE CoreCallsHandler
    <3>1. target' \in Res /\ readyBytes' \in Nat
      <4> HIDE DEF Res
      <4>1. /\ wrapped => target' = feeding /\ readyBytes' = readyBytes + 1
            /\ ~wrapped => target' = target /\ readyBytes' = readyBytes
        BY <2>5 DEF CoreCallsHandler, SignalResult
      <4> QED
        BY <1>1, <4>1
    <3>2. UNCHANGED <<wrapped, started, handlerSaved, readyWait, reported>>
      BY <2>5 DEF CoreCallsHandler
    <3> QED
      BY <1>1, <1>3, <3>1, <3>2 DEF SioTypes
  <2>6. CASE SioAcceptReturns
    BY <1>1, <1>3, <2>6 DEF SioAcceptReturns, AwaitReady, accVars, SioTypes
  <2> QED
    BY <1>5, <2>1, <2>2, <2>3, <2>4, <2>5, <2>6 DEF AcceptorStep, AcceptorUser, CoreWorker
<1>6. CASE UNCHANGED estVars
  BY <1>1, <1>3, <1>6 DEF estVars, acceptorVars, sioVars, SioTypes
<1> QED
  BY <1>4, <1>5, <1>6 DEF EstNext

(* What was reported, and then the result for the byte in the pipe.        *)
LEMMA ReportableIs ==
  ASSUME SioTypes, readyBytes \in {0, 1}
  PROVE  /\ Len(reported) \in Nat /\ Len(Reportable) = Len(reported) + readyBytes
         /\ \A i \in 1 .. Len(reported) : Reportable[i] = reported[i]
         /\ readyBytes = 1 => Reportable[Len(reported) + 1] = target
         /\ readyBytes = 1 => Reportable = Append(reported, target)
         /\ readyBytes = 0 => Reportable = reported
<1> DEFINE Res == Peer \cup {Failed, Idle}
<1>1. reported \in Seq(Res) /\ target \in Res
  BY DEF SioTypes
<1> HIDE DEF Res
<1>2. CASE readyBytes = 0
  <2>1. Reportable = reported
    BY <1>1, <1>2, ConcatEmptySeq DEF Reportable
  <2> QED
    BY <1>1, <1>2, <2>1, LenProperties
<1>3. CASE readyBytes = 1
  <2>1. Reportable = reported \o <<target>>
    BY <1>3 DEF Reportable
  <2>2. reported \o <<target>> = Append(reported, target)
    BY <1>1, AppendIsConcat
  <2> QED
    BY <1>1, <1>3, <2>1, <2>2, Grown
<1> QED
  BY <1>2, <1>3

(* Not more handlers run than requests are made.                           *)
LEMMA DoneBound ==
  ASSUME AccTypeOK, RequestControl
  PROVE  /\ Len(done) \in Nat /\ issued \in Nat /\ Len(done) <= issued
         /\ ~inHandler /\ pendingUserRequests # <<>> => Len(done) < issued
<1> DEFINE u == Len(pendingUserRequests)
           w == Len(posted)
           d == Len(done)
<1>1. u \in Nat /\ w \in Nat /\ d \in Nat /\ issued \in Nat /\ (pendingUserRequests = <<>> <=> u = 0)
  BY AccLengths
<1>2. /\ issued = Finished + u + w /\ Finished = (IF inHandler THEN d - 1 ELSE d)
      /\ inHandler => pendingUserRequests # <<>>
  BY <1>1 DEF RequestControl, Finished
<1> HIDE DEF u, w, d
<1> QED
  BY <1>1, <1>2 DEF d

(* One request at a time: its result is reported before the next is made.  *)
LEMMA NextSio ==
  ASSUME AccTypeOK, RequestControl, SteadyState, SioTypes, SioTypes', SioControl, AcceptReported,
         [EstNext]_estVars
  PROVE  SioControl' /\ AcceptReported'
<1> DEFINE R == Len(reported)
           d == Len(done)
<1>1. R \in Nat /\ d \in Nat /\ issued \in Nat /\ readyBytes \in Nat /\ d <= issued /\ handlerSaved \in BOOLEAN
  BY ReportableIs, DoneBound, LenProperties DEF SioTypes
<1>2. wrapped' = wrapped
  BY SioSteps DEF SioRequest, SioReport, SioResult, SioAbort, SioIdle
<1>3. CASE ~wrapped
  <2>1. readyBytes = 0
    BY <1>3 DEF SioControl
  <2>2. readyBytes' = 0
    BY <1>3, <2>1, SioSteps DEF SioRequest, SioReport, SioResult, SioAbort, SioIdle
  <2> QED
    BY <1>2, <1>3, <2>2 DEF SioControl, AcceptReported
<1>4. CASE wrapped
  <2>1. /\ readyBytes \in {0, 1} /\ issued = R + (IF handlerSaved THEN 1 ELSE 0)
        /\ R + readyBytes <= d
    BY <1>4 DEF SioControl
  <2>2. Len(Reportable) = R + readyBytes
    BY <2>1, ReportableIs
  <2>3. /\ \A i \in 1 .. R + readyBytes : Reportable[i] = done[i].res /\ Reportable[i] # Aborted
        /\ \A i \in R + readyBytes + 1 .. d : done[i].res = Aborted
    BY <1>4, <2>2 DEF AcceptReported
  <2> HIDE DEF R, d
  <2>4. ASSUME UNCHANGED <<done, target, readyBytes, reported>>,
               issued' = R + (IF handlerSaved' THEN 1 ELSE 0)
        PROVE  SioControl' /\ AcceptReported'
    <3>1. SioControl'
      BY <1>2, <1>4, <2>1, <2>4 DEF SioControl, R, d
    <3>2. Reportable' = Reportable
      BY <2>4 DEF Reportable
    <3> QED
      BY <1>2, <1>4, <2>4, <3>1, <3>2 DEF AcceptReported
  <2>5. CASE SioRequest
    <3>1. issued' = R + 1
      BY <1>1, <2>1, <2>5 DEF SioRequest
    <3> QED
      BY <2>4, <2>5, <3>1 DEF SioRequest
  <2>6. CASE SioReport
    <3>1. readyBytes = 1 /\ readyBytes' = 0 /\ handlerSaved' = FALSE /\ issued' = issued
          /\ done' = done /\ reported' = Append(reported, target)
      BY <2>1, <2>6 DEF SioReport
    <3>2. issued = R + 1
      BY <1>1, <2>1, <3>1
    <3>3. Reportable' = reported' \o <<>>
      BY <3>1 DEF Reportable
    <3>4. reported' \o <<>> = reported'
      BY ConcatEmptySeq DEF SioTypes
    <3>5. Reportable' = Reportable
      BY <2>1, <3>1, <3>3, <3>4, ReportableIs
    <3>6. Len(reported') = R + 1
      BY <2>1, <2>2, <3>1, ReportableIs DEF R
    <3>7. SioControl'
      BY <1>1, <1>2, <1>4, <2>1, <3>1, <3>2, <3>6 DEF SioControl, d
    <3>8. AcceptReported'
      BY <1>2, <1>4, <3>1, <3>5 DEF AcceptReported
    <3> QED
      BY <3>7, <3>8
  <2>7. CASE SioResult
    <3>1. /\ CallHandler /\ reported' = reported /\ handlerSaved' = handlerSaved
          /\ target' = feeding /\ readyBytes' = readyBytes + 1
      BY <1>4, <2>7 DEF SioResult, SignalResult
    <3>2. /\ ~inHandler /\ ~WorkerFree /\ issued' = issued
          /\ done' = Append(done, [req |-> Head(pendingUserRequests), res |-> feeding])
      BY <3>1 DEF CallHandler
    <3>3. d < issued
      BY <3>2, DoneBound DEF SteadyState, d
    <3>4. d = R /\ readyBytes = 0 /\ handlerSaved
      BY <1>1, <2>1, <3>3
    <3>5. /\ Len(done') = d + 1 /\ done'[d + 1].res = feeding
          /\ \A i \in 1 .. d : done'[i] = done[i]
      BY <3>2, DoneGrown DEF d
    <3>6. feeding # Aborted
      BY <3>2, MaxPeersAssumption DEF AccTypeOK, Peer, WorkerFree, Idle, Aborted, Failed
    <3>7. readyBytes' = 1
      BY <3>1, <3>4
    <3>8. /\ Len(reported') = R /\ Len(Reportable') = R + 1
          /\ Reportable' = Append(reported, feeding)
      <4>1. Reportable' = reported \o <<feeding>>
        BY <3>1, <3>7 DEF Reportable
      <4>2. reported \in Seq(Peer \cup {Failed, Idle}) /\ feeding \in Peer \cup {Failed, Idle}
        BY DEF SioTypes, AccTypeOK
      <4>3. reported \o <<feeding>> = Append(reported, feeding)
        BY <4>2, AppendIsConcat
      <4>4. Len(Append(reported, feeding)) = Len(reported) + 1
        BY <4>2, Grown
      <4> QED
        BY <3>1, <4>1, <4>3, <4>4 DEF R
    <3>9. /\ \A i \in 1 .. R : Reportable'[i] = reported[i]
          /\ Reportable'[R + 1] = feeding
      <4>1. reported \in Seq(Peer \cup {Failed, Idle}) /\ feeding \in Peer \cup {Failed, Idle}
        BY DEF SioTypes, AccTypeOK
      <4> QED
        BY <3>8, <4>1, Grown DEF R
    <3>10. \A i \in 1 .. R : reported[i] = done[i].res /\ reported[i] # Aborted
      <4>1. Reportable = reported
        BY <2>1, <3>4, ReportableIs
      <4> QED
        BY <1>1, <2>3, <3>4, <4>1
    <3>11. \A i \in 1 .. R + 1 : Reportable'[i] = done'[i].res /\ Reportable'[i] # Aborted
      <4>1. \A i \in 1 .. R + 1 : i \in 1 .. R \/ i = R + 1
        BY <1>1
      <4> QED
        BY <3>4, <3>5, <3>6, <3>9, <3>10, <4>1
    <3>12. AcceptReported'
      <4>1. R + 1 <= Len(done') /\ \A i \in (R + 1) + 1 .. Len(done') : FALSE
        BY <1>1, <3>4, <3>5
      <4> QED
        BY <1>2, <1>4, <3>7, <3>8, <3>11, <4>1 DEF AcceptReported
    <3>13. SioControl'
      BY <1>1, <1>2, <1>4, <2>1, <3>1, <3>2, <3>4, <3>5, <3>7, <3>8 DEF SioControl
    <3> QED
      BY <3>12, <3>13
  <2>8. CASE SioAbort
    <3>1. /\ UNCHANGED <<issued, handlerSaved, target, readyBytes, reported>>
          /\ done' = Append(done, [req |-> Head(pendingUserRequests), res |-> Aborted])
      BY <2>8 DEF SioAbort, AbortRequest
    <3>2. /\ Len(done') = d + 1 /\ done'[d + 1].res = Aborted
          /\ \A i \in 1 .. d : done'[i] = done[i]
      BY <3>1, DoneGrown DEF d
    <3>3. Reportable' = Reportable
      BY <3>1 DEF Reportable
    <3>4. SioControl'
      BY <1>1, <1>2, <1>4, <2>1, <3>1, <3>2 DEF SioControl, R
    <3>5. \A i \in 1 .. R + readyBytes : Reportable[i] = done'[i].res /\ Reportable[i] # Aborted
      <4>1. \A i \in 1 .. R + readyBytes : i \in 1 .. d
        BY <1>1, <2>1
      <4> QED
        BY <2>3, <3>2, <4>1
    <3>6. \A i \in R + readyBytes + 1 .. d + 1 : done'[i].res = Aborted
      <4>1. \A i \in R + readyBytes + 1 .. d + 1 : i = d + 1 \/ (i \in R + readyBytes + 1 .. d /\ i \in 1 .. d)
        BY <1>1, <2>1
      <4> QED
        BY <2>3, <3>2, <4>1
    <3>7. R + readyBytes <= d + 1
      BY <1>1, <2>1
    <3> QED
      BY <1>2, <1>4, <2>1, <2>2, <3>1, <3>2, <3>3, <3>4, <3>5, <3>6, <3>7 DEF AcceptReported
  <2>9. CASE SioIdle
    BY <1>4, <2>1, <2>4, <2>9 DEF SioIdle
  <2> QED
    BY <2>5, <2>6, <2>7, <2>8, <2>9, SioSteps
<1> QED
  BY <1>3, <1>4

-----------------------------------------------------------------------------
(* The inductive invariant of the acceptor, and what follows from it.      *)

LEMMA InitAcceptor == EstInit => AcceptorInv
<1> SUFFICES ASSUME EstInit PROVE AcceptorInv
  OBVIOUS
<1> USE MaxRequestsAssumption, MaxPeersAssumption DEF EstInit, AccInit, SioInit, Idle, Failed, Aborted
<1>1. /\ \A S : <<>> \in Seq(S)
      /\ Len(<<>>) = 0 /\ \A i \in 1 .. 0 : FALSE
  OBVIOUS
<1>2. AccTypeOK
  <2>1. inHandler \in BOOLEAN /\ accepting \in BOOLEAN
    BY Zenon
  <2> QED
    BY <1>1, <2>1 DEF AccTypeOK
<1>3. SioTypes
  <2>1. wrapped \in BOOLEAN /\ started \in BOOLEAN /\ handlerSaved \in BOOLEAN /\ readyWait \in BOOLEAN
    BY Zenon
  <2>2. mine \in 0 .. arrived
    OBVIOUS
  <2> QED
    BY <1>1, <2>1, <2>2 DEF SioTypes
<1>4. RequestControl
  <2>1. Finished = 0
    BY <1>1 DEF Finished
  <2> QED
    BY <1>1, <2>1 DEF RequestControl
<1>5. PhaseControl /\ FeedControl
  BY <1>1 DEF PhaseControl, FeedControl, WorkerFree
<1>6. SioControl
  BY <1>1 DEF SioControl
<1>7. SteadyState
  BY <1>1 DEF SteadyState, WorkerFree
<1>8. PeersConserved
  <2>1. Surplus = 0 /\ Leaving = 0
    BY <1>1 DEF Surplus, Leaving
  <2>2. Handed = 0
    BY <2>1 DEF Handed
  <2> QED
    BY <1>1, <2>1, <2>2 DEF PeersConserved
<1>9. AcceptReported
  <2>1. Reportable = <<>>
    BY DEF Reportable
  <2> QED
    BY <1>1, <2>1 DEF AcceptReported
<1> QED
  BY <1>2, <1>3, <1>4, <1>5, <1>6, <1>7, <1>8, <1>9 DEF AcceptorInv, AcceptorControl

LEMMA NextAcceptor == AcceptorInv /\ [EstNext]_estVars => AcceptorInv'
<1> SUFFICES ASSUME AcceptorInv, [EstNext]_estVars PROVE AcceptorInv'
  OBVIOUS
<1>1. /\ AccTypeOK /\ SioTypes /\ RequestControl /\ PhaseControl /\ FeedControl /\ SioControl
      /\ SteadyState /\ PeersConserved /\ AcceptReported
  BY DEF AcceptorInv, AcceptorControl
<1>2. AccStep
  BY EstSteps
<1>3. AccTypeOK'
  BY <1>1, <1>2, NextAccTypes
<1>4. SioTypes'
  BY <1>1, <1>3, NextSioTypes
<1>5. RequestControl' /\ PhaseControl'
  BY <1>1, <1>2, NextRequests, NextPhase
<1>6. FeedControl' /\ SteadyState'
  BY <1>1, <1>2, NextFeed, NextSteady
<1>7. PeersConserved'
  BY <1>1, <1>2, <1>3, NextPeers
<1>8. SioControl' /\ AcceptReported'
  BY <1>1, <1>4, NextSio
<1> QED
  BY <1>3, <1>4, <1>5, <1>6, <1>7, <1>8 DEF AcceptorInv, AcceptorControl

LEMMA AcceptorInvariant == EstSpec => []AcceptorInv
BY InitAcceptor, NextAcceptor, PTL DEF EstSpec

(* Types of the acceptor and its wrapper, for every number of requests and *)
(* peers and every backlog.                                                *)
THEOREM AcceptorTypes == EstSpec => [](AccTypeOK /\ SioTypes)
<1>1. AcceptorInv => AccTypeOK /\ SioTypes
  BY DEF AcceptorInv
<1> QED
  BY AcceptorInvariant, <1>1, PTL

(* A surplus of peers and a deficit of requests never stand beside each    *)
(* other while thread W is at rest, and a fatal error ends both for good.  *)
THEOREM AcceptorSteady == EstSpec => []SteadyState
<1>1. AcceptorInv => SteadyState
  BY DEF AcceptorInv, AcceptorControl
<1> QED
  BY AcceptorInvariant, <1>1, PTL

(* No peer that connected is lost or handed out twice, and they are handed *)
(* out in their order.                                                     *)
THEOREM NoPeerLost == EstSpec => []PeersConserved
<1>1. AcceptorInv => PeersConserved
  BY DEF AcceptorInv, AcceptorControl
<1> QED
  BY AcceptorInvariant, <1>1, PTL

(* Through sync_io every result is reported once, in order and as it was,  *)
(* with no mutex between the two threads.                                  *)
THEOREM ResultsReported == EstSpec => []AcceptReported
<1>1. AcceptorInv => AcceptReported
  BY DEF AcceptorInv, AcceptorControl
<1> QED
  BY AcceptorInvariant, <1>1, PTL

(* A stream that connects while there is an acceptor is, between calls,    *)
(* whole as any other.                                                     *)
THEOREM EstablishesNullOrPeer == EstSpec => []NullOrPeer
<1>1. EstInit => Init
  BY DEF EstInit
<1>2. [EstNext]_estVars => [Next]_vars
  BY EstSteps
<1> QED
  BY <1>1, <1>2, AlwaysNullOrPeer, PTL DEF EstSpec, Spec

-----------------------------------------------------------------------------
(* The acceptor implements OrderedCompletions.                             *)

Results == [i \in 1 .. Len(done) |-> IF done[i].req = i THEN done[i].res ELSE 99]

LEMMA ResultsSeen ==
  ASSUME AccTypeOK, RequestControl
  PROVE  /\ Results \in Seq(Int) /\ Len(Results) = Len(done) /\ Len(done) \in Nat
         /\ \A i \in 1 .. Len(done) : Results[i] = done[i].res
         /\ Results # <<>> <=> Len(done) # 0
<1> DEFINE n == Len(done)
<1>1. n \in Nat /\ \A i \in 1 .. n : done[i].req = i
  BY AccLengths DEF RequestControl
<1>2. \A i \in 1 .. n : done[i].res \in Int
  BY AccLengths, MaxPeersAssumption DEF Peer, Failed, Aborted
<1> HIDE DEF n
<1>3. Results = [i \in 1 .. n |-> done[i].res]
  BY <1>1 DEF Results, n
<1>4. Results \in [1 .. n -> Int]
  BY <1>2, <1>3
<1>5. Results \in Seq(Int) /\ Len(Results) = n
  BY <1>1, <1>4
<1>6. \A i \in 1 .. n : Results[i] = done[i].res
  BY <1>3
<1>7. Results # <<>> <=> n # 0
  BY <1>5, EmptySeq
<1> QED
  BY <1>1, <1>5, <1>6, <1>7 DEF n

LEMMA StepUnseen ==
  ASSUME UNCHANGED <<issued, done>>, (phase' = "gone") <=> (phase = "gone")
  PROVE  UNCHANGED Abstract!vars
BY DEF Abstract!vars

(* A handler that is called is the next completion.                        *)
LEMMA StepCompletes ==
  ASSUME AcceptorInv, AcceptorInv', phase # "gone", phase' # "gone", issued' = issued, ~inHandler,
         pendingUserRequests # <<>>, NEW r,
         done' = Append(done, [req |-> Head(pendingUserRequests), res |-> r]),
         r \in {Len(done) + 1, Failed, Aborted}, Abstract!MayFollow(Results, r)
  PROVE  Abstract!Next
<1> DEFINE n == Len(done)
<1>1. AccTypeOK /\ AccTypeOK' /\ RequestControl /\ RequestControl'
  BY DEF AcceptorInv, AcceptorControl
<1>2. n \in Nat /\ n < issued
  BY <1>1, DoneBound
<1>3. /\ Results \in Seq(Int) /\ Len(Results) = n
      /\ \A i \in 1 .. n : Results[i] = done[i].res
  BY <1>1, ResultsSeen
<1>4. /\ Len(done') = n + 1 /\ done'[n + 1].res = r
      /\ \A i \in 1 .. n : done'[i] = done[i]
  BY <1>1, DoneGrown
<1>5. Results' = [i \in 1 .. n + 1 |-> done'[i].res]
  <2>1. \A i \in 1 .. Len(done') : done'[i].req = i
    BY <1>1 DEF RequestControl
  <2> QED
    BY <1>4, <2>1 DEF Results
<1> HIDE DEF n
<1>6. r \in Int
  BY <1>2 DEF n, Failed, Aborted
<1>7. /\ Append(Results, r) \in Seq(Int) /\ Len(Append(Results, r)) = n + 1
      /\ Append(Results, r)[n + 1] = r /\ \A i \in 1 .. n : Append(Results, r)[i] = Results[i]
  BY <1>3, <1>6, Grown
<1>8. \A i \in 1 .. n + 1 : done'[i].res = Append(Results, r)[i]
  <2>1. \A i \in 1 .. n + 1 : i \in 1 .. n \/ i = n + 1
    BY <1>2 DEF n
  <2> QED
    BY <1>3, <1>4, <1>7, <2>1
<1>9. Results' = Append(Results, r)
  <2> DEFINE results1 == Append(Results, r)
  <2>1. \A i \in 1 .. n + 1 : results1[i] \in Int
    BY <1>7, ElementOfSeq
  <2>2. Results' = [i \in 1 .. n + 1 |-> results1[i]]
    BY <1>5, <1>8
  <2>3. results1 \in Seq(Int) /\ Len(results1) = n + 1
    BY <1>7
  <2> HIDE DEF results1
  <2>4. Results' \in [1 .. n + 1 -> Int] /\ n + 1 \in Nat
    BY <1>2, <2>1, <2>2 DEF n
  <2>5. Results' \in Seq(Int) /\ Len(Results') = n + 1
    BY <2>4
  <2>6. \A i \in 1 .. n + 1 : Results'[i] = results1[i]
    BY <2>2
  <2> QED
    BY <2>3, <2>5, <2>6, SeqEqual DEF results1
<1>10. r \in {Len(Results) + 1, Abstract!Failed, Abstract!Aborted} /\ Len(Results) < issued
  BY <1>2, <1>3 DEF n, Failed, Aborted, Abstract!Failed, Abstract!Aborted
<1>11. Abstract!Complete
  BY <1>9, <1>10 DEF Abstract!Complete, Results
<1> QED
  BY <1>11 DEF Abstract!Next

(* Every step of the acceptor is a step of OrderedCompletions or a stutter.*)
LEMMA StepSeen ==
  ASSUME AcceptorInv, AcceptorInv', AccStep
  PROVE  [Abstract!Next]_(Abstract!vars)
<1>1. /\ AccTypeOK /\ RequestControl /\ PhaseControl /\ FeedControl /\ SteadyState /\ PeersConserved
      /\ AccTypeOK' /\ RequestControl'
  BY DEF AcceptorInv, AcceptorControl
<1>2. Abstract!Failed = Failed /\ Abstract!Aborted = Aborted
  BY DEF Failed, Aborted, Abstract!Failed, Abstract!Aborted
<1>3. CASE AsyncAccept
  <2>1. issued' = issued + 1 /\ UNCHANGED <<done, phase>> /\ phase # "gone"
    BY <1>3 DEF AsyncAccept
  <2> QED
    BY <2>1 DEF Abstract!Next, Abstract!Issue
<1>4. CASE CallHandler
  <2> DEFINE n == Len(done)
             r == feeding
  <2>1. /\ UNCHANGED <<issued, phase>> /\ ~inHandler /\ ~WorkerFree
        /\ done' = Append(done, [req |-> Head(pendingUserRequests), res |-> r])
    BY <1>4 DEF CallHandler
  <2>2. pendingUserRequests # <<>> /\ phase # "gone" /\ phase # "abort"
    BY <1>1, <2>1 DEF SteadyState, PhaseControl
  <2>3. /\ Results \in Seq(Int) /\ Len(Results) = n /\ n \in Nat
        /\ \A i \in 1 .. n : Results[i] = done[i].res
        /\ Results # <<>> <=> n # 0
    BY <1>1, ResultsSeen
  <2>4. \A i \in 1 .. n : done[i].res # Aborted
    BY <1>1, <2>2 DEF PhaseControl
  <2>5. n # 0 => n \in 1 .. n
    BY <2>3
  <2>6. CASE r > 0
    <3>1. \A i \in 1 .. n : done[i].res # Failed
      BY <1>1, <2>6 DEF FeedControl
    <3>2. Leaving = 1
      BY <2>1, <2>6 DEF Leaving
    <3>3. /\ Handed \in 0 .. n /\ r = Handed + 1
          /\ \A i \in 1 .. Handed : done[i].res = i
          /\ \A i \in Handed + 1 .. n : done[i].res \in {Failed, Aborted}
      BY <1>1, <2>6, <3>2 DEF PeersConserved
    <3>4. Handed = n
      <4> SUFFICES ASSUME Handed # n PROVE FALSE
        OBVIOUS
      <4>1. n \in Handed + 1 .. n /\ n \in 1 .. n
        BY <2>3, <3>3
      <4> QED
        BY <2>4, <3>1, <3>3, <4>1
    <3>5. n # 0 => Results[n] = n
      BY <2>3, <2>5, <3>3, <3>4
    <3>6. r = n + 1 /\ Abstract!MayFollow(Results, r)
      BY <2>3, <3>3, <3>4, <3>5 DEF Abstract!MayFollow
    <3> QED
      BY <2>1, <2>2, <3>6, StepCompletes
  <2>7. CASE ~(r > 0)
    <3>1. r = Failed
      BY <1>1, <2>1, <2>7, MaxPeersAssumption DEF AccTypeOK, Peer, WorkerFree, Idle, Failed
    <3>2. n # 0 => Results[n] # Aborted
      BY <2>3, <2>4, <2>5
    <3>3. Abstract!MayFollow(Results, r)
      BY <1>2, <2>3, <3>1, <3>2 DEF Abstract!MayFollow
    <3> QED
      BY <2>1, <2>2, <3>1, <3>3, StepCompletes
  <2> QED
    BY <2>6, <2>7
<1>5. CASE AbortRequest
  <2>1. phase = "abort" /\ ~inHandler /\ issued' = issued
    BY <1>5 DEF AbortRequest
  <2>2. CASE pendingUserRequests = <<>>
    <3>1. phase' = "gone" /\ done' = done
      BY <1>5, <2>2 DEF AbortRequest
    <3>2. Len(done) = issued
      <4>1. posted = <<>> /\ Len(<<>>) = 0
        BY <1>1, <2>1 DEF PhaseControl
      <4>2. Finished = Len(done) /\ Len(done) \in Nat
        BY <1>1, <2>1, AccLengths DEF Finished
      <4>3. issued = Finished + Len(pendingUserRequests) + Len(posted)
        BY <1>1 DEF RequestControl
      <4> QED
        BY <2>2, <4>1, <4>2, <4>3
    <3>3. Len(Results) = issued
      BY <1>1, <3>2, ResultsSeen
    <3> QED
      BY <2>1, <3>1, <3>3 DEF Abstract!Next, Abstract!Destroyed, Results
  <2>3. CASE pendingUserRequests # <<>>
    <3>1. /\ phase' = phase
          /\ done' = Append(done, [req |-> Head(pendingUserRequests), res |-> Aborted])
      BY <1>5, <2>3 DEF AbortRequest
    <3>2. Abstract!MayFollow(Results, Aborted)
      BY <1>2 DEF Abstract!MayFollow
    <3> QED
      BY <2>1, <2>3, <3>1, <3>2, StepCompletes
  <2> QED
    BY <2>2, <2>3
<1>6. CASE \/ OnAsyncAccept \/ OnNextPeerSocket \/ OnNextPeerError \/ HandlerReturns \/ Destroy
           \/ WorkerStopped \/ PollReturns \/ AbortReturns \/ PeerArrives \/ UNCHANGED accVars
  <2>1. UNCHANGED <<issued, done>> /\ ((phase' = "gone") <=> (phase = "gone"))
    BY <1>6 DEF OnAsyncAccept, OnNextPeerSocket, OnNextPeerError, HandlerReturns, Destroy, WorkerStopped,
                PhaseAfterStop, PollReturns, AbortReturns, PeerArrives, accVars
  <2> QED
    BY <2>1, StepUnseen
<1> QED
  BY <1>3, <1>4, <1>5, <1>6 DEF AccStep

(* async_accept() keeps its promise: one completion of every request, in   *)
(* order, peers first and in their order, also across the destructor.      *)
THEOREM AcceptorCompletesInOrder == EstSpec => ImplementsOrderedCompletions
<1>1. EstInit => Abstract!Init
  <2> SUFFICES ASSUME EstInit PROVE Abstract!Init
    OBVIOUS
  <2>1. done = <<>> /\ issued = 0 /\ phase # "gone"
    BY DEF EstInit, AccInit
  <2>2. Results = <<>>
    BY <2>1 DEF Results
  <2> QED
    BY <2>1, <2>2 DEF Abstract!Init, Results
<1>2. AcceptorInv /\ AcceptorInv' /\ [EstNext]_estVars => [Abstract!Next]_(Abstract!vars)
  BY EstSteps, StepSeen
<1>3. EstSpec => Abstract!Spec
  BY <1>1, <1>2, AcceptorInvariant, PTL DEF EstSpec, Abstract!Spec
<1> QED
  BY <1>3 DEF ImplementsOrderedCompletions

=============================================================================
