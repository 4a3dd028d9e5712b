--------------------------- MODULE StreamEstablish ---------------------------
(***************************************************************************)
(* How a connection comes to be: a stream that connects (StreamConnect) to *)
(* an acceptor, used directly or through sync_io (SyncIoAcceptor), with    *)
(* the kernel's backlog between them.  Other clients connect too.          *)
(*                                                                         *)
(* On a full backlog connect() is documented in the code to succeed all    *)
(* the same, or to block until the socket is called writable: the stream   *)
(* is then in PEER state with nobody at the other end, which its first     *)
(* read or write finds out.                                                *)
(***************************************************************************)
EXTENDS StreamConnect, SyncIoAcceptor

VARIABLE mine   \* the number of the client's connection in the backlog, or 0

estVars == <<vars, acceptorVars, mine>>

(* A stream constructed in PEER state came by its connection otherwise.    *)
EstInit == Init /\ AccInit /\ SioInit /\ mine = 0

(* The client's connection is the next in the backlog.                     *)
Arrives == PeerArrives /\ mine' = arrived' /\ UNCHANGED sioVars
NoArrival == UNCHANGED <<acceptorVars, mine>>

ClientConnects ==
  \/ ConnectSucceeds /\ Arrives
  \/ ConnectSucceeds /\ Listening /\ BacklogFull /\ NoArrival
  \/ ConnectWouldBlock /\ Listening /\ BacklogFull /\ NoArrival
  \/ ConnectFails /\ NoArrival

(* The socket of a connect() that would block is writable: connected, or   *)
(* in an error state.                                                      *)
ClientWritable == SocketWritable /\ (Arrives \/ NoArrival)

ClientOther ==
  /\ SyncConnect \/ AssertNotNonBlocking \/ StartWorker \/ ConnOnEvPeerSocketWritable
       \/ FulfilPromise \/ WakeUp \/ FinishConnect \/ OverrideCreds \/ HoseSocket
  /\ NoArrival

Client == ClientConnects \/ ClientWritable \/ ClientOther

AcceptorStep ==
  /\ \/ AcceptorUser \/ OnReadyReadable \/ CoreWorker
     \/ (PeerArrives \/ Network \/ Destructor) /\ UNCHANGED sioVars
  /\ UNCHANGED <<vars, mine>>

EstNext == Client \/ AcceptorStep

EstSpec == EstInit /\ [][EstNext]_estVars

ServerFairly(A) == A /\ UNCHANGED <<vars, mine>>

(* Each thread runs on, handlers return, the kernel reports a connecting   *)
(* socket writable, and connections of the backlog are taken.              *)
EstFairness ==
  /\ WF_estVars(ClientConnects \/ (AssertNotNonBlocking /\ NoArrival))
  /\ WF_estVars(ClientWritable)
  /\ WF_estVars(StartWorker /\ NoArrival) /\ WF_estVars(WakeUp /\ NoArrival)
  /\ WF_estVars(FinishConnect /\ NoArrival) /\ WF_estVars(FulfilPromise /\ NoArrival)
  /\ WF_estVars(ConnOnEvPeerSocketWritable /\ NoArrival)
  /\ WF_estVars(ServerFairly(CoreWorker))
  /\ WF_estVars(ServerFairly(Destructor /\ UNCHANGED sioVars))
  /\ WF_estVars(ServerFairly(OnNextPeerSocket /\ UNCHANGED sioVars))
  /\ WF_estVars(ServerFairly(SioAcceptReturns)) /\ WF_estVars(ServerFairly(OnReadyReadable))

EstFairSpec == EstSpec /\ EstFairness

-----------------------------------------------------------------------------
(* Properties.                                                             *)

(* What the acceptor's user was given.                                     *)
Given ==
  IF wrapped THEN {reported[i] : i \in 1 .. Len(reported)}
             ELSE {done[i].res : i \in 1 .. Len(done)}

(* A client whose connection the kernel made comes out of the acceptor as  *)
(* a peer, once as many requests were made as there were clients before    *)
(* it and itself; unless the acceptor fails or is destroyed.               *)
ConnectionIsAccepted ==
  (mine > 0 /\ issued >= mine) ~> (mine \in Given \/ ~accepting \/ phase # "alive")
=============================================================================
