--------------------------- MODULE SyncIoAcceptor ---------------------------
(***************************************************************************)
(* sync_io::Native_socket_stream_acceptor: the asynchronous acceptor as    *)
(* core, with one request at a time.  The core's handler, in thread W,     *)
(* leaves the result in m_target_err_code and a byte in a pipe; the user's *)
(* event loop, in thread U, waits for the pipe and calls the user.  No     *)
(* mutex orders the two threads: only the pipe does.                       *)
(***************************************************************************)
EXTENDS StreamAcceptor

VARIABLES
  wrapped,       \* the acceptor is used through sync_io
  started,       \* start_accept_ops() was called: m_ev_wait_func
  handlerSaved,  \* m_on_done_func_or_empty is not empty
  target,        \* m_target_err_code and *target_peer: a peer, or Failed
  readyBytes,    \* bytes in the pipe m_ready_writer, m_ready_reader
  readyWait,     \* the event loop waits for m_ready_reader to be readable
  reported       \* history: what the user's handlers were told

sioVars == <<wrapped, started, handlerSaved, target, readyBytes, readyWait, reported>>
acceptorVars == <<accVars, sioVars>>

(* A core that failed to listen makes a wrapper that must not be used.     *)
SioInit ==
  /\ wrapped \in BOOLEAN /\ (wrapped => accepting)
  /\ started = FALSE /\ handlerSaved = FALSE /\ target = Idle
  /\ readyBytes = 0 /\ readyWait = FALSE
  /\ reported = <<>>

-----------------------------------------------------------------------------
(* Thread U.                                                               *)

StartAcceptOps ==
  /\ wrapped /\ ~started /\ phase = "alive"
  /\ started' = TRUE
  /\ UNCHANGED <<accVars, wrapped, handlerSaved, target, readyBytes, readyWait, reported>>

NonePending == TRUE   \* mutant
MayAccept == ~handlerSaved

(* async_accept() asks the core.  Thread W may be done before the wait is  *)
(* registered; and the user may be told of one result, and ask for the     *)
(* next, while W is still in the core's handler of the first.              *)
SioAsyncAccept ==
  /\ wrapped /\ started /\ MayAccept /\ phase = "alive"
  /\ AsyncAccept
  /\ handlerSaved' = TRUE
  /\ UNCHANGED <<wrapped, started, target, readyBytes, readyWait, reported>>

(* The call is between the two.                                            *)
Asking == handlerSaved /\ ~readyWait

AwaitNothingReady == UNCHANGED readyWait   \* mutant
AwaitReady == readyWait' = TRUE

(* async_accept() has the pipe waited for, and returns.                    *)
SioAcceptReturns ==
  /\ Asking
  /\ AwaitReady
  /\ UNCHANGED <<accVars, wrapped, started, handlerSaved, target, readyBytes, reported>>

(* The event loop finds the pipe readable: the byte is consumed and the    *)
(* handler moved out, as it may make the next request, before it is called.*)
OnReadyReadable ==
  /\ readyWait /\ readyBytes > 0 /\ phase = "alive"
  /\ readyBytes' = readyBytes - 1
  /\ readyWait' = FALSE
  /\ handlerSaved' = FALSE
  /\ reported' = Append(reported, target)
  /\ UNCHANGED <<accVars, wrapped, started, target>>

-----------------------------------------------------------------------------
(* Threads of the core.                                                    *)

(* The handler given to the core: the result is stored, then the byte      *)
(* written, by which alone thread U can know of either.                    *)
SignalResult(res) == target' = res /\ readyBytes' = readyBytes + 1

CoreCallsHandler ==
  /\ CallHandler
  /\ IF wrapped THEN SignalResult(feeding) ELSE UNCHANGED <<target, readyBytes>>
  /\ UNCHANGED <<wrapped, started, handlerSaved, readyWait, reported>>

(* It ignores the abort that the core's destructor tells it of.            *)
CoreWorker ==
  \/ CoreCallsHandler
  \/ (OnAsyncAccept \/ HandlerReturns) /\ UNCHANGED sioVars

AcceptorUser ==
  \/ StartAcceptOps \/ SioAsyncAccept \/ SioAcceptReturns
  \/ ~wrapped /\ AsyncAccept /\ UNCHANGED sioVars
  \/ Destroy /\ ~Asking /\ UNCHANGED sioVars

-----------------------------------------------------------------------------
(* Properties.                                                             *)

(* Every result of the core that is not an abort is reported to the user   *)
(* once, in order, and as the core gave it: what was reported, and the one *)
(* result that lies in m_target_err_code for the byte in the pipe, are the *)
(* results of the core.  So the pipe never holds two bytes, and no request *)
(* overwrites the result of another that the user has not seen.            *)
Reportable == reported \o (IF readyBytes = 1 THEN <<target>> ELSE <<>>)
AcceptReported ==
  wrapped =>
    /\ readyBytes \in {0, 1}
    /\ Len(Reportable) <= Len(done)
    /\ \A i \in 1 .. Len(Reportable) : Reportable[i] = done[i].res /\ Reportable[i] # Aborted
    /\ \A i \in Len(Reportable) + 1 .. Len(done) : done[i].res = Aborted
=============================================================================
