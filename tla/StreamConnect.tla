--------------------------- MODULE StreamConnect ---------------------------
(***************************************************************************)
(* The life of a Native_socket_stream up to and in PEER state: the         *)
(* constructors, sync_connect() with the worker thread it may need, in the *)
(* async-I/O class and the sync_io core it holds.                          *)
(*                                                                         *)
(* Threads: U, the user's; C, m_conn_async_worker, which runs only while   *)
(* sync_connect() waits for writability; W, which runs the two adapters of *)
(* PEER state, here only as far as it takes the socket away on an error.   *)
(***************************************************************************)
EXTENDS Integers

CONSTANT MaxAttempts   \* bound on the calls of sync_connect() in NULL state
ASSUME MaxAttemptsAssumption == MaxAttempts \in Nat

VARIABLES
  ndebug,       \* the build disables assert()
  aborted,      \* an assertion failed
  state,        \* m_state
  nonBlocking,  \* m_peer_socket->non_blocking()
  sockHosed,    \* m_peer_socket is null, its socket in m_peer_socket_hosed
  creds,        \* m_peer_process_creds: unset, the kernel's, the user's
  connParts,    \* m_conn_ev_wait_func, _hndl_peer_socket, m_conn_async_worker
  connWait,     \* the wait for writability: none, pending, ready
  workerRuns,   \* thread C runs
  promise,      \* done_promise has its value
  adapters,     \* m_snd_sync_io_adapter and m_rcv_sync_io_adapter are there
  errCode,      \* *err_code of the last sync_connect()
  uPc,          \* where U is in sync_connect()
  attempts

connVars == <<connParts, connWait, workerRuns, promise>>
buildVars == <<ndebug, aborted>>
vars == <<buildVars, state, nonBlocking, sockHosed, creds, connVars, adapters, errCode, uPc, attempts>>

(* Types: every value the model assigns.                                   *)
TypeOK ==
  /\ ndebug \in BOOLEAN /\ aborted \in BOOLEAN
  /\ nonBlocking \in BOOLEAN /\ sockHosed \in BOOLEAN
  /\ connParts \in BOOLEAN /\ workerRuns \in BOOLEAN /\ promise \in BOOLEAN
  /\ adapters \in BOOLEAN
  /\ state \in {"NULL", "CONNECTING", "PEER"}
  /\ creds \in {"unset", "kernel", "user"}
  /\ connWait \in {"none", "pending", "ready"}
  /\ errCode \in {"ok", "failed", "wouldBlock"}
  /\ uPc \in {"idle", "connect", "blocked", "wait", "connected"}
  /\ attempts \in 0 .. MaxAttempts

(* Constructed in NULL state, or in PEER state from a connected handle.    *)
Init ==
  /\ ndebug \in BOOLEAN /\ aborted = FALSE
  /\ state \in {"NULL", "PEER"}
  /\ nonBlocking = FALSE /\ sockHosed = FALSE
  /\ creds = IF state = "PEER" THEN "kernel" ELSE "unset"
  /\ connParts = (state = "NULL")
  /\ connWait = "none" /\ workerRuns = FALSE /\ promise = FALSE
  /\ adapters = (state = "PEER")
  /\ errCode = "ok" /\ uPc = "idle" /\ attempts = 0

-----------------------------------------------------------------------------
(* sync_connect() and async_connect().                                     *)

(* The endpoint at the Shared_name is computed; it may be ill-formed.      *)
SyncConnect ==
  /\ ~aborted /\ uPc = "idle" /\ state = "NULL" /\ attempts < MaxAttempts
  /\ attempts' = attempts + 1
  /\ promise' = FALSE
  /\ \/ /\ errCode' = "failed"
        /\ UNCHANGED <<state, uPc>>
     \/ /\ state' = "CONNECTING" /\ uPc' = "connect"
        /\ errCode' = "ok"
  /\ UNCHANGED <<buildVars, nonBlocking, sockHosed, creds, connParts, connWait, workerRuns, adapters>>

(* "New NULL-state socket should start as not non-blocking."               *)
AssertNotNonBlocking ==
  /\ uPc = "connect" /\ nonBlocking /\ ~ndebug
  /\ aborted' = TRUE /\ uPc' = "idle"
  /\ UNCHANGED <<ndebug, state, nonBlocking, sockHosed, creds, connVars, adapters, errCode, attempts>>

(* non_blocking(true) or connect() fails: nobody listens, say.             *)
ConnectFails ==
  /\ uPc = "connect" /\ (nonBlocking => ndebug)
  /\ nonBlocking' \in {nonBlocking, TRUE}
  /\ errCode' = "failed" /\ state' = "NULL" /\ uPc' = "idle"
  /\ UNCHANGED <<buildVars, sockHosed, creds, connVars, adapters, attempts>>

(* connect() succeeds at once.                                             *)
ConnectSucceeds ==
  /\ uPc = "connect" /\ (nonBlocking => ndebug)
  /\ nonBlocking' = TRUE
  /\ state' = "PEER" /\ creds' = "kernel"
  /\ uPc' = "connected"
  /\ UNCHANGED <<buildVars, sockHosed, connVars, adapters, errCode, attempts>>

(* connect() would block: the wait is registered on thread C, which does   *)
(* not run yet.                                                            *)
ConnectWouldBlock ==
  /\ uPc = "connect" /\ (nonBlocking => ndebug)
  /\ nonBlocking' = TRUE
  /\ connWait' = "pending" /\ errCode' = "wouldBlock"
  /\ uPc' = "blocked"
  /\ UNCHANGED <<buildVars, state, sockHosed, creds, connParts, workerRuns, promise, adapters, attempts>>

(* Mutant: the thread is never started.                                    *)
StartWorkerForgotten ==
  /\ uPc = "blocked"
  /\ uPc' = "wait"
  /\ UNCHANGED <<buildVars, state, nonBlocking, sockHosed, creds, connVars, adapters, errCode, attempts>>

StartWorker ==
  /\ uPc = "blocked"
  /\ workerRuns' = TRUE /\ uPc' = "wait"
  /\ UNCHANGED <<buildVars, state, nonBlocking, sockHosed, creds, connParts, connWait, promise, adapters, errCode,
                 attempts>>

(* The kernel reports the socket writable, or in an error state.           *)
SocketWritable ==
  /\ connWait = "pending"
  /\ connWait' = "ready"
  /\ UNCHANGED <<buildVars, state, nonBlocking, sockHosed, creds, connParts, workerRuns, promise, adapters, errCode, uPc,
                 attempts>>

(* Thread C: conn_on_ev_peer_socket_writable() takes it for success.       *)
ConnOnEvPeerSocketWritable ==
  /\ workerRuns /\ connWait = "ready"
  /\ connWait' = "none"
  /\ state' = "PEER" /\ creds' = "kernel"
  /\ UNCHANGED <<buildVars, nonBlocking, sockHosed, connParts, workerRuns, promise, adapters, errCode, uPc, attempts>>

(* Mutant: the handler runs before the state is set.                       *)
FulfilPromiseEarly ==
  /\ workerRuns /\ connWait = "ready" /\ ~promise
  /\ errCode' = "ok" /\ promise' = TRUE
  /\ UNCHANGED <<buildVars, state, nonBlocking, sockHosed, creds, connParts, connWait, workerRuns, adapters, uPc,
                 attempts>>

(* Thread C, next: the handler of sync_connect().                          *)
FulfilPromise ==
  /\ workerRuns /\ state = "PEER" /\ ~promise
  /\ errCode' = "ok" /\ promise' = TRUE
  /\ UNCHANGED <<buildVars, state, nonBlocking, sockHosed, creds, connParts, connWait, workerRuns, adapters, uPc,
                 attempts>>

WakeUp ==
  /\ uPc = "wait" /\ promise
  /\ workerRuns' = FALSE
  /\ uPc' = IF errCode = "ok" THEN "connected" ELSE "idle"
  /\ UNCHANGED <<buildVars, state, nonBlocking, sockHosed, creds, connParts, connWait, promise, adapters, errCode,
                 attempts>>

(* Success: the connect-ops parts go, and the async-I/O class sets up its  *)
(* adapters.                                                               *)
FinishConnect ==
  /\ uPc = "connected"
  /\ connParts' = FALSE /\ adapters' = TRUE
  /\ uPc' = "idle"
  /\ UNCHANGED <<buildVars, state, nonBlocking, sockHosed, creds, connWait, workerRuns, promise, errCode, attempts>>

-----------------------------------------------------------------------------
(* PEER state.                                                             *)

(* remote_peer_process_credentials(), the mutator.                         *)
OverrideCreds ==
  /\ ~aborted /\ uPc = "idle" /\ state = "PEER"
  /\ creds' = "user"
  /\ UNCHANGED <<buildVars, state, nonBlocking, sockHosed, connVars, adapters, errCode, uPc, attempts>>

(* A read or write fails in W: m_peer_socket is moved away.  The state     *)
(* stays PEER.                                                             *)
HoseSocket ==
  /\ adapters /\ ~sockHosed
  /\ sockHosed' = TRUE
  /\ UNCHANGED <<buildVars, state, nonBlocking, creds, connVars, adapters, errCode, uPc, attempts>>

-----------------------------------------------------------------------------
ConnectSteps == AssertNotNonBlocking \/ ConnectFails \/ ConnectSucceeds \/ ConnectWouldBlock

Next ==
  \/ SyncConnect \/ ConnectSteps \/ StartWorker \/ SocketWritable
  \/ ConnOnEvPeerSocketWritable \/ FulfilPromise \/ WakeUp \/ FinishConnect
  \/ OverrideCreds \/ HoseSocket

(* A thread that can run does, and a local connect resolves.               *)
Fairness ==
  /\ WF_vars(ConnectSteps) /\ WF_vars(StartWorker) /\ WF_vars(WakeUp) /\ WF_vars(FinishConnect)
  /\ WF_vars(ConnOnEvPeerSocketWritable) /\ WF_vars(FulfilPromise) /\ WF_vars(SocketWritable)

Spec == Init /\ [][Next]_vars
FairSpec == Spec /\ Fairness

-----------------------------------------------------------------------------
(* Properties.                                                             *)

(* Whenever the user may call something, the stream is either in NULL      *)
(* state, ready for another attempt, with no thread and no wait left over, *)
(* or in PEER state, with the adapters, the peer's credentials and no      *)
(* connect-ops parts; and the last result says which.  This includes the   *)
(* assertions of sync_connect() on m_state.                                *)
WholeInNull == state = "NULL" /\ (attempts > 0 => errCode = "failed") /\ connParts /\ ~adapters
WholeInPeer == state = "PEER" /\ errCode = "ok" /\ ~connParts /\ adapters /\ creds # "unset"
NullOrPeer ==
  uPc = "idle" /\ ~aborted =>
    (WholeInNull \/ WholeInPeer) /\ ~workerRuns /\ connWait = "none"

(* sync_connect() always returns, also when connect() would block and it   *)
(* depends on two other threads.                                           *)
SyncConnectReturns == uPc \in {"connect", "blocked", "wait"} ~> uPc = "idle"

(* native_socket_stream.hpp: "If the connect fails ..., it will go back to *)
(* NULL state", in which sync_connect() may be called again: no assertion  *)
(* stops the second attempt.                                               *)
MayTryAgain == ~aborted
=============================================================================
