------------------------- MODULE AsyncAdapterSender -------------------------
(***************************************************************************)
(* sync_io::Async_adapter_sender as far as it has state of its own: the    *)
(* handler of async_end_sending(), from the call to its run in the thread W*)
(* of AsyncWorker or in the destructor.  (send_*() and auto_ping() only    *)
(* lock m_mutex and forward to the core.)  Whatever runs with m_mutex      *)
(* locked is one step.                                                     *)
(*                                                                         *)
(* The core is taken by its contract, and of two kinds: one still has the  *)
(* adapter's handler when the flush that it reported as blocking is over,  *)
(* the other does not.  The core of the local stream socket is of the      *)
(* second kind: see OnDoneKeptWhileWouldBlock in SocketStreamSnd.          *)
(***************************************************************************)
EXTENDS AsyncWorker

CONSTANT MaxCalls   \* bound on the calls of async_end_sending() with a handler

ASSUME MaxCallsAssumption == MaxCalls \in Nat

NoFunc == 0
Flushed == 1   \* the result of success

VARIABLES
  onDoneFunc,        \* m_end_sending_on_done_func_or_empty: the call it came with
  coreKeepsHandler,  \* the kind of core; does not change
  coreFinished,      \* *end_sending() was called on the core
  coreFlushing,      \* an async_end_sending() of the core is not flushed yet
  calls, accepted    \* history: calls with a handler; those that returned true

coreSndVars == <<coreKeepsHandler, coreFinished, coreFlushing>>
sndVars == <<onDoneFunc, coreSndVars, calls, accepted>>

Func == 1 .. MaxCalls

SndInit ==
  /\ onDoneFunc = NoFunc
  /\ coreKeepsHandler \in BOOLEAN
  /\ coreFinished = FALSE /\ coreFlushing = FALSE
  /\ calls = 0 /\ accepted = {}

(* on_sync_io_end_sending_done().                                          *)
ClearedBeforePost(func, res) ==   \* mutant
  /\ posted' = Append(posted, Task(Completion("snd", NoFunc, res), FALSE))
  /\ onDoneFunc' = NoFunc
OnSyncIoEndSendingDone(func, res) ==
  /\ posted' = Append(posted, Task(Completion("snd", func, res), FALSE))
  /\ onDoneFunc' = NoFunc

-----------------------------------------------------------------------------
(* async_end_sending(), by thread U or by a handler.                       *)
MayEnd == MayCall({"abortSnd"})

(* With an empty function, as end_sending() calls it.                      *)
EndSending ==
  /\ MayEnd
  /\ coreFinished' = TRUE
  /\ UNCHANGED <<onDoneFunc, coreKeepsHandler, coreFlushing, calls, accepted, workerVars>>

CallWithHandler == MayEnd /\ calls < MaxCalls /\ calls' = calls + 1

(* A duplicate: the adapter has a handler already.                         *)
RefusedByAdapter ==
  /\ CallWithHandler
  /\ onDoneFunc # NoFunc
  /\ UNCHANGED <<onDoneFunc, coreSndVars, accepted, workerVars>>

(* A duplicate that only the core knows as one: F was saved for the call,  *)
(* and is not kept.                                                        *)
KeptDespiteRefusal(func) == func   \* mutant
KeptOnRefusal(func) == NoFunc
RefusedByCore ==
  /\ CallWithHandler
  /\ onDoneFunc = NoFunc /\ coreFinished
  /\ onDoneFunc' = KeptOnRefusal(calls')
  /\ UNCHANGED <<coreSndVars, accepted, workerVars>>

AcceptedWouldBlock ==
  /\ CallWithHandler
  /\ onDoneFunc = NoFunc /\ ~coreFinished
  /\ accepted' = accepted \cup {calls'}
  /\ onDoneFunc' = calls'
  /\ coreFinished' = TRUE /\ coreFlushing' = TRUE
  /\ UNCHANGED <<coreKeepsHandler, workerVars>>

AcceptedAtOnce ==
  /\ CallWithHandler
  /\ onDoneFunc = NoFunc /\ ~coreFinished
  /\ accepted' = accepted \cup {calls'}
  /\ coreFinished' = TRUE
  /\ \E res \in {Flushed, Failed} : OnSyncIoEndSendingDone(calls', res)
  /\ UNCHANGED <<coreKeepsHandler, coreFlushing, taskVars, inHandler, phase, done>>

-----------------------------------------------------------------------------
(* In thread W: the core's on_active_ev_func(), its flush over or failed.  *)
CoreFlushed ==
  /\ WorkerRuns /\ WorkerFree /\ coreFlushing
  /\ coreFlushing' = FALSE
  /\ IF coreKeepsHandler
       THEN \E res \in {Flushed, Failed} : OnSyncIoEndSendingDone(onDoneFunc, res)
       ELSE UNCHANGED <<posted, onDoneFunc>>
  /\ UNCHANGED <<coreKeepsHandler, coreFinished, calls, accepted, taskVars, inHandler, phase, done>>

-----------------------------------------------------------------------------
(* ~Async_adapter_sender().                                                *)

AbortSaved ==
  /\ phase = "abortSnd" /\ onDoneFunc # NoFunc
  /\ RunHandler(Completion("snd", onDoneFunc, Aborted))
  /\ UNCHANGED <<sndVars, posted, taskVars, phase>>

SndDtorReturns ==
  /\ phase = "abortSnd" /\ (inHandler \/ onDoneFunc = NoFunc)
  /\ inHandler' = FALSE
  /\ phase' = "gone"
  /\ UNCHANGED <<sndVars, posted, taskVars, done>>

-----------------------------------------------------------------------------
EndsSending ==
  EndSending \/ RefusedByAdapter \/ RefusedByCore \/ AcceptedWouldBlock \/ AcceptedAtOnce
SndDtor == AbortSaved \/ SndDtorReturns
=============================================================================
