---------------------------- MODULE AsyncWorker ----------------------------
(***************************************************************************)
(* Thread W of an async-I/O stream (Native_socket_stream::Impl::m_worker), *)
(* which both adapters post to: it runs one task at a time, in the order   *)
(* they were posted.  And the stream's destructor, which stops W, lets a   *)
(* transient thread run what is posted, and then destroys the receiving    *)
(* adapter and the sending one, in that order.                             *)
(***************************************************************************)
EXTENDS Integers, Sequences

(* Results of a request, apart from positive numbers.                      *)
Failed == 0     \* an error: the transport is hosed
Aborted == -1   \* S_OBJECT_SHUTDOWN_ABORTED_COMPLETION_HANDLER

VARIABLES
  posted,     \* handlers posted on W, with the results they are to be given;
              \* `more': the task goes on with the next one
  looping,    \* W is in on_sync_io_rcv_done(), the receiving adapter's m_mutex locked
  inTask,     \* W is inside a posted task
  inHandler,  \* a handler of the user is running
  phase,      \* of the destructor
  done        \* history: of each side, handlers run, in order

taskVars == <<looping, inTask>>
workerVars == <<posted, taskVars, inHandler, phase, done>>

Side == {"snd", "rcv"}
Completion(side, call, res) == [side |-> side, call |-> call, res |-> res]
Task(completion, more) == [completion |-> completion, more |-> more]

WorkerInit ==
  /\ posted = <<>> /\ looping = FALSE /\ inTask = FALSE /\ inHandler = FALSE
  /\ phase = "alive" /\ done = [s \in Side |-> <<>>]

(* Who may call the stream: thread U, until it is in the destructor, and   *)
(* any handler.  In an adapter's destructor a handler may call that adapter*)
(* only: see README.                                                       *)
MayCall(ownAborts) ==
  \/ phase = "alive"
  \/ inHandler /\ phase \in {"stopping", "polling"} \cup ownAborts

(* W, or the transient thread that stands in for it in poll().             *)
WorkerRuns == phase \in {"alive", "polling"}
WorkerFree == ~looping /\ ~inTask /\ ~inHandler

(* stop() lets a task that has begun go on to its end.                     *)
MayRunPosted == WorkerRuns \/ inTask

RunHandler(completion) ==
  /\ ~inHandler /\ inHandler' = TRUE
  /\ done' = [done EXCEPT ![completion.side] = Append(@, completion)]

(* A handler starts: the first of a task W takes, or the next one of the   *)
(* task W is in.                                                           *)
CallHandler ==
  /\ posted # <<>> /\ ~looping /\ MayRunPosted
  /\ RunHandler(Head(posted).completion)
  /\ inTask' = Head(posted).more
  /\ posted' = Tail(posted)
  /\ UNCHANGED <<looping, phase>>

HandlerReturns ==
  /\ inHandler /\ phase \in {"alive", "stopping", "polling"}
  /\ inHandler' = FALSE
  /\ UNCHANGED <<posted, taskVars, phase, done>>

-----------------------------------------------------------------------------
(* ~Impl().                                                                *)

Destroy ==
  /\ phase = "alive"
  /\ phase' = "stopping"
  /\ UNCHANGED <<posted, taskVars, inHandler, done>>

NoPolling == "abortHead"   \* mutant
PhaseAfterStop == "polling"

(* m_worker->stop() has returned: what W was running is over.  A transient *)
(* thread restart()s the engine and poll()s it.                            *)
WorkerStopped ==
  /\ phase = "stopping" /\ WorkerFree
  /\ phase' = PhaseAfterStop
  /\ UNCHANGED <<posted, taskVars, inHandler, done>>

(* poll() returns when nothing posted is left; whether an event is ready   *)
(* is up to the environment.                                               *)
PollReturns ==
  /\ phase = "polling" /\ WorkerFree /\ posted = <<>>
  /\ phase' = "abortHead"
  /\ UNCHANGED <<posted, taskVars, inHandler, done>>
=============================================================================
