------------------------------ MODULE MqHandles ------------------------------
(***************************************************************************)
(* Several threads over one queue of either kind, none in step with any.   *)
(***************************************************************************)
EXTENDS PosixMqHandle, BipcMqHandle

CONSTANT Interruptible   \* threads whose waits another thread may interrupt
ASSUME InterruptibleAssumption == Interruptible \subseteq Thread

mqVars == <<handleVars, posixVars, blocked>>

MqInit == kind \in {"posix", "bipc"} /\ MqHandleInit /\ PosixInit /\ BipcInit

OfPosix(A) == A /\ UNCHANGED blocked
OfBipc(A) == A /\ UNCHANGED posixVars

Runs(t) == OfPosix(PosixThread(t)) \/ OfBipc(BipcThread(t))

Begins(t) == OfPosix(PosixBegin(t)) \/ OfBipc(BipcBegin(t))

TimePasses(t) == Tick(t) /\ UNCHANGED <<posixVars, blocked>>

Controls(t) ==
  /\ t \in Interruptible
  /\ \/ OfPosix(PosixInterrupt(t) \/ PosixAllow(t) \/ PosixPipe(t))
     \/ OfBipc(BipcInterrupt(t) \/ BipcAllow(t))

MqNext == \E t \in Thread : Begins(t) \/ Runs(t) \/ TimePasses(t) \/ Controls(t)

MqSpec == MqInit /\ [][MqNext]_mqVars

(* A thread in a call runs, time passes, a call of interrupt_*() or        *)
(* allow_*() is ended.  epoll_wait() gives level-triggered events in turn, *)
(* so that an interrupt that stays on is not passed over for ever.         *)
MqFairness ==
  \A t \in Thread :
    /\ WF_mqVars(Runs(t))
    /\ WF_mqVars(TimePasses(t))
    /\ WF_mqVars(OfPosix(PosixPipe(t)))
    /\ SF_mqVars(OfPosix(PosixWaitInterrupted(t)))

MqFairSpec == MqSpec /\ MqFairness

-----------------------------------------------------------------------------
(* Properties.                                                             *)

(* An interrupt is over when allow_*() returns: a call that begins later   *)
(* is not told of it.                                                      *)
NoStaleInterrupt == \A t \in Thread : result[t] = "interrupted" => ~clean[t]

(* While the interrupt of a handle stays on, none of its calls goes on     *)
(* waiting, whoever else uses the queue.                                   *)
InterruptEndsWait ==
  \A t \in Interruptible :
    (interrupting[t] /\ pc[t] # "idle") ~> (pc[t] = "idle" \/ ~interrupting[t])

(* A thread does not sleep on while the queue is ready for it: a message,  *)
(* or room, wakes it, or another thread takes it first.  (Threads that     *)
(* only wait and take nothing may use a wake-up that another one needed:   *)
(* they do not share a direction with others here.)                        *)
NoLostWakeup ==
  \A t \in Thread : []<>~(pc[t] = "asleep" /\ Ready(t))

(* Persistent_mq_handle: timed_send() blocks until the transfer, an        *)
(* interrupt, an error, or "the specified time passes, whichever happens   *)
(* first": no thread sleeps on in a timed operation whose time is up.      *)
Overdue(t) == op[t] \in TimedOps /\ pc[t] = "asleep" /\ spent[t] >= Timeout
TimedWaitEnds == \A t \in Timers : []<>~Overdue(t)
TimedBipcWaitEnds == \A t \in Timers : []<>~(kind = "bipc" /\ Overdue(t))
=============================================================================
