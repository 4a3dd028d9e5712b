---------------------------- MODULE PosixMqHandle ----------------------------
(***************************************************************************)
(* Posix_mq_handle: the queue is the kernel's and has a descriptor, always *)
(* non-blocking; a wait is an epoll_wait() on that descriptor and on the   *)
(* read end of a pipe, in which a byte lies while the interrupt is on.     *)
(* The flag is only a guard for the two calls of the interrupting thread.  *)
(***************************************************************************)
EXTENDS MqHandle

VARIABLES
  bytes,     \* in the pipe m_interrupter_snd or _rcv of each handle
  control    \* the interrupting thread is between the flag and the pipe

posixVars == <<bytes, control>>

PosixInit ==
  /\ bytes = [t \in Thread |-> 0]
  /\ control = [t \in Thread |-> "none"]

Calm(t) == ~interrupting[t] /\ control[t] = "none"

PosixBegin(t) ==
  /\ kind = "posix"
  /\ \E o \in OpsOf(t) : Begin(t, o, Calm(t))
  /\ UNCHANGED <<kind, depth, interrupting, posixVars>>

(* One mq_send() of try_send(), send() or timed_send().                    *)
PosixTrySend(t) ==
  /\ kind = "posix" /\ t \in Sender /\ pc[t] = "try"
  /\ IF Ready(t) THEN Transferred(t) /\ Finish(t, "ok")
                 ELSE WouldBlock(t) /\ UNCHANGED depth
  /\ UNCHANGED <<kind, interrupting, posixVars>>

(* One mq_receive() of try_receive(), receive() or timed_receive().        *)
PosixTryReceive(t) ==
  /\ kind = "posix" /\ t \in Receiver /\ pc[t] = "try"
  /\ IF Ready(t) THEN Transferred(t) /\ Finish(t, "ok")
                 ELSE WouldBlock(t) /\ UNCHANGED depth
  /\ UNCHANGED <<kind, interrupting, posixVars>>

(* wait_impl(): a time is given to epoll_wait() in milliseconds, none as   *)
(* -1; which it takes any negative number for.                             *)
EpollDeadline(t) ==
  CASE op[t] = "poll" -> spent[t]
    [] op[t] \in TimedOps /\ left[t] >= 0 -> TimeUp(t)
    [] OTHER -> Never

PosixWaitBegins(t) ==
  /\ kind = "posix" /\ pc[t] = "wait"
  /\ Sleep(t, EpollDeadline(t))
  /\ UNCHANGED <<kind, depth, interrupting, posixVars>>

(* epoll_wait() is asked for one event.  Where the queue is ready and the  *)
(* interrupt on, it gives either.                                          *)
PosixWaitReady(t) ==
  /\ kind = "posix" /\ pc[t] = "asleep" /\ Ready(t)
  /\ Proceed(t)
  /\ UNCHANGED <<kind, depth, interrupting, posixVars>>

PosixWaitInterrupted(t) ==
  /\ kind = "posix" /\ pc[t] = "asleep" /\ bytes[t] > 0
  /\ Finish(t, "interrupted")
  /\ UNCHANGED <<kind, depth, interrupting, posixVars>>

PosixWaitTimesOut(t) ==
  /\ kind = "posix" /\ pc[t] = "asleep"
  /\ deadline[t] # Never /\ spent[t] >= deadline[t]
  /\ ~Ready(t) /\ bytes[t] = 0
  /\ Finish(t, "timeout")
  /\ UNCHANGED <<kind, depth, interrupting, posixVars>>

-----------------------------------------------------------------------------
(* interrupt_*() and allow_*(): the flag, then the pipe.                   *)

PosixInterrupt(t) ==
  /\ kind = "posix" /\ control[t] = "none" /\ ~interrupting[t]
  /\ interrupting' = [interrupting EXCEPT ![t] = TRUE]
  /\ control' = [control EXCEPT ![t] = "produce"]
  /\ MarkUnclean(t)
  /\ UNCHANGED <<kind, depth, op, pc, result, timeVars, bytes>>

PosixAllow(t) ==
  /\ kind = "posix" /\ control[t] = "none" /\ interrupting[t]
  /\ interrupting' = [interrupting EXCEPT ![t] = FALSE]
  /\ control' = [control EXCEPT ![t] = "consume"]
  /\ UNCHANGED <<kind, depth, callVars, bytes>>

LeaveByte(t) == UNCHANGED bytes   \* mutant
TakeByte(t) == bytes' = [bytes EXCEPT ![t] = @ - 1]

PosixPipe(t) ==
  /\ \/ control[t] = "produce" /\ bytes' = [bytes EXCEPT ![t] = @ + 1]
     \/ control[t] = "consume" /\ TakeByte(t)
  /\ control' = [control EXCEPT ![t] = "none"]
  /\ UNCHANGED handleVars

PosixThread(t) ==
  \/ PosixTrySend(t) \/ PosixTryReceive(t) \/ PosixWaitBegins(t) \/ PosixWaitReady(t)
  \/ PosixWaitInterrupted(t) \/ PosixWaitTimesOut(t)
=============================================================================
