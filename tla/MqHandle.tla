------------------------------ MODULE MqHandle ------------------------------
(***************************************************************************)
(* What the two classes that implement the Persistent_mq_handle concept    *)
(* have in common: a bounded queue that lives in the kernel or in shared   *)
(* memory; threads, each with a handle of its own, that send or receive,   *)
(* wait until they could, or only look; and, for each handle, another      *)
(* thread that may interrupt its waits and allow them again.               *)
(*                                                                         *)
(* Only the number of messages matters here: what a message holds is the   *)
(* business of the streams (MqStreamSnd, MqStreamRcv).                     *)
(*                                                                         *)
(* A blocking or timed transfer tries, waits and tries again, as another   *)
(* thread may have been faster.  Time is counted from the start of a call. *)
(* A transfer whose arguments are refused (a message or buffer of the      *)
(* wrong size) returns before it looks at the queue: that is no step.      *)
(***************************************************************************)
EXTENDS Integers, FiniteSets

CONSTANTS
  Sender, Receiver,  \* the threads that transfer; each owns one handle
  Waiters,           \* of those, the ones that use the wait operations too
  Timers,            \* and the ones that use the timed operations
  Capacity,          \* max_n_msg: how many messages the queue takes
  Timeout,           \* timeout_from_now, as passed to the timed operations
  MaxTime            \* bound: how long after its start a call is followed

ASSUME MqHandleAssumption ==
  /\ Sender \cap Receiver = {} /\ IsFiniteSet(Sender \cup Receiver)
  /\ Waiters \subseteq Sender \cup Receiver
  /\ Timers \subseteq Sender \cup Receiver
  /\ Capacity \in Nat \ {0} /\ Timeout \in Nat /\ MaxTime \in Nat

Thread == Sender \cup Receiver

VARIABLES
  kind,          \* which class: "posix" or "bipc"
  depth,         \* messages in the queue
  op,            \* the operation of each thread
  pc,            \* where it is: idle, try, wait, asleep, woken, notify
  result,        \* what the last operation returned
  interrupting,  \* m_interrupting_snd or _rcv of its handle
  clean,         \* history: no interrupt was on since the call began
  spent,         \* time since a timed call began
  left,          \* timeout_from_now, a local variable that counts down
  after,         \* after - now, two more
  deadline       \* when the wait under way ends by itself

timeVars == <<spent, left, after, deadline>>
callVars == <<op, pc, result, clean, timeVars>>
handleVars == <<kind, depth, callVars, interrupting>>

Never == MaxTime + 1

TransferOps == {"try", "transfer", "timed"}
WaitOps == {"poll", "wait", "timedWait"}
TimedOps == {"timed", "timedWait"}

MqHandleInit ==
  /\ depth = 0
  /\ op = [t \in Thread |-> "none"] /\ pc = [t \in Thread |-> "idle"]
  /\ result = [t \in Thread |-> "none"]
  /\ interrupting = [t \in Thread |-> FALSE]
  /\ clean = [t \in Thread |-> TRUE]
  /\ spent = [t \in Thread |-> 0] /\ left = [t \in Thread |-> 0]
  /\ after = [t \in Thread |-> 0] /\ deadline = [t \in Thread |-> Never]

-----------------------------------------------------------------------------
(* The queue (external).                                                   *)
Ready(t) == IF t \in Sender THEN depth < Capacity ELSE depth > 0
Transferred(t) == depth' = IF t \in Sender THEN depth + 1 ELSE depth - 1

-----------------------------------------------------------------------------
(* Calls.                                                                  *)

OpsOf(t) ==
  {o \in TransferOps \cup WaitOps :
     /\ o \in WaitOps => t \in Waiters
     /\ o \in TimedOps => t \in Timers}

(* calm: no interrupt is on, nor is one being turned on or off.            *)
Begin(t, o, calm) ==
  /\ pc[t] = "idle"
  /\ op' = [op EXCEPT ![t] = o]
  /\ pc' = [pc EXCEPT ![t] = IF o \in TransferOps THEN "try" ELSE "wait"]
  /\ result' = [result EXCEPT ![t] = "none"]
  /\ clean' = [clean EXCEPT ![t] = calm]
  /\ left' = [left EXCEPT ![t] = IF o \in TimedOps THEN Timeout ELSE 0]
  /\ UNCHANGED <<spent, after, deadline>>

(* The call returns r; its local variables are gone.                       *)
Finish(t, r) ==
  /\ op' = [op EXCEPT ![t] = "none"]
  /\ pc' = [pc EXCEPT ![t] = "idle"]
  /\ result' = [result EXCEPT ![t] = r]
  /\ spent' = [spent EXCEPT ![t] = 0] /\ left' = [left EXCEPT ![t] = 0]
  /\ after' = [after EXCEPT ![t] = 0] /\ deadline' = [deadline EXCEPT ![t] = Never]
  /\ UNCHANGED clean

(* A transfer that would block returns so, or goes to wait for what is     *)
(* left of its time.  now stays what it was when the call began, so that   *)
(* the whole time since then is subtracted in each turn.  How far below    *)
(* zero it gets makes no difference.                                       *)
Floor(n) == IF n < 0 THEN -1 ELSE n

WouldBlock(t) ==
  IF op[t] = "try"
    THEN Finish(t, "wouldBlock")
    ELSE /\ pc' = [pc EXCEPT ![t] = "wait"]
         /\ left' = [left EXCEPT ![t] = Floor(@ - after[t])]
         /\ UNCHANGED <<op, result, clean, spent, after, deadline>>

(* A wait that ended well: its caller returns, or tries again.             *)
Proceed(t) ==
  IF op[t] \in WaitOps
    THEN Finish(t, "ok")
    ELSE /\ pc' = [pc EXCEPT ![t] = "try"]
         /\ after' = [after EXCEPT ![t] = spent[t]]
         /\ deadline' = [deadline EXCEPT ![t] = Never]
         /\ UNCHANGED <<op, result, clean, spent, left>>

(* Time stops at MaxTime; what should end later ends then.                 *)
TimeUp(t) == IF spent[t] + left[t] < MaxTime THEN spent[t] + left[t] ELSE MaxTime

(* The wait begins, to end at time d at the latest.                        *)
Sleep(t, d) ==
  /\ pc' = [pc EXCEPT ![t] = "asleep"]
  /\ deadline' = [deadline EXCEPT ![t] = d]
  /\ UNCHANGED <<op, result, clean, spent, left, after>>

Tick(t) ==
  /\ op[t] \in TimedOps /\ spent[t] < MaxTime
  /\ spent' = [spent EXCEPT ![t] = @ + 1]
  /\ UNCHANGED <<kind, depth, op, pc, result, clean, left, after, deadline, interrupting>>

MarkUnclean(t) == clean' = [clean EXCEPT ![t] = FALSE]
=============================================================================
