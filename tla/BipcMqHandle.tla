---------------------------- MODULE BipcMqHandle ----------------------------
(***************************************************************************)
(* Bipc_mq_handle: a bipc::message_queue in shared memory, with a mutex, a *)
(* condition variable and a count of blocked threads for each direction.   *)
(* Boost's code transfers (external), and notifies one thread of the other *)
(* direction, after unlocking, if any was blocked; the class's wait_impl() *)
(* waits as that code does, with the same count and condition variable.    *)
(* A step runs with the mutex locked, or sleeps.                           *)
(***************************************************************************)
EXTENDS MqHandle

VARIABLE blocked   \* m_blocked_senders and m_blocked_receivers of the queue

bipcFrame == <<kind, interrupting>>

BipcInit == blocked = [send |-> 0, receive |-> 0]

Direction(t) == IF t \in Sender THEN "send" ELSE "receive"
Opposite(t) == IF t \in Sender THEN "receive" ELSE "send"
SameSide(t) == IF t \in Sender THEN Sender ELSE Receiver
OtherSide(t) == Thread \ SameSide(t)

BipcBegin(t) ==
  /\ kind = "bipc"
  /\ \E o \in OpsOf(t) : Begin(t, o, ~interrupting[t])
  /\ UNCHANGED <<bipcFrame, depth, blocked>>

(* message_queue::try_send() and try_receive() (external).                 *)
BipcTransfer(t) ==
  /\ Transferred(t)
  /\ IF blocked[Opposite(t)] = 0
       THEN Finish(t, "ok")
       ELSE /\ pc' = [pc EXCEPT ![t] = "notify"]
            /\ UNCHANGED <<op, result, clean, timeVars>>

BipcTrySend(t) ==
  /\ kind = "bipc" /\ t \in Sender /\ pc[t] = "try"
  /\ IF Ready(t) THEN BipcTransfer(t) ELSE WouldBlock(t) /\ UNCHANGED depth
  /\ UNCHANGED <<bipcFrame, blocked>>

BipcTryReceive(t) ==
  /\ kind = "bipc" /\ t \in Receiver /\ pc[t] = "try"
  /\ IF Ready(t) THEN BipcTransfer(t) ELSE WouldBlock(t) /\ UNCHANGED depth
  /\ UNCHANGED <<bipcFrame, blocked>>

(* notify_one(), outside the mutex, and the call returns (external).       *)
BipcNotify(t) ==
  /\ kind = "bipc" /\ pc[t] = "notify"
  /\ LET asleep == {u \in OtherSide(t) : pc[u] = "asleep"}
     IN \E woken \in IF asleep = {} THEN {{}} ELSE {{u} : u \in asleep} :
          pc' = [u \in Thread |-> CASE u = t -> "idle"
                                    [] u \in woken -> "woken"
                                    [] OTHER -> pc[u]]
  /\ op' = [op EXCEPT ![t] = "none"] /\ result' = [result EXCEPT ![t] = "ok"]
  /\ spent' = [spent EXCEPT ![t] = 0] /\ left' = [left EXCEPT ![t] = 0]
  /\ after' = [after EXCEPT ![t] = 0] /\ deadline' = [deadline EXCEPT ![t] = Never]
  /\ UNCHANGED <<bipcFrame, depth, clean, blocked>>

BlocksUncounted(t) == UNCHANGED blocked   \* mutant
Blocks(t) == blocked' = [blocked EXCEPT ![Direction(t)] = @ + 1]
Unblocks(t) == blocked' = [blocked EXCEPT ![Direction(t)] = @ - 1]

(* wait_impl(), until it sleeps or need not.                               *)
BipcWaitBegins(t) ==
  /\ kind = "bipc" /\ pc[t] = "wait"
  /\ CASE interrupting[t] -> Finish(t, "interrupted") /\ UNCHANGED blocked
       [] ~interrupting[t] /\ Ready(t) -> Proceed(t) /\ UNCHANGED blocked
       [] ~interrupting[t] /\ ~Ready(t) /\ op[t] = "poll" ->
            Finish(t, "timeout") /\ UNCHANGED blocked
       [] OTHER ->
            /\ Blocks(t)
            /\ Sleep(t, IF op[t] \in TimedOps THEN TimeUp(t) ELSE Never)
  /\ UNCHANGED <<bipcFrame, depth>>

InterruptedAwake(t) == Finish(t, "interrupted") /\ Unblocks(t)

(* cond.wait() or timed_wait() returns: the thread was notified.           *)
BipcWakes(t) ==
  /\ kind = "bipc" /\ pc[t] = "woken"
  /\ IF interrupting[t]
       THEN InterruptedAwake(t)
       ELSE IF Ready(t)
         THEN Proceed(t) /\ Unblocks(t)
         ELSE Sleep(t, deadline[t]) /\ UNCHANGED blocked
  /\ UNCHANGED <<bipcFrame, depth>>

(* timed_wait() returns false; the queue may be ready all the same.        *)
SleepsAgain(t) == Sleep(t, Never) /\ UNCHANGED blocked   \* mutant
GivesUp(t) == Finish(t, "timeout") /\ Unblocks(t)

BipcTimesOut(t) ==
  /\ kind = "bipc" /\ pc[t] \in {"asleep", "woken"}
  /\ deadline[t] # Never /\ spent[t] >= deadline[t]
  /\ CASE interrupting[t] -> InterruptedAwake(t)
       [] ~interrupting[t] /\ Ready(t) -> Proceed(t) /\ Unblocks(t)
       [] OTHER -> GivesUp(t)
  /\ UNCHANGED <<bipcFrame, depth>>

-----------------------------------------------------------------------------
(* interrupt_allow_impl(), with the mutex locked.                          *)

WakeOne(t) ==   \* mutant
  LET asleep == {u \in SameSide(t) : pc[u] = "asleep"}
  IN \E woken \in IF asleep = {} THEN {{}} ELSE {{u} : u \in asleep} :
       pc' = [u \in Thread |-> IF u \in woken THEN "woken" ELSE pc[u]]

(* notify_all(): every handle shares the condition variable.               *)
WakeAll(t) ==
  pc' = [u \in Thread |-> IF u \in SameSide(t) /\ pc[u] = "asleep" THEN "woken" ELSE pc[u]]

BipcInterrupt(t) ==
  /\ kind = "bipc" /\ ~interrupting[t]
  /\ interrupting' = [interrupting EXCEPT ![t] = TRUE]
  /\ WakeAll(t)
  /\ MarkUnclean(t)
  /\ UNCHANGED <<kind, depth, op, result, timeVars, blocked>>

BipcAllow(t) ==
  /\ kind = "bipc" /\ interrupting[t]
  /\ interrupting' = [interrupting EXCEPT ![t] = FALSE]
  /\ UNCHANGED <<kind, depth, callVars, blocked>>

BipcThread(t) ==
  \/ BipcTrySend(t) \/ BipcTryReceive(t) \/ BipcNotify(t)
  \/ BipcWaitBegins(t) \/ BipcWakes(t) \/ BipcTimesOut(t)

=============================================================================
