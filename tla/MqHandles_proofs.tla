-------------------------- MODULE MqHandles_proofs --------------------------
(***************************************************************************)
(* For any threads, capacity and times: an interrupt that is over is over; *)
(* the queue is never overfilled nor taken from when empty; and the shared *)
(* counts of blocked threads are true, on which notifications depend.      *)
(*                                                                         *)
(* A call is told of an interrupt by the flag of its handle (Bipc) or by   *)
(* the byte in its pipe (Posix).  The invariant says when the byte is      *)
(* there: as long as the flag is on, but late by the two steps of the      *)
(* interrupting thread; and that a call that is clean began outside both.  *)
(***************************************************************************)
EXTENDS MqHandles, FiniteSetTheorems, TLAPS

Ops == {"none"} \cup TransferOps \cup WaitOps
Points == {"idle", "try", "wait", "asleep", "woken", "notify"}
Results == {"none", "ok", "wouldBlock", "interrupted", "timeout"}

CallTypes ==
  /\ op \in [Thread -> Ops]
  /\ pc \in [Thread -> Points]
  /\ result \in [Thread -> Results]
  /\ clean \in [Thread -> BOOLEAN]
  /\ interrupting \in [Thread -> BOOLEAN]

TimeTypes ==
  /\ spent \in [Thread -> 0 .. MaxTime]
  /\ left \in [Thread -> -1 .. Timeout]
  /\ after \in [Thread -> 0 .. MaxTime]
  /\ deadline \in [Thread -> 0 .. Never]

(* Time that was subtracted has passed; a call is out of time after some.   *)
TimeControl == \A t \in Thread : after[t] <= spent[t] /\ (left[t] < 0 => spent[t] > 0)

Local == CallTypes /\ TimeTypes /\ TimeControl

ControlTypes ==
  /\ bytes \in [Thread -> 0 .. 1]
  /\ control \in [Thread -> {"none", "produce", "consume"}]

HandleTypes ==
  /\ kind \in {"posix", "bipc"}
  /\ depth \in 0 .. Capacity
  /\ Local /\ ControlTypes

(* The byte is there from the second step of interrupt_*() to the second   *)
(* step of allow_*(); a queue of the other kind has none.                  *)
ByteControl ==
  \A t \in Thread :
    /\ control[t] # "none" \/ bytes[t] = 1 => kind = "posix"
    /\ control[t] = "produce" => interrupting[t]
    /\ control[t] = "consume" => ~interrupting[t]
    /\ kind = "posix" =>
         (bytes[t] = 1 <=> control[t] = "consume" \/ (interrupting[t] /\ control[t] = "none"))

(* A clean call began when neither was going on, and neither has since;    *)
(* the pipe has nothing for it.                                            *)
CleanControl == \A t \in Thread : clean[t] => Calm(t)

InterruptInv == HandleTypes /\ ByteControl /\ CleanControl /\ NoStaleInterrupt

(* Who is in cond.wait() or timed_wait(), asleep or notified.              *)
Waits == {"asleep", "woken"}
Waiting(side) == {t \in side : pc[t] \in Waits}

BlockedTypes == blocked \in [{"send", "receive"} -> Int]

(* m_blocked_senders and m_blocked_receivers count exactly these, so that  *)
(* no transfer leaves out the notification that one of them sleeps for.    *)
SleepersCounted ==
  kind = "bipc" =>
    /\ blocked["send"] = Cardinality(Waiting(Sender))
    /\ blocked["receive"] = Cardinality(Waiting(Receiver))

CountInv == InterruptInv /\ BlockedTypes /\ SleepersCounted

-----------------------------------------------------------------------------
(* The ways a call goes on.                                                *)

LEMMA BeginLocal ==
  ASSUME Local, NEW t \in Thread, NEW o \in OpsOf(t), NEW calm \in BOOLEAN,
         Begin(t, o, calm), UNCHANGED interrupting
  PROVE  Local'
<1> USE DEF Begin, Local, CallTypes, TimeTypes, TimeControl, Ops
<1>1. o \in Ops
  BY DEF OpsOf
<1>2. CallTypes'
  BY <1>1 DEF Points, Results
<1>3. Timeout \in Nat /\ left' \in [Thread -> -1 .. Timeout]
  BY MqHandleAssumption
<1>4. TimeControl'
  BY <1>3
<1> QED
  BY <1>2, <1>3, <1>4

LEMMA FinishLocal ==
  ASSUME Local, NEW t \in Thread, NEW r \in Results, Finish(t, r), UNCHANGED interrupting
  PROVE  Local'
<1> USE MqHandleAssumption DEF Finish, Local, CallTypes, TimeTypes, TimeControl
<1>1. CallTypes'
  BY DEF Points, Ops
<1>2. TimeTypes'
  BY DEF Never
<1>3. TimeControl'
  OBVIOUS
<1> QED
  BY <1>1, <1>2, <1>3

LEMMA WouldBlockLocal ==
  ASSUME Local, NEW t \in Thread, WouldBlock(t), UNCHANGED interrupting
  PROVE  Local'
<1>1. CASE op[t] = "try"
  BY <1>1, FinishLocal DEF WouldBlock, Results
<1>2. CASE op[t] # "try"
  <2> USE MqHandleAssumption DEF Local, CallTypes, TimeTypes, TimeControl
  <2>1. /\ pc' = [pc EXCEPT ![t] = "wait"]
        /\ left' = [left EXCEPT ![t] = Floor(left[t] - after[t])]
        /\ UNCHANGED <<op, result, clean, spent, after, deadline>>
    BY <1>2 DEF WouldBlock
  <2>2. CallTypes'
    BY <2>1 DEF Points
  <2>3. left[t] \in -1 .. Timeout /\ after[t] \in 0 .. MaxTime
    OBVIOUS
  <2>4. Floor(left[t] - after[t]) \in -1 .. Timeout
    BY <2>3 DEF Floor
  <2>5. TimeTypes'
    BY <2>1, <2>4
  <2>6. left'[t] < 0 => spent[t] > 0
    BY <2>1, <2>3 DEF Floor
  <2>7. TimeControl'
    BY <2>1, <2>6
  <2> QED
    BY <2>2, <2>5, <2>7
<1> QED
  BY <1>1, <1>2

LEMMA ProceedLocal ==
  ASSUME Local, NEW t \in Thread, Proceed(t), UNCHANGED interrupting
  PROVE  Local'
<1>1. CASE op[t] \in WaitOps
  BY <1>1, FinishLocal DEF Proceed, Results
<1>2. CASE op[t] \notin WaitOps
  <2> USE MqHandleAssumption DEF Local, CallTypes, TimeTypes, TimeControl
  <2>1. /\ pc' = [pc EXCEPT ![t] = "try"]
        /\ after' = [after EXCEPT ![t] = spent[t]]
        /\ deadline' = [deadline EXCEPT ![t] = Never]
        /\ UNCHANGED <<op, result, clean, spent, left>>
    BY <1>2 DEF Proceed
  <2>2. CallTypes'
    BY <2>1 DEF Points
  <2>3. TimeTypes'
    BY <2>1 DEF Never
  <2>4. TimeControl'
    BY <2>1
  <2> QED
    BY <2>2, <2>3, <2>4
<1> QED
  BY <1>1, <1>2

LEMMA SleepLocal ==
  ASSUME Local, NEW t \in Thread, NEW d \in 0 .. Never, Sleep(t, d), UNCHANGED interrupting
  PROVE  Local'
BY DEF Sleep, Local, CallTypes, TimeTypes, TimeControl, Points

LEMMA TickLocal ==
  ASSUME Local, NEW t \in Thread, Tick(t)
  PROVE  Local'
<1> USE MqHandleAssumption DEF Tick, Local, CallTypes, TimeTypes, TimeControl
<1>1. CallTypes'
  OBVIOUS
<1>2. spent' \in [Thread -> 0 .. MaxTime]
  OBVIOUS
<1>3. TimeTypes'
  BY <1>2
<1>4. TimeControl'
  OBVIOUS
<1> QED
  BY <1>1, <1>3, <1>4

(* The time a wait is given.                                               *)
LEMMA DeadlineType ==
  ASSUME Local, NEW t \in Thread
  PROVE  /\ TimeUp(t) \in 0 .. Never /\ EpollDeadline(t) \in 0 .. Never
         /\ Never \in 0 .. Never /\ deadline[t] \in 0 .. Never
<1> USE MqHandleAssumption DEF Local, TimeTypes, TimeControl, Never
<1>1. /\ spent[t] \in 0 .. MaxTime /\ left[t] \in -1 .. Timeout
      /\ left[t] < 0 => spent[t] > 0
      /\ deadline[t] \in 0 .. Never
  OBVIOUS
<1>2. TimeUp(t) \in 0 .. Never
  BY <1>1 DEF TimeUp
<1> QED
  BY <1>1, <1>2 DEF EpollDeadline

-----------------------------------------------------------------------------
(* Interrupts.                                                             *)

(* What a step of a call does not do: turn an interrupt on or off, or tell *)
(* a clean call of one.                                                    *)
Quiet ==
  /\ UNCHANGED <<kind, interrupting, clean, bytes, control>>
  /\ \A t \in Thread : result'[t] = "interrupted" => result[t] = "interrupted" \/ ~clean[t]

LEMMA QuietKeeps ==
  ASSUME InterruptInv, Quiet, depth' \in 0 .. Capacity, Local'
  PROVE  InterruptInv'
<1> USE DEF InterruptInv, Quiet
<1>1. HandleTypes'
  BY DEF HandleTypes, ControlTypes
<1>2. ByteControl'
  BY DEF ByteControl
<1>3. CleanControl'
  BY DEF CleanControl, Calm
<1>4. NoStaleInterrupt'
  BY DEF NoStaleInterrupt
<1> QED
  BY <1>1, <1>2, <1>3, <1>4

(* A result other than "interrupted" harms nobody, nor does that one while *)
(* the interrupt is on.                                                    *)
LEMMA FinishQuiet ==
  ASSUME Local, NEW t \in Thread, NEW r \in Results, Finish(t, r),
         r = "interrupted" => ~clean[t],
         UNCHANGED <<kind, interrupting, bytes, control>>
  PROVE  Quiet
BY DEF Quiet, Finish, Local, CallTypes

LEMMA GoOnQuiet ==
  ASSUME Local, NEW t \in Thread,
         WouldBlock(t) \/ Proceed(t) \/ (\E d \in 0 .. Never : Sleep(t, d)),
         UNCHANGED <<kind, interrupting, bytes, control>>
  PROVE  Quiet
<1>1. ASSUME NEW r \in {"wouldBlock", "ok"}, Finish(t, r) PROVE Quiet
  BY <1>1, FinishQuiet DEF Results
<1>2. CASE UNCHANGED <<result, clean>>
  BY <1>2 DEF Quiet
<1> QED
  BY <1>1, <1>2 DEF WouldBlock, Proceed, Sleep

(* One message more, or one less, where there is room for it.              *)
LEMMA TransferredTypes ==
  ASSUME HandleTypes, NEW t \in Thread, Ready(t), Transferred(t)
  PROVE  depth' \in 0 .. Capacity
BY MqHandleAssumption DEF HandleTypes, Ready, Transferred

(* A call begins, and time passes.                                         *)
LEMMA BeginInterrupt ==
  ASSUME InterruptInv, NEW t \in Thread, Begins(t)
  PROVE  InterruptInv'
<1> USE DEF InterruptInv, HandleTypes, ControlTypes
<1>1. PICK o \in OpsOf(t), calm \in BOOLEAN :
        /\ Begin(t, o, calm) /\ (calm => Calm(t))
        /\ UNCHANGED <<kind, depth, interrupting, bytes, control>>
  <2>1. CASE OfPosix(PosixBegin(t))
    <3>1. PICK o \in OpsOf(t) : Begin(t, o, Calm(t))
      BY <2>1 DEF OfPosix, PosixBegin
    <3>2. Calm(t) \in BOOLEAN /\ UNCHANGED <<kind, depth, interrupting, bytes, control>>
      BY <2>1 DEF OfPosix, PosixBegin, posixVars, Calm
    <3> QED
      BY <3>1, <3>2
  <2>2. CASE OfBipc(BipcBegin(t))
    <3>1. PICK o \in OpsOf(t) : Begin(t, o, ~interrupting[t])
      BY <2>2 DEF OfBipc, BipcBegin
    <3>2. kind = "bipc" /\ UNCHANGED <<kind, depth, interrupting, bytes, control>>
      BY <2>2 DEF OfBipc, BipcBegin, bipcFrame, posixVars
    <3>3. control[t] = "none"
      BY <3>2 DEF ByteControl
    <3> QED
      BY <3>1, <3>2, <3>3 DEF Calm
  <2> QED
    BY <2>1, <2>2 DEF Begins
<1>2. Local'
  BY <1>1, BeginLocal
<1>3. HandleTypes' /\ ByteControl'
  BY <1>1, <1>2 DEF ByteControl
<1>4. /\ clean' = [clean EXCEPT ![t] = calm]
      /\ result' = [result EXCEPT ![t] = "none"]
  BY <1>1 DEF Begin
<1>5. CleanControl'
  BY <1>1, <1>4 DEF CleanControl, Calm, Local, CallTypes
<1>6. NoStaleInterrupt'
  BY <1>4 DEF NoStaleInterrupt, Local, CallTypes
<1> QED
  BY <1>3, <1>5, <1>6

LEMMA TickInterrupt ==
  ASSUME InterruptInv, NEW t \in Thread, TimePasses(t)
  PROVE  InterruptInv'
<1>1. Local'
  BY TickLocal DEF TimePasses, InterruptInv, HandleTypes
<1>2. Quiet /\ UNCHANGED depth
  BY DEF TimePasses, Tick, posixVars, Quiet
<1> QED
  BY <1>1, <1>2, QuietKeeps DEF InterruptInv, HandleTypes

(* A step of a call on a queue of the first kind; none of them is more     *)
(* than one way to go on.                                                  *)
LEMMA PosixInterruptStep ==
  ASSUME InterruptInv, NEW t \in Thread, OfPosix(PosixThread(t))
  PROVE  InterruptInv'
<1>1. kind = "posix" /\ UNCHANGED <<kind, interrupting, bytes, control>>
  BY DEF OfPosix, PosixThread, PosixTrySend, PosixTryReceive, PosixWaitBegins, PosixWaitReady,
         PosixWaitInterrupted, PosixWaitTimesOut, posixVars
<1>2. Local /\ depth \in 0 .. Capacity
  BY DEF InterruptInv, HandleTypes
<1>3. ASSUME NEW r \in Results, r = "interrupted" => ~clean[t], Finish(t, r),
             depth' \in 0 .. Capacity
      PROVE  InterruptInv'
  BY <1>1, <1>2, <1>3, FinishLocal, FinishQuiet, QuietKeeps
<1>4. CASE PosixTrySend(t) \/ PosixTryReceive(t)
  <2>1. CASE Ready(t) /\ Transferred(t) /\ Finish(t, "ok")
    BY <1>3, <2>1, TransferredTypes DEF Results, InterruptInv
  <2>2. CASE WouldBlock(t) /\ UNCHANGED depth
    BY <1>1, <1>2, <2>2, WouldBlockLocal, GoOnQuiet, QuietKeeps
  <2> QED
    BY <1>4, <2>1, <2>2 DEF PosixTrySend, PosixTryReceive
<1>5. CASE PosixWaitBegins(t)
  <2>1. Sleep(t, EpollDeadline(t)) /\ UNCHANGED depth
    BY <1>5 DEF PosixWaitBegins
  <2>2. EpollDeadline(t) \in 0 .. Never
    BY <1>2, DeadlineType
  <2> QED
    BY <1>1, <1>2, <2>1, <2>2, SleepLocal, GoOnQuiet, QuietKeeps
<1>6. CASE PosixWaitReady(t)
  <2>1. Proceed(t) /\ UNCHANGED depth
    BY <1>6 DEF PosixWaitReady
  <2> QED
    BY <1>1, <1>2, <2>1, ProceedLocal, GoOnQuiet, QuietKeeps
<1>7. CASE PosixWaitInterrupted(t)
  <2>1. bytes[t] > 0 /\ Finish(t, "interrupted") /\ UNCHANGED depth
    BY <1>7 DEF PosixWaitInterrupted
  <2>2. bytes[t] = 1
    BY <2>1 DEF InterruptInv, HandleTypes, ControlTypes
  <2>3. ~Calm(t)
    BY <1>1, <2>2 DEF InterruptInv, ByteControl, Calm
  <2>4. ~clean[t]
    BY <2>3 DEF InterruptInv, CleanControl
  <2> QED
    BY <1>2, <1>3, <2>1, <2>4 DEF Results
<1>8. CASE PosixWaitTimesOut(t)
  BY <1>2, <1>3, <1>8 DEF PosixWaitTimesOut, Results
<1> QED
  BY <1>4, <1>5, <1>6, <1>7, <1>8 DEF OfPosix, PosixThread

(* interrupt_*() or allow_*() of a handle of the first kind, in two steps. *)
LEMMA PosixControlStep ==
  ASSUME InterruptInv, NEW t \in Thread,
         OfPosix(PosixInterrupt(t) \/ PosixAllow(t) \/ PosixPipe(t))
  PROVE  InterruptInv'
<1> USE DEF InterruptInv, HandleTypes, Local, CallTypes, TimeTypes, TimeControl, ControlTypes
<1>1. CASE PosixInterrupt(t)
  <2>1. /\ kind = "posix" /\ control[t] = "none" /\ ~interrupting[t]
        /\ interrupting' = [interrupting EXCEPT ![t] = TRUE]
        /\ control' = [control EXCEPT ![t] = "produce"]
        /\ clean' = [clean EXCEPT ![t] = FALSE]
        /\ UNCHANGED <<kind, depth, op, pc, result, spent, left, after, deadline, bytes>>
    BY <1>1 DEF PosixInterrupt, MarkUnclean, timeVars
  <2>2. HandleTypes'
    BY <2>1
  <2>3. ByteControl'
    BY <2>1 DEF ByteControl
  <2>4. CleanControl' /\ NoStaleInterrupt'
    BY <2>1 DEF CleanControl, NoStaleInterrupt, Calm
  <2> QED
    BY <2>2, <2>3, <2>4
<1>2. CASE PosixAllow(t)
  <2>1. /\ kind = "posix" /\ control[t] = "none" /\ interrupting[t]
        /\ interrupting' = [interrupting EXCEPT ![t] = FALSE]
        /\ control' = [control EXCEPT ![t] = "consume"]
        /\ UNCHANGED <<kind, depth, op, pc, result, clean, spent, left, after, deadline, bytes>>
    BY <1>2 DEF PosixAllow, callVars, timeVars
  <2>2. HandleTypes'
    BY <2>1
  <2>3. ByteControl'
    BY <2>1 DEF ByteControl
  <2>4. ~clean[t]
    BY <2>1 DEF CleanControl, Calm
  <2>5. CleanControl' /\ NoStaleInterrupt'
    BY <2>1, <2>4 DEF CleanControl, NoStaleInterrupt, Calm
  <2> QED
    BY <2>2, <2>3, <2>5
<1>3. CASE PosixPipe(t)
  <2>1. /\ control' = [control EXCEPT ![t] = "none"]
        /\ UNCHANGED <<kind, depth, op, pc, result, clean, spent, left, after, deadline,
                       interrupting>>
    BY <1>3 DEF PosixPipe, handleVars, callVars, timeVars
  <2>2. \/ control[t] = "produce" /\ interrupting[t] /\ bytes[t] = 0
           /\ bytes' = [bytes EXCEPT ![t] = 1]
        \/ control[t] = "consume" /\ ~interrupting[t] /\ bytes[t] = 1
           /\ bytes' = [bytes EXCEPT ![t] = 0]
    BY <1>3 DEF PosixPipe, TakeByte, ByteControl
  <2>3. kind = "posix"
    BY <2>2 DEF ByteControl
  <2>4. HandleTypes'
    BY <2>1, <2>2
  <2>5. ByteControl'
    BY <2>1, <2>2, <2>3 DEF ByteControl
  <2>6. CleanControl'
    BY <2>1 DEF CleanControl, Calm
  <2>7. NoStaleInterrupt'
    BY <2>1 DEF NoStaleInterrupt
  <2> QED
    BY <2>4, <2>5, <2>6, <2>7
<1> QED
  BY <1>1, <1>2, <1>3 DEF OfPosix

(* A step of a call on a queue of the second kind.                         *)
LEMMA BipcInterruptStep ==
  ASSUME InterruptInv, NEW t \in Thread, OfBipc(BipcThread(t))
  PROVE  InterruptInv'
<1>1. kind = "bipc" /\ UNCHANGED <<kind, interrupting, bytes, control>>
  BY DEF OfBipc, BipcThread, BipcTrySend, BipcTryReceive, BipcNotify, BipcWaitBegins, BipcWakes,
         BipcTimesOut, bipcFrame, posixVars
<1>2. Local /\ depth \in 0 .. Capacity
  BY DEF InterruptInv, HandleTypes
<1>3. ASSUME NEW r \in Results, r = "interrupted" => interrupting[t], Finish(t, r),
             depth' \in 0 .. Capacity
      PROVE  InterruptInv'
  <2>1. r = "interrupted" => ~clean[t]
    BY <1>3 DEF InterruptInv, CleanControl, Calm
  <2> QED
    BY <1>1, <1>2, <1>3, <2>1, FinishLocal, FinishQuiet, QuietKeeps
<1>4. ASSUME NEW d \in 0 .. Never, Proceed(t) \/ Sleep(t, d), UNCHANGED depth
      PROVE  InterruptInv'
  BY <1>1, <1>2, <1>4, ProceedLocal, SleepLocal, GoOnQuiet, QuietKeeps
<1>5. CASE BipcTrySend(t) \/ BipcTryReceive(t)
  <2>1. CASE Ready(t) /\ BipcTransfer(t)
    <3>1. depth' \in 0 .. Capacity
      BY <2>1, TransferredTypes DEF BipcTransfer, InterruptInv
    <3>2. CASE Finish(t, "ok")
      BY <1>3, <3>1, <3>2 DEF Results
    <3>3. CASE pc' = [pc EXCEPT ![t] = "notify"] /\ UNCHANGED <<op, result, clean, timeVars>>
      <4>1. Local'
        BY <1>1, <1>2, <3>3 DEF Local, CallTypes, TimeTypes, TimeControl, timeVars, Points
      <4>2. Quiet
        BY <1>1, <3>3 DEF Quiet
      <4> QED
        BY <3>1, <4>1, <4>2, QuietKeeps
    <3> QED
      BY <2>1, <3>2, <3>3 DEF BipcTransfer
  <2>2. CASE WouldBlock(t) /\ UNCHANGED depth
    BY <1>1, <1>2, <2>2, WouldBlockLocal, GoOnQuiet, QuietKeeps
  <2> QED
    BY <1>5, <2>1, <2>2 DEF BipcTrySend, BipcTryReceive
<1>6. CASE BipcNotify(t)
  <2>1. pc' \in [Thread -> Points]
    BY <1>2, <1>6 DEF BipcNotify, Local, CallTypes, Points
  <2>2. /\ op' = [op EXCEPT ![t] = "none"] /\ result' = [result EXCEPT ![t] = "ok"]
        /\ spent' = [spent EXCEPT ![t] = 0] /\ left' = [left EXCEPT ![t] = 0]
        /\ after' = [after EXCEPT ![t] = 0] /\ deadline' = [deadline EXCEPT ![t] = Never]
        /\ UNCHANGED <<clean, depth>>
    BY <1>6 DEF BipcNotify
  <2>3. CallTypes'
    BY <1>1, <1>2, <2>1, <2>2 DEF Local, CallTypes, Ops, Results
  <2>4. TimeTypes'
    BY <1>2, <2>2, MqHandleAssumption DEF Local, TimeTypes, Never
  <2>5. TimeControl'
    BY <1>2, <2>2 DEF Local, TimeTypes, TimeControl
  <2>6. Quiet
    BY <1>1, <1>2, <2>2 DEF Quiet, Local, CallTypes
  <2> QED
    BY <1>2, <2>2, <2>3, <2>4, <2>5, <2>6, QuietKeeps DEF Local
<1>7. CASE BipcWaitBegins(t)
  <2>1. UNCHANGED depth
    BY <1>7 DEF BipcWaitBegins
  <2>2. \/ interrupting[t] /\ Finish(t, "interrupted")
        \/ Proceed(t)
        \/ Finish(t, "timeout")
        \/ Sleep(t, IF op[t] \in TimedOps THEN TimeUp(t) ELSE Never)
    BY <1>7 DEF BipcWaitBegins
  <2>3. (IF op[t] \in TimedOps THEN TimeUp(t) ELSE Never) \in 0 .. Never
    BY <1>2, DeadlineType
  <2> QED
    BY <1>2, <1>3, <1>4, <2>1, <2>2, <2>3 DEF Results
<1>8. CASE BipcWakes(t)
  <2>1. UNCHANGED depth
    BY <1>8 DEF BipcWakes
  <2>2. \/ interrupting[t] /\ Finish(t, "interrupted")
        \/ Proceed(t)
        \/ Sleep(t, deadline[t])
    BY <1>8 DEF BipcWakes, InterruptedAwake
  <2>3. deadline[t] \in 0 .. Never
    BY <1>2, DeadlineType
  <2> QED
    BY <1>2, <1>3, <1>4, <2>1, <2>2, <2>3 DEF Results
<1>9. CASE BipcTimesOut(t)
  <2>1. UNCHANGED depth
    BY <1>9 DEF BipcTimesOut
  <2>2. \/ interrupting[t] /\ Finish(t, "interrupted")
        \/ Proceed(t)
        \/ Finish(t, "timeout")
    BY <1>9 DEF BipcTimesOut, InterruptedAwake, GivesUp
  <2>3. Never \in 0 .. Never
    BY <1>2, DeadlineType
  <2> QED
    BY <1>2, <1>3, <1>4, <2>1, <2>2, <2>3 DEF Results
<1> QED
  BY <1>5, <1>6, <1>7, <1>8, <1>9 DEF OfBipc, BipcThread

(* interrupt_allow_impl() of a handle of the second kind.                  *)
LEMMA BipcControlStep ==
  ASSUME InterruptInv, NEW t \in Thread, OfBipc(BipcInterrupt(t) \/ BipcAllow(t))
  PROVE  InterruptInv'
<1> USE DEF InterruptInv, HandleTypes, Local, CallTypes, TimeTypes, TimeControl, ControlTypes
<1>1. CASE BipcInterrupt(t)
  <2>1. /\ kind = "bipc" /\ ~interrupting[t]
        /\ interrupting' = [interrupting EXCEPT ![t] = TRUE]
        /\ clean' = [clean EXCEPT ![t] = FALSE]
        /\ UNCHANGED <<kind, depth, op, result, spent, left, after, deadline, bytes, control>>
    BY <1>1 DEF OfBipc, BipcInterrupt, MarkUnclean, timeVars, posixVars
  <2>2. pc' \in [Thread -> Points]
    BY <1>1 DEF BipcInterrupt, WakeAll, Points
  <2>3. HandleTypes'
    BY <2>1, <2>2
  <2>4. ByteControl'
    BY <2>1 DEF ByteControl
  <2>5. CleanControl' /\ NoStaleInterrupt'
    BY <2>1 DEF CleanControl, NoStaleInterrupt, Calm
  <2> QED
    BY <2>3, <2>4, <2>5
<1>2. CASE BipcAllow(t)
  <2>1. /\ kind = "bipc" /\ interrupting[t]
        /\ interrupting' = [interrupting EXCEPT ![t] = FALSE]
        /\ UNCHANGED <<kind, depth, op, pc, result, clean, spent, left, after, deadline,
                       bytes, control>>
    BY <1>2 DEF OfBipc, BipcAllow, callVars, timeVars, posixVars
  <2>2. HandleTypes'
    BY <2>1
  <2>3. ByteControl'
    BY <2>1 DEF ByteControl
  <2>4. ~clean[t]
    BY <2>1 DEF CleanControl, Calm
  <2>5. CleanControl' /\ NoStaleInterrupt'
    BY <2>1, <2>4 DEF CleanControl, NoStaleInterrupt, Calm
  <2> QED
    BY <2>2, <2>3, <2>5
<1> QED
  BY <1>1, <1>2 DEF OfBipc

(* At first no call, and no interrupt.                                     *)
LEMMA InitInterrupt == MqInit => InterruptInv
<1> SUFFICES ASSUME MqInit PROVE InterruptInv
  OBVIOUS
<1> USE MqHandleAssumption DEF MqInit, MqHandleInit, PosixInit, Never
<1>1. HandleTypes
  BY DEF HandleTypes, Local, CallTypes, TimeTypes, TimeControl, ControlTypes, Ops, Points, Results
<1>2. ByteControl
  BY DEF ByteControl
<1>3. CleanControl /\ NoStaleInterrupt
  BY DEF CleanControl, NoStaleInterrupt, Calm
<1> QED
  BY <1>1, <1>2, <1>3 DEF InterruptInv

(* The invariant is inductive.                                             *)
LEMMA NextInterrupt == InterruptInv /\ [MqNext]_mqVars => InterruptInv'
<1> SUFFICES ASSUME InterruptInv, [MqNext]_mqVars PROVE InterruptInv'
  OBVIOUS
<1>1. ASSUME NEW t \in Thread, Begins(t) \/ Runs(t) \/ TimePasses(t) \/ Controls(t)
      PROVE  InterruptInv'
  BY <1>1, BeginInterrupt, TickInterrupt, PosixInterruptStep, PosixControlStep, BipcInterruptStep,
     BipcControlStep DEF Runs, Controls
<1>2. CASE UNCHANGED mqVars
  BY <1>2 DEF mqVars, handleVars, callVars, timeVars, posixVars, InterruptInv, HandleTypes, Local,
              CallTypes, TimeTypes, TimeControl, ControlTypes, ByteControl, CleanControl,
              NoStaleInterrupt, Calm
<1> QED
  BY <1>1, <1>2 DEF MqNext

(* The queue holds 0 to max_n_msg messages, a handle's pipe one byte at    *)
(* most, whichever threads transfer, wait, interrupt and allow.            *)
THEOREM HandleTypeCorrectness == MqSpec => []HandleTypes
<1>1. InterruptInv => HandleTypes
  BY DEF InterruptInv
<1> QED
  BY <1>1, InitInterrupt, NextInterrupt, PTL DEF MqSpec

(* A call that begins after allow_*() has returned, before interrupt_*()   *)
(* begins, is not told of an interrupt: no flag and no byte stays behind.  *)
THEOREM InterruptOver == MqSpec => []NoStaleInterrupt
<1>1. InterruptInv => NoStaleInterrupt
  BY DEF InterruptInv
<1> QED
  BY <1>1, InitInterrupt, NextInterrupt, PTL DEF MqSpec

-----------------------------------------------------------------------------
(* The count of blocked threads.                                           *)

LEMMA WaitingFinite ==
  ASSUME NEW side \in {Sender, Receiver}
  PROVE  IsFiniteSet(Waiting(side)) /\ Cardinality(Waiting(side)) \in Nat
<1>1. Waiting(side) \subseteq Sender \cup Receiver
  BY DEF Waiting
<1>2. IsFiniteSet(Waiting(side))
  BY <1>1, MqHandleAssumption, FS_Subset
<1> QED
  BY <1>2, FS_CardinalityType

(* Nobody begins or ends a wait.                                           *)
LEMMA StayCounted ==
  ASSUME SleepersCounted, UNCHANGED <<kind, blocked>>,
         \A u \in Thread : pc'[u] \in Waits <=> pc[u] \in Waits
  PROVE  SleepersCounted'
<1>1. Waiting(Sender)' = Waiting(Sender) /\ Waiting(Receiver)' = Waiting(Receiver)
  BY DEF Waiting, Waits, Thread
<1> QED
  BY <1>1 DEF SleepersCounted

(* A thread begins to wait and is counted, or ends its wait and no longer  *)
(* is.                                                                     *)
LEMMA MoveCounted ==
  ASSUME CallTypes, BlockedTypes, SleepersCounted, UNCHANGED kind, NEW t \in Thread,
         \A u \in Thread \ {t} : pc'[u] = pc[u],
         \/ pc[t] \notin Waits /\ pc'[t] \in Waits /\ Blocks(t)
         \/ pc[t] \in Waits /\ pc'[t] \notin Waits /\ Unblocks(t)
  PROVE  BlockedTypes' /\ SleepersCounted'
<1>1. BlockedTypes'
  BY DEF BlockedTypes, Blocks, Unblocks, Direction
<1> SUFFICES ASSUME kind = "bipc" PROVE SleepersCounted'
  BY <1>1 DEF SleepersCounted
<1>2. ASSUME NEW side \in {Sender, Receiver}, t \notin side
      PROVE  Waiting(side)' = Waiting(side)
  BY <1>2 DEF Waiting, Thread
<1>3. ASSUME NEW side \in {Sender, Receiver}, t \in side
      PROVE  /\ pc'[t] \in Waits => Waiting(side)' = Waiting(side) \cup {t}
             /\ pc'[t] \notin Waits => Waiting(side)' = Waiting(side) \ {t}
             /\ t \in Waiting(side) <=> pc[t] \in Waits
  <2>1. \A u \in side : u = t \/ pc'[u] = pc[u]
    BY DEF Thread
  <2> QED
    BY <1>3, <2>1 DEF Waiting, Waits
<1>4. ASSUME NEW side \in {Sender, Receiver}, t \in side
      PROVE  \/ Blocks(t) /\ Cardinality(Waiting(side)') = Cardinality(Waiting(side)) + 1
             \/ Unblocks(t) /\ Cardinality(Waiting(side)') = Cardinality(Waiting(side)) - 1
  <2>1. IsFiniteSet(Waiting(side)) /\ Cardinality(Waiting(side)) \in Nat
    BY WaitingFinite
  <2>2. CASE pc[t] \notin Waits /\ pc'[t] \in Waits /\ Blocks(t)
    <3>1. t \notin Waiting(side) /\ Waiting(side)' = Waiting(side) \cup {t}
      BY <1>3, <1>4, <2>2
    <3>2. Cardinality(Waiting(side) \cup {t}) = Cardinality(Waiting(side)) + 1
      BY <2>1, <3>1, FS_AddElement
    <3> QED
      BY <2>2, <3>1, <3>2
  <2>3. CASE pc[t] \in Waits /\ pc'[t] \notin Waits /\ Unblocks(t)
    <3>1. t \in Waiting(side) /\ Waiting(side)' = Waiting(side) \ {t}
      BY <1>3, <1>4, <2>3
    <3>2. Cardinality(Waiting(side) \ {t}) = Cardinality(Waiting(side)) - 1
      BY <2>1, <3>1, FS_RemoveElement
    <3> QED
      BY <2>3, <3>1, <3>2
  <2> QED
    BY <2>2, <2>3
<1>5. CASE t \in Sender
  <2>1. t \notin Receiver
    BY <1>5, MqHandleAssumption
  <2> QED
    BY <1>2, <1>4, <1>5, <2>1
       DEF SleepersCounted, BlockedTypes, Blocks, Unblocks, Direction
<1>6. CASE t \notin Sender
  <2>1. t \in Receiver
    BY <1>6 DEF Thread
  <2> QED
    BY <1>2, <1>4, <1>6, <2>1
       DEF SleepersCounted, BlockedTypes, Blocks, Unblocks, Direction
<1> QED
  BY <1>5, <1>6

(* Where a call is after each way to go on.                                *)
LEMMA WhereNext ==
  ASSUME CallTypes, NEW t \in Thread
  PROVE  /\ \A r : Finish(t, r) => pc' = [pc EXCEPT ![t] = "idle"]
         /\ WouldBlock(t) => pc' = [pc EXCEPT ![t] = "idle"] \/ pc' = [pc EXCEPT ![t] = "wait"]
         /\ Proceed(t) => pc' = [pc EXCEPT ![t] = "idle"] \/ pc' = [pc EXCEPT ![t] = "try"]
         /\ \A d : Sleep(t, d) => pc' = [pc EXCEPT ![t] = "asleep"]
BY DEF Finish, WouldBlock, Proceed, Sleep

LEMMA BipcStepCounted ==
  ASSUME CallTypes, BlockedTypes, SleepersCounted, NEW t \in Thread, BipcThread(t)
  PROVE  BlockedTypes' /\ SleepersCounted'
<1> USE DEF CallTypes
<1>0. UNCHANGED kind
  BY DEF BipcThread, BipcTrySend, BipcTryReceive, BipcNotify, BipcWaitBegins, BipcWakes,
         BipcTimesOut, bipcFrame
<1>1. ASSUME NEW p \in {"idle", "try", "wait", "notify"}, pc[t] \notin Waits,
             pc' = [pc EXCEPT ![t] = p], UNCHANGED blocked
      PROVE  BlockedTypes' /\ SleepersCounted'
  BY <1>0, <1>1, StayCounted DEF Waits, BlockedTypes
<1>2. ASSUME NEW p \in {"idle", "try"}, pc[t] \in Waits, pc' = [pc EXCEPT ![t] = p], Unblocks(t)
      PROVE  BlockedTypes' /\ SleepersCounted'
  BY <1>0, <1>2, MoveCounted DEF Waits
<1>3. CASE BipcTrySend(t) \/ BipcTryReceive(t)
  <2>1. pc[t] \notin Waits /\ UNCHANGED blocked
    BY <1>3 DEF BipcTrySend, BipcTryReceive, Waits
  <2>2. \E p \in {"idle", "wait", "notify"} : pc' = [pc EXCEPT ![t] = p]
    BY <1>3, WhereNext DEF BipcTrySend, BipcTryReceive, BipcTransfer
  <2> QED
    BY <1>1, <2>1, <2>2
<1>4. CASE BipcNotify(t)
  <2>1. UNCHANGED blocked /\ pc[t] = "notify"
    BY <1>4 DEF BipcNotify
  <2>2. \A u \in Thread : pc'[u] \in Waits <=> pc[u] \in Waits
    <3> DEFINE Asleep == {u \in OtherSide(t) : pc[u] = "asleep"}
    <3>1. PICK woken \in IF Asleep = {} THEN {{}} ELSE {{u} : u \in Asleep} :
            pc' = [u \in Thread |-> CASE u = t -> "idle"
                                      [] u \in woken -> "woken"
                                      [] OTHER -> pc[u]]
      BY <1>4 DEF BipcNotify
    <3>2. woken \subseteq Asleep
      BY <3>1
    <3>3. \A u \in woken : pc[u] = "asleep"
      BY <3>2
    <3> HIDE DEF Asleep
    <3> QED
      BY <2>1, <3>1, <3>3 DEF Waits
  <2> QED
    BY <1>0, <2>1, <2>2, StayCounted DEF BlockedTypes
<1>5. CASE BipcWaitBegins(t)
  <2>1. pc[t] \notin Waits
    BY <1>5 DEF BipcWaitBegins, Waits
  <2>2. CASE UNCHANGED blocked /\ (Proceed(t) \/ \E r : Finish(t, r))
    BY <1>1, <2>1, <2>2, WhereNext
  <2>3. CASE Blocks(t) /\ \E d : Sleep(t, d)
    <3>1. pc' = [pc EXCEPT ![t] = "asleep"]
      BY <2>3, WhereNext
    <3> QED
      BY <1>0, <2>1, <2>3, <3>1, MoveCounted DEF Waits
  <2> QED
    BY <1>5, <2>2, <2>3 DEF BipcWaitBegins
<1>6. CASE BipcWakes(t)
  <2>1. pc[t] = "woken"
    BY <1>6 DEF BipcWakes
  <2>2. CASE Unblocks(t) /\ (Proceed(t) \/ \E r : Finish(t, r))
    BY <1>2, <2>1, <2>2, WhereNext DEF Waits
  <2>3. CASE UNCHANGED blocked /\ Sleep(t, deadline[t])
    <3>1. pc' = [pc EXCEPT ![t] = "asleep"]
      BY <2>3, WhereNext
    <3> QED
      BY <1>0, <2>1, <2>3, <3>1, StayCounted DEF Waits, BlockedTypes
  <2> QED
    BY <1>6, <2>2, <2>3 DEF BipcWakes, InterruptedAwake
<1>7. CASE BipcTimesOut(t)
  <2>1. pc[t] \in Waits
    BY <1>7 DEF BipcTimesOut, Waits
  <2>2. Unblocks(t) /\ (Proceed(t) \/ \E r : Finish(t, r))
    BY <1>7 DEF BipcTimesOut, InterruptedAwake, GivesUp
  <2> QED
    BY <1>2, <2>1, <2>2, WhereNext
<1> QED
  BY <1>3, <1>4, <1>5, <1>6, <1>7 DEF BipcThread

(* The invariant is inductive.                                             *)
LEMMA NextCounted == CountInv /\ [MqNext]_mqVars => BlockedTypes' /\ SleepersCounted'
<1> SUFFICES ASSUME CountInv, [MqNext]_mqVars PROVE BlockedTypes' /\ SleepersCounted'
  OBVIOUS
<1>0. CallTypes
  BY DEF CountInv, InterruptInv, HandleTypes, Local
<1>1. ASSUME UNCHANGED <<kind, blocked>>,
             kind # "bipc" \/ \A u \in Thread : pc'[u] \in Waits <=> pc[u] \in Waits
      PROVE  BlockedTypes' /\ SleepersCounted'
  BY <1>1, StayCounted DEF CountInv, BlockedTypes, SleepersCounted
<1>2. ASSUME NEW t \in Thread, Begins(t) PROVE BlockedTypes' /\ SleepersCounted'
  <2>1. UNCHANGED <<kind, blocked>>
    BY <1>2 DEF Begins, OfPosix, OfBipc, PosixBegin, BipcBegin, bipcFrame
  <2>2. pc[t] = "idle" /\ \E p \in {"try", "wait"} : pc' = [pc EXCEPT ![t] = p]
    BY <1>2 DEF Begins, OfPosix, OfBipc, PosixBegin, BipcBegin, Begin
  <2> QED
    BY <1>0, <1>1, <2>1, <2>2 DEF Waits, CallTypes
<1>3. ASSUME NEW t \in Thread, Runs(t) PROVE BlockedTypes' /\ SleepersCounted'
  <2>1. CASE OfPosix(PosixThread(t))
    <3>1. kind = "posix" /\ UNCHANGED <<kind, blocked>>
      BY <2>1 DEF OfPosix, PosixThread, PosixTrySend, PosixTryReceive, PosixWaitBegins,
                  PosixWaitReady, PosixWaitInterrupted, PosixWaitTimesOut
    <3> QED
      BY <1>1, <3>1
  <2> QED
    BY <1>0, <1>3, <2>1, BipcStepCounted DEF Runs, OfBipc, CountInv
<1>4. ASSUME NEW t \in Thread, TimePasses(t) PROVE BlockedTypes' /\ SleepersCounted'
  BY <1>1, <1>4 DEF TimePasses, Tick
<1>5. ASSUME NEW t \in Thread, Controls(t) PROVE BlockedTypes' /\ SleepersCounted'
  <2>1. UNCHANGED <<kind, blocked>>
    BY <1>5 DEF Controls, OfPosix, OfBipc, PosixInterrupt, PosixAllow, PosixPipe, BipcInterrupt,
                BipcAllow, handleVars
  <2>2. CASE UNCHANGED pc
    BY <1>1, <2>1, <2>2
  <2>3. CASE WakeAll(t)
    BY <1>0, <1>1, <2>1, <2>3 DEF WakeAll, Waits, CallTypes
  <2> QED
    BY <1>5, <2>2, <2>3 DEF Controls, OfPosix, OfBipc, PosixInterrupt, PosixAllow, PosixPipe,
         BipcInterrupt, BipcAllow, handleVars, callVars
<1>6. CASE UNCHANGED mqVars
  BY <1>1, <1>6 DEF mqVars, handleVars, callVars
<1> QED
  BY <1>2, <1>3, <1>4, <1>5, <1>6 DEF MqNext

(* The shared counts of bipc::message_queue, which the class keeps up too, *)
(* are the numbers of threads in a wait, notified or not, whatever         *)
(* interrupts and timeouts ended others.                                   *)
THEOREM SleepersAlwaysCounted == MqSpec => []SleepersCounted
<1>1. MqInit => CountInv
  <2> SUFFICES ASSUME MqInit PROVE BlockedTypes /\ SleepersCounted
    BY InitInterrupt DEF CountInv
  <2>1. Waiting(Sender) = {} /\ Waiting(Receiver) = {}
    BY DEF MqInit, MqHandleInit, Waiting, Waits, Thread
  <2> QED
    BY <2>1, FS_EmptySet DEF MqInit, BipcInit, BlockedTypes, SleepersCounted
<1>2. CountInv /\ [MqNext]_mqVars => CountInv'
  BY NextInterrupt, NextCounted DEF CountInv
<1>3. CountInv => SleepersCounted
  BY DEF CountInv
<1> QED
  BY <1>1, <1>2, <1>3, PTL DEF MqSpec
=============================================================================
