-------------------------- MODULE TimerEventEmitter --------------------------
(***************************************************************************)
(* util::sync_io::Timer_event_emitter, one timer and its signal pipe.      *)
(* Thread W of the emitter completes waits of the timer; a completed wait  *)
(* writes one byte into the pipe, whose read end the user's event loop     *)
(* watches.  Time is abstracted: a wait may expire at any moment, so       *)
(* moving a deadline shows only in what it cancels.                        *)
(***************************************************************************)
EXTENDS Integers

VARIABLES
  waits,  \* async_wait()s of the timer that are neither expired nor canceled
  fired,  \* expired waits whose handler has not yet run in thread W
  bytes   \* unread bytes in the signal pipe

vars == <<waits, fired, bytes>>

TypeOK == waits \in Nat /\ fired \in Nat /\ bytes \in Nat

Init == waits = 0 /\ fired = 0 /\ bytes = 0

(* Timer::expires_after() cancels every wait that has not expired.         *)
NCanceled == waits

(* expires_after() followed by timer_async_wait().                         *)
Schedule == waits' = 1 /\ UNCHANGED <<fired, bytes>>

(* expires_after() followed by timer_async_wait() only if a wait was       *)
(* canceled: otherwise the signal is already on its way.                   *)
Postpone ==
  /\ waits' = IF NCanceled = 1 THEN 1 ELSE 0
  /\ UNCHANGED <<fired, bytes>>

(* The deadline passes: every wait completes and can no longer be canceled.*)
Expire ==
  /\ waits > 0
  /\ fired' = fired + waits
  /\ waits' = 0
  /\ UNCHANGED bytes

(* The completion handler runs in thread W: pipe_produce().                *)
Signal ==
  /\ fired > 0
  /\ fired' = fired - 1
  /\ bytes' = bytes + 1
  /\ UNCHANGED waits

(* consume_timer_firing_signal(): pipe_consume() pops one byte.            *)
Consume ==
  /\ bytes > 0
  /\ bytes' = bytes - 1
  /\ UNCHANGED <<waits, fired>>

(* At most one of these exists at a time: a wait, a handler about to run,  *)
(* a byte in the pipe.  It is what the callers of expires_after() rely on  *)
(* when they take n_canceled to be 0 or 1.                                 *)
Outstanding == waits + fired + bytes
=============================================================================
