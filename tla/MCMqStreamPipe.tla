--------------------------- MODULE MCMqStreamPipe ---------------------------
(* A state constraint for MqStreamPipe: the timers are on one at a time,   *)
(* with either of them one message is sent, over a queue without a native  *)
(* handle.                                                                 *)
EXTENDS MqStreamPipe

OneTimer ==
  /\ ~(idleOn /\ pingOn)
  /\ idleOn \/ pingOn => Len(sent) <= 1 /\ ~nativeHandle
=============================================================================
