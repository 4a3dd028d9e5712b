------------------------- MODULE MCSocketStreamPipe -------------------------
(* Values for the constants of SocketStreamPipe.                           *)
EXTENDS SocketStreamPipe

CONSTANTS h1

MCHandle == {h1}

MCMessage ==
  {[h |-> h1, b |-> <<>>],
   [h |-> NoHandle, b |-> <<0, 1>>],
   [h |-> NoHandle, b |-> <<1, 1, 1>>]} \* too long

MCStorageSize == {1, 2}

(* State constraint, one trouble at a time.  An idle timer, an endpoint    *)
(* that is gone, or storage that may be too small, each leave room for one *)
(* message, for none if pings were on; the idle timer is not joined with   *)
(* pings or with the end of a process; one end of the two may be gone.     *)
Trouble == idleOn \/ ~sndOpen \/ ~rcvOpen \/ rcvSize = 1
OneTrouble ==
  /\ Trouble => Len(sent) <= (IF pingOn THEN 0 ELSE 1)
  /\ ~(idleOn /\ (pingOn \/ ~sndOpen \/ ~rcvOpen))
  /\ sndOpen \/ rcvOpen
=============================================================================
