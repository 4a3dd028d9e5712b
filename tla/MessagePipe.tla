----------------------------- MODULE MessagePipe -----------------------------
(***************************************************************************)
(* What one direction of a Native_socket_stream promises its two users     *)
(* (the concepts Native_handle_sender and Native_handle_receiver): messages*)
(* arrive whole, once, and in order; the graceful close arrives after all  *)
(* of them; once the receiver got an error it gets nothing more.  A call   *)
(* that emits an error withdraws its message, which then never arrives.    *)
(***************************************************************************)
EXTENDS Integers, Sequences

CONSTANT Msg

VARIABLES
  sent,      \* messages accepted from the sender, in order
  received,  \* messages given to the receiver, in order
  ended,     \* the sender called *end_sending()
  status     \* of the receiver: "open", "finished" (graceful close), "failed"

vars == <<sent, received, ended, status>>

Init == sent = <<>> /\ received = <<>> /\ ended = FALSE /\ status = "open"

Send(m) ==
  /\ ~ended
  /\ sent' = Append(sent, m)
  /\ UNCHANGED <<received, ended, status>>

(* The call that sends the last message emits an error after all.          *)
Withdraw ==
  /\ Len(received) < Len(sent)
  /\ sent' = SubSeq(sent, 1, Len(sent) - 1)
  /\ UNCHANGED <<received, ended, status>>

EndSending ==
  /\ ~ended
  /\ ended' = TRUE
  /\ UNCHANGED <<sent, received, status>>

Receive ==
  /\ status = "open"
  /\ Len(received) < Len(sent)
  /\ received' = Append(received, sent[Len(received) + 1])
  /\ UNCHANGED <<sent, ended, status>>

ReceiveEnd ==
  /\ status = "open"
  /\ ended /\ received = sent
  /\ status' = "finished"
  /\ UNCHANGED <<sent, received, ended>>

Fail ==
  /\ status = "open"
  /\ status' = "failed"
  /\ UNCHANGED <<sent, received, ended>>

Next ==
  \/ \E m \in Msg : Send(m)
  \/ Withdraw \/ EndSending \/ Receive \/ ReceiveEnd \/ Fail

Spec == Init /\ [][Next]_vars

-----------------------------------------------------------------------------
(* What the users of any implementation may rely on: the receiver has a    *)
(* prefix of the messages sent ...                                         *)
ReceivedIsPrefixOfSent ==
  /\ Len(received) <= Len(sent)
  /\ \A i \in 1 .. Len(received) : received[i] = sent[i]

(* ... and is told of the end of sending only after all of them.           *)
FinishedMeansAllReceived == status = "finished" => ended /\ received = sent
=============================================================================
