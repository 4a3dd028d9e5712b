------------------------------- MODULE MqWire -------------------------------
(***************************************************************************)
(* The message queue between a Blob_stream_mq_sender and its receiver, of  *)
(* either kind: one with a kernel-waitable handle (Posix_mq_handle), or one*)
(* without (Bipc_mq_handle).  It outlives the processes.                   *)
(***************************************************************************)
EXTENDS Integers, Sequences

CONSTANTS
  Message,   \* non-empty blobs that fit the queue
  MqCap      \* the queue's maximum of messages

ASSUME MqCapAssumption == MqCap \in Nat \ {0}

(* Low-level payloads: an empty message escapes a control command, which   *)
(* is a number; a version is sent as its negation.                         *)
S_END_SENDING == 0
S_PING == 1
S_END_SENTINEL == 2
Escape == [kind |-> "escape", val |-> 0]
Command(raw) == [kind |-> "command", val |-> raw]
UserMsg(m) == [kind |-> "message", val |-> m]
MqPayload == {Escape} \cup {Command(raw) : raw \in {-1, S_END_SENDING, S_PING}}
               \cup {UserMsg(m) : m \in Message}

VARIABLES
  mq,            \* the queue
  nativeHandle   \* Persistent_mq_handle::S_HAS_NATIVE_HANDLE; does not change

mqVars == <<mq, nativeHandle>>

MqTypeOK == mq \in Seq(MqPayload) /\ Len(mq) <= MqCap /\ nativeHandle \in BOOLEAN

MqInit == mq = <<>> /\ nativeHandle \in BOOLEAN

Sendable == Len(mq) < MqCap
Receivable == mq # <<>>
=============================================================================
