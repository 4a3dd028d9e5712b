----------------------------- MODULE MCMqHandles -----------------------------
(* Threads of MqHandles: two receivers compete.                            *)
EXTENDS MqHandles

CONSTANTS s1, r1, r2

MCSender == {s1}
MCReceiver == {r1, r2}
MCSenderOnly == {s1}
MCReceiverOnly == {r1}
=============================================================================
