----------------------------- MODULE MqsChannel -----------------------------
(***************************************************************************)
(* Mqs_channel and Mqs_socket_stream_channel: a channel the blob pipe of   *)
(* which is a peer of an outgoing queue and a peer of an incoming one,     *)
(* made in that order by the constructor, together with the names those    *)
(* queues and their sentinels keep for every process.  One process, Owner, *)
(* uses its peers through a channel.                                       *)
(***************************************************************************)
EXTENDS MqNames, Channel

CONSTANT Owner

ASSUME OwnerAssumption == Owner \in Process /\ Len(Roles[Owner]) = 2

mqsChannelVars == <<mqNamesVars, channelVars>>

MqsInit == NamesInit /\ ChannelInit

(* The blob pipe is made of two queues' peers; the handle pipe, if any, of *)
(* one socket stream.                                                      *)
MqsLayout == layout'[Blob] = "two" /\ layout'[Hndl] # "two"

ChannelGone ==
  /\ layout' = [p \in Pipe |-> "none"]
  /\ io' = "core"
  /\ object' = {} /\ watched' = {} /\ started' = {}
  /\ ended' = {} /\ pinging' = {} /\ idling' = {}
  /\ calling' = "no" /\ asked' = FALSE
  /\ syncErrCode' = [p \in Pipe |-> "wouldBlock"] /\ answer' = "none"
  /\ completing' = {} /\ midway' = {} /\ nDone' = 0 /\ errCode1' = "ok"
  /\ completed' = <<>> /\ told' = <<>> /\ overlapped' = {}
  /\ destroying' = FALSE

ChannelStep ==
  /\ stage[Owner] = "up"
  /\ ChannelNext
  /\ Has = {} => MqsLayout
  /\ UNCHANGED mqNamesVars

(* The deleters of the queues' handles run once the channel's pipes are    *)
(* gone.                                                                   *)
OwnerDestroys ==
  /\ destroying /\ object = {}
  /\ Destroys(Owner) /\ UNCHANGED <<mqKind, mode, cleaner>>
  /\ ChannelGone

OwnerCrashes ==
  /\ Crash(Owner) /\ UNCHANGED <<mqKind, mode, cleaner>>
  /\ ChannelGone

OwnerStep ==
  /\ Opens(Owner) \/ MakesPeers(Owner) \/ Deletes(Owner)
  /\ UNCHANGED <<mqKind, mode, cleaner, channelVars>>

OtherStep ==
  /\ CleanUp \/ \E p \in Process \ {Owner} : ProcessStep(p)
  /\ UNCHANGED channelVars

MqsNext == ChannelStep \/ OwnerStep \/ OwnerDestroys \/ OwnerCrashes \/ OtherStep

MqsSpec == MqsInit /\ [][MqsNext]_mqsChannelVars


=============================================================================
